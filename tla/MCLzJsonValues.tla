--------------------------- MODULE MCLzJsonValues ---------------------------
(* LzJsonValues with a few values and names. *)
EXTENDS LzJsonValues
=============================================================================
