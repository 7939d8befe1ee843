----------------------------- MODULE MCLzKvmap -----------------------------
(* LzKvmap with a few entries and keys chosen to share buckets and hashes. *)
EXTENDS LzKvmap

\* "a" is a prefix of "ab"; "ab" and "b" have the same hash; "a", "ab" and
\* "b" share bucket 0, "c" has bucket 1.
CollidingHash == [k \in Keys |-> CASE k = "a" -> 0 [] k = "c" -> 1 [] OTHER -> 2]
ProperPrefix == {<<"a", "ab">>} \cup { <<k, k>> : k \in Keys }
=============================================================================
