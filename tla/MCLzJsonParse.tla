--------------------------- MODULE MCLzJsonParse ---------------------------
(***************************************************************************)
(* LzJsonParse on texts chosen in two ways: every text of at most MaxLen   *)
(* cells of a small alphabet, and every text at most MaxEdits edits away   *)
(* from one of a few valid ones that nest arrays and objects.  At most one *)
(* space comes first.                                                      *)
(***************************************************************************)
EXTENDS LzJsonParse

CONSTANTS MCAlphabet, MaxLen, MaxEdits

Starts(s) == /\ Len(s) > 1
             /\ s[1] \in {"[", "{", Space}
             /\ s[1] = Space => s[2] # Space

\* Every short text.
Texts(cells) ==
  {s \in UNION {[1..n -> cells] : n \in 2..MaxLen} : Len(s) = 2 \/ Starts(s)}

Seeds ==
  { <<"{", "a", ":", "[", "1", ",", "{", "b", ":", "true", "}", "]", "}", " ">>,
    <<" ", "[", "{", "a", ":", "1", ",", "a", ":", "b", "}", ",", "[", "]", "]">>,
    <<"[", "[", "[", "1", "]", ",", "null", "]", ",", "{", "}", "]", " ">>,
    <<"{", "b", ":", "{", "a", ":", "null", " ", "}", " ", "}", " ">> }

Edits(s) ==
  {RemoveAt(s, i) : i \in 1..Len(s)}
    \cup {ReplaceAt(s, i, c) : i \in 1..Len(s), c \in MCAlphabet}
    \cup {InsertAt(s, i, c) : i \in 1..(Len(s) + 1), c \in MCAlphabet}

MCEdited ==
  LET edited[n \in Nat] ==
        IF n = 0 THEN Seeds
        ELSE edited[n - 1] \cup UNION {Edits(s) : s \in edited[n - 1]}
  IN  {s \in edited[MaxEdits] : Starts(s)}

\* Both; the short texts over the cells of arrays.
ArrayCells == {"[", "]", ",", Digit, Null, Space}
MCTexts == Texts(ArrayCells) \cup MCEdited
=============================================================================
