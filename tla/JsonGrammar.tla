---------------------------- MODULE JsonGrammar ----------------------------
(***************************************************************************)
(* Texts and the grammar of JSON (containers at the top), the reference    *)
(* the parser of lz_json.c is compared with.  A text is a sequence of      *)
(* cells.  A bracket, a comma, a colon, a space and a digit are a byte     *)
(* each, digits in a row being one number; a string, "true" and "null" are *)
(* several bytes in one cell (a string is not empty and begins with a      *)
(* letter).                                                                *)
(***************************************************************************)
EXTENDS SequencesExt

CONSTANT Strs                 \* the string cells
Space == " "
Digit == "1"
True == "true"
Null == "null"
Cut == "cut"                  \* a cell whose last byte is missing
Marks == {"[", "]", "{", "}", ",", ":"}
Scalars == Strs \cup {Digit, True, Null}
LongCells == Strs \cup {True, Null, Cut}
Cells == Marks \cup Scalars \cup {Space, Cut}

ASSUME StrsAssumption ==
  Strs \cap (Marks \cup {Space, Digit, True, Null, Cut}) = {}

\* The cells of s at the places K, in their order.
Kept(s, K) == FoldLeft(LAMBDA t, i : IF i \in K THEN Append(t, s[i]) ELSE t,
                       <<>>, [i \in DOMAIN s |-> i])

\* s[i..j] is digits.
Number(s, i, j) == \A k \in i..j : s[k] = Digit

\* A text without its spaces, but for those that part two numbers.
Parting(s) == {k \in DOMAIN s : \E i \in 1..(k - 1), j \in (k + 1)..Len(s) :
                 s[i] = Digit /\ s[j] = Digit /\ \A m \in (i + 1)..(j - 1) : s[m] = Space}
Squeeze(s) == Kept(s, {k \in DOMAIN s : s[k] # Space} \cup Parting(s))

\* The grammar, over a squeezed text: is s[i..j] a value, the inside
\* of an array, the inside of an object?
Derives(s) ==
  LET d[what \in {"value", "elements", "members"},
        i \in 1..Len(s), j \in 1..Len(s)] ==
    CASE what = "value" ->
           \/ i = j /\ s[i] \in Scalars
           \/ i < j /\ Number(s, i, j)
           \/ /\ i < j /\ s[i] = "[" /\ s[j] = "]"
              /\ j = i + 1 \/ d["elements", i + 1, j - 1]
           \/ /\ i < j /\ s[i] = "{" /\ s[j] = "}"
              /\ j = i + 1 \/ d["members", i + 1, j - 1]
      [] what = "elements" ->
           \/ d["value", i, j]
           \/ \E k \in (i + 1)..(j - 1) :
                s[k] = "," /\ d["value", i, k - 1] /\ d["elements", k + 1, j]
      [] what = "members" ->
           /\ i + 2 <= j /\ s[i] \in Strs /\ s[i + 1] = ":"
           /\ \/ d["value", i + 2, j]
              \/ \E k \in (i + 3)..(j - 1) :
                   s[k] = "," /\ d["value", i + 2, k - 1] /\ d["members", k + 1, j]
  IN d

\* The text is one array or object.
Valid(text) ==
  LET s == Squeeze(text) IN
  s # <<>> /\ s[1] \in {"[", "{"} /\ Derives(s)["value", 1, Len(s)]
=============================================================================
