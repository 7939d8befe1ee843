------------------------------ MODULE LzJsonScan ------------------------------
(***************************************************************************)
(* How the parser's scanners read the text of scalars (lz_json.c), as      *)
(* functions on sequences of the characters of LzJsonScalars.              *)
(***************************************************************************)
EXTENDS LzAtoi, SequencesExt

\* What a scanner returns: whether it made a value, the value, and *n_read.
Scanned(ok, v, n) == [ok |-> ok, value |-> v, n_read |-> n]

\* lz_json_parse_number: the digits up to a character that is none; without
\* such a character, nothing.
ScanNumber(data) ==
  LET i == SelectInSeq(data, LAMBDA c : c \notin DigitSet) IN
  IF i = 0 THEN Scanned(FALSE, 0, Len(data) - 1)
  ELSE Scanned(TRUE, ToUnsigned(Atoi(SubSeq(data, 1, i - 1))), i - 2)

Unprintable == {"newline", "ctl"}
MayFollowBslash == {"quote", "bslash", "n"}

\* lz_json_parse_string from the i-th character on, after a backslash or
\* not: escapes are checked and kept as they are written.  *n_read counts
\* from the character after the opening quote.
RECURSIVE ScanFrom(_, _, _, _)
ScanFrom(data, i, escaped, read) ==
  IF i > Len(data) THEN Scanned(FALSE, <<>>, i - 2)
  ELSE LET ch == data[i] IN
    IF ch \in Unprintable \/ (escaped /\ ch \notin MayFollowBslash)
    THEN Scanned(FALSE, <<>>, i - 2)
    ELSE IF ~escaped /\ ch = "quote" THEN Scanned(TRUE, read, i - 1)
    ELSE ScanFrom(data, i + 1, ~escaped /\ ch = "bslash", Append(read, ch))

ScanString(data) ==
  IF data = <<>> \/ Head(data) # "quote" THEN Scanned(FALSE, <<>>, 0)
  ELSE ScanFrom(data, 2, FALSE, <<>>)
=============================================================================
