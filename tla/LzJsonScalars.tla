---------------------------- MODULE LzJsonScalars ----------------------------
(***************************************************************************)
(* The text of scalars: how the serializer writes numbers and the          *)
(* characters of strings (lz_json.c).                                      *)
(*                                                                         *)
(* A character is a digit "0".."9" or a name: "quote", "bslash",           *)
(* "newline", "ctl" (any other byte isprint rejects), "n" (a letter that   *)
(* may follow a backslash), "x" (one that may not) and the punctuation of  *)
(* JSON.                                                                   *)
(***************************************************************************)
EXTENDS LzAtoi, SequencesExt

\* Two digits of the table digits[].
Pair(i) == <<Digits[(i \div 10) + 1], Digits[(i % 10) + 1]>>

\* _addbuf_number: two digits at a time from the right.
NumberText(num) ==
  LET text[n \in Nat] ==
        IF n >= 100 THEN text[n \div 100] \o Pair(n % 100)
        ELSE IF n < 10 THEN <<Digits[n + 1]>>
        ELSE Pair(n)
  IN text[num]

\* _lz_j_escape_string, for one character.
Escape(c) == CASE c = "newline" -> <<"bslash", "n">>
               [] c = "quote"   -> <<"bslash", "quote">>
               [] c = "bslash"  -> <<"bslash", "bslash">>
               [] OTHER         -> <<c>>
=============================================================================
