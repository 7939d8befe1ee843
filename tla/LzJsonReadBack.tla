--------------------------- MODULE LzJsonReadBack ---------------------------
(***************************************************************************)
(* What the serializer of LzJsonPrint prints, read by the parser's         *)
(* scanners.                                                               *)
(***************************************************************************)
EXTENDS LzJsonPrint, LzJsonScan

-----------------------------------------------------------------------------
(* What the text should be: the reader of LzJsonParse, without its errors, *)
(* as a function of the text, with the scanners of LzJsonScan; zeros       *)
(* before a number, which JSON does not allow, are unreadable here.        *)

\* A value read, and the position after it.
Got(v, next) == [val |-> v, next |-> next]
Unreadable == Got(NullPtr, 0)

At(text, i) == IF i \in DOMAIN text THEN text[i] ELSE "end"
From(text, i) == SubSeq(text, i, Len(text))

RECURSIVE Read(_, _)

\* The members from position i on, up to the bracket close; read holds
\* those already read, in the order lz_kvmap and lz_tailq keep them.
RECURSIVE ReadMembers(_, _, _, _)
ReadMembers(text, i, close, read) ==
  LET named == close = "}"
      key == ScanString(From(text, i))
      colon == i + key.n_read + 1
      at == IF named THEN colon + 1 ELSE i
      v == Read(text, at)
      member == [key |-> IF named THEN key.value ELSE <<>>, val |-> v.val]
      now == IF named THEN <<member>> \o read ELSE Append(read, member)
  IN IF named /\ (~key.ok \/ At(text, colon) # ":") THEN Unreadable
     ELSE IF v = Unreadable THEN Unreadable
     ELSE IF At(text, v.next) = close
       THEN Got([type |-> IF named THEN "object" ELSE "array", members |-> now],
                v.next + 1)
     ELSE IF At(text, v.next) = "," THEN ReadMembers(text, v.next + 1, close, now)
     ELSE Unreadable

ReadContainer(text, i, close) ==
  IF At(text, i) = close
  THEN Got([type |-> IF close = "}" THEN "object" ELSE "array", members |-> <<>>],
           i + 1)
  ELSE ReadMembers(text, i, close, <<>>)

IsWord(text, i, word) ==
  i + Len(word) <= Len(text) + 1 /\ SubSeq(text, i, i + Len(word) - 1) = word

Read(text, i) ==
  CASE At(text, i) = "[" -> ReadContainer(text, i + 1, "]")
    [] At(text, i) = "{" -> ReadContainer(text, i + 1, "}")
    [] At(text, i) = "quote" ->
         LET s == ScanString(From(text, i)) IN
         IF s.ok THEN Got([type |-> "string", str |-> s.value], i + s.n_read + 1)
                 ELSE Unreadable
    [] At(text, i) \in DigitSet ->
         LET n == ScanNumber(From(text, i)) IN
         IF n.ok /\ (At(text, i) = "0" => n.n_read = 0)
         THEN Got([type |-> "number", num |-> n.value], i + n.n_read + 1)
         ELSE Unreadable
    [] IsWord(text, i, Word(TRUE)) -> Got([type |-> "bool", bool |-> TRUE], i + 4)
    [] IsWord(text, i, Word(FALSE)) -> Got([type |-> "bool", bool |-> FALSE], i + 5)
    [] IsWord(text, i, NullWord) -> Got([type |-> "null"], i + 4)
    [] OTHER -> Unreadable

\* What comes of a value that is printed and read: members of objects in
\* the opposite order, strings in the form they have in the text, and
\* numbers beyond the range of int as the largest of unsigned int.
RECURSIVE PrintedAndRead(_, _)
PrintedAndRead(v, esc) ==
  LET moved == [i \in DOMAIN v.members |->
                  [key |-> v.members[i].key,
                   val |-> PrintedAndRead(v.members[i].val, esc)]]
  IN CASE v.type = "array" -> [type |-> "array", members |-> moved]
       [] v.type = "object" -> [type |-> "object", members |-> Reverse(moved)]
       [] v.type = "string" ->
            [type |-> "string",
             str |-> IF esc THEN FlattenSeq([i \in DOMAIN v.str |-> Escape(v.str[i])])
                            ELSE <<>>]
       [] v.type = "number" /\ v.num > IntMax ->
            [type |-> "number", num |-> UIntSize - 1]
       [] OTHER -> v

\* No byte in a string that the reader rejects and the serializer does not
\* escape.
RECURSIVE Readable(_)
Readable(v) ==
  /\ v.type = "string" => \A i \in DOMAIN v.str : v.str[i] # "ctl"
  /\ v.type \in {"array", "object"} =>
       \A i \in DOMAIN v.members : Readable(v.members[i].val)

=============================================================================
