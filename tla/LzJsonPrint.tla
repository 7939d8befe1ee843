---------------------------- MODULE LzJsonPrint ----------------------------
(***************************************************************************)
(* The serializer (lz_json.c): a JSON value becomes a sequence of calls    *)
(* that append to the output buffer of LzJsonBuf.                          *)
(*                                                                         *)
(* The values are those of JsonForest.                                     *)
(***************************************************************************)
EXTENDS LzJsonBuf, LzJsonScalars, JsonForest

VARIABLES
  json,      \* the value being printed
  escape     \* the field of that name

pvars == <<vars, json, escape>>

-----------------------------------------------------------------------------

Calling(how, text) == [how |-> how, text |-> text]
Adding(text) == <<Calling("add", text)>>

Word(b) == IF b THEN <<"t", "r", "u", "e">> ELSE <<"f", "a", "l", "s", "e">>
NullWord == <<"n", "u", "l", "l">>

\* _lz_j_string_to_buffer: between the quotes the characters one by one,
\* escaped; without escape, none of them.
StringCalls(str, esc) ==
  Adding(<<"quote">>)
  \o (IF esc THEN [i \in DOMAIN str |-> Calling("add", Escape(str[i]))] ELSE <<>>)
  \o Adding(<<"quote">>)

\* The key of an object's member, as it is.
KeyCalls(key) == Adding(<<"quote">>) \o Adding(key) \o Adding(<<"quote", ":">>)


\* A comma after every member but the last.
CommaCalls(i, n) == IF i < n THEN Adding(<<",">>) ELSE <<>>

\* The i-th member of a container, whose key an array has not; a NULL member
\* is an assertion, before its key.  The calls for each value are printed.
MemberCalls(v, i, printed) ==
  IF v.members[i].val = NullPtr THEN <<Calling("abort", <<>>)>>
  ELSE (IF v.type = "object" THEN KeyCalls(v.members[i].key) ELSE <<>>)
       \o printed[v.members[i].val]
       \o CommaCalls(i, Len(v.members))

\* What stands between the brackets of a container.
AllMembers(v, printed) ==
  FlattenSeq([i \in DOMAIN v.members |-> MemberCalls(v, i, printed)])

\* _lz_j_to_buffer.
ValueCalls(v, esc, printed) ==
  CASE v.type = "number" -> Adding(NumberText(v.num))
    [] v.type = "array"  -> Adding(<<"[">>) \o AllMembers(v, printed) \o Adding(<<"]">>)
    [] v.type = "object" -> Adding(<<"{">>) \o AllMembers(v, printed) \o Adding(<<"}">>)
    [] v.type = "string" -> StringCalls(v.str, esc)
    [] v.type = "bool"   -> <<Calling("format", Word(v.bool))>>
    [] v.type = "null"   -> <<Calling("format", NullWord)>>
    [] v.type = "none"   -> <<Calling("refuse", <<>>)>>

Printed(esc) ==
  LET printed[v \in Values] == ValueCalls(v, esc, printed) IN printed
Calls(v, esc) == Printed(esc)[v]

\* lz_json_to_buffer escapes, lz_json_to_buffer_nescp does not, and
\* lz_json_to_buffer_alloc, which leaves the field out, does not either.
PrintInit ==
  /\ json \in Values /\ escape \in BOOLEAN
  /\ request = Calls(json, escape)
  /\ Init
  /\ dynamic => ~escape

PrintNext == Next /\ UNCHANGED <<json, escape>>

PrintSpec == PrintInit /\ [][PrintNext]_pvars
-----------------------------------------------------------------------------
(* When printing succeeds. *)

TextLength == Len(FlattenSeq([i \in DOMAIN request |-> request[i].text]))

\* Each outcome has its one reason.  A buffer of fixed length is enough
\* exactly when the text fits it, but that true, false and null alone want
\* a byte more.  A buffer that grows is enough for every value without true,
\* false or null; for those no room is made.  Only a NULL member stops the
\* program.
OutcomeExplained ==
  /\ outcome \in {"done", "failed"} /\ ~dynamic /\ json # NullPtr =>
       (outcome = "done" <=>
          TextLength + (IF json.type \in {"bool", "null"} THEN 1 ELSE 0) <= buf_len)
  /\ outcome = "failed" /\ dynamic /\ json # NullPtr =>
       \E i \in DOMAIN request : request[i].how = "format"
  /\ outcome = "aborted" => ~NoNullMember(json)

-----------------------------------------------------------------------------
(* What the header says of this code, and the code does not do. *)

\* lz_json.h:315, "same as lz_json_to_buffer but does not escape strings":
\* the characters of a string are in the text.
StringsKept ==
  outcome = "done" /\ json.type = "string" => Len(buf) >= Len(json.str) + 2
=============================================================================
