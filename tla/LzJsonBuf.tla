------------------------------ MODULE LzJsonBuf ------------------------------
(***************************************************************************)
(* The output buffer of the serializer (struct __lzjbuf, lz_json.c): text  *)
(* is appended piece by piece to a buffer the caller gave, which must not  *)
(* be overrun, or to one that realloc enlarges.                            *)
(*                                                                         *)
(* What a value is printed as is a sequence of calls, known before the     *)
(* first is made: no call depends on how an earlier one went, except that  *)
(* the first that returns -1 ends the printing.  Requests is the set of    *)
(* such sequences; LzJsonPrint computes it from values.                    *)
(***************************************************************************)
EXTENDS Integers, Sequences

CONSTANTS
  Chars,       \* the characters text is made of
  Requests,    \* sequences of calls that print a value
  MaxLen,      \* bound: longest buffer a caller gives
  Grow         \* room added beyond what is asked for (32)

\* A call appends its text with _addbuf ("add"), formats it first with
\* _addbuf_printf ("format"), stops at an lz_assert ("abort") or is the
\* branch of _lz_j_to_buffer for a value of no type ("refuse").
Call == [how : {"add", "format", "abort", "refuse"}, text : Seq(Chars)]

ASSUME RequestsAssumption == Requests \subseteq Seq(Call)
ASSUME SizeAssumption == MaxLen \in Nat /\ Grow \in Nat

VARIABLES
  buf,         \* the characters in the buffer
  buf_idx, buf_len, written, dynamic,     \* the other fields
  request,     \* history: the calls that print the whole value
  calls,       \* those not made yet
  outcome      \* "printing", "done", "failed" (-1 returned), "aborted" (an
               \* lz_assert) or "no memory" (the assertion after realloc)

jbuf == <<buf, buf_idx, buf_len, written, dynamic>>
vars == <<jbuf, request, calls, outcome>>

-----------------------------------------------------------------------------

\* lz_json_to_buffer and lz_json_to_buffer_nescp are given a buffer and its
\* length; lz_json_to_buffer_alloc begins with none.
Init ==
  /\ buf = <<>> /\ buf_idx = 0 /\ written = 0
  /\ \/ dynamic = FALSE /\ buf_len \in 0..MaxLen
     \/ dynamic = TRUE /\ buf_len = 0
  /\ request \in Requests /\ calls = request
  /\ outcome = "printing"

Pending(how) == outcome = "printing" /\ calls # <<>> /\ Head(calls).how = how
Made == calls' = Tail(calls) /\ UNCHANGED <<dynamic, request>>

\* The call returned -1, and so does everything that led to it.
Fail == outcome' = "failed" /\ UNCHANGED jbuf

Room == buf_len - buf_idx

\* Faulty: the new room is counted from nothing, not from what is asked for.
EnlargedByGrow(text) ==
  IF dynamic /\ Len(text) > Room THEN buf_len + Grow ELSE buf_len

\* The length of the buffer after text has been made room for.
Enlarged(text) ==
  IF dynamic /\ Len(text) > Room THEN buf_len + Len(text) + Grow ELSE buf_len

\* Faulty: the room for the last character is forgotten.
FitsLoosely(text) == dynamic \/ Len(text) <= Room + 1

\* Text that does not fit a buffer of fixed length is refused whole.
Fits(text) == dynamic \/ Len(text) <= Room

\* memcpy to &buf[buf_idx].
Store(text) ==
  /\ buf' = SubSeq(buf, 1, buf_idx) \o text
  /\ buf_len' = Enlarged(text)
  /\ buf_idx' = buf_idx + Len(text)
  /\ written' = written + Len(text)
  /\ UNCHANGED outcome

\* _addbuf: no text, no change.
Addbuf(text) ==
  IF text = <<>> THEN UNCHANGED <<jbuf, outcome>>
  ELSE IF Fits(text) THEN Store(text)
  ELSE Fail

Add == Pending("add") /\ Made /\ Addbuf(Head(calls).text)

\* _addbuf_vprintf formats into a temporary as large as the room left,
\* which vsnprintf ends with a NUL: the text must be shorter than the room,
\* and the buffer is not enlarged for it.
AddFormatted ==
  /\ Pending("format") /\ Made
  /\ LET text == Head(calls).text IN
       IF Len(text) >= Room THEN Fail ELSE Addbuf(text)

\* realloc finds no memory: lz_alloc_assert aborts.
OutOfMemory ==
  /\ Pending("add") /\ Made
  /\ dynamic /\ Len(Head(calls).text) > Room
  /\ outcome' = "no memory" /\ UNCHANGED jbuf

\* A value that has no type: -1.
Refuse == Pending("refuse") /\ Made /\ Fail

\* lz_assert of a member that is NULL: abort().
Abort == Pending("abort") /\ Made /\ outcome' = "aborted" /\ UNCHANGED jbuf

Finish ==
  /\ outcome = "printing" /\ calls = <<>>
  /\ outcome' = "done"
  /\ UNCHANGED <<jbuf, request, calls>>

Next == Add \/ AddFormatted \/ OutOfMemory \/ Refuse \/ Abort \/ Finish

Spec == Init /\ [][Next]_vars
-----------------------------------------------------------------------------

TypeOK ==
  /\ buf \in Seq(Chars) /\ buf_idx = Len(buf)
  /\ buf_idx \in Nat /\ buf_len \in Nat /\ written \in Int
  /\ dynamic \in BOOLEAN
  /\ request \in Requests /\ calls \in Seq(Call)
  /\ outcome \in {"printing", "done", "failed", "aborted", "no memory"}

\* The buffer is never overrun, and what the caller is told was written is
\* what the buffer holds.
InBounds == written = Len(buf) /\ Len(buf) <= buf_len

\* A buffer the caller gave keeps its length; text once in a buffer stays.
BufferKept ==
  [][/\ ~dynamic => buf_len' = buf_len
     /\ buf_len' >= buf_len
     /\ SubSeq(buf', 1, buf_idx) = buf]_vars
=============================================================================
