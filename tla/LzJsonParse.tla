---------------------------- MODULE LzJsonParse ----------------------------
(***************************************************************************)
(* lz_json_parse_buf and the functions it calls: recursive descent over a  *)
(* text, building lz_json values as it goes and freeing what it has built  *)
(* when the text is not JSON.  A frame of stack is a running call of       *)
(* lz_json_parse_array or lz_json_parse_object, the innermost last; a step *)
(* is one round of its loop, its return, or its error exit.                *)
(*                                                                         *)
(* A value is named by the position of the cell it begins at.  Text is     *)
(* abstracted to cells (see JsonGrammar): the scanning inside a string or  *)
(* a number is not modelled, where it ends and whether it succeeds is.     *)
(* Allocation does not fail (_lz_j_new aborts the process when it does).   *)
(***************************************************************************)
EXTENDS JsonGrammar

CONSTANT Inputs               \* the texts lz_json_parse_buf is given

ASSUME InputsAssumption ==
  \A s \in Inputs : s \in Seq(Cells \ {Cut}) /\ Len(s) > 1

VARIABLES
  input,       \* the text, data[0..len-1]
  buf,         \* what parse_buf passes on (indices are those of input)
  pos,         \* the position the innermost loop is at
  stack,       \* the running calls
  failing,     \* the innermost call has taken its error exit
  live,        \* the values allocated and not freed
  kids,        \* the members of each array (in order) and object (newest
               \* first): [key |-> a string cell or "", val |-> a value]
  nread,       \* *n_read as parse_buf leaves it, or Unset
  result       \* Running, Rejected (NULL), or the value returned

vars == <<input, buf, pos, stack, failing, live, kids, nread, result>>

Running == -1
Rejected == 0
Unset == -1
Positions == 1..(Len(input) + 1)

-----------------------------------------------------------------------------
(* Values. *)

\* The values allocated, and what they hold.
Held == live \cup {m.val : m \in UNION {ToSet(kids[w]) : w \in live}}

\* The values lz_json_free(v) frees, v and all it contains: the smallest set
\* with v that has the members of its members.
Closed(S) == \A w \in S : \A m \in ToSet(kids[w]) : m.val \in S
Tree(v) == {n \in Held : \A S \in SUBSET Held : v \in S /\ Closed(S) => n \in S}

\* The text a value stands for, its members in the order they were added.
Text(v) ==
  LET Join(parts) == FoldLeft(LAMBDA a, p : IF a = <<>> THEN p
                                            ELSE a \o <<",">> \o p, <<>>, parts)
      text[w \in Nat] ==
        CASE input[w] = "[" ->
               <<"[">> \o Join([i \in DOMAIN kids[w] |-> text[kids[w][i].val]])
                 \o <<"]">>
          [] input[w] = "{" ->
               LET ms == Reverse(kids[w])
               IN <<"{">> \o Join([i \in DOMAIN ms |->
                              <<ms[i].key, ":">> \o text[ms[i].val]]) \o <<"}">>
          [] input[w] = Digit ->
               SubSeq(input, w, Max({e \in w..Len(input) : Number(input, w, e)}))
          [] OTHER -> <<input[w]>>
  IN  text[v]

-----------------------------------------------------------------------------
(* The calls. *)

Frame(open) == [open |-> input[open], js |-> open, key |-> 0,
                state |-> IF input[open] = "[" THEN "val" ELSE "key",
                closed |-> FALSE]
Top == Last(stack)
Close(frame) == IF frame.open = "[" THEN "]" ELSE "}"

AtEnd == pos > Len(buf)
Cell == buf[pos]

\* The loop body runs: a cell is left and the call is still scanning.
Scanning == stack # <<>> /\ ~failing /\ ~AtEnd

SetTop(frame) == stack' = Front(stack) \o <<frame>>


\* _lz_j_array_add, or _lz_j_object_add and the freeing of the key, by the
\* call in frame f; i is then the position the value ended at.  An array
\* that sees its text end there takes the cell at i for its end_ch.
Added(f, v, i) ==
  [f EXCEPT !.key = 0, !.state = "comma",
            !.closed = f.open = "[" /\ i = Len(buf) /\ buf[i] = "]"]
\* Faulty: array members are put at the front, as object members are.
AddKidFirst(f, v) ==
  LET m == [key |-> IF f.open = "{" THEN input[f.key] ELSE "", val |-> v]
  IN  [kids EXCEPT ![f.js] = <<m>> \o @]

AddKid(f, v) ==
  LET m == [key |-> IF f.open = "{" THEN input[f.key] ELSE "", val |-> v]
  IN  [kids EXCEPT ![f.js] = IF f.open = "[" THEN Append(@, m) ELSE <<m>> \o @]

-----------------------------------------------------------------------------
(* lz_json_parse_buf. *)

Init ==
  /\ input \in Inputs
  /\ buf = <<>> /\ pos = 1
  /\ stack = <<>> /\ failing = FALSE
  /\ live = {} /\ kids = [p \in 1..Len(input) |-> <<>>]
  /\ nread = Unset /\ result = Running

Starting == stack = <<>> /\ result = Running /\ ~failing

BufSkipSpace ==
  /\ Starting /\ pos <= Len(input) /\ input[pos] = Space
  /\ pos' = pos + 1
  /\ UNCHANGED <<input, buf, stack, failing, live, kids, nread, result>>

\* The text without its last byte.
DropLastByte(s) ==
  IF Last(s) \in LongCells THEN Front(s) \o <<Cut>> ELSE Front(s)

\* The first cell opens a container.  Its parser is told that len - 1 bytes
\* follow from here: the last byte of the text is not among them unless a
\* space came first.  (More than one space would let it read past the text:
\* Inputs has none.)
BufCall ==
  /\ Starting /\ pos <= Len(input) /\ input[pos] \in {"[", "{"}
  /\ buf' = IF pos = 1 THEN DropLastByte(input) ELSE input
  /\ stack' = <<Frame(pos)>> /\ live' = {pos}
  /\ pos' = pos + 1
  /\ UNCHANGED <<input, failing, kids, nread, result>>

\* Any other cell: NULL, *n_read left as it was.
BufReject ==
  /\ Starting /\ pos <= Len(input) /\ input[pos] \notin {"[", "{", Space}
  /\ result' = Rejected
  /\ UNCHANGED <<input, buf, pos, stack, failing, live, kids, nread>>

\* Nothing but spaces.
BufBlank ==
  /\ Starting /\ pos > Len(input)
  /\ result' = Rejected /\ nread' = Len(input)
  /\ UNCHANGED <<input, buf, pos, stack, failing, live, kids>>

-----------------------------------------------------------------------------
(* The rounds of lz_json_parse_array and lz_json_parse_object. *)

\* Faulty: the loop does not advance past a space.
StickAtSpace == Scanning /\ Cell = Space /\ UNCHANGED vars

SkipSpace ==
  /\ Scanning /\ Cell = Space
  /\ pos' = pos + 1
  /\ UNCHANGED <<input, buf, stack, failing, live, kids, nread, result>>

\* The closing bracket, where a value, a key or a comma may stand.
CloseBracket ==
  /\ Scanning /\ Cell = Close(Top)
  /\ Top.state \in {"key", "comma"} \cup (IF Top.open = "[" THEN {"val"} ELSE {})
  /\ SetTop([Top EXCEPT !.state = "end", !.closed = TRUE])
  /\ pos' = pos + 1
  /\ UNCHANGED <<input, buf, failing, live, kids, nread, result>>

Comma ==
  /\ Scanning /\ Top.state = "comma" /\ Cell = ","
  /\ SetTop([Top EXCEPT !.state = IF Top.open = "[" THEN "val" ELSE "key"])
  /\ pos' = pos + 1
  /\ UNCHANGED <<input, buf, failing, live, kids, nread, result>>

\* lz_json_parse_key.
Key ==
  /\ Scanning /\ Top.state = "key" /\ Cell \in Strs
  /\ SetTop([Top EXCEPT !.state = "delim", !.key = pos])
  /\ live' = live \cup {pos}
  /\ pos' = pos + 1
  /\ UNCHANGED <<input, buf, failing, kids, nread, result>>

Colon ==
  /\ Scanning /\ Top.state = "delim" /\ Cell = ":"
  /\ SetTop([Top EXCEPT !.state = "val"])
  /\ pos' = pos + 1
  /\ UNCHANGED <<input, buf, failing, live, kids, nread, result>>

\* Faulty: null counted three bytes too long; a number that needs two more
\* bytes after it.
ScalarEndsFar ==
  IF Cell = Null THEN {pos + 3}
  ELSE IF Cell = Digit
  THEN {e \in pos..(Len(buf) - 1) : Number(buf, pos, e) /\ buf[e + 1] # Digit}
  ELSE IF Cell \in Scalars THEN {pos} ELSE {}
ScalarEndsLate ==
  IF Cell = Null THEN {pos + 1}
  ELSE IF Cell = Digit
  THEN {e \in pos..(Len(buf) - 2) : Number(buf, pos, e) /\ buf[e + 1] # Digit}
  ELSE IF Cell \in Scalars THEN {pos} ELSE {}

\* lz_json_parse_value of a string, a number, a boolean or null: the one
\* position it may end at, or none.  A number is all the digits there are and
\* must be followed by another byte.  parse_null counts one byte too many, so
\* the loop goes on after the byte that follows it.
ScalarEnds ==
  IF Cell = Null THEN {pos + 1}
  ELSE IF Cell = Digit
  THEN {e \in pos..(Len(buf) - 1) : Number(buf, pos, e) /\ buf[e + 1] # Digit}
  ELSE IF Cell \in Scalars THEN {pos} ELSE {}
Scalar ==
  /\ Scanning /\ Top.state = "val"
  /\ \E e \in ScalarEnds : SetTop(Added(Top, pos, e)) /\ pos' = e + 1
  /\ live' = (live \cup {pos}) \ {Top.key}
  /\ kids' = AddKid(Top, pos)
  \* What is left of a long cell is no comma and no bracket
  /\ failing' = (Cell = Null /\ pos < Len(buf) /\ buf[pos + 1] \in LongCells)
  /\ UNCHANGED <<input, buf, nread, result>>

\* lz_json_parse_value of an array or an object.
Open ==
  /\ Scanning /\ Top.state = "val" /\ Cell \in {"[", "{"}
  /\ stack' = Append(stack, Frame(pos))
  /\ live' = live \cup {pos}
  /\ pos' = pos + 1
  /\ UNCHANGED <<input, buf, failing, kids, nread, result>>

\* The switch on the state has no place for this cell.
Misplaced ==
  /\ Scanning /\ Cell # Space
  /\ CASE Top.state = "key" -> Cell \notin Strs \cup {"}"}
       [] Top.state = "delim" -> Cell # ":"
       [] Top.state = "comma" -> Cell \notin {",", Close(Top)}
       [] Top.state = "val" -> ScalarEnds = {} /\ Cell \notin {"[", "{"}
                               /\ ~(Top.open = "[" /\ Cell = "]")
       [] Top.state = "end" -> FALSE
  /\ failing' = TRUE
  /\ UNCHANGED <<input, buf, pos, stack, live, kids, nread, result>>

\* The text ends, or goes on after the closing bracket.
LoopOver ==
  /\ stack # <<>> /\ ~failing
  /\ ~AtEnd => Top.state = "end" /\ Cell # Space

\* The call returns its value, and its caller adds it.
Return ==
  /\ LoopOver /\ Top.closed /\ Len(stack) > 1
  /\ LET caller == stack[Len(stack) - 1] IN
     /\ stack' = SubSeq(stack, 1, Len(stack) - 2)
                   \o <<Added(caller, Top.js, pos - 1)>>
     /\ kids' = AddKid(caller, Top.js)
     /\ live' = live \ (({Top.key} \cup {caller.key}) \ {0})
  /\ UNCHANGED <<input, buf, pos, failing, nread, result>>

\* The outermost call returns; parse_buf pays no heed to what follows.
ReturnRoot ==
  /\ LoopOver /\ Top.closed /\ Len(stack) = 1
  /\ stack' = <<>> /\ result' = Top.js
  /\ nread' = Len(input)
  /\ UNCHANGED <<input, buf, pos, failing, live, kids>>

\* The text ends before the closing bracket.
Unfinished ==
  /\ LoopOver /\ ~Top.closed
  /\ failing' = TRUE
  /\ UNCHANGED <<input, buf, pos, stack, live, kids, nread, result>>

\* Faulty: the members are not freed.
FreedShallow(f) == {f.js} \cup ({f.key} \ {0})

\* The error exit: the call frees its key and its value and returns NULL,
\* which sends its caller the same way.  parse_buf reports where the failing
\* object began, and nothing for an array.
Freed(f) == Tree(f.js) \cup ({f.key} \ {0})
Unwind ==
  /\ failing
  /\ live' = live \ Freed(Top)
  /\ stack' = Front(stack)
  /\ IF Len(stack) = 1
     THEN /\ failing' = FALSE /\ result' = Rejected
          /\ nread' = IF Top.open = "{" THEN Top.js - 1 ELSE nread
     ELSE UNCHANGED <<failing, result, nread>>
  /\ UNCHANGED <<input, buf, pos, kids>>

-----------------------------------------------------------------------------

Buffer == BufSkipSpace \/ BufCall \/ BufReject \/ BufBlank
Scan == \/ SkipSpace \/ CloseBracket \/ Comma \/ Key \/ Colon
        \/ Scalar \/ Open \/ Misplaced
Leave == Return \/ ReturnRoot \/ Unfinished \/ Unwind

Next == Buffer \/ Scan \/ Leave

Spec == Init /\ [][Next]_vars

\* The parser runs to its end: it never waits.
FairSpec == Spec /\ WF_vars(Next)

-----------------------------------------------------------------------------

Frames == [open : {"[", "{"}, js : 1..Len(input), key : 0..Len(input),
           state : {"key", "delim", "val", "comma", "end"}, closed : BOOLEAN]

TypeOK ==
  /\ input \in Seq(Cells)
  /\ buf = <<>> \/ buf = input \/ buf = DropLastByte(input)
  /\ pos \in 1..(Len(input) + 2)
  /\ stack \in Seq(Frames)
  /\ failing \in BOOLEAN
  /\ live \in SUBSET (1..Len(input))
  /\ kids \in [1..Len(input) ->
                 Seq([key : Strs \cup {""}, val : 1..Len(input)])]
  /\ nread \in {Unset} \cup 0..Len(input)
  /\ result \in {Running, Rejected} \cup 1..Len(input)

\* Every value the parser has made is in exactly one place: in the tree of
\* one running call, waiting as one call's key, or in the result.  So the
\* error exits, taken at any depth, free everything exactly once, and a
\* rejected text leaves nothing behind.
Roots == {stack[i].js : i \in DOMAIN stack}
           \cup ({stack[i].key : i \in DOMAIN stack} \ {0})
           \cup ({result} \ {Running, Rejected})
ValuesOwnedOnce ==
  /\ live = UNION {Tree(r) : r \in Roots}
  /\ \A r, q \in Roots : r # q => Tree(r) \cap Tree(q) = {}
  /\ \A v \in live : \A i, j \in DOMAIN kids[v] :
       i # j => Tree(kids[v][i].val) \cap Tree(kids[v][j].val) = {}

Accepted == result \notin {Running, Rejected}

NoNull == Null \notin ToSet(input)

\* A value read from a valid text without null is that text: no member is
\* lost, doubled, moved to another container or given another key.
ReadsWhatIsWritten ==
  Accepted /\ NoNull /\ Valid(input) => Text(result) = Squeeze(input)

\* What the parser can be relied on to accept: a valid text that does not
\* use null and is followed or preceded by one space.
Padded == Last(input) = Space \/ Head(input) = Space
AcceptsPlainText ==
  result = Rejected => ~(Padded /\ NoNull /\ Valid(input))

\* What it accepts beyond JSON, as far as null is not used: a comma between
\* the last member and its closing bracket, anything after the closing bracket
\* of the whole value, and arrays that lack their brackets at the very end of
\* the text, where the last byte is the bracket of an array that is the last
\* member of the innermost of them (each then takes that byte for its own).
\* Nothing else: no array that ends with another byte, and never an object,
\* is closed by the end of the text.
DropCommas(s) ==
  Kept(s, {i \in DOMAIN s : ~(/\ s[i] = "," /\ 1 < i /\ i < Len(s)
                              /\ s[i - 1] \notin {"[", "{"} /\ s[i + 1] \in {"]", "}"})})

\* Every text is accepted or rejected.
ParseEnds == <>(result # Running)

-----------------------------------------------------------------------------
(* What the header says of this code, and the code does not do. *)

\* lz_json.h:99, "parse a buffer containing raw json and convert it to the
\* internal lz_json": the value read from a valid text is that text.
ConvertsAsWritten == Accepted /\ Valid(input) => Text(result) = Squeeze(input)
=============================================================================
