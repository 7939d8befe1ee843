----------------------------- MODULE LzJsonPath -----------------------------
(***************************************************************************)
(* lz_json_path_get (lz_json.c): a value inside another, found by a path   *)
(* such as  b.[2].foo , read one character at a time.                      *)
(*                                                                         *)
(* The value is a tree of Nodes: Members gives the members of each object, *)
(* a function of their keys, and Items those of each array.  A member may  *)
(* be the null pointer, which two of the adders let in (LzJsonValues): it  *)
(* counts as an item, but nothing is found there.                          *)
(***************************************************************************)
EXTENDS LzAtoi

CONSTANTS
  Nodes,      \* the values
  NULL,       \* the null pointer
  Members,    \* the members of each object
  Items,      \* the items of each array
  Chars,      \* the characters of paths
  Paths,      \* the paths looked up
  StepSeqs    \* sequences of steps (see below) that paths are compared with

Objects == DOMAIN Members
Arrays == DOMAIN Items

ASSUME NodesAssumption ==
  /\ NULL \notin Nodes /\ "none" \notin Nodes \cup {NULL}
  /\ \A o \in Objects : \A key \in DOMAIN Members[o] : Members[o][key] \in Nodes \cup {NULL}
  /\ \A a \in Arrays : Items[a] \in Seq(Nodes \cup {NULL})

\* Value o has v for a member or an item.
Holds(o, v) ==
  \/ o \in Objects /\ \E key \in DOMAIN Members[o] : Members[o][key] = v
  \/ o \in Arrays /\ \E n \in DOMAIN Items[o] : Items[o][n] = v

\* No value is inside itself (NoCycle of LzJsonValuesProofs): of any set of
\* values one is in none of them.
ASSUME TreeAssumption ==
  /\ Objects \subseteq Nodes /\ Arrays \subseteq Nodes
  /\ \A S \in SUBSET Nodes : S # {} => \E v \in S : \A o \in S : ~Holds(o, v)

ASSUME StepsAssumption ==
  \A steps \in StepSeqs :
    /\ steps # <<>> /\ steps \in Seq([kind : {"key", "index"}, text : Seq(Chars)])
    /\ \A k \in DOMAIN steps :
         steps[k].text \in Seq(IF steps[k].kind = "key" THEN Chars \ {".", "["}
                               ELSE DigitSet)

ASSUME PathsAssumption == "nul" \notin Chars /\ Paths \subseteq Seq(Chars)

VARIABLES
  js, path,    \* the arguments
  i,           \* the index of the next character, from 1 here
  prev,        \* the value reached
  buf,         \* the characters of the key or index being read
  state,       \* "reading key", "reading array" or "reading array end"
  result       \* "none" until the call returns

vars == <<js, path, i, prev, buf, state, result>>

-----------------------------------------------------------------------------

\* lz_kvmap_find(lz_json_get_object(node), key).
Member(node, key) ==
  IF node \in Objects /\ key \in DOMAIN Members[node] THEN Members[node][key] ELSE NULL

\* Faulty: counts from one.
ItemFromOne(node, index) ==
  IF node \in Arrays /\ index \in DOMAIN Items[node] THEN Items[node][index] ELSE NULL

\* _array_index and lz_tailq_get_at_index: counts from zero.
Item(node, index) ==
  IF node \in Arrays /\ index + 1 \in DOMAIN Items[node]
  THEN Items[node][index + 1] ELSE NULL

Init ==
  /\ js \in Nodes \cup {NULL} /\ path \in Paths
  /\ i = 1 /\ prev = js /\ buf = <<>>
  /\ state = "reading key"
  /\ result = IF js = NULL THEN NULL ELSE "none"

\* The character at hand; the NUL that ends the path is the last.
ch == IF i <= Len(path) THEN path[i] ELSE "nul"

\* The end of a round: after the NUL the function returns, and the value it
\* was given counts as not found.
Advance ==
  /\ i' = i + 1
  /\ result' = IF ch # "nul" THEN "none" ELSE IF prev' # js THEN prev' ELSE NULL
  /\ UNCHANGED <<js, path>>

Reading(s) == result = "none" /\ state = s

\* Faulty: the bracket is stored as well.
StartIndexStored ==
  /\ Reading("reading key") /\ ch = "["
  /\ state' = "reading array" /\ buf' = Append(buf, ch)
  /\ UNCHANGED prev /\ Advance

\* '[': what was read of a key stays in buf.
StartIndex ==
  /\ Reading("reading key") /\ ch = "["
  /\ state' = "reading array"
  /\ UNCHANGED <<prev, buf>> /\ Advance

\* '.' or the end of the path: a step to a member.
FindMember ==
  /\ Reading("reading key") /\ ch \in {".", "nul"}
  /\ Member(prev, buf) # NULL
  /\ prev' = Member(prev, buf) /\ buf' = <<>>
  /\ UNCHANGED state /\ Advance

ReadKey ==
  /\ Reading("reading key") /\ ch \notin {"[", ".", "nul"}
  /\ buf' = Append(buf, ch)
  /\ UNCHANGED <<prev, state>> /\ Advance

\* ']': a step to an item.
FindItem ==
  /\ Reading("reading array") /\ ch = "]"
  /\ Item(prev, Atoi(buf)) # NULL
  /\ prev' = Item(prev, Atoi(buf)) /\ buf' = <<>>
  /\ state' = "reading array end"
  /\ Advance

\* Any other character is stored, the NUL at the end of the path included.
ReadIndex ==
  /\ Reading("reading array") /\ ch # "]"
  /\ buf' = Append(buf, ch)
  /\ UNCHANGED <<prev, state>> /\ Advance

\* The character after ']', whatever it is.
AfterIndex ==
  /\ Reading("reading array end")
  /\ state' = "reading key"
  /\ UNCHANGED <<prev, buf>> /\ Advance

\* A member or an item that is not there.
NotFound ==
  /\ \/ Reading("reading key") /\ ch \in {".", "nul"} /\ Member(prev, buf) = NULL
     \/ Reading("reading array") /\ ch = "]" /\ Item(prev, Atoi(buf)) = NULL
  /\ result' = NULL
  /\ UNCHANGED <<js, path, i, prev, buf, state>>

Next == \/ StartIndex \/ FindMember \/ ReadKey \/ FindItem \/ ReadIndex
        \/ AfterIndex \/ NotFound

Spec == Init /\ [][Next]_vars
-----------------------------------------------------------------------------
(* What a path means.  A step is a key or the digits of an index.          *)

KeyStep(text) == [kind |-> "key", text |-> text]
IndexStep(text) == [kind |-> "index", text |-> text]

StepText(step) == IF step.kind = "key" THEN step.text ELSE <<"[">> \o step.text \o <<"]">>

\* The path that writes the steps, with a dot between two of them.
Written(steps) ==
  LET text[k \in 0..Len(steps)] ==
        CASE k = 0 -> <<>>
          [] k = 1 -> StepText(steps[1])
          [] OTHER -> text[k - 1] \o <<".">> \o StepText(steps[k])
  IN text[Len(steps)]

\* The number that digits write, whatever its size.
NumberOf(text) ==
  LET value[k \in 0..Len(text)] ==
        IF k = 0 THEN 0 ELSE value[k - 1] * 10 + DigitValue(text[k])
  IN value[Len(text)]

\* The item of an array that n others come before.
Nth(node, n) ==
  IF node \in Arrays /\ n < Len(Items[node]) THEN Items[node][n + 1] ELSE NULL

\* The node that the steps lead to from node; an index that no int holds is
\* what is left of it modulo 2^Width.
Follow(node, steps) ==
  LET at[k \in 0..Len(steps)] ==
        IF k = 0 THEN node
        ELSE IF steps[k].kind = "key" THEN Member(at[k - 1], steps[k].text)
        ELSE Nth(at[k - 1], NumberOf(steps[k].text) % UIntSize)
  IN at[Len(steps)]
-----------------------------------------------------------------------------

TypeOK ==
  /\ js \in Nodes \cup {NULL} /\ path \in Seq(Chars)
  /\ i \in 1..(Len(path) + 2)
  /\ prev \in Nodes \/ (js = NULL /\ prev = NULL)
  /\ buf \in Seq(Chars \cup {"nul"})
  /\ state \in {"reading key", "reading array", "reading array end"}
  /\ result \in Nodes \cup {NULL, "none"}

\* buf has strlen(path) + 1 bytes, and the NUL that follows its characters
\* is stored too: even where the NUL of an unfinished index is among them
\* there is room.
BufFits == Len(buf) <= Len(path)

\* A path that writes steps leads where the steps lead.
WrittenSteps == { [steps |-> steps, text |-> Written(steps)] : steps \in StepSeqs }
WrittenPaths == { w.text : w \in WrittenSteps }
InRange(steps) == \A k \in DOMAIN steps :
                    steps[k].kind = "index" => NumberOf(steps[k].text) <= IntMax

FollowsPath ==
  result # "none" /\ js # NULL /\ path \in WrittenPaths =>
    \A w \in WrittenSteps :
      w.text = path /\ InRange(w.steps) => result = Follow(js, w.steps)

\* text begins the path, but for the characters after a ']'.
Begins(text) ==
  /\ Len(text) <= Len(path)
  /\ \A k \in DOMAIN text : path[k] = text[k] \/ (k > 1 /\ text[k - 1] = "]")

\* The path ends after text or in an index that is never closed.
EndsAfter(text) ==
  LET rest == SubSeq(path, Len(text) + 1, Len(path)) IN
  \/ rest = <<>>
  \/ \E k \in 2..Len(rest) : /\ rest[k] = "["
                             /\ \A j \in k + 1..Len(rest) : rest[j] # "]"
                             /\ \A j \in 2..k - 1 : rest[j] \notin {".", "["}

\* The ways to write steps that are understood: the digits of an index may
\* stand before its bracket as well.
StepForms(step) ==
  IF step.kind = "key" THEN {step.text}
  ELSE { SubSeq(step.text, 1, k) \o <<"[">>
         \o SubSeq(step.text, k + 1, Len(step.text)) \o <<"]">> :
           k \in 0..Len(step.text) }

\* A form of step k behind the text of the steps before it.
Joined(text, k, form) == text \o (IF k = 1 THEN <<>> ELSE <<".">>) \o form
Lengthened(texts, k, step) ==
  { Joined(text, k, form) : text \in texts, form \in StepForms(step) }

Forms(steps) ==
  LET forms[k \in 0..Len(steps)] ==
        IF k = 0 THEN {<<>>} ELSE Lengthened(forms[k - 1], k, steps[k])
  IN forms[Len(steps)]

\* What a path finds is where some steps lead that the path writes, read
\* leniently: any character may stand after a ']', and an index that is not
\* closed is dropped with the key before it.
OnlySteps ==
  result \in Nodes =>
    \E steps \in StepSeqs :
      /\ steps # <<>> /\ result = Follow(js, steps)
      /\ \E text \in Forms(steps) : Begins(text) /\ EndsAfter(text)

\* lz_json.h:239-243: in the value whose member "b" is an array of four, the
\* fourth an object with a member "foo", the path  b.[4].foo  finds that
\* member: indices count from one.
CountsFromOne ==
  result # "none" /\ js \in Nodes =>
    \A b \in Chars, n \in 1..9, foo \in Chars :
      path = <<b, ".", "[", Digits[n + 1], "]", ".", foo>>
      /\ Member(js, <<b>>) \in Arrays
      /\ n \in DOMAIN Items[Member(js, <<b>>)]
      => result = Member(Items[Member(js, <<b>>)][n], <<foo>>)
=============================================================================
