---------------------------- MODULE LzJsonFromLua ----------------------------
(***************************************************************************)
(* lz_json_from_lua (lz_jsonL.c): a Lua table is walked with lua_next on   *)
(* the Lua stack, by a function that calls itself for a table in a table;  *)
(* the steps are the rounds of its loop.                                   *)
(*                                                                         *)
(* Lua is modelled by what the calls made here do to the stack.  A Lua     *)
(* value is a number, a string, Nil or a boolean of JsonTree, or a table:  *)
(* its entries in the order in which lua_next gives them.                  *)
(* The stack of the model has no limit: Lua's has, and the code never asks *)
(* for more room (lua_checkstack), so what is said here is said of tables  *)
(* nested no deeper than that room allows.                                 *)
(***************************************************************************)
EXTENDS JsonTree, LzAtoi, SequencesExt

CONSTANTS
  LuaValues,      \* the Lua values there are, those in their tables among them
  LuaKeys,        \* the keys of those tables
  LuaNesting,     \* how deep the tables in each of them lie
  MaxLuaNesting   \* bound: the deepest of them

Tables == { v \in LuaValues : v.type = "table" }

\* The values of a table's entries are Lua values; no key stands twice, and
\* none is nil.
ASSUME LuaAssumption ==
  /\ Nil \notin LuaKeys
  /\ Tables \subseteq [type : {"table"}, entries : Seq([key : LuaKeys, val : LuaValues])]
  /\ \A t \in Tables : \A i, j \in DOMAIN t.entries :
       t.entries[i].key = t.entries[j].key => i = j

\* No table lies in itself: the function would never return.
ASSUME NestingAssumption ==
  /\ MaxLuaNesting \in Nat /\ LuaNesting \in [LuaValues -> 0..MaxLuaNesting]
  /\ \A t \in Tables : \A i \in DOMAIN t.entries : LuaNesting[t.entries[i].val] < LuaNesting[t]

VARIABLES
  given,       \* what was on top of the stack
  stack,       \* the Lua stack
  parents,     \* parent of each call of _lz_j_from_lua_idx, innermost last
  pc,          \* "start", "next" (head of the loop), "back" (a call for a
               \* table has returned) or "done"
  ret,         \* what the last call to return returned
  leaked       \* values made that nothing holds

lua == <<given, stack, parents, pc, ret, leaked>>

-----------------------------------------------------------------------------

Pop(n) == SubSeq(stack, 1, Len(stack) - n)
FromTop(n) == stack[Len(stack) + 1 - n]

LuaInit ==
  /\ given \in LuaValues /\ stack = <<given>>
  /\ parents = <<>> /\ pc = "start" /\ ret = NullPtr /\ leaked = <<>>

\* A call for the table on top of the stack: lua_pushnil, and no parent yet.
Enter(newStack, callers) ==
  /\ stack' = Append(newStack, Nil)
  /\ parents' = Append(callers, NullPtr)
  /\ pc' = "next"
  /\ UNCHANGED <<given, ret>>

\* A call returns v to the call before it, or to the program.
Return(v) ==
  /\ ret' = v /\ parents' = Front(parents)
  /\ pc' = IF Len(parents) = 1 THEN "done" ELSE "back"
  /\ UNCHANGED given

FromLua ==
  /\ pc = "start"
  /\ IF given.type = "table" THEN Enter(stack, parents)
     ELSE pc' = "done" /\ UNCHANGED <<given, stack, parents, ret>>
  /\ UNCHANGED leaked

\* The place of key k among the entries of t; nil comes before the first.
Place(t, k) ==
  IF k = Nil THEN 0 ELSE CHOOSE i \in DOMAIN t.entries : t.entries[i].key = k

\* lua_next(L, -2): the entries of the table below the top that are left
\* after the key on top.
Left == LET t == FromTop(2) IN SubSeq(t.entries, Place(t, FromTop(1)) + 1, Len(t.entries))

AtEntry == pc = "next" /\ Left # <<>>
key == Head(Left).key
val == Head(Left).val

\* The last parent, made for the first key there is.
Named == {"number", "string"}
Parent ==
  IF Last(parents) # NullPtr THEN Last(parents)
  ELSE IF key.type = "number" THEN Arr(<<>>) ELSE Obj(<<>>)

\* Faulty: numbers are not thought of.
CanGoOnStrings == Last(parents) # NullPtr \/ key.type = "string"

CanGoOn == Last(parents) # NullPtr \/ key.type \in Named

\* lz_json_add, with a key for a string and without one for all else: the
\* parent, the same when the kinds do not agree.
Added(parent, k, ent) ==
  CASE parent.type = "object" /\ k.type = "string" ->
         [parent EXCEPT !.members = <<Pairing(k.str, ent)>> \o @]
    [] parent.type = "array" /\ k.type # "string" ->
         [parent EXCEPT !.members = Append(@, Pairing(<<>>, ent))]
    [] OTHER -> parent

\* The result of lz_json_add is not looked at: what was not added is lost.
AddTo(parent, k, ent) ==
  LET now == Added(parent, k, ent) IN
  /\ parents' = Append(Front(parents), now)
  /\ leaked' = IF now = parent THEN Append(leaked, ent) ELSE leaked

\* Faulty: the number as it is.
LeafSigned(v) == v

\* lz_json_number_new takes an unsigned int.
Leaf(v) == IF v.type = "number" THEN Num(ToUnsigned(v.num)) ELSE v

\* No entry is left: lua_next pops the key.
End ==
  /\ pc = "next" /\ Left = <<>>
  /\ stack' = Pop(1)
  /\ Return(Last(parents))
  /\ UNCHANGED leaked

\* The first key is neither a number nor a string: NULL, and key and value
\* stay on the stack.
RefuseKey ==
  /\ AtEntry /\ ~CanGoOn
  /\ stack' = Pop(1) \o <<key, val>>
  /\ Return(NullPtr)
  /\ UNCHANGED leaked

\* A number or a string becomes a member.
AddLeaf ==
  /\ AtEntry /\ CanGoOn /\ val.type \in Named
  /\ stack' = Append(Pop(1), key)
  /\ AddTo(Parent, key, Leaf(val))
  /\ UNCHANGED <<given, pc, ret>>

\* Faulty: lua_next is given the key before again.
SkipInPlace ==
  /\ AtEntry /\ CanGoOn /\ val.type \notin Named \cup {"table"}
  /\ parents' = Append(Front(parents), Parent)
  /\ UNCHANGED <<given, stack, pc, ret, leaked>>

\* A value of another kind is passed over.
Skip ==
  /\ AtEntry /\ CanGoOn /\ val.type \notin Named \cup {"table"}
  /\ stack' = Append(Pop(1), key)
  /\ parents' = Append(Front(parents), Parent)
  /\ UNCHANGED <<given, pc, ret, leaked>>

Descend ==
  /\ AtEntry /\ CanGoOn /\ val.type = "table"
  /\ Enter(Pop(1) \o <<key, val>>, Append(Front(parents), Parent))
  /\ UNCHANGED leaked

\* Faulty: the value is left on the stack when it was converted to nothing.
ResumeNoPop ==
  /\ pc = "back"
  /\ stack' = IF ret = NullPtr THEN stack ELSE Pop(1)
  /\ IF ret = NullPtr THEN UNCHANGED <<parents, leaked>>
                      ELSE AddTo(Last(parents), FromTop(2), ret)
  /\ pc' = "next" /\ UNCHANGED <<given, ret>>

\* Back from the call for a table: what was below the top is taken for the
\* key.
Resume ==
  /\ pc = "back"
  /\ stack' = Pop(1)
  /\ IF ret = NullPtr THEN UNCHANGED <<parents, leaked>>
                      ELSE AddTo(Last(parents), FromTop(2), ret)
  /\ pc' = "next" /\ UNCHANGED <<given, ret>>

LuaNext == FromLua \/ End \/ RefuseKey \/ AddLeaf \/ Skip \/ Descend \/ Resume

LuaSpec == LuaInit /\ [][LuaNext]_lua /\ WF_lua(LuaNext)
-----------------------------------------------------------------------------
(* What the conversion should give.                                        *)

\* t and the Lua values in it, at any depth.
Inside[t \in LuaValues] ==
  {t} \cup (IF t.type = "table"
            THEN UNION { Inside[t.entries[i].val] : i \in DOMAIN t.entries } ELSE {})
TablesIn(t) == { u \in Inside[t] : u.type = "table" }

\* Every table in t has numbers for its keys or strings, not both.
Uniform(t) ==
  \A u \in TablesIn(t) :
    \E kind \in Named : \A i \in DOMAIN u.entries : u.entries[i].key.type = kind

\* Some table in t has another kind of key first.
OddFirstKey(t) ==
  \E u \in TablesIn(t) : u.entries # <<>> /\ u.entries[1].key.type \notin Named

ForArray(t) == t.entries[1].key.type = "number"

\* The members that the first n entries of t become, when each Lua value v
\* becomes c[v]; those of an object newest first.
Members(t, c) ==
  LET ms[n \in 0..Len(t.entries)] ==
        IF n = 0 THEN <<>>
        ELSE LET v == c[t.entries[n].val] IN
             IF v = NullPtr THEN ms[n - 1]
             ELSE IF ForArray(t) THEN Append(ms[n - 1], Pairing(<<>>, v))
             ELSE <<Pairing(t.entries[n].key.str, v)>> \o ms[n - 1]
  IN ms

\* A Lua value as JSON: an empty table is nothing, and so is what has no
\* counterpart here.
AsJson(v, c) ==
  IF v.type = "number" THEN Num(v.num % UIntSize)
  ELSE IF v.type = "string" THEN v
  ELSE IF v.type # "table" \/ v.entries = <<>> THEN NullPtr
  ELSE [type |-> IF ForArray(v) THEN "array" ELSE "object",
        members |-> Members(v, c)[Len(v.entries)]]
Converted[v \in LuaValues] == AsJson(v, Converted)
-----------------------------------------------------------------------------

\* lua_next is called only as Lua allows: on a table, with nil or a key of
\* that table; also where a refused table has left its key on the stack.
NextIsLegal ==
  pc = "next" =>
    /\ Len(stack) >= 2 /\ FromTop(2).type = "table"
    /\ \/ FromTop(1) = Nil
       \/ \E i \in DOMAIN FromTop(2).entries : FromTop(2).entries[i].key = FromTop(1)

\* What the program had on its stack stays there, and nothing is left on top
\* of it but when some table begins with a key that is no number or string.
StackKept ==
  /\ stack[1] = given
  /\ pc = "done" /\ ~OddFirstKey(given) => stack = <<given>>

\* Where no table mixes kinds of keys everything that has a counterpart is
\* converted, in order, and no value is lost.
UniformConverted ==
  pc = "done" /\ Uniform(given) =>
    ret = (IF given.type = "table" THEN Converted[given] ELSE NullPtr)
    /\ leaked = <<>>

\* The conversion comes to an end.
Ends == <>(pc = "done")
=============================================================================
