----------------------------- MODULE LzJsonLua -----------------------------
(***************************************************************************)
(* The bridge to Lua (lz_jsonL.c), both ways: lz_json_to_lua is a function *)
(* of the value, LuaOf, and what it gives goes back through                *)
(* lz_json_from_lua, the steps of LzJsonFromLua.                           *)
(***************************************************************************)
EXTENDS LzJsonFromLua

CONSTANT Values      \* JSON containers sent to Lua and back

Table(entries) == [type |-> "table", entries |-> entries]

-----------------------------------------------------------------------------
(* To Lua. *)

\* lua_settable: a value of nil removes the entry.
SetTable(entries, k, v) ==
  LET others == SelectSeq(entries, LAMBDA e : e.key # k) IN
  IF v = Nil THEN others ELSE Append(others, Pairing(k, v))

RECURSIVE LuaOf(_)

\* Faulty: begins with the last member.
EntriesBackwards(v) ==
  LET present == Reverse(SelectSeq(v.members, LAMBDA m : m.val # NullPtr))
      entries[i \in 0..Len(present)] ==
        IF i = 0 THEN <<>>
        ELSE SetTable(entries[i - 1],
                      IF v.type = "array" THEN Num(i) ELSE Str(present[i].key),
                      LuaOf(present[i].val))
  IN entries[Len(present)]

\* The entries for members, one after the other: the key of an array's
\* member counts those that are not NULL.
EntriesOf(v) ==
  LET present == SelectSeq(v.members, LAMBDA m : m.val # NullPtr)
      entries[i \in 0..Len(present)] ==
        IF i = 0 THEN <<>>
        ELSE SetTable(entries[i - 1],
                      IF v.type = "array" THEN Num(i) ELSE Str(present[i].key),
                      LuaOf(present[i].val))
  IN entries[Len(present)]

\* lz_json_to_lua pushes one value, nil for a boolean and for null.
LuaOf(v) ==
  CASE v.type \in {"number", "string"} -> v
    [] v.type \in Containers           -> Table(EntriesOf(v))
    [] OTHER                           -> Nil

-----------------------------------------------------------------------------
(* There and back. *)

NoPtr(m) == m.val # NullPtr

\* What is left of a JSON value that goes to Lua and comes back, without the
\* order of objects: no booleans, nulls and NULL pointers, nothing for a
\* container without entries, and of the members of one key the oldest.
Passes(v) == v.type \notin {"none", "bool", "null"}

RECURSIVE Survivor(_)
Survivor(v) ==
  LET given_ == SelectSeq(v.members, NoPtr)
      oldest == SelectSeq([i \in DOMAIN given_ |->
                  IF \E j \in i + 1..Len(given_) : given_[j].key = given_[i].key
                  THEN Pairing(<<>>, NullPtr) ELSE given_[i]],
                  LAMBDA m : Passes(m.val))
      passing == IF v.type = "object" THEN oldest
                 ELSE SelectSeq(given_, LAMBDA m : Passes(m.val))
      ms == SelectSeq([i \in DOMAIN passing |->
                         Pairing(passing[i].key, Survivor(passing[i].val))], NoPtr)
  IN IF v.type \notin Containers THEN v
     ELSE IF passing = <<>> THEN NullPtr
     ELSE [type |-> v.type, members |-> IF v.type = "array" THEN ms ELSE Range(ms)]

\* The same without the order of objects.
RECURSIVE Unordered(_)
Unordered(v) ==
  IF v.type \notin Containers THEN v
  ELSE LET ms == [i \in DOMAIN v.members |->
                    Pairing(v.members[i].key, Unordered(v.members[i].val))]
       IN [type |-> v.type, members |-> IF v.type = "array" THEN ms ELSE Range(ms)]
-----------------------------------------------------------------------------

\* JSON to Lua and back.
Sent == { [val |-> v, lua |-> LuaOf(v)] : v \in Values }

RoundTrip ==
  pc = "done" => \A s \in Sent : s.lua = given => Unordered(ret) = Survivor(s.val)
=============================================================================
