---------------------------- MODULE MCLzJsonLua ----------------------------
(* LzJsonLua on tables of up to two entries with keys of every kind, some  *)
(* in one another, and on what JSON values become.                         *)
EXTENDS LzJsonLua

\* Tables of Lua.
TableKeys == {Num(1), Num(2), Str("k"), Str("l"), Bool(TRUE)}
EntriesUpTo(n, keys, vals) ==
  { es \in SeqOf({ Pairing(k, v) : k \in keys, v \in vals }, n) :
      \A i, j \in DOMAIN es : es[i].key = es[j].key => i = j }
Flat == { Table(es) : es \in EntriesUpTo(2, {Num(1), Str("k"), Bool(TRUE)}, {Num(-1), Bool(TRUE)}) }
Nested == { Table(es) : es \in UNION { { <<Pairing(k, t)>>, <<Pairing(k, t), Pairing(l, Str("s"))>>,
                                       <<Pairing(l, Str("s")), Pairing(k, t)>> } :
                        k \in TableKeys \ {Num(2), Str("l")}, l \in {Num(2), Str("l")},
                        t \in Flat } }
Deep == { Table(<<Pairing(Str("k"), t), Pairing(k, Num(3))>>) : t \in Nested,
                                                              k \in {Str("l"), Num(1)} }

\* Values of JSON.
Leaves == {Num(0), Bool(TRUE), NullPtr}
SmallObjects == { Obj(ms) : ms \in SeqOf({ Pairing("k", v) : v \in Leaves }, 1) }
Small == { Arr(vs) : vs \in SeqOf(Leaves, 1) } \cup SmallObjects
SomeValues ==
  { Arr(vs) : vs \in SeqOf(Leaves \cup Small, 2) }
  \cup { Obj(ms) : ms \in SeqOf({ Pairing(k, v) : k \in {"k", "l"}, v \in Leaves \cup SmallObjects }, 2) }

SomeGivens == {Nil, Num(1)} \cup Flat \cup Nested \cup Deep
              \cup { LuaOf(v) : v \in SomeValues }

\* The Lua values in those.
RECURSIVE Within(_)
Within(t) == {t} \cup (IF t.type = "table"
                       THEN UNION { Within(t.entries[i].val) : i \in DOMAIN t.entries } ELSE {})
SomeLuaValues == UNION { Within(t) : t \in SomeGivens }
SomeKeys == TableKeys

RECURSIVE Depth(_)
Depth(t) == IF t.type # "table" THEN 0
            ELSE 1 + Max({0} \cup { Depth(t.entries[i].val) : i \in DOMAIN t.entries })
SomeNesting == [t \in SomeLuaValues |-> Depth(t)]
=============================================================================
