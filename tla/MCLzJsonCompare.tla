-------------------------- MODULE MCLzJsonCompare --------------------------
(* LzJsonCompare on scalars, and on containers of up to two of a few        *)
(* members, some of them containers themselves.                             *)
EXTENDS LzJsonCompare, SequencesExt

Strings == { Str(s) : s \in { <<>>, <<"x">>, <<"x", "nul">>, <<"nul", "x">> } }
Scalars == {NullPtr, Nil, Bool(TRUE), Bool(FALSE), Num(0), Num(1)} \cup Strings

ObjectKeys == { <<"k">>, <<"l">> }
Inner == {NullPtr, Num(0), Num(1), Arr(<<Num(0)>>), Obj(<<Pairing(<<"k">>, Num(0))>>),
          Obj(<<Pairing(<<"l">>, Num(0))>>)}
Arrays == { Arr(vs) : vs \in SeqOf(Inner, 2) }
Objects == { Obj(ms) : ms \in SeqOf({ Pairing(k, v) : k \in ObjectKeys, v \in Inner }, 2) }

SomeValues == Scalars \cup Arrays \cup Objects
SomeKeys == ObjectKeys \cup { <<>> }
SomeCallbacks == {[k \in SomeKeys |-> 0], [k \in SomeKeys |-> IF k = <<"l">> THEN 1 ELSE 0],
                  [k \in SomeKeys |-> IF k = <<"k">> THEN -1 ELSE 0]}

RECURSIVE Depth(_)
Depth(v) == IF v.type \notin Containers THEN 0
            ELSE 1 + Max({0} \cup { Depth(v.members[i].val) : i \in DOMAIN v.members })
SomeNesting == [v \in SomeValues |-> Depth(v)]
=============================================================================
