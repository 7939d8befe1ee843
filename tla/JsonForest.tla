----------------------------- MODULE JsonForest -----------------------------
(***************************************************************************)
(* A set of JSON values with all that is in them, for what is defined by   *)
(* recursion over a value: none lies in itself.                            *)
(***************************************************************************)
EXTENDS JsonTree

CONSTANTS
  Values,      \* the values, and all that are in them
  Keys,        \* the keys of members; <<>> is that of an array's
  Nesting,     \* how deep the containers in each value lie
  MaxNesting   \* bound: the deepest of them

ASSUME ValueAssumption ==
  Values \subseteq {NullPtr, Nil} \cup [type : {"number"}, num : Int]
                   \cup [type : {"bool"}, bool : BOOLEAN]
                   \cup [type : {"string"}, str : Seq(STRING)]
                   \cup [type : Containers, members : Seq([key : Keys, val : Values])]

\* No value lies in itself (NoCycle of LzJsonValuesProofs).
ASSUME DepthAssumption ==
  /\ MaxNesting \in Nat /\ Nesting \in [Values -> 0..MaxNesting]
  /\ \A v \in Values : v.type \in Containers =>
       \A i \in DOMAIN v.members : Nesting[v.members[i].val] < Nesting[v]

\* v and the values in it, at any depth.
Within[v \in Values] ==
  {v} \cup (IF v.type \in Containers
            THEN UNION { Within[v.members[i].val] : i \in DOMAIN v.members } ELSE {})
ContainersIn(v) == { u \in Within[v] : u.type \in Containers }
MembersOf(v) == { v.members[i] : i \in DOMAIN v.members }

\* No string has a NUL in it, at any depth; there is no NULL among the
\* members; no two members of an object have the same key.
NoNul(v) ==
  \A u \in Within[v] : u.type = "string" => \A i \in DOMAIN u.str : u.str[i] # "nul"
NoNullMember(v) ==
  \A u \in ContainersIn(v) : \A m \in MembersOf(u) : m.val # NullPtr
DistinctKeys(v) ==
  \A u \in ContainersIn(v) : u.type = "object" =>
    \A i, j \in DOMAIN u.members : u.members[i].key = u.members[j].key => i = j
=============================================================================
