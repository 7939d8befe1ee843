---------------------------- MODULE LzJsonValues ----------------------------
(***************************************************************************)
(* The JSON values a program builds, links, takes apart and frees          *)
(* (lz_json.c), above the maps and queues that hold the members.  A        *)
(* container owns its members: whoever frees it frees them, and a value    *)
(* handed to a container is the program's no longer.                       *)
(*                                                                         *)
(* The contract the model grants, which lz_json.h leaves unsaid: a program *)
(* adds and frees only values it owns (roots), and adds none to its own    *)
(* tree.  Borrowed pointers (lookups) are not tracked; any container the   *)
(* program can reach may be changed through one.                           *)
(*                                                                         *)
(* Members of objects are kept newest first, as lz_kvmap lists them, those *)
(* of arrays in the order they were added.                                 *)
(***************************************************************************)
EXTENDS Integers, SequencesExt

CONSTANTS
  Nodes,        \* blocks the heap can return for a value
  Null,         \* the NULL pointer
  Keys,         \* member names
  NoKey,        \* a NULL name, and the name of an array's member
  MaxMembers    \* bound: members of one container

ASSUME NullAssumption == Null \notin Nodes /\ NoKey \notin Keys
ASSUME MaxMembersAssumption == MaxMembers \in Nat

VARIABLES
  taken,        \* taken[n]: how often the heap has handed n out, less how
                \* often it was given back
  type,         \* type[n]: the tag of n, which says what its union holds
  members,      \* members[n]: its members, records of a key and a value
  roots,        \* values the program owns
  freeing,      \* the running calls of lz_json_free, the innermost last
  clearing,     \* the container whose map or queue is being cleared, or Null
  doomed        \* history: values the running calls have still to free

vars == <<taken, type, members, roots, freeing, clearing, doomed>>

-----------------------------------------------------------------------------

Types == {"object", "array", "scalar"}

\* The values allocated and not yet freed.
live == { n \in Nodes : taken[n] > 0 }

Member == [key : Keys \cup {NoKey}, val : Nodes \cup {Null}]
Val(c, i) == members[c][i].val

\* n is a member of c.
In(n, c) == \E i \in DOMAIN members[c] : Val(c, i) = n

\* The values reachable from v: the smallest set with v that has the
\* members of its members.
Closed(S) == \A c \in S : \A n \in live : In(n, c) => n \in S
Tree(v) == { n \in live : \A S \in SUBSET live : v \in S /\ Closed(S) => n \in S }

\* No library call is under way.
Idle == freeing = <<>> /\ clearing = Null

Init ==
  /\ taken = [n \in Nodes |-> 0] /\ roots = {}
  /\ type = [n \in Nodes |-> "none"]
  /\ members = [n \in Nodes |-> <<>>]
  /\ freeing = <<>> /\ clearing = Null /\ doomed = {}

-----------------------------------------------------------------------------
(* Constructors. *)

\* lz_json_new_object, lz_json_new_array, lz_json_string_new and the other
\* scalars: a block of the heap with its tag and an empty container.
New(n, ty) ==
  /\ Idle /\ n \notin live
  /\ taken' = [taken EXCEPT ![n] = @ + 1] /\ roots' = roots \cup {n}
  /\ type' = [type EXCEPT ![n] = ty]
  /\ members' = [members EXCEPT ![n] = <<>>]
  /\ UNCHANGED <<freeing, clearing, doomed>>

-----------------------------------------------------------------------------
(* Adding. *)

\* What a program may pass to an adder.
MayAdd(c, v) ==
  /\ Idle
  /\ v # Null => v \in roots /\ c \notin Tree(v)
  /\ c # Null => Len(members[c]) < MaxMembers

\* An adder returns -1: the value stays with the program.
Refuse == UNCHANGED vars

\* An adder returns 0: v is c's now, in the list l.
Link(c, l, v) ==
  /\ members' = [members EXCEPT ![c] = l]
  /\ roots' = roots \ {v}
  /\ UNCHANGED <<taken, type, freeing, clearing, doomed>>

IsA(c, ty) == c # Null /\ type[c] = ty

\* _lz_j_object_add and _lz_j_object_add_klen.
ObjectAdd(c, k, v) ==
  IF IsA(c, "object") THEN Link(c, <<[key |-> k, val |-> v]>> \o members[c], v)
                      ELSE Refuse

\* _lz_j_array_add.
ArrayAdd(c, v) ==
  IF IsA(c, "array") THEN Link(c, Append(members[c], [key |-> NoKey, val |-> v]), v)
                     ELSE Refuse

\* lz_json_object_add refuses NULL for any argument.
AddToObject(c, k, v) ==
  IF c = Null \/ k = NoKey \/ v = Null THEN Refuse ELSE ObjectAdd(c, k, v)

\* lz_json_object_add_klen refuses no NULL value.
AddToObjectKlen(c, k, v) ==
  /\ MayAdd(c, v) /\ k # NoKey
  /\ ObjectAdd(c, k, v)

\* lz_json_array_add refuses none either.
AddToArray(c, v) == MayAdd(c, v) /\ ArrayAdd(c, v)

\* lz_json_add: a name means an object, no name an array.
AddByKind(c, k, v) ==
  /\ MayAdd(c, v)
  /\ IF k = NoKey THEN ArrayAdd(c, v) ELSE AddToObject(c, k, v)

AddNamed(c, k, v) == MayAdd(c, v) /\ AddToObject(c, k, v)

-----------------------------------------------------------------------------
(* Freeing and removing. *)

\* lz_json_free begins with a value the program owns.
FreeStart(v) ==
  /\ Idle /\ v \in roots
  /\ roots' = roots \ {v}
  /\ freeing' = <<v>>
  /\ doomed' = Tree(v)
  /\ UNCHANGED <<taken, type, members, clearing>>

\* Faulty: the program goes on owning what the map frees.
RemoveMemberShared(o, i) ==
  /\ Idle /\ o \in live /\ type[o] = "object" /\ i \in DOMAIN members[o]
  /\ members' = [members EXCEPT ![o] = RemoveAt(members[o], i)]
  /\ freeing' = IF Val(o, i) = Null THEN <<>> ELSE <<Val(o, i)>>
  /\ doomed' = IF Val(o, i) = Null THEN {} ELSE Tree(Val(o, i))
  /\ roots' = roots \cup ({Val(o, i)} \ {Null})
  /\ UNCHANGED <<taken, type, clearing>>

\* lz_kvmap_remove_ent on an entry of lz_json_get_object(o), shadowed or not:
\* the member is taken out and its value freed.
RemoveMember(o, i) ==
  /\ Idle /\ o \in live /\ type[o] = "object" /\ i \in DOMAIN members[o]
  /\ members' = [members EXCEPT ![o] = RemoveAt(members[o], i)]
  /\ freeing' = IF Val(o, i) = Null THEN <<>> ELSE <<Val(o, i)>>
  /\ doomed' = IF Val(o, i) = Null THEN {} ELSE Tree(Val(o, i))
  /\ UNCHANGED <<taken, type, roots, clearing>>

\* The member at i of o is the newest named k.
IsNewest(o, k, i) ==
  /\ i \in DOMAIN members[o] /\ members[o][i].key = k
  /\ \A j \in DOMAIN members[o] : members[o][j].key = k => i <= j

\* lz_kvmap_remove on the same map: the newest member of that name.
RemoveKey(o, k) == \E i \in DOMAIN members[o] : IsNewest(o, k, i) /\ RemoveMember(o, i)

\* lz_tailq_elem_remove on an element of lz_json_get_array(a): the program
\* has the element, and with it the value, again.
TakeOut(a, i) ==
  /\ Idle /\ a \in live /\ type[a] = "array" /\ i \in DOMAIN members[a]
  /\ members' = [members EXCEPT ![a] = RemoveAt(members[a], i)]
  /\ roots' = roots \cup ({Val(a, i)} \ {Null})
  /\ UNCHANGED <<taken, type, freeing, clearing, doomed>>

\* lz_kvmap_clear or lz_tailq_clear on what a container holds.
ClearStart(c) ==
  /\ Idle /\ c \in live /\ type[c] # "scalar"
  /\ clearing' = c
  /\ doomed' = Tree(c) \ {c}
  /\ UNCHANGED <<taken, type, members, roots, freeing>>

\* Faulty: the member is freed and not taken off the list.
FreeFirstListed(c) ==
  LET v == Head(members[c]).val IN
  /\ members[c] # <<>>
  /\ freeing' = IF v = Null THEN freeing ELSE Append(freeing, v)
  /\ UNCHANGED <<taken, type, members, roots, clearing, doomed>>

\* lz_kvmap_free, lz_tailq_free and the clears: the first member comes off
\* its list, then its value, unless NULL, is freed.
FreeFirst(c) ==
  LET v == Head(members[c]).val IN
  /\ members[c] # <<>>
  /\ members' = [members EXCEPT ![c] = Tail(members[c])]
  /\ freeing' = IF v = Null THEN freeing ELSE Append(freeing, v)
  /\ UNCHANGED <<taken, type, roots, clearing, doomed>>

FreeMember == freeing # <<>> /\ FreeFirst(Last(freeing))

\* Faulty: lz_json_free gives the block back with its members still in it.
FreeNodeShallow ==
  /\ freeing # <<>>
  /\ taken' = [taken EXCEPT ![Last(freeing)] = @ - 1]
  /\ type' = [type EXCEPT ![Last(freeing)] = "none"]
  /\ members' = [members EXCEPT ![Last(freeing)] = <<>>]
  /\ freeing' = Front(freeing)
  /\ doomed' = doomed \ {Last(freeing)}
  /\ UNCHANGED <<roots, clearing>>

\* The container is empty: the map or queue is freed, then the block.  What
\* a free block holds is unspecified; the model clears it.
FreeNode ==
  /\ freeing # <<>> /\ members[Last(freeing)] = <<>>
  /\ taken' = [taken EXCEPT ![Last(freeing)] = @ - 1]
  /\ type' = [type EXCEPT ![Last(freeing)] = "none"]
  /\ freeing' = Front(freeing)
  /\ doomed' = doomed \ {Last(freeing)}
  /\ UNCHANGED <<members, roots, clearing>>

ClearNext == clearing # Null /\ freeing = <<>> /\ FreeFirst(clearing)

ClearEnd ==
  /\ clearing # Null /\ freeing = <<>> /\ members[clearing] = <<>>
  /\ clearing' = Null
  /\ UNCHANGED <<taken, type, members, roots, freeing, doomed>>

-----------------------------------------------------------------------------

Build ==
  \/ \E n \in Nodes, ty \in Types : New(n, ty)
  \/ \E c, v \in live \cup {Null} :
       \/ AddToArray(c, v)
       \/ \E k \in Keys \cup {NoKey} :
            AddNamed(c, k, v) \/ AddToObjectKlen(c, k, v) \/ AddByKind(c, k, v)

Undo ==
  \/ \E v \in roots : FreeStart(v)
  \/ \E c \in live : \/ ClearStart(c)
                     \/ \E k \in Keys : RemoveKey(c, k)
                     \/ \E i \in DOMAIN members[c] : RemoveMember(c, i) \/ TakeOut(c, i)

FreeStep == FreeMember \/ FreeNode \/ ClearNext \/ ClearEnd

Next == Build \/ Undo \/ FreeStep

Spec == Init /\ [][Next]_vars

\* A call that has begun runs to its end: the library never waits.
FairSpec == Spec /\ WF_vars(FreeStep)
-----------------------------------------------------------------------------

TypeOK ==
  /\ taken \in [Nodes -> Int] /\ roots \in SUBSET Nodes /\ doomed \in SUBSET Nodes
  /\ type \in [Nodes -> Types \cup {"none"}]
  /\ \A n \in live : type[n] \in Types
  /\ members \in [Nodes -> Seq(Member)]
  /\ freeing \in Seq(Nodes)
  /\ clearing \in Nodes \cup {Null}

\* The tag and the union agree: a list of members is only ever put into a
\* block whose tag says it has a map or a queue, with names in the one and
\* without in the other.  (lz_json_free and the serializer pick the union
\* member by the tag.)
MembersFit ==
  \A c \in live : \A i \in DOMAIN members[c] :
    \/ type[c] = "object" /\ members[c][i].key \in Keys
    \/ type[c] = "array" /\ members[c][i].key = NoKey

Freeing == ToSet(freeing)

\* Every value has exactly one holder: the program, one place in one
\* container, or a call of lz_json_free that is under way.
HeldOnce ==
  /\ roots \subseteq live /\ Freeing \subseteq live
  /\ IsInjective(freeing) /\ roots \cap Freeing = {}
  /\ \A c \in live : \A n \in Nodes : In(n, c) => n \in live \ (roots \cup Freeing)
  /\ \A c, d \in live : \A i \in DOMAIN members[c], j \in DOMAIN members[d] :
       Val(c, i) = Val(d, j) /\ Val(c, i) # Null => c = d /\ i = j
  /\ \A n \in live : n \in roots \/ n \in Freeing \/ \E c \in live : In(n, c)

\* No value is inside itself, at any depth: every set of values has one
\* that is in none of the others.  So the recursions of free, print and
\* compare end.
Forest ==
  \A S \in SUBSET live : S # {} => \E n \in S : \A c \in S : ~In(n, c)

\* A free, a removal or a clear frees the whole tree it was asked to free
\* and nothing else: what is being freed belongs to it, and nothing of it
\* is left when the call has returned.
FreesExactly ==
  /\ Freeing \subseteq doomed /\ doomed \subseteq live \ roots
  /\ Idle => doomed = {}

\* The blocks of the heap are used as an allocator's client must use them:
\* none is handed out twice, none is freed that is not held.  LzHeap grants
\* this of its callers (MayFree).
Blocks == INSTANCE BlockAllocator WITH
            Blocks <- Nodes, holders <- taken
BlocksSpec == Blocks!BASpec

\* lz_json_free and the clears return.
FreeEnds == ~Idle ~> Idle
=============================================================================
