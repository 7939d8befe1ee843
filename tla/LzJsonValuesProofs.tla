------------------------- MODULE LzJsonValuesProofs -------------------------
(***************************************************************************)
(* Proofs about the ownership of JSON values: every value has one holder,  *)
(* none is inside itself, a free frees a whole tree and nothing else, and  *)
(* the heap's blocks are used as its contract demands.                     *)
(***************************************************************************)
EXTENDS LzJsonValues, ListLemmas

-----------------------------------------------------------------------------
(* What becomes of the holders when one list of members changes. *)

\* No two places hold the same value.
OneHolder ==
  \A c, d \in live : \A i \in DOMAIN members[c], j \in DOMAIN members[d] :
    Val(c, i) = Val(d, j) /\ Val(c, i) # Null => c = d /\ i = j

\* Only the list of c changes.
OnlyList(c) ==
  /\ members \in [Nodes -> Seq(Member)]
  /\ members' \in [Nodes -> Seq(Member)]
  /\ c \in live
  /\ \A d \in Nodes : d # c => members'[d] = members[d]
  /\ taken' = taken

\* A member is taken out.
Drops(c, k) == OnlyList(c) /\ LacksAt(Member, members'[c], members[c], k)

\* A member is put in.
Gains(c, k) == OnlyList(c) /\ LacksAt(Member, members[c], members'[c], k)

LEMMA MemberDropped ==
  ASSUME NEW c, NEW k, Drops(c, k), OneHolder
  PROVE  /\ live' = live /\ k \in DOMAIN members[c]
         /\ \A n, d : d \in live /\ In(n, d)' => In(n, d)
         /\ \A n, d : d \in live /\ In(n, d) /\ n # Val(c, k) => In(n, d)'
         /\ \A n, d : d \in live /\ n = Val(c, k) /\ n # Null => ~In(n, d)'
         /\ OneHolder'
         /\ \A d \in live : \A i \in DOMAIN members'[d] :
              \E j \in DOMAIN members[d] : members'[d][i] = members[d][j]
<1> DEFINE Place(d, i) == IF d = c THEN There(k, i) ELSE i
<1>1. live' = live /\ live \subseteq Nodes /\ c \in live
  BY DEF Drops, OnlyList, live
<1>2. k \in DOMAIN members[c]
  BY DEF Drops, LacksAt
<1>3. /\ \A i \in DOMAIN members'[c] :
           /\ There(k, i) \in DOMAIN members[c] /\ There(k, i) # k
           /\ members'[c][i] = members[c][There(k, i)]
      /\ \A j \in DOMAIN members[c] : j # k =>
           Back(k, j) \in DOMAIN members'[c] /\ members'[c][Back(k, j)] = members[c][j]
      /\ \A i, j \in DOMAIN members'[c] : There(k, i) = There(k, j) => i = j
  BY LacksAtPlaces DEF Drops
<1>4. \A d \in live : d # c => members'[d] = members[d]
  BY <1>1 DEF Drops, OnlyList
<1>5. \A d \in live : \A i \in DOMAIN members'[d] :
        /\ Place(d, i) \in DOMAIN members[d]
        /\ members'[d][i] = members[d][Place(d, i)]
        /\ d = c => Place(d, i) # k
  BY <1>3, <1>4
<1>6. \A d \in live : \A i, j \in DOMAIN members'[d] : Place(d, i) = Place(d, j) => i = j
  BY <1>3
<1> HIDE DEF Place
<1>7. ASSUME NEW n, NEW d \in live, In(n, d)' PROVE In(n, d)
  <2>1. PICK i \in DOMAIN members'[d] : members'[d][i].val = n
    BY <1>7 DEF In, Val
  <2> QED BY <1>5, <2>1 DEF In, Val
<1>8. ASSUME NEW n, NEW d \in live, In(n, d), n # Val(c, k) PROVE In(n, d)'
  <2>1. PICK i \in DOMAIN members[d] : members[d][i].val = n
    BY <1>8 DEF In, Val
  <2>2. CASE d = c
    <3>1. i # k
      BY <1>8, <2>1, <2>2 DEF Val
    <3>2. Back(k, i) \in DOMAIN members'[d] /\ members'[d][Back(k, i)].val = n
      BY <1>3, <2>1, <2>2, <3>1
    <3> QED BY <3>2 DEF In, Val
  <2>3. CASE d # c
    BY <1>4, <2>1, <2>3 DEF In, Val
  <2> QED BY <2>2, <2>3
<1>9. ASSUME NEW n, NEW d \in live, In(n, d)', n = Val(c, k), n # Null PROVE FALSE
  <2>1. PICK i \in DOMAIN members'[d] : members'[d][i].val = n
    BY <1>9 DEF In, Val
  <2>2. Val(d, Place(d, i)) = n /\ Place(d, i) \in DOMAIN members[d]
    BY <1>5, <2>1 DEF Val
  <2>3. d = c /\ Place(d, i) = k
    BY <1>1, <1>2, <1>9, <2>2 DEF OneHolder
  <2> QED BY <1>5, <2>3
<1>10. OneHolder'
  <2>1. SUFFICES ASSUME NEW a \in live, NEW b \in live,
                        NEW i \in DOMAIN members'[a], NEW j \in DOMAIN members'[b],
                        members'[a][i].val = members'[b][j].val,
                        members'[a][i].val # Null
                 PROVE  a = b /\ i = j
    BY <1>1 DEF OneHolder, Val
  <2>2. /\ Place(a, i) \in DOMAIN members[a] /\ Place(b, j) \in DOMAIN members[b]
        /\ Val(a, Place(a, i)) = Val(b, Place(b, j)) /\ Val(a, Place(a, i)) # Null
    BY <1>5, <2>1 DEF Val
  <2>3. a = b /\ Place(a, i) = Place(b, j)
    BY <2>2 DEF OneHolder
  <2> QED BY <1>6, <2>3
<1>11. \A d \in live : \A i \in DOMAIN members'[d] :
         \E j \in DOMAIN members[d] : members'[d][i] = members[d][j]
  BY <1>5
<1> QED BY <1>1, <1>2, <1>7, <1>8, <1>9, <1>10, <1>11

LEMMA MemberGained ==
  ASSUME NEW c, NEW k, NEW v, Gains(c, k), OneHolder, members'[c][k].val = v,
         v = Null \/ \A d \in live : ~In(v, d)
  PROVE  /\ live' = live
         /\ \A n, d : d \in live => (In(n, d)' <=> In(n, d) \/ (d = c /\ n = v))
         /\ OneHolder'
         /\ \A d \in live : \A i \in DOMAIN members'[d] :
              \/ d = c /\ i = k
              \/ \E j \in DOMAIN members[d] : members'[d][i] = members[d][j]
<1> DEFINE Place(d, i) == IF d = c THEN Back(k, i) ELSE i
           Fresh(d, i) == d = c /\ i = k
<1>1. live' = live /\ live \subseteq Nodes /\ c \in live
  BY DEF Gains, OnlyList, live
<1>2. k \in DOMAIN members'[c]
  BY DEF Gains, LacksAt
<1>3. /\ \A i \in DOMAIN members[c] :
           /\ There(k, i) \in DOMAIN members'[c] /\ There(k, i) # k
           /\ members[c][i] = members'[c][There(k, i)]
      /\ \A j \in DOMAIN members'[c] : j # k =>
           Back(k, j) \in DOMAIN members[c] /\ members[c][Back(k, j)] = members'[c][j]
      /\ \A i, j \in DOMAIN members'[c] : i # k /\ j # k /\ Back(k, i) = Back(k, j) => i = j
  BY LacksAtPlaces DEF Gains
<1>4. \A d \in live : d # c => members'[d] = members[d]
  BY <1>1 DEF Gains, OnlyList
<1>5. \A d \in live : \A i \in DOMAIN members'[d] : ~Fresh(d, i) =>
        /\ Place(d, i) \in DOMAIN members[d]
        /\ members'[d][i] = members[d][Place(d, i)]
  BY <1>3, <1>4
<1>6. \A d \in live : \A i, j \in DOMAIN members'[d] :
        ~Fresh(d, i) /\ ~Fresh(d, j) /\ Place(d, i) = Place(d, j) => i = j
  BY <1>3
<1> HIDE DEF Place
<1>7. ASSUME NEW n, NEW d \in live
      PROVE  In(n, d)' <=> In(n, d) \/ (d = c /\ n = v)
  <2>1. ASSUME In(n, d)' PROVE In(n, d) \/ (d = c /\ n = v)
    <3>1. PICK i \in DOMAIN members'[d] : members'[d][i].val = n
      BY <2>1 DEF In, Val
    <3>2. CASE ~Fresh(d, i)
      BY <1>5, <3>1, <3>2 DEF In, Val
    <3> QED BY <3>1, <3>2
  <2>2. ASSUME In(n, d) PROVE In(n, d)'
    <3>1. PICK i \in DOMAIN members[d] : members[d][i].val = n
      BY <2>2 DEF In, Val
    <3>2. CASE d = c
      <4>1. There(k, i) \in DOMAIN members'[d] /\ members'[d][There(k, i)].val = n
        BY <1>3, <3>1, <3>2
      <4> QED BY <4>1 DEF In, Val
    <3>3. CASE d # c
      BY <1>4, <3>1, <3>3 DEF In, Val
    <3> QED BY <3>2, <3>3
  <2>3. ASSUME d = c, n = v PROVE In(n, d)'
    BY <1>2, <2>3 DEF In, Val
  <2> QED BY <2>1, <2>2, <2>3
<1>8. OneHolder'
  <2>1. SUFFICES ASSUME NEW a \in live, NEW b \in live,
                        NEW i \in DOMAIN members'[a], NEW j \in DOMAIN members'[b],
                        members'[a][i].val = members'[b][j].val,
                        members'[a][i].val # Null
                 PROVE  a = b /\ i = j
    BY <1>1 DEF OneHolder, Val
  <2>2. ASSUME NEW d \in live, NEW e \in DOMAIN members'[d], ~Fresh(d, e)
        PROVE  In(members'[d][e].val, d)
    BY <1>5, <2>2 DEF In, Val
  <2>3. CASE Fresh(a, i) /\ Fresh(b, j)
    BY <2>3
  <2>4. CASE Fresh(a, i) /\ ~Fresh(b, j)
    BY <2>1, <2>2, <2>4
  <2>5. CASE ~Fresh(a, i) /\ Fresh(b, j)
    BY <2>1, <2>2, <2>5
  <2>6. CASE ~Fresh(a, i) /\ ~Fresh(b, j)
    <3>1. /\ Place(a, i) \in DOMAIN members[a] /\ Place(b, j) \in DOMAIN members[b]
          /\ Val(a, Place(a, i)) = Val(b, Place(b, j)) /\ Val(a, Place(a, i)) # Null
      BY <1>5, <2>1, <2>6 DEF Val
    <3>2. a = b /\ Place(a, i) = Place(b, j)
      BY <3>1 DEF OneHolder
    <3> QED BY <1>6, <2>6, <3>2
  <2> QED BY <2>3, <2>4, <2>5, <2>6
<1>9. \A d \in live : \A i \in DOMAIN members'[d] :
        \/ d = c /\ i = k
        \/ \E j \in DOMAIN members[d] : members'[d][i] = members[d][j]
  BY <1>5
<1> QED BY <1>1, <1>7, <1>8, <1>9

-----------------------------------------------------------------------------
(* The steps, by what they do to the lists of members. *)

\* A block is handed out to one user at a time.
TakenOnce == \A n \in Nodes : taken[n] \in {0, 1}

\* What is doomed is closed under members, and each doomed value is on its
\* way to be freed: a call is at it, or a doomed container or the one being
\* cleared holds it.
DoomedInv ==
  /\ \A c \in doomed, n \in live : In(n, c) => n \in doomed
  /\ \A d \in doomed : \/ d \in Freeing
                       \/ \E c \in doomed : In(d, c)
                       \/ clearing # Null /\ In(d, clearing)
  /\ clearing # Null =>
       clearing \in live \ doomed /\ \A n \in live : In(n, clearing) => n \in doomed

\* An adder has returned 0.
Adds(c, k, v) ==
  /\ MayAdd(c, v) /\ v \in live \cup {Null} /\ Gains(c, k) /\ members'[c][k].val = v
  /\ \/ type[c] = "object" /\ members'[c][k].key \in Keys
     \/ type[c] = "array" /\ members'[c][k].key = NoKey
  /\ roots' = roots \ {v}
  /\ UNCHANGED <<taken, type, freeing, clearing, doomed>>

LEMMA LinkGains ==
  ASSUME TypeOK, NEW c \in live, NEW l, NEW k, NEW v \in live \cup {Null}, Link(c, l, v),
         LacksAt(Member, members[c], l, k)
  PROVE  Gains(c, k) /\ members'[c] = l
<1>1. c \in Nodes /\ members \in [Nodes -> Seq(Member)]
  BY DEF live, TypeOK
<1>2. members' = [members EXCEPT ![c] = l] /\ taken' = taken
  BY DEF Link
<1>3. l \in Seq(Member)
  BY DEF LacksAt
<1>4. members' \in [Nodes -> Seq(Member)] /\ members'[c] = l
  BY <1>1, <1>2, <1>3
<1>5. \A d \in Nodes : d # c => members'[d] = members[d]
  BY <1>1, <1>2
<1> QED BY <1>1, <1>2, <1>4, <1>5 DEF Gains, OnlyList

LEMMA ObjectAddEffect ==
  ASSUME TypeOK, NEW c \in live \cup {Null}, NEW key \in Keys, NEW v \in live \cup {Null},
         MayAdd(c, v), ObjectAdd(c, key, v)
  PROVE  UNCHANGED vars \/ Adds(c, 1, v)
<1>1. CASE c # Null /\ type[c] = "object"
  <2> DEFINE m == [key |-> key, val |-> v]
  <2>1. c \in live /\ members[c] \in Seq(Member) /\ m \in Member
    BY <1>1 DEF TypeOK, live, Member
  <2>2. Link(c, <<m>> \o members[c], v)
    BY <1>1 DEF ObjectAdd, IsA
  <2> HIDE DEF m
  <2>3. /\ LacksAt(Member, members[c], <<m>> \o members[c], 1)
        /\ (<<m>> \o members[c])[1] = m
    BY <2>1, PrependLacks
  <2>4. Gains(c, 1) /\ members'[c][1] = m
    BY <2>1, <2>2, <2>3, LinkGains
  <2>5. m.key = key /\ m.val = v
    BY DEF m
  <2> QED BY <1>1, <2>2, <2>4, <2>5 DEF Adds, Link
<1> QED BY <1>1 DEF ObjectAdd, IsA, Refuse

LEMMA ArrayAddEffect ==
  ASSUME TypeOK, NEW c \in live \cup {Null}, NEW v \in live \cup {Null},
         MayAdd(c, v), ArrayAdd(c, v)
  PROVE  UNCHANGED vars \/ \E k : Adds(c, k, v)
<1>1. CASE c # Null /\ type[c] = "array"
  <2> DEFINE m == [key |-> NoKey, val |-> v]
             k == Len(members[c]) + 1
  <2>1. c \in live /\ members[c] \in Seq(Member) /\ m \in Member
    BY <1>1 DEF TypeOK, live, Member
  <2>2. Link(c, Append(members[c], m), v)
    BY <1>1 DEF ArrayAdd, IsA
  <2> HIDE DEF m
  <2>3. /\ LacksAt(Member, members[c], Append(members[c], m), k)
        /\ Append(members[c], m)[k] = m
    BY <2>1, AppendLacks
  <2> HIDE DEF k
  <2>4. Gains(c, k) /\ members'[c][k] = m
    BY <2>1, <2>2, <2>3, LinkGains
  <2>5. m.key = NoKey /\ m.val = v
    BY DEF m
  <2>6. Adds(c, k, v)
    BY <1>1, <2>2, <2>4, <2>5 DEF Adds, Link
  <2> QED BY <2>6
<1> QED BY <1>1 DEF ArrayAdd, IsA, Refuse

LEMMA BuildEffect ==
  ASSUME TypeOK, Build
  PROVE  \/ \E n \in Nodes, ty \in Types : New(n, ty)
         \/ UNCHANGED vars
         \/ \E c \in live, v \in live \cup {Null} : \E k : Adds(c, k, v)
<1>0. \A c, k, v : Adds(c, k, v) => c \in live
  BY DEF Adds, Gains, OnlyList
<1>1. ASSUME NEW c \in live \cup {Null}, NEW v \in live \cup {Null}, AddToArray(c, v)
      PROVE  UNCHANGED vars \/ \E k : Adds(c, k, v)
  BY <1>1, ArrayAddEffect DEF AddToArray
<1>2. ASSUME NEW c \in live \cup {Null}, NEW v \in live \cup {Null},
             NEW key \in Keys \cup {NoKey}, MayAdd(c, v), AddToObject(c, key, v)
      PROVE  UNCHANGED vars \/ \E k : Adds(c, k, v)
  <2>1. CASE c = Null \/ key = NoKey \/ v = Null
    BY <1>2, <2>1 DEF AddToObject, Refuse
  <2>2. CASE ~(c = Null \/ key = NoKey \/ v = Null)
    <3>1. key \in Keys /\ ObjectAdd(c, key, v)
      BY <1>2, <2>2 DEF AddToObject
    <3> QED BY <1>2, <3>1, ObjectAddEffect
  <2> QED BY <2>1, <2>2
<1>3. ASSUME NEW c \in live \cup {Null}, NEW v \in live \cup {Null},
             NEW key \in Keys \cup {NoKey}, AddToObjectKlen(c, key, v)
      PROVE  UNCHANGED vars \/ \E k : Adds(c, k, v)
  BY <1>3, ObjectAddEffect DEF AddToObjectKlen
<1>4. ASSUME NEW c \in live \cup {Null}, NEW v \in live \cup {Null},
             NEW key \in Keys \cup {NoKey}, AddByKind(c, key, v)
      PROVE  UNCHANGED vars \/ \E k : Adds(c, k, v)
  BY <1>2, <1>4, ArrayAddEffect DEF AddByKind
<1> QED BY <1>0, <1>1, <1>2, <1>3, <1>4 DEF Build, AddNamed

\* lz_kvmap_remove.
KeyRemoved(o, i) ==
  /\ Idle /\ Drops(o, i)
  /\ \/ Val(o, i) = Null /\ freeing' = <<>> /\ doomed' = {}
     \/ Val(o, i) \in Nodes /\ freeing' = <<Val(o, i)>> /\ doomed' = Tree(Val(o, i))
  /\ UNCHANGED <<taken, type, roots, clearing>>

\* lz_tailq_elem_remove.
ElemTaken(a, i) ==
  /\ Idle /\ Drops(a, i)
  /\ roots' = roots \cup ({Val(a, i)} \ {Null})
  /\ UNCHANGED <<taken, type, freeing, clearing, doomed>>

\* A round of an emptying loop.
FirstFreed(c) ==
  /\ Drops(c, 1)
  /\ \/ freeing # <<>> /\ c = Last(freeing)
     \/ freeing = <<>> /\ c = clearing /\ clearing # Null
  /\ \/ Val(c, 1) = Null /\ freeing' = freeing
     \/ Val(c, 1) \in Nodes /\ freeing' = Append(freeing, Val(c, 1))
  /\ UNCHANGED <<taken, type, roots, clearing, doomed>>

LEMMA DropAt ==
  ASSUME TypeOK, NEW c \in live, NEW l, NEW k, LacksAt(Member, l, members[c], k),
         members' = [members EXCEPT ![c] = l], taken' = taken
  PROVE  /\ Drops(c, k) /\ members'[c] = l
         /\ Val(c, k) \in Nodes \cup {Null}
<1>1. c \in Nodes /\ members \in [Nodes -> Seq(Member)]
  BY DEF live, TypeOK
<1>2. l \in Seq(Member) /\ k \in DOMAIN members[c]
  BY DEF LacksAt
<1>3. members' \in [Nodes -> Seq(Member)] /\ members'[c] = l
  BY <1>1, <1>2
<1>4. \A d \in Nodes : d # c => members'[d] = members[d]
  BY <1>1
<1>5. Val(c, k) \in Nodes \cup {Null}
  <2>1. members[c][k] \in Member
    <3>1. members[c] \in Seq(Member) /\ k \in 1..Len(members[c])
      BY <1>1, <1>2, LenProperties
    <3> QED BY <3>1, ElementOfSeq
  <2> QED BY <2>1 DEF Val, Member
<1> QED BY <1>1, <1>3, <1>4, <1>5 DEF Drops, OnlyList

LEMMA RemoveMemberEffect ==
  ASSUME TypeOK, NEW o \in live, NEW i, RemoveMember(o, i)
  PROVE  KeyRemoved(o, i)
<1>1. /\ i \in DOMAIN members[o]
      /\ members' = [members EXCEPT ![o] = RemoveAt(members[o], i)]
      /\ freeing' = IF Val(o, i) = Null THEN <<>> ELSE <<Val(o, i)>>
      /\ doomed' = IF Val(o, i) = Null THEN {} ELSE Tree(Val(o, i))
  BY DEF RemoveMember
<1>2. Idle /\ UNCHANGED <<taken, type, roots, clearing>>
  BY DEF RemoveMember
<1>3. members[o] \in Seq(Member)
  BY DEF TypeOK, live
<1>4. LacksAt(Member, RemoveAt(members[o], i), members[o], i)
  BY <1>1, <1>3, RemoveAtLacks
<1>5. Drops(o, i) /\ Val(o, i) \in Nodes \cup {Null}
  BY <1>1, <1>2, <1>4, DropAt
<1>6. CASE Val(o, i) = Null
  BY <1>1, <1>2, <1>5, <1>6 DEF KeyRemoved
<1>7. CASE Val(o, i) \in Nodes
  BY <1>1, <1>2, <1>5, <1>7, NullAssumption DEF KeyRemoved
<1> QED BY <1>5, <1>6, <1>7

LEMMA TakeOutEffect ==
  ASSUME TypeOK, NEW a \in live, NEW i, TakeOut(a, i)
  PROVE  ElemTaken(a, i)
<1>1. /\ i \in DOMAIN members[a]
      /\ members' = [members EXCEPT ![a] = RemoveAt(members[a], i)]
      /\ taken' = taken
  BY DEF TakeOut
<1>2. members[a] \in Seq(Member)
  BY DEF TypeOK, live
<1>3. LacksAt(Member, RemoveAt(members[a], i), members[a], i)
  BY <1>1, <1>2, RemoveAtLacks
<1> QED BY <1>1, <1>3, DropAt DEF TakeOut, ElemTaken

LEMMA FreeFirstEffect ==
  ASSUME TypeOK, NEW c \in live, FreeFirst(c),
         \/ freeing # <<>> /\ c = Last(freeing)
         \/ freeing = <<>> /\ c = clearing /\ clearing # Null
  PROVE  FirstFreed(c)
<1>1. /\ members[c] # <<>> /\ taken' = taken
      /\ members' = [members EXCEPT ![c] = Tail(members[c])]
      /\ UNCHANGED <<taken, type, roots, clearing, doomed>>
      /\ freeing' = IF Head(members[c]).val = Null THEN freeing
                    ELSE Append(freeing, Head(members[c]).val)
  BY DEF FreeFirst
<1>2. members[c] \in Seq(Member)
  BY DEF TypeOK, live
<1>3. /\ LacksAt(Member, Tail(members[c]), members[c], 1)
      /\ Head(members[c]) = members[c][1]
  BY <1>1, <1>2, TailLacks
<1>4. Drops(c, 1) /\ Val(c, 1) \in Nodes \cup {Null}
  BY <1>1, <1>3, DropAt
<1>5. Head(members[c]).val = Val(c, 1)
  BY <1>3 DEF Val
<1>6. CASE Val(c, 1) = Null
  BY <1>1, <1>4, <1>5, <1>6 DEF FirstFreed
<1>7. CASE Val(c, 1) \in Nodes
  BY <1>1, <1>4, <1>5, <1>7, NullAssumption DEF FirstFreed
<1> QED BY <1>4, <1>6, <1>7

LEMMA StepEffect ==
  ASSUME TypeOK, Freeing \subseteq live, clearing # Null => clearing \in live, Next
  PROVE  \/ \E n \in Nodes, ty \in Types : New(n, ty)
         \/ UNCHANGED vars
         \/ \E c \in live, v \in live \cup {Null} : \E k : Adds(c, k, v)
         \/ \E v \in roots : FreeStart(v)
         \/ \E c \in live : ClearStart(c)
         \/ \E c \in live : \E i : KeyRemoved(c, i) \/ ElemTaken(c, i)
         \/ \E c \in live : FirstFreed(c)
         \/ FreeNode
         \/ ClearEnd
<1>1. ASSUME FreeMember PROVE \E c \in live : FirstFreed(c)
  <2>1. freeing # <<>> /\ FreeFirst(Last(freeing))
    BY <1>1 DEF FreeMember
  <2>2. Last(freeing) \in ToSet(freeing)
    <3>1. freeing \in Seq(Nodes)
      BY DEF TypeOK
    <3>2. Len(freeing) \in 1..Len(freeing)
      BY <2>1, <3>1, EmptySeq, LenProperties
    <3> QED BY <3>1, <3>2, ToSetMember DEF Last
  <2>3. Last(freeing) \in live
    BY <2>2 DEF Freeing
  <2> QED BY <2>1, <2>3, FreeFirstEffect
<1>2. ASSUME ClearNext PROVE \E c \in live : FirstFreed(c)
  <2>1. clearing # Null /\ freeing = <<>> /\ FreeFirst(clearing) /\ clearing \in live
    BY <1>2 DEF ClearNext
  <2> QED BY <2>1, FreeFirstEffect
<1>3. CASE Build
  BY <1>3, BuildEffect
<1>4. CASE Undo
  BY <1>4, RemoveMemberEffect, TakeOutEffect DEF Undo, RemoveKey
<1>5. CASE FreeStep
  BY <1>1, <1>2, <1>5 DEF FreeStep
<1> QED BY <1>3, <1>4, <1>5 DEF Next

-----------------------------------------------------------------------------
(* Trees. *)

LEMMA TreeFacts ==
  ASSUME NEW v \in live
  PROVE  /\ v \in Tree(v) /\ Tree(v) \subseteq live
         /\ \A c \in Tree(v), n \in live : In(n, c) => n \in Tree(v)
         /\ \A d \in Tree(v) : d = v \/ \E c \in Tree(v) : In(d, c)
         /\ \A r \in live : r # v /\ (\A c \in live : ~In(r, c)) => r \notin Tree(v)
<1>1. v \in Tree(v) /\ Tree(v) \subseteq live
  BY DEF Tree
<1>2. ASSUME NEW S \in SUBSET live, v \in S, Closed(S) PROVE Tree(v) \subseteq S
  BY <1>2 DEF Tree
<1>3. ASSUME NEW c \in Tree(v), NEW n \in live, In(n, c) PROVE n \in Tree(v)
  <2>1. ASSUME NEW S \in SUBSET live, v \in S, Closed(S) PROVE n \in S
    <3>1. c \in S
      BY <1>2, <2>1
    <3> QED BY <1>3, <2>1, <3>1 DEF Closed
  <2> QED BY <2>1 DEF Tree
<1>4. \A d \in Tree(v) : d = v \/ \E c \in Tree(v) : In(d, c)
  <2> DEFINE S == { d \in Tree(v) : d = v \/ \E c \in Tree(v) : In(d, c) }
  <2>1. S \in SUBSET live /\ v \in S
    BY <1>1
  <2>2. Closed(S)
    BY <1>3 DEF Closed
  <2> QED BY <1>2, <2>1, <2>2
<1>5. ASSUME NEW r \in live, r # v, \A c \in live : ~In(r, c) PROVE r \notin Tree(v)
  <2> DEFINE S == live \ {r}
  <2>1. S \in SUBSET live /\ v \in S
    BY <1>5
  <2>2. Closed(S)
    BY <1>5 DEF Closed
  <2> QED BY <1>2, <2>1, <2>2
<1> QED BY <1>1, <1>3, <1>4, <1>5

\* In a forest a value is in none of the containers inside it.
LEMMA TreeTop ==
  ASSUME NEW v \in live, Forest, NEW c \in Tree(v)
  PROVE  ~In(v, c)
<1>1. /\ v \in Tree(v) /\ Tree(v) \in SUBSET live
      /\ \A d \in Tree(v) : d = v \/ \E b \in Tree(v) : In(d, b)
  BY TreeFacts
<1>2. PICK n \in Tree(v) : \A b \in Tree(v) : ~In(n, b)
  BY <1>1 DEF Forest
<1> QED BY <1>1, <1>2

-----------------------------------------------------------------------------

LEMMA NextTypeOK ==
  ASSUME TypeOK, TakenOnce, HeldOnce, DoomedInv, [Next]_vars
  PROVE  TypeOK'
<1> DEFINE Lists == /\ members' \in [Nodes -> Seq(Member)]
                    /\ taken' = taken /\ type' = type /\ clearing' = clearing
<1>0. /\ live \subseteq Nodes /\ Freeing \subseteq live /\ roots \subseteq live
      /\ clearing # Null => clearing \in live
  BY DEF live, HeldOnce, DoomedInv
<1>1. ASSUME NEW n \in Nodes, NEW ty \in Types, New(n, ty) PROVE TypeOK'
  <2>1. /\ taken' = [taken EXCEPT ![n] = @ + 1] /\ roots' = roots \cup {n}
        /\ type' = [type EXCEPT ![n] = ty]
        /\ members' = [members EXCEPT ![n] = <<>>]
        /\ UNCHANGED <<freeing, clearing, doomed>>
    BY <1>1 DEF New
  <2>2. taken' \in [Nodes -> Int] /\ roots' \in SUBSET Nodes
    BY <2>1 DEF TypeOK
  <2>3. type' \in [Nodes -> Types \cup {"none"}] /\ \A d \in Nodes : d # n => type'[d] = type[d]
    BY <2>1 DEF TypeOK
  <2>4. members' \in [Nodes -> Seq(Member)]
    BY <2>1 DEF TypeOK
  <2>5. \A d \in live' : d = n \/ d \in live
    BY <2>1 DEF TypeOK, live
  <2>6. \A d \in live' : type'[d] \in Types
    BY <2>1, <2>3, <2>5, <1>0 DEF TypeOK
  <2> QED BY <2>1, <2>2, <2>3, <2>4, <2>6 DEF TypeOK
<1>2. CASE UNCHANGED vars
  BY <1>2 DEF vars, TypeOK, live
<1>3. ASSUME Lists, roots' \in SUBSET Nodes, doomed' \in SUBSET Nodes, freeing' \in Seq(Nodes)
      PROVE  TypeOK'
  BY <1>3 DEF TypeOK, live
<1>4. ASSUME NEW c \in live, NEW v \in live \cup {Null}, NEW k, Adds(c, k, v) PROVE TypeOK'
  <2>1. Lists /\ roots' \in SUBSET Nodes /\ doomed' = doomed /\ freeing' = freeing
    BY <1>4 DEF Adds, Gains, OnlyList, TypeOK
  <2> QED BY <1>3, <2>1 DEF TypeOK
<1>5. ASSUME NEW v \in roots, FreeStart(v) PROVE TypeOK'
  <2>1. /\ roots' = roots \ {v} /\ freeing' = <<v>> /\ doomed' = Tree(v)
        /\ UNCHANGED <<taken, type, members, clearing>>
    BY <1>5 DEF FreeStart
  <2>2. v \in Nodes /\ Tree(v) \subseteq Nodes /\ members' \in [Nodes -> Seq(Member)]
    BY <1>0, <2>1, TreeFacts DEF TypeOK
  <2>3. freeing' \in Seq(Nodes)
    BY <2>1, <2>2
  <2> QED BY <1>3, <2>1, <2>2, <2>3 DEF TypeOK
<1>6. ASSUME NEW c \in live, ClearStart(c) PROVE TypeOK'
  <2>1. /\ clearing' = c /\ doomed' = Tree(c) \ {c}
        /\ UNCHANGED <<taken, type, members, roots, freeing>>
    BY <1>6 DEF ClearStart
  <2>2. c \in Nodes /\ Tree(c) \subseteq Nodes
    BY <1>0, TreeFacts
  <2> QED BY <2>1, <2>2 DEF TypeOK, live
<1>7. ASSUME NEW c \in live, NEW i, KeyRemoved(c, i) PROVE TypeOK'
  <2>1. Lists /\ roots' = roots
    BY <1>7 DEF KeyRemoved, Drops, OnlyList
  <2>2. freeing' \in Seq(Nodes)
    <3>1. ASSUME NEW v \in Nodes, freeing' = <<v>> PROVE freeing' \in Seq(Nodes)
      BY <3>1
    <3>2. freeing' = <<>> \/ \E v \in Nodes : freeing' = <<v>>
      BY <1>7 DEF KeyRemoved
    <3>3. <<>> \in Seq(Nodes)
      OBVIOUS
    <3> QED BY <3>1, <3>2, <3>3
  <2>3. doomed' \in SUBSET Nodes
    BY <1>0, <1>7 DEF KeyRemoved, Tree
  <2> QED BY <1>3, <2>1, <2>2, <2>3 DEF TypeOK
<1>8. ASSUME NEW c \in live, NEW i, ElemTaken(c, i) PROVE TypeOK'
  <2>1. Lists /\ doomed' = doomed /\ freeing' = freeing
    BY <1>8 DEF ElemTaken, Drops, OnlyList
  <2>2. Val(c, i) \in Nodes \cup {Null}
    <3>1. members[c] \in Seq(Member) /\ i \in DOMAIN members[c]
      BY <1>8 DEF ElemTaken, Drops, LacksAt
    <3>2. i \in 1..Len(members[c])
      BY <3>1, LenProperties
    <3>3. members[c][i] \in Member
      BY <3>1, <3>2, ElementOfSeq
    <3> QED BY <3>3 DEF Val, Member
  <2>3. roots' \in SUBSET Nodes
    BY <1>8, <2>2 DEF ElemTaken, TypeOK
  <2> QED BY <1>3, <2>1, <2>3 DEF TypeOK
<1>9. ASSUME NEW c \in live, FirstFreed(c) PROVE TypeOK'
  <2>1. Lists /\ doomed' = doomed /\ roots' = roots
    BY <1>9 DEF FirstFreed, Drops, OnlyList
  <2>2. freeing' \in Seq(Nodes)
    <3>1. freeing \in Seq(Nodes)
      BY DEF TypeOK
    <3> QED BY <1>9, <3>1, AppendProperties DEF FirstFreed
  <2> QED BY <1>3, <2>1, <2>2 DEF TypeOK
<1>10. CASE FreeNode
  <2> DEFINE v == Last(freeing)
  <2>1. /\ taken' = [taken EXCEPT ![v] = @ - 1]
        /\ type' = [type EXCEPT ![v] = "none"]
        /\ freeing # <<>> /\ freeing' = Front(freeing)
        /\ doomed' = doomed \ {v}
        /\ UNCHANGED <<members, roots, clearing>>
    BY <1>10 DEF FreeNode
  <2>2. v \in Freeing /\ freeing' \in Seq(Nodes)
    BY <2>1, PopList DEF TypeOK, HeldOnce, Freeing
  <2>3. v \in Nodes
    BY <1>0, <2>2
  <2> HIDE DEF v
  <2>4. taken' \in [Nodes -> Int] /\ type' \in [Nodes -> Types \cup {"none"}]
    BY <2>1, <2>3 DEF TypeOK
  <2>5. \A d \in Nodes : d # v => taken'[d] = taken[d] /\ type'[d] = type[d]
    BY <2>1 DEF TypeOK
  <2>6. \A d \in live' : type'[d] \in Types
    <3>1. ASSUME NEW d \in live', d = v PROVE FALSE
      <4>1. taken[v] \in {0, 1}
        BY <2>3 DEF TakenOnce
      <4>2. taken'[v] = taken[v] - 1
        BY <2>1, <2>3 DEF TypeOK
      <4> QED BY <3>1, <4>1, <4>2 DEF live

    <3> QED BY <3>1, <2>5 DEF TypeOK, live
  <2> QED BY <2>1, <2>2, <2>4, <2>6 DEF TypeOK
<1>11. CASE ClearEnd
  BY <1>11 DEF ClearEnd, TypeOK, live
<1> QED BY <1>0, <1>1, <1>2, <1>4, <1>5, <1>6, <1>7, <1>8, <1>9, <1>10, <1>11, StepEffect

-----------------------------------------------------------------------------

LEMMA FreeNodeEffect ==
  ASSUME TypeOK, TakenOnce, HeldOnce, FreeNode
  PROVE  \E v \in live :
           /\ v \in Freeing /\ Freeing' = Freeing \ {v} /\ live' = live \ {v}
           /\ taken' = [taken EXCEPT ![v] = 0] /\ taken[v] = 1
           /\ IsInjective(freeing') /\ freeing' \in Seq(Nodes)
           /\ members[v] = <<>> /\ \A n : ~In(n, v)
           /\ doomed' = doomed \ {v} /\ UNCHANGED <<members, roots, clearing>>
           /\ \A n \in live' : type'[n] = type[n]
<1> DEFINE v == Last(freeing)
<1>1. /\ taken' = [taken EXCEPT ![v] = @ - 1]
      /\ type' = [type EXCEPT ![v] = "none"]
      /\ freeing # <<>> /\ freeing' = Front(freeing)
      /\ members[v] = <<>>
      /\ doomed' = doomed \ {v}
      /\ UNCHANGED <<members, roots, clearing>>
  BY DEF FreeNode
<1>2. /\ v \in Freeing /\ freeing' \in Seq(Nodes)
      /\ Freeing' = Freeing \ {v} /\ IsInjective(freeing')
  BY <1>1, PopList DEF TypeOK, HeldOnce, Freeing
<1> HIDE DEF v
<1>3. v \in live /\ v \in Nodes
  BY <1>2 DEF HeldOnce, live
<1>4. taken[v] = 1
  BY <1>3 DEF TakenOnce, live
<1>5. taken' = [taken EXCEPT ![v] = 0]
  <2>1. taken[v] - 1 = 0
    BY <1>4
  <2> QED BY <1>1, <2>1
<1>6. live' = live \ {v}
  <2>1. taken \in [Nodes -> Int]
    BY DEF TypeOK
  <2>2. /\ \A n \in Nodes : n # v => taken'[n] = taken[n]
        /\ taken'[v] = 0
    BY <1>3, <1>5, <2>1
  <2> QED BY <1>3, <2>2 DEF live
<1>7. \A n \in live' : type'[n] = type[n]
  BY <1>1, <1>6 DEF TypeOK, live
<1>8. \A n : ~In(n, v)
  BY <1>1 DEF In
<1> QED BY <1>1, <1>2, <1>3, <1>4, <1>5, <1>6, <1>7, <1>8

LEMMA NewEffect ==
  ASSUME TypeOK, TakenOnce, NEW n \in Nodes, NEW ty \in Types, New(n, ty)
  PROVE  /\ n \notin live /\ live' = live \cup {n} /\ Idle
         /\ taken' = [taken EXCEPT ![n] = 1] /\ taken[n] = 0
         /\ members'[n] = <<>> /\ \A m : ~In(m, n)'
         /\ \A d \in live : members'[d] = members[d] /\ type'[d] = type[d]
         /\ \A m, d : d \in live => (In(m, d)' <=> In(m, d))
         /\ roots' = roots \cup {n}
         /\ UNCHANGED <<freeing, clearing, doomed>>
<1>1. /\ n \notin live /\ Idle
      /\ taken' = [taken EXCEPT ![n] = @ + 1] /\ roots' = roots \cup {n}
      /\ type' = [type EXCEPT ![n] = ty]
      /\ members' = [members EXCEPT ![n] = <<>>]
      /\ UNCHANGED <<freeing, clearing, doomed>>
  BY DEF New
<1>2. taken[n] = 0
  BY <1>1 DEF TakenOnce, live
<1>3. taken' = [taken EXCEPT ![n] = 1]
  <2>1. taken[n] + 1 = 1
    BY <1>2
  <2> QED BY <1>1, <2>1
<1>4. live' = live \cup {n}
  <2>1. taken \in [Nodes -> Int]
    BY DEF TypeOK
  <2>2. (\A m \in Nodes : m # n => taken'[m] = taken[m]) /\ taken'[n] = 1
    BY <1>3, <2>1
  <2> QED BY <2>2 DEF live
<1>5. members'[n] = <<>> /\ \A d \in Nodes : d # n => members'[d] = members[d]
  BY <1>1 DEF TypeOK
<1>6. \A d \in live : d # n /\ d \in Nodes
  BY <1>1 DEF live
<1>7. \A d \in live : members'[d] = members[d] /\ type'[d] = type[d]
  BY <1>1, <1>5, <1>6 DEF TypeOK
<1>8. \A m : ~In(m, n)'
  BY <1>5 DEF In
<1>9. \A m, d : d \in live => (In(m, d)' <=> In(m, d))
  BY <1>7 DEF In, Val
<1> QED BY <1>1, <1>2, <1>3, <1>4, <1>5, <1>7, <1>8, <1>9

LEMMA NextTakenOnce ==
  ASSUME TypeOK, TakenOnce, HeldOnce, DoomedInv, [Next]_vars
  PROVE  TakenOnce'
<1>0. Freeing \subseteq live /\ (clearing # Null => clearing \in live)
  BY DEF HeldOnce, DoomedInv
<1>1. ASSUME NEW n \in Nodes, NEW ty \in Types, New(n, ty) PROVE TakenOnce'
  BY <1>1, NewEffect DEF TakenOnce, TypeOK
<1>2. CASE FreeNode
  BY <1>2, FreeNodeEffect DEF TakenOnce, TypeOK
<1>3. CASE taken' = taken
  BY <1>3 DEF TakenOnce
<1>4. ASSUME NEW c \in live, NEW i, NEW v,
             Adds(c, i, v) \/ KeyRemoved(c, i) \/ ElemTaken(c, i) \/ FirstFreed(c)
      PROVE  taken' = taken
  BY <1>4 DEF Adds, KeyRemoved, ElemTaken, FirstFreed
<1>5. ASSUME (\E v \in roots : FreeStart(v)) \/ (\E c \in live : ClearStart(c)) \/ ClearEnd
      PROVE  taken' = taken
  BY <1>5 DEF FreeStart, ClearStart, ClearEnd
<1>6. CASE UNCHANGED vars
  BY <1>3, <1>6 DEF vars
<1> QED BY <1>0, <1>1, <1>2, <1>3, <1>4, <1>5, <1>6, StepEffect

LEMMA NextMembersFit ==
  ASSUME TypeOK, TakenOnce, HeldOnce, DoomedInv, MembersFit, [Next]_vars
  PROVE  MembersFit'
<1> DEFINE Fits(d, m) == \/ type[d] = "object" /\ m.key \in Keys
                         \/ type[d] = "array" /\ m.key = NoKey
<1>0. Freeing \subseteq live /\ (clearing # Null => clearing \in live)
  BY DEF HeldOnce, DoomedInv
<1>1. \A d \in live : \A i \in DOMAIN members[d] : Fits(d, members[d][i])
  BY DEF MembersFit
<1>2. ASSUME \A d \in live' : d \in live /\ type'[d] = type[d],
             \A d \in live' : \A i \in DOMAIN members'[d] : Fits(d, members'[d][i])
      PROVE  MembersFit'
  BY <1>2 DEF MembersFit
<1>3. ASSUME NEW c \in live, NEW i, Drops(c, i), type' = type PROVE MembersFit'
  <2>1. /\ live' = live
        /\ \A d \in live : \A j \in DOMAIN members'[d] :
             \E l \in DOMAIN members[d] : members'[d][j] = members[d][l]
    BY <1>3, MemberDropped DEF HeldOnce, OneHolder
  <2>2. \A d \in live : \A j \in DOMAIN members'[d] : Fits(d, members'[d][j])
    BY <1>1, <2>1
  <2> HIDE DEF Fits
  <2> QED BY <1>2, <1>3, <2>1, <2>2
<1>4. ASSUME NEW n \in Nodes, NEW ty \in Types, New(n, ty) PROVE MembersFit'
  <2>1. /\ live' = live \cup {n} /\ members'[n] = <<>>
        /\ \A d \in live : members'[d] = members[d] /\ type'[d] = type[d]
    BY <1>4, NewEffect
  <2> QED BY <1>1, <2>1 DEF MembersFit
<1>5. ASSUME NEW c \in live, NEW k, NEW v \in live \cup {Null}, Adds(c, k, v)
      PROVE  MembersFit'
  <2>1. v = Null \/ \A d \in live : ~In(v, d)
    BY <1>5 DEF Adds, MayAdd, HeldOnce, live
  <2>2. /\ live' = live /\ type' = type
        /\ \A d \in live : \A j \in DOMAIN members'[d] :
             \/ d = c /\ j = k
             \/ \E l \in DOMAIN members[d] : members'[d][j] = members[d][l]
    BY <1>5, <2>1, MemberGained DEF HeldOnce, OneHolder, Adds
  <2>3. Fits(c, members'[c][k])
    BY <1>5 DEF Adds
  <2>4. \A d \in live : \A j \in DOMAIN members'[d] : Fits(d, members'[d][j])
    <3> HIDE DEF Fits
    <3> QED BY <1>1, <2>2, <2>3
  <2> HIDE DEF Fits
  <2> QED BY <1>2, <2>2, <2>4
<1>6. CASE FreeNode
  <2>1. PICK v \in live : /\ live' = live \ {v} /\ members' = members
                          /\ \A n \in live' : type'[n] = type[n]
    BY <1>6, FreeNodeEffect
  <2> HIDE DEF Fits
  <2> QED BY <1>1, <1>2, <2>1
<1>7. CASE UNCHANGED <<taken, type, members>>
  BY <1>7 DEF MembersFit, live, Val
<1>8. ASSUME NEW c \in live, NEW i, KeyRemoved(c, i) \/ ElemTaken(c, i)
      PROVE  MembersFit'
  BY <1>3, <1>8 DEF KeyRemoved, ElemTaken
<1>9. ASSUME NEW c \in live, FirstFreed(c) PROVE MembersFit'
  BY <1>3, <1>9 DEF FirstFreed
<1>10. ASSUME \/ \E v \in roots : FreeStart(v)
              \/ \E c \in live : ClearStart(c)
              \/ ClearEnd \/ UNCHANGED vars
       PROVE  UNCHANGED <<taken, type, members>>
  BY <1>10 DEF FreeStart, ClearStart, ClearEnd, vars
<1> QED BY <1>0, <1>4, <1>5, <1>6, <1>7, <1>8, <1>9, <1>10, StepEffect

LEMMA NextHeldOnce ==
  ASSUME TypeOK, TakenOnce, HeldOnce, DoomedInv, [Next]_vars
  PROVE  HeldOnce'
<1> DEFINE Held(n) == n \in roots \/ n \in Freeing \/ \E c \in live : In(n, c)
<1>0. /\ Freeing \subseteq live /\ (clearing # Null => clearing \in live)
      /\ live \subseteq Nodes
  BY DEF HeldOnce, DoomedInv, live
<1>1. /\ roots \subseteq live /\ Freeing \subseteq live
      /\ IsInjective(freeing) /\ roots \cap Freeing = {}
      /\ \A c \in live : \A n \in Nodes : In(n, c) => n \in live \ (roots \cup Freeing)
      /\ OneHolder
      /\ \A n \in live : Held(n)
  BY DEF HeldOnce, OneHolder
<1>2. Null \notin Nodes /\ freeing \in Seq(Nodes)
  BY NullAssumption DEF TypeOK
<1>3. ASSUME roots' \subseteq live', Freeing' \subseteq live',
             IsInjective(freeing'), roots' \cap Freeing' = {},
             \A n \in Nodes, c \in live' : In(n, c)' => n \in live' \ (roots' \cup Freeing'),
             OneHolder',
             \A n \in live' : Held(n)'
      PROVE  HeldOnce'
  BY <1>3 DEF HeldOnce, OneHolder
<1>4. ASSUME NEW n \in Nodes, NEW ty \in Types, New(n, ty) PROVE HeldOnce'
  <2>1. /\ n \notin live /\ live' = live \cup {n}
        /\ members'[n] = <<>> /\ \A m : ~In(m, n)'
        /\ \A d \in live : members'[d] = members[d]
        /\ \A m, d : d \in live => (In(m, d)' <=> In(m, d))
        /\ roots' = roots \cup {n} /\ freeing' = freeing
    BY <1>4, NewEffect
  <2>2. Freeing' = Freeing
    BY <2>1 DEF Freeing
  <2>3. \A m \in Nodes, c \in live' : In(m, c)' => m \in live' \ (roots' \cup Freeing')
    BY <1>1, <2>1, <2>2
  <2>4. OneHolder'
    <3>1. SUFFICES ASSUME NEW a \in live', NEW b \in live',
                          NEW i \in DOMAIN members'[a], NEW j \in DOMAIN members'[b],
                          members'[a][i].val = members'[b][j].val,
                          members'[a][i].val # Null
                   PROVE  a = b /\ i = j
      BY DEF OneHolder, Val
    <3>2. \A d \in live', l \in Nat : d = n => DOMAIN members'[d] = {}
      BY <2>1
    <3>3. a \in live /\ b \in live
      BY <2>1, <3>1, <3>2
    <3> QED BY <1>1, <2>1, <3>1, <3>3 DEF OneHolder, Val
  <2>5. \A m \in live' : Held(m)'
    BY <1>1, <2>1, <2>2
  <2> QED BY <1>1, <1>3, <2>1, <2>2, <2>3, <2>4, <2>5
<1>5. ASSUME NEW c \in live, NEW k, NEW v \in live \cup {Null}, Adds(c, k, v)
      PROVE  HeldOnce'
  <2>1. /\ v = Null \/ v \in roots
        /\ v = Null \/ \A d \in live : ~In(v, d)
    BY <1>1, <1>5, <1>0 DEF Adds, MayAdd
  <2>2. /\ live' = live /\ OneHolder'
        /\ \A n, d : d \in live => (In(n, d)' <=> In(n, d) \/ (d = c /\ n = v))
    BY <1>1, <1>5, <2>1, MemberGained DEF Adds
  <2>3. roots' = roots \ {v} /\ freeing' = freeing /\ Freeing' = Freeing
    BY <1>5 DEF Adds, Freeing
  <2>4. \A m \in Nodes, d \in live' : In(m, d)' => m \in live' \ (roots' \cup Freeing')
    BY <1>1, <1>2, <2>1, <2>2, <2>3
  <2>5. \A m \in live' : Held(m)'
    BY <1>1, <2>2, <2>3
  <2> QED BY <1>1, <1>3, <2>2, <2>3, <2>4, <2>5
<1>6. ASSUME NEW v \in roots, FreeStart(v) PROVE HeldOnce'
  <2>1. /\ freeing = <<>> /\ roots' = roots \ {v} /\ freeing' = <<v>>
        /\ UNCHANGED <<taken, members>>
    BY <1>6 DEF FreeStart, Idle
  <2>2. Freeing' = {v} /\ IsInjective(freeing') /\ Freeing = {}
    BY <2>1, EmptyList DEF Freeing, ToSet, IsInjective
  <2>3. live' = live /\ (OneHolder => OneHolder') /\ \A m, d : In(m, d)' <=> In(m, d)
    BY <2>1 DEF live, OneHolder, In, Val
  <2>4. \A m \in live' : Held(m)'
    BY <1>1, <2>1, <2>2, <2>3
  <2> QED BY <1>1, <1>3, <2>1, <2>2, <2>3, <2>4
<1>7. ASSUME UNCHANGED <<taken, members, roots, freeing>> PROVE HeldOnce'
  <2>1. live' = live /\ Freeing' = Freeing /\ (OneHolder => OneHolder')
        /\ \A m, d : In(m, d)' <=> In(m, d)
    BY <1>7 DEF live, OneHolder, In, Val, Freeing
  <2>2. \A m \in live' : Held(m)'
    BY <1>1, <1>7, <2>1
  <2> QED BY <1>1, <1>3, <1>7, <2>1, <2>2
<1>8. ASSUME NEW c \in live, NEW i, KeyRemoved(c, i) PROVE HeldOnce'
  <2>1. /\ live' = live /\ OneHolder' /\ i \in DOMAIN members[c]
        /\ \A n, d : d \in live /\ In(n, d)' => In(n, d)
        /\ \A n, d : d \in live /\ In(n, d) /\ n # Val(c, i) => In(n, d)'
        /\ \A n, d : d \in live /\ n = Val(c, i) /\ n # Null => ~In(n, d)'
    BY <1>1, <1>8, MemberDropped DEF KeyRemoved
  <2>2. roots' = roots /\ freeing = <<>> /\ Freeing = {}
    BY <1>8, EmptyList DEF KeyRemoved, Freeing, Idle
  <2>3. CASE Val(c, i) = Null /\ freeing' = <<>>
    <3>1. Freeing' = {} /\ IsInjective(freeing')
      BY <2>3, EmptyList DEF Freeing
    <3>2. \A m \in live' : Held(m)'
      BY <1>0, <1>1, <1>2, <2>1, <2>2, <2>3
    <3>3. \A m \in Nodes, d \in live' : In(m, d)' => m \in live' \ (roots' \cup Freeing')
      BY <1>1, <2>1, <2>2, <3>1
    <3> QED BY <1>1, <1>3, <2>1, <2>2, <3>1, <3>2, <3>3
  <2>4. CASE Val(c, i) \in Nodes /\ freeing' = <<Val(c, i)>>
    <3>1. PICK v \in Nodes : v = Val(c, i) /\ v # Null
      BY <1>2, <2>4
    <3>2. In(v, c) /\ v \in live \ roots
      BY <1>1, <2>1, <3>1 DEF In
    <3>3. Freeing' = {v} /\ IsInjective(freeing')
      BY <2>4, <3>1 DEF Freeing, ToSet, IsInjective
    <3>4. \A m \in live' : Held(m)'
      BY <1>1, <2>1, <2>2, <3>1, <3>3
    <3>5. \A m \in Nodes, d \in live' : In(m, d)' => m \in live' \ (roots' \cup Freeing')
      BY <1>1, <2>1, <2>2, <3>1, <3>3
    <3>6. roots' \cap Freeing' = {}
      BY <2>2, <3>2, <3>3
    <3> QED BY <1>1, <1>3, <2>1, <2>2, <3>2, <3>3, <3>4, <3>5, <3>6
  <2> QED BY <1>8, <2>3, <2>4 DEF KeyRemoved
<1>9. ASSUME NEW c \in live, NEW i, ElemTaken(c, i) PROVE HeldOnce'
  <2>1. /\ live' = live /\ OneHolder' /\ i \in DOMAIN members[c]
        /\ \A n, d : d \in live /\ In(n, d)' => In(n, d)
        /\ \A n, d : d \in live /\ In(n, d) /\ n # Val(c, i) => In(n, d)'
        /\ \A n, d : d \in live /\ n = Val(c, i) /\ n # Null => ~In(n, d)'
    BY <1>1, <1>9, MemberDropped DEF ElemTaken
  <2>2. freeing' = freeing /\ Freeing' = Freeing /\ roots' = roots \cup ({Val(c, i)} \ {Null})
    BY <1>9 DEF ElemTaken, Freeing
  <2>3. Val(c, i) \in Nodes => Val(c, i) \in live \ Freeing
    BY <1>1, <2>1 DEF In
  <2>4. Val(c, i) \in Nodes \cup {Null}
    <3>1. members[c] \in Seq(Member) /\ i \in 1..Len(members[c])
      BY <1>0, <2>1, LenProperties DEF TypeOK
    <3>2. members[c][i] \in Member
      BY <3>1, ElementOfSeq
    <3> QED BY <3>2 DEF Val, Member
  <2>5. \A m \in live' : Held(m)'
    BY <1>0, <1>1, <1>2, <2>1, <2>2
  <2>6. \A m \in Nodes, d \in live' : In(m, d)' => m \in live' \ (roots' \cup Freeing')
    BY <1>1, <1>2, <2>1, <2>2
  <2>7. roots' \subseteq live' /\ roots' \cap Freeing' = {}
    BY <1>1, <2>1, <2>2, <2>3, <2>4
  <2> QED BY <1>1, <1>3, <2>1, <2>2, <2>5, <2>6, <2>7
<1>10. ASSUME NEW c \in live, FirstFreed(c) PROVE HeldOnce'
  <2>1. /\ live' = live /\ OneHolder' /\ 1 \in DOMAIN members[c]
        /\ \A n, d : d \in live /\ In(n, d)' => In(n, d)
        /\ \A n, d : d \in live /\ In(n, d) /\ n # Val(c, 1) => In(n, d)'
        /\ \A n, d : d \in live /\ n = Val(c, 1) /\ n # Null => ~In(n, d)'
    BY <1>1, <1>10, MemberDropped DEF FirstFreed
  <2>2. roots' = roots
    BY <1>10 DEF FirstFreed
  <2>3. CASE Val(c, 1) = Null /\ freeing' = freeing
    <3>1. Freeing' = Freeing
      BY <2>3 DEF Freeing
    <3>2. \A m \in live' : Held(m)'
      BY <1>0, <1>1, <1>2, <2>1, <2>2, <2>3, <3>1
    <3>3. \A m \in Nodes, d \in live' : In(m, d)' => m \in live' \ (roots' \cup Freeing')
      BY <1>1, <2>1, <2>2, <3>1
    <3> QED BY <1>1, <1>3, <2>1, <2>2, <2>3, <3>1, <3>2, <3>3
  <2>4. CASE Val(c, 1) \in Nodes /\ freeing' = Append(freeing, Val(c, 1))
    <3>1. PICK v \in Nodes : v = Val(c, 1) /\ v # Null
      BY <1>2, <2>4
    <3>2. In(v, c) /\ v \in live \ (roots \cup Freeing)
      BY <1>1, <2>1, <3>1 DEF In
    <3>3. freeing' = Append(freeing, v) /\ v \notin ToSet(freeing)
      BY <2>4, <3>1, <3>2 DEF Freeing
    <3>4. Freeing' = Freeing \cup {v} /\ IsInjective(freeing')
      BY <1>1, <1>2, <3>3, PushList DEF Freeing
    <3>5. \A m \in live' : Held(m)'
      BY <1>1, <2>1, <2>2, <3>1, <3>4
    <3>6. \A m \in Nodes, d \in live' : In(m, d)' => m \in live' \ (roots' \cup Freeing')
      BY <1>1, <2>1, <2>2, <3>1, <3>4
    <3>7. roots' \cap Freeing' = {} /\ Freeing' \subseteq live'
      BY <1>1, <2>1, <2>2, <3>2, <3>4
    <3> QED BY <1>1, <1>3, <2>1, <2>2, <3>4, <3>5, <3>6, <3>7
  <2> QED BY <1>10, <2>3, <2>4 DEF FirstFreed
<1>11. CASE FreeNode
  <2>1. PICK v \in live :
          /\ v \in Freeing /\ Freeing' = Freeing \ {v} /\ live' = live \ {v}
          /\ IsInjective(freeing') /\ \A n : ~In(n, v)
          /\ UNCHANGED <<members, roots>>
    BY <1>11, FreeNodeEffect
  <2>2. (OneHolder => OneHolder') /\ \A m, d : In(m, d)' <=> In(m, d)
    BY <2>1 DEF OneHolder, In, Val
  <2>3. \A m \in live' : Held(m)'
    BY <1>1, <2>1, <2>2
  <2>4. \A m \in Nodes, d \in live' : In(m, d)' => m \in live' \ (roots' \cup Freeing')
    BY <1>1, <2>1, <2>2
  <2>5. roots' \subseteq live' /\ Freeing' \subseteq live' /\ roots' \cap Freeing' = {}
    BY <1>1, <2>1
  <2> QED BY <1>1, <1>3, <2>1, <2>2, <2>3, <2>4, <2>5
<1>12. ASSUME (\E c \in live : ClearStart(c)) \/ ClearEnd \/ UNCHANGED vars
       PROVE  UNCHANGED <<taken, members, roots, freeing>>
  BY <1>12 DEF ClearStart, ClearEnd, vars
<1> QED BY <1>0, <1>4, <1>5, <1>6, <1>7, <1>8, <1>9, <1>10, <1>11, <1>12, StepEffect

LEMMA NextForest ==
  ASSUME TypeOK, TakenOnce, HeldOnce, DoomedInv, Forest, [Next]_vars
  PROVE  Forest'
<1>0. /\ Freeing \subseteq live /\ (clearing # Null => clearing \in live)
      /\ live \subseteq Nodes /\ OneHolder /\ Null \notin Nodes
      /\ \A c \in live : \A n \in Nodes : In(n, c) => n \notin roots
  BY NullAssumption DEF HeldOnce, OneHolder, DoomedInv, live
<1>1. ASSUME live' \subseteq live, \A n, d : d \in live' /\ In(n, d)' => In(n, d)
      PROVE  Forest'
  BY <1>1 DEF Forest
<1>2. ASSUME NEW n \in Nodes, NEW ty \in Types, New(n, ty) PROVE Forest'
  <2>1. /\ n \notin live /\ live' = live \cup {n} /\ \A m : ~In(m, n)'
        /\ \A m, d : d \in live => (In(m, d)' <=> In(m, d))
    BY <1>2, NewEffect
  <2>2. ASSUME NEW S \in SUBSET live', S # {}
        PROVE  \E m \in S : \A c \in S : ~In(m, c)'
    <3> DEFINE R == S \ {n}
    <3>1. CASE R = {}
      BY <2>1, <2>2, <3>1
    <3>2. CASE R # {}
      <4>1. R \in SUBSET live
        BY <2>1
      <4>2. PICK m \in R : \A c \in R : ~In(m, c)
        BY <3>2, <4>1 DEF Forest
      <4>3. \A c \in S : ~In(m, c)'
        BY <2>1, <4>1, <4>2
      <4> QED BY <4>2, <4>3
    <3> QED BY <3>1, <3>2
  <2> QED BY <2>2 DEF Forest
<1>3. ASSUME NEW c \in live, NEW k, NEW v \in live \cup {Null}, Adds(c, k, v)
      PROVE  Forest'
  <2>1. /\ v = Null \/ (v \in roots /\ c \notin Tree(v))
        /\ v = Null \/ \A d \in live : ~In(v, d)
    BY <1>0, <1>3 DEF Adds, MayAdd
  <2>2. /\ live' = live
        /\ \A n, d : d \in live => (In(n, d)' <=> In(n, d) \/ (d = c /\ n = v))
    BY <1>0, <1>3, <2>1, MemberGained DEF Adds
  <2>3. ASSUME NEW S \in SUBSET live, S # {}
        PROVE  \E m \in S : \A d \in S : ~In(m, d)'
    <3>1. PICK m \in S : \A d \in S : ~In(m, d)
      BY <2>3 DEF Forest
    <3>2. CASE ~(m = v /\ c \in S)
      <4>1. \A d \in S : ~In(m, d)'
        BY <2>2, <3>1, <3>2
      <4> QED BY <4>1
    <3>3. CASE m = v /\ c \in S
      \* Then v has a member outside its tree to stand for it.
      <4>1. v \in live /\ c \notin Tree(v)
        BY <1>0, <2>1, <3>3
      <4>2. /\ v \in Tree(v)
            /\ \A a \in Tree(v), n \in live : In(n, a) => n \in Tree(v)
        BY <4>1, TreeFacts
      <4> DEFINE R == S \ Tree(v)
      <4>3. R \in SUBSET live /\ R # {}
        BY <3>3, <4>1
      <4>4. PICK n \in R : \A d \in R : ~In(n, d)
        BY <4>3 DEF Forest
      <4>5. n # v /\ \A d \in S : ~In(n, d)
        BY <4>2, <4>3, <4>4
      <4>6. \A d \in S : ~In(n, d)'
        BY <2>2, <4>5
      <4> QED BY <4>4, <4>6
    <3> QED BY <3>2, <3>3
  <2> QED BY <2>2, <2>3 DEF Forest
<1>4. ASSUME NEW c \in live, NEW i, Drops(c, i) PROVE Forest'
  BY <1>0, <1>1, <1>4, MemberDropped
<1>5. ASSUME NEW c \in live, NEW i, KeyRemoved(c, i) \/ ElemTaken(c, i) PROVE Forest'
  BY <1>4, <1>5 DEF KeyRemoved, ElemTaken
<1>6. ASSUME NEW c \in live, FirstFreed(c) PROVE Forest'
  BY <1>4, <1>6 DEF FirstFreed
<1>7. CASE FreeNode
  <2>1. PICK v \in live : live' = live \ {v} /\ members' = members
    BY <1>7, FreeNodeEffect
  <2>2. \A n, d : In(n, d)' => In(n, d)
    BY <2>1 DEF In, Val
  <2> QED BY <1>1, <2>1, <2>2
<1>8. ASSUME \/ \E v \in roots : FreeStart(v)
             \/ \E c \in live : ClearStart(c)
             \/ ClearEnd \/ UNCHANGED vars
      PROVE  Forest'
  <2>1. UNCHANGED <<taken, members>>
    BY <1>8 DEF FreeStart, ClearStart, ClearEnd, vars
  <2>2. live' = live /\ \A n, d : In(n, d)' => In(n, d)
    BY <2>1 DEF live, In, Val
  <2> QED BY <1>1, <2>2
<1> QED BY <1>0, <1>2, <1>3, <1>5, <1>6, <1>7, <1>8, StepEffect

\* When no call is under way and nothing is being cleared, nothing is
\* doomed: a doomed value is held by another, and a forest has a top.
LEMMA NothingLeft ==
  ASSUME NEW D \in SUBSET live, Forest, \A d \in D : \E c \in D : In(d, c)
  PROVE  D = {}
BY DEF Forest

LEMMA NextFrees ==
  ASSUME TypeOK, TakenOnce, HeldOnce, Forest, DoomedInv, FreesExactly, [Next]_vars
  PROVE  DoomedInv' /\ FreesExactly'
<1> DEFINE Due(d) == \/ d \in Freeing
                     \/ \E c \in doomed : In(d, c)
                     \/ clearing # Null /\ In(d, clearing)
           OutOf(c) == \A n \in live : In(n, c) => n \in doomed
<1>0. /\ Freeing \subseteq live /\ roots \subseteq live
      /\ live \subseteq Nodes /\ OneHolder /\ Null \notin Nodes
      /\ \A c \in live : \A n \in Nodes : In(n, c) => n \in live \ roots
  BY NullAssumption DEF HeldOnce, OneHolder, live
<1>1. /\ \A c \in doomed : OutOf(c)
      /\ \A d \in doomed : Due(d)
      /\ clearing # Null => clearing \in live \ doomed /\ OutOf(clearing)
  BY DEF DoomedInv
<1>2. /\ Freeing \subseteq doomed /\ doomed \subseteq live \ roots
      /\ freeing = <<>> /\ clearing = Null => doomed = {}
  BY DEF FreesExactly, Idle
<1>3. ASSUME \A c \in doomed' : OutOf(c)', \A d \in doomed' : Due(d)',
             clearing' # Null => clearing' \in live' \ doomed'
                                 /\ \A n \in live' : In(n, clearing)' => n \in doomed'
      PROVE  DoomedInv'
  BY <1>3 DEF DoomedInv
<1>4. ASSUME Freeing' \subseteq doomed', doomed' \subseteq live' \ roots',
             freeing' = <<>> /\ clearing' = Null => doomed' = {}
      PROVE  FreesExactly'
  BY <1>4 DEF FreesExactly, Idle
\* Nothing is doomed before and after.
<1>5. ASSUME Idle, UNCHANGED <<freeing, clearing, doomed>>
      PROVE  DoomedInv' /\ FreesExactly'
  <2>1. doomed' = {} /\ clearing' = Null /\ Freeing' = {}
    BY <1>2, <1>5, EmptyList DEF Idle, Freeing
  <2> QED BY <1>3, <1>4, <2>1
<1>6. ASSUME NEW n \in Nodes, NEW ty \in Types, New(n, ty)
      PROVE  DoomedInv' /\ FreesExactly'
  BY <1>5, <1>6 DEF New
<1>7. ASSUME NEW c \in live, NEW k, NEW v, Adds(c, k, v)
      PROVE  DoomedInv' /\ FreesExactly'
  BY <1>5, <1>7 DEF Adds, MayAdd
<1>8. ASSUME NEW c \in live, NEW i, ElemTaken(c, i)
      PROVE  DoomedInv' /\ FreesExactly'
  BY <1>5, <1>8 DEF ElemTaken
<1>9. ASSUME UNCHANGED vars PROVE DoomedInv' /\ FreesExactly'
  BY <1>9 DEF vars, DoomedInv, FreesExactly, Idle, Freeing, In, Val, live
<1>10. ASSUME NEW v \in roots, FreeStart(v) PROVE DoomedInv' /\ FreesExactly'
  <2>1. /\ roots' = roots \ {v} /\ freeing' = <<v>> /\ doomed' = Tree(v)
        /\ clearing' = Null /\ UNCHANGED <<taken, members>>
    BY <1>10 DEF FreeStart, Idle
  <2>2. live' = live /\ \A m, d : In(m, d)' <=> In(m, d)
    BY <2>1 DEF live, In, Val
  <2>3. Freeing' = {v} /\ freeing' # <<>> /\ v \in live
    BY <1>0, <2>1 DEF Freeing, ToSet
  <2>4. /\ v \in Tree(v) /\ Tree(v) \subseteq live
        /\ \A c \in Tree(v), n \in live : In(n, c) => n \in Tree(v)
        /\ \A d \in Tree(v) : d = v \/ \E c \in Tree(v) : In(d, c)
        /\ \A r \in roots : r # v => r \notin Tree(v)
    BY <1>0, <2>3, TreeFacts
  <2>5. DoomedInv'
    BY <1>3, <2>1, <2>2, <2>3, <2>4
  <2>6. FreesExactly'
    BY <1>4, <2>1, <2>2, <2>3, <2>4
  <2> QED BY <2>5, <2>6
<1>11. ASSUME NEW c \in live, ClearStart(c) PROVE DoomedInv' /\ FreesExactly'
  <2>1. /\ freeing' = <<>> /\ clearing' = c /\ doomed' = Tree(c) \ {c}
        /\ UNCHANGED <<taken, members, roots>>
    BY <1>11 DEF ClearStart, Idle
  <2>2. live' = live /\ \A m, d : In(m, d)' <=> In(m, d)
    BY <2>1 DEF live, In, Val
  <2>3. Freeing' = {} /\ clearing' # Null
    BY <1>0, <2>1, EmptyList DEF Freeing
  <2>4. /\ c \in Tree(c) /\ Tree(c) \subseteq live
        /\ \A a \in Tree(c), n \in live : In(n, a) => n \in Tree(c)
        /\ \A d \in Tree(c) : d = c \/ \E a \in Tree(c) : In(d, a)
        /\ \A r \in roots : r # c => r \notin Tree(c)
    BY <1>0, TreeFacts
  <2>5. \A a \in Tree(c) : ~In(c, a)
    BY TreeTop
  <2>6. \A n \in live : In(n, clearing)' => n \in doomed'
    <3>1. \A n : In(n, clearing)' <=> In(n, c)
      BY <2>1 DEF In, Val
    <3> QED BY <2>1, <2>4, <2>5, <3>1
  <2>7. \A d \in doomed' : Due(d)'
    <3>1. \A n : In(n, clearing)' <=> In(n, c)
      BY <2>1 DEF In, Val
    <3> QED BY <2>1, <2>2, <2>3, <2>4, <3>1
  <2>8. \A a \in doomed' : OutOf(a)'
    BY <2>1, <2>2, <2>4, <2>5
  <2>9. DoomedInv'
    BY <1>3, <2>1, <2>2, <2>6, <2>7, <2>8
  <2>10. FreesExactly'
    BY <1>4, <2>1, <2>2, <2>3, <2>4
  <2> QED BY <2>9, <2>10
<1>12. ASSUME NEW c \in live, NEW i, KeyRemoved(c, i) PROVE DoomedInv' /\ FreesExactly'
  <2>1. /\ live' = live /\ i \in DOMAIN members[c]
        /\ \A n, d : d \in live /\ In(n, d)' => In(n, d)
        /\ \A n, d : d \in live /\ In(n, d) /\ n # Val(c, i) => In(n, d)'
    BY <1>0, <1>12, MemberDropped DEF KeyRemoved
  <2>2. roots' = roots /\ clearing' = Null
    BY <1>12 DEF KeyRemoved, Idle
  <2>3. CASE Val(c, i) = Null /\ freeing' = <<>> /\ doomed' = {}
    <3>1. Freeing' = {}
      BY <2>3, EmptyList DEF Freeing
    <3> QED BY <1>3, <1>4, <2>2, <2>3, <3>1
  <2>4. CASE Val(c, i) \in Nodes /\ freeing' = <<Val(c, i)>> /\ doomed' = Tree(Val(c, i))
    <3>1. PICK v \in Nodes : v = Val(c, i)
      BY <2>4
    <3>2. v \in live \ roots
      BY <1>0, <2>1, <3>1 DEF In
    <3>3. Freeing' = {v} /\ freeing' # <<>>
      BY <2>4, <3>1 DEF Freeing, ToSet
    <3>4. doomed' = Tree(v)
      BY <2>4, <3>1
    <3>5. /\ v \in Tree(v) /\ Tree(v) \subseteq live
          /\ \A a \in Tree(v), n \in live : In(n, a) => n \in Tree(v)
          /\ \A d \in Tree(v) : d = v \/ \E a \in Tree(v) : In(d, a)
          /\ \A r \in roots : r # v => r \notin Tree(v)
      BY <1>0, <3>2, TreeFacts
    <3>6. \A a \in doomed' : OutOf(a)'
      BY <2>1, <3>4, <3>5
    <3>7. \A d \in doomed' : Due(d)'
      BY <2>1, <3>1, <3>3, <3>4, <3>5
    <3>8. DoomedInv'
      BY <1>3, <2>2, <3>6, <3>7
    <3>9. FreesExactly'
      BY <1>4, <2>1, <2>2, <3>2, <3>3, <3>4, <3>5
    <3> QED BY <3>8, <3>9
  <2> QED BY <1>12, <2>3, <2>4 DEF KeyRemoved
<1>13. ASSUME NEW c \in live, FirstFreed(c) PROVE DoomedInv' /\ FreesExactly'
  <2>1. /\ live' = live /\ 1 \in DOMAIN members[c]
        /\ \A n, d : d \in live /\ In(n, d)' => In(n, d)
        /\ \A n, d : d \in live /\ In(n, d) /\ n # Val(c, 1) => In(n, d)'
    BY <1>0, <1>13, MemberDropped DEF FirstFreed
  <2>2. UNCHANGED <<roots, clearing, doomed>>
    BY <1>13 DEF FirstFreed
  <2>3. OutOf(c)
    <3>1. CASE freeing # <<>> /\ c = Last(freeing)
      <4>1. c \in Freeing
        BY <3>1, PopList DEF TypeOK, HeldOnce, Freeing
      <4> QED BY <1>1, <1>2, <4>1
    <3>2. CASE c = clearing /\ clearing # Null
      BY <1>1, <3>2
    <3> QED BY <1>13, <3>1, <3>2 DEF FirstFreed
  <2>4. \/ Val(c, 1) = Null /\ Freeing' = Freeing /\ freeing' = freeing
        \/ Val(c, 1) \in doomed /\ Freeing' = Freeing \cup {Val(c, 1)} /\ freeing' # <<>>
    <3>1. CASE Val(c, 1) = Null /\ freeing' = freeing
      BY <3>1 DEF Freeing
    <3>2. CASE Val(c, 1) \in Nodes /\ freeing' = Append(freeing, Val(c, 1))
      <4>1. In(Val(c, 1), c)
        BY <2>1 DEF In
      <4>2. Val(c, 1) \in live
        BY <1>0, <3>2, <4>1
      <4>3. Val(c, 1) \in doomed
        BY <2>3, <4>1, <4>2
      <4>4. PICK v \in Nodes : v = Val(c, 1)
        BY <3>2
      <4>5. freeing \in Seq(Nodes) /\ freeing' = Append(freeing, v)
        BY <3>2, <4>4 DEF TypeOK
      <4>6. Freeing' = Freeing \cup {v} /\ freeing' # <<>>
        BY <4>5, PushList DEF Freeing
      <4> QED BY <4>3, <4>4, <4>6
    <3> QED BY <1>13, <3>1, <3>2 DEF FirstFreed
  <2>5. \A a \in doomed' : OutOf(a)'
    BY <1>1, <1>2, <2>1, <2>2
  <2>6. \A n \in live : In(n, clearing)' => clearing = Null \/ In(n, clearing)
    <3>1. \A d : clearing = d => (\A n : In(n, clearing)' <=> In(n, d)')
      BY <2>2 DEF In, Val
    <3>2. clearing = Null \/ clearing \in live
      BY <1>1
    <3> QED BY <2>1, <3>1, <3>2
  <2>7. \A d \in doomed' : Due(d)'
    <3>1. ASSUME NEW d \in doomed PROVE Due(d)'
      <4>1. CASE d \in Freeing
        BY <2>4, <4>1
      <4>2. CASE d = Val(c, 1)
        BY <1>0, <1>2, <2>4, <3>1, <4>2
      <4>3. CASE d # Val(c, 1) /\ \E a \in doomed : In(d, a)
        BY <1>2, <2>1, <2>2, <4>3
      <4>4. CASE d # Val(c, 1) /\ clearing # Null /\ In(d, clearing)
        <5>1. PICK a \in live : a = clearing
          BY <1>1, <4>4
        <5>2. In(d, a)'
          BY <2>1, <4>4, <5>1
        <5>3. clearing' = a /\ clearing' # Null
          BY <2>2, <4>4, <5>1
        <5>4. In(d, clearing)'
          BY <5>2, <5>3 DEF In, Val
        <5> QED BY <5>3, <5>4
      <4> QED BY <1>1, <3>1, <4>1, <4>2, <4>3, <4>4
    <3> QED BY <2>2, <3>1
  <2>8. DoomedInv'
    BY <1>1, <1>3, <2>1, <2>2, <2>5, <2>6, <2>7
  <2>9. FreesExactly'
    BY <1>2, <1>4, <2>1, <2>2, <2>4
  <2> QED BY <2>8, <2>9
<1>14. CASE FreeNode
  <2>1. PICK v \in live :
          /\ v \in Freeing /\ Freeing' = Freeing \ {v} /\ live' = live \ {v}
          /\ \A n : ~In(n, v) /\ freeing' \in Seq(Nodes)
          /\ doomed' = doomed \ {v} /\ UNCHANGED <<members, roots, clearing>>
    BY <1>14, FreeNodeEffect
  <2>2. \A n, d : In(n, d)' <=> In(n, d)
    BY <2>1 DEF In, Val
  <2>3. \A n : In(n, clearing)' <=> In(n, clearing)
    BY <2>1 DEF In, Val
  <2>4. \A a \in doomed' : OutOf(a)'
    <3>1. \A a \in doomed', n \in live' : In(n, a) => n \in doomed'
      BY <1>1, <2>1
    <3> QED BY <2>2, <3>1
  <2>5. \A d \in doomed' : Due(d)'
    BY <1>1, <2>1, <2>2, <2>3
  <2>6. DoomedInv'
    BY <1>1, <1>2, <1>3, <2>1, <2>3, <2>4, <2>5
  <2>7. ASSUME freeing' = <<>>, clearing' = Null PROVE doomed' = {}
    <3>1. Freeing' = {}
      BY <2>7, EmptyList DEF Freeing
    <3>2. \A d \in doomed' : \E a \in doomed' : In(d, a)
      BY <2>1, <2>2, <2>5, <2>7, <3>1
    <3>3. doomed' \in SUBSET live
      BY <1>2, <2>1
    <3> QED BY <3>2, <3>3, NothingLeft
  <2>8. FreesExactly'
    BY <1>2, <1>4, <2>1, <2>7
  <2> QED BY <2>6, <2>8
<1>15. CASE ClearEnd
  <2>1. /\ freeing = <<>> /\ members[clearing] = <<>>
        /\ clearing' = Null
        /\ UNCHANGED <<taken, type, members, roots, freeing, doomed>>
    BY <1>15 DEF ClearEnd
  <2>2. Freeing = {} /\ \A n : ~In(n, clearing)
    BY <2>1, EmptyList DEF Freeing, In
  <2>3. doomed = {}
    <3>1. \A d \in doomed : \E c \in doomed : In(d, c)
      BY <1>1, <2>2
    <3> QED BY <1>2, <3>1, NothingLeft
  <2>4. Freeing' = {} /\ doomed' = {}
    BY <2>1, <2>2, <2>3 DEF Freeing
  <2> QED BY <1>3, <1>4, <2>1, <2>4
<1> QED BY <1>0, <1>1, <1>6, <1>7, <1>8, <1>9, <1>10, <1>11, <1>12, <1>13, <1>14, <1>15,
           StepEffect

-----------------------------------------------------------------------------
(* The invariant, and what follows. *)

IInv == /\ TypeOK /\ TakenOnce /\ MembersFit /\ HeldOnce
        /\ Forest /\ DoomedInv /\ FreesExactly

LEMMA InitIInv == Init => IInv
<1> SUFFICES ASSUME Init PROVE IInv
  OBVIOUS
<1>1. /\ taken = [n \in Nodes |-> 0] /\ roots = {} /\ type = [n \in Nodes |-> "none"]
      /\ members = [n \in Nodes |-> <<>>] /\ freeing = <<>> /\ clearing = Null
      /\ doomed = {}
  BY DEF Init
<1>2. live = {} /\ Freeing = {} /\ IsInjective(freeing)
  BY <1>1, EmptyList DEF live, Freeing
<1>3. TypeOK
  <2>1. <<>> \in Seq(Member) /\ <<>> \in Seq(Nodes)
    OBVIOUS
  <2>2. members \in [Nodes -> Seq(Member)]
    BY <1>1, <2>1
  <2>3. type \in [Nodes -> Types \cup {"none"}] /\ taken \in [Nodes -> Int]
    BY <1>1
  <2> QED BY <1>1, <1>2, <2>1, <2>2, <2>3 DEF TypeOK
<1>4. TakenOnce /\ MembersFit /\ HeldOnce /\ Forest
  BY <1>1, <1>2 DEF TakenOnce, MembersFit, HeldOnce, Forest
<1>5. DoomedInv /\ FreesExactly
  BY <1>1, <1>2 DEF DoomedInv, FreesExactly
<1> QED BY <1>3, <1>4, <1>5 DEF IInv

LEMMA NextIInv == IInv /\ [Next]_vars => IInv'
BY NextTypeOK, NextTakenOnce, NextMembersFit, NextHeldOnce, NextForest, NextFrees DEF IInv

LEMMA Invariance == Spec => []IInv
BY InitIInv, NextIInv, PTL DEF Spec

\* Tags, lists and call stacks keep their types.
THEOREM TypeCorrect == Spec => []TypeOK
<1>1. IInv => TypeOK
  BY DEF IInv
<1> QED BY <1>1, Invariance, PTL

\* The tag of a value says what its union holds.
THEOREM TagsFit == Spec => []MembersFit
<1>1. IInv => MembersFit
  BY DEF IInv
<1> QED BY <1>1, Invariance, PTL

\* Every value has exactly one holder, however values are built, moved,
\* removed and freed.
THEOREM OneOwner == Spec => []HeldOnce
<1>1. IInv => HeldOnce
  BY DEF IInv
<1> QED BY <1>1, Invariance, PTL

\* No value contains itself.
THEOREM NoCycle == Spec => []Forest
<1>1. IInv => Forest
  BY DEF IInv
<1> QED BY <1>1, Invariance, PTL

\* Freeing a value frees its whole tree and nothing else.
THEOREM WholeTreeFreed == Spec => []FreesExactly
<1>1. IInv => FreesExactly
  BY DEF IInv
<1> QED BY <1>1, Invariance, PTL

\* The values use the heap as the contract of the allocator demands: every
\* step that takes or gives back a block is one the abstract allocator has.
THEOREM UsesAllocator == Spec => BlocksSpec
<1>1. Init => Blocks!BAInit
  BY DEF Init, Blocks!BAInit
<1>2. ASSUME IInv, [Next]_vars PROVE [Blocks!BANext]_taken
  <2>0. /\ TypeOK /\ TakenOnce /\ HeldOnce
        /\ Freeing \subseteq live /\ (clearing # Null => clearing \in live)
        /\ live \subseteq Nodes
    BY <1>2 DEF IInv, HeldOnce, DoomedInv, live
  <2>1. ASSUME NEW n \in Nodes, NEW ty \in Types, New(n, ty) PROVE Blocks!BANext
    BY <2>0, <2>1, NewEffect DEF Blocks!BANext, Blocks!Alloc
  <2>2. CASE FreeNode
    BY <2>0, <2>2, FreeNodeEffect DEF Blocks!BANext, Blocks!Free
  <2>3. ASSUME NEW c \in live, NEW i, NEW v,
               Adds(c, i, v) \/ KeyRemoved(c, i) \/ ElemTaken(c, i) \/ FirstFreed(c)
        PROVE  taken' = taken
    BY <2>3 DEF Adds, KeyRemoved, ElemTaken, FirstFreed
  <2>4. ASSUME \/ \E v \in roots : FreeStart(v)
               \/ \E c \in live : ClearStart(c)
               \/ ClearEnd \/ UNCHANGED vars
        PROVE  taken' = taken
    BY <2>4 DEF FreeStart, ClearStart, ClearEnd, vars
  <2> QED BY <1>2, <2>0, <2>1, <2>2, <2>3, <2>4, StepEffect
<1> QED BY <1>1, <1>2, Invariance, PTL DEF Spec, BlocksSpec, Blocks!BASpec
=============================================================================
