------------------------- MODULE LzJsonParseProofs -------------------------
(***************************************************************************)
(* Proofs about the ownership of values while a text is parsed: whatever   *)
(* the text, every value made is in the tree of one running call, is one   *)
(* call's key, or is in the result, so that the error exits free each once *)
(* and leave none behind.                                                  *)
(***************************************************************************)
EXTENDS LzJsonParse, ListLemmas

\* The values the running calls and the program hold.
In(n, c) == \E i \in DOMAIN kids[c] : kids[c][i].val = n

\* What a value found waiting with a call can be: a key only while the text
\* between it and its value is read, and nothing is in a key.  A call that
\* is not the innermost waits for a value.
FrameInv ==
  \A i \in 1..Len(stack) :
    /\ stack[i].state = "key" => stack[i].open = "{"
    /\ stack[i].key # 0 <=> stack[i].open = "{" /\ stack[i].state \in {"delim", "val"}
    /\ stack[i].key # 0 => input[stack[i].key] \in Strs /\ kids[stack[i].key] = <<>>
    /\ i < Len(stack) => stack[i].state = "val"

\* Values are named by where they begin: those of a call come before those
\* of the calls it made, and all before where the parser is.
OrderInv ==
  /\ \A i \in 1..Len(stack) :
       /\ stack[i].js < pos /\ stack[i].key < pos
       /\ stack[i].key # 0 => stack[i].js < stack[i].key
  /\ \A i, j \in 1..Len(stack) :
       i < j => stack[i].js < stack[j].js /\ stack[i].key < stack[j].js
  /\ \A v \in 1..Len(input) : v >= pos => v \notin live /\ kids[v] = <<>>

RunInv ==
  /\ input \in Inputs
  /\ stack # <<>> => result = Running
  /\ failing => stack # <<>>

\* Every value has one holder: a call, the program, or one place in one
\* container, which begins before it.
OwnInv ==
  /\ Roots \subseteq live /\ live \subseteq Nat \ {0}
  /\ \A c \in live : \A n : In(n, c) => n \in live \ Roots /\ c < n
  /\ \A c, d \in live : \A i \in DOMAIN kids[c], j \in DOMAIN kids[d] :
       kids[c][i].val = kids[d][j].val => c = d /\ i = j
  /\ \A n \in live : n \in Roots \/ \E c \in live : In(n, c)

\* A call that has its closing bracket has no key, and reads no further.
ClosedInv ==
  \A i \in 1..Len(stack) :
    stack[i].closed => stack[i].state = "end" \/ (stack[i].state = "comma" /\ AtEnd)

IInv == TypeOK /\ RunInv /\ FrameInv /\ OrderInv /\ ClosedInv /\ OwnInv

-----------------------------------------------------------------------------
(* Trees. *)

LEMMA KidsHeld ==
  ASSUME OwnInv
  PROVE  /\ Held = live
         /\ \A S : Closed(S) <=> \A c \in S : \A n : In(n, c) => n \in S
<1>1. \A c : \A m \in ToSet(kids[c]) : In(m.val, c)
  BY DEF ToSet, In
<1>2. \A c, n : In(n, c) => \E m \in ToSet(kids[c]) : m.val = n
  BY DEF ToSet, In
<1>3. \A c \in live : \A n : In(n, c) => n \in live
  BY DEF OwnInv
<1>4. Held = live
  BY <1>1, <1>3 DEF Held
<1>5. \A S : Closed(S) <=> \A c \in S : \A n : In(n, c) => n \in S
  BY <1>1, <1>2 DEF Closed
<1> QED BY <1>4, <1>5

LEMMA OneHolder ==
  ASSUME OwnInv, NEW c \in live, NEW d \in live, NEW n, In(n, c), In(n, d)
  PROVE  c = d
<1>1. PICK i \in DOMAIN kids[c] : kids[c][i].val = n
  BY DEF In
<1>2. PICK j \in DOMAIN kids[d] : kids[d][j].val = n
  BY DEF In
<1> QED BY <1>1, <1>2 DEF OwnInv

LEMMA TreeFacts ==
  ASSUME OwnInv, NEW v \in live
  PROVE  /\ v \in Tree(v) /\ Tree(v) \subseteq live
         /\ \A c \in Tree(v) : \A n : In(n, c) => n \in Tree(v)
         /\ \A d \in Tree(v) : v <= d /\ (d = v \/ \E c \in Tree(v) : In(d, c))
<1> DEFINE Shut(S) == \A c \in S : \A n : In(n, c) => n \in S
<1>1. Tree(v) = {n \in live : \A S \in SUBSET live : v \in S /\ Shut(S) => n \in S}
  BY KidsHeld DEF Tree
<1>2. v \in Tree(v) /\ Tree(v) \subseteq live
  BY <1>1
<1>3. \A S \in SUBSET live : v \in S /\ Shut(S) => Tree(v) \subseteq S
  BY <1>1
<1>4. ASSUME NEW c \in Tree(v), NEW n, In(n, c) PROVE n \in Tree(v)
  <2>1. n \in live
    BY <1>2, <1>4 DEF OwnInv
  <2>2. ASSUME NEW S \in SUBSET live, v \in S, Shut(S) PROVE n \in S
    <3>1. c \in S
      BY <1>3, <2>2
    <3> QED BY <1>4, <2>2, <3>1
  <2> QED BY <1>1, <2>1, <2>2
<1>5. ASSUME NEW d \in Tree(v) PROVE d = v \/ \E c \in Tree(v) : In(d, c)
  <2> DEFINE S == {e \in Tree(v) : e = v \/ \E c \in Tree(v) : In(e, c)}
  <2>1. S \in SUBSET live /\ v \in S
    BY <1>2
  <2>2. Shut(S)
    BY <1>4
  <2> QED BY <1>3, <2>1, <2>2
<1>6. ASSUME NEW d \in Tree(v) PROVE v <= d
  <2> DEFINE S == {e \in live : v <= e}
  <2>0. live \subseteq Nat \ {0}
    BY DEF OwnInv
  <2>1. S \in SUBSET live /\ v \in S
    BY <2>0
  <2>2. ASSUME NEW c \in S, NEW n, In(n, c) PROVE n \in S
    <3>1. c \in live /\ v <= c /\ n \in live /\ c < n
      BY <2>2 DEF OwnInv
    <3> QED BY <2>0, <3>1
  <2>3. Shut(S)
    BY <2>2
  <2> HIDE DEF S
  <2>4. d \in S
    BY <1>3, <2>1, <2>3
  <2> QED BY <2>4 DEF S
<1> QED BY <1>2, <1>4, <1>5, <1>6

\* Values neither of which is inside the other have nothing in common.
LEMMA TreesApart ==
  ASSUME OwnInv, NEW a \in live, NEW b \in live, a \notin Tree(b), b \notin Tree(a)
  PROVE  Tree(a) \cap Tree(b) = {}
<1> DEFINE T == Tree(a) \cap Tree(b)
<1>1. SUFFICES ASSUME T # {} PROVE FALSE
  OBVIOUS
<1>2. T \in SUBSET Nat /\ T \subseteq live
  BY TreeFacts DEF OwnInv
<1>3. PICK m \in T : \A k \in T : m <= k
  BY <1>1, <1>2, LeastNatural
<1>4. m # a /\ m # b /\ m \in live
  BY <1>2, <1>3
<1>5. PICK c \in Tree(a) : In(m, c)
  BY <1>4, TreeFacts
<1>6. PICK d \in Tree(b) : In(m, d)
  BY <1>4, TreeFacts
<1>7. c \in live /\ d \in live
  BY <1>5, <1>6, TreeFacts
<1>8. c = d
  BY <1>5, <1>6, <1>7, OneHolder
<1>9. c < m /\ c \in T /\ c \in Nat /\ m \in Nat
  BY <1>2, <1>5, <1>6, <1>7, <1>8 DEF OwnInv
<1>10. m <= c
  BY <1>3, <1>9
<1> QED BY <1>9, <1>10

\* A root is in no other tree.
LEMMA RootOutside ==
  ASSUME OwnInv, NEW r \in Roots, NEW v \in live, r # v
  PROVE  r \notin Tree(v)
BY TreeFacts DEF OwnInv

LEMMA OwnedOnce ==
  ASSUME OwnInv
  PROVE  ValuesOwnedOnce
<1>1. live = UNION {Tree(r) : r \in Roots}
  <2>1. \A r \in Roots : r \in live /\ r \in Tree(r) /\ Tree(r) \subseteq live
    BY TreeFacts DEF OwnInv
  <2> DEFINE T == {n \in live : \A r \in Roots : n \notin Tree(r)}
  <2>2. T = {}
    <3>1. SUFFICES ASSUME T # {} PROVE FALSE
      OBVIOUS
    <3>2. T \in SUBSET Nat
      BY DEF OwnInv
    <3>3. PICK m \in T : \A k \in T : m <= k
      BY <3>1, <3>2, LeastNatural
    <3>4. m \in live /\ m \notin Roots
      BY <2>1
    <3>5. PICK c \in live : In(m, c)
      BY <3>4 DEF OwnInv
    <3>6. c < m /\ c \in Nat /\ m \in Nat
      BY <3>4, <3>5 DEF OwnInv
    <3>7. c \notin T
      BY <3>3, <3>6
    <3>8. PICK r \in Roots : c \in Tree(r)
      BY <3>7
    <3>9. m \in Tree(r)
      BY <2>1, <3>5, <3>8, TreeFacts
    <3> QED BY <3>9
  <2> QED BY <2>1, <2>2
<1>2. \A r, q \in Roots : r # q => Tree(r) \cap Tree(q) = {}
  BY RootOutside, TreesApart DEF OwnInv
<1>3. ASSUME NEW v \in live, NEW i \in DOMAIN kids[v], NEW j \in DOMAIN kids[v], i # j
      PROVE  Tree(kids[v][i].val) \cap Tree(kids[v][j].val) = {}
  <2>1. ASSUME NEW a, NEW b, In(a, v), In(b, v), a # b PROVE a \notin Tree(b)
    <3>1. a \in live /\ b \in live /\ v < b /\ v \in Nat /\ b \in Nat
      BY <2>1 DEF OwnInv
    <3>2. SUFFICES ASSUME a \in Tree(b) PROVE FALSE
      OBVIOUS
    <3>3. PICK c \in Tree(b) : In(a, c)
      BY <2>1, <3>1, <3>2, TreeFacts
    <3>4. c \in live /\ b <= c
      BY <3>1, <3>3, TreeFacts
    <3>5. c = v
      BY <2>1, <3>3, <3>4, OneHolder
    <3> QED BY <3>1, <3>4, <3>5
  <2> DEFINE a == kids[v][i].val
             b == kids[v][j].val
  <2>2. In(a, v) /\ In(b, v)
    BY <1>3 DEF In
  <2>3. a # b
    <3>1. \A c, d \in live : \A k \in DOMAIN kids[c], l \in DOMAIN kids[d] :
             kids[c][k].val = kids[d][l].val => c = d /\ k = l
      BY DEF OwnInv
    <3> QED BY <1>3, <3>1
  <2>4. a \in live /\ b \in live
    BY <2>2 DEF OwnInv
  <2> HIDE DEF a, b
  <2>5. Tree(a) \cap Tree(b) = {}
    BY <2>1, <2>2, <2>3, <2>4, TreesApart
  <2> QED BY <2>5 DEF a, b
<1> QED BY <1>1, <1>2, <1>3 DEF ValuesOwnedOnce

-----------------------------------------------------------------------------
(* What becomes of the holders when values are made, adopted and freed. *)

\* Nothing is in a value without members.
LEMMA NoKids == \A c : kids[c] = <<>> => \A n : ~In(n, c)
BY DEF In

LEMMA HoldersKept ==
  ASSUME OwnInv, live' = live, kids' = kids, Roots' = Roots
  PROVE  OwnInv'
<1>1. \A n, c : In(n, c)' <=> In(n, c)
  BY DEF In
<1> QED BY <1>1 DEF OwnInv

\* A value is made and has a call for its holder.
LEMMA ValueMade ==
  ASSUME OwnInv, NEW v \in Nat \ {0}, v \notin live, kids[v] = <<>>,
         live' = live \cup {v}, kids' = kids, Roots' = Roots \cup {v}
  PROVE  OwnInv'
<1>1. \A n, c : In(n, c)' <=> In(n, c)
  BY DEF In
<1>2. \A n : ~In(n, v)
  BY NoKids
<1>3. Roots' \subseteq live' /\ live' \subseteq Nat \ {0}
  BY DEF OwnInv
<1>4. ASSUME NEW c \in live', NEW n, In(n, c) PROVE n \in live' \ Roots' /\ c < n
  <2>1. c \in live
    BY <1>2, <1>4
  <2> QED BY <1>4, <2>1 DEF OwnInv
<1>5. \A c, d \in live' : \A i \in DOMAIN kids[c], j \in DOMAIN kids[d] :
        kids[c][i].val = kids[d][j].val => c = d /\ i = j
  <2>1. \A c \in live' : \A i \in DOMAIN kids[c] : c \in live
    OBVIOUS
  <2> QED BY <2>1 DEF OwnInv
<1>6. \A n \in live' : n \in Roots' \/ \E c \in live' : In(n, c)
  BY DEF OwnInv
<1> QED BY <1>1, <1>3, <1>4, <1>5, <1>6 DEF OwnInv

\* v, which a call held or which is new, becomes a member of c, and the key
\* k, if there is one, is freed.
Adopted(c, v, k) ==
  /\ c \in Roots /\ v \in Nat \ {0} /\ c < v
  /\ v \in Roots \/ (v \notin live /\ kids[v] = <<>>)
  /\ k \in Roots \cup {0} /\ (k # 0 => kids[k] = <<>>) /\ k # c /\ k # v
  /\ live' = (live \cup {v}) \ {k}
  /\ Roots' = Roots \ {v, k}
  /\ \A d \in live \cup {v} : d # c => kids'[d] = kids[d]
  /\ \E S, i : LacksAt(S, kids[c], kids'[c], i) /\ kids'[c][i].val = v

LEMMA ValueAdopted ==
  ASSUME OwnInv, NEW c, NEW v, NEW k, Adopted(c, v, k)
  PROVE  OwnInv'
<1>1. PICK S, p : LacksAt(S, kids[c], kids'[c], p) /\ kids'[c][p].val = v
  BY DEF Adopted
<1> DEFINE Place(d, i) == IF d = c THEN Back(p, i) ELSE i
           Fresh(d, i) == d = c /\ i = p
<1>2. /\ c \in live /\ c # v /\ k \notin live'
      /\ live' \subseteq live \cup {v} /\ live' \subseteq Nat \ {0}
  BY DEF Adopted, OwnInv
<1>3. /\ p \in DOMAIN kids'[c]
      /\ \A i \in DOMAIN kids[c] :
           There(p, i) \in DOMAIN kids'[c] /\ kids[c][i] = kids'[c][There(p, i)]
      /\ \A j \in DOMAIN kids'[c] : j # p =>
           Back(p, j) \in DOMAIN kids[c] /\ kids[c][Back(p, j)] = kids'[c][j]
      /\ \A i, j \in DOMAIN kids'[c] : i # p /\ j # p /\ Back(p, i) = Back(p, j) => i = j
  <2>1. p \in DOMAIN kids'[c]
    BY <1>1 DEF LacksAt
  <2> QED BY <1>1, <2>1, LacksAtPlaces
<1>4. \A d \in live \cup {v} : d # c => kids'[d] = kids[d]
  BY DEF Adopted
<1>5. v \notin live => \A n : ~In(n, v)
  BY NoKids DEF Adopted, OwnInv
<1>6. \A d \in live' : \A i \in DOMAIN kids'[d] : ~Fresh(d, i) =>
        d \in live /\ Place(d, i) \in DOMAIN kids[d] /\ kids'[d][i] = kids[d][Place(d, i)]
  <2>1. ASSUME NEW d \in live', NEW i \in DOMAIN kids'[d], d # c PROVE d \in live
    <3>1. kids'[d] = kids[d]
      BY <1>2, <1>4, <2>1
    <3>2. In(kids[d][i].val, d)
      BY <3>1 DEF In
    <3> QED BY <1>2, <1>5, <3>2
  <2> QED BY <1>2, <1>3, <1>4, <2>1
<1>7. \A d \in live' : \A i, j \in DOMAIN kids'[d] :
        ~Fresh(d, i) /\ ~Fresh(d, j) /\ Place(d, i) = Place(d, j) => i = j
  BY <1>3
<1> HIDE DEF Place
<1>8. ASSUME NEW n, NEW d \in live', In(n, d)' PROVE (d \in live /\ In(n, d)) \/ (d = c /\ n = v)
  <2>1. PICK i \in DOMAIN kids'[d] : kids'[d][i].val = n
    BY <1>8 DEF In
  <2>2. CASE ~Fresh(d, i)
    BY <1>6, <2>1, <2>2 DEF In
  <2> QED BY <1>1, <2>1, <2>2
<1>9. ASSUME NEW n, NEW d \in live, In(n, d) PROVE d \in live' /\ In(n, d)'
  <2>1. PICK i \in DOMAIN kids[d] : kids[d][i].val = n
    BY <1>9 DEF In
  <2>2. d # k
    BY <1>9, NoKids DEF Adopted, OwnInv
  <2>3. CASE d = c
    <3>1. There(p, i) \in DOMAIN kids'[c] /\ kids'[c][There(p, i)].val = n
      BY <1>3, <2>1, <2>3
    <3> QED BY <2>2, <2>3, <3>1 DEF In, Adopted
  <2>4. CASE d # c
    BY <1>4, <2>1, <2>2, <2>4 DEF In, Adopted
  <2> QED BY <2>3, <2>4
<1>10. In(v, c)' /\ c \in live'
  BY <1>1, <1>2, <1>3 DEF In, Adopted
<1>11. \A d \in live : ~In(v, d)
  BY DEF Adopted, OwnInv
<1>12. Roots' \subseteq live'
  BY DEF Adopted, OwnInv
<1>13. ASSUME NEW d \in live', NEW n, In(n, d)' PROVE n \in live' \ Roots' /\ d < n
  <2>1. CASE d \in live /\ In(n, d)
    <3>1. n \in live \ Roots /\ d < n
      BY <2>1 DEF OwnInv
    <3> QED BY <3>1 DEF Adopted, OwnInv
  <2>2. CASE d = c /\ n = v
    BY <2>2 DEF Adopted
  <2> QED BY <1>8, <1>13, <2>1, <2>2
<1>14. ASSUME NEW d \in live', NEW e \in live', NEW i \in DOMAIN kids'[d],
              NEW j \in DOMAIN kids'[e], kids'[d][i].val = kids'[e][j].val
       PROVE  d = e /\ i = j
  <2>1. ASSUME NEW g \in live', NEW h \in DOMAIN kids'[g], ~Fresh(g, h)
        PROVE  kids'[g][h].val # v
    BY <1>6, <1>11, <2>1 DEF In
  <2>2. CASE Fresh(d, i) \/ Fresh(e, j)
    BY <1>1, <1>14, <2>1, <2>2
  <2>3. CASE ~Fresh(d, i) /\ ~Fresh(e, j)
    <3>1. /\ d \in live /\ Place(d, i) \in DOMAIN kids[d]
          /\ e \in live /\ Place(e, j) \in DOMAIN kids[e]
          /\ kids[d][Place(d, i)].val = kids[e][Place(e, j)].val
      BY <1>6, <1>14, <2>3
    <3>2. d = e /\ Place(d, i) = Place(e, j)
      BY <3>1 DEF OwnInv
    <3> QED BY <1>7, <2>3, <3>2
  <2> QED BY <2>2, <2>3
<1>15. ASSUME NEW n \in live' PROVE n \in Roots' \/ \E d \in live' : In(n, d)'
  <2>1. CASE n = v
    BY <1>10, <2>1
  <2>2. CASE n # v
    <3>1. n \in live /\ n # k
      BY <2>2, <1>2
    <3>2. CASE n \in Roots
      BY <2>2, <3>1, <3>2 DEF Adopted
    <3>3. CASE n \notin Roots
      BY <1>9, <3>1, <3>3 DEF OwnInv
    <3> QED BY <3>2, <3>3
  <2> QED BY <2>1, <2>2
<1> QED BY <1>2, <1>12, <1>13, <1>14, <1>15 DEF OwnInv

\* A call frees its value r and its key k.
LEMMA ValueFreed ==
  ASSUME OwnInv, NEW r \in Roots, NEW k \in Roots \cup {0}, k # 0 => kids[k] = <<>>,
         live' = live \ (Tree(r) \cup ({k} \ {0})), kids' = kids,
         Roots' = Roots \ {r, k}
  PROVE  OwnInv'
<1>1. \A n, c : In(n, c)' <=> In(n, c)
  BY DEF In
<1>2. r \in live /\ live' \subseteq live /\ live' \subseteq Nat \ {0} /\ k \notin live'
  BY DEF OwnInv
<1>3. Roots' \subseteq live'
  <2>1. ASSUME NEW q \in Roots, q # r, q # k PROVE q \in live'
    BY <1>2, <2>1, RootOutside DEF OwnInv
  <2> QED BY <2>1
<1>4. ASSUME NEW c \in live', NEW n, In(n, c) PROVE n \in live' \ Roots' /\ c < n
  <2>1. c \in live /\ n \in live \ Roots /\ c < n
    BY <1>2, <1>4 DEF OwnInv
  <2>2. n \notin Tree(r)
    <3>1. SUFFICES ASSUME n \in Tree(r) PROVE FALSE
      OBVIOUS
    <3>2. PICK d \in Tree(r) : In(n, d)
      BY <1>2, <2>1, <3>1, TreeFacts
    <3>3. c = d
      BY <1>2, <1>4, <2>1, <3>2, OneHolder, TreeFacts
    <3> QED BY <3>2, <3>3
  <2> QED BY <2>1, <2>2
<1>5. \A c, d \in live' : \A i \in DOMAIN kids[c], j \in DOMAIN kids[d] :
        kids[c][i].val = kids[d][j].val => c = d /\ i = j
  BY <1>2 DEF OwnInv
<1>6. ASSUME NEW n \in live', n \notin Roots' PROVE \E c \in live' : In(n, c)
  <2>1. n \in live /\ n # k /\ n \notin Tree(r)
    BY <1>2
  <2>2. n # r
    BY <1>2, <2>1, TreeFacts
  <2>3. PICK c \in live : In(n, c)
    BY <1>6, <2>1, <2>2 DEF OwnInv
  <2>4. c \notin Tree(r)
    BY <1>2, <2>1, <2>3, TreeFacts
  <2>5. ~(k # 0 /\ c = k)
    BY <2>3, NoKids
  <2> QED BY <2>3, <2>4, <2>5
<1> QED BY <1>1, <1>2, <1>3, <1>4, <1>5, <1>6 DEF OwnInv

-----------------------------------------------------------------------------
(* The stack of calls. *)

Kid == [key : Strs \cup {""}, val : 1..Len(input)]

\* What one call holds, and the first n calls.
Mine(f) == {f.js} \cup ({f.key} \ {0})
Below(n) == UNION {Mine(stack[i]) : i \in 1..n}

LEMMA StackFacts ==
  ASSUME TypeOK
  PROVE  /\ stack \in Seq(Frames) /\ Len(stack) \in Nat /\ DOMAIN stack = 1..Len(stack)
         /\ stack # <<>> => Len(stack) \in 1..Len(stack) /\ Top = stack[Len(stack)]
         /\ stack = <<>> => Len(stack) = 0
         /\ \A i \in 1..Len(stack) :
              /\ stack[i] \in Frames
              /\ stack[i].js \in 1..Len(input) /\ stack[i].key \in 0..Len(input)
         /\ Len(input) \in Nat /\ pos \in Nat \ {0}
<1>1. /\ stack \in Seq(Frames) /\ input \in Seq(Cells)
      /\ pos \in 1..(Len(input) + 2)
  BY DEF TypeOK
<1>2. /\ Len(stack) \in Nat /\ DOMAIN stack = 1..Len(stack) /\ Len(input) \in Nat
      /\ pos \in Nat \ {0}
  BY <1>1, LenProperties
<1>3. stack # <<>> => Len(stack) \in 1..Len(stack) /\ Top = stack[Len(stack)]
  BY <1>1, <1>2, EmptySeq DEF Top, Last
<1>4. ASSUME NEW i \in 1..Len(stack)
      PROVE  /\ stack[i] \in Frames
             /\ stack[i].js \in 1..Len(input) /\ stack[i].key \in 0..Len(input)
  <2>1. stack[i] \in Frames
    BY <1>1, ElementOfSeq
  <2> QED BY <2>1 DEF Frames
<1>5. stack = <<>> => Len(stack) = 0
  BY <1>1, EmptySeq
<1> QED BY <1>1, <1>2, <1>3, <1>4, <1>5

\* While calls run, the roots are what they hold.
LEMMA RootsRunning ==
  ASSUME TypeOK, result \in {Running, Rejected}
  PROVE  Roots = Below(Len(stack))
BY StackFacts DEF Roots, Below, Mine

\* What the calls hold is apart.
LEMMA FramesApart ==
  ASSUME TypeOK, OrderInv
  PROVE  /\ \A i, j \in 1..Len(stack) : i < j => Mine(stack[i]) \cap Mine(stack[j]) = {}
         /\ \A n \in 0..Len(stack) : \A r \in Below(n) :
              /\ r \in Nat \ {0} /\ r < pos
              /\ \A j \in 1..Len(stack) : n < j => r < stack[j].js /\ r \notin Mine(stack[j])
         /\ \A n \in 1..Len(stack) : Below(n) = Below(n - 1) \cup Mine(stack[n])
<1>1. ASSUME NEW i \in 1..Len(stack), NEW r \in Mine(stack[i])
      PROVE  /\ r \in Nat \ {0} /\ r < pos
             /\ \A j \in 1..Len(stack) : i < j => r < stack[j].js /\ r \notin Mine(stack[j])
  <2>1. /\ stack[i].js \in Nat \ {0} /\ stack[i].key \in Nat
        /\ stack[i].js < pos /\ stack[i].key < pos
    BY StackFacts DEF OrderInv
  <2>2. ASSUME NEW j \in 1..Len(stack), i < j
        PROVE  r < stack[j].js /\ r \notin Mine(stack[j])
    <3>1. /\ stack[j].js \in Nat \ {0} /\ stack[j].key \in Nat
          /\ stack[i].js < stack[j].js /\ stack[i].key < stack[j].js
          /\ stack[j].key # 0 => stack[j].js < stack[j].key
      BY <2>2, StackFacts DEF OrderInv
    <3> QED BY <1>1, <2>1, <3>1 DEF Mine
  <2> QED BY <1>1, <2>1, <2>2 DEF Mine
<1>2. \A i, j \in 1..Len(stack) : i < j => Mine(stack[i]) \cap Mine(stack[j]) = {}
  BY <1>1
<1>3. ASSUME NEW n \in 0..Len(stack), NEW r \in Below(n)
      PROVE  /\ r \in Nat \ {0} /\ r < pos
             /\ \A j \in 1..Len(stack) : n < j => r < stack[j].js /\ r \notin Mine(stack[j])
  <2>1. PICK i \in 1..n : r \in Mine(stack[i])
    BY <1>3 DEF Below
  <2>2. i \in 1..Len(stack) /\ \A j \in 1..Len(stack) : n < j => i < j
    BY StackFacts
  <2> QED BY <1>1, <2>1, <2>2
<1>4. ASSUME NEW n \in 1..Len(stack) PROVE Below(n) = Below(n - 1) \cup Mine(stack[n])
  <2>1. \A i : i \in 1..n <=> i \in 1..(n - 1) \/ i = n
    BY StackFacts
  <2> QED BY <2>1 DEF Below
<1> QED BY <1>2, <1>3, <1>4

\* A round of the innermost loop, or the return of a call to its caller: the
\* calls from n + 1 on give way to one in frame g.
Resumes(n, g) ==
  /\ n \in 0..(Len(stack) - 1) /\ g \in Frames
  /\ stack' = SubSeq(stack, 1, n) \o <<g>>
  /\ g.js = stack[n + 1].js
  /\ g.state = "key" => g.open = "{"
  /\ g.key # 0 <=> g.open = "{" /\ g.state \in {"delim", "val"}
  /\ g.key # 0 => /\ input[g.key] \in Strs /\ kids'[g.key] = <<>>
                  /\ g.key = stack[n + 1].key \/ (g.key = pos /\ pos < pos')
  /\ pos' \in Nat /\ pos <= pos'
  /\ \A d \in 1..Len(input) : d # g.js => kids'[d] = kids[d]
  /\ \A d \in live' : d \in live \/ (d = pos /\ pos < pos')
  /\ g.closed => g.state = "end" \/ (g.state = "comma" /\ AtEnd')
  /\ UNCHANGED <<input, result>>

LEMMA ResumesFacts ==
  ASSUME TypeOK, RunInv, FrameInv, OrderInv, ClosedInv, stack # <<>>,
         NEW n, NEW g, Resumes(n, g)
  PROVE  /\ stack' \in Seq(Frames) /\ RunInv' /\ FrameInv' /\ OrderInv' /\ ClosedInv'
         /\ Roots' = Below(n) \cup Mine(g)
         /\ g.js \in 1..Len(input) /\ g.js < pos
<1> DEFINE t == stack'
<1>1. /\ n \in Nat /\ n + 1 \in 1..Len(stack) /\ n \in 0..Len(stack) /\ g \in Frames
      /\ g.js = stack[n + 1].js /\ g.js \in 1..Len(input) /\ g.key \in 0..Len(input)
      /\ pos' \in Nat /\ pos <= pos' /\ input' = input /\ result' = Running
      /\ pos \in Nat /\ Len(input) \in Nat
  <2>1. n \in 0..(Len(stack) - 1) /\ Len(stack) \in Nat /\ g \in Frames
    BY StackFacts DEF Resumes
  <2>2. g.js \in 1..Len(input) /\ g.key \in 0..Len(input)
    BY <2>1 DEF Frames
  <2>3. n \in Nat /\ n + 1 \in 1..Len(stack) /\ n \in 0..Len(stack)
    BY <2>1
  <2>4. result' = Running /\ input' = input
    BY DEF Resumes, RunInv
  <2> QED BY <2>1, <2>2, <2>3, <2>4, StackFacts DEF Resumes
<1>2. /\ t \in Seq(Frames) /\ Len(t) = n + 1
      /\ \A i \in 1..n : t[i] = stack[i] /\ i \in 1..Len(stack) /\ i < n + 1
      /\ t[n + 1] = g
      /\ \A i : i \in 1..(n + 1) <=> i \in 1..n \/ i = n + 1
  <2>1. stack' = SubSeq(stack, 1, n) \o <<g>> /\ stack \in Seq(Frames)
    BY StackFacts DEF Resumes
  <2>2. \A i \in 1..n : i \in 1..Len(stack) /\ i < n + 1
    BY <1>1, StackFacts
  <2>3. \A i : i \in 1..(n + 1) <=> i \in 1..n \/ i = n + 1
    BY <1>1
  <2>4. t \in Seq(Frames) /\ Len(t) = n + 1 /\ t[n + 1] = g /\ \A i \in 1..n : t[i] = stack[i]
    <3>1. /\ stack \in Seq(Frames) /\ n \in 0..Len(stack) /\ g \in Frames
          /\ t = SubSeq(stack, 1, n) \o <<g>>
      BY <1>1, <2>1
    <3> HIDE DEF t
    <3> QED BY ONLY <3>1, ReplaceEnd
  <2> QED BY <2>2, <2>3, <2>4
<1>3. RunInv'
  <2>1. t # <<>>
    BY <1>1, <1>2, EmptySeq
  <2> QED BY <1>1, <2>1 DEF RunInv
<1>4. \A i \in 1..n : stack[i].js < g.js /\ stack[i].key < g.js
  BY <1>1, <1>2 DEF OrderInv
<1>5. FrameInv'
  <2>1. ASSUME NEW i \in 1..n
        PROVE  /\ t[i].state = "key" => t[i].open = "{"
               /\ t[i].key # 0 <=> t[i].open = "{" /\ t[i].state \in {"delim", "val"}
               /\ t[i].key # 0 => input[t[i].key] \in Strs /\ kids'[t[i].key] = <<>>
               /\ t[i].state = "val"
    <3>1. t[i] = stack[i] /\ i \in 1..Len(stack) /\ i < Len(stack)
      BY <1>1, <1>2, StackFacts
    <3>2. stack[i].key # 0 => kids'[stack[i].key] = kids[stack[i].key]
      <4>1. stack[i].key \in 0..Len(input) /\ stack[i].key < g.js
        BY <1>4, <3>1, StackFacts
      <4>2. stack[i].key # 0 => stack[i].key \in 1..Len(input) /\ stack[i].key # g.js
        BY <1>1, <4>1
      <4> QED BY <4>2 DEF Resumes
    <3> QED BY <3>1, <3>2 DEF FrameInv
  <2>2. /\ g.state = "key" => g.open = "{"
        /\ g.key # 0 <=> g.open = "{" /\ g.state \in {"delim", "val"}
        /\ g.key # 0 => input[g.key] \in Strs /\ kids'[g.key] = <<>>
    BY DEF Resumes
  <2>3. \A i \in 1..(n + 1) : i < n + 1 => i \in 1..n
    BY <1>1
  <2>4. \A i \in 1..(n + 1) :
          /\ t[i].state = "key" => t[i].open = "{"
          /\ t[i].key # 0 <=> t[i].open = "{" /\ t[i].state \in {"delim", "val"}
          /\ t[i].key # 0 => input[t[i].key] \in Strs /\ kids'[t[i].key] = <<>>
          /\ i < n + 1 => t[i].state = "val"
    BY <1>2, <2>1, <2>2, <2>3
  <2> QED BY <1>1, <1>2, <2>4 DEF FrameInv
<1>6. OrderInv'
  <2>1. \A i \in 1..n : /\ t[i].js < pos' /\ t[i].key < pos'
                        /\ t[i].key # 0 => t[i].js < t[i].key
    <3>1. ASSUME NEW i \in 1..n PROVE /\ t[i].js < pos' /\ t[i].key < pos'
                                      /\ t[i].key # 0 => t[i].js < t[i].key
      <4>1. /\ stack[i].js < pos /\ stack[i].key < pos
            /\ stack[i].key # 0 => stack[i].js < stack[i].key
        BY <1>2 DEF OrderInv
      <4>2. stack[i].js \in Nat /\ stack[i].key \in Nat
        BY <1>2, StackFacts
      <4> QED BY <1>1, <1>2, <4>1, <4>2
    <3> QED BY <3>1
  <2>2. g.js < pos /\ g.key < pos' /\ (g.key # 0 => g.js < g.key)
    <3>1. /\ stack[n + 1].js < pos /\ stack[n + 1].key < pos
          /\ stack[n + 1].key # 0 => stack[n + 1].js < stack[n + 1].key
      BY <1>1 DEF OrderInv
    <3>2. g.key # 0 => g.key = stack[n + 1].key \/ (g.key = pos /\ pos < pos')
      BY DEF Resumes
    <3>3. g.js \in Nat \ {0} /\ g.key \in Nat
      BY <1>1
    <3> QED BY <1>1, <3>1, <3>2, <3>3
  <2>3. g.js < pos'
    BY <1>1, <2>2
  <2>4. \A i, j \in 1..(n + 1) : i < j => t[i].js < t[j].js /\ t[i].key < t[j].js
    <3>1. \A i, j \in 1..n : i < j => t[i].js < t[j].js /\ t[i].key < t[j].js
      BY <1>2 DEF OrderInv
    <3>2. \A i, j \in 1..(n + 1) : i < j => i \in 1..n /\ (j \in 1..n \/ j = n + 1)
      BY <1>1
    <3> QED BY <1>2, <1>4, <3>1, <3>2
  <2>5. ASSUME NEW v \in 1..Len(input), v >= pos' PROVE v \notin live' /\ kids'[v] = <<>>
    <3>1. v >= pos /\ v # g.js
      BY <1>1, <2>3, <2>5
    <3>2. v \notin live /\ kids[v] = <<>>
      BY <3>1 DEF OrderInv
    <3>3. kids'[v] = kids[v]
      BY <3>1 DEF Resumes
    <3>4. v \notin live'
      <4>1. SUFFICES ASSUME v \in live' PROVE FALSE
        OBVIOUS
      <4>2. v = pos /\ pos < pos'
        BY <3>2, <4>1 DEF Resumes
      <4> QED BY <1>1, <2>5, <4>2
    <3> QED BY <3>2, <3>3, <3>4
  <2> QED BY <1>1, <1>2, <2>1, <2>2, <2>3, <2>4, <2>5 DEF OrderInv
<1>7. Roots' = Below(n) \cup Mine(g)
  <2>1. DOMAIN t = 1..(n + 1)
    BY <1>2, LenProperties
  <2>2. Roots' = UNION {Mine(t[i]) : i \in 1..(n + 1)}
    BY <1>1, <2>1 DEF Roots, Mine
  <2> QED BY <1>2, <2>2 DEF Below
<1>8. g.js < pos
  BY <1>1 DEF OrderInv
<1>9. ClosedInv'
  <2>1. ASSUME NEW i \in 1..n PROVE ~t[i].closed
    <3>1. t[i] = stack[i] /\ i \in 1..Len(stack) /\ i < Len(stack)
      BY <1>1, <1>2, StackFacts
    <3> QED BY <3>1 DEF FrameInv, ClosedInv
  <2>2. g.closed => g.state = "end" \/ (g.state = "comma" /\ AtEnd')
    BY DEF Resumes
  <2> QED BY <1>2, <2>1, <2>2 DEF ClosedInv
<1> QED BY <1>1, <1>2, <1>3, <1>5, <1>6, <1>7, <1>8, <1>9

\* A call is made for the container that begins at pos.
Called ==
  /\ pos \in 1..Len(input) /\ input[pos] \in {"[", "{"}
  /\ stack # <<>> => Top.state = "val"
  /\ result = Running
  /\ stack' = Append(stack, Frame(pos))
  /\ pos' = pos + 1 /\ kids' = kids /\ live' = live \cup {pos}
  /\ UNCHANGED <<input, result>>

LEMMA CalledFacts ==
  ASSUME TypeOK, RunInv, FrameInv, OrderInv, ClosedInv, Called
  PROVE  /\ stack' \in Seq(Frames) /\ RunInv' /\ FrameInv' /\ OrderInv' /\ ClosedInv'
         /\ Roots' = Roots \cup {pos}
         /\ pos \notin live /\ kids[pos] = <<>>
<1> DEFINE t == stack'
           f == Frame(pos)
<1>0. PICK n \in Nat : n = Len(stack)
  BY StackFacts
<1>1. /\ f \in Frames /\ f.js = pos /\ f.key = 0
      /\ ~(f.open = "{" /\ f.state \in {"delim", "val"})
      /\ f.state = "key" => f.open = "{"
      /\ ~f.closed
  <2>1. /\ f = [open |-> input[pos], js |-> pos, key |-> 0,
               state |-> IF input[pos] = "[" THEN "val" ELSE "key", closed |-> FALSE]
        /\ input[pos] \in {"[", "{"} /\ pos \in 1..Len(input) /\ 0 \in 0..Len(input)
    <3>1. 0 \in 0..Len(input)
      <4>1. Len(input) \in Nat
        BY StackFacts
      <4> QED BY <4>1
    <3>2. input[pos] \in {"[", "{"} /\ pos \in 1..Len(input)
      BY DEF Called
    <3> QED BY <3>1, <3>2 DEF Frame
  <2> HIDE DEF f
  <2>2. f.js = pos /\ f.key = 0 /\ ~(f.open = "{" /\ f.state \in {"delim", "val"})
    BY <2>1
  <2>3. f \in Frames
    BY <2>1 DEF Frames
  <2>4. (f.state = "key" => f.open = "{") /\ ~f.closed
    BY <2>1
  <2> QED BY <2>2, <2>3, <2>4
<1>2. /\ pos \in Nat \ {0} /\ pos' = pos + 1 /\ n = Len(stack) /\ input' = input
      /\ kids' = kids /\ live' = live \cup {pos} /\ result = Running /\ result' = Running
  BY <1>0, StackFacts DEF Called
<1>3. /\ t \in Seq(Frames) /\ Len(t) = n + 1 /\ DOMAIN t = 1..(n + 1)
      /\ \A i \in 1..n : t[i] = stack[i]
      /\ t[n + 1] = f
  <2>1. stack \in Seq(Frames) /\ t = Append(stack, f) /\ f \in Frames
    BY <1>1, StackFacts DEF Called
  <2> HIDE DEF f, t
  <2>2. /\ t \in Seq(Frames) /\ Len(t) = Len(stack) + 1
        /\ \A i \in 1..Len(stack) : t[i] = stack[i]
        /\ t[Len(stack) + 1] = f
    BY <2>1, AppendProperties
  <2>3. DOMAIN t = 1..Len(t)
    BY <2>2, LenProperties
  <2> QED BY <1>2, <2>2, <2>3
<1> HIDE DEF f
<1>4. \A i : i \in 1..(n + 1) <=> i \in 1..n \/ i = n + 1
  BY <1>2
<1>5. RunInv'
  <2>1. t # <<>>
    BY <1>2, <1>3, EmptySeq
  <2> QED BY <1>2, <2>1 DEF RunInv
<1>6a. \A i \in 1..n : stack[i].state = "val"
  <2>1. \A i \in 1..n : i < n => stack[i].state = "val"
    BY <1>2 DEF FrameInv
  <2>2. \A i \in 1..n : i = n => stack[i].state = "val"
    <3>1. ASSUME NEW i \in 1..n, i = n PROVE stack[i].state = "val"
      <4>1. Len(stack) # 0
        BY <1>2, <3>1
      <4>2. stack # <<>>
        BY <4>1, StackFacts
      <4> QED BY <1>2, <3>1, <4>2, StackFacts DEF Called
    <3> QED BY <3>1
  <2> QED BY <1>2, <2>1, <2>2
<1>6. FrameInv'
  <2>4. \A i \in 1..n :
          /\ t[i].state = "key" => t[i].open = "{"
          /\ t[i].key # 0 <=> t[i].open = "{" /\ t[i].state \in {"delim", "val"}
          /\ t[i].key # 0 => input[t[i].key] \in Strs /\ kids[t[i].key] = <<>>
          /\ t[i].state = "val"
    BY <1>2, <1>3, <1>6a DEF FrameInv
  <2>5. \A i \in 1..(n + 1) :
          /\ t[i].state = "key" => t[i].open = "{"
          /\ t[i].key # 0 <=> t[i].open = "{" /\ t[i].state \in {"delim", "val"}
          /\ t[i].key # 0 => input[t[i].key] \in Strs /\ kids[t[i].key] = <<>>
          /\ i < n + 1 => t[i].state = "val"
    <3>1. ~(n + 1 < n + 1)
      OBVIOUS
    <3>2. /\ t[n + 1].state = "key" => t[n + 1].open = "{"
          /\ t[n + 1].key # 0 <=> t[n + 1].open = "{" /\ t[n + 1].state \in {"delim", "val"}
          /\ t[n + 1].key # 0 => input[t[n + 1].key] \in Strs /\ kids[t[n + 1].key] = <<>>
      BY <1>1, <1>3
    <3> QED BY <1>4, <2>4, <3>1, <3>2
  <2> QED BY <1>2, <1>3, <2>5 DEF FrameInv
<1>7. pos \notin live /\ kids[pos] = <<>>
  <2>1. pos \in 1..Len(input)
    BY DEF Called
  <2>2. pos >= pos
    BY <1>2
  <2> QED BY <2>1, <2>2 DEF OrderInv
<1>8. OrderInv'
  <2>1. \A i \in 1..n : /\ stack[i].js < pos /\ stack[i].key < pos
                        /\ stack[i].js < pos + 1 /\ stack[i].key < pos + 1
    <3>1. ASSUME NEW i \in 1..n
          PROVE  /\ stack[i].js < pos /\ stack[i].key < pos
                 /\ stack[i].js < pos + 1 /\ stack[i].key < pos + 1
      <4>1. stack[i].js < pos /\ stack[i].key < pos /\ stack[i].js \in Nat /\ stack[i].key \in Nat
        BY <1>2, StackFacts DEF OrderInv
      <4> QED BY <1>2, <4>1
    <3> QED BY <3>1
  <2>2. \A i \in 1..(n + 1) : /\ t[i].js < pos' /\ t[i].key < pos'
                              /\ t[i].key # 0 => t[i].js < t[i].key
    <3>1. pos < pos + 1 /\ 0 < pos + 1
      BY <1>2
    <3>2. \A i \in 1..n : stack[i].key # 0 => stack[i].js < stack[i].key
      BY <1>2 DEF OrderInv
    <3> QED BY <1>1, <1>2, <1>3, <1>4, <2>1, <3>1, <3>2
  <2>3. ASSUME NEW i \in 1..(n + 1), NEW j \in 1..(n + 1), i < j
        PROVE  t[i].js < t[j].js /\ t[i].key < t[j].js
    <3>1. i \in 1..n /\ (j \in 1..n \/ j = n + 1)
      BY <1>2, <2>3
    <3>2. CASE j \in 1..n
      <4>1. stack[i].js < stack[j].js /\ stack[i].key < stack[j].js
        BY <1>2, <2>3, <3>1, <3>2 DEF OrderInv
      <4> QED BY <1>3, <3>1, <3>2, <4>1
    <3>3. CASE j = n + 1
      <4>1. t[j].js = pos /\ t[i] = stack[i]
        BY <1>1, <1>3, <3>1, <3>3
      <4> QED BY <2>1, <3>1, <4>1
    <3> QED BY <3>1, <3>2, <3>3
  <2>4. ASSUME NEW v \in 1..Len(input), v >= pos + 1 PROVE v \notin live' /\ kids'[v] = <<>>
    <3>1. v >= pos /\ v # pos
      BY <1>2, <2>4
    <3> QED BY <1>2, <3>1 DEF OrderInv
  <2> QED BY <1>2, <1>3, <2>2, <2>3, <2>4 DEF OrderInv
<1>9. Roots' = Roots \cup {pos}
  <2>1. Roots = Below(n)
    BY <1>2, RootsRunning
  <2>2. Roots' = UNION {Mine(t[i]) : i \in 1..(n + 1)}
    BY <1>2, <1>3 DEF Roots, Mine
  <2>3. Mine(f) = {pos}
    BY <1>1 DEF Mine
  <2> QED BY <1>3, <1>4, <2>1, <2>2, <2>3 DEF Below
<1>10. ClosedInv'
  <2>1. \A i \in 1..n : stack[i].state = "val"
    BY <1>2, <1>6a DEF FrameInv
  <2>2. \A i \in 1..n : ~t[i].closed
    BY <1>2, <1>3, <2>1 DEF ClosedInv
  <2> QED BY <1>1, <1>3, <1>4, <2>2 DEF ClosedInv
<1> QED BY <1>3, <1>5, <1>6, <1>7, <1>8, <1>9, <1>10

\* The innermost call is left.
LEMMA PoppedFacts ==
  ASSUME TypeOK, RunInv, FrameInv, OrderInv, ClosedInv, stack # <<>>, stack' = Front(stack),
         pos' = pos, kids' = kids, live' \subseteq live, input' = input
  PROVE  /\ stack' \in Seq(Frames) /\ Len(stack') = Len(stack) - 1
         /\ FrameInv' /\ OrderInv' /\ ClosedInv'
         /\ Roots' = Below(Len(stack) - 1) \cup ({result'} \ {Running, Rejected})
<1> DEFINE t == stack'
<1>1. PICK n \in Nat : n = Len(stack) - 1
  <2>1. Len(stack) \in Nat /\ Len(stack) \in 1..Len(stack)
    BY StackFacts
  <2>2. Len(stack) - 1 \in Nat
    BY <2>1
  <2> QED BY <2>2
<1>2. /\ t \in Seq(Frames) /\ Len(t) = n /\ DOMAIN t = 1..n
      /\ \A i \in 1..n : t[i] = stack[i] /\ i \in 1..Len(stack) /\ i < Len(stack)
  <2>1. stack \in Seq(Frames) /\ Len(stack) \in Nat
    BY StackFacts
  <2>2. t \in Seq(Frames) /\ Len(t) = n /\ \A i \in 1..n : t[i] = stack[i]
    BY <1>1, <2>1, FrontElements
  <2>3. DOMAIN t = 1..n
    BY <2>2, LenProperties
  <2>4. \A i \in 1..n : i \in 1..Len(stack) /\ i < Len(stack)
    BY <1>1, <2>1
  <2> QED BY <2>2, <2>3, <2>4
<1>3. FrameInv'
  <2>1. \A i \in 1..n :
          /\ t[i].state = "key" => t[i].open = "{"
          /\ t[i].key # 0 <=> t[i].open = "{" /\ t[i].state \in {"delim", "val"}
          /\ t[i].key # 0 => input[t[i].key] \in Strs /\ kids[t[i].key] = <<>>
          /\ t[i].state = "val"
    <3>1. \A i \in 1..Len(stack) :
            /\ stack[i].state = "key" => stack[i].open = "{"
            /\ stack[i].key # 0 <=> stack[i].open = "{" /\ stack[i].state \in {"delim", "val"}
            /\ stack[i].key # 0 => input[stack[i].key] \in Strs /\ kids[stack[i].key] = <<>>
            /\ i < Len(stack) => stack[i].state = "val"
      BY DEF FrameInv
    <3>2. \A i \in 1..n : t[i] = stack[i] /\ i \in 1..Len(stack) /\ i < Len(stack)
      BY <1>2
    <3> QED BY <3>1, <3>2
  <2> QED BY <1>2, <2>1 DEF FrameInv
<1>4. OrderInv'
  BY <1>2 DEF OrderInv
<1>5. Roots' = Below(n) \cup ({result'} \ {Running, Rejected})
  <2>1. Roots' = (UNION {Mine(t[i]) : i \in 1..n}) \cup ({result'} \ {Running, Rejected})
    BY <1>2 DEF Roots, Mine
  <2> QED BY <1>2, <2>1 DEF Below
<1>6. ClosedInv'
  BY <1>2 DEF ClosedInv, FrameInv
<1> QED BY <1>1, <1>2, <1>3, <1>4, <1>5, <1>6

-----------------------------------------------------------------------------
(* The cells. *)

\* What is read at p is a cell of the input, or the cut one.
LEMMA BufFacts ==
  ASSUME TypeOK, RunInv
  PROVE  /\ Len(buf) \in Nat /\ Len(buf) <= Len(input) /\ Len(input) \in Nat \ {0}
         /\ \A p \in 1..Len(buf) : p \in 1..Len(input) /\ (buf[p] # Cut => input[p] = buf[p])
<1>1. input \in Seq(Cells) /\ Len(input) \in Nat /\ Len(input) > 1
  BY InputsAssumption, LenProperties DEF TypeOK, RunInv
<1>2. input # <<>>
  BY <1>1, EmptySeq
<1>3. PICK n \in Nat : n = Len(input) - 1 /\ n \in 0..Len(input) /\ n + 1 = Len(input)
  <2>1. /\ Len(input) - 1 \in Nat /\ Len(input) - 1 \in 0..Len(input)
        /\ (Len(input) - 1) + 1 = Len(input)
    BY <1>1
  <2> QED BY <2>1
<1>4. CASE buf = <<>>
  BY <1>1, <1>4
<1>5. CASE buf = input
  BY <1>1, <1>5
<1>6. CASE buf = Front(input) \o <<Cut>>
  <2>1. Front(input) = SubSeq(input, 1, n) /\ Cut \in Cells
    BY <1>3 DEF Front, Cells
  <2>2. Len(buf) = n + 1 /\ buf[n + 1] = Cut /\ \A i \in 1..n : buf[i] = input[i]
    <3>1. /\ input \in Seq(Cells) /\ n \in 0..Len(input) /\ Cut \in Cells
          /\ buf = SubSeq(input, 1, n) \o <<Cut>>
      BY <1>1, <1>3, <1>6, <2>1
    <3> HIDE DEF Cells, Cut
    <3> QED BY ONLY <3>1, ReplaceEnd
  <2>3. \A p \in 1..(n + 1) : p \in 1..Len(input) /\ (p \in 1..n \/ p = n + 1)
    BY <1>3
  <2> QED BY <1>1, <1>3, <2>2, <2>3
<1>7. CASE buf = Front(input)
  <2>1. Len(buf) = n /\ \A i \in 1..n : buf[i] = input[i]
    BY <1>1, <1>2, <1>3, <1>7, FrontElements
  <2>2. \A p \in 1..n : p \in 1..Len(input)
    BY <1>3
  <2> QED BY <1>1, <1>3, <2>1, <2>2
<1> QED BY <1>4, <1>5, <1>6, <1>7 DEF TypeOK, DropLastByte

LEMMA ScanFacts ==
  ASSUME TypeOK, RunInv, Scanning
  PROVE  /\ stack # <<>> /\ ~failing /\ result = Running
         /\ pos \in 1..Len(buf) /\ pos \in 1..Len(input)
         /\ Cell # Cut => input[pos] = Cell
<1>1. pos \in Nat \ {0} /\ Len(buf) \in Nat /\ ~(pos > Len(buf))
  BY StackFacts, BufFacts DEF Scanning, AtEnd
<1>2. pos \in 1..Len(buf)
  BY <1>1
<1> QED BY <1>2, BufFacts DEF Scanning, RunInv, Cell

LEMMA TopFacts ==
  ASSUME TypeOK, RunInv, FrameInv, OrderInv, stack # <<>>, NEW n, n = Len(stack) - 1
  PROVE  /\ n \in 0..(Len(stack) - 1) /\ n + 1 \in 1..Len(stack) /\ stack[n + 1] = Top
         /\ Front(stack) = SubSeq(stack, 1, n)
         /\ Roots = Below(n) \cup Mine(Top) /\ Below(n) \cap Mine(Top) = {}
         /\ Top \in Frames /\ Top.js \in 1..Len(input) /\ Top.key \in 0..Len(input)
         /\ Top.js < pos /\ Top.key < pos /\ Top.js # Top.key
         /\ Top.state = "key" => Top.open = "{"
         /\ Top.key # 0 <=> Top.open = "{" /\ Top.state \in {"delim", "val"}
         /\ Top.key # 0 => input[Top.key] \in Strs /\ kids[Top.key] = <<>>
<1>1. Len(stack) \in Nat /\ Len(stack) \in 1..Len(stack) /\ Top = stack[Len(stack)]
  BY StackFacts
<1>2. n \in 0..(Len(stack) - 1) /\ n + 1 = Len(stack) /\ n \in 0..Len(stack) /\ n < Len(stack)
  BY <1>1
<1>3. Front(stack) = SubSeq(stack, 1, n)
  BY DEF Front
<1>4. Roots = Below(Len(stack)) /\ Below(Len(stack)) = Below(Len(stack) - 1) \cup Mine(stack[Len(stack)])
  BY <1>1, RootsRunning, FramesApart DEF RunInv
<1>5. Below(n) \cap Mine(stack[Len(stack)]) = {}
  BY <1>1, <1>2, FramesApart
<1>6. /\ Top \in Frames /\ Top.js \in 1..Len(input) /\ Top.key \in 0..Len(input)
  BY <1>1, StackFacts
<1>7. /\ Top.js < pos /\ Top.key < pos
      /\ Top.key # 0 => Top.js < Top.key
  BY <1>1 DEF OrderInv
<1>8. Top.js # Top.key
  BY <1>6, <1>7
<1>9. /\ Top.state = "key" => Top.open = "{"
      /\ Top.key # 0 <=> Top.open = "{" /\ Top.state \in {"delim", "val"}
      /\ Top.key # 0 => input[Top.key] \in Strs /\ kids[Top.key] = <<>>
  BY <1>1 DEF FrameInv
<1> QED BY <1>1, <1>2, <1>3, <1>4, <1>5, <1>6, <1>7, <1>8, <1>9

-----------------------------------------------------------------------------
(* The steps. *)

\* Steps that change no value and no call.
Quiet ==
  /\ UNCHANGED <<input, buf, stack, live, kids>>
  /\ pos' \in 1..(Len(input) + 2) /\ pos <= pos'
  /\ nread' \in {Unset} \cup 0..Len(input)
  /\ result' = result \/ (stack = <<>> /\ result = Running /\ result' = Rejected)
  /\ failing' \in BOOLEAN /\ (failing' => stack # <<>>)

LEMMA QuietStep ==
  ASSUME IInv, Quiet
  PROVE  IInv'
<1>1. TypeOK'
  BY DEF IInv, TypeOK, Quiet, Frames
<1>2. RunInv'
  BY DEF IInv, RunInv, Quiet
<1>3. FrameInv'
  BY DEF IInv, FrameInv, Quiet
<1>4. OrderInv'
  <2>1. pos \in Nat /\ pos' \in Nat /\ pos <= pos' /\ Len(input) \in Nat
    BY StackFacts DEF IInv, Quiet
  <2>2. \A i \in 1..Len(stack) : stack[i].js \in Nat /\ stack[i].key \in Nat
    BY StackFacts DEF IInv
  <2>3. \A i \in 1..Len(stack) : stack[i].js < pos' /\ stack[i].key < pos'
    <3>1. ASSUME NEW i \in 1..Len(stack) PROVE stack[i].js < pos' /\ stack[i].key < pos'
      <4>1. stack[i].js < pos /\ stack[i].key < pos
        BY DEF IInv, OrderInv
      <4> QED BY <2>1, <2>2, <4>1
    <3> QED BY <3>1
  <2>4. \A v \in 1..Len(input) : v >= pos' => v >= pos
    BY <2>1
  <2> QED BY <2>3, <2>4 DEF IInv, OrderInv, Quiet
<1>5. Roots' = Roots
  BY DEF IInv, Roots, Quiet
<1>6. OwnInv'
  BY <1>5, HoldersKept DEF IInv, Quiet
<1>7. ClosedInv'
  <2>1. AtEnd => AtEnd'
    <3>1. TypeOK /\ RunInv
      BY DEF IInv
    <3>2. Len(buf) \in Nat /\ pos \in Nat /\ pos <= pos' /\ buf' = buf /\ pos' \in Nat
      BY <3>1, BufFacts, StackFacts DEF Quiet
    <3> QED BY <3>2 DEF AtEnd
  <2> QED BY <2>1 DEF IInv, ClosedInv, Quiet
<1> QED BY <1>1, <1>2, <1>3, <1>4, <1>6, <1>7 DEF IInv

LEMMA QuietSteps ==
  ASSUME IInv, \/ BufSkipSpace \/ BufReject \/ BufBlank \/ SkipSpace
               \/ Misplaced \/ Unfinished
  PROVE  Quiet
<1>0. /\ TypeOK /\ RunInv
      /\ Len(input) \in Nat \ {0} /\ pos \in Nat \ {0} /\ pos \in 1..(Len(input) + 2)
      /\ nread \in {Unset} \cup 0..Len(input) /\ failing \in BOOLEAN
  BY BufFacts, StackFacts DEF IInv, TypeOK
<1>1. pos <= pos /\ pos <= pos + 1 /\ (pos <= Len(input) => pos + 1 \in 1..(Len(input) + 2))
      /\ Len(input) \in 0..Len(input)
  BY <1>0
<1>2. CASE BufSkipSpace
  BY <1>0, <1>1, <1>2 DEF BufSkipSpace, Starting, Quiet
<1>3. CASE BufReject
  BY <1>0, <1>1, <1>3 DEF BufReject, Starting, Quiet
<1>4. CASE BufBlank
  BY <1>0, <1>1, <1>4 DEF BufBlank, Starting, Quiet
<1>5. CASE SkipSpace
  <2>1. pos \in 1..Len(input)
    BY <1>0, <1>5, ScanFacts DEF SkipSpace
  <2>2. pos <= Len(input)
    BY <1>0, <2>1
  <2> QED BY <1>0, <1>1, <1>5, <2>2 DEF SkipSpace, Scanning, Quiet
<1>6. CASE Misplaced
  BY <1>0, <1>1, <1>6 DEF Misplaced, Scanning, Quiet
<1>7. CASE Unfinished
  BY <1>0, <1>1, <1>7 DEF Unfinished, LoopOver, Quiet
<1> QED BY <1>2, <1>3, <1>4, <1>5, <1>6, <1>7

\* A round that leaves the call with the frame g, and a key it reads.
Round(g) ==
  /\ stack # <<>> /\ SetTop(g) /\ g \in Frames /\ g.js = Top.js
  /\ g.state = "key" => g.open = "{"
  /\ g.key # 0 <=> g.open = "{" /\ g.state \in {"delim", "val"}
  /\ g.closed => g.state = "end"
  /\ pos' = pos + 1 /\ pos \in 1..Len(input)
  /\ \/ g.key = Top.key /\ live' = live
     \/ /\ Top.key = 0 /\ g.key = pos /\ live' = live \cup {pos}
        /\ input[pos] \in Strs
  /\ UNCHANGED <<input, buf, failing, kids, nread, result>>

LEMMA RoundStep ==
  ASSUME IInv, NEW g, Round(g)
  PROVE  IInv'
<1>0. TypeOK /\ RunInv /\ FrameInv /\ OrderInv /\ ClosedInv /\ OwnInv /\ stack # <<>>
  BY DEF IInv, Round
<1>1. PICK n : n = Len(stack) - 1
  OBVIOUS
<1>2. /\ n \in 0..(Len(stack) - 1) /\ stack[n + 1] = Top
      /\ Front(stack) = SubSeq(stack, 1, n)
      /\ Roots = Below(n) \cup Mine(Top)
      /\ Top.key # 0 => input[Top.key] \in Strs /\ kids[Top.key] = <<>>
  BY <1>0, <1>1, TopFacts
<1>3. pos \in Nat \ {0} /\ Len(input) \in Nat /\ pos \in 1..Len(input)
      /\ pos + 1 \in Nat /\ pos <= pos + 1 /\ pos < pos + 1
      /\ pos + 1 \in 1..(Len(input) + 2) /\ pos >= pos
  <2>1. pos \in 1..Len(input)
    BY DEF Round
  <2>2. pos \in Nat \ {0} /\ Len(input) \in Nat
    BY <1>0, StackFacts
  <2> QED BY <2>1, <2>2
<1>4. pos \notin live /\ kids[pos] = <<>>
  BY <1>0, <1>3 DEF OrderInv
<1>5. Resumes(n, g)
  <2>1. stack' = SubSeq(stack, 1, n) \o <<g>>
    BY <1>2 DEF Round, SetTop
  <2>2. g.key # 0 => /\ input[g.key] \in Strs /\ kids'[g.key] = <<>>
                     /\ g.key = stack[n + 1].key \/ (g.key = pos /\ pos < pos')
    BY <1>2, <1>3, <1>4 DEF Round
  <2>3. \A d \in live' : d \in live \/ (d = pos /\ pos < pos')
    <3>1. live' = live \/ live' = live \cup {pos}
      BY DEF Round
    <3>2. pos < pos'
      BY <1>3 DEF Round
    <3> QED BY <3>1, <3>2
  <2>4. g \in Frames /\ g.js = stack[n + 1].js
        /\ (g.state = "key" => g.open = "{")
        /\ (g.key # 0 <=> g.open = "{" /\ g.state \in {"delim", "val"})
        /\ (g.closed => g.state = "end")
        /\ pos' = pos + 1 /\ kids' = kids
        /\ UNCHANGED <<input, result>>
    BY <1>2 DEF Round
  <2> QED BY <1>2, <1>3, <2>1, <2>2, <2>3, <2>4 DEF Resumes
<1>6. /\ stack' \in Seq(Frames) /\ RunInv' /\ FrameInv' /\ OrderInv' /\ ClosedInv'
      /\ Roots' = Below(n) \cup Mine(g)
  BY <1>0, <1>5, ResumesFacts
<1>7. live' \subseteq 1..Len(input)
  BY <1>0, <1>3 DEF Round, TypeOK
<1>8. TypeOK'
  BY <1>0, <1>3, <1>6, <1>7 DEF TypeOK, Frames, Round
<1>9. OwnInv'
  <2>1. CASE g.key = Top.key /\ live' = live
    <3>1. Mine(g) = Mine(Top)
      BY <2>1 DEF Mine, Round
    <3> QED BY <1>0, <1>2, <1>6, <2>1, <3>1, HoldersKept DEF Round
  <2>2. CASE Top.key = 0 /\ g.key = pos /\ live' = live \cup {pos}
    <3>1. Mine(g) = Mine(Top) \cup {pos}
      BY <1>3, <2>2 DEF Mine, Round
    <3>2. Roots' = Roots \cup {pos} /\ kids' = kids
      BY <1>2, <1>6, <3>1 DEF Round
    <3> QED BY <1>0, <1>3, <1>4, <2>2, <3>2, ValueMade
  <2> QED BY <2>1, <2>2 DEF Round
<1> QED BY <1>6, <1>8, <1>9 DEF IInv

LEMMA RoundSteps ==
  ASSUME IInv, CloseBracket \/ Comma \/ Key \/ Colon
  PROVE  \E g : Round(g)
<1>0. /\ TypeOK /\ RunInv /\ FrameInv /\ OrderInv /\ ~AtEnd
      /\ stack # <<>> /\ pos \in 1..Len(input)
      /\ Cell # Cut => input[pos] = Cell
  BY ScanFacts DEF IInv, CloseBracket, Comma, Key, Colon, Scanning
<1>1. /\ Top \in Frames /\ (Top.state = "key" => Top.open = "{")
      /\ (Top.key # 0 <=> Top.open = "{" /\ Top.state \in {"delim", "val"})
      /\ Top.open \in {"[", "{"} /\ (Top.closed => Top.state = "end")
  <2>1. PICK n : n = Len(stack) - 1
    OBVIOUS
  <2>2. Top \in Frames
    BY <1>0, <2>1, TopFacts
  <2>3. Top.open \in {"[", "{"}
    BY <2>2 DEF Frames
  <2>4. Top.closed => Top.state = "end"
    BY <1>0, StackFacts DEF IInv, ClosedInv
  <2> QED BY <1>0, <2>1, <2>2, <2>3, <2>4, TopFacts
<1> USE DEF Round
<1>2. CASE CloseBracket
  <2> DEFINE g == [Top EXCEPT !.state = "end", !.closed = TRUE]
  <2>1. /\ g \in Frames /\ g.js = Top.js /\ g.key = Top.key /\ g.state = "end"
    BY <1>1 DEF Frames
  <2>2. Top.key = 0
    BY <1>1, <1>2 DEF CloseBracket
  <2>3. /\ SetTop(g) /\ pos' = pos + 1 /\ live' = live
        /\ UNCHANGED <<input, buf, failing, kids, nread, result>>
    BY <1>2 DEF CloseBracket
  <2> HIDE DEF g
  <2>4. Round(g)
    BY <1>0, <2>1, <2>2, <2>3
  <2> QED BY <2>4
<1>3. CASE Comma
  <2> DEFINE g == [Top EXCEPT !.state = IF Top.open = "[" THEN "val" ELSE "key"]
  <2>1. /\ g \in Frames /\ g.js = Top.js /\ g.key = Top.key /\ g.open = Top.open
        /\ g.state = "key" => g.open = "{"
        /\ g.open = "{" => g.state = "key"
        /\ g.closed = Top.closed
    BY <1>1 DEF Frames
  <2>2. Top.key = 0 /\ ~Top.closed
    BY <1>1, <1>3 DEF Comma
  <2>3. /\ SetTop(g) /\ pos' = pos + 1 /\ live' = live
        /\ UNCHANGED <<input, buf, failing, kids, nread, result>>
    BY <1>3 DEF Comma
  <2> HIDE DEF g
  <2>4. Round(g)
    BY <1>0, <2>1, <2>2, <2>3
  <2> QED BY <2>4
<1>4. CASE Key
  <2> DEFINE g == [Top EXCEPT !.state = "delim", !.key = pos]
  <2>0. Cell \in Strs /\ Cell # Cut
    BY <1>4, StrsAssumption DEF Key
  <2>1. /\ g \in Frames /\ g.js = Top.js /\ g.key = pos /\ g.open = Top.open
        /\ g.state = "delim" /\ g.closed = Top.closed
    <3>1. pos \in 0..Len(input)
      BY <1>0, StackFacts
    <3> QED BY <1>1, <3>1 DEF Frames
  <2>2. Top.key = 0 /\ Top.open = "{" /\ pos # 0 /\ ~Top.closed
    BY <1>0, <1>1, <1>4, StackFacts DEF Key
  <2>3. /\ SetTop(g) /\ pos' = pos + 1 /\ live' = live \cup {pos}
        /\ UNCHANGED <<input, buf, failing, kids, nread, result>>
    BY <1>4 DEF Key
  <2> HIDE DEF g
  <2>4. Round(g)
    BY <1>0, <2>0, <2>1, <2>2, <2>3
  <2> QED BY <2>4
<1>5. CASE Colon
  <2> DEFINE g == [Top EXCEPT !.state = "val"]
  <2>1. /\ g \in Frames /\ g.js = Top.js /\ g.key = Top.key /\ g.open = Top.open
        /\ g.state = "val" /\ g.closed = Top.closed
    BY <1>1 DEF Frames
  <2>2. (Top.key # 0 <=> Top.open = "{") /\ ~Top.closed
    BY <1>1, <1>5 DEF Colon
  <2>3. /\ SetTop(g) /\ pos' = pos + 1 /\ live' = live
        /\ UNCHANGED <<input, buf, failing, kids, nread, result>>
    BY <1>5 DEF Colon
  <2> HIDE DEF g
  <2>4. Round(g)
    BY <1>0, <2>1, <2>2, <2>3
  <2> QED BY <2>4
<1> QED BY <1>2, <1>3, <1>4, <1>5

LEMMA CallStep ==
  ASSUME IInv, BufCall \/ Open
  PROVE  IInv'
<1>0. TypeOK /\ RunInv /\ FrameInv /\ OrderInv /\ ClosedInv /\ OwnInv
      /\ Len(input) \in Nat \ {0} /\ pos \in Nat \ {0}
  BY BufFacts, StackFacts DEF IInv
<1>1. Called /\ failing' = failing /\ nread' = nread
      /\ (buf' = buf \/ buf' = input \/ buf' = DropLastByte(input))
  <2>1. CASE BufCall
    <3>0. stack = <<>> /\ result = Running /\ pos <= Len(input)
          /\ input[pos] \in {"[", "{"}
      BY <2>1 DEF BufCall, Starting
    <3>1. pos \in 1..Len(input)
      <4>1. pos \in Nat \ {0} /\ Len(input) \in Nat
        BY <1>0
      <4>2. pos <= Len(input)
        BY <3>0
      <4> QED BY <4>1, <4>2
    <3>2. live = {}
      <4>1. Roots = {}
        <5>1. 1..0 = {}
          OBVIOUS
        <5>2. Roots = Below(0)
          BY <1>0, <3>0, RootsRunning, StackFacts
        <5> QED BY <5>1, <5>2 DEF Below
      <4> QED BY <1>0, <4>1, OwnedOnce DEF ValuesOwnedOnce
    <3>3. <<Frame(pos)>> = Append(stack, Frame(pos))
      <4>1. \A f : Append(<<>>, f) = <<f>>
        <5>1. \A f : <<>> \in Seq({f}) /\ <<f>> \in Seq({f})
          OBVIOUS
        <5> QED BY <5>1, AppendIsConcat, ConcatEmptySeq
      <4> QED BY <3>0, <4>1
    <3> QED BY <2>1, <3>0, <3>1, <3>2, <3>3 DEF BufCall, Called
  <2>2. CASE Open
    <3>1. /\ stack # <<>> /\ result = Running /\ pos \in 1..Len(input)
          /\ Cell # Cut => input[pos] = Cell
      BY <1>0, <2>2, ScanFacts DEF Open
    <3>2. Cell \in {"[", "{"} /\ Cell # Cut
      BY <2>2 DEF Open, Cut
    <3> QED BY <2>2, <3>1, <3>2 DEF Open, Called
  <2> QED BY <2>1, <2>2
<1>2. /\ stack' \in Seq(Frames) /\ RunInv' /\ FrameInv' /\ OrderInv' /\ ClosedInv'
      /\ Roots' = Roots \cup {pos} /\ pos \notin live /\ kids[pos] = <<>>
  BY <1>0, <1>1, CalledFacts
<1>3. /\ pos \in 1..Len(input) /\ pos' = pos + 1 /\ kids' = kids
      /\ live' = live \cup {pos} /\ UNCHANGED <<input, result>>
  BY <1>1 DEF Called
<1>4. pos' \in 1..(Len(input) + 2)
  BY <1>0, <1>3
<1>5. TypeOK'
  BY <1>0, <1>1, <1>2, <1>3, <1>4 DEF TypeOK, Frames
<1>6. OwnInv'
  BY <1>0, <1>2, <1>3, ValueMade
<1> QED BY <1>2, <1>5, <1>6 DEF IInv

\* _lz_j_array_add and _lz_j_object_add.
LEMMA KidAdded ==
  ASSUME TypeOK, NEW f \in Frames, NEW v \in 1..Len(input),
         f.open = "{" => input[f.key] \in Strs, kids' = AddKid(f, v)
  PROVE  /\ kids' \in [1..Len(input) -> Seq(Kid)]
         /\ \A d \in 1..Len(input) : d # f.js => kids'[d] = kids[d]
         /\ \E i : LacksAt(Kid, kids[f.js], kids'[f.js], i) /\ kids'[f.js][i].val = v
<1> DEFINE m == [key |-> IF f.open = "{" THEN input[f.key] ELSE "", val |-> v]
           c == f.js
           l == IF f.open = "[" THEN Append(kids[c], m) ELSE <<m>> \o kids[c]
<1>1. m \in Kid /\ m.val = v
  BY DEF Kid
<1>2. kids' = [kids EXCEPT ![c] = l]
  BY DEF AddKid
<1>3. c \in 1..Len(input)
  BY DEF Frames
<1> HIDE DEF m
<1>4. kids \in [1..Len(input) -> Seq(Kid)] /\ kids[c] \in Seq(Kid)
  BY <1>3 DEF TypeOK, Kid
<1>5. l \in Seq(Kid) /\ \E i : LacksAt(Kid, kids[c], l, i) /\ l[i] = m
  <2>1. CASE f.open = "["
    <3>1. LacksAt(Kid, kids[c], Append(kids[c], m), Len(kids[c]) + 1)
          /\ Append(kids[c], m)[Len(kids[c]) + 1] = m
      BY <1>1, <1>4, AppendLacks
    <3> QED BY <2>1, <3>1 DEF LacksAt
  <2>2. CASE f.open # "["
    <3>1. LacksAt(Kid, kids[c], <<m>> \o kids[c], 1) /\ (<<m>> \o kids[c])[1] = m
      BY <1>1, <1>4, PrependLacks
    <3> QED BY <2>2, <3>1 DEF LacksAt
  <2> QED BY <2>1, <2>2
<1> HIDE DEF l, c
<1>6. kids' \in [1..Len(input) -> Seq(Kid)]
  BY <1>2, <1>4, <1>5
<1>7. kids'[c] = l /\ \A d \in 1..Len(input) : d # c => kids'[d] = kids[d]
  BY <1>2, <1>3, <1>4
<1> QED BY <1>1, <1>5, <1>6, <1>7 DEF c

\* The call in frame f, with n calls before it, takes v for a member and goes
\* on in frame g without a key.
Takes(n, f, v, g) ==
  /\ stack # <<>> /\ n \in 0..(Len(stack) - 1) /\ f = stack[n + 1]
  /\ f.state = "val"
  /\ stack' = SubSeq(stack, 1, n) \o <<g>>
  /\ g \in Frames /\ g.js = f.js /\ g.key = 0 /\ g.state = "comma"
  /\ g.closed => AtEnd'
  /\ kids' = AddKid(f, v) /\ v \in 1..Len(input) /\ f.js < v /\ f.key # v
  /\ pos' \in 1..(Len(input) + 2) /\ pos <= pos'
  /\ live' = (live \cup {v}) \ {f.key}
  /\ \/ v = pos /\ pos < pos' /\ Roots = Below(n) \cup Mine(f)
     \/ v \in Roots /\ Roots = Below(n) \cup Mine(f) \cup {v} /\ v \notin Below(n)
  /\ failing' \in BOOLEAN
  /\ UNCHANGED <<input, buf, nread, result>>

LEMMA TakesStep ==
  ASSUME IInv, NEW n, NEW f, NEW v, NEW g, Takes(n, f, v, g)
  PROVE  IInv'
<1>0. TypeOK /\ RunInv /\ FrameInv /\ OrderInv /\ ClosedInv /\ OwnInv /\ stack # <<>>
      /\ pos \in Nat \ {0} /\ Len(input) \in Nat
      /\ n \in 0..Len(stack) /\ n + 1 \in 1..Len(stack) /\ n < n + 1
  <2>1. n \in 0..(Len(stack) - 1) /\ Len(stack) \in Nat
    BY StackFacts DEF IInv, Takes
  <2>2. n \in 0..Len(stack) /\ n + 1 \in 1..Len(stack) /\ n < n + 1
    BY <2>1
  <2> QED BY <2>2, StackFacts DEF IInv, Takes
<1>1. /\ f \in Frames /\ f = stack[n + 1] /\ f.js \in 1..Len(input) /\ f.key \in 0..Len(input)
      /\ f.js < pos /\ (f.key # 0 => f.js < f.key) /\ f.js # f.key
      /\ f.key # 0 => kids[f.key] = <<>>
      /\ f.open = "{" => f.key # 0 /\ input[f.key] \in Strs
  <2>1. f = stack[n + 1] /\ f.state = "val"
    BY DEF Takes
  <2>2. f \in Frames /\ f.js \in 1..Len(input) /\ f.key \in 0..Len(input)
    BY <1>0, <2>1, StackFacts
  <2>3. f.js < pos /\ (f.key # 0 => f.js < f.key)
    BY <1>0, <2>1 DEF OrderInv
  <2>4. /\ f.key # 0 <=> f.open = "{" /\ f.state \in {"delim", "val"}
        /\ f.key # 0 => input[f.key] \in Strs /\ kids[f.key] = <<>>
    BY <1>0, <2>1 DEF FrameInv
  <2>5. f.js # f.key
    BY <2>2, <2>3
  <2> QED BY <2>1, <2>2, <2>3, <2>4, <2>5
<1>2. Below(n) \cap Mine(f) = {}
  BY <1>0, <1>1, FramesApart
<1>3. /\ kids' \in [1..Len(input) -> Seq(Kid)]
      /\ \A d \in 1..Len(input) : d # f.js => kids'[d] = kids[d]
      /\ \E i : LacksAt(Kid, kids[f.js], kids'[f.js], i) /\ kids'[f.js][i].val = v
  BY <1>0, <1>1, KidAdded DEF Takes
<1>4. pos \in 1..Len(input) => pos \notin live /\ kids[pos] = <<>>
  <2>1. pos >= pos
    BY <1>0
  <2> QED BY <1>0, <2>1 DEF OrderInv
<1>5. live \subseteq 1..Len(input) /\ live \subseteq Nat \ {0} /\ 0 \notin live
  BY <1>0 DEF TypeOK, OwnInv
<1>6. g \in Frames /\ g.js = f.js /\ g.key = 0 /\ g.state = "comma"
      /\ v \in 1..Len(input) /\ v \in Nat \ {0} /\ f.js < v /\ f.key # v
      /\ pos' \in Nat /\ pos <= pos' /\ pos' \in 1..(Len(input) + 2)
  <2>1. v \in 1..Len(input) /\ pos' \in 1..(Len(input) + 2)
    BY DEF Takes
  <2>2. v \in Nat \ {0} /\ pos' \in Nat
    BY <2>1
  <2> QED BY <2>1, <2>2 DEF Takes
<1>7. v \in Roots \/ v = pos
  BY DEF Takes
<1>8. Roots \subseteq live
  BY <1>0 DEF OwnInv
<1>9. Resumes(n, g)
  <2>1. ASSUME NEW d \in live' PROVE d \in live \/ (d = pos /\ pos < pos')
    <3>1. d \in live \/ d = v
      BY <2>1 DEF Takes
    <3>2. (v = pos /\ pos < pos') \/ v \in live
      BY <1>8 DEF Takes
    <3> QED BY <3>1, <3>2
  <2>2. /\ stack' = SubSeq(stack, 1, n) \o <<g>> /\ n \in 0..(Len(stack) - 1)
        /\ g.closed => AtEnd'
        /\ UNCHANGED <<input, result>>
    BY DEF Takes
  <2> QED BY <1>1, <1>3, <1>6, <2>1, <2>2 DEF Resumes
<1>10. /\ stack' \in Seq(Frames) /\ RunInv' /\ FrameInv' /\ OrderInv' /\ ClosedInv'
       /\ Roots' = Below(n) \cup Mine(g)
  BY <1>0, <1>9, ResumesFacts
<1>11. /\ Mine(f) = {f.js} \cup ({f.key} \ {0}) /\ Mine(g) = {f.js}
       /\ f.js # 0 /\ v # f.js
  <2>1. f.js \in Nat /\ v \in Nat /\ f.js < v /\ f.js # 0
    <3>1. Len(input) \in Nat /\ f.js \in 1..Len(input) /\ v \in 1..Len(input)
      BY <1>0, <1>1, <1>6
    <3>2. f.js < v
      BY <1>6
    <3> QED BY <3>1, <3>2
  <2>2. v # f.js
    BY <2>1
  <2>3. Mine(g) = {f.js}
    BY <1>6 DEF Mine
  <2> QED BY <2>1, <2>2, <2>3 DEF Mine
<1>12. Below(n) \subseteq live /\ f.js \in live /\ f.key \in live \cup {0}
  <2>1. Below(n) \cup Mine(f) \subseteq Roots
    BY DEF Takes
  <2>2. f.js \in Mine(f) /\ f.key \in Mine(f) \cup {0}
    BY <1>11
  <2> QED BY <1>8, <2>1, <2>2
<1>13. v \notin Below(n) /\ v # f.js /\ v # 0
  <2>1. v # f.js /\ v # 0
    BY <1>6, <1>11
  <2>2. v = pos => v \notin live
    BY <1>4, <1>6
  <2>3. v = pos \/ v \notin Below(n)
    BY DEF Takes
  <2> QED BY <1>12, <2>1, <2>2, <2>3
<1>14. Adopted(f.js, v, f.key)
  <2>1. f.js \in Roots /\ f.key \in Roots \cup {0}
    <3>1. Mine(f) \subseteq Roots
      BY DEF Takes
    <3>2. f.js \in Mine(f) /\ f.key \in Mine(f) \cup {0}
      BY <1>11
    <3> QED BY <3>1, <3>2
  <2>2. v \in Roots \/ (v \notin live /\ kids[v] = <<>>)
    BY <1>4, <1>6 DEF Takes
  <2>3. Roots \subseteq Below(n) \cup Mine(f) \cup {v}
        /\ Below(n) \cup Mine(f) \subseteq Roots
    BY DEF Takes
  <2>4. Roots' = Roots \ {v, f.key}
    <3>1. f.js \notin Below(n) /\ f.key \notin Below(n)
      BY <1>2, <1>5, <1>11, <1>12
    <3>2. f.js # f.key
      BY <1>1
    <3> QED BY <1>10, <1>11, <1>13, <2>3, <3>1, <3>2
  <2>5. \A d \in live \cup {v} : d # f.js => kids'[d] = kids[d]
    BY <1>3, <1>5, <1>6
  <2>6. live' = (live \cup {v}) \ {f.key}
    BY DEF Takes
  <2> QED BY <1>1, <1>3, <1>6, <2>1, <2>2, <2>4, <2>5, <2>6 DEF Adopted
<1>15. OwnInv'
  BY <1>0, <1>14, ValueAdopted
<1>16. TypeOK'
  <2>1. live' \subseteq 1..Len(input)
    BY <1>5, <1>6 DEF Takes
  <2>2. /\ kids' \in [1..Len(input) -> Seq([key : Strs \cup {""}, val : 1..Len(input)])]
        /\ failing' \in BOOLEAN /\ UNCHANGED <<input, buf, nread, result>>
    BY <1>3 DEF Takes, Kid
  <2> QED BY <1>0, <1>6, <1>10, <2>1, <2>2 DEF TypeOK, Frames
<1> QED BY <1>10, <1>15, <1>16 DEF IInv

LEMMA ScalarTakes ==
  ASSUME IInv, Scalar
  PROVE  \E n, f, v, g : Takes(n, f, v, g)
<1>0. /\ TypeOK /\ RunInv /\ FrameInv /\ OrderInv /\ Scanning
      /\ stack # <<>> /\ pos \in 1..Len(buf) /\ pos \in 1..Len(input)
      /\ Len(buf) \in Nat /\ Len(buf) <= Len(input) /\ Len(input) \in Nat \ {0}
      /\ pos \in Nat \ {0}
  <2>1. TypeOK /\ RunInv /\ FrameInv /\ OrderInv /\ Scanning
    BY DEF IInv, Scalar
  <2> QED BY <2>1, ScanFacts, BufFacts, StackFacts
<1>1. PICK n : n = Len(stack) - 1
  OBVIOUS
<1>2. /\ n \in 0..(Len(stack) - 1) /\ Top = stack[n + 1]
      /\ Front(stack) = SubSeq(stack, 1, n)
      /\ Roots = Below(n) \cup Mine(Top)
      /\ Top \in Frames /\ Top.js < pos /\ Top.key < pos
      /\ Top.js \in 1..Len(input) /\ Top.key \in 0..Len(input)
  BY <1>0, <1>1, TopFacts
<1>3. Top.key # pos
  BY <1>0, <1>2
<1>e. PICK e \in ScalarEnds : SetTop(Added(Top, pos, e)) /\ pos' = e + 1
  BY DEF Scalar
<1> DEFINE g == Added(Top, pos, e)
<1>4. e \in Nat /\ pos <= e /\ e <= Len(input) + 1
  <2>1. CASE Cell = Null
    BY <1>0, <1>e, <2>1 DEF ScalarEnds
  <2>2. CASE Cell = Digit /\ Cell # Null
    BY <1>0, <1>e, <2>2 DEF ScalarEnds
  <2>3. CASE Cell \notin {Null, Digit}
    BY <1>0, <1>e, <2>3 DEF ScalarEnds
  <2> QED BY <2>1, <2>2, <2>3
<1>5. /\ g \in Frames /\ g.js = Top.js /\ g.key = 0 /\ g.state = "comma"
      /\ g.closed => e = Len(buf)
  <2>1. 0 \in 0..Len(input)
    BY <1>0
  <2> QED BY <1>2, <2>1 DEF Added, Frames
<1>6. /\ stack' = Front(stack) \o <<g>> /\ live' = (live \cup {pos}) \ {Top.key}
      /\ kids' = AddKid(Top, pos) /\ pos' = e + 1
      /\ failing' \in BOOLEAN /\ Top.state = "val"
      /\ UNCHANGED <<input, buf, nread, result>>
  BY <1>e DEF Scalar, SetTop
<1> HIDE DEF g
<1>7. /\ pos' \in 1..(Len(input) + 2) /\ pos <= pos' /\ pos < pos'
      /\ g.closed => pos' > Len(buf)
  <2>1. /\ e \in Nat /\ e + 1 \in 1..(Len(input) + 2) /\ pos <= e + 1 /\ pos < e + 1
    BY <1>0, <1>4
  <2>2. e = Len(buf) => e + 1 > Len(buf)
    BY <1>0, <2>1
  <2> QED BY <1>5, <1>6, <2>1, <2>2
<1>8. g.closed => AtEnd'
  BY <1>6, <1>7 DEF AtEnd
<1>9. Takes(n, Top, pos, g)
  BY <1>0, <1>2, <1>3, <1>5, <1>6, <1>7, <1>8 DEF Takes
<1> QED BY <1>9

\* A call that returns its value has no key.
LEMMA ReturnTakes ==
  ASSUME IInv, Return
  PROVE  \E n, f, v, g : Takes(n, f, v, g)
<1>0. /\ TypeOK /\ RunInv /\ FrameInv /\ OrderInv /\ ClosedInv
      /\ stack # <<>> /\ Len(stack) > 1 /\ Len(stack) \in Nat /\ Top.closed
      /\ Len(buf) \in Nat /\ Len(buf) <= Len(input) /\ Len(input) \in Nat \ {0}
      /\ pos \in Nat \ {0} /\ pos \in 1..(Len(input) + 2)
      /\ live \subseteq Nat \ {0} /\ Roots \subseteq live
  <2>1. TypeOK /\ RunInv /\ FrameInv /\ OrderInv /\ ClosedInv /\ OwnInv
    BY DEF IInv
  <2>2. stack # <<>> /\ Len(stack) > 1 /\ Top.closed
    BY DEF Return, LoopOver
  <2> QED BY <2>1, <2>2, BufFacts, StackFacts DEF TypeOK, OwnInv
<1>1. PICK m : m = Len(stack) - 1
  OBVIOUS
<1>2. PICK n : n = Len(stack) - 2
  OBVIOUS
<1>3. /\ m \in 1..Len(stack) /\ n \in 0..(Len(stack) - 1) /\ n + 1 = m /\ n = m - 1
      /\ m < Len(stack) /\ n < Len(stack) /\ n \in 0..Len(stack)
      /\ Len(stack) \in 1..Len(stack)
  BY <1>0, <1>1, <1>2
<1> DEFINE f == stack[m]
           v == Top.js
           g == Added(f, v, pos - 1)
<1>4. /\ Roots = Below(m) \cup Mine(Top)
      /\ Top.js \in 1..Len(input) /\ Top.js < pos
      /\ Top.key # 0 <=> Top.open = "{" /\ Top.state \in {"delim", "val"}
      /\ Top = stack[Len(stack)]
  BY <1>0, <1>1, TopFacts, StackFacts
<1>5. Top.key = 0
  <2>1. Top.state \notin {"delim", "val"}
    BY <1>0, <1>3, <1>4 DEF ClosedInv
  <2> QED BY <1>4, <2>1
<1>6. Below(m) = Below(n) \cup Mine(f)
  BY <1>0, <1>3, FramesApart
<1>7. /\ f \in Frames /\ f.js \in 1..Len(input) /\ f.key \in 0..Len(input)
      /\ f.js < v /\ f.key < v /\ f.state = "val"
  <2>1. f.state = "val"
    BY <1>0, <1>3 DEF FrameInv
  <2>2. f.js < v /\ f.key < v
    BY <1>0, <1>3, <1>4 DEF OrderInv
  <2> QED BY <1>0, <1>3, <2>1, <2>2, StackFacts
<1>8. f.key # v
  <2>1. f.key \in Nat /\ v \in Nat
    <3>1. f.key \in 0..Len(input) /\ v \in 1..Len(input) /\ Len(input) \in Nat
      BY <1>0, <1>4, <1>7
    <3> QED BY <3>1
  <2>2. f.key < v
    BY <1>7
  <2> HIDE DEF f, v
  <2> QED BY <2>1, <2>2
<1>9. v \notin Below(n)
  <2>1. v \in Mine(Top)
    BY DEF Mine
  <2> QED BY <1>0, <1>3, <1>4, <2>1, FramesApart
<1>10. Mine(Top) = {v}
  BY <1>5 DEF Mine
<1>11. /\ g \in Frames /\ g.js = f.js /\ g.key = 0 /\ g.state = "comma"
       /\ g.closed => pos - 1 = Len(buf)
  <2>1. 0 \in 0..Len(input)
    BY <1>0
  <2> HIDE DEF f, v
  <2> QED BY <1>7, <2>1 DEF Added, Frames
<1>12. /\ stack' = SubSeq(stack, 1, n) \o <<g>> /\ kids' = AddKid(f, v)
       /\ live' = live \ (({Top.key} \cup {f.key}) \ {0})
       /\ UNCHANGED <<input, buf, pos, failing, nread, result>>
  BY <1>1, <1>2 DEF Return
<1> HIDE DEF g
<1>13. g.closed => AtEnd'
  <2>1. pos - 1 = Len(buf) => pos > Len(buf)
    BY <1>0
  <2> QED BY <1>11, <1>12, <2>1 DEF AtEnd
<1>14. live' = (live \cup {v}) \ {f.key}
  <2>1. v \in live /\ 0 \notin live
    <3>1. v \in Roots
      BY <1>4, <1>10
    <3>2. Roots \subseteq live /\ live \subseteq Nat \ {0}
      BY <1>0
    <3> QED BY <3>1, <3>2
  <2> HIDE DEF f, v
  <2> QED BY <1>5, <1>12, <2>1
<1>15. v \in Roots /\ Roots = Below(n) \cup Mine(f) \cup {v}
  BY <1>4, <1>6, <1>10
<1>16. /\ pos' \in 1..(Len(input) + 2) /\ pos <= pos' /\ failing' \in BOOLEAN
  <2>1. pos <= pos
    BY <1>0
  <2>2. failing \in BOOLEAN
    BY <1>0 DEF TypeOK
  <2> QED BY <1>0, <1>12, <2>1, <2>2
<1>17. f = stack[n + 1] /\ v \in 1..Len(input)
  BY <1>3, <1>4
<1> HIDE DEF f, v
<1>18. Takes(n, f, v, g)
  BY <1>0, <1>3, <1>7, <1>8, <1>9, <1>11, <1>12, <1>13, <1>14, <1>15, <1>16, <1>17 DEF Takes
<1> QED BY <1>18

LEMMA ReturnRootStep ==
  ASSUME IInv, ReturnRoot
  PROVE  IInv'
<1>0. /\ TypeOK /\ RunInv /\ FrameInv /\ OrderInv /\ ClosedInv /\ OwnInv
      /\ stack # <<>> /\ Len(stack) = 1 /\ Len(stack) \in Nat /\ Top.closed
      /\ Len(input) \in Nat \ {0} /\ ~failing
  <2>1. TypeOK /\ RunInv /\ FrameInv /\ OrderInv /\ ClosedInv /\ OwnInv
    BY DEF IInv
  <2>2. stack # <<>> /\ Len(stack) = 1 /\ Top.closed /\ ~failing
    BY DEF ReturnRoot, LoopOver
  <2> QED BY <2>1, <2>2, BufFacts, StackFacts
<1>1. /\ stack' = <<>> /\ result' = Top.js /\ nread' = Len(input)
      /\ UNCHANGED <<input, buf, pos, failing, live, kids>>
  BY DEF ReturnRoot
<1>2. PICK n : n = Len(stack) - 1
  OBVIOUS
<1>3. n = 0 /\ Len(stack) \in 1..Len(stack)
  BY <1>0, <1>2
<1>4. /\ Roots = Below(0) \cup Mine(Top)
      /\ Top.js \in 1..Len(input)
      /\ Top.key # 0 <=> Top.open = "{" /\ Top.state \in {"delim", "val"}
      /\ Top = stack[Len(stack)]
  BY <1>0, <1>2, <1>3, TopFacts, StackFacts
<1>5. Top.key = 0
  <2>1. Top.state \notin {"delim", "val"}
    BY <1>0, <1>3, <1>4 DEF ClosedInv
  <2> QED BY <1>4, <2>1
<1>6. Top.js \notin {Running, Rejected}
  <2>1. \A i \in 1..Len(input) : i # 0 /\ i # -1
    BY <1>0
  <2> QED BY <1>4, <2>1 DEF Running, Rejected
<1>7. Roots' = Roots
  <2>1. Below(0) = {}
    <3>1. 1..0 = {}
      OBVIOUS
    <3> QED BY <3>1 DEF Below
  <2>2. Roots = {Top.js}
    BY <1>4, <1>5, <2>1 DEF Mine
  <2>3. DOMAIN stack' = {}
    BY <1>1
  <2>4. Roots' = {result'} \ {Running, Rejected}
    BY <2>3 DEF Roots
  <2> QED BY <1>1, <1>6, <2>2, <2>4
<1>8. OwnInv'
  BY <1>0, <1>1, <1>7, HoldersKept
<1>9. TypeOK'
  <2>1. stack' \in Seq(Frames) /\ Len(input) \in 0..Len(input)
    BY <1>0, <1>1
  <2>2. nread' \in {Unset} \cup 0..Len(input) /\ result' \in {Running, Rejected} \cup 1..Len(input)
    BY <1>1, <1>4, <2>1
  <2> QED BY <1>0, <1>1, <2>1, <2>2 DEF TypeOK, Frames
<1>10. RunInv' /\ FrameInv' /\ OrderInv' /\ ClosedInv'
  <2>1. Len(stack') = 0 /\ 1..0 = {}
    BY <1>1
  <2>2. FrameInv' /\ ClosedInv'
    BY <2>1 DEF FrameInv, ClosedInv
  <2>3. RunInv'
    BY <1>0, <1>1 DEF RunInv
  <2>4. OrderInv'
    BY <1>0, <1>1, <2>1 DEF OrderInv
  <2> QED BY <2>2, <2>3, <2>4
<1> QED BY <1>8, <1>9, <1>10 DEF IInv

LEMMA UnwindStep ==
  ASSUME IInv, Unwind
  PROVE  IInv'
<1>0. /\ TypeOK /\ RunInv /\ FrameInv /\ OrderInv /\ ClosedInv /\ OwnInv
      /\ stack # <<>> /\ Len(stack) \in Nat /\ Len(input) \in Nat \ {0} /\ failing
      /\ result = Running
  <2>1. TypeOK /\ RunInv /\ FrameInv /\ OrderInv /\ ClosedInv /\ OwnInv
    BY DEF IInv
  <2>2. stack # <<>> /\ failing /\ result = Running
    BY <2>1 DEF Unwind, RunInv
  <2> QED BY <2>1, <2>2, BufFacts, StackFacts
<1>1. /\ stack' = Front(stack) /\ live' = live \ (Tree(Top.js) \cup ({Top.key} \ {0}))
      /\ UNCHANGED <<input, buf, pos, kids>>
      /\ Len(stack) = 1 => /\ failing' = FALSE /\ result' = Rejected
                           /\ nread' \in {Top.js - 1, nread}
      /\ Len(stack) # 1 => UNCHANGED <<failing, result, nread>>
  BY DEF Unwind, Freed
<1>2. PICK n : n = Len(stack) - 1
  OBVIOUS
<1>3. /\ Roots = Below(n) \cup Mine(Top) /\ Below(n) \cap Mine(Top) = {}
      /\ Top.js \in 1..Len(input) /\ Top.key \in 0..Len(input)
      /\ Top.key # 0 => kids[Top.key] = <<>>
  BY <1>0, <1>2, TopFacts
<1>4. result' \in {Running, Rejected}
  BY <1>0, <1>1
<1>5. /\ stack' \in Seq(Frames) /\ Len(stack') = n
      /\ FrameInv' /\ OrderInv' /\ ClosedInv' /\ Roots' = Below(n)
  <2>1. live' \subseteq live
    BY <1>1
  <2>2. /\ stack' \in Seq(Frames) /\ Len(stack') = Len(stack) - 1
        /\ FrameInv' /\ OrderInv' /\ ClosedInv'
        /\ Roots' = Below(Len(stack) - 1) \cup ({result'} \ {Running, Rejected})
    BY <1>0, <1>1, <2>1, PoppedFacts
  <2> QED BY <1>2, <1>4, <2>2
<1>6. OwnInv'
  <2>1. Top.js # 0
    BY <1>0, <1>3
  <2>2. Mine(Top) = {Top.js} \cup ({Top.key} \ {0})
    BY DEF Mine
  <2>3. Top.js \in Roots /\ Top.key \in Roots \cup {0}
    BY <1>3, <2>2
  <2>4. 0 \notin Roots
    BY <1>0 DEF OwnInv
  <2>5. Roots' = Roots \ {Top.js, Top.key}
    BY <1>3, <1>5, <2>2, <2>4
  <2>6. live' = live \ (Tree(Top.js) \cup ({Top.key} \ {0})) /\ kids' = kids
    BY <1>1
  <2> QED BY <1>0, <1>3, <2>3, <2>5, <2>6, ValueFreed
<1>7. RunInv'
  <2>1. Len(stack) # 1 => stack' # <<>> /\ result' = Running
    <3>1. stack' = <<>> => Len(stack') = 0
      OBVIOUS
    <3>2. Len(stack) # 1 => n # 0
      BY <1>0, <1>2
    <3> QED BY <1>0, <1>1, <1>5, <3>1, <3>2
  <2>2. Len(stack) = 1 => stack' = <<>>
    <3>1. Len(stack) = 1 => n = 0
      BY <1>2
    <3> QED BY <1>5, <3>1, EmptySeq
  <2> QED BY <1>0, <1>1, <2>1, <2>2 DEF RunInv
<1>8. TypeOK'
  <2>1. Top.js - 1 \in 0..Len(input)
    BY <1>0, <1>3
  <2>2. nread' \in {Unset} \cup 0..Len(input)
    BY <1>0, <1>1, <2>1 DEF TypeOK
  <2>3. failing' \in BOOLEAN /\ result' \in {Running, Rejected} \cup 1..Len(input)
    BY <1>0, <1>1, <1>4 DEF TypeOK
  <2> QED BY <1>0, <1>1, <1>5, <2>2, <2>3 DEF TypeOK, Frames
<1> QED BY <1>5, <1>6, <1>7, <1>8 DEF IInv

-----------------------------------------------------------------------------
(* The specification. *)

LEMMA InitIInv == Init => IInv
<1> SUFFICES ASSUME Init PROVE IInv
  OBVIOUS
<1>1. /\ input \in Inputs /\ input \in Seq(Cells) /\ Len(input) \in Nat /\ Len(input) > 1
      /\ buf = <<>> /\ pos = 1 /\ stack = <<>> /\ failing = FALSE /\ live = {}
      /\ kids = [p \in 1..Len(input) |-> <<>>] /\ nread = Unset /\ result = Running
  <2>1. input \in Inputs /\ input \in Seq(Cells \ {Cut}) /\ Len(input) > 1
    BY InputsAssumption DEF Init
  <2>2. input \in Seq(Cells) /\ Len(input) \in Nat
    <3>1. \A S, T : S \subseteq T => Seq(S) \subseteq Seq(T)
      OBVIOUS
    <3>2. (Cells \ {Cut}) \subseteq Cells
      OBVIOUS
    <3> HIDE DEF Cells, Cut
    <3>3. Seq(Cells \ {Cut}) \subseteq Seq(Cells)
      BY <3>1, <3>2
    <3> QED BY <2>1, <3>3, LenProperties
  <2> QED BY <2>1, <2>2 DEF Init
<1>2. Len(stack) = 0 /\ 1..0 = {} /\ DOMAIN stack = {}
  BY <1>1
<1>3. TypeOK
  <2>1. pos \in 1..(Len(input) + 2)
    BY <1>1
  <2>2. stack \in Seq(Frames) /\ live \in SUBSET (1..Len(input))
    BY <1>1
  <2>3. kids \in [1..Len(input) -> Seq([key : Strs \cup {""}, val : 1..Len(input)])]
    BY <1>1
  <2> QED BY <1>1, <2>1, <2>2, <2>3 DEF TypeOK
<1>4. RunInv /\ FrameInv /\ ClosedInv
  BY <1>1, <1>2 DEF RunInv, FrameInv, ClosedInv
<1>5. OrderInv
  BY <1>1, <1>2 DEF OrderInv
<1>6. Roots = {}
  BY <1>1, <1>2 DEF Roots
<1>7. OwnInv
  BY <1>1, <1>6 DEF OwnInv
<1> QED BY <1>3, <1>4, <1>5, <1>7 DEF IInv

LEMMA NextIInv == IInv /\ [Next]_vars => IInv'
<1> SUFFICES ASSUME IInv, [Next]_vars PROVE IInv'
  OBVIOUS
<1>1. CASE BufSkipSpace \/ BufReject \/ BufBlank \/ SkipSpace \/ Misplaced \/ Unfinished
  BY <1>1, QuietSteps, QuietStep
<1>2. CASE CloseBracket \/ Comma \/ Key \/ Colon
  BY <1>2, RoundSteps, RoundStep
<1>3. CASE BufCall \/ Open
  BY <1>3, CallStep
<1>4. CASE Scalar
  BY <1>4, ScalarTakes, TakesStep
<1>5. CASE Return
  BY <1>5, ReturnTakes, TakesStep
<1>6. CASE ReturnRoot
  BY <1>6, ReturnRootStep
<1>7. CASE Unwind
  BY <1>7, UnwindStep
<1>8. CASE UNCHANGED vars
  <2>1. TypeOK'
    BY <1>8 DEF vars, IInv, TypeOK, Frames
  <2>2. RunInv' /\ FrameInv' /\ OrderInv'
    BY <1>8 DEF vars, IInv, RunInv, FrameInv, OrderInv
  <2>3. ClosedInv'
    BY <1>8 DEF vars, IInv, ClosedInv, AtEnd
  <2>4. Roots' = Roots
    BY <1>8 DEF vars, Roots
  <2>5. OwnInv'
    BY <1>8, <2>4, HoldersKept DEF vars, IInv
  <2> QED BY <2>1, <2>2, <2>3, <2>5 DEF IInv
<1> QED BY <1>1, <1>2, <1>3, <1>4, <1>5, <1>6, <1>7, <1>8 DEF Next, Buffer, Scan, Leave

LEMMA Invariance == Spec => []IInv
<1>1. Init => IInv
  BY InitIInv
<1>2. IInv /\ [Next]_vars => IInv'
  BY NextIInv
<1> QED BY <1>1, <1>2, PTL DEF Spec

\* Whatever the texts, the variables have their types throughout: the parser
\* stays within the text and one byte after it, every call's value and key
\* begin at a cell of it.
THEOREM TypeCorrect == Spec => []TypeOK
<1>1. IInv => TypeOK
  BY DEF IInv
<1> QED BY <1>1, Invariance, PTL

\* Whatever the text and however deep the call that fails, every value made
\* by lz_json_parse_array, _object and _key is in the tree of exactly one
\* running call, is one call's key, or is in the result: the error exits of
\* lz_json.c free each value once, and a rejected text leaves none behind.
THEOREM OwnedOnceAlways == Spec => []ValuesOwnedOnce
<1>1. IInv => ValuesOwnedOnce
  BY OwnedOnce DEF IInv
<1> QED BY <1>1, Invariance, PTL

\* lz_json_parse_buf that returns NULL leaves nothing allocated, whatever it
\* had built when it came upon the place where the text is not JSON.
THEOREM NothingLeftBehind == Spec => [](result = Rejected => live = {})
<1>1. IInv /\ result = Rejected => live = {}
  <2> SUFFICES ASSUME IInv, result = Rejected PROVE live = {}
    OBVIOUS
  <2>1. stack = <<>>
    BY DEF IInv, RunInv, Running, Rejected
  <2>2. Roots = {}
    BY <2>1 DEF Roots
  <2> QED BY <2>2, OwnedOnce DEF IInv, ValuesOwnedOnce
<1> QED BY <1>1, Invariance, PTL
=============================================================================
