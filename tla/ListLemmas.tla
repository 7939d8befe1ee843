----------------------------- MODULE ListLemmas -----------------------------
(***************************************************************************)
(* Facts about duplicate-free sequences, the abstraction of the SLIST and  *)
(* TAILQ lists of the code: what inserting at the head, taking the head    *)
(* and unlinking an element do to the sequence and to its set of elements. *)
(* Then, facts about lists whose elements need not differ, and induction   *)
(* over the naturals in a form the provers can use.                        *)
(***************************************************************************)
EXTENDS SequencesExt, SequenceTheorems, FiniteSetTheorems, TLAPS

\* The set of elements of a sequence, by index.
LEMMA ToSetMember ==
  ASSUME NEW S, NEW s \in Seq(S)
  PROVE  /\ ToSet(s) \subseteq S
         /\ \A x : x \in ToSet(s) <=> \E i \in 1..Len(s) : s[i] = x
BY LenProperties DEF ToSet

\* Two duplicate-free facts in one: the indices of equal elements agree.
LEMMA InjectiveByIndex ==
  ASSUME NEW S, NEW s \in Seq(S)
  PROVE  IsInjective(s) <=> \A i, j \in 1..Len(s) : s[i] = s[j] => i = j
BY LenProperties DEF IsInjective

\* The empty sequence has no elements.
LEMMA EmptyList ==
  /\ ToSet(<<>>) = {}
  /\ IsInjective(<<>>)
BY DEF ToSet, IsInjective

\* SLIST_INSERT_HEAD of an element the list does not contain.
LEMMA ConsList ==
  ASSUME NEW S, NEW s \in Seq(S), NEW e \in S
  PROVE  /\ <<e>> \o s \in Seq(S)
         /\ Len(<<e>> \o s) = Len(s) + 1
         /\ ToSet(<<e>> \o s) = {e} \cup ToSet(s)
         /\ IsInjective(s) /\ e \notin ToSet(s) => IsInjective(<<e>> \o s)
         /\ Head(<<e>> \o s) = e
         /\ Tail(<<e>> \o s) = s
<1> DEFINE c == <<e>> \o s
<1>1. /\ <<e>> \in Seq(S) /\ Len(<<e>>) = 1 /\ <<e>>[1] = e
  OBVIOUS
<1>2. /\ c \in Seq(S)
      /\ Len(c) = Len(s) + 1
      /\ \A i \in 1..Len(s) + 1 : c[i] = IF i <= 1 THEN e ELSE s[i - 1]
  BY <1>1, ConcatProperties, LenProperties
<1> HIDE DEF c
<1>3. Len(s) \in Nat
  BY LenProperties
<1>4. ToSet(c) = {e} \cup ToSet(s)
  <2>1. ASSUME NEW x \in ToSet(c) PROVE x \in {e} \cup ToSet(s)
    <3>1. PICK i \in 1..Len(c) : c[i] = x
      BY <1>2, <2>1, ToSetMember
    <3>2. CASE i <= 1
      BY <1>2, <1>3, <3>1, <3>2
    <3>3. CASE ~(i <= 1)
      <4>1. i - 1 \in 1..Len(s) /\ s[i - 1] = x
        BY <1>2, <1>3, <3>1, <3>3
      <4> QED BY <4>1, ToSetMember
    <3> QED BY <3>2, <3>3
  <2>2. ASSUME NEW x \in {e} \cup ToSet(s) PROVE x \in ToSet(c)
    <3>1. CASE x = e
      <4>1. 1 \in 1..Len(c) /\ c[1] = x
        BY <1>2, <1>3, <3>1
      <4> QED BY <1>2, <4>1, ToSetMember
    <3>2. CASE x \in ToSet(s)
      <4>1. PICK i \in 1..Len(s) : s[i] = x
        BY <3>2, ToSetMember
      <4>2. i + 1 \in 1..Len(c) /\ c[i + 1] = x
        BY <1>2, <1>3, <4>1
      <4> QED BY <1>2, <4>2, ToSetMember
    <3> QED BY <2>2, <3>1, <3>2
  <2> QED BY <2>1, <2>2
<1>5. ASSUME IsInjective(s), e \notin ToSet(s) PROVE IsInjective(c)
  <2>1. \A i \in 1..Len(s) : s[i] # e
    BY <1>5, ToSetMember
  <2>2. SUFFICES ASSUME NEW i \in 1..Len(c), NEW j \in 1..Len(c), c[i] = c[j]
                 PROVE  i = j
    BY <1>2, InjectiveByIndex
  <2>3. \A k \in 1..Len(c) : k <= 1 \/ k - 1 \in 1..Len(s)
    BY <1>2, <1>3
  <2>4. CASE i <= 1 \/ j <= 1
    BY <1>2, <1>3, <2>1, <2>2, <2>3, <2>4
  <2>5. CASE ~(i <= 1) /\ ~(j <= 1)
    <3>1. i - 1 \in 1..Len(s) /\ j - 1 \in 1..Len(s) /\ s[i - 1] = s[j - 1]
      BY <1>2, <1>3, <2>2, <2>5
    <3>2. i - 1 = j - 1
      BY <1>5, <3>1, InjectiveByIndex
    <3> QED BY <3>2
  <2> QED BY <2>4, <2>5
<1>6. Head(c) = e
  BY <1>2, <1>3 
<1>7. Tail(c) = s
  <2>1. c # <<>>
    BY <1>2, <1>3
  <2>2. Tail(c) \in Seq(S) /\ Len(Tail(c)) = Len(s)
        /\ \A i \in 1..Len(Tail(c)) : Tail(c)[i] = c[i + 1]
    BY <1>2, <1>3, <2>1, HeadTailProperties
  <2>3. \A i \in 1..Len(s) : Tail(c)[i] = s[i]
    BY <1>2, <1>3, <2>2
  <2> QED BY <2>2, <2>3, SeqEqual
<1> QED BY <1>2, <1>4, <1>5, <1>6, <1>7 DEF c

\* Taking the head of a duplicate-free list.
LEMMA TailList ==
  ASSUME NEW S, NEW s \in Seq(S), s # <<>>, IsInjective(s)
  PROVE  /\ Head(s) \in ToSet(s)
         /\ Tail(s) \in Seq(S)
         /\ Len(Tail(s)) = Len(s) - 1
         /\ IsInjective(Tail(s))
         /\ ToSet(Tail(s)) = ToSet(s) \ {Head(s)}
<1>1. /\ Head(s) = s[1] /\ Len(s) \in Nat \ {0}
      /\ Tail(s) \in Seq(S) /\ Len(Tail(s)) = Len(s) - 1
      /\ \A i \in 1..Len(Tail(s)) : Tail(s)[i] = s[i + 1]
  BY HeadTailProperties, EmptySeq
<1>2. \A i, j \in 1..Len(s) : s[i] = s[j] => i = j
  BY InjectiveByIndex
<1>3. Head(s) \in ToSet(s)
  <2>1. 1 \in 1..Len(s)
    BY <1>1
  <2> QED BY <1>1, <2>1, ToSetMember
<1>4. IsInjective(Tail(s))
  <2>1. SUFFICES ASSUME NEW i \in 1..Len(Tail(s)), NEW j \in 1..Len(Tail(s)),
                        Tail(s)[i] = Tail(s)[j]
                 PROVE  i = j
    BY <1>1, InjectiveByIndex
  <2>2. i + 1 \in 1..Len(s) /\ j + 1 \in 1..Len(s) /\ s[i + 1] = s[j + 1]
    BY <1>1, <2>1
  <2> QED BY <1>2, <2>2
<1>5. ASSUME NEW x PROVE x \in ToSet(Tail(s)) <=> x \in ToSet(s) \ {Head(s)}
  <2>1. ASSUME x \in ToSet(Tail(s)) PROVE x \in ToSet(s) \ {Head(s)}
    <3> DEFINE tl == Tail(s)
    <3>0. tl \in Seq(S) /\ x \in ToSet(tl)
      BY <1>1, <2>1
    <3> HIDE DEF tl
    <3>1. PICK i \in 1..Len(tl) : tl[i] = x
      BY <3>0, ToSetMember
    <3> USE DEF tl
    <3>2. i + 1 \in 1..Len(s) /\ s[i + 1] = x /\ 1 \in 1..Len(s)
      BY <1>1, <3>1
    <3>3. x # s[1]
      BY <1>2, <3>2
    <3> QED BY <1>1, <3>2, <3>3, ToSetMember
  <2>2. ASSUME x \in ToSet(s), x # Head(s) PROVE x \in ToSet(Tail(s))
    <3>1. PICK i \in 1..Len(s) : s[i] = x
      BY <2>2, ToSetMember
    <3>2. i - 1 \in 1..Len(Tail(s)) /\ Tail(s)[i - 1] = x
      BY <1>1, <2>2, <3>1
    <3> QED BY <1>1, <3>2, ToSetMember
  <2> QED BY <2>1, <2>2
<1> QED BY <1>1, <1>3, <1>4, <1>5

\* The first occurrence in a duplicate-free list is the occurrence.
LEMMA RemoveFirstIsRemoveAt ==
  ASSUME NEW S, NEW s \in Seq(S), IsInjective(s), NEW k \in 1..Len(s)
  PROVE  RemoveFirst(s, s[k]) = RemoveAt(s, k)
<1> DEFINE I == { i \in 1..Len(s) : s[i] = s[k] }
<1>1. \A i, j \in 1..Len(s) : s[i] = s[j] => i = j
  BY InjectiveByIndex
<1>2. I = {k}
  BY <1>1
<1>3. Min(I) = k
  <2>1. \A x \in {k} : x = k
    OBVIOUS
  <2>2. k =< k
    OBVIOUS
  <2> QED BY <1>2, <2>1, <2>2 DEF Min
<1>4. SelectInSeq(s, LAMBDA v : v = s[k]) = k
  BY <1>2, <1>3 DEF SelectInSeq
<1> QED BY <1>4 DEF RemoveFirst

\* Taking out the element at index k closes the gap.
LEMMA RemoveAtIndex ==
  ASSUME NEW S, NEW s \in Seq(S), NEW k \in 1..Len(s)
  PROVE  /\ RemoveAt(s, k) \in Seq(S)
         /\ Len(RemoveAt(s, k)) = Len(s) - 1
         /\ \A i \in 1..Len(s) - 1 :
              RemoveAt(s, k)[i] = IF i < k THEN s[i] ELSE s[i + 1]
<1> DEFINE r == SubSeq(s, 1, k - 1) \o SubSeq(s, k + 1, Len(s))
<1>2. RemoveAt(s, k) = r
  BY DEF RemoveAt
<1>3. Len(s) \in Nat /\ k \in Nat /\ \A i \in 1..Len(s) : s[i] \in S
  BY LenProperties, ElementOfSeq
<1>4. /\ SubSeq(s, 1, k - 1) \in Seq(S)
      /\ Len(SubSeq(s, 1, k - 1)) = k - 1
      /\ \A i \in 1..(k - 1) : SubSeq(s, 1, k - 1)[i] = s[i]
  BY <1>3
<1>5. /\ SubSeq(s, k + 1, Len(s)) \in Seq(S)
      /\ Len(SubSeq(s, k + 1, Len(s))) = Len(s) - k
      /\ \A i \in 1..(Len(s) - k) : SubSeq(s, k + 1, Len(s))[i] = s[k + i]
  BY <1>3
<1>6. /\ r \in Seq(S)
      /\ Len(r) = Len(s) - 1
      /\ \A i \in 1..Len(r) : r[i] = IF i < k THEN s[i] ELSE s[i + 1]
  <2> DEFINE a == SubSeq(s, 1, k - 1)
             b == SubSeq(s, k + 1, Len(s))
  <2>0. /\ a \in Seq(S) /\ Len(a) = k - 1
        /\ b \in Seq(S) /\ Len(b) = Len(s) - k
        /\ r = a \o b
    BY <1>4, <1>5
  <2>1. /\ r \in Seq(S)
        /\ Len(r) = (k - 1) + (Len(s) - k)
        /\ \A i \in 1..((k - 1) + (Len(s) - k)) :
             r[i] = IF i <= k - 1 THEN SubSeq(s, 1, k - 1)[i]
                                  ELSE SubSeq(s, k + 1, Len(s))[i - (k - 1)]
    <3> HIDE DEF a, b, r
    <3>1. /\ r \in Seq(S)
          /\ Len(r) = Len(a) + Len(b)
          /\ \A i \in 1..(Len(a) + Len(b)) :
               r[i] = IF i <= Len(a) THEN a[i] ELSE b[i - Len(a)]
      BY <2>0, ConcatProperties
    <3> QED BY <2>0, <3>1 DEF a, b
  <2> HIDE DEF r
  <2>2. Len(r) = Len(s) - 1
    BY <1>3, <2>1
  <2>3. ASSUME NEW i \in 1..Len(r)
        PROVE  r[i] = IF i < k THEN s[i] ELSE s[i + 1]
    <3>1. CASE i < k
      BY <1>3, <1>4, <2>1, <2>2, <3>1
    <3>2. CASE ~(i < k)
      <4>1. i - (k - 1) \in 1..(Len(s) - k) /\ k + (i - (k - 1)) = i + 1
        BY <1>3, <2>2, <3>2
      <4>2. r[i] = SubSeq(s, k + 1, Len(s))[i - (k - 1)]
        BY <1>3, <2>1, <2>2, <3>2
      <4> QED BY <1>5, <3>2, <4>1, <4>2
    <3> QED BY <3>1, <3>2
  <2> QED BY <2>1, <2>2, <2>3
<1> QED BY <1>2, <1>6

\* SLIST_REMOVE of the element at index k closes the gap.
LEMMA UnlinkIndex ==
  ASSUME NEW S, NEW s \in Seq(S), IsInjective(s), NEW k \in 1..Len(s)
  PROVE  /\ RemoveFirst(s, s[k]) \in Seq(S)
         /\ Len(RemoveFirst(s, s[k])) = Len(s) - 1
         /\ \A i \in 1..Len(s) - 1 :
              RemoveFirst(s, s[k])[i] = IF i < k THEN s[i] ELSE s[i + 1]
BY RemoveFirstIsRemoveAt, RemoveAtIndex

\* SLIST_REMOVE of an element of a duplicate-free list.
LEMMA UnlinkList ==
  ASSUME NEW S, NEW s \in Seq(S), IsInjective(s), NEW e \in ToSet(s)
  PROVE  /\ RemoveFirst(s, e) \in Seq(S)
         /\ Len(RemoveFirst(s, e)) = Len(s) - 1
         /\ IsInjective(RemoveFirst(s, e))
         /\ ToSet(RemoveFirst(s, e)) = ToSet(s) \ {e}
<1> DEFINE r == RemoveFirst(s, e)
<1>1. PICK k \in 1..Len(s) : s[k] = e
  BY ToSetMember
<1>3. Len(s) \in Nat /\ k \in Nat
  BY LenProperties
<1>6. /\ r \in Seq(S)
      /\ Len(r) = Len(s) - 1
      /\ \A i \in 1..Len(r) : r[i] = IF i < k THEN s[i] ELSE s[i + 1]
  BY <1>1, UnlinkIndex
<1> HIDE DEF r
<1>7. \A i, j \in 1..Len(s) : s[i] = s[j] => i = j
  BY InjectiveByIndex
<1>8. IsInjective(r)
  <2>1. SUFFICES ASSUME NEW i \in 1..Len(r), NEW j \in 1..Len(r), r[i] = r[j]
                 PROVE  i = j
    BY <1>6, InjectiveByIndex
  <2>2. CASE i < k /\ j < k
    BY <1>3, <1>6, <1>7, <2>1, <2>2
  <2>3. CASE ~(i < k) /\ ~(j < k)
    <3>1. i + 1 \in 1..Len(s) /\ j + 1 \in 1..Len(s) /\ s[i + 1] = s[j + 1]
      BY <1>3, <1>6, <2>1, <2>3
    <3> QED BY <1>7, <3>1
  <2>4. CASE i < k /\ ~(j < k)
    <3>1. i \in 1..Len(s) /\ j + 1 \in 1..Len(s) /\ s[i] = s[j + 1]
      BY <1>3, <1>6, <2>1, <2>4
    <3> QED BY <1>3, <1>7, <2>4, <3>1
  <2>5. CASE ~(i < k) /\ j < k
    <3>1. j \in 1..Len(s) /\ i + 1 \in 1..Len(s) /\ s[j] = s[i + 1]
      BY <1>3, <1>6, <2>1, <2>5
    <3> QED BY <1>3, <1>7, <2>5, <3>1
  <2> QED BY <2>2, <2>3, <2>4, <2>5
<1>9. ASSUME NEW x PROVE x \in ToSet(r) <=> x \in ToSet(s) \ {e}
  <2>1. ASSUME x \in ToSet(r) PROVE x \in ToSet(s) \ {e}
    <3>1. PICK i \in 1..Len(r) : r[i] = x
      BY <1>6, <2>1, ToSetMember
    <3>2. PICK j \in 1..Len(s) : s[j] = x /\ j # k
      <4>1. CASE i < k
        BY <1>3, <1>6, <3>1, <4>1
      <4>2. CASE ~(i < k)
        <5>1. i + 1 \in 1..Len(s) /\ s[i + 1] = x /\ i + 1 # k
          BY <1>3, <1>6, <3>1, <4>2
        <5> QED BY <5>1
      <4> QED BY <4>1, <4>2
    <3> QED BY <1>1, <1>7, <3>2, ToSetMember
  <2>2. ASSUME x \in ToSet(s), x # e PROVE x \in ToSet(r)
    <3>1. PICK j \in 1..Len(s) : s[j] = x
      BY <2>2, ToSetMember
    <3>2. \E i \in 1..Len(r) : r[i] = x
      <4>1. CASE j < k
        <5>1. j \in 1..Len(r) /\ r[j] = x
          BY <1>3, <1>6, <3>1, <4>1
        <5> QED BY <5>1
      <4>2. CASE j > k
        <5>1. j - 1 \in 1..Len(r) /\ ~(j - 1 < k) /\ (j - 1) + 1 = j
          BY <1>3, <1>6, <4>2
        <5>2. r[j - 1] = x
          BY <1>6, <3>1, <5>1
        <5> QED BY <5>1, <5>2
      <4> QED BY <1>1, <1>3, <2>2, <3>1, <4>1, <4>2
    <3> QED BY <1>6, <3>2, ToSetMember
  <2> QED BY <2>1, <2>2
<1> QED BY <1>6, <1>8, <1>9 DEF r

-----------------------------------------------------------------------------

\* e is nearer the head of s than f.
Precedes(s, e, f) ==
  \E i, j \in 1..Len(s) : i < j /\ s[i] = e /\ s[j] = f

\* On a duplicate-free list this is a strict total order of the elements.
LEMMA PrecedesOrder ==
  ASSUME NEW S, NEW s \in Seq(S), IsInjective(s)
  PROVE  /\ \A e, f : Precedes(s, e, f) => e \in ToSet(s) /\ f \in ToSet(s)
         /\ \A e : ~Precedes(s, e, e)
         /\ \A e, f, g : Precedes(s, e, f) /\ Precedes(s, f, g) => Precedes(s, e, g)
         /\ \A e, f \in ToSet(s) : e = f \/ Precedes(s, e, f) \/ Precedes(s, f, e)
<1>1. Len(s) \in Nat /\ \A i, j \in 1..Len(s) : s[i] = s[j] => i = j
  BY InjectiveByIndex, LenProperties
<1>2. \A x : x \in ToSet(s) <=> \E i \in 1..Len(s) : s[i] = x
  BY ToSetMember
<1>3. \A e, f : Precedes(s, e, f) => e \in ToSet(s) /\ f \in ToSet(s)
  BY <1>2 DEF Precedes
<1>4. \A e : ~Precedes(s, e, e)
  BY <1>1 DEF Precedes
<1>5. ASSUME NEW e, NEW f, NEW g, Precedes(s, e, f), Precedes(s, f, g)
      PROVE  Precedes(s, e, g)
  <2>1. PICK i, j \in 1..Len(s) : i < j /\ s[i] = e /\ s[j] = f
    BY <1>5 DEF Precedes
  <2>2. PICK k, l \in 1..Len(s) : k < l /\ s[k] = f /\ s[l] = g
    BY <1>5 DEF Precedes
  <2>3. j = k
    BY <1>1, <2>1, <2>2
  <2>4. i < l
    BY <1>1, <2>1, <2>2, <2>3
  <2> QED BY <2>1, <2>2, <2>4 DEF Precedes
<1>6. ASSUME NEW e \in ToSet(s), NEW f \in ToSet(s), e # f
      PROVE  Precedes(s, e, f) \/ Precedes(s, f, e)
  <2>1. PICK i \in 1..Len(s) : s[i] = e
    BY <1>2
  <2>2. PICK j \in 1..Len(s) : s[j] = f
    BY <1>2
  <2>3. i < j \/ j < i
    BY <1>1, <1>6, <2>1, <2>2
  <2> QED BY <2>1, <2>2, <2>3 DEF Precedes
<1> QED BY <1>3, <1>4, <1>5, <1>6

\* The head precedes every other element.
LEMMA HeadPrecedes ==
  ASSUME NEW S, NEW s \in Seq(S), IsInjective(s), s # <<>>
  PROVE  /\ \A e : ~Precedes(s, e, Head(s))
         /\ \A e \in ToSet(s) : e = Head(s) \/ Precedes(s, Head(s), e)
<1>1. Len(s) \in Nat \ {0} /\ Head(s) = s[1]
  BY EmptySeq
<1>2. \A i, j \in 1..Len(s) : s[i] = s[j] => i = j
  BY InjectiveByIndex
<1>3. ASSUME NEW e, Precedes(s, e, Head(s)) PROVE FALSE
  BY <1>1, <1>2, <1>3 DEF Precedes
<1>4. ASSUME NEW e \in ToSet(s), e # Head(s) PROVE Precedes(s, Head(s), e)
  <2>1. Head(s) \in ToSet(s)
    BY TailList
  <2> QED BY <1>3, <1>4, <2>1, PrecedesOrder
<1> QED BY <1>3, <1>4

\* An inserted element precedes all the others, whose order stays.
LEMMA PrecedesCons ==
  ASSUME NEW S, NEW s \in Seq(S), IsInjective(s), NEW n \in S, n \notin ToSet(s),
         NEW e, NEW f
  PROVE  Precedes(<<n>> \o s, e, f) <=> Precedes(s, e, f) \/ (e = n /\ f \in ToSet(s))
<1> DEFINE c == <<n>> \o s
<1>1. /\ c \in Seq(S) /\ Len(c) = Len(s) + 1 /\ IsInjective(c)
      /\ ToSet(c) = {n} \cup ToSet(s)
  BY ConsList
<1>2. Len(s) \in Nat /\ \A i \in 1..Len(c) : c[i] = IF i <= 1 THEN n ELSE s[i - 1]
  <2>1. <<n>> \in Seq(S) /\ Len(<<n>>) = 1 /\ <<n>>[1] = n
    OBVIOUS
  <2> QED BY <1>1, <2>1, ConcatProperties, LenProperties
<1>3. \A x : x \in ToSet(s) <=> \E i \in 1..Len(s) : s[i] = x
  BY ToSetMember
<1> HIDE DEF c
<1>4. ASSUME Precedes(c, e, f)
      PROVE  Precedes(s, e, f) \/ (e = n /\ f \in ToSet(s))
  <2>1. PICK i, j \in 1..Len(c) : i < j /\ c[i] = e /\ c[j] = f
    BY <1>4 DEF Precedes
  <2>2. j - 1 \in 1..Len(s) /\ s[j - 1] = f
    BY <1>1, <1>2, <2>1
  <2>3. CASE i <= 1
    BY <1>2, <1>3, <2>1, <2>2, <2>3
  <2>4. CASE ~(i <= 1)
    <3>1. i - 1 \in 1..Len(s) /\ s[i - 1] = e /\ i - 1 < j - 1
      BY <1>1, <1>2, <2>1, <2>4
    <3> QED BY <2>2, <3>1 DEF Precedes
  <2> QED BY <2>3, <2>4
<1>5. ASSUME Precedes(s, e, f) PROVE Precedes(c, e, f)
  <2>1. PICK i, j \in 1..Len(s) : i < j /\ s[i] = e /\ s[j] = f
    BY <1>5 DEF Precedes
  <2>2. /\ i + 1 \in 1..Len(c) /\ c[i + 1] = e
        /\ j + 1 \in 1..Len(c) /\ c[j + 1] = f
        /\ i + 1 < j + 1
    BY <1>1, <1>2, <2>1
  <2> QED BY <2>2 DEF Precedes
<1>6. ASSUME e = n, f \in ToSet(s) PROVE Precedes(c, e, f)
  <2>1. PICK j \in 1..Len(s) : s[j] = f
    BY <1>3, <1>6
  <2>2. /\ 1 \in 1..Len(c) /\ c[1] = e
        /\ j + 1 \in 1..Len(c) /\ c[j + 1] = f /\ 1 < j + 1
    BY <1>1, <1>2, <1>6, <2>1
  <2> QED BY <2>2 DEF Precedes
<1> QED BY <1>4, <1>5, <1>6 DEF c

\* Unlinking an element leaves the order of the others.
LEMMA PrecedesUnlink ==
  ASSUME NEW S, NEW s \in Seq(S), IsInjective(s), NEW n \in ToSet(s), NEW e, NEW f
  PROVE  Precedes(RemoveFirst(s, n), e, f) <=> Precedes(s, e, f) /\ e # n /\ f # n
<1> DEFINE r == RemoveFirst(s, n)
<1>0. PICK k \in 1..Len(s) : s[k] = n
  BY ToSetMember
<1>1. /\ r \in Seq(S) /\ Len(r) = Len(s) - 1 /\ Len(s) \in Nat
      /\ \A i \in 1..Len(r) : r[i] = IF i < k THEN s[i] ELSE s[i + 1]
  BY <1>0, UnlinkIndex, LenProperties
<1>2. \A i, j \in 1..Len(s) : s[i] = s[j] => i = j
  BY InjectiveByIndex
<1> HIDE DEF r
<1>3. ASSUME Precedes(r, e, f) PROVE Precedes(s, e, f) /\ e # n /\ f # n
  <2>1. PICK i, j \in 1..Len(r) : i < j /\ r[i] = e /\ r[j] = f
    BY <1>3 DEF Precedes
  <2> DEFINE up(x) == IF x < k THEN x ELSE x + 1
  <2>2. /\ up(i) \in 1..Len(s) /\ s[up(i)] = e /\ up(i) # k
        /\ up(j) \in 1..Len(s) /\ s[up(j)] = f /\ up(j) # k
        /\ up(i) < up(j)
    BY <1>1, <2>1
  <2> QED BY <1>0, <1>2, <2>2 DEF Precedes
<1>4. ASSUME Precedes(s, e, f), e # n, f # n PROVE Precedes(r, e, f)
  <2>1. PICK i, j \in 1..Len(s) : i < j /\ s[i] = e /\ s[j] = f
    BY <1>4 DEF Precedes
  <2> DEFINE down(x) == IF x < k THEN x ELSE x - 1
  <2>2. i # k /\ j # k
    BY <1>0, <1>4, <2>1
  <2>3. /\ down(i) \in 1..Len(r) /\ r[down(i)] = e
        /\ down(j) \in 1..Len(r) /\ r[down(j)] = f
        /\ down(i) < down(j)
    BY <1>1, <2>1, <2>2
  <2> QED BY <2>3 DEF Precedes
<1> QED BY <1>3, <1>4 DEF r

\* An element appended follows all the others, whose order stays.
LEMMA PrecedesAppend ==
  ASSUME NEW S, NEW s \in Seq(S), NEW n \in S, NEW e, NEW f
  PROVE  Precedes(Append(s, n), e, f) <=>
           Precedes(s, e, f) \/ (e \in ToSet(s) /\ f = n)
<1> DEFINE a == Append(s, n)
<1>1. /\ Len(a) = Len(s) + 1 /\ Len(s) \in Nat
      /\ \A i \in 1..Len(s) : a[i] = s[i]
      /\ a[Len(s) + 1] = n
  BY AppendProperties, LenProperties
<1>2. \A x : x \in ToSet(s) <=> \E i \in 1..Len(s) : s[i] = x
  BY ToSetMember
<1> HIDE DEF a
<1>3. ASSUME Precedes(a, e, f)
      PROVE  Precedes(s, e, f) \/ (e \in ToSet(s) /\ f = n)
  <2>1. PICK i, j \in 1..Len(a) : i < j /\ a[i] = e /\ a[j] = f
    BY <1>3 DEF Precedes
  <2>2. i \in 1..Len(s) /\ s[i] = e
    BY <1>1, <2>1
  <2>3. CASE j = Len(s) + 1
    BY <1>1, <1>2, <2>1, <2>2, <2>3
  <2>4. CASE j # Len(s) + 1
    <3>1. j \in 1..Len(s) /\ s[j] = f
      BY <1>1, <2>1, <2>4
    <3> QED BY <2>1, <2>2, <3>1 DEF Precedes
  <2> QED BY <2>3, <2>4
<1>4. ASSUME Precedes(s, e, f) PROVE Precedes(a, e, f)
  <2>1. PICK i, j \in 1..Len(s) : i < j /\ s[i] = e /\ s[j] = f
    BY <1>4 DEF Precedes
  <2>2. i \in 1..Len(a) /\ j \in 1..Len(a) /\ a[i] = e /\ a[j] = f
    BY <1>1, <2>1
  <2> QED BY <2>1, <2>2 DEF Precedes
<1>5. ASSUME e \in ToSet(s), f = n PROVE Precedes(a, e, f)
  <2>1. PICK i \in 1..Len(s) : s[i] = e
    BY <1>2, <1>5
  <2>2. /\ i \in 1..Len(a) /\ a[i] = e
        /\ Len(s) + 1 \in 1..Len(a) /\ a[Len(s) + 1] = f
        /\ i < Len(s) + 1
    BY <1>1, <1>5, <2>1
  <2> QED BY <2>2 DEF Precedes
<1> QED BY <1>3, <1>4, <1>5 DEF a

\* SLIST_NEXT and TAILQ_NEXT: on a duplicate-free list the last element
\* precedes nothing, any other precedes the element at the next index and,
\* beyond it, what that element precedes.
LEMMA Successor ==
  ASSUME NEW S, NEW s \in Seq(S), IsInjective(s), NEW k \in 1..Len(s)
  PROVE  /\ k = Len(s) => \A f : ~Precedes(s, s[k], f)
         /\ k # Len(s) =>
              /\ k + 1 \in 1..Len(s)
              /\ \A f : Precedes(s, s[k], f) <=>
                          f = s[k + 1] \/ Precedes(s, s[k + 1], f)
<1>1. Len(s) \in Nat /\ \A i, j \in 1..Len(s) : s[i] = s[j] => i = j
  BY InjectiveByIndex, LenProperties
<1>3. ASSUME k = Len(s), NEW f, Precedes(s, s[k], f) PROVE FALSE
  <2>1. PICK i, j \in 1..Len(s) : i < j /\ s[i] = s[k] /\ s[j] = f
    BY <1>3 DEF Precedes
  <2>2. i = k
    BY <1>1, <2>1
  <2> QED BY <1>1, <1>3, <2>1, <2>2
<1>4. ASSUME k # Len(s)
      PROVE  /\ k + 1 \in 1..Len(s)
             /\ \A f : Precedes(s, s[k], f) <=>
                         f = s[k + 1] \/ Precedes(s, s[k + 1], f)
  <2>1. k + 1 \in 1..Len(s)
    BY <1>1, <1>4
  <2>2. ASSUME NEW f, Precedes(s, s[k], f)
        PROVE  f = s[k + 1] \/ Precedes(s, s[k + 1], f)
    <3>1. PICK i, j \in 1..Len(s) : i < j /\ s[i] = s[k] /\ s[j] = f
      BY <2>2 DEF Precedes
    <3>2. i = k
      BY <1>1, <3>1
    <3>3. j = k + 1 \/ k + 1 < j
      BY <1>1, <3>1, <3>2
    <3> QED BY <2>1, <3>1, <3>3 DEF Precedes
  <2>3. Precedes(s, s[k], s[k + 1])
    <3>1. k < k + 1
      BY <1>1
    <3> QED BY <2>1, <3>1 DEF Precedes
  <2>4. ASSUME NEW f, Precedes(s, s[k + 1], f) PROVE Precedes(s, s[k], f)
    BY <2>3, <2>4, PrecedesOrder
  <2> QED BY <2>1, <2>2, <2>3, <2>4
<1> QED BY <1>3, <1>4

\* A stack: what pushing an element does to the set.
LEMMA PushList ==
  ASSUME NEW S, NEW s \in Seq(S), NEW e \in S
  PROVE  /\ Append(s, e) \in Seq(S)
         /\ Append(s, e) # <<>>
         /\ Len(Append(s, e)) = Len(s) + 1
         /\ ToSet(Append(s, e)) = ToSet(s) \cup {e}
         /\ IsInjective(s) /\ e \notin ToSet(s) => IsInjective(Append(s, e))
<1> DEFINE a == Append(s, e)
<1>1. /\ a \in Seq(S) /\ Len(a) = Len(s) + 1 /\ Len(s) \in Nat
      /\ \A i \in 1..Len(s) : a[i] = s[i]
      /\ a[Len(s) + 1] = e
  BY AppendProperties, LenProperties
<1>0. a # <<>>
  BY <1>1, EmptySeq
<1> HIDE DEF a
<1>2. ASSUME NEW x PROVE x \in ToSet(a) <=> x \in ToSet(s) \cup {e}
  <2>1. ASSUME x \in ToSet(a) PROVE x \in ToSet(s) \cup {e}
    <3>1. PICK i \in 1..Len(a) : a[i] = x
      BY <1>1, <2>1, ToSetMember
    <3>2. i \in 1..Len(s) \/ i = Len(s) + 1
      BY <1>1
    <3> QED BY <1>1, <3>1, <3>2, ToSetMember
  <2>2. ASSUME x \in ToSet(s) PROVE x \in ToSet(a)
    <3>1. PICK i \in 1..Len(s) : s[i] = x
      BY <2>2, ToSetMember
    <3>2. i \in 1..Len(a) /\ a[i] = x
      BY <1>1, <3>1
    <3> QED BY <1>1, <3>2, ToSetMember
  <2>3. e \in ToSet(a)
    <3>1. Len(s) + 1 \in 1..Len(a)
      BY <1>1
    <3> QED BY <1>1, <3>1, ToSetMember
  <2> QED BY <2>1, <2>2, <2>3
<1>3. ASSUME IsInjective(s), e \notin ToSet(s) PROVE IsInjective(a)
  <2>1. \A i, j \in 1..Len(s) : s[i] = s[j] => i = j
    BY <1>3, InjectiveByIndex
  <2>2. \A i \in 1..Len(s) : s[i] # e
    BY <1>3, ToSetMember
  <2>3. \A i, j \in 1..Len(a) : a[i] = a[j] => i = j
    <3>1. \A i \in 1..Len(a) : i \in 1..Len(s) \/ i = Len(s) + 1
      BY <1>1
    <3> QED BY <1>1, <2>1, <2>2, <3>1
  <2> QED BY <1>1, <2>3, InjectiveByIndex
<1> QED BY <1>0, <1>1, <1>2, <1>3 DEF a

\* The same for popping.
LEMMA PopList ==
  ASSUME NEW S, NEW s \in Seq(S), s # <<>>, IsInjective(s)
  PROVE  /\ Last(s) \in ToSet(s)
         /\ Front(s) \in Seq(S)
         /\ ToSet(Front(s)) = ToSet(s) \ {Last(s)}
         /\ IsInjective(Front(s))
<1> DEFINE f == Front(s)
<1>1. Len(s) \in Nat \ {0} /\ Last(s) = s[Len(s)]
  BY EmptySeq, LenProperties DEF Last
<1>2. /\ f \in Seq(S) /\ Len(f) = Len(s) - 1
      /\ \A i \in 1..Len(s) - 1 : f[i] = s[i]
  <2>1. \A i \in 1..Len(s) : s[i] \in S
    BY ElementOfSeq
  <2>2. PICK k \in 1..Len(s) : k = Len(s)
    BY <1>1
  <2>3. /\ SubSeq(s, 1, k - 1) \in Seq(S)
        /\ Len(SubSeq(s, 1, k - 1)) = k - 1
        /\ \A i \in 1..(k - 1) : SubSeq(s, 1, k - 1)[i] = s[i]
    <3>1. Len(s) \in Nat /\ k \in Nat
      BY <1>1
    <3> QED BY <2>1, <3>1
  <2> QED BY <2>2, <2>3 DEF Front
<1> HIDE DEF f
<1>3. \A i, j \in 1..Len(s) : s[i] = s[j] => i = j
  BY InjectiveByIndex
<1>4. Last(s) \in ToSet(s)
  BY <1>1, ToSetMember
<1>5. ASSUME NEW x PROVE x \in ToSet(f) <=> x \in ToSet(s) \ {Last(s)}
  <2>1. ASSUME x \in ToSet(f) PROVE x \in ToSet(s) \ {Last(s)}
    <3>1. PICK i \in 1..Len(f) : f[i] = x
      BY <1>2, <2>1, ToSetMember
    <3>2. i \in 1..Len(s) /\ i # Len(s) /\ s[i] = x
      BY <1>1, <1>2, <3>1
    <3> QED BY <1>1, <1>3, <3>2, ToSetMember
  <2>2. ASSUME x \in ToSet(s), x # Last(s) PROVE x \in ToSet(f)
    <3>1. PICK i \in 1..Len(s) : s[i] = x
      BY <2>2, ToSetMember
    <3>2. i \in 1..Len(f) /\ f[i] = x
      BY <1>1, <1>2, <2>2, <3>1
    <3> QED BY <1>2, <3>2, ToSetMember
  <2> QED BY <2>1, <2>2
<1>6. IsInjective(f)
  <2>1. \A i \in 1..Len(f) : i \in 1..Len(s) /\ f[i] = s[i]
    BY <1>1, <1>2
  <2> QED BY <1>2, <1>3, <2>1, InjectiveByIndex
<1> QED BY <1>2, <1>4, <1>5, <1>6 DEF f

-----------------------------------------------------------------------------
(* l is s without its element at k. *)

\* l is s without its k-th element.
LacksAt(S, l, s, k) ==
  /\ l \in Seq(S) /\ s \in Seq(S) /\ k \in DOMAIN s
  /\ Len(l) = Len(s) - 1
  /\ \A i \in 1..Len(s) - 1 : l[i] = IF i < k THEN s[i] ELSE s[i + 1]

\* Where the element at i of l is in s, and back.
There(k, i) == IF i < k THEN i ELSE i + 1
Back(k, j) == IF j < k THEN j ELSE j - 1

\* There and Back are inverse but for the place k.
LEMMA LacksAtPlaces ==
  ASSUME NEW S, NEW l, NEW s, NEW k, LacksAt(S, l, s, k)
  PROVE  /\ \A i \in DOMAIN l : /\ There(k, i) \in DOMAIN s /\ There(k, i) # k
                                /\ l[i] = s[There(k, i)]
         /\ \A j \in DOMAIN s : j # k => /\ Back(k, j) \in DOMAIN l
                                         /\ l[Back(k, j)] = s[j]
         /\ \A i, j \in DOMAIN l : There(k, i) = There(k, j) => i = j
         /\ \A i, j \in DOMAIN s : i # k /\ j # k /\ Back(k, i) = Back(k, j) => i = j
<1>1. /\ Len(s) \in Nat /\ k \in 1..Len(s) /\ DOMAIN s = 1..Len(s)
      /\ DOMAIN l = 1..(Len(s) - 1)
  BY LenProperties DEF LacksAt
<1>2. \A i \in 1..(Len(s) - 1) : l[i] = IF i < k THEN s[i] ELSE s[i + 1]
  BY DEF LacksAt
<1>3. PICK n \in Nat : n = Len(s)
  BY <1>1
<1>4. k \in 1..n /\ DOMAIN s = 1..n /\ DOMAIN l = 1..(n - 1)
  BY <1>1, <1>3
<1>5. /\ \A i \in 1..(n - 1) : There(k, i) \in 1..n /\ There(k, i) # k
      /\ \A j \in 1..n : j # k => /\ Back(k, j) \in 1..(n - 1)
                                  /\ There(k, Back(k, j)) = j
      /\ \A i, j \in 1..(n - 1) : There(k, i) = There(k, j) => i = j
      /\ \A i, j \in 1..n : i # k /\ j # k /\ Back(k, i) = Back(k, j) => i = j
  BY <1>4 DEF There, Back
<1>6. \A i \in 1..(n - 1) : l[i] = s[There(k, i)]
  BY <1>2, <1>3 DEF There
<1> QED BY <1>4, <1>5, <1>6

\* lz_kvmap_remove and lz_tailq_elem_remove.
LEMMA RemoveAtLacks ==
  ASSUME NEW S, NEW s \in Seq(S), NEW k \in DOMAIN s
  PROVE  LacksAt(S, RemoveAt(s, k), s, k)
<1>1. k \in 1..Len(s)
  BY LenProperties
<1> QED BY <1>1, RemoveAtIndex DEF LacksAt

\* The emptying loops.
LEMMA TailLacks ==
  ASSUME NEW S, NEW s \in Seq(S), s # <<>>
  PROVE  /\ 1 \in DOMAIN s /\ Head(s) = s[1]
         /\ LacksAt(S, Tail(s), s, 1)
<1>1. /\ Len(s) \in Nat \ {0} /\ DOMAIN s = 1..Len(s) /\ Head(s) = s[1]
      /\ Tail(s) \in Seq(S) /\ Len(Tail(s)) = Len(s) - 1
      /\ \A i \in 1..Len(Tail(s)) : Tail(s)[i] = s[i + 1]
  BY HeadTailProperties, EmptySeq, LenProperties
<1> QED BY <1>1 DEF LacksAt

\* _lz_kvmap_add, which puts the member first.
LEMMA PrependLacks ==
  ASSUME NEW S, NEW s \in Seq(S), NEW m \in S
  PROVE  /\ LacksAt(S, s, <<m>> \o s, 1)
         /\ (<<m>> \o s)[1] = m
<1> DEFINE c == <<m>> \o s
<1>1. /\ <<m>> \in Seq(S) /\ Len(<<m>>) = 1 /\ <<m>>[1] = m
  OBVIOUS
<1>2. /\ c \in Seq(S)
      /\ Len(c) = Len(s) + 1
      /\ \A i \in 1..Len(s) + 1 : c[i] = IF i <= 1 THEN m ELSE s[i - 1]
  BY <1>1, ConcatProperties, LenProperties
<1>3. Len(s) \in Nat /\ DOMAIN c = 1..(Len(s) + 1)
  BY <1>2, LenProperties
<1> HIDE DEF c
<1>4. c[1] = m /\ \A i \in 1..Len(s) : s[i] = c[i + 1]
  BY <1>2, <1>3
<1>5. 1 \in DOMAIN c /\ Len(s) = Len(c) - 1
  BY <1>2, <1>3
<1>6. \A i \in 1..Len(c) - 1 : s[i] = IF i < 1 THEN c[i] ELSE c[i + 1]
  BY <1>2, <1>3, <1>4
<1> QED BY <1>2, <1>4, <1>5, <1>6 DEF c, LacksAt

\* lz_tailq_append, which puts it last.
LEMMA AppendLacks ==
  ASSUME NEW S, NEW s \in Seq(S), NEW m \in S
  PROVE  /\ LacksAt(S, s, Append(s, m), Len(s) + 1)
         /\ Append(s, m)[Len(s) + 1] = m
<1> DEFINE a == Append(s, m)
<1>1. /\ a \in Seq(S) /\ Len(a) = Len(s) + 1 /\ Len(s) \in Nat
      /\ \A i \in 1..Len(s) : a[i] = s[i]
      /\ a[Len(s) + 1] = m
  BY AppendProperties, LenProperties
<1>2. DOMAIN a = 1..(Len(s) + 1)
  BY <1>1, LenProperties
<1> HIDE DEF a
<1>3. Len(s) + 1 \in DOMAIN a /\ Len(s) = Len(a) - 1
  BY <1>1, <1>2
<1>4. \A i \in 1..Len(a) - 1 : s[i] = IF i < Len(s) + 1 THEN a[i] ELSE a[i + 1]
  BY <1>1
<1> QED BY <1>1, <1>3, <1>4 DEF a, LacksAt

\* The first n elements of a list, and one after them.
LEMMA ReplaceEnd ==
  ASSUME NEW S, NEW s \in Seq(S), NEW n \in 0..Len(s), NEW e \in S,
         NEW t, t = SubSeq(s, 1, n) \o <<e>>
  PROVE  /\ t \in Seq(S) /\ Len(t) = n + 1
         /\ \A i \in 1..n : t[i] = s[i]
         /\ t[n + 1] = e
<1> DEFINE h == SubSeq(s, 1, n)
           u == h \o <<e>>
<1>1. Len(s) \in Nat /\ n \in Nat /\ n <= Len(s)
  BY LenProperties
<1>2. h \in Seq(S) /\ Len(h) = n /\ \A i \in 1..n : h[i] = s[i]
  <2>1. \A i \in 1..Len(s) : s[i] \in S
    BY ElementOfSeq
  <2>2. \A i \in 1..n : i \in 1..Len(s)
    BY <1>1
  <2> QED BY <1>1, <2>1, <2>2
<1>3. <<e>> \in Seq(S) /\ Len(<<e>>) = 1 /\ <<e>>[1] = e
  OBVIOUS
<1> HIDE DEF h
<1>4. /\ u \in Seq(S) /\ Len(u) = n + 1
      /\ \A i \in 1..(n + 1) : u[i] = IF i <= n THEN h[i] ELSE <<e>>[i - n]
  BY <1>2, <1>3, ConcatProperties
<1> HIDE DEF u
<1>5. u[n + 1] = e
  <2>1. n + 1 \in 1..(n + 1) /\ ~(n + 1 <= n) /\ (n + 1) - n = 1
    BY <1>1
  <2> QED BY <1>3, <1>4, <2>1
<1>6. \A i \in 1..n : u[i] = s[i]
  <2>1. \A i \in 1..n : i \in 1..(n + 1) /\ i <= n
    BY <1>1
  <2> QED BY <1>2, <1>4, <2>1
<1> QED BY <1>4, <1>5, <1>6 DEF u, h

\* A list without its last element.
LEMMA FrontElements ==
  ASSUME NEW S, NEW s \in Seq(S), s # <<>>
  PROVE  /\ Front(s) \in Seq(S) /\ Len(Front(s)) = Len(s) - 1
         /\ \A i \in 1..(Len(s) - 1) : Front(s)[i] = s[i]
<1>1. Len(s) \in Nat \ {0} /\ Front(s) = SubSeq(s, 1, Len(s) - 1)
  BY EmptySeq, LenProperties DEF Front
<1>2. PICK n \in Nat : n = Len(s) - 1
  BY <1>1
<1>3. \A i \in 1..Len(s) : s[i] \in S
  BY ElementOfSeq
<1>4. \A i \in 1..n : i \in 1..Len(s)
  BY <1>1, <1>2
<1>5. /\ SubSeq(s, 1, n) \in Seq(S) /\ Len(SubSeq(s, 1, n)) = n
      /\ \A i \in 1..n : SubSeq(s, 1, n)[i] = s[i]
  BY <1>2, <1>3, <1>4
<1> QED BY <1>1, <1>2, <1>5

-----------------------------------------------------------------------------
(* Induction. *)

\* Induction on the naturals, over a set.  Were n missing, adding one would
\* map the members up to n into themselves, one to one and never to 0.
LEMMA SetInduction ==
  ASSUME NEW P \in SUBSET Nat, 0 \in P, \A n \in P : n + 1 \in P
  PROVE  P = Nat
<1> SUFFICES ASSUME NEW n \in Nat, n \notin P
             PROVE  FALSE
  OBVIOUS
<1> DEFINE A == { k \in P : k <= n }
           f == [k \in A |-> k + 1]
<1>1. A \in SUBSET (0..n) /\ 0 \in A
  <2>1. ASSUME NEW k \in A PROVE k \in 0..n
    <3>1. k \in Nat /\ k <= n
      OBVIOUS
    <3> QED BY <3>1
  <2>2. A \subseteq 0..n
    BY <2>1
  <2> QED BY <2>2
<1>2. IsFiniteSet(A) /\ Cardinality(A) \in Nat
  <2> HIDE DEF A
  <2>1. IsFiniteSet(0..n)
    BY FS_Interval
  <2>2. IsFiniteSet(A)
    BY <1>1, <2>1, FS_Subset
  <2> QED BY <2>2, FS_CardinalityType
<1>3. IsFiniteSet(A \ {0}) /\ Cardinality(A \ {0}) = Cardinality(A) - 1
  BY <1>1, <1>2, FS_RemoveElement
<1>4. f \in [A -> A \ {0}]
  <2>1. ASSUME NEW k \in A PROVE k + 1 \in A \ {0}
    <3>1. k \in Nat /\ k # n /\ k <= n /\ k + 1 \in P
      OBVIOUS
    <3> QED BY <3>1
  <2> QED BY <2>1
<1>5. \A k, l \in A : f[k] = f[l] => k = l
  OBVIOUS
<1> HIDE DEF A, f
<1>6. Cardinality(A \ {0}) < Cardinality(A)
  BY <1>2, <1>3
<1>7. \E k, l \in A : k # l /\ f[k] = f[l]
  BY <1>2, <1>3, <1>4, <1>6, FS_PigeonHole
<1> QED BY <1>5, <1>7

\* A set of naturals has a least member.
LEMMA LeastNatural ==
  ASSUME NEW T \in SUBSET Nat, T # {}
  PROVE  \E m \in T : \A k \in T : m <= k
<1> DEFINE P == { n \in Nat : \A k \in T : n <= k }
<1>1. SUFFICES ASSUME \A m \in T : \E k \in T : ~(m <= k)
               PROVE  FALSE
  OBVIOUS
<1>2. 0 \in P
  OBVIOUS
<1>3. ASSUME NEW n \in P PROVE n + 1 \in P
  <2>1. n \notin T
    BY <1>1
  <2>2. \A k \in T : n <= k /\ n # k /\ k \in Nat
    BY <2>1
  <2> QED BY <2>2
<1>4. P = Nat
  <2> HIDE DEF P
  <2>1. P \in SUBSET Nat
    BY DEF P
  <2> QED BY <1>2, <1>3, <2>1, SetInduction
<1>5. PICK k \in T : TRUE
  OBVIOUS
<1>6. k \in Nat /\ k + 1 \in Nat
  BY <1>5
<1>7. k + 1 \in P
  <2> HIDE DEF P
  <2> QED BY <1>4, <1>6
<1>8. k + 1 <= k
  BY <1>5, <1>7
<1> QED BY <1>6, <1>8

\* Induction up to a bound.
LEMMA BoundedInduction ==
  ASSUME NEW N \in Nat, NEW P, 0 \in P, \A k \in 0..N : k \in P /\ k < N => k + 1 \in P
  PROVE  \A k \in 0..N : k \in P
<1> DEFINE Q == { n \in Nat : n <= N => n \in P }
<1>1. Q \in SUBSET Nat /\ 0 \in Q
  OBVIOUS
<1>2. ASSUME NEW n \in Q PROVE n + 1 \in Q
  <2>1. n \in Nat /\ n + 1 \in Nat /\ (n <= N => n \in P)
    OBVIOUS
  <2>2. n + 1 <= N => n \in 0..N /\ n < N /\ n <= N
    BY <2>1
  <2> QED BY <2>1, <2>2
<1> HIDE DEF Q
<1>3. Q = Nat
  BY <1>1, <1>2, SetInduction
<1>4. \A k \in 0..N : k \in Nat /\ k <= N
  OBVIOUS
<1> QED BY <1>3, <1>4 DEF Q

\* f starts from c, and each of its N values that follow comes from the one
\* before it.
Steps(G, N, R) == G \in [1..N -> [R -> R]]
\* f is G applied step by step, from c on.
Iterates(f, G, N, R, c) ==
  f \in [0..N -> R] /\ f[0] = c /\ \A k \in 1..N : f[k] = G[k][f[k - 1]]

\* There is one: what a recursive function over 0..N is defined by.
LEMMA Iterated ==
  ASSUME NEW N \in Nat, NEW R, NEW c \in R, NEW G, Steps(G, N, R)
  PROVE  \E f : Iterates(f, G, N, R, c)
<1> DEFINE Solves(n, f) == f[0] = c /\ \A k \in 1..n : f[k] = G[k][f[k - 1]]
           P == { n \in 0..N : \E f \in [0..n -> R] : Solves(n, f) }
<1>0. G \in [1..N -> [R -> R]]
  BY DEF Steps
<1>1. 0 \in P
  <2>1. [k \in 0..0 |-> c] \in [0..0 -> R] /\ 0 \in 0..N /\ 1..0 = {} /\ 0 \in 0..0
    OBVIOUS
  <2>2. Solves(0, [k \in 0..0 |-> c])
    BY <2>1
  <2> QED BY <2>1, <2>2
<1>2. ASSUME NEW n \in 0..N, n \in P, n < N PROVE n + 1 \in P
  <2>1. PICK f \in [0..n -> R] : Solves(n, f)
    BY <1>2
  <2>2. n \in Nat /\ n + 1 \in 1..N /\ n + 1 \in 0..N /\ n \in 0..n
    BY <1>2
  <2> DEFINE g == [k \in 0..(n + 1) |-> IF k = n + 1 THEN G[n + 1][f[n]] ELSE f[k]]
  <2>3. G[n + 1][f[n]] \in R
    BY <1>0, <2>1, <2>2
  <2>4. \A k \in 0..(n + 1) : k = n + 1 \/ k \in 0..n
    BY <2>2
  <2>5. g \in [0..(n + 1) -> R]
    BY <2>1, <2>3, <2>4
  <2>6. \A k \in 0..n : g[k] = f[k]
    BY <2>2
  <2>7. g[n + 1] = G[n + 1][f[n]]
    BY <2>2
  <2> HIDE DEF g
  <2>8. Solves(n + 1, g)
    <3>1. 0 \in 0..n
      BY <2>2
    <3>2. \A k \in 1..(n + 1) : \/ k = n + 1 /\ k - 1 = n
                                \/ k \in 1..n /\ k \in 0..n /\ k - 1 \in 0..n
      BY <2>2
    <3> QED BY <2>1, <2>2, <2>6, <2>7, <3>1, <3>2
  <2> QED BY <2>2, <2>5, <2>8
<1> HIDE DEF P
<1>3. N \in 0..N
  OBVIOUS
<1>4. N \in P
  BY <1>1, <1>2, <1>3, BoundedInduction
<1> QED BY <1>4 DEF P, Iterates

-----------------------------------------------------------------------------
(* Lists of whatever elements, at their end. *)

\* A sequence of some set's elements.
IsList(s) == \E S : s \in Seq(S)

\* One element more at the end,
LEMMA ListAppend ==
  ASSUME NEW s, IsList(s), NEW e
  PROVE  /\ IsList(Append(s, e)) /\ Len(s) \in Nat /\ Len(Append(s, e)) = Len(s) + 1
         /\ \A i \in 1..Len(s) : Append(s, e)[i] = s[i]
         /\ Append(s, e)[Len(s) + 1] = e
         /\ Last(Append(s, e)) = e /\ Front(Append(s, e)) = s
<1>1. PICK S : s \in Seq(S)
  BY DEF IsList
<1>2. PICK R : R = S \cup {e}
  OBVIOUS
<1>3. s \in Seq(R) /\ e \in R
  <2>1. \A x \in S : x \in R
    BY <1>2
  <2> QED BY <1>1, <1>2, <2>1
<1>4. /\ Append(s, e) \in Seq(R) /\ Len(s) \in Nat /\ Len(Append(s, e)) = Len(s) + 1
      /\ \A i \in 1..Len(s) : Append(s, e)[i] = s[i]
      /\ Append(s, e)[Len(s) + 1] = e
  BY <1>3
<1>5. Last(Append(s, e)) = e
  BY <1>4 DEF Last
<1>6. Front(Append(s, e)) = s
  <2>1. Front(Append(s, e)) = SubSeq(Append(s, e), 1, Len(s))
    BY <1>4 DEF Front
  <2>2. SubSeq(Append(s, e), 1, Len(s)) = s
    BY <1>3
  <2> QED BY <2>1, <2>2
<1> QED BY <1>4, <1>5, <1>6 DEF IsList

\* or one less.
LEMMA ListFront ==
  ASSUME NEW s, IsList(s), s # <<>>
  PROVE  /\ IsList(Front(s)) /\ Len(s) \in Nat \ {0} /\ Len(Front(s)) = Len(s) - 1
         /\ \A i \in 1..(Len(s) - 1) : Front(s)[i] = s[i]
         /\ Last(s) = s[Len(s)]
<1>1. PICK S : s \in Seq(S)
  BY DEF IsList
<1>2. Len(s) \in Nat \ {0}
  BY <1>1, EmptySeq, LenProperties
<1>3. /\ Front(s) \in Seq(S) /\ Len(Front(s)) = Len(s) - 1
      /\ \A i \in 1..(Len(s) - 1) : Front(s)[i] = s[i]
  BY <1>1, FrontElements
<1> QED BY <1>2, <1>3 DEF IsList, Last

\* Keeping the first n elements, and what comes after them.
LEMMA KeepOne ==
  ASSUME NEW S, NEW s \in Seq(S), NEW n \in 0..Len(s), NEW a \in S,
         NEW t, t = SubSeq(s, 1, n) \o <<a>> \/ t = Append(SubSeq(s, 1, n), a)
  PROVE  /\ t \in Seq(S) /\ Len(t) = n + 1
         /\ \A i \in 1..n : t[i] = s[i]
         /\ t[n + 1] = a
<1>1. Append(SubSeq(s, 1, n), a) = SubSeq(s, 1, n) \o <<a>>
  OBVIOUS
<1>2. t = SubSeq(s, 1, n) \o <<a>>
  BY <1>1
<1> QED BY <1>2, ReplaceEnd

\* The first n elements with two more behind them.
LEMMA KeepTwo ==
  ASSUME NEW S, NEW s \in Seq(S), NEW n \in 0..Len(s), NEW a \in S, NEW b \in S,
         NEW t, t = SubSeq(s, 1, n) \o <<a, b>>
  PROVE  /\ t \in Seq(S) /\ Len(t) = n + 2
         /\ \A i \in 1..n : t[i] = s[i]
         /\ t[n + 1] = a /\ t[n + 2] = b
<1> DEFINE h == SubSeq(s, 1, n)
           e == <<a, b>>
<1>1. Len(s) \in Nat /\ n \in Nat /\ n <= Len(s)
  BY LenProperties
<1>2. h \in Seq(S) /\ Len(h) = n /\ \A i \in 1..n : h[i] = s[i]
  <2>1. \A i \in 1..Len(s) : s[i] \in S
    BY ElementOfSeq
  <2>2. \A i \in 1..n : i \in 1..Len(s)
    BY <1>1
  <2> QED BY <1>1, <2>1, <2>2
<1>3. e \in Seq(S) /\ Len(e) = 2 /\ e[1] = a /\ e[2] = b
  OBVIOUS
<1> HIDE DEF h, e
<1>4. /\ h \o e \in Seq(S) /\ Len(h \o e) = n + 2
      /\ \A i \in 1..(n + 2) : (h \o e)[i] = IF i <= n THEN h[i] ELSE e[i - n]
  <2>1. /\ h \o e \in Seq(S) /\ Len(h \o e) = Len(h) + Len(e)
        /\ \A i \in 1..(Len(h) + Len(e)) :
             (h \o e)[i] = IF i <= Len(h) THEN h[i] ELSE e[i - Len(h)]
    BY <1>2, <1>3, ConcatProperties
  <2> QED BY <1>2, <1>3, <2>1
<1>5. t = h \o e
  BY DEF h, e
<1>6. t[n + 1] = a /\ t[n + 2] = b
  <2>1. n + 1 \in 1..(n + 2) /\ n + 2 \in 1..(n + 2) /\ ~(n + 1 <= n) /\ ~(n + 2 <= n)
        /\ (n + 1) - n = 1 /\ (n + 2) - n = 2
    BY <1>1
  <2> QED BY <1>3, <1>4, <1>5, <2>1
<1>7. \A i \in 1..n : t[i] = s[i]
  <2>1. \A i \in 1..n : i \in 1..(n + 2) /\ i <= n
    BY <1>1
  <2> QED BY <1>2, <1>4, <1>5, <2>1
<1> QED BY <1>4, <1>5, <1>6, <1>7

\* Its last element replaced.
LEMMA ReplaceLast ==
  ASSUME NEW s, IsList(s), s # <<>>, NEW e
  PROVE  /\ IsList(Append(Front(s), e)) /\ Len(Append(Front(s), e)) = Len(s)
         /\ Append(Front(s), e)[Len(s)] = e
         /\ \A i \in 1..(Len(s) - 1) : Append(Front(s), e)[i] = s[i]
<1> DEFINE d == Len(s)
<1>1. d \in Nat \ {0} /\ IsList(Front(s)) /\ Len(Front(s)) = d - 1
      /\ \A i \in 1..(d - 1) : Front(s)[i] = s[i]
  BY ListFront
<1>2. PICK k \in Nat : k = d - 1
  BY <1>1
<1>2a. PICK f : f = Front(s)
  OBVIOUS
<1>3. IsList(f) /\ Len(f) = k /\ \A i \in 1..k : f[i] = s[i]
  BY <1>1, <1>2, <1>2a
<1>4. /\ IsList(Append(f, e)) /\ Len(Append(f, e)) = k + 1
      /\ \A i \in 1..k : Append(f, e)[i] = f[i]
      /\ Append(f, e)[k + 1] = e
  BY <1>3, ListAppend
<1>5. k + 1 = d
  BY <1>1, <1>2
<1> QED BY <1>2, <1>2a, <1>3, <1>4, <1>5

\* What is left of a list after its first p elements.
LEMMA Rest ==
  ASSUME NEW S, NEW s \in Seq(S), NEW p \in 0..Len(s), NEW r, r = SubSeq(s, p + 1, Len(s))
  PROVE  /\ r = <<>> <=> p = Len(s)
         /\ p < Len(s) => Head(r) = s[p + 1] /\ p + 1 \in 1..Len(s)
<1>1. Len(s) \in Nat /\ p \in Nat /\ p <= Len(s)
  BY LenProperties
<1>2. r \in Seq(S) /\ Len(r) = Len(s) - p /\ (p < Len(s) => r[1] = s[p + 1])
  <2>1. \A i \in 1..Len(s) : s[i] \in S
    BY ElementOfSeq
  <2>2. /\ \A i \in (p + 1)..Len(s) : i \in 1..Len(s)
        /\ IF p + 1 <= Len(s) THEN Len(s) - (p + 1) + 1 = Len(s) - p ELSE Len(s) - p = 0
    BY <1>1
  <2>3. r \in Seq(S) /\ Len(r) = Len(s) - p
    BY <1>1, <2>1, <2>2
  <2>4. ASSUME p < Len(s) PROVE r[1] = s[p + 1]
    BY <1>1, <2>3, <2>4
  <2> QED BY <2>3, <2>4
<1>3. r = <<>> <=> p = Len(s)
  <2>1. r = <<>> <=> Len(r) = 0
    BY <1>2, EmptySeq
  <2>2. Len(s) - p = 0 <=> p = Len(s)
    BY <1>1
  <2> QED BY <1>2, <2>1, <2>2
<1>4. ASSUME p < Len(s) PROVE Head(r) = s[p + 1] /\ p + 1 \in 1..Len(s)
  <2>1. r # <<>>
    BY <1>1, <1>3, <1>4
  <2>2. Head(r) = r[1]
    BY <1>2, <2>1
  <2>3. p + 1 \in 1..Len(s)
    BY <1>1, <1>4
  <2> QED BY <1>2, <1>4, <2>2, <2>3
<1> QED BY <1>3, <1>4

\* The elements behind the first p.
LEMMA RestElements ==
  ASSUME NEW S, NEW s \in Seq(S), NEW p \in 0..Len(s), NEW r, r = SubSeq(s, p + 1, Len(s))
  PROVE  /\ r \in Seq(S) /\ Len(r) = Len(s) - p
         /\ \A i \in 1..(Len(s) - p) : r[i] = s[p + i]
<1>1. Len(s) \in Nat /\ p \in Nat /\ p <= Len(s)
  BY LenProperties
<1>2. \A i \in 1..Len(s) : s[i] \in S
  BY ElementOfSeq
<1>3. /\ \A i \in (p + 1)..Len(s) : i \in 1..Len(s)
      /\ IF p + 1 <= Len(s) THEN Len(s) - (p + 1) + 1 = Len(s) - p ELSE Len(s) - p = 0
  BY <1>1
<1>4. r \in Seq(S) /\ Len(r) = Len(s) - p
  BY <1>1, <1>2, <1>3
<1>5. ASSUME NEW i \in 1..(Len(s) - p) PROVE r[i] = s[p + i]
  <2>1. i \in 1..(Len(s) - (p + 1) + 1) /\ (p + 1) + i - 1 = p + i
    BY <1>1
  <2>2. r[i] = s[(p + 1) + i - 1]
    BY <1>1, <1>2, <1>3, <2>1
  <2> QED BY <2>1, <2>2
<1> QED BY <1>4, <1>5

\* A list is longer when one element more is in it.
LEMMA LongerByOne ==
  ASSUME NEW s, IsList(s), NEW e
  PROVE  Append(s, e) # s /\ <<e>> \o s # s
<1>1. PICK S : s \in Seq(S)
  BY DEF IsList
<1>2. PICK R : R = S \cup {e}
  OBVIOUS
<1>3. s \in Seq(R) /\ e \in R /\ Len(s) \in Nat
  <2>1. \A x \in S : x \in R
    BY <1>2
  <2> QED BY <1>1, <1>2, <2>1
<1>4. Len(Append(s, e)) = Len(s) + 1 /\ Len(<<e>> \o s) = 1 + Len(s)
  BY <1>3
<1>5. Len(s) + 1 # Len(s) /\ 1 + Len(s) # Len(s)
  BY <1>3
<1> QED BY <1>4, <1>5

-----------------------------------------------------------------------------
(* Lists put together. *)

\* c is s with t behind it.
Joins(c, s, t) == IsList(s) /\ IsList(t) /\ c = s \o t

\* Its elements are those of s and then those of t.
LEMMA ListConcat ==
  ASSUME NEW s, NEW t, NEW c, Joins(c, s, t)
  PROVE  /\ IsList(c) /\ Len(s) \in Nat /\ Len(t) \in Nat
         /\ Len(c) = Len(s) + Len(t)
         /\ \A i \in DOMAIN s : i \in DOMAIN c /\ c[i] = s[i]
         /\ \A i \in DOMAIN t : Len(s) + i \in DOMAIN c /\ c[Len(s) + i] = t[i]
         /\ \A i \in DOMAIN c : \/ i \in DOMAIN s /\ c[i] = s[i]
                                \/ \E j \in DOMAIN t : i = Len(s) + j /\ c[i] = t[j]
<1>1. PICK S : s \in Seq(S)
  BY DEF Joins, IsList
<1>2. PICK T : t \in Seq(T)
  BY DEF Joins, IsList
<1>3. PICK R : R = S \cup T
  OBVIOUS
<1>4. s \in Seq(R) /\ t \in Seq(R)
  <2>1. \A x \in S : x \in R
    BY <1>3
  <2>2. \A x \in T : x \in R
    BY <1>3
  <2> QED BY <1>1, <1>2, <2>1, <2>2
<1>5. /\ c \in Seq(R) /\ Len(s) \in Nat /\ Len(t) \in Nat
      /\ Len(c) = Len(s) + Len(t)
      /\ \A i \in 1..Len(s) + Len(t) :
           c[i] = IF i <= Len(s) THEN s[i] ELSE t[i - Len(s)]
  BY <1>4, ConcatProperties, LenProperties DEF Joins
<1>6. DOMAIN s = 1..Len(s) /\ DOMAIN t = 1..Len(t) /\ DOMAIN c = 1..(Len(s) + Len(t))
  BY <1>4, <1>5, LenProperties
<1>7. PICK m \in Nat : m = Len(s)
  BY <1>5
<1>8. PICK n \in Nat : n = Len(t)
  BY <1>5
<1>9. /\ DOMAIN s = 1..m /\ DOMAIN t = 1..n /\ DOMAIN c = 1..(m + n)
      /\ \A i \in 1..(m + n) : c[i] = IF i <= m THEN s[i] ELSE t[i - m]
  BY <1>5, <1>6, <1>7, <1>8
<1>10. \A i \in 1..m : i \in 1..(m + n) /\ c[i] = s[i]
  BY <1>9
<1>11. \A i \in 1..n : m + i \in 1..(m + n) /\ c[m + i] = t[i]
  <2>1. ASSUME NEW i \in 1..n PROVE m + i \in 1..(m + n) /\ c[m + i] = t[i]
    <3>1. m + i \in 1..(m + n) /\ ~(m + i <= m) /\ m + i - m = i
      OBVIOUS
    <3> QED BY <3>1, <1>9
  <2> QED BY <2>1
<1>12. \A i \in 1..(m + n) : i \in 1..m \/ (i - m \in 1..n /\ i = m + (i - m))
  OBVIOUS
<1>13. \A i \in 1..(m + n) : \/ i \in 1..m /\ c[i] = s[i]
                             \/ \E j \in 1..n : i = m + j /\ c[i] = t[j]
  BY <1>10, <1>11, <1>12
<1>14. IsList(c)
  BY <1>5 DEF IsList
<1>15. Len(c) = Len(s) + Len(t)
  BY <1>5
<1>16. DOMAIN s = 1..m /\ DOMAIN t = 1..n /\ DOMAIN c = 1..(m + n)
  BY <1>9
<1> QED BY ONLY <1>7, <1>8, <1>10, <1>11, <1>13, <1>14, <1>15, <1>16

\* Each of its elements is one of either list.
LEMMA ListElements ==
  ASSUME NEW s, NEW t, NEW c, Joins(c, s, t)
  PROVE  /\ IsList(c) /\ Len(c) = Len(s) + Len(t)
         /\ \A i \in DOMAIN c : (i \in DOMAIN s /\ c[i] = s[i]) \/ \E j \in DOMAIN t : c[i] = t[j]
BY ListConcat

\* A list of one element,
LEMMA ListSingle ==
  ASSUME NEW e
  PROVE  IsList(<<e>>) /\ Len(<<e>>) = 1 /\ DOMAIN <<e>> = {1} /\ <<e>>[1] = e
<1>1. <<e>> \in Seq({e})
  OBVIOUS
<1>2. Len(<<e>>) = 1 /\ <<e>>[1] = e /\ DOMAIN <<e>> = 1..1 /\ 1..1 = {1}
  OBVIOUS
<1> QED BY <1>1, <1>2 DEF IsList

\* and of none.
LEMMA ListNone == IsList(<<>>) /\ Len(<<>>) = 0 /\ DOMAIN <<>> = {}
<1>1. <<>> \in Seq({})
  OBVIOUS
<1>2. Len(<<>>) = 0 /\ DOMAIN <<>> = 1..0 /\ 1..0 = {}
  OBVIOUS
<1> QED BY <1>1, <1>2 DEF IsList

\* A list is one of its own elements.
LEMMA ListOf ==
  ASSUME NEW s, IsList(s), NEW S, \A i \in DOMAIN s : s[i] \in S
  PROVE  s \in Seq(S)
<1>1. PICK R : s \in Seq(R)
  BY DEF IsList
<1>2. Len(s) \in Nat /\ s = [i \in 1..Len(s) |-> s[i]] /\ DOMAIN s = 1..Len(s)
  BY <1>1, LenProperties
<1>3. s \in [1..Len(s) -> S]
  BY <1>2
<1> QED BY <1>2, <1>3, SeqDef

\* A function of the first naturals is a list.
LEMMA ListOfFunction ==
  ASSUME NEW n \in Nat, NEW f
  PROVE  LET s == [i \in 1..n |-> f[i]] IN
         IsList(s) /\ Len(s) = n /\ DOMAIN s = 1..n /\ \A i \in 1..n : s[i] = f[i]
<1> DEFINE s == [i \in 1..n |-> f[i]]
           S == { f[i] : i \in 1..n }
<1>1. s \in Seq(S)
  OBVIOUS
<1>2. Len(s) = n /\ DOMAIN s = 1..n /\ \A i \in 1..n : s[i] = f[i]
  OBVIOUS
<1> QED BY <1>1, <1>2 DEF IsList

\* FlattenSeq puts the lists of a list together one by one.
Flattens(f, s) ==
  /\ f[0] = <<>> /\ \A n \in 1..Len(s) : f[n] = f[n - 1] \o s[n]
  /\ f[Len(s)] = FlattenSeq(s)

\* The lists that a list of lists joins, one after another.
LEMMA FlattenSteps ==
  ASSUME NEW s, IsList(s), \A n \in 1..Len(s) : IsList(s[n])
  PROVE  \E f : Flattens(f, s) /\ \A n \in 0..Len(s) : IsList(f[n])
<1> DEFINE N == Len(s)
           S == UNION { { s[n][i] : i \in DOMAIN s[n] } : n \in 1..N }
           R == Seq(S)
           G == [n \in 1..N |-> [t \in R |-> t \o s[n]]]
<1>1. N \in Nat
  <2>1. PICK T : s \in Seq(T)
    BY DEF IsList
  <2> QED BY <2>1
<1>2. ASSUME NEW n \in 1..N PROVE s[n] \in R
  <2>1. \A i \in DOMAIN s[n] : s[n][i] \in S
    OBVIOUS
  <2> HIDE DEF S
  <2> QED BY <2>1, ListOf
<1>3. <<>> \in R
  OBVIOUS
<1>4. Steps(G, N, R)
  <2>1. ASSUME NEW n \in 1..N, NEW t \in R PROVE t \o s[n] \in R
    <3> HIDE DEF S
    <3> QED BY <1>2
  <2> HIDE DEF R, N
  <2> QED BY <2>1 DEF Steps
<1>5. PICK f : Iterates(f, G, N, R, <<>>)
  <2> HIDE DEF N, R, G
  <2> QED BY ONLY <1>1, <1>3, <1>4, Iterated
<1>6. f[0] = <<>> /\ \A n \in 0..N : f[n] \in R
  <2> HIDE DEF R, N
  <2> QED BY <1>5 DEF Iterates
<1>7. \A n \in 1..N : f[n] = f[n - 1] \o s[n]
  <2>1. ASSUME NEW n \in 1..N PROVE f[n] = f[n - 1] \o s[n]
    <3>1. n - 1 \in 0..N
      BY <1>1
    <3>2. f[n] = G[n][f[n - 1]]
      <4> HIDE DEF G, R, N
      <4> QED BY <1>5 DEF Iterates
    <3>3. f[n - 1] \in R
      <4> HIDE DEF R, N
      <4> QED BY <1>6, <3>1
    <3> HIDE DEF R, N
    <3> QED BY <3>2, <3>3
  <2> QED BY <2>1
<1>8. f[N] = FlattenSeq(s)
  <2>1. CASE N = 0
    <3>1. s = <<>>
      <4>1. PICK T : s \in Seq(T)
        BY DEF IsList
      <4> QED BY <2>1, <4>1, EmptySeq
    <3> QED BY <1>6, <2>1, <3>1 DEF FlattenSeq
  <2>2. CASE N # 0
    <3> DEFINE Next(h, k) == IF k = 1 THEN s[k] ELSE h[k - 1] \o s[k]
               g == [k \in 1..N |-> f[k]]
    <3>0. f[1] = f[0] \o s[1]
      <4>1. 1 \in 1..N /\ 1 - 1 = 0
        BY <1>1, <2>2
      <4>2. f[1] = f[1 - 1] \o s[1]
        <5> HIDE DEF N
        <5> QED BY <1>7, <4>1
      <4> QED BY <4>1, <4>2
    <3>1. ASSUME NEW k \in 1..N PROVE g[k] = Next(g, k)
      <4>1. CASE k = 1
        <5>2. <<>> \o s[1] = s[1]
          <6>1. s[1] \in R
            BY <1>2, <4>1
          <6> HIDE DEF S
          <6> QED BY <6>1, ConcatEmptySeq
        <5> QED BY <1>6, <3>0, <4>1, <5>2
      <4>2. CASE k # 1
        <5>1. k - 1 \in 1..N
          BY <1>1, <4>2
        <5> QED BY <1>7, <4>2, <5>1
      <4> QED BY <4>1, <4>2
    <3>2. g = [k \in 1..N |-> Next(g, k)]
      BY <3>1
    <3>3. PICK h : h = CHOOSE h_ : h_ = [k \in 1..N |-> Next(h_, k)]
      OBVIOUS
    <3>4. h = [k \in 1..N |-> Next(h, k)]
      <4> HIDE DEF g, Next, N
      <4> QED BY <3>2, <3>3
    <3>5. FlattenSeq(s) = h[N]
      BY <2>2, <3>3 DEF FlattenSeq
    <3> DEFINE P == { k \in 0..N : k = 0 \/ h[k] = f[k] }
    <3>6. ASSUME NEW k \in 0..N, k \in P, k < N PROVE k + 1 \in P
      <4>1. PICK m \in 1..N : m = k + 1
        BY <1>1, <3>6
      <4>2. m \in 0..N /\ m - 1 = k /\ (m = 1 <=> k = 0)
        BY <1>1, <4>1
      <4>3. h[m] = Next(h, m)
        <5> HIDE DEF Next, N
        <5> QED BY <3>4
      <4>4. h[m] = f[m]
        <5>1. CASE k = 0
          <6>1. g[m] = f[m] /\ g[m] = s[m]
            BY <3>1, <4>2, <5>1
          <6>2. h[m] = s[m]
            BY <4>2, <4>3, <5>1
          <6> QED BY <6>1, <6>2
        <5>2. CASE k # 0
          <6>1. h[k] = f[k]
            BY <3>6, <5>2
          <6>2. h[m] = h[m - 1] \o s[m]
            BY <4>2, <4>3, <5>2
          <6>3. f[m] = f[m - 1] \o s[m]
            <7> HIDE DEF N
            <7> QED BY <1>7
          <6> QED BY <4>2, <6>1, <6>2, <6>3
        <5> QED BY <5>1, <5>2
      <4> QED BY <4>1, <4>2, <4>4
    <3>7. 0 \in P
      BY <1>1
    <3>8. \A k \in 0..N : k \in P
      <4> HIDE DEF P, N
      <4> QED BY <1>1, <3>6, <3>7, BoundedInduction
    <3>9. N \in 0..N
      BY <1>1
    <3> QED BY <2>2, <3>5, <3>8, <3>9
  <2> QED BY <2>1, <2>2
<1> QED BY <1>6, <1>7, <1>8 DEF Flattens, IsList

\* What is in the list then was in one of them.
LEMMA FlattenParts ==
  ASSUME NEW s, IsList(s), \A n \in 1..Len(s) : IsList(s[n])
  PROVE  /\ IsList(FlattenSeq(s))
         /\ \A i \in DOMAIN FlattenSeq(s) :
              \E n \in 1..Len(s) : \E j \in DOMAIN s[n] : FlattenSeq(s)[i] = s[n][j]
<1> DEFINE N == Len(s)
           In(n, x) == \E m \in 1..n : \E j \in DOMAIN s[m] : x = s[m][j]
<1>1. N \in Nat
  BY LenProperties DEF IsList
<1>2. PICK f : Flattens(f, s) /\ \A n \in 0..N : IsList(f[n])
  BY FlattenSteps
<1> DEFINE P == { n \in 0..N : \A i \in DOMAIN f[n] : In(n, f[n][i]) }
<1>3. 0 \in P
  BY <1>1, <1>2, ListNone DEF Flattens
<1>4. ASSUME NEW n \in 0..N, n \in P, n < N PROVE n + 1 \in P
  <2>1. PICK m \in 1..N : m = n + 1
    BY <1>1, <1>4
  <2>2. m \in 0..N /\ m - 1 = n /\ m \in 1..m /\ \A k \in 1..n : k \in 1..m
    BY <1>1, <2>1
  <2>3. f[m] = f[n] \o s[m]
    BY <1>2, <2>2 DEF Flattens
  <2>4. IsList(f[n]) /\ IsList(s[m])
    BY <1>2
  <2>5. \A i \in DOMAIN f[n] : In(n, f[n][i])
    BY <1>4
  <2>6. ASSUME NEW i \in DOMAIN f[m] PROVE In(m, f[m][i])
    <3>1. PICK a, b, c : a = f[n] /\ b = s[m] /\ c = f[m]
      OBVIOUS
    <3>2. Joins(c, a, b)
      BY <2>3, <2>4, <3>1 DEF Joins
    <3>3. \A k \in DOMAIN c : (k \in DOMAIN a /\ c[k] = a[k]) \/ \E j \in DOMAIN b : c[k] = b[j]
      BY ONLY <3>2, ListElements
    <3>4. CASE i \in DOMAIN f[n] /\ f[m][i] = f[n][i]
      BY <2>2, <2>5, <3>4
    <3>5. CASE \E j \in DOMAIN s[m] : f[m][i] = s[m][j]
      BY <2>2, <3>5
    <3> QED BY <3>1, <3>3, <3>4, <3>5
  <2> QED BY <2>1, <2>2, <2>6
<1>5. \A n \in 0..N : n \in P
  <2> HIDE DEF P, N
  <2> QED BY <1>1, <1>3, <1>4, BoundedInduction
<1>6. N \in 0..N
  BY <1>1
<1>7. N \in P
  <2> HIDE DEF P, N
  <2> QED BY <1>5, <1>6
<1>8. f[N] = FlattenSeq(s) /\ IsList(f[N])
  BY <1>2, <1>6 DEF Flattens
<1> QED BY <1>7, <1>8

\* It is as long as they are together.
LEMMA FlattenLength ==
  ASSUME NEW s, IsList(s), \A n \in 1..Len(s) : IsList(s[n]),
         NEW total, total[0] = 0, \A n \in 1..Len(s) : total[n] = total[n - 1] + Len(s[n])
  PROVE  Len(FlattenSeq(s)) = total[Len(s)]
<1> DEFINE N == Len(s)
<1>1. N \in Nat
  BY LenProperties DEF IsList
<1>2. PICK f : Flattens(f, s) /\ \A n \in 0..N : IsList(f[n])
  BY FlattenSteps
<1> DEFINE P == { n \in 0..N : Len(f[n]) = total[n] }
<1>3. 0 \in P
  BY <1>1, <1>2, ListNone DEF Flattens
<1>4. ASSUME NEW n \in 0..N, n \in P, n < N PROVE n + 1 \in P
  <2>1. PICK m \in 1..N : m = n + 1
    BY <1>1, <1>4
  <2>2. m \in 0..N /\ m - 1 = n
    BY <1>1, <2>1
  <2>3. f[m] = f[n] \o s[m] /\ total[m] = total[n] + Len(s[m])
    BY <1>2, <2>2 DEF Flattens
  <2>4. IsList(f[n]) /\ IsList(s[m])
    BY <1>2
  <2>5. Len(f[m]) = Len(f[n]) + Len(s[m])
    <3>1. PICK a, b, c : a = f[n] /\ b = s[m] /\ c = f[m]
      OBVIOUS
    <3>2. Joins(c, a, b)
      BY <2>3, <2>4, <3>1 DEF Joins
    <3>3. Len(c) = Len(a) + Len(b)
      BY ONLY <3>2, ListElements
    <3> QED BY <3>1, <3>3
  <2>6. Len(f[m]) = total[m]
    BY <1>4, <2>3, <2>5
  <2> QED BY <2>1, <2>2, <2>6
<1>5. \A n \in 0..N : n \in P
  <2> HIDE DEF P, N
  <2> QED BY <1>1, <1>3, <1>4, BoundedInduction
<1>6. N \in 0..N
  BY <1>1
<1>7. Len(f[N]) = total[N]
  <2> HIDE DEF N
  <2> QED BY <1>5, <1>6
<1>8. f[N] = FlattenSeq(s)
  BY <1>2 DEF Flattens
<1> QED BY <1>7, <1>8
=============================================================================
