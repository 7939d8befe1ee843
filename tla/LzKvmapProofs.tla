--------------------------- MODULE LzKvmapProofs ---------------------------
(***************************************************************************)
(* Theorems about LzKvmap, for every set of entries and keys, every hash   *)
(* function and number of buckets, with and without keys cut short.        *)
(***************************************************************************)
EXTENDS LzKvmap, ListLemmas

\* What clear relies on: chains lead down the list, heads are in the bucket
\* they head.  And when a lookup may be running, and a removal by key, which
\* is not to find the entry for_each is at.
LoopInv ==
  /\ loop = "clear" =>
       /\ \A e \in Listed : next[e] # Null => Before(e, next[e])
       /\ \A b \in Buckets : ents[b] # Null => Bucket(hash[ents[b]]) = b
  /\ Ready => find_ent = Null
  /\ ~Ready => loop \in {"none", "each", "clear"}
  /\ ~Ready /\ want = "remove" =>
       loop = "none" \/ (loop = "each" /\ ~IsFirstMatch(cur, find_key))

\* The entries a running lookup has passed do not match; the one it is at
\* is in the bucket of its key.
WalkInv ==
  ~Ready /\ loop \in {"none", "each"} =>
    /\ find_ent # Null => Bucket(hash[find_ent]) = Bucket(Hash[find_key])
    /\ \A f \in Listed : Matches(f, find_key) =>
         find_ent # Null /\ (f = find_ent \/ Before(find_ent, f))

\* The inductive invariant.  ChainsMatchList says nothing while clear has
\* emptied some buckets only; LoopInv is what is left of it then.
IInv == /\ TypeOK
        /\ EntriesOwned
        /\ SizeIsExact
        /\ ChainsMatchList
        /\ LookupsSafe
        /\ LoopInv
        /\ WalkInv

LEMMA BucketType == \A h \in Nat : Bucket(h) \in Buckets
BY BucketsAssumption DEF Bucket, Buckets

\* Before is a strict total order of the entries on the list.
LEMMA BeforeOrder ==
  ASSUME TypeOK, IsInjective(ent_list)
  PROVE  /\ \A e, f : Before(e, f) => e \in Listed /\ f \in Listed
         /\ \A e : ~Before(e, e)
         /\ \A e, f, g : Before(e, f) /\ Before(f, g) => Before(e, g)
         /\ \A e, f \in Listed : e = f \/ Before(e, f) \/ Before(f, e)
<1>1. ent_list \in Seq(Ents)
  BY DEF TypeOK
<1>2. \A e, f : Before(e, f) <=> Precedes(ent_list, e, f)
  BY DEF Before, Precedes
<1> QED BY <1>1, <1>2, PrecedesOrder DEF Listed

\* Entries on the list are entries.
LEMMA ListedType ==
  ASSUME TypeOK
  PROVE  Listed \subseteq Ents
BY ToSetMember DEF TypeOK, Listed

\* Inserting at the head: what happens to the list and its order.
LEMMA InsertList ==
  ASSUME TypeOK, IsInjective(ent_list), NEW e \in Ents, e \notin Listed,
         ent_list' = InsertHead(ent_list, e)
  PROVE  /\ ent_list' \in Seq(Ents) /\ IsInjective(ent_list')
         /\ Len(ent_list') = Len(ent_list) + 1
         /\ Listed' = {e} \cup Listed
         /\ \A x, y : Before(x, y)' <=> Before(x, y) \/ (x = e /\ y \in Listed)
<1>1. ent_list \in Seq(Ents) /\ e \notin ToSet(ent_list)
  BY DEF TypeOK, Listed
<1>2. /\ ent_list' \in Seq(Ents) /\ IsInjective(ent_list')
      /\ Len(ent_list') = Len(ent_list) + 1
      /\ ToSet(ent_list') = {e} \cup ToSet(ent_list)
  BY <1>1, ConsList DEF InsertHead
<1>3. \A x, y : Precedes(ent_list', x, y) <=>
                  Precedes(ent_list, x, y) \/ (x = e /\ y \in ToSet(ent_list))
  BY <1>1, PrecedesCons DEF InsertHead
<1>4. \A x, y : /\ Before(x, y) <=> Precedes(ent_list, x, y)
                /\ Before(x, y)' <=> Precedes(ent_list', x, y)
  BY DEF Before, Precedes
<1> QED BY <1>2, <1>3, <1>4 DEF Listed

\* Unlinking: what happens to the list and its order.
LEMMA RemoveList ==
  ASSUME TypeOK, IsInjective(ent_list), NEW e \in Listed,
         ent_list' = Unlink(ent_list, e)
  PROVE  /\ ent_list' \in Seq(Ents) /\ IsInjective(ent_list')
         /\ Len(ent_list') = Len(ent_list) - 1
         /\ Listed' = Listed \ {e}
         /\ \A x, y : Before(x, y)' <=> Before(x, y) /\ x # e /\ y # e
<1>1. ent_list \in Seq(Ents) /\ e \in ToSet(ent_list)
  BY DEF TypeOK, Listed
<1>2. /\ ent_list' \in Seq(Ents) /\ IsInjective(ent_list')
      /\ Len(ent_list') = Len(ent_list) - 1
      /\ ToSet(ent_list') = ToSet(ent_list) \ {e}
  BY <1>1, UnlinkList DEF Unlink
<1>3. \A x, y : Precedes(ent_list', x, y) <=>
                  Precedes(ent_list, x, y) /\ x # e /\ y # e
  BY <1>1, PrecedesUnlink DEF Unlink
<1>4. \A x, y : /\ Before(x, y) <=> Precedes(ent_list, x, y)
                /\ Before(x, y)' <=> Precedes(ent_list', x, y)
  BY DEF Before, Precedes
<1> QED BY <1>2, <1>3, <1>4 DEF Listed

-----------------------------------------------------------------------------
(* Adding. *)

LEMMA InsertChains ==
  ASSUME IInv, loop \in {"none", "each"},
         NEW e \in Ents, NEW k \in Keys, NEW buf \in Keys, Insert(e, k, buf)
  PROVE  ChainsMatchList'
<1> DEFINE b == Bucket(Hash[buf])
<1>0. PICK h : h = ents[b]      \* the bucket's old head
  OBVIOUS
<1>1. /\ TypeOK /\ IsInjective(ent_list) /\ ChainsMatchList
      /\ Null \notin Ents /\ Listed \subseteq Ents /\ e \notin Listed
  BY ListedType, EntsAssumption DEF IInv, EntriesOwned, Insert
<1>2. b \in Buckets /\ h \in Ents \cup {Null} /\ Hash[buf] \in Nat
  BY <1>0, <1>1, BucketType, HashAssumption DEF TypeOK
<1>3. /\ Listed' = {e} \cup Listed
      /\ \A x, y : Before(x, y)' <=> Before(x, y) \/ (x = e /\ y \in Listed)
  BY <1>1, InsertList DEF Insert
<1>4. /\ \A x, y : Before(x, y) => x \in Listed /\ y \in Listed
      /\ \A x : ~Before(x, x)
      /\ \A x, y, z : Before(x, y) /\ Before(y, z) => Before(x, z)
      /\ \A x, y \in Listed : x = y \/ Before(x, y) \/ Before(y, x)
  BY <1>1, BeforeOrder
<1>5. /\ next'[e] = h /\ prev'[e] = Null /\ Bucket(hash'[e]) = b
      /\ \A x \in Listed : /\ next'[x] = next[x]
                           /\ prev'[x] = IF x = h THEN e ELSE prev[x]
                           /\ hash'[x] = hash[x]
      /\ \A c \in Buckets : ents'[c] = IF c = b THEN e ELSE ents[c]
  BY <1>0, <1>1, <1>2 DEF Insert, TypeOK
<1>6. /\ \A x \in Listed :
           /\ next[x] # Null => Adjacent(x, next[x])
           /\ next[x] = Null => \A f \in Listed : SameBucket(x, f) => ~Before(x, f)
           /\ prev[x] # Null => Adjacent(prev[x], x)
           /\ prev[x] = Null => \A f \in Listed : SameBucket(x, f) => ~Before(f, x)
      /\ \A c \in Buckets :
           /\ ents[c] # Null =>
                /\ ents[c] \in Listed /\ Bucket(hash[ents[c]]) = c
                /\ \A f \in Listed : Bucket(hash[f]) = c => ~Before(f, ents[c])
           /\ ents[c] = Null => \A f \in Listed : Bucket(hash[f]) # c
  BY <1>1 DEF ChainsMatchList, IInv
<1>7. \A x, y : Adjacent(x, y) => Adjacent(x, y)'
  BY <1>1, <1>3, <1>4, <1>5 DEF Adjacent, SameBucket
<1>8. h # Null => Adjacent(e, h)'
  BY <1>0, <1>1, <1>2, <1>3, <1>4, <1>5, <1>6 DEF Adjacent, SameBucket
<1>9. ASSUME NEW x \in Listed'
      PROVE  /\ next'[x] # Null => Adjacent(x, next[x])'
             /\ next'[x] = Null =>
                  \A f \in Listed' : SameBucket(x, f)' => ~Before(x, f)'
             /\ prev'[x] # Null => Adjacent(prev[x], x)'
             /\ prev'[x] = Null =>
                  \A f \in Listed' : SameBucket(x, f)' => ~Before(f, x)'
  <2>1. CASE x = e
    <3>1. next'[x] # Null => Adjacent(x, next[x])'
      BY <1>5, <1>8, <2>1
    <3>2. next'[x] = Null =>
            \A f \in Listed' : SameBucket(x, f)' => ~Before(x, f)'
      <4>1. SUFFICES ASSUME h = Null, NEW f \in Listed, SameBucket(e, f)'
                     PROVE  FALSE
        BY <1>1, <1>3, <1>4, <1>5, <2>1
      <4>2. Bucket(hash[f]) = b
        BY <1>5, <4>1 DEF SameBucket
      <4> QED BY <1>0, <1>2, <1>6, <4>1, <4>2
    <3>3. \A f \in Listed' : ~Before(f, x)'
      BY <1>1, <1>3, <1>4, <2>1
    <3> QED BY <1>5, <2>1, <3>1, <3>2, <3>3
  <2>2. CASE x # e
    <3>1. x \in Listed
      BY <1>3, <2>2
    <3>2. next'[x] # Null => Adjacent(x, next[x])'
      BY <1>5, <1>6, <1>7, <3>1
    <3>3. next'[x] = Null =>
            \A f \in Listed' : SameBucket(x, f)' => ~Before(x, f)'
      BY <1>1, <1>3, <1>4, <1>5, <1>6, <2>2, <3>1 DEF SameBucket
    <3>4. prev'[x] # Null => Adjacent(prev[x], x)'
      <4>1. CASE x = h
        BY <1>1, <1>5, <1>8, <3>1, <4>1
      <4>2. CASE x # h
        BY <1>5, <1>6, <1>7, <3>1, <4>2
      <4> QED BY <4>1, <4>2
    <3>5. prev'[x] = Null =>
            \A f \in Listed' : SameBucket(x, f)' => ~Before(f, x)'
      <4>1. SUFFICES ASSUME prev'[x] = Null, NEW f \in Listed',
                            SameBucket(x, f)', Before(f, x)'
                     PROVE  FALSE
        OBVIOUS
      <4>2. x # h /\ prev[x] = Null
        BY <1>1, <1>5, <3>1, <4>1
      <4>3. CASE f # e
        BY <1>3, <1>5, <1>6, <3>1, <4>1, <4>2, <4>3 DEF SameBucket
      <4>4. CASE f = e
        <5>1. Bucket(hash[x]) = b
          BY <1>5, <3>1, <4>1, <4>4 DEF SameBucket
        <5>2. h \in Listed /\ Bucket(hash[h]) = b /\ ~Before(x, h)
          BY <1>0, <1>2, <1>6, <3>1, <5>1
        <5>3. Before(h, x)
          BY <1>4, <3>1, <4>2, <5>2
        <5> QED BY <1>6, <3>1, <4>2, <5>1, <5>2, <5>3 DEF SameBucket
      <4> QED BY <4>3, <4>4
    <3> QED BY <3>2, <3>3, <3>4, <3>5
  <2> QED BY <2>1, <2>2
<1>10. ASSUME NEW c \in Buckets
       PROVE  /\ ents'[c] # Null =>
                   /\ ents'[c] \in Listed' /\ Bucket(hash'[ents'[c]]) = c
                   /\ \A f \in Listed' : Bucket(hash'[f]) = c => ~Before(f, ents[c])'
              /\ ents'[c] = Null => \A f \in Listed' : Bucket(hash'[f]) # c
  <2>1. CASE c = b
    BY <1>1, <1>3, <1>4, <1>5, <2>1
  <2>2. CASE c # b
    BY <1>1, <1>3, <1>4, <1>5, <1>6, <2>2
  <2> QED BY <2>1, <2>2
<1> QED BY <1>9, <1>10 DEF ChainsMatchList

\* In a state where chains match the list, the entry before an entry in its
\* chain and the one after it are unique.
LEMMA AdjacentUnique ==
  ASSUME TypeOK, IsInjective(ent_list),
         NEW x, NEW y, NEW z
  PROVE  /\ Adjacent(x, z) /\ Adjacent(y, z) => x = y
         /\ Adjacent(z, x) /\ Adjacent(z, y) => x = y
BY BeforeOrder DEF Adjacent, SameBucket

LEMMA RemoveChains ==
  ASSUME IInv, loop \in {"none", "each"},
         NEW e \in Listed, RemoveEntry(e)
  PROVE  ChainsMatchList'
<1>0. PICK p, n : p = prev[e] /\ n = next[e]      \* e's old neighbours
  OBVIOUS
<1> DEFINE b == Bucket(hash[e])
<1>1. /\ TypeOK /\ IsInjective(ent_list) /\ ChainsMatchList
      /\ Null \notin Ents /\ Listed \subseteq Ents
  BY ListedType, EntsAssumption DEF IInv, EntriesOwned
<1>2. b \in Buckets /\ p \in Ents \cup {Null} /\ n \in Ents \cup {Null} /\ e \in Ents
  BY <1>0, <1>1, BucketType DEF TypeOK
<1>3. /\ Listed' = Listed \ {e}
      /\ \A x, y : Before(x, y)' <=> Before(x, y) /\ x # e /\ y # e
  BY <1>1, RemoveList DEF RemoveEntry
<1>4. /\ \A x, y : Before(x, y) => x \in Listed /\ y \in Listed
      /\ \A x : ~Before(x, x)
      /\ \A x, y, z : Before(x, y) /\ Before(y, z) => Before(x, z)
      /\ \A x, y \in Listed : x = y \/ Before(x, y) \/ Before(y, x)
  BY <1>1, BeforeOrder
<1>5. /\ \A x \in Listed \ {e} :
           /\ next'[x] = IF x = p THEN n ELSE next[x]
           /\ prev'[x] = IF x = n THEN p ELSE prev[x]
           /\ hash'[x] = hash[x]
      /\ \A c \in Buckets :
           ents'[c] = IF c = b /\ ents[b] = e
                      THEN IF p # Null THEN p ELSE n
                      ELSE ents[c]
  BY <1>0, <1>1, <1>2 DEF RemoveEntry, Release, TypeOK
<1>6. /\ \A x \in Listed :
           /\ next[x] # Null => Adjacent(x, next[x])
           /\ next[x] = Null => \A f \in Listed : SameBucket(x, f) => ~Before(x, f)
           /\ prev[x] # Null => Adjacent(prev[x], x)
           /\ prev[x] = Null => \A f \in Listed : SameBucket(x, f) => ~Before(f, x)
      /\ \A c \in Buckets :
           /\ ents[c] # Null =>
                /\ ents[c] \in Listed /\ Bucket(hash[ents[c]]) = c
                /\ \A f \in Listed : Bucket(hash[f]) = c => ~Before(f, ents[c])
           /\ ents[c] = Null => \A f \in Listed : Bucket(hash[f]) # c
  BY <1>1 DEF ChainsMatchList, IInv
<1>7. \A x, y : Adjacent(x, y) /\ x # e /\ y # e => Adjacent(x, y)'
  BY <1>1, <1>3, <1>4, <1>5 DEF Adjacent, SameBucket
<1>8. /\ p # Null => Adjacent(p, e)
      /\ n # Null => Adjacent(e, n)
      /\ p = Null => \A f \in Listed : SameBucket(e, f) => ~Before(f, e)
      /\ n = Null => \A f \in Listed : SameBucket(e, f) => ~Before(e, f)
  BY <1>0, <1>6
<1>9. p # Null /\ n # Null => Adjacent(p, n)'
  <2>1. SUFFICES ASSUME p # Null, n # Null PROVE Adjacent(p, n)'
    OBVIOUS
  <2>2. /\ p \in Listed /\ n \in Listed /\ Before(p, e) /\ Before(e, n)
        /\ Bucket(hash[p]) = b /\ Bucket(hash[n]) = b
        /\ \A g \in Listed : Bucket(hash[g]) = b => /\ ~(Before(p, g) /\ Before(g, e))
                                                   /\ ~(Before(e, g) /\ Before(g, n))
    BY <1>8, <2>1 DEF Adjacent, SameBucket
  <2>3. p # e /\ n # e /\ Before(p, n)
    BY <1>4, <2>2
  <2>4. \A g \in Listed \ {e} : Bucket(hash[g]) = b => ~(Before(p, g) /\ Before(g, n))
    BY <1>4, <2>2
  <2> QED BY <1>3, <1>5, <2>2, <2>3, <2>4 DEF Adjacent, SameBucket
<1>10. ASSUME NEW x \in Listed'
       PROVE  /\ next'[x] # Null => Adjacent(x, next[x])'
              /\ next'[x] = Null =>
                   \A f \in Listed' : SameBucket(x, f)' => ~Before(x, f)'
  <2>1. x \in Listed /\ x # e
    BY <1>3
  <2>2. CASE x = p
    <3>1. Adjacent(x, e)
      BY <1>1, <1>8, <2>1, <2>2
    <3>2. CASE n # Null
      BY <1>1, <1>5, <1>9, <2>1, <2>2, <3>2
    <3>3. CASE n = Null
      <4>1. \A f \in Listed \ {e} : SameBucket(x, f) => ~Before(x, f)
        BY <1>4, <1>8, <3>1, <3>3 DEF Adjacent, SameBucket
      <4> QED BY <1>3, <1>5, <2>1, <2>2, <3>3, <4>1 DEF SameBucket
    <3> QED BY <3>2, <3>3
  <2>3. CASE x # p
    <3>1. next'[x] = next[x] /\ next[x] # e
      <4>1. next'[x] = next[x]
        BY <1>5, <2>1, <2>3
      <4>2. ASSUME next[x] = e PROVE FALSE
        <5>1. Adjacent(x, e)
          BY <1>1, <1>2, <1>6, <2>1, <4>2
        <5>2. p # Null
          BY <1>8, <5>1 DEF Adjacent, SameBucket
        <5> QED BY <1>1, <1>8, <2>3, <5>1, <5>2, AdjacentUnique
      <4> QED BY <4>1, <4>2
    <3>2. next'[x] # Null => Adjacent(x, next[x])'
      BY <1>6, <1>7, <2>1, <3>1
    <3>3. next'[x] = Null =>
            \A f \in Listed' : SameBucket(x, f)' => ~Before(x, f)'
      BY <1>3, <1>5, <1>6, <2>1, <3>1 DEF SameBucket
    <3> QED BY <3>2, <3>3
  <2> QED BY <2>2, <2>3
<1>11. ASSUME NEW x \in Listed'
       PROVE  /\ prev'[x] # Null => Adjacent(prev[x], x)'
              /\ prev'[x] = Null =>
                   \A f \in Listed' : SameBucket(x, f)' => ~Before(f, x)'
  <2>1. x \in Listed /\ x # e
    BY <1>3
  <2>2. CASE x = n
    <3>1. Adjacent(e, x)
      BY <1>1, <1>8, <2>1, <2>2
    <3>2. CASE p # Null
      BY <1>1, <1>5, <1>9, <2>1, <2>2, <3>2
    <3>3. CASE p = Null
      <4>1. \A f \in Listed \ {e} : SameBucket(x, f) => ~Before(f, x)
        BY <1>4, <1>8, <3>1, <3>3 DEF Adjacent, SameBucket
      <4> QED BY <1>3, <1>5, <2>1, <2>2, <3>3, <4>1 DEF SameBucket
    <3> QED BY <3>2, <3>3
  <2>3. CASE x # n
    <3>1. prev'[x] = prev[x] /\ prev[x] # e
      <4>1. prev'[x] = prev[x]
        BY <1>5, <2>1, <2>3
      <4>2. ASSUME prev[x] = e PROVE FALSE
        <5>1. Adjacent(e, x)
          BY <1>1, <1>2, <1>6, <2>1, <4>2
        <5>2. n # Null
          BY <1>8, <5>1 DEF Adjacent, SameBucket
        <5> QED BY <1>1, <1>8, <2>3, <5>1, <5>2, AdjacentUnique
      <4> QED BY <4>1, <4>2
    <3>2. prev'[x] # Null => Adjacent(prev[x], x)'
      BY <1>6, <1>7, <2>1, <3>1
    <3>3. prev'[x] = Null =>
            \A f \in Listed' : SameBucket(x, f)' => ~Before(f, x)'
      BY <1>3, <1>5, <1>6, <2>1, <3>1 DEF SameBucket
    <3> QED BY <3>2, <3>3
  <2> QED BY <2>2, <2>3
<1>12. ASSUME NEW c \in Buckets
       PROVE  /\ ents'[c] # Null =>
                   /\ ents'[c] \in Listed' /\ Bucket(hash'[ents'[c]]) = c
                   /\ \A f \in Listed' : Bucket(hash'[f]) = c => ~Before(f, ents[c])'
              /\ ents'[c] = Null => \A f \in Listed' : Bucket(hash'[f]) # c
  <2>1. CASE c = b /\ ents[b] = e
    <3>1. p = Null
      BY <1>1, <1>2, <1>4, <1>6, <1>8, <2>1 DEF Adjacent, SameBucket
    <3>2. ents'[c] = n
      BY <1>5, <2>1, <3>1
    <3>3. CASE n # Null
      <4>1. /\ n \in Listed /\ n # e /\ Bucket(hash[n]) = b /\ Before(e, n)
            /\ \A g \in Listed : Bucket(hash[g]) = b => ~(Before(e, g) /\ Before(g, n))
        BY <1>4, <1>8, <3>3 DEF Adjacent, SameBucket
      <4>2. \A f \in Listed \ {e} : Bucket(hash[f]) = b => ~Before(f, n)
        BY <1>4, <1>8, <3>1, <4>1 DEF SameBucket
      <4> QED BY <1>3, <1>5, <2>1, <3>2, <3>3, <4>1, <4>2
    <3>4. CASE n = Null
      <4>1. \A f \in Listed \ {e} : Bucket(hash[f]) # b
        BY <1>4, <1>8, <3>1, <3>4 DEF SameBucket
      <4> QED BY <1>3, <1>5, <2>1, <3>2, <3>4, <4>1
    <3> QED BY <3>3, <3>4
  <2>2. CASE ~(c = b /\ ents[b] = e)
    <3>1. ents'[c] = ents[c]
      BY <1>5, <2>2
    <3>2. ents[c] # e
      BY <1>1, <1>2, <1>6, <2>2
    <3> QED BY <1>3, <1>5, <1>6, <3>1, <3>2
  <2> QED BY <2>1, <2>2
<1> QED BY <1>10, <1>11, <1>12 DEF ChainsMatchList

-----------------------------------------------------------------------------
(* The steps that change the map. *)

LEMMA InsertStep ==
  ASSUME IInv, MayChange,
         NEW e \in Ents, NEW k \in Keys, NEW buf \in Keys, Insert(e, k, buf)
  PROVE  IInv'
<1>1. /\ TypeOK /\ IsInjective(ent_list) /\ Listed \subseteq Ents
      /\ e \notin Listed /\ live = Listed /\ loop \in {"none", "each"}
      /\ n_entries = Len(ent_list)
  BY ListedType DEF IInv, EntriesOwned, SizeIsExact, MayChange, Insert
<1>2. /\ ent_list' \in Seq(Ents) /\ IsInjective(ent_list')
      /\ Len(ent_list') = Len(ent_list) + 1
      /\ Listed' = {e} \cup Listed
  BY <1>1, InsertList DEF Insert
<1>3. /\ loop' = loop /\ cur' = cur /\ save' = save /\ owed' = owed
      /\ want' = want /\ find_key' = find_key /\ find_ent' = find_ent
      /\ live' = live \cup {e} /\ n_entries' = n_entries + 1 /\ ret' = e
  BY DEF Insert, looping, finding
<1>4. Bucket(Hash[buf]) \in Buckets /\ Hash[buf] \in Nat
  BY BucketType, HashAssumption
<1>5. TypeOK'
  <2>1. /\ key \in [Ents -> Keys \cup {NoKey}] /\ hash \in [Ents -> Nat]
        /\ ents \in [Buckets -> Ents \cup {Null}]
        /\ next \in [Ents -> Ents \cup {Null}] /\ prev \in [Ents -> Ents \cup {Null}]
    BY <1>1 DEF TypeOK
  <2>2. key' \in [Ents -> Keys \cup {NoKey}]
    BY <2>1 DEF Insert
  <2>3. hash' \in [Ents -> Nat]
    BY <1>4, <2>1 DEF Insert
  <2>4. ents' \in [Buckets -> Ents \cup {Null}]
    BY <2>1 DEF Insert
  <2>5. ents[Bucket(Hash[buf])] \in Ents \cup {Null}
    BY <1>4, <2>1
  <2>6. next' \in [Ents -> Ents \cup {Null}]
    BY <2>1, <2>5 DEF Insert
  <2>7. prev' \in [Ents -> Ents \cup {Null}]
    BY <2>1 DEF Insert
  <2> QED BY <1>1, <1>2, <1>3, <2>2, <2>3, <2>4, <2>6, <2>7 DEF TypeOK
<1>6. EntriesOwned'
  BY <1>1, <1>2, <1>3 DEF IInv, EntriesOwned
<1>7. SizeIsExact'
  BY <1>1, <1>2, <1>3 DEF SizeIsExact
<1>8. ChainsMatchList'
  BY <1>1, InsertChains
<1>9. Ready /\ find_ent = Null
  BY DEF MayChange, IInv, LoopInv
<1>10. LookupsSafe'
  BY <1>1, <1>3, <1>8, <1>9 DEF LookupsSafe, ChainsMatchList, Adjacent
<1>11. LoopInv' /\ WalkInv'
  BY <1>1, <1>3, <1>9 DEF IInv, LoopInv, WalkInv, Ready
<1> QED BY <1>5, <1>6, <1>7, <1>8, <1>10, <1>11 DEF IInv

\* lz_kvmap_remove_ent, called by the program or at the end of a removal by
\* key: in both cases no lookup is running afterwards.
LEMMA RemoveStep ==
  ASSUME IInv, loop \in {"none", "each"},
         NEW e \in Listed, e # cur \/ loop = "none", RemoveEntry(e),
         find_key' = NoKey, find_ent' = Null,
         want' \in {"none", "find", "remove"}
  PROVE  IInv'
<1>1. /\ TypeOK /\ IsInjective(ent_list) /\ Listed \subseteq Ents
      /\ live = Listed /\ n_entries = Len(ent_list) /\ e \in Ents
  BY ListedType DEF IInv, EntriesOwned, SizeIsExact
<1>2. /\ ent_list' \in Seq(Ents) /\ IsInjective(ent_list')
      /\ Len(ent_list') = Len(ent_list) - 1
      /\ Listed' = Listed \ {e}
  BY <1>1, RemoveList DEF RemoveEntry
<1>3. /\ loop' = loop /\ cur' = cur /\ save' = save /\ owed' = owed \ {e}
      /\ live' = live \ {e} /\ n_entries' = n_entries - 1 /\ ret' = NoAnswer
  BY DEF RemoveEntry, Release
<1>4. Bucket(hash[e]) \in Buckets
  BY <1>1, BucketType DEF TypeOK
<1>5. TypeOK'
  <2>1. /\ key' \in [Ents -> Keys \cup {NoKey}]
        /\ hash' \in [Ents -> Nat]
        /\ ents' \in [Buckets -> Ents \cup {Null}]
        /\ next' \in [Ents -> Ents \cup {Null}]
        /\ prev' \in [Ents -> Ents \cup {Null}]
    BY <1>1, <1>4 DEF RemoveEntry, Release, TypeOK
  <2>2. /\ live' \in SUBSET Ents /\ owed' \in SUBSET Ents /\ n_entries' \in Int
        /\ find_key' \in Keys \cup {NoKey} /\ find_ent' \in Ents \cup {Null}
        /\ ret' \in Ents \cup {Null, NoAnswer}
    BY <1>1, <1>3 DEF TypeOK
  <2>3. /\ loop' \in {"none", "each", "clear", "free", "gone"}
        /\ cur' \in Ents \cup {Null} /\ save' \in Ents \cup {Null}
    BY <1>1, <1>3 DEF TypeOK
  <2> QED BY <1>2, <2>1, <2>2, <2>3 DEF TypeOK
<1>6. EntriesOwned'
  BY <1>1, <1>2, <1>3 DEF IInv, EntriesOwned
<1>7. SizeIsExact'
  BY <1>1, <1>2, <1>3 DEF SizeIsExact
<1>8. ChainsMatchList'
  BY RemoveChains
<1>9. LookupsSafe'
  BY <1>1, <1>3, <1>8 DEF LookupsSafe, ChainsMatchList, Adjacent
<1>10. LoopInv' /\ WalkInv'
  BY <1>1, <1>3 DEF LoopInv, WalkInv, Ready
<1> QED BY <1>5, <1>6, <1>7, <1>8, <1>9, <1>10 DEF IInv

LEMMA ChangeStep ==
  ASSUME IInv, Change
  PROVE  IInv'
<1>1. CASE \E e \in Ents, k \in Keys : Add(e, k)
  BY <1>1, InsertStep DEF Add
<1>2. CASE \E e \in Ents, k, buf \in Keys : AddWklen(e, k, buf)
  BY <1>2, InsertStep DEF AddWklen
<1>3. CASE \E e \in Ents : RemoveEnt(e)
  <2>1. PICK e \in Ents : RemoveEnt(e)
    BY <1>3
  <2>2. find_key = NoKey /\ find_ent = Null /\ want \in {"none", "find", "remove"}
    BY <2>1 DEF RemoveEnt, MayChange, Ready, IInv, LoopInv, TypeOK
  <2> QED BY <2>1, <2>2, RemoveStep DEF RemoveEnt, MayChange, Listed, finding
<1> QED BY <1>1, <1>2, <1>3 DEF Change

-----------------------------------------------------------------------------
(* The steps that look. *)

\* What only reads the map keeps everything said about the map.
LEMMA MapFrame ==
  ASSUME IInv,
         UNCHANGED <<live, fields, ents, ent_list, n_entries>>,
         loop' = loop \/ loop \in {"none", "each"}
  PROVE  /\ SizeIsExact' /\ ChainsMatchList'
         /\ Listed' = Listed
         /\ \A e, f : Before(e, f)' <=> Before(e, f)
         /\ \A e, k : Matches(e, k)' <=> Matches(e, k)
<1>1. /\ live' = live /\ key' = key /\ hash' = hash /\ next' = next /\ prev' = prev
      /\ ents' = ents /\ ent_list' = ent_list /\ n_entries' = n_entries
  BY DEF fields
<1>2. Listed' = Listed /\ \A e, f : Before(e, f)' <=> Before(e, f)
  BY <1>1 DEF Listed, Before
<1>3. \A e, f : /\ SameBucket(e, f)' <=> SameBucket(e, f)
                /\ Adjacent(e, f)' <=> Adjacent(e, f)
  BY <1>1, <1>2 DEF SameBucket, Adjacent
<1>4. ChainsMatchList'
  BY <1>1, <1>2, <1>3 DEF IInv, ChainsMatchList
<1>5. SizeIsExact' /\ \A e, k : Matches(e, k)' <=> Matches(e, k)
  BY <1>1 DEF IInv, SizeIsExact, Matches
<1> QED BY <1>2, <1>4, <1>5

\* A lookup's cursor may be on any listed entry for which WalkInv holds.
LEMMA CursorStep ==
  ASSUME IInv,
         UNCHANGED <<live, fields, ents, ent_list, n_entries, looping>>,
         want' \in {"none", "find", "remove"},
         NEW k \in Keys \cup {NoKey}, find_key' = k,
         find_ent' \in Listed \cup {Null},
         ret' \in Ents \cup {Null, NoAnswer},
         Ready' => find_ent' = Null,
         ~Ready' => loop \in {"none", "each", "clear"},
         ~Ready' /\ want' = "remove" =>
           loop = "none" \/ (loop = "each" /\ ~IsFirstMatch(cur, k)),
         WalkInv'
  PROVE  IInv'
<1>1. /\ live' = live /\ key' = key /\ hash' = hash /\ next' = next /\ prev' = prev
      /\ ents' = ents /\ ent_list' = ent_list /\ n_entries' = n_entries
      /\ loop' = loop /\ cur' = cur /\ save' = save /\ owed' = owed
  BY DEF fields, looping
<1>2. /\ SizeIsExact' /\ ChainsMatchList' /\ Listed' = Listed
      /\ \A e, f : Before(e, f)' <=> Before(e, f)
  BY <1>1, MapFrame DEF fields
<1>3. Listed \subseteq Ents
  BY ListedType DEF IInv
<1>4. TypeOK'
  BY <1>1, <1>3 DEF IInv, TypeOK
<1>5. EntriesOwned'
  BY <1>1, <1>2 DEF IInv, EntriesOwned
<1>6. LookupsSafe'
  BY <1>1, <1>2 DEF IInv, LookupsSafe
<1>7. LoopInv'
  <2>1. ASSUME ~Ready', want' = "remove"
        PROVE  loop' = "none" \/ (loop' = "each" /\ ~IsFirstMatch(cur, find_key)')
    <3>1. loop = "none" \/ (loop = "each" /\ ~IsFirstMatch(cur, k))
      BY <2>1
    <3>2. PICK c : c = cur
      OBVIOUS
    <3>3. IsFirstMatch(c, k)' <=> IsFirstMatch(c, k)
      BY <1>1 DEF IsFirstMatch, Matches, Before, Listed
    <3>4. IsFirstMatch(cur, find_key)' <=> IsFirstMatch(c, k)'
      BY <1>1, <3>2 DEF IsFirstMatch, Matches
    <3> QED BY <1>1, <3>1, <3>2, <3>3, <3>4
  <2> QED BY <1>1, <1>2, <2>1 DEF IInv, LoopInv
<1> QED BY <1>2, <1>4, <1>5, <1>6, <1>7 DEF IInv

\* What remains to be shown of a lookup that moves its cursor to g.
LEMMA WalkFrame ==
  ASSUME IInv,
         UNCHANGED <<live, fields, ents, ent_list, n_entries, looping>>,
         NEW g, NEW k, find_ent' = g, find_key' = k,
         loop \in {"none", "each"} =>
           /\ g # Null => Bucket(hash[g]) = Bucket(Hash[k])
           /\ \A f \in Listed : Matches(f, k) =>
                g # Null /\ (f = g \/ Before(g, f))
  PROVE  WalkInv'
<1>1. /\ key' = key /\ hash' = hash /\ ent_list' = ent_list /\ loop' = loop
      /\ Listed' = Listed
  BY DEF fields, looping, Listed
<1>2. \A f : Before(find_ent, f)' <=> Before(g, f)
  BY <1>1 DEF Before
<1>3. \A f : Matches(f, find_key)' <=> Matches(f, k)
  BY <1>1 DEF Matches
<1>4. SUFFICES ASSUME loop \in {"none", "each"}
               PROVE  /\ g # Null => Bucket(hash'[g]) = Bucket(Hash[k])
                      /\ \A f \in Listed : Matches(f, find_key)' =>
                           g # Null /\ (f = g \/ Before(find_ent, f)')
  BY <1>1 DEF WalkInv
<1> QED BY <1>1, <1>2, <1>3, <1>4

LEMMA FindStartStep ==
  ASSUME IInv, NEW k \in Keys, NEW w \in {"find", "remove"}, FindStart(k, w)
  PROVE  IInv'
<1> DEFINE b == Bucket(Hash[k])
<1>0. PICK g : g = ents[b]
  OBVIOUS
<1>1. /\ find_key' = k /\ want' = w /\ find_ent' = g /\ ret' = NoAnswer
      /\ loop \in {"none", "each", "clear"}
      /\ w = "remove" => loop = "none" \/ (loop = "each" /\ ~IsFirstMatch(cur, k))
  BY <1>0 DEF FindStart, MayChange
<1>2. b \in Buckets /\ k # NoKey /\ TypeOK
  BY BucketType, HashAssumption, EntsAssumption DEF IInv
<1>3. find_ent' \in Listed \cup {Null}
  BY <1>0, <1>1, <1>2 DEF IInv, LookupsSafe
<1>4. UNCHANGED <<live, fields, ents, ent_list, n_entries, looping>>
  BY DEF FindStart
<1>5. WalkInv'
  <2>1. SUFFICES ASSUME loop \in {"none", "each"}
                 PROVE  /\ g # Null => Bucket(hash[g]) = b
                        /\ \A f \in Listed : Matches(f, k) =>
                             g # Null /\ (f = g \/ Before(g, f))
    BY <1>1, <1>4, WalkFrame
  <2>2. /\ g # Null =>
              /\ g \in Listed /\ Bucket(hash[g]) = b
              /\ \A f \in Listed : Bucket(hash[f]) = b => ~Before(f, g)
        /\ g = Null => \A f \in Listed : Bucket(hash[f]) # b
    BY <1>0, <1>2, <2>1 DEF IInv, ChainsMatchList
  <2>3. \A e, f \in Listed : e = f \/ Before(e, f) \/ Before(f, e)
    BY BeforeOrder DEF IInv, EntriesOwned
  <2>4. \A f : Matches(f, k) => Bucket(hash[f]) = b
    BY DEF Matches
  <2> QED BY <2>2, <2>3, <2>4
<1> QED BY <1>1, <1>2, <1>3, <1>4, <1>5, CursorStep DEF Ready

LEMMA FindStepStep ==
  ASSUME IInv, FindStep
  PROVE  IInv'
<1>0. PICK g, k : g = next[find_ent] /\ k = find_key
  OBVIOUS
<1>1. /\ find_key' = k /\ want' = want /\ ret' = ret
      /\ find_ent' = g /\ find_ent # Null /\ ~Ready
      /\ ~Matches(find_ent, k)
  BY <1>0 DEF FindStep
<1>2. /\ loop \in {"none", "each", "clear"}
      /\ want = "remove" => loop = "none" \/ (loop = "each" /\ ~IsFirstMatch(cur, k))
      /\ find_ent \in Listed /\ g \in Listed \cup {Null} /\ TypeOK
  BY <1>0, <1>1 DEF IInv, LoopInv, LookupsSafe
<1>3. UNCHANGED <<live, fields, ents, ent_list, n_entries, looping>>
  BY DEF FindStep
<1>4. WalkInv'
  <2>1. SUFFICES ASSUME loop \in {"none", "each"}
                 PROVE  /\ g # Null => Bucket(hash[g]) = Bucket(Hash[k])
                        /\ \A f \in Listed : Matches(f, k) =>
                             g # Null /\ (f = g \/ Before(g, f))
    BY <1>1, <1>3, WalkFrame
  <2>2. /\ Bucket(hash[find_ent]) = Bucket(Hash[k])
        /\ \A f \in Listed : Matches(f, k) => Before(find_ent, f)
    BY <1>0, <1>1, <2>1 DEF IInv, WalkInv
  <2>3. /\ g # Null => Adjacent(find_ent, g)
        /\ g = Null =>
             \A f \in Listed : SameBucket(find_ent, f) => ~Before(find_ent, f)
    BY <1>0, <1>2, <2>1 DEF IInv, ChainsMatchList
  <2>4. \A e, f \in Listed : e = f \/ Before(e, f) \/ Before(f, e)
    BY BeforeOrder DEF IInv, EntriesOwned
  <2>5. \A f : Matches(f, k) => Bucket(hash[f]) = Bucket(Hash[k])
    BY DEF Matches
  <2> QED BY <2>2, <2>3, <2>4, <2>5 DEF Adjacent, SameBucket
<1> QED BY <1>0, <1>1, <1>2, <1>3, <1>4, CursorStep DEF Ready, TypeOK, IInv

\* The end of a lookup, whatever it returns.
LEMMA FindDoneStep ==
  ASSUME IInv, FindDone, ret' \in Ents \cup {Null, NoAnswer},
         UNCHANGED <<live, fields, ents, ent_list, n_entries, looping>>
  PROVE  IInv'
<1>1. find_key' = NoKey /\ find_ent' = Null /\ want' = "none" /\ Ready'
  BY DEF FindDone, Ready
<1>2. WalkInv'
  BY <1>1 DEF WalkInv, Ready
<1> QED BY <1>1, <1>2, CursorStep

\* The entry a lookup stops at is the first match.
LEMMA StopsAtFirst ==
  ASSUME IInv, ~Ready, loop # "clear", find_ent # Null => Matches(find_ent, find_key)
  PROVE  IsFirstMatch(find_ent, find_key)
<1>1. /\ loop \in {"none", "each"}
      /\ find_ent # Null => find_ent \in Listed
  BY DEF IInv, LoopInv, LookupsSafe
<1>2. \A f \in Listed : Matches(f, find_key) =>
        find_ent # Null /\ (f = find_ent \/ Before(find_ent, f))
  BY <1>1 DEF IInv, WalkInv
<1>3. /\ \A e : ~Before(e, e)
      /\ \A e, f, g : Before(e, f) /\ Before(f, g) => Before(e, g)
  BY BeforeOrder DEF IInv, EntriesOwned
<1> QED BY <1>1, <1>2, <1>3 DEF IsFirstMatch

\* What a removal by key takes off the map.
LEMMA HitRemovable ==
  ASSUME IInv, RemoveHit
  PROVE  /\ loop \in {"none", "each"} /\ find_ent \in Listed
         /\ find_ent # cur \/ loop = "none"
<1>1. /\ ~Ready /\ want = "remove" /\ find_ent # Null /\ Matches(find_ent, find_key)
      /\ loop = "none" \/ (loop = "each" /\ ~IsFirstMatch(cur, find_key))
  BY DEF RemoveHit, IInv, LoopInv
<1>2. find_ent \in Listed /\ IsFirstMatch(find_ent, find_key)
  BY <1>1, StopsAtFirst DEF IInv, LookupsSafe
<1> QED BY <1>1, <1>2

LEMMA LookupStep ==
  ASSUME IInv, Lookup
  PROVE  IInv'
<1>1. CASE \E k \in Keys, w \in {"find", "remove"} : FindStart(k, w)
  BY <1>1, FindStartStep
<1>2. CASE FindStep
  BY <1>2, FindStepStep
<1>3. CASE FindEnd
  <2>1. ret' \in Ents \cup {Null, NoAnswer}
    BY <1>3 DEF FindEnd, IInv, TypeOK
  <2> QED BY <1>3, <2>1, FindDoneStep DEF FindEnd
<1>4. CASE RemoveMiss
  <2>1. ret' \in Ents \cup {Null, NoAnswer}
    BY <1>4 DEF RemoveMiss, IInv, TypeOK
  <2> QED BY <1>4, <2>1, FindDoneStep DEF RemoveMiss
<1>5. CASE RemoveHit
  <2>1. /\ loop \in {"none", "each"} /\ find_ent \in Listed
        /\ find_ent # cur \/ loop = "none"
    BY <1>5, HitRemovable
  <2> QED BY <1>5, <2>1, RemoveStep DEF RemoveHit, FindDone
<1> QED BY <1>1, <1>2, <1>3, <1>4, <1>5 DEF Lookup

-----------------------------------------------------------------------------
(* Iteration. *)

\* SLIST_NEXT of an entry on the list is an entry on the list, or Null.
LEMMA ListNextType ==
  ASSUME TypeOK, NEW e \in Listed
  PROVE  /\ Position(e) \in 1..Len(ent_list) /\ ent_list[Position(e)] = e
         /\ ListNext(e) \in Listed \cup {Null}
<1>1. ent_list \in Seq(Ents) /\ Len(ent_list) \in Nat
  BY LenProperties DEF TypeOK
<1>2. \A x : x \in Listed <=> \E i \in 1..Len(ent_list) : ent_list[i] = x
  BY <1>1, ToSetMember DEF Listed
<1>3. Position(e) \in 1..Len(ent_list) /\ ent_list[Position(e)] = e
  BY <1>2 DEF Position
<1>4. CASE Position(e) = Len(ent_list)
  BY <1>3, <1>4 DEF ListNext
<1>5. CASE Position(e) # Len(ent_list)
  <2>1. Position(e) + 1 \in 1..Len(ent_list)
    BY <1>1, <1>3, <1>5
  <2> QED BY <1>2, <1>3, <1>5, <2>1 DEF ListNext
<1> QED BY <1>3, <1>4, <1>5

\* for_each begins, goes on or ends: only its own variables change.
LEMMA IterStep ==
  ASSUME IInv, Ready, loop \in {"none", "each"},
         UNCHANGED <<live, fields, ents, ent_list, n_entries, save, finding>>,
         loop' \in {"none", "each"},
         cur' \in Ents \cup {Null}, owed' \in SUBSET Ents, ret' = NoAnswer,
         loop' = "each" => cur' \in Listed
  PROVE  IInv'
<1>1. /\ live' = live /\ key' = key /\ hash' = hash /\ next' = next /\ prev' = prev
      /\ ents' = ents /\ ent_list' = ent_list /\ n_entries' = n_entries
      /\ want' = want /\ find_key' = find_key /\ find_ent' = find_ent /\ save' = save
  BY DEF fields, finding
<1>2. /\ SizeIsExact' /\ ChainsMatchList' /\ Listed' = Listed
  BY <1>1, MapFrame DEF fields
<1>3. TypeOK'
  BY <1>1 DEF IInv, TypeOK
<1>4. EntriesOwned'
  BY <1>1, <1>2 DEF IInv, EntriesOwned
<1>5. LookupsSafe'
  BY <1>1, <1>2 DEF IInv, LookupsSafe
<1>6. LoopInv' /\ WalkInv'
  BY <1>1 DEF IInv, LoopInv, WalkInv, Ready
<1> QED BY <1>2, <1>3, <1>4, <1>5, <1>6 DEF IInv

LEMMA IterateStep ==
  ASSUME IInv, Iterate
  PROVE  IInv'
<1>0. TypeOK /\ Listed \subseteq Ents /\ owed \in SUBSET Ents
  BY ListedType DEF IInv, TypeOK
<1>1. CASE ForEachStart
  <2>1. Head(ent_list) \in Listed
    BY <1>1, TailList DEF ForEachStart, IInv, EntriesOwned, TypeOK, Listed
  <2>2. cur' \in Listed /\ owed' \in SUBSET Ents
    BY <1>0, <1>1, <2>1 DEF ForEachStart, Listed
  <2> QED BY <1>0, <1>1, <2>2, IterStep DEF ForEachStart
<1>2. CASE ForEachNext
  <2>1. cur \in Listed
    BY <1>2 DEF ForEachNext, IInv, EntriesOwned
  <2>2. cur' \in Listed /\ owed' \in SUBSET Ents
    BY <1>0, <1>2, <2>1, ListNextType DEF ForEachNext
  <2> QED BY <1>0, <1>2, <2>2, IterStep DEF ForEachNext
<1>3. CASE Ready /\ loop = "each" /\ LeaveEach
  BY <1>3, IterStep DEF LeaveEach
<1> QED BY <1>1, <1>2, <1>3 DEF Iterate, ForEachEnd, ForEachStop

-----------------------------------------------------------------------------
(* Emptying. *)

\* Taking the first entry off the list, and where the loop goes on.
LEMMA DetachList ==
  ASSUME TypeOK, IsInjective(ent_list), ent_list # <<>>,
         NEW h, h = Head(ent_list), ent_list' = Unlink(ent_list, h)
  PROVE  /\ h \in Listed /\ \A e : ~Before(e, h)
         /\ ListNext(h) = IF ent_list' = <<>> THEN Null ELSE Head(ent_list')
<1>1. ent_list \in Seq(Ents) /\ Len(ent_list) \in Nat \ {0} /\ h = ent_list[1]
  BY EmptySeq, LenProperties DEF TypeOK
<1>2. h \in Listed /\ \A e : ~Before(e, h)
  <2>1. h \in ToSet(ent_list) /\ \A e : ~Precedes(ent_list, e, h)
    BY <1>1, TailList, HeadPrecedes
  <2>2. \A e : Before(e, h) <=> Precedes(ent_list, e, h)
    BY DEF Before, Precedes
  <2> QED BY <2>1, <2>2 DEF Listed
<1>3. Position(h) = 1
  <2>1. Position(h) \in 1..Len(ent_list) /\ ent_list[Position(h)] = h
    BY <1>2, ListNextType
  <2>2. \A i, j \in 1..Len(ent_list) : ent_list[i] = ent_list[j] => i = j
    BY <1>1, InjectiveByIndex
  <2> QED BY <1>1, <2>1, <2>2
<1>4. /\ ent_list' \in Seq(Ents) /\ Len(ent_list') = Len(ent_list) - 1
      /\ \A i \in 1..Len(ent_list) - 1 :
           ent_list'[i] = IF i < 1 THEN ent_list[i] ELSE ent_list[i + 1]
  <2>1. 1 \in 1..Len(ent_list) /\ ent_list' = RemoveFirst(ent_list, ent_list[1])
    BY <1>1 DEF Unlink
  <2> QED BY ONLY <1>1, <2>1, IsInjective(ent_list), UnlinkIndex
<1>5. CASE Len(ent_list) = 1
  <2>1. ent_list' = <<>>
    BY <1>4, <1>5, EmptySeq
  <2> QED BY <1>2, <1>3, <1>5, <2>1 DEF ListNext
<1>6. CASE Len(ent_list) # 1
  <2>1. PICK t : t = ent_list'
    OBVIOUS
  <2>2. t \in Seq(Ents) /\ Len(t) \in Nat \ {0} /\ 1 \in 1..(Len(ent_list) - 1)
    <3>1. PICK m \in Nat \ {0} : m = Len(ent_list) /\ m # 1
      BY <1>1, <1>6
    <3>2. t \in Seq(Ents) /\ Len(t) = m - 1
      BY <1>4, <2>1, <3>1
    <3>3. m - 1 \in Nat \ {0} /\ 1 \in 1..(m - 1)
      BY <3>1
    <3> QED BY <3>1, <3>2, <3>3
  <2>3. t # <<>> /\ Head(t) = t[1]
    BY <2>2, EmptySeq
  <2>4. t[1] = ent_list[1 + 1]
    BY <1>4, <2>1, <2>2
  <2> QED BY <1>2, <1>3, <1>6, <2>1, <2>3, <2>4 DEF ListNext
<1> QED BY <1>5, <1>6

\* One round of clear or free up to the callback.  The memory of an entry
\* freed before it may have changed, the entries on the list have not.
LEMMA DetachStep ==
  ASSUME IInv, Ready, ent_list # <<>>,
         loop \in {"none", "clear", "free"}, loop' \in {"clear", "free"},
         loop = "none" \/ loop' = loop,
         Detach(Head(ent_list)),
         UNCHANGED <<n_entries, owed, finding>>,
         live' = Listed,
         key' \in [Ents -> Keys \cup {NoKey}], hash' \in [Ents -> Nat],
         next' \in [Ents -> Ents \cup {Null}], prev' \in [Ents -> Ents \cup {Null}],
         \A x \in Listed : hash'[x] = hash[x] /\ next'[x] = next[x]
  PROVE  IInv'
<1>0. PICK h : h = Head(ent_list)
  OBVIOUS
<1>1. /\ cur' = h /\ save' = ListNext(h) /\ ent_list' = Unlink(ent_list, h)
      /\ ret' = NoAnswer
      /\ n_entries' = n_entries /\ owed' = owed
      /\ want' = want /\ find_key' = find_key /\ find_ent' = find_ent
  BY <1>0 DEF Detach, finding
<1>2. /\ TypeOK /\ IsInjective(ent_list) /\ Listed \subseteq Ents /\ Null \notin Ents
  BY ListedType, EntsAssumption DEF IInv, EntriesOwned
<1>3. /\ h \in Listed /\ \A e : ~Before(e, h)
      /\ ListNext(h) = IF ent_list' = <<>> THEN Null ELSE Head(ent_list')
  BY <1>0, <1>1, <1>2, DetachList
<1>4. /\ ent_list' \in Seq(Ents) /\ IsInjective(ent_list')
      /\ Listed' = Listed \ {h}
      /\ \A x, y : Before(x, y)' <=> Before(x, y) /\ x # h /\ y # h
  BY <1>1, <1>2, <1>3, RemoveList
<1>5. Bucket(hash[h]) \in Buckets
  BY <1>2, <1>3, BucketType DEF TypeOK
<1>6. ents' = IF loop' = "clear" THEN [ents EXCEPT ![Bucket(hash[h])] = Null]
              ELSE ents
  BY <1>0 DEF Detach
<1>7. ents' \in [Buckets -> Ents \cup {Null}]
  BY <1>2, <1>5, <1>6 DEF TypeOK
<1>8. TypeOK'
  <2>1. ListNext(h) \in Ents \cup {Null}
    BY <1>2, <1>3, ListNextType
  <2> QED BY <1>1, <1>2, <1>3, <1>4, <1>7, <2>1 DEF TypeOK
<1>9. EntriesOwned'
  BY <1>1, <1>2, <1>3, <1>4 DEF EntriesOwned
<1>10. find_ent = Null /\ Ready'
  BY <1>1 DEF IInv, LoopInv, Ready
<1>11. ASSUME loop' = "clear"
       PROVE  /\ \A e \in Listed : next[e] # Null =>
                   next[e] \in Listed /\ Before(e, next[e])
              /\ \A b \in Buckets : ents[b] # Null =>
                   ents[b] \in Listed /\ Bucket(hash[ents[b]]) = b
  <2>1. CASE loop = "none"
    BY <2>1 DEF IInv, ChainsMatchList, Adjacent
  <2>2. CASE loop = "clear"
    BY <2>2 DEF IInv, LoopInv, LookupsSafe
  <2> QED BY <1>11, <2>1, <2>2
<1>12. ASSUME loop' = "clear"
       PROVE  /\ \A e \in Listed' : next'[e] # Null =>
                   next'[e] \in Listed' /\ Before(e, next[e])'
              /\ \A b \in Buckets : ents'[b] # Null =>
                   ents'[b] \in Listed' /\ Bucket(hash'[ents'[b]]) = b
  <2>1. ASSUME NEW e \in Listed', next'[e] # Null
        PROVE  next'[e] \in Listed' /\ Before(e, next[e])'
    <3>1. PICK n : n = next[e]
      OBVIOUS
    <3>2. next'[e] = n /\ n \in Listed /\ Before(e, n) /\ e # h
      BY <1>4, <1>11, <1>12, <2>1, <3>1
    <3>3. n # h
      BY <1>3, <3>2
    <3> QED BY <1>4, <3>2, <3>3
  <2>2. ASSUME NEW b \in Buckets, ents'[b] # Null
        PROVE  ents'[b] \in Listed' /\ Bucket(hash'[ents'[b]]) = b
    <3>1. b # Bucket(hash[h]) /\ ents'[b] = ents[b]
      BY <1>2, <1>5, <1>6, <1>12, <2>2 DEF TypeOK
    <3> QED BY <1>4, <1>11, <1>12, <2>2, <3>1
  <2> QED BY <2>1, <2>2
<1>13. LookupsSafe'
  BY <1>1, <1>10, <1>12 DEF LookupsSafe
<1>14. LoopInv'
  BY <1>1, <1>10, <1>12 DEF LoopInv
<1>15. WalkInv' /\ ChainsMatchList' /\ SizeIsExact'
  BY <1>10 DEF WalkInv, ChainsMatchList, SizeIsExact
<1> QED BY <1>8, <1>9, <1>13, <1>14, <1>15 DEF IInv

\* The last entry is freed, or there was none.
LEMMA EmptiedStep ==
  ASSUME IInv, Ready, ent_list = <<>>,
         UNCHANGED <<ent_list, save, owed, finding>>,
         live' = {}, ret' = NoAnswer,
         key' \in [Ents -> Keys \cup {NoKey}], hash' \in [Ents -> Nat],
         next' \in [Ents -> Ents \cup {Null}], prev' \in [Ents -> Ents \cup {Null}],
         cur' \in Ents \cup {Null}, n_entries' \in Int,
         ents' \in [Buckets -> Ents \cup {Null}],
         \/ loop' = "gone"
         \/ /\ loop' = "none" /\ n_entries' = 0
            /\ \A b \in Buckets : ents'[b] = Null
  PROVE  IInv'
<1>1. Listed' = {} /\ IsInjective(ent_list') /\ Len(ent_list') = 0
  BY EmptyList DEF Listed
<1>2. /\ ent_list' = ent_list /\ save' = save /\ owed' = owed
      /\ want' = want /\ find_key' = find_key /\ find_ent' = find_ent
  BY DEF finding
<1>3. find_ent' = Null /\ Ready'
  BY <1>2 DEF IInv, LoopInv, Ready
<1>4. TypeOK'
  BY <1>2 DEF IInv, TypeOK
<1>5. EntriesOwned' /\ SizeIsExact'
  BY <1>1 DEF EntriesOwned, SizeIsExact
<1>6. ChainsMatchList'
  BY <1>1 DEF ChainsMatchList
<1>7. LookupsSafe' /\ LoopInv' /\ WalkInv'
  BY <1>1, <1>3 DEF LookupsSafe, LoopInv, WalkInv
<1> QED BY <1>4, <1>5, <1>6, <1>7 DEF IInv

LEMMA EmptyStep ==
  ASSUME IInv, Empty
  PROVE  IInv'
<1>1. TypeOK /\ Null \notin Ents /\ Listed \subseteq Ents
  BY ListedType, EntsAssumption DEF IInv
<1>2. CASE \E how \in {"clear", "free"} : EmptyStart(how)
  <2>1. PICK how \in {"clear", "free"} : EmptyStart(how)
    BY <1>2
  <2>2. /\ live' = live /\ key' = key /\ hash' = hash /\ next' = next /\ prev' = prev
    BY <2>1 DEF EmptyStart, fields
  <2>3. live = Listed
    BY <2>1 DEF EmptyStart, IInv, EntriesOwned
  <2>4. /\ key' \in [Ents -> Keys \cup {NoKey}] /\ hash' \in [Ents -> Nat]
        /\ next' \in [Ents -> Ents \cup {Null}] /\ prev' \in [Ents -> Ents \cup {Null}]
    BY <1>1, <2>2 DEF TypeOK
  <2> QED BY <2>1, <2>2, <2>3, <2>4, DetachStep DEF EmptyStart
<1>3. ASSUME loop \in {"clear", "free"}, Release(cur),
             next' = [next EXCEPT ![cur] = Null],
             prev' = [prev EXCEPT ![cur] = Null]
      PROVE  /\ live' = Listed
             /\ key' \in [Ents -> Keys \cup {NoKey}] /\ hash' \in [Ents -> Nat]
             /\ next' \in [Ents -> Ents \cup {Null}]
             /\ prev' \in [Ents -> Ents \cup {Null}]
             /\ \A x \in Listed : hash'[x] = hash[x] /\ next'[x] = next[x]
  <2>1. /\ live = Listed \cup {cur} /\ cur \notin Listed /\ cur \in Ents
    BY <1>1, <1>3 DEF IInv, EntriesOwned, TypeOK
  <2> QED BY <1>1, <1>3, <2>1 DEF Release, TypeOK
<1>4. CASE EmptyNext
  <2>1. save = Head(ent_list) /\ ent_list # <<>>
    BY <1>4 DEF EmptyNext, IInv, EntriesOwned
  <2> QED BY <1>3, <1>4, <2>1, DetachStep DEF EmptyNext
<1>5. CASE EmptyEnd
  <2>1. ent_list = <<>>
    <3>1. ASSUME ent_list # <<>> PROVE FALSE
      <4>1. Head(ent_list) = Null
        BY <1>5, <3>1 DEF EmptyEnd, IInv, EntriesOwned
      <4>2. Head(ent_list) \in Ents
        BY <1>1, <3>1, EmptySeq DEF TypeOK
      <4> QED BY <1>1, <4>1, <4>2
    <3> QED BY <3>1
  <2>2. Listed = {}
    BY <2>1, EmptyList DEF Listed
  <2>3. /\ live' = {} /\ ents' = ents /\ ret' = NoAnswer /\ cur' = Null
        /\ key' \in [Ents -> Keys \cup {NoKey}] /\ hash' \in [Ents -> Nat]
        /\ next' \in [Ents -> Ents \cup {Null}] /\ prev' \in [Ents -> Ents \cup {Null}]
    BY <1>3, <1>5, <2>2 DEF EmptyEnd
  <2>4. n_entries' \in Int /\ ents' \in [Buckets -> Ents \cup {Null}]
    BY <1>1, <1>5 DEF EmptyEnd, TypeOK
  <2>5. \/ loop' = "gone"
        \/ /\ loop' = "none" /\ n_entries' = 0
           /\ \A b \in Buckets : ents'[b] = Null
    BY <1>5, <2>2, <2>3 DEF EmptyEnd, IInv, LookupsSafe
  <2> QED BY <1>5, <2>1, <2>3, <2>4, <2>5, EmptiedStep DEF EmptyEnd
<1>6. CASE FreeEmpty
  <2>1. Listed = {} /\ live = {}
    BY <1>6, EmptyList DEF Listed, FreeEmpty, IInv, EntriesOwned
  <2>2. /\ live' = live /\ key' = key /\ hash' = hash /\ next' = next /\ prev' = prev
        /\ ents' = ents /\ n_entries' = n_entries /\ cur' = cur
    BY <1>6 DEF FreeEmpty, fields
  <2> QED BY <1>1, <1>6, <2>1, <2>2, EmptiedStep DEF FreeEmpty, TypeOK
<1> QED BY <1>2, <1>4, <1>5, <1>6 DEF Empty

LEMMA NewStep ==
  ASSUME IInv, New
  PROVE  IInv'
<1>1. /\ loop' = "none" /\ n_entries' = 0 /\ ent_list' = <<>> /\ ret' = NoAnswer
      /\ live' = live /\ key' = key /\ hash' = hash /\ next' = next /\ prev' = prev
      /\ cur' = cur /\ save' = save /\ owed' = owed
      /\ want' = want /\ find_key' = find_key /\ find_ent' = find_ent
  BY DEF New, fields, finding
<1>2. ents' = [b \in Buckets |-> Null]
  BY DEF New
<1>3. live = {} /\ Ready /\ find_ent = Null
  BY DEF New, IInv, EntriesOwned, LoopInv
<1>4. Listed' = {} /\ IsInjective(ent_list') /\ Len(ent_list') = 0
  BY <1>1, EmptyList DEF Listed
<1>5. TypeOK'
  BY <1>1, <1>2 DEF IInv, TypeOK
<1>6. EntriesOwned' /\ SizeIsExact' /\ ChainsMatchList'
  BY <1>1, <1>2, <1>3, <1>4 DEF EntriesOwned, SizeIsExact, ChainsMatchList
<1>7. LookupsSafe' /\ LoopInv' /\ WalkInv'
  BY <1>1, <1>2, <1>3, <1>4 DEF LookupsSafe, LoopInv, WalkInv, Ready
<1> QED BY <1>5, <1>6, <1>7 DEF IInv

-----------------------------------------------------------------------------

LEMMA InitIInv == Init => IInv
<1>1. SUFFICES ASSUME Init PROVE IInv
  OBVIOUS
<1>2. Listed = {} /\ IsInjective(ent_list) /\ Len(ent_list) = 0
  BY <1>1, EmptyList DEF Init, Listed
<1>3. TypeOK
  BY <1>1 DEF Init, TypeOK
<1>4. EntriesOwned /\ SizeIsExact /\ ChainsMatchList
  BY <1>1, <1>2 DEF Init, EntriesOwned, SizeIsExact, ChainsMatchList
<1>5. LookupsSafe /\ LoopInv /\ WalkInv
  BY <1>1, <1>2 DEF Init, LookupsSafe, LoopInv, WalkInv, Ready
<1> QED BY <1>3, <1>4, <1>5 DEF IInv

LEMMA StutterStep ==
  ASSUME IInv, UNCHANGED vars
  PROVE  IInv'
<1>1. /\ UNCHANGED <<live, fields, ents, ent_list, n_entries, looping>>
      /\ find_ent' = find_ent /\ find_key' = find_key /\ want' = want /\ ret' = ret
      /\ loop' = loop
  BY DEF vars, fields, looping
<1>2. PICK g, k : g = find_ent /\ k = find_key
  OBVIOUS
<1>3. WalkInv'
  <2>1. CASE Ready
    BY <1>1, <2>1 DEF WalkInv, Ready
  <2>2. CASE ~Ready /\ loop \in {"none", "each"}
    <3>1. /\ g # Null => Bucket(hash[g]) = Bucket(Hash[k])
          /\ \A f \in Listed : Matches(f, k) =>
               g # Null /\ (f = g \/ Before(g, f))
      BY <1>2, <2>2 DEF IInv, WalkInv
    <3> QED BY <1>1, <1>2, <3>1, WalkFrame
  <2>3. CASE loop \notin {"none", "each"}
    BY <1>1, <2>3 DEF WalkInv
  <2> QED BY <2>1, <2>2, <2>3
<1>4. find_ent \in Listed \cup {Null}
  BY DEF IInv, LookupsSafe, LoopInv
<1> QED BY <1>1, <1>3, <1>4, CursorStep DEF IInv, TypeOK, LoopInv, Ready

LEMMA NextIInv == IInv /\ [Next]_vars => IInv'
BY ChangeStep, LookupStep, IterateStep, EmptyStep, NewStep, StutterStep DEF Next

\* The two structures of the map, its counter, its loops and its running
\* lookup always fit together (the strengthened invariant).
THEOREM Invariance == Spec => []IInv
BY InitIInv, NextIInv, PTL DEF Spec

\* Every variable keeps its type: every pointer is an entry or NULL.
THEOREM TypeCorrect == Spec => []TypeOK
<1>1. IInv => TypeOK
  BY DEF IInv
<1> QED BY <1>1, Invariance, PTL

\* Outside clear and free every bucket's chain is the list of all entries
\* restricted to the bucket, after any sequence of insertions and removals,
\* those made inside for_each included.
THEOREM ChainsAgree == Spec => []ChainsMatchList
<1>1. IInv => ChainsMatchList
  BY DEF IInv
<1> QED BY <1>1, Invariance, PTL

\* No lookup, in the program or in a callback, reaches a freed entry.
THEOREM NoDanglingLookup == Spec => []LookupsSafe
<1>1. IInv => LookupsSafe
  BY DEF IInv
<1> QED BY <1>1, Invariance, PTL

\* lz_kvmap_get_size counts the entries.
THEOREM SizeCorrect == Spec => []SizeIsExact
<1>1. IInv => SizeIsExact
  BY DEF IInv
<1> QED BY <1>1, Invariance, PTL

\* Every entry malloc'd is on the list once or inside its freefn, so each is
\* freed once and a freed map leaves none.
THEOREM NoEntryLost == Spec => []EntriesOwned
<1>1. IInv => EntriesOwned
  BY DEF IInv
<1> QED BY <1>1, Invariance, PTL

\* A lookup that walks a bucket's chain returns what a search of the whole
\* list would: the newest entry that satisfies the comparison, or NULL.
THEOREM WalkFindsFirst == Spec => FindsFirstMatch
<1>1. IInv /\ FindEnd /\ loop # "clear" => IsFirstMatch(find_ent, find_key)
  <2>1. SUFFICES ASSUME IInv, FindEnd, loop # "clear"
                 PROVE  IsFirstMatch(find_ent, find_key)
    OBVIOUS
  <2> QED BY <2>1, StopsAtFirst DEF FindEnd
<1>2. IInv /\ [Next]_vars =>
        [FindEnd /\ loop # "clear" => IsFirstMatch(find_ent, find_key)]_vars
  BY <1>1
<1> QED BY <1>2, Invariance, PTL DEF Spec, FindsFirstMatch

-----------------------------------------------------------------------------
(* What for_each still owes. *)

\* While iterfn runs, the entries for_each still has to visit are those
\* after the current one: iterfn adds in front of it and does not remove it.
OwedInv == loop = "each" => owed = { f \in Listed : Before(cur, f) }

\* ListNext: NULL after the last entry, else the next one in order.
LEMMA ListNextOrder ==
  ASSUME TypeOK, IsInjective(ent_list), NEW e \in Listed
  PROVE  \/ /\ ListNext(e) = Null
            /\ \A f : ~Before(e, f)
         \/ /\ ListNext(e) \in Listed
            /\ \A f : Before(e, f) <=> f = ListNext(e) \/ Before(ListNext(e), f)
<1>1. PICK s, k : s = ent_list /\ k = Position(e)
  OBVIOUS
<1>2. s \in Seq(Ents) /\ IsInjective(s) /\ k \in 1..Len(s) /\ s[k] = e
  BY <1>1, ListNextType DEF TypeOK
<1>3. /\ k = Len(s) => \A f : ~Precedes(s, e, f)
      /\ k # Len(s) =>
           /\ k + 1 \in 1..Len(s)
           /\ \A f : Precedes(s, e, f) <=> f = s[k + 1] \/ Precedes(s, s[k + 1], f)
  BY <1>2, Successor
<1>4. ListNext(e) = IF k = Len(s) THEN Null ELSE s[k + 1]
  BY <1>1 DEF ListNext
<1>5. \A x, y : Before(x, y) <=> Precedes(s, x, y)
  BY <1>1 DEF Before, Precedes
<1>6. k # Len(s) => s[k + 1] \in Listed
  BY <1>1, <1>2, <1>3, ToSetMember DEF Listed
<1> QED BY <1>3, <1>4, <1>5, <1>6

LEMMA OwedStep ==
  ASSUME IInv, OwedInv, [Next]_vars
  PROVE  OwedInv'
<1>1. TypeOK /\ IsInjective(ent_list) /\ (loop = "each" => cur \in Listed)
  BY DEF IInv, EntriesOwned
<1>2. /\ \A e, f : Before(e, f) => e \in Listed /\ f \in Listed
      /\ \A e : ~Before(e, e)
      /\ \A e, f, g : Before(e, f) /\ Before(f, g) => Before(e, g)
  BY <1>1, BeforeOrder
<1>3. ASSUME NEW e \in Ents, NEW k \in Keys, NEW buf \in Keys, Insert(e, k, buf)
      PROVE  OwedInv'
  <2>1. loop' = loop /\ cur' = cur /\ owed' = owed /\ e \notin Listed
    BY <1>3 DEF Insert, looping, IInv, EntriesOwned
  <2>2. /\ Listed' = {e} \cup Listed
        /\ \A x, y : Before(x, y)' <=> Before(x, y) \/ (x = e /\ y \in Listed)
    BY <1>1, <1>3, <2>1, InsertList DEF Insert
  <2>3. loop = "each" => \A f : Before(cur, f)' <=> Before(cur, f)
    BY <1>1, <2>1, <2>2
  <2> QED BY <1>1, <1>2, <2>1, <2>2, <2>3 DEF OwedInv
<1>4. ASSUME NEW e \in Listed, e # cur \/ loop = "none", RemoveEntry(e)
      PROVE  OwedInv'
  <2>1. loop' = loop /\ cur' = cur /\ owed' = owed \ {e}
    BY <1>4 DEF RemoveEntry
  <2>2. /\ Listed' = Listed \ {e}
        /\ \A x, y : Before(x, y)' <=> Before(x, y) /\ x # e /\ y # e
    BY <1>1, <1>4, RemoveList DEF RemoveEntry
  <2>3. loop = "each" => \A f : Before(cur, f)' <=> Before(cur, f) /\ f # e
    BY <1>4, <2>1, <2>2
  <2> QED BY <2>1, <2>2, <2>3 DEF OwedInv
<1>5. CASE Change
  BY <1>3, <1>4, <1>5 DEF Change, Add, AddWklen, RemoveEnt, Listed
<1>6. ASSUME UNCHANGED <<ent_list, looping>> PROVE OwedInv'
  <2>1. loop' = loop /\ cur' = cur /\ owed' = owed /\ ent_list' = ent_list
    BY <1>6 DEF looping
  <2> QED BY <2>1 DEF OwedInv, Before, Listed
<1>7. CASE Lookup
  <2>1. CASE RemoveHit
    <3>1. /\ find_ent \in Listed /\ RemoveEntry(find_ent)
          /\ find_ent # cur \/ loop = "none"
      BY <2>1, HitRemovable DEF RemoveHit
    <3> QED BY <1>4, <3>1
  <2> QED BY <1>6, <1>7, <2>1 DEF Lookup, FindStart, FindStep, FindEnd, RemoveMiss
<1>8. CASE Iterate
  <2>1. CASE ForEachStart
    <3>1. /\ ent_list' = ent_list /\ cur' = Head(ent_list)
          /\ owed' = Listed \ {Head(ent_list)}
          /\ ent_list # <<>> /\ ent_list \in Seq(Ents)
      BY <1>1, <2>1 DEF ForEachStart, Listed, TypeOK
    <3>2. \A e \in Listed : e = Head(ent_list) \/ Precedes(ent_list, Head(ent_list), e)
      BY <1>1, <3>1, HeadPrecedes DEF Listed
    <3>3. \A e, f : /\ Before(e, f) <=> Precedes(ent_list, e, f)
                    /\ Before(e, f)' <=> Precedes(ent_list', e, f)
      BY DEF Before, Precedes
    <3>4. Listed' = Listed
      BY <3>1 DEF Listed
    <3> QED BY <1>2, <3>1, <3>2, <3>3, <3>4 DEF OwedInv
  <2>2. CASE ForEachNext
    <3>1. PICK n : n = ListNext(cur)
      OBVIOUS
    <3>2. /\ ent_list' = ent_list /\ cur' = n /\ n # Null /\ owed' = owed \ {n}
          /\ loop = "each" /\ cur \in Listed
      BY <1>1, <2>2, <3>1 DEF ForEachNext
    <3>3. \A f : Before(cur, f) <=> f = n \/ Before(n, f)
      BY <1>1, <3>1, <3>2, ListNextOrder
    <3>4. Listed' = Listed /\ \A f : Before(cur, f)' <=> Before(n, f)
      BY <3>2 DEF Listed, Before
    <3> QED BY <1>2, <3>2, <3>3, <3>4 DEF OwedInv
  <2>3. CASE LeaveEach
    BY <2>3 DEF LeaveEach, OwedInv
  <2> QED BY <1>8, <2>1, <2>2, <2>3 DEF Iterate, ForEachEnd, ForEachStop
<1>9. CASE Empty \/ New
  BY <1>9 DEF OwedInv, Empty, EmptyStart, EmptyNext, EmptyEnd, FreeEmpty, New
<1>10. CASE UNCHANGED vars
  BY <1>6, <1>10 DEF vars, looping
<1> QED BY <1>5, <1>7, <1>8, <1>9, <1>10 DEF Next

\* lz_kvmap_for_each calls iterfn once for every entry that was there when
\* it began and was not removed meanwhile, and for no other, whatever iterfn
\* adds and removes.
THEOREM IterationComplete == Spec => EachVisitsAll
<1>1. Init => OwedInv
  BY DEF Init, OwedInv
<1>2. Spec => []OwedInv
  BY <1>1, OwedStep, Invariance, PTL DEF Spec
<1>3. ASSUME IInv, OwedInv
      PROVE  /\ ForEachNext => cur' \in owed
             /\ ForEachEnd => owed = {}
  <2>1. SUFFICES ASSUME loop = "each"
                 PROVE  /\ ForEachNext => cur' \in owed
                        /\ ForEachEnd => owed = {}
    BY DEF ForEachNext, ForEachEnd
  <2>2. /\ TypeOK /\ IsInjective(ent_list) /\ cur \in Listed
        /\ owed = { f \in Listed : Before(cur, f) }
    BY <1>3, <2>1 DEF IInv, EntriesOwned, OwedInv
  <2>3. Null \notin Listed
    BY <2>2, ListedType, EntsAssumption
  <2> QED BY <2>2, <2>3, ListNextOrder DEF ForEachNext, ForEachEnd
<1>4. IInv /\ OwedInv /\ [Next]_vars =>
        [/\ ForEachNext => cur' \in owed
         /\ ForEachEnd => owed = {}]_vars
  BY <1>3
<1> QED BY <1>2, <1>4, Invariance, PTL DEF Spec, EachVisitsAll

-----------------------------------------------------------------------------
(* The map implements the multimap. *)

\* The entries of a list as the multimap sees them.
Pair == [id : Ents, key : Keys \cup {NoKey}]
PairOf(e, k) == [id |-> e, key |-> k[e]]
Pairs(list, k) == [i \in DOMAIN list |-> PairOf(list[i], k)]

LEMMA PairsList ==
  ASSUME NEW list \in Seq(Ents), NEW k \in [Ents -> Keys \cup {NoKey}]
  PROVE  /\ Pairs(list, k) \in Seq(Pair)
         /\ Len(Pairs(list, k)) = Len(list)
         /\ DOMAIN Pairs(list, k) = 1..Len(list)
         /\ \A i \in 1..Len(list) : Pairs(list, k)[i] = PairOf(list[i], k)
<1>1. /\ Len(list) \in Nat /\ DOMAIN list = 1..Len(list)
      /\ \A i \in 1..Len(list) : list[i] \in Ents
  BY LenProperties, ElementOfSeq
<1>2. \A e \in Ents : PairOf(e, k) \in Pair
  BY DEF PairOf, Pair
<1>3. Pairs(list, k) \in [1..Len(list) -> Pair]
  BY <1>1, <1>2 DEF Pairs
<1>4. Pairs(list, k) \in Seq(Pair)
  BY <1>1, <1>3, SeqDef
<1>5. Len(Pairs(list, k)) = Len(list)
  BY <1>1, <1>3, <1>4, LenProperties
<1> QED BY <1>1, <1>3, <1>4, <1>5 DEF Pairs

\* Only the keys of the entries on the list matter.
LEMMA PairsFrame ==
  ASSUME NEW list \in Seq(Ents), NEW k, NEW l,
         \A x \in ToSet(list) : l[x] = k[x]
  PROVE  Pairs(list, l) = Pairs(list, k)
<1>1. \A i \in DOMAIN list : list[i] \in ToSet(list)
  BY ToSetMember, LenProperties
<1> QED BY <1>1 DEF Pairs, PairOf

\* An entry inserted at the head is a pair inserted at the head.
LEMMA PairsCons ==
  ASSUME NEW list \in Seq(Ents), NEW k \in [Ents -> Keys \cup {NoKey}], NEW e \in Ents
  PROVE  Pairs(<<e>> \o list, k) = <<PairOf(e, k)>> \o Pairs(list, k)
<1>1. PICK c, r, m : c = <<e>> \o list /\ r = PairOf(e, k) /\ m = Pairs(list, k)
  OBVIOUS
<1>2. r \in Pair
  BY <1>1 DEF PairOf, Pair
<1>3. <<e>> \in Seq(Ents) /\ Len(<<e>>) = 1 /\ <<e>>[1] = e
  OBVIOUS
<1>4. <<r>> \in Seq(Pair) /\ Len(<<r>>) = 1 /\ <<r>>[1] = r
  BY <1>2
<1>5. Len(list) \in Nat
  BY LenProperties
<1>6. /\ c \in Seq(Ents) /\ Len(c) = Len(list) + 1
      /\ \A i \in 1..Len(list) + 1 : c[i] = IF i <= 1 THEN e ELSE list[i - 1]
  BY <1>1, <1>3, <1>5, ConcatProperties
<1>7. /\ m \in Seq(Pair) /\ Len(m) = Len(list)
      /\ \A i \in 1..Len(list) : m[i] = PairOf(list[i], k)
  BY <1>1, PairsList
<1>8. /\ <<r>> \o m \in Seq(Pair) /\ Len(<<r>> \o m) = Len(list) + 1
      /\ \A i \in 1..Len(list) + 1 :
           (<<r>> \o m)[i] = IF i <= 1 THEN r ELSE m[i - 1]
  BY <1>4, <1>5, <1>7, ConcatProperties
<1>9. /\ Pairs(c, k) \in Seq(Pair) /\ Len(Pairs(c, k)) = Len(list) + 1
      /\ \A i \in 1..Len(list) + 1 : Pairs(c, k)[i] = PairOf(c[i], k)
  BY <1>6, PairsList
<1>10. \A i \in 1..Len(list) + 1 : Pairs(c, k)[i] = (<<r>> \o m)[i]
  <2>1. SUFFICES ASSUME NEW i \in 1..Len(list) + 1
                 PROVE  PairOf(c[i], k) = IF i <= 1 THEN r ELSE m[i - 1]
    BY <1>8, <1>9
  <2>2. CASE i <= 1
    BY <1>1, <1>6, <2>2
  <2>3. CASE ~(i <= 1)
    <3>1. i - 1 \in 1..Len(list)
      BY <1>5, <2>3
    <3> QED BY <1>6, <1>7, <2>3, <3>1
  <2> QED BY <2>2, <2>3
<1>11. Pairs(c, k) = <<r>> \o m
  BY <1>8, <1>9, <1>10, SeqEqual
<1> QED BY <1>1, <1>11

\* Unlinking the entry at index j takes out the pair at index j, the only
\* one that has its id.
LEMMA PairsUnlink ==
  ASSUME NEW list \in Seq(Ents), IsInjective(list),
         NEW k \in [Ents -> Keys \cup {NoKey}], NEW j \in 1..Len(list)
  PROVE  /\ Pairs(RemoveFirst(list, list[j]), k) = RemoveAt(Pairs(list, k), j)
         /\ { i \in DOMAIN Pairs(list, k) : Pairs(list, k)[i].id = list[j] } = {j}
<1>1. PICK m, u : m = Pairs(list, k) /\ u = RemoveFirst(list, list[j])
  OBVIOUS
<1>2. /\ m \in Seq(Pair) /\ Len(m) = Len(list) /\ DOMAIN m = 1..Len(list)
      /\ \A i \in 1..Len(list) : m[i] = PairOf(list[i], k)
  BY <1>1, PairsList
<1>3. /\ u \in Seq(Ents) /\ Len(u) = Len(list) - 1
      /\ \A i \in 1..Len(list) - 1 : u[i] = IF i < j THEN list[i] ELSE list[i + 1]
  BY <1>1, UnlinkIndex
<1>4. /\ RemoveAt(m, j) \in Seq(Pair) /\ Len(RemoveAt(m, j)) = Len(list) - 1
      /\ \A i \in 1..Len(list) - 1 :
           RemoveAt(m, j)[i] = IF i < j THEN m[i] ELSE m[i + 1]
  <2>1. j \in 1..Len(m)
    BY <1>2
  <2> QED BY <1>2, <2>1, RemoveAtIndex
<1>5. /\ Pairs(u, k) \in Seq(Pair) /\ Len(Pairs(u, k)) = Len(list) - 1
      /\ \A i \in 1..Len(list) - 1 : Pairs(u, k)[i] = PairOf(u[i], k)
  BY <1>3, PairsList
<1>6. \A i \in 1..Len(list) - 1 : Pairs(u, k)[i] = RemoveAt(m, j)[i]
  <2>1. SUFFICES ASSUME NEW i \in 1..Len(list) - 1
                 PROVE  Pairs(u, k)[i] = RemoveAt(m, j)[i]
    OBVIOUS
  <2>2. Len(list) \in Nat
    BY LenProperties
  <2>3. i \in 1..Len(list) /\ i + 1 \in 1..Len(list)
    BY <2>2
  <2> QED BY <1>2, <1>3, <1>4, <1>5, <2>3
<1>7. { i \in DOMAIN m : m[i].id = list[j] } = {j}
  <2>1. \A i \in 1..Len(list) : m[i].id = list[i]
    BY <1>2 DEF PairOf
  <2> QED BY <1>2, <2>1, InjectiveByIndex
<1>8. Pairs(u, k) = RemoveAt(m, j)
  BY <1>4, <1>5, <1>6, SeqEqual
<1> QED BY <1>1, <1>7, <1>8

\* Unlinking the head leaves the tail.
LEMMA UnlinkHead ==
  ASSUME NEW S, NEW list \in Seq(S), IsInjective(list), list # <<>>
  PROVE  RemoveFirst(list, Head(list)) = Tail(list)
<1>1. Len(list) \in Nat \ {0} /\ Head(list) = list[1]
  BY EmptySeq
<1>2. PICK u : u = RemoveFirst(list, Head(list))
  OBVIOUS
<1>3. /\ u \in Seq(S) /\ Len(u) = Len(list) - 1
      /\ \A i \in 1..Len(list) - 1 : u[i] = IF i < 1 THEN list[i] ELSE list[i + 1]
  <2>1. 1 \in 1..Len(list)
    BY <1>1
  <2> QED BY <1>1, <1>2, <2>1, UnlinkIndex
<1>4. /\ Tail(list) \in Seq(S) /\ Len(Tail(list)) = Len(list) - 1
      /\ \A i \in 1..Len(Tail(list)) : Tail(list)[i] = list[i + 1]
  BY HeadTailProperties
<1>5. \A i \in 1..Len(u) : u[i] = Tail(list)[i]
  <2>1. SUFFICES ASSUME NEW i \in 1..Len(u) PROVE u[i] = Tail(list)[i]
    OBVIOUS
  <2>2. i \in 1..Len(list) - 1 /\ ~(i < 1)
    BY <1>3
  <2> QED BY <1>3, <1>4, <2>2
<1> QED BY <1>2, <1>3, <1>4, <1>5, SeqEqual

\* A question is waiting exactly while a lookup runs, and nothing has been
\* returned since it was put.
AskInv == /\ Ready <=> want = "none"
          /\ ~Ready => ret = NoAnswer

\* Entries keep their key and its hash; when no key was cut short it is the
\* hash of that very key.
KeyInv ==
  ~WithKlen => \A e \in Listed : key[e] \in Keys /\ hash[e] = Hash[key[e]]

\* While clear runs, a bucket is either empty or still has its whole chain,
\* in the order of the list, so a lookup in it finds the first match.
ClearInv ==
  loop = "clear" =>
    /\ \A e \in Listed : ents[Bucket(hash[e])] # Null =>
         /\ next[e] # Null => Adjacent(e, next[e])
         /\ next[e] = Null => \A f \in Listed : SameBucket(e, f) => ~Before(e, f)
    /\ \A b \in Buckets : ents[b] # Null =>
         \A f \in Listed : Bucket(hash[f]) = b => ~Before(f, ents[b])
    /\ ~Ready /\ find_ent # Null =>
         /\ ents[Bucket(Hash[find_key])] # Null
         /\ Bucket(hash[find_ent]) = Bucket(Hash[find_key])
         /\ \A f \in Listed : Matches(f, find_key) =>
              f = find_ent \/ Before(find_ent, f)

LEMMA AskStep ==
  ASSUME IInv, AskInv, [Next]_vars
  PROVE  AskInv'
<1>1. ASSUME UNCHANGED finding, Ready \/ ret' = ret PROVE AskInv'
  BY <1>1 DEF AskInv, Ready, finding
<1>2. CASE Change
  BY <1>1, <1>2 DEF Change, Add, AddWklen, RemoveEnt, MayChange, Insert
<1>3. CASE Lookup
  <2>1. CASE \E k \in Keys, w \in {"find", "remove"} : FindStart(k, w)
    BY <2>1, EntsAssumption DEF FindStart, AskInv, Ready
  <2>2. CASE FindStep
    BY <2>2 DEF FindStep, AskInv, Ready
  <2>3. CASE FindEnd \/ RemoveMiss \/ RemoveHit
    BY <2>3 DEF FindEnd, RemoveMiss, RemoveHit, FindDone, AskInv, Ready
  <2> QED BY <1>3, <2>1, <2>2, <2>3 DEF Lookup
<1>4. CASE Iterate
  BY <1>1, <1>4 DEF Iterate, ForEachStart, ForEachNext, ForEachEnd, ForEachStop, LeaveEach
<1>5. CASE Empty
  BY <1>1, <1>5 DEF Empty, EmptyStart, EmptyNext, EmptyEnd, FreeEmpty
<1>6. CASE New
  <2>1. Ready
    BY <1>6 DEF New, IInv, LoopInv
  <2> QED BY <1>1, <1>6, <2>1 DEF New
<1>7. CASE UNCHANGED vars
  BY <1>1, <1>7 DEF vars, finding
<1> QED BY <1>2, <1>3, <1>4, <1>5, <1>6, <1>7 DEF Next

\* The entries that stay on the list keep key and hash.
LEMMA KeyFrame ==
  ASSUME KeyInv, Listed' \subseteq Listed,
         \A e \in Listed' : key'[e] = key[e] /\ hash'[e] = hash[e]
  PROVE  KeyInv'
BY DEF KeyInv

LEMMA KeyStep ==
  ASSUME IInv, KeyInv, [Next]_vars
  PROVE  KeyInv'
<1>1. TypeOK /\ IsInjective(ent_list) /\ Listed \subseteq Ents
  BY ListedType DEF IInv, EntriesOwned
<1>2. ASSUME NEW e \in Ents, NEW k \in Keys, NEW buf \in Keys, Insert(e, k, buf),
             WithKlen \/ k = buf
      PROVE  KeyInv'
  <2>1. e \notin Listed /\ Listed' = {e} \cup Listed
    BY <1>1, <1>2, InsertList DEF Insert, IInv, EntriesOwned
  <2>2. /\ key'[e] = k /\ hash'[e] = Hash[buf]
        /\ \A x \in Listed : key'[x] = key[x] /\ hash'[x] = hash[x]
    BY <1>1, <1>2, <2>1 DEF Insert, TypeOK
  <2> QED BY <1>2, <2>1, <2>2 DEF KeyInv
<1>3. ASSUME NEW e \in Listed, RemoveEntry(e) PROVE KeyInv'
  <2>1. Listed' = Listed \ {e}
    BY <1>1, <1>3, RemoveList DEF RemoveEntry
  <2>2. \A x \in Listed' : key'[x] = key[x] /\ hash'[x] = hash[x]
    BY <1>1, <1>3, <2>1 DEF RemoveEntry, Release, TypeOK
  <2> QED BY <2>1, <2>2, KeyFrame
<1>4. ASSUME UNCHANGED <<key, hash, ent_list>> PROVE KeyInv'
  BY <1>4 DEF KeyInv, Listed
<1>5. CASE Change
  BY <1>2, <1>3, <1>5 DEF Change, Add, AddWklen, RemoveEnt, Listed
<1>6. CASE Lookup
  <2>1. CASE RemoveHit
    <3>1. find_ent \in Listed /\ RemoveEntry(find_ent)
      BY <2>1 DEF RemoveHit, IInv, LoopInv, LookupsSafe
    <3> QED BY <1>3, <3>1
  <2> QED BY <1>4, <1>6, <2>1
             DEF Lookup, FindStart, FindStep, FindEnd, RemoveMiss, fields
<1>7. CASE Iterate
  BY <1>4, <1>7 DEF Iterate, ForEachStart, ForEachNext, ForEachEnd, ForEachStop,
                    LeaveEach, fields
<1>8. CASE \E how \in {"clear", "free"} : EmptyStart(how)
  <2>1. ent_list' = Unlink(ent_list, Head(ent_list)) /\ key' = key /\ hash' = hash
        /\ ent_list # <<>>
    BY <1>8 DEF EmptyStart, Detach, fields
  <2>2. Listed' \subseteq Listed
    BY <1>1, <2>1, DetachList, RemoveList
  <2> QED BY <2>1, <2>2, KeyFrame
<1>9. CASE EmptyNext
  <2>1. ent_list # <<>> /\ save = Head(ent_list)
    BY <1>9 DEF EmptyNext, IInv, EntriesOwned
  <2>2. ent_list' = Unlink(ent_list, Head(ent_list)) /\ Release(cur)
    BY <1>9, <2>1 DEF EmptyNext, Detach
  <2>3. Listed' \subseteq Listed /\ cur \notin Listed
    BY <1>1, <1>9, <2>1, <2>2, DetachList, RemoveList DEF EmptyNext, IInv, EntriesOwned
  <2> QED BY <1>1, <2>2, <2>3, KeyFrame DEF Release, TypeOK
<1>10. CASE EmptyEnd
  <2>1. ent_list' = ent_list /\ Release(cur) /\ cur \notin Listed
    BY <1>10 DEF EmptyEnd, IInv, EntriesOwned
  <2> QED BY <1>1, <2>1, KeyFrame DEF Release, TypeOK, Listed
<1>11. CASE FreeEmpty \/ UNCHANGED vars
  BY <1>4, <1>11 DEF FreeEmpty, vars, fields
<1>12. CASE New
  BY <1>12, EmptyList DEF New, KeyInv, Listed
<1> QED BY <1>5, <1>6, <1>7, <1>8, <1>9, <1>10, <1>11, <1>12 DEF Next, Empty

\* A round of clear empties one bucket and leaves the others whole.
LEMMA ClearDetach ==
  ASSUME IInv, ClearInv, Ready, ent_list # <<>>, loop \in {"none", "clear"},
         loop' = "clear", Detach(Head(ent_list)), UNCHANGED finding,
         \A x \in Listed : hash'[x] = hash[x] /\ next'[x] = next[x]
  PROVE  ClearInv'
<1>1. PICK h, b : h = Head(ent_list) /\ b = Bucket(hash[h])
  OBVIOUS
<1>2. TypeOK /\ IsInjective(ent_list) /\ Listed \subseteq Ents /\ Null \notin Ents
  BY ListedType, EntsAssumption DEF IInv, EntriesOwned
<1>3. ent_list' = Unlink(ent_list, h) /\ ents' = [ents EXCEPT ![b] = Null]
  BY <1>1 DEF Detach
<1>4. h \in Listed /\ \A e : ~Before(e, h)
  BY <1>1, <1>2, <1>3, DetachList
<1>5. /\ Listed' = Listed \ {h}
      /\ \A x, y : Before(x, y)' <=> Before(x, y) /\ x # h /\ y # h
  BY <1>2, <1>3, <1>4, RemoveList
<1>6. \A c \in Buckets : ents'[c] = IF c = b THEN Null ELSE ents[c]
  BY <1>2, <1>3 DEF TypeOK
<1>7. \A e \in Listed : Bucket(hash[e]) \in Buckets
  BY <1>2, BucketType DEF TypeOK
<1>8. /\ \A e \in Listed : ents[Bucket(hash[e])] # Null =>
           /\ next[e] # Null => Adjacent(e, next[e])
           /\ next[e] = Null => \A f \in Listed : SameBucket(e, f) => ~Before(e, f)
      /\ \A c \in Buckets : ents[c] # Null =>
           \A f \in Listed : Bucket(hash[f]) = c => ~Before(f, ents[c])
  BY DEF ClearInv, IInv, ChainsMatchList
<1>9. \A c \in Buckets : ents[c] # Null => ents[c] \in Listed
  BY DEF IInv, LookupsSafe
<1>10. ASSUME NEW e \in Listed', ents'[Bucket(hash'[e])] # Null
       PROVE  /\ next'[e] # Null => Adjacent(e, next[e])'
              /\ next'[e] = Null =>
                   \A f \in Listed' : SameBucket(e, f)' => ~Before(e, f)'
  <2>1. /\ e \in Listed /\ hash'[e] = hash[e] /\ next'[e] = next[e]
        /\ Bucket(hash[e]) # b /\ ents[Bucket(hash[e])] # Null
    BY <1>5, <1>6, <1>7, <1>10
  <2>2. ASSUME NEW n, n = next[e], n # Null PROVE Adjacent(e, n)'
    <3>1. Adjacent(e, n)
      BY <1>8, <2>1, <2>2
    <3>2. n # h /\ e # h
      BY <1>1, <2>1, <3>1 DEF Adjacent, SameBucket
    <3> QED BY <1>5, <3>1, <3>2 DEF Adjacent, SameBucket
  <2>3. ASSUME next[e] = Null, NEW f \in Listed', SameBucket(e, f)' PROVE ~Before(e, f)'
    BY <1>5, <1>8, <2>1, <2>3 DEF SameBucket
  <2>4. next'[e] # Null => Adjacent(e, next[e])'
    <3>1. PICK n : n = next[e]
      OBVIOUS
    <3> QED BY <2>1, <2>2, <3>1 DEF Adjacent
  <2> QED BY <2>1, <2>3, <2>4
<1>11. ASSUME NEW c \in Buckets, ents'[c] # Null,
              NEW f \in Listed', Bucket(hash'[f]) = c
       PROVE  ~Before(f, ents[c])'
  <2>1. PICK g : g = ents[c]
    OBVIOUS
  <2>2. ents'[c] = g /\ g # Null /\ g \in Listed /\ f \in Listed /\ Bucket(hash[f]) = c
    BY <1>5, <1>6, <1>9, <1>11, <2>1
  <2>3. ~Before(f, g)
    BY <1>8, <2>1, <2>2
  <2> QED BY <1>5, <2>2, <2>3
<1>12. Ready'
  BY DEF finding, Ready
<1> QED BY <1>10, <1>11, <1>12 DEF ClearInv

\* What a lookup in the middle of clear leaves to be shown.
LEMMA ClearLookup ==
  ASSUME ClearInv,
         UNCHANGED <<live, fields, ents, ent_list, n_entries, looping>>,
         NEW g, NEW k, find_ent' = g, find_key' = k,
         loop = "clear" /\ k # NoKey /\ g # Null =>
           /\ ents[Bucket(Hash[k])] # Null
           /\ Bucket(hash[g]) = Bucket(Hash[k])
           /\ \A f \in Listed : Matches(f, k) => f = g \/ Before(g, f)
  PROVE  ClearInv'
<1>1. /\ key' = key /\ hash' = hash /\ next' = next /\ ents' = ents
      /\ ent_list' = ent_list /\ loop' = loop
  BY DEF fields, looping
<1>2. /\ Listed' = Listed /\ \A e, f : Before(e, f)' <=> Before(e, f)
      /\ \A e, f : SameBucket(e, f)' <=> SameBucket(e, f)
  BY <1>1 DEF Listed, Before, SameBucket
<1>3. \A e, f : Adjacent(e, f)' <=> Adjacent(e, f)
  BY <1>2 DEF Adjacent
<1>4. /\ \A f : Before(find_ent, f)' <=> Before(g, f)
      /\ \A f : Matches(f, find_key)' <=> Matches(f, k)
      /\ Ready' <=> k = NoKey
  BY <1>1 DEF Before, Matches, Ready
<1>5. \A e : /\ Adjacent(e, next[e])' <=> Adjacent(e, next[e])
             /\ Before(e, ents[Bucket(hash[e])])' <=> Before(e, ents[Bucket(hash[e])])
  BY <1>1, <1>2, <1>3 DEF Adjacent, Before
<1>6. SUFFICES ASSUME loop = "clear"
               PROVE  ClearInv'
  BY <1>1 DEF ClearInv
<1>7. /\ \A e \in Listed' : ents'[Bucket(hash'[e])] # Null =>
           /\ next'[e] # Null => Adjacent(e, next[e])'
           /\ next'[e] = Null => \A f \in Listed' : SameBucket(e, f)' => ~Before(e, f)'
      /\ \A b \in Buckets : ents'[b] # Null =>
           \A f \in Listed' : Bucket(hash'[f]) = b => ~Before(f, ents[b])'
  <2>1. \A b, f : Before(f, ents[b])' <=> Before(f, ents[b])
    BY <1>1 DEF Before
  <2> QED BY <1>1, <1>2, <1>5, <1>6, <2>1 DEF ClearInv
<1> QED BY <1>1, <1>2, <1>4, <1>6, <1>7 DEF ClearInv

LEMMA ClearStep ==
  ASSUME IInv, ClearInv, [Next]_vars
  PROVE  ClearInv'
<1>1. TypeOK /\ IsInjective(ent_list) /\ Listed \subseteq Ents /\ Null \notin Ents
  BY ListedType, EntsAssumption DEF IInv, EntriesOwned
<1>2. ASSUME loop' \notin {"clear"} PROVE ClearInv'
  BY <1>2 DEF ClearInv
<1>3. CASE Change
  BY <1>2, <1>3 DEF Change, Add, AddWklen, RemoveEnt, MayChange, Insert, RemoveEntry,
                    looping
<1>4. CASE Lookup
  <2>1. CASE \E k \in Keys, w \in {"find", "remove"} : FindStart(k, w)
    <3>1. PICK k \in Keys, w \in {"find", "remove"} : FindStart(k, w)
      BY <2>1
    <3>2. PICK g : g = ents[Bucket(Hash[k])]
      OBVIOUS
    <3>3. find_ent' = g /\ find_key' = k
      BY <3>1, <3>2 DEF FindStart
    <3>4. Bucket(Hash[k]) \in Buckets
      BY BucketType, HashAssumption
    <3>5. ASSUME loop = "clear", g # Null
          PROVE  /\ Bucket(hash[g]) = Bucket(Hash[k])
                 /\ \A f \in Listed : Matches(f, k) => f = g \/ Before(g, f)
      <4>1. /\ g \in Listed /\ Bucket(hash[g]) = Bucket(Hash[k])
            /\ \A f \in Listed : Bucket(hash[f]) = Bucket(Hash[k]) => ~Before(f, g)
        BY <3>2, <3>4, <3>5 DEF IInv, LookupsSafe, LoopInv, ClearInv
      <4>2. \A f \in Listed : f = g \/ Before(f, g) \/ Before(g, f)
        BY <1>1, <4>1, BeforeOrder
      <4> QED BY <4>1, <4>2 DEF Matches
    <3> QED BY <3>1, <3>2, <3>3, <3>5, ClearLookup DEF FindStart
  <2>2. CASE FindStep
    <3>1. PICK g, k : g = next[find_ent] /\ k = find_key
      OBVIOUS
    <3>2. find_ent' = g /\ find_key' = k /\ ~Ready /\ find_ent # Null /\ ~Matches(find_ent, k)
      BY <2>2, <3>1 DEF FindStep
    <3>3. ASSUME loop = "clear", g # Null
          PROVE  /\ ents[Bucket(Hash[k])] # Null
                 /\ Bucket(hash[g]) = Bucket(Hash[k])
                 /\ \A f \in Listed : Matches(f, k) => f = g \/ Before(g, f)
      <4>1. /\ ents[Bucket(Hash[k])] # Null
            /\ Bucket(hash[find_ent]) = Bucket(Hash[k])
            /\ \A f \in Listed : Matches(f, k) => Before(find_ent, f)
            /\ find_ent \in Listed
        BY <3>1, <3>2, <3>3 DEF IInv, LookupsSafe, ClearInv
      <4>2. Adjacent(find_ent, g)
        BY <3>1, <3>3, <4>1 DEF ClearInv
      <4>3. \A f \in Listed : f = g \/ Before(f, g) \/ Before(g, f)
        BY <1>1, <4>2, BeforeOrder DEF Adjacent
      <4> QED BY <4>1, <4>2, <4>3 DEF Adjacent, SameBucket, Matches
    <3> QED BY <2>2, <3>2, <3>3, ClearLookup DEF FindStep
  <2>3. CASE FindEnd \/ RemoveMiss
    BY <2>3, ClearLookup DEF FindEnd, RemoveMiss, FindDone
  <2>4. CASE RemoveHit
    BY <1>2, <2>4, HitRemovable DEF RemoveHit, RemoveEntry
  <2> QED BY <1>4, <2>1, <2>2, <2>3, <2>4 DEF Lookup
<1>5. CASE Iterate
  BY <1>2, <1>5 DEF Iterate, ForEachStart, ForEachNext, ForEachEnd, ForEachStop, LeaveEach
<1>6. CASE \E how \in {"clear", "free"} : EmptyStart(how)
  <2>1. CASE EmptyStart("clear")
    BY <2>1, ClearDetach DEF EmptyStart, fields
  <2>2. CASE EmptyStart("free")
    BY <1>2, <2>2 DEF EmptyStart
  <2> QED BY <1>6, <2>1, <2>2
<1>7. CASE EmptyNext
  <2>1. CASE loop = "clear"
    <3>1. ent_list # <<>> /\ save = Head(ent_list) /\ cur \notin Listed
      BY <1>7 DEF EmptyNext, IInv, EntriesOwned
    <3>2. \A x \in Listed : hash'[x] = hash[x] /\ next'[x] = next[x]
      BY <1>1, <1>7, <3>1 DEF EmptyNext, Release, TypeOK
    <3> QED BY <1>7, <2>1, <3>1, <3>2, ClearDetach DEF EmptyNext
  <2>2. CASE loop # "clear"
    BY <1>2, <1>7, <2>2 DEF EmptyNext
  <2> QED BY <2>1, <2>2
<1>8. CASE EmptyEnd \/ FreeEmpty \/ New
  BY <1>2, <1>8 DEF EmptyEnd, FreeEmpty, New
<1>9. CASE UNCHANGED vars
  <2>1. PICK g, k : g = find_ent /\ k = find_key
    OBVIOUS
  <2>2. find_ent' = g /\ find_key' = k
    BY <1>9, <2>1 DEF vars
  <2> QED BY <1>9, <2>1, <2>2, ClearLookup DEF vars, fields, looping, ClearInv, Ready
<1> QED BY <1>3, <1>4, <1>5, <1>6, <1>7, <1>8, <1>9 DEF Next, Empty

\* The multimap's entries, as LzKvmap maps them.
Contents == Pairs(ent_list, key)

\* Multimap's own instances of the library operators.
LEMMA SameOperators ==
  /\ \A S : Map!Min(S) = Min(S)
  /\ \A s, i : Map!RemoveAt(s, i) = RemoveAt(s, i)
BY DEF Map!Min, Min, Map!RemoveAt, RemoveAt

\* The pairs by index.
LEMMA ContentsList ==
  ASSUME TypeOK
  PROVE  /\ DOMAIN Contents = 1..Len(ent_list)
         /\ \A i \in 1..Len(ent_list) : /\ Contents[i].id = ent_list[i]
                                        /\ Contents[i].key = key[ent_list[i]]
<1>1. /\ DOMAIN Contents = 1..Len(ent_list)
      /\ \A i \in 1..Len(ent_list) : Contents[i] = PairOf(ent_list[i], key)
  BY PairsList DEF Contents, TypeOK
<1> QED BY <1>1 DEF PairOf

\* Steps that leave the multimap alone.
LEMMA QuietStep ==
  ASSUME Contents' = Contents, Ready, AskInv, UNCHANGED finding, ret' = NoAnswer,
         (loop' \in {"clear", "free"}) <=> (loop \in {"clear", "free"})
  PROVE  Map!Quiet
BY DEF Map!Quiet, Map!Idle, Map!question, Contents, Pairs, PairOf, Ready, AskInv, finding

LEMMA InsertRefines ==
  ASSUME IInv, AskInv, MayChange, NEW e \in Ents, NEW k \in Keys, Insert(e, k, k)
  PROVE  Map!Add(e, k)
<1>1. /\ TypeOK /\ e \notin Listed /\ ent_list \in Seq(Ents) /\ Listed \subseteq Ents
      /\ loop \in {"none", "each"} /\ Ready
  BY ListedType DEF IInv, EntriesOwned, Insert, TypeOK, MayChange
<1>2. /\ ent_list' = <<e>> \o ent_list /\ ret' = e
      /\ key' = [key EXCEPT ![e] = k]
      /\ loop' = loop /\ want' = want /\ find_key' = find_key
  BY DEF Insert, InsertHead, looping, finding
<1>3. /\ key' \in [Ents -> Keys \cup {NoKey}] /\ key'[e] = k
      /\ \A x \in Listed : key'[x] = key[x]
  BY <1>1, <1>2 DEF TypeOK
<1>4. Pairs(ent_list, key') = Contents
  BY <1>1, <1>3, PairsFrame DEF Contents, Listed
<1>5. Contents' = <<[id |-> e, key |-> k]>> \o Contents
  <2>1. Pairs(ent_list', key') = <<PairOf(e, key')>> \o Pairs(ent_list, key')
    BY <1>1, <1>2, <1>3, PairsCons
  <2>2. PairOf(e, key') = [id |-> e, key |-> k]
    BY <1>3 DEF PairOf
  <2> QED BY <1>4, <2>1, <2>2 DEF Contents
<1>6. \A i \in DOMAIN Contents : Contents[i].id # e
  <2>1. \A i \in 1..Len(ent_list) : ent_list[i] # e
    BY <1>1, ToSetMember DEF Listed
  <2> QED BY <1>1, <2>1, ContentsList
<1>7. Map!WithId(e) = {}
  BY <1>6 DEF Map!WithId, Contents, Pairs, PairOf
<1>8. Map!Idle /\ UNCHANGED Map!question
  BY <1>1, <1>2 DEF Map!Idle, Map!question, AskInv, Ready
<1> QED BY <1>1, <1>2, <1>5, <1>7, <1>8 DEF Map!Add, Contents, Pairs, PairOf

\* Taking an entry off the list is taking its pair out.
LEMMA RemoveRefines ==
  ASSUME IInv, NEW e \in Listed, RemoveEntry(e)
  PROVE  Contents' = Map!Without(e) /\ Map!WithId(e) # {}
<1>1. TypeOK /\ IsInjective(ent_list) /\ Listed \subseteq Ents /\ ent_list \in Seq(Ents)
  BY ListedType DEF IInv, EntriesOwned, TypeOK
<1>2. ent_list' = RemoveFirst(ent_list, e) /\ Listed' = Listed \ {e}
      /\ ent_list' \in Seq(Ents)
  BY <1>1, RemoveList DEF RemoveEntry, Unlink
<1>3. \A x \in Listed' : key'[x] = key[x]
  BY <1>1, <1>2 DEF RemoveEntry, Release, TypeOK
<1>4. Contents' = Pairs(RemoveFirst(ent_list, e), key)
  BY <1>2, <1>3, PairsFrame DEF Contents, Listed
<1>5. PICK j \in 1..Len(ent_list) : ent_list[j] = e
  BY <1>1, ToSetMember DEF Listed
<1>6. /\ Contents' = RemoveAt(Contents, j)
      /\ { i \in DOMAIN Contents : Contents[i].id = e } = {j}
  BY <1>1, <1>4, <1>5, PairsUnlink DEF Contents, TypeOK
<1>7. Map!WithId(e) = {j}
  BY <1>6 DEF Map!WithId, Contents, Pairs, PairOf
<1>8. Min({j}) = j
  <2>1. \A x \in {j} : x = j
    OBVIOUS
  <2>2. j =< j
    OBVIOUS
  <2> QED BY <2>1, <2>2 DEF Min
<1>9. Map!Without(e) = RemoveAt(Contents, j)
  BY <1>7, <1>8, SameOperators DEF Map!Without, Contents, Pairs, PairOf
<1> QED BY <1>6, <1>7, <1>9

\* When keys are told apart, an entry satisfies the comparison when it has
\* the very key.
LEMMA MatchIsSameKey ==
  ASSUME KeysToldApart, KeyInv, NEW e \in Listed, NEW k \in Keys
  PROVE  Matches(e, k) <=> key[e] = k
<1>1. key[e] \in Keys /\ hash[e] = Hash[key[e]]
  BY DEF KeysToldApart, KeyInv
<1>2. ASSUME Matches(e, k) PROVE key[e] = k
  <2>1. <<k, key[e]>> \in PrefixOf /\ Hash[key[e]] = Hash[k]
    BY <1>1, <1>2 DEF Matches
  <2> QED BY <2>1 DEF KeysToldApart
<1>3. ASSUME key[e] = k PROVE Matches(e, k)
  BY <1>1, <1>3, PrefixAssumption DEF Matches
<1> QED BY <1>2, <1>3

\* The first match of the list is the newest entry of the key.
LEMMA FirstMatchIsNewest ==
  ASSUME KeysToldApart, IInv, KeyInv, NEW k \in Keys, NEW e, IsFirstMatch(e, k)
  PROVE  Map!Newest(k) = e
<1>1. TypeOK /\ IsInjective(ent_list) /\ ent_list \in Seq(Ents) /\ Len(ent_list) \in Nat
  BY LenProperties DEF IInv, EntriesOwned, TypeOK
<1>2. \A x : x \in Listed <=> \E i \in 1..Len(ent_list) : ent_list[i] = x
  BY <1>1, ToSetMember DEF Listed
<1>3. /\ DOMAIN Contents = 1..Len(ent_list)
      /\ \A i \in 1..Len(ent_list) : /\ Contents[i].id = ent_list[i]
                                     /\ Contents[i].key = key[ent_list[i]]
  BY <1>1, ContentsList
<1>4. PICK W : W = { i \in DOMAIN Contents : Contents[i].key = k }
  OBVIOUS
<1>5. \A i : i \in W <=> i \in 1..Len(ent_list) /\ Matches(ent_list[i], k)
  BY <1>2, <1>3, <1>4, MatchIsSameKey
<1>6. Map!WithKey(k) = W
  BY <1>4 DEF Map!WithKey, Contents, Pairs, PairOf
<1>7. Map!Newest(k) = IF W = {} THEN Null ELSE Contents[Min(W)].id
  BY <1>6, SameOperators DEF Map!Newest, Contents, Pairs, PairOf
<1>8. CASE e = Null
  <2>1. W = {}
    BY <1>2, <1>5, <1>8 DEF IsFirstMatch
  <2> QED BY <1>7, <1>8, <2>1
<1>9. CASE e # Null
  <2>1. e \in Listed /\ Matches(e, k) /\ \A f \in Listed : Matches(f, k) => ~Before(f, e)
    BY <1>9 DEF IsFirstMatch
  <2>2. PICK j \in 1..Len(ent_list) : ent_list[j] = e
    BY <1>2, <2>1
  <2>3. j \in W
    BY <1>5, <2>1, <2>2
  <2>4. \A i \in W : j =< i
    <3>1. SUFFICES ASSUME NEW i \in W, ~(j =< i) PROVE FALSE
      OBVIOUS
    <3>2. i \in 1..Len(ent_list) /\ Matches(ent_list[i], k) /\ ent_list[i] \in Listed
      BY <1>2, <1>5, <3>1
    <3>3. i < j
      BY <1>1, <3>1, <3>2
    <3> QED BY <2>1, <2>2, <3>2, <3>3 DEF Before
  <2>5. \A i \in W : (\A x \in W : i =< x) => i = j
    BY <1>5, <2>3, <2>4
  <2>6. Min(W) = j
    BY <2>3, <2>4, <2>5 DEF Min
  <2> QED BY <1>3, <1>7, <2>2, <2>3, <2>6
<1> QED BY <1>8, <1>9

\* The entry a lookup stops at is the first match, and the newest entry of
\* its key; only while clear runs may the lookup miss it.
LEMMA FoundIsNewest ==
  ASSUME KeysToldApart, IInv, KeyInv, ClearInv, ~Ready,
         find_ent # Null => Matches(find_ent, find_key)
  PROVE  \/ find_ent = Map!Newest(find_key)
         \/ find_ent = Null /\ loop = "clear"
<1>1. /\ find_key \in Keys /\ loop \in {"none", "each", "clear"}
      /\ find_ent # Null => find_ent \in Listed
  BY DEF IInv, TypeOK, LoopInv, LookupsSafe, Ready
<1>2. /\ \A e : ~Before(e, e)
      /\ \A e, f, g : Before(e, f) /\ Before(f, g) => Before(e, g)
  BY BeforeOrder DEF IInv, EntriesOwned
<1>3. CASE loop = "clear" /\ find_ent = Null
  BY <1>3
<1>4. CASE loop # "clear" \/ find_ent # Null
  <2>1. \A f \in Listed : Matches(f, find_key) =>
          find_ent # Null /\ (f = find_ent \/ Before(find_ent, f))
    BY <1>1, <1>4 DEF IInv, WalkInv, ClearInv
  <2>2. IsFirstMatch(find_ent, find_key)
    BY <1>1, <1>2, <2>1 DEF IsFirstMatch
  <2> QED BY <1>1, <2>2, FirstMatchIsNewest
<1> QED BY <1>3, <1>4

LEMMA LookupRefines ==
  ASSUME KeysToldApart, IInv, AskInv, KeyInv, ClearInv, Lookup
  PROVE  [Map!MMNext]_(Map!mmvars)
<1>1. ASSUME UNCHANGED <<fields, ent_list, loop>>
      PROVE  Contents' = Contents /\ loop' = loop
  BY <1>1 DEF Contents, Pairs, PairOf, fields
<1>2. CASE \E k \in Keys, w \in {"find", "remove"} : FindStart(k, w)
  <2>1. PICK k \in Keys, w \in {"find", "remove"} : FindStart(k, w)
    BY <1>2
  <2>2. Contents' = Contents /\ loop' = loop
    BY <1>1, <2>1 DEF FindStart, looping
  <2>3. want = "none" /\ find_key = NoKey /\ want' = w /\ find_key' = k /\ ret' = NoAnswer
    BY <2>1 DEF FindStart, AskInv, Ready
  <2>4. Map!Ask(k, w)
    BY <2>2, <2>3 DEF Map!Ask, Map!Idle, Contents, Pairs, PairOf
  <2> QED BY <2>4 DEF Map!MMNext
<1>3. CASE FindStep
  <2>1. Contents' = Contents /\ loop' = loop
    BY <1>1, <1>3 DEF FindStep, looping
  <2> QED BY <1>3, <2>1 DEF FindStep, Map!mmvars, Contents, Pairs, PairOf
<1>4. CASE FindEnd
  <2>1. Contents' = Contents /\ loop' = loop
    BY <1>1, <1>4 DEF FindEnd, looping
  <2>2. /\ want = "find" /\ want' = "none" /\ find_key' = NoKey /\ ret' = find_ent
        /\ \/ find_ent = Map!Newest(find_key)
           \/ find_ent = Null /\ loop = "clear"
    BY <1>4, FoundIsNewest DEF FindEnd, FindDone
  <2>3. Map!Find
    BY <2>1, <2>2 DEF Map!Find, Map!Answered, Contents, Pairs, PairOf
  <2> QED BY <2>3 DEF Map!MMNext
<1>5. CASE RemoveMiss
  <2>1. Contents' = Contents /\ loop' = loop
    BY <1>1, <1>5 DEF RemoveMiss, looping
  <2>2. /\ want = "remove" /\ want' = "none" /\ find_key' = NoKey /\ ret' = NoAnswer
        /\ find_ent = Null /\ loop \in {"none", "each"}
    BY <1>5 DEF RemoveMiss, FindDone, AskInv, IInv, LoopInv
  <2>3. Map!Newest(find_key) = Null
    BY <1>5, <2>2, FoundIsNewest DEF RemoveMiss
  <2>4. Map!WithId(Null) = {}
    <3>1. /\ DOMAIN Contents = 1..Len(ent_list)
          /\ \A i \in 1..Len(ent_list) : Contents[i].id = ent_list[i]
      BY ContentsList DEF IInv
    <3>2. \A i \in 1..Len(ent_list) : ent_list[i] # Null
      BY ElementOfSeq, EntsAssumption DEF IInv, TypeOK
    <3>3. \A i \in DOMAIN Contents : Contents[i].id # Null
      BY <3>1, <3>2
    <3> QED BY <3>3 DEF Map!WithId, Contents, Pairs, PairOf
  <2>5. Map!Without(Map!Newest(find_key)) = Contents
    BY <2>3, <2>4 DEF Map!Without, Contents, Pairs, PairOf
  <2>6. Map!RemoveKey
    BY <2>1, <2>2, <2>5 DEF Map!RemoveKey, Map!Answered, Contents, Pairs, PairOf
  <2> QED BY <2>6 DEF Map!MMNext
<1>6. CASE RemoveHit
  <2>1. /\ want = "remove" /\ want' = "none" /\ find_key' = NoKey /\ ret' = NoAnswer
        /\ find_ent # Null /\ find_ent \in Listed /\ loop' = loop
        /\ loop \in {"none", "each"} /\ RemoveEntry(find_ent)
    BY <1>6, HitRemovable DEF RemoveHit, RemoveEntry, FindDone
  <2>2. Map!Newest(find_key) = find_ent
    BY <1>6, <2>1, FoundIsNewest DEF RemoveHit
  <2>3. Contents' = Map!Without(find_ent)
    BY <2>1, RemoveRefines
  <2>4. Map!RemoveKey
    BY <2>1, <2>2, <2>3 DEF Map!RemoveKey, Map!Answered, Contents, Pairs, PairOf
  <2> QED BY <2>4 DEF Map!MMNext
<1> QED BY <1>2, <1>3, <1>4, <1>5, <1>6 DEF Lookup

\* Detaching the entry at the head drops the newest pair.
LEMMA DropRefines ==
  ASSUME IInv, AskInv, Ready, ent_list # <<>>, Detach(Head(ent_list)),
         loop' \in {"clear", "free"}, UNCHANGED finding,
         \A x \in Listed : key'[x] = key[x]
  PROVE  Map!Drop
<1>1. TypeOK /\ IsInjective(ent_list) /\ ent_list \in Seq(Ents)
      /\ key \in [Ents -> Keys \cup {NoKey}]
  BY DEF IInv, EntriesOwned, TypeOK
<1>2. ent_list' = RemoveFirst(ent_list, ent_list[1]) /\ ent_list' = Tail(ent_list)
  BY <1>1, UnlinkHead, EmptySeq DEF Detach, Unlink
<1>3. ent_list' \in Seq(Ents) /\ Listed' \subseteq Listed
  BY <1>1, <1>2, TailList DEF Listed
<1>4. Contents' = Pairs(ent_list', key)
  BY <1>3, PairsFrame DEF Contents, Listed
<1>5. /\ Contents \in Seq(Pair) /\ Len(Contents) = Len(ent_list)
      /\ \A i \in 1..Len(ent_list) : Contents[i] = PairOf(ent_list[i], key)
  BY <1>1, PairsList DEF Contents
<1>6. Len(ent_list) \in Nat \ {0} /\ Contents # <<>>
  <2>1. Len(ent_list) \in Nat \ {0}
    BY <1>1, EmptySeq
  <2> QED BY <1>5, <2>1, EmptySeq
<1>7. Contents' = Tail(Contents)
  <2>1. /\ Len(ent_list') = Len(ent_list) - 1
        /\ \A i \in 1..Len(ent_list') : ent_list'[i] = ent_list[i + 1]
    BY <1>1, <1>2, HeadTailProperties
  <2>2. /\ Pairs(ent_list', key) \in Seq(Pair)
        /\ Len(Pairs(ent_list', key)) = Len(ent_list')
        /\ \A i \in 1..Len(ent_list') :
             Pairs(ent_list', key)[i] = PairOf(ent_list'[i], key)
    BY <1>1, <1>3, PairsList
  <2>3. /\ Tail(Contents) \in Seq(Pair) /\ Len(Tail(Contents)) = Len(Contents) - 1
        /\ \A i \in 1..Len(Tail(Contents)) : Tail(Contents)[i] = Contents[i + 1]
    BY <1>5, <1>6, HeadTailProperties
  <2>4. \A i \in 1..Len(ent_list') : Pairs(ent_list', key)[i] = Tail(Contents)[i]
    <3>1. SUFFICES ASSUME NEW i \in 1..Len(ent_list')
                   PROVE  Pairs(ent_list', key)[i] = Tail(Contents)[i]
      OBVIOUS
    <3>2. i \in 1..Len(Tail(Contents)) /\ i + 1 \in 1..Len(ent_list)
      BY <1>5, <1>6, <2>1, <2>3
    <3> QED BY <1>5, <2>1, <2>2, <2>3, <3>2
  <2>5. Pairs(ent_list', key) = Tail(Contents)
    BY <1>5, <2>1, <2>2, <2>3, <2>4, SeqEqual
  <2> QED BY <1>4, <2>5
<1>8. Map!Idle /\ UNCHANGED Map!question /\ ret' = NoAnswer
  BY DEF Map!Idle, Map!question, AskInv, Ready, finding, Detach
<1> QED BY <1>6, <1>7, <1>8 DEF Map!Drop, Contents, Pairs, PairOf

LEMMA EmptyRefines ==
  ASSUME IInv, AskInv, Empty
  PROVE  Map!MMNext
<1>1. TypeOK /\ Null \notin Ents
  BY EntsAssumption DEF IInv
<1>2. CASE \E how \in {"clear", "free"} : EmptyStart(how)
  <2>1. Map!Drop
    BY <1>2, DropRefines DEF EmptyStart, fields
  <2> QED BY <2>1 DEF Map!MMNext
<1>3. CASE EmptyNext
  <2>1. ent_list # <<>> /\ save = Head(ent_list) /\ cur \notin Listed
    BY <1>3 DEF EmptyNext, IInv, EntriesOwned
  <2>2. \A x \in Listed : key'[x] = key[x]
    BY <1>1, <1>3, <2>1 DEF EmptyNext, Release, TypeOK
  <2>3. Map!Drop
    BY <1>3, <2>1, <2>2, DropRefines DEF EmptyNext
  <2> QED BY <2>3 DEF Map!MMNext
<1>4. ASSUME ent_list = <<>>, ent_list' = ent_list, loop' \notin {"clear", "free"},
             Ready, ret' = NoAnswer, UNCHANGED finding
      PROVE  Map!Emptied
  <2>1. DOMAIN ent_list = {}
    BY <1>4
  <2>2. /\ Contents = [i \in {} |-> PairOf(ent_list[i], key)]
        /\ Contents' = [i \in {} |-> PairOf(ent_list'[i], key')]
    BY <1>4, <2>1 DEF Contents, Pairs
  <2>3. Contents = <<>> /\ Contents' = <<>>
    BY <2>2
  <2>4. Map!Idle /\ UNCHANGED Map!question
    BY <1>4 DEF Map!Idle, Map!question, AskInv, Ready, finding
  <2> QED BY <1>4, <2>3, <2>4 DEF Map!Emptied, Contents, Pairs, PairOf
<1>5. CASE EmptyEnd
  <2>1. ent_list = <<>>
    <3>1. ASSUME ent_list # <<>> PROVE FALSE
      <4>1. Head(ent_list) = Null
        BY <1>5, <3>1 DEF EmptyEnd, IInv, EntriesOwned
      <4>2. Head(ent_list) \in Ents
        BY <1>1, <3>1, EmptySeq DEF TypeOK
      <4> QED BY <1>1, <4>1, <4>2
    <3> QED BY <3>1
  <2> QED BY <1>4, <1>5, <2>1 DEF EmptyEnd, Map!MMNext
<1>6. CASE FreeEmpty
  BY <1>4, <1>6 DEF FreeEmpty, Map!MMNext
<1> QED BY <1>2, <1>3, <1>5, <1>6 DEF Empty

LEMMA NextRefines ==
  ASSUME KeysToldApart, IInv, AskInv, KeyInv, ClearInv, [Next]_vars
  PROVE  [Map!MMNext]_(Map!mmvars)
<1>1. CASE Change
  <2>1. CASE \E e \in Ents, k \in Keys : Add(e, k) \/ \E buf \in Keys : AddWklen(e, k, buf)
    <3>1. PICK e \in Ents, k \in Keys : MayChange /\ Insert(e, k, k)
      BY <2>1 DEF Add, AddWklen, KeysToldApart
    <3>2. Map!Add(e, k)
      BY <3>1, InsertRefines
    <3> QED BY <3>2 DEF Map!MMNext
  <2>2. CASE \E e \in Ents : RemoveEnt(e)
    <3>1. PICK e \in Ents : RemoveEnt(e)
      BY <2>2
    <3>2. /\ e \in Listed /\ RemoveEntry(e) /\ Ready /\ loop \in {"none", "each"}
          /\ loop' = loop /\ ret' = NoAnswer /\ want' = want /\ find_key' = find_key
      BY <3>1 DEF RemoveEnt, RemoveEntry, MayChange, Listed, finding
    <3>3. Contents' = Map!Without(e) /\ Map!WithId(e) # {}
      BY <3>2, RemoveRefines
    <3>4. Map!Idle /\ UNCHANGED Map!question
      BY <3>2 DEF Map!Idle, Map!question, AskInv, Ready
    <3>5. Map!RemoveId(e)
      BY <3>2, <3>3, <3>4 DEF Map!RemoveId, Contents, Pairs, PairOf
    <3>6. e \in Ents
      BY <3>1
    <3> QED BY <3>5, <3>6 DEF Map!MMNext
  <2> QED BY <1>1, <2>1, <2>2 DEF Change
<1>2. CASE Lookup
  BY <1>2, LookupRefines
<1>3. CASE Iterate
  <2>1. /\ Contents' = Contents /\ Ready /\ UNCHANGED finding /\ ret' = NoAnswer
        /\ (loop' \in {"clear", "free"}) <=> (loop \in {"clear", "free"})
    BY <1>3 DEF Iterate, ForEachStart, ForEachNext, ForEachEnd, ForEachStop, LeaveEach,
                fields, Contents, Pairs, PairOf
  <2> QED BY <2>1, QuietStep DEF Map!MMNext
<1>4. CASE Empty
  BY <1>4, EmptyRefines
<1>5. CASE New
  <2>1. Ready /\ Listed = {}
    BY <1>5 DEF New, IInv, LoopInv, EntriesOwned
  <2>2. ent_list = <<>> /\ ent_list' = <<>>
    <3>1. ent_list # <<>> => Head(ent_list) \in Listed
      BY TailList DEF IInv, EntriesOwned, TypeOK, Listed
    <3> QED BY <1>5, <2>1, <3>1 DEF New
  <2>3. Contents' = Contents
    BY <1>5, <2>2 DEF New, fields, Contents, Pairs, PairOf
  <2>4. /\ UNCHANGED finding /\ ret' = NoAnswer
        /\ (loop' \in {"clear", "free"}) <=> (loop \in {"clear", "free"})
    BY <1>5 DEF New
  <2> QED BY <2>1, <2>3, <2>4, QuietStep DEF Map!MMNext
<1>6. CASE UNCHANGED vars
  BY <1>6 DEF vars, Map!mmvars
<1> QED BY <1>1, <1>2, <1>3, <1>4, <1>5, <1>6 DEF Next

\* When keys are told apart (no string has the hash of one of its proper
\* prefixes, no key is cut short), the buckets, chains and list of lz_kvmap
\* implement the multimap: lookups and removals by key mean the newest entry
\* of exactly that key, and removing it uncovers the one it shadowed.
THEOREM ImplementsMultimap ==
  ASSUME KeysToldApart
  PROVE  Spec => MultimapSpec
<1>1. Init => Map!MMInit /\ AskInv /\ KeyInv /\ ClearInv
  <2>1. SUFFICES ASSUME Init PROVE Map!MMInit /\ AskInv /\ KeyInv /\ ClearInv
    OBVIOUS
  <2>2. AskInv /\ KeyInv /\ ClearInv
    BY <2>1, EmptyList DEF Init, AskInv, KeyInv, ClearInv, Ready, Listed
  <2>3. DOMAIN ent_list = {}
    BY <2>1 DEF Init
  <2>4. Contents = [i \in {} |-> PairOf(ent_list[i], key)]
    BY <2>3 DEF Contents, Pairs
  <2>5. Contents = <<>>
    BY <2>4
  <2>6. Map!MMInit
    BY <2>1, <2>5 DEF Init, Map!MMInit, Contents, Pairs, PairOf
  <2> QED BY <2>2, <2>6
<1>2. Spec => [](AskInv /\ KeyInv /\ ClearInv)
  <2>1. IInv /\ AskInv /\ KeyInv /\ ClearInv /\ [Next]_vars
          => (AskInv /\ KeyInv /\ ClearInv)'
    BY AskStep, KeyStep, ClearStep
  <2> QED BY <1>1, <2>1, Invariance, PTL DEF Spec
<1>3. IInv /\ AskInv /\ KeyInv /\ ClearInv /\ [Next]_vars => [Map!MMNext]_(Map!mmvars)
  BY NextRefines
<1> QED BY <1>1, <1>2, <1>3, Invariance, PTL DEF Spec, MultimapSpec, Map!MMSpec
=============================================================================
