---------------------------- MODULE LzHeapProofs ----------------------------
(***************************************************************************)
(* Theorems about LzHeap, for every number of threads and pages, every     *)
(* NElem, whichever threads free the blocks.                               *)
(***************************************************************************)
EXTENDS LzHeap, ListLemmas, FiniteSetTheorems

\* A thread without a heap has no pages.
NoHeapNoPages ==
  \A t \in Threads : ~made[t] => /\ page_list_free[t] = <<>>
                                 /\ page_list_used[t] = <<>>
                                 /\ peak[t] = 0

\* The inductive invariant.  PagesPartitioned alone is not inductive only
\* for lack of types; HeldNeverFree is not inductive at all: that a fresh or
\* a free page has no holder follows from where held pages are (HeldInUse).
IInv == /\ TypeOK
        /\ NoHeapNoPages
        /\ PagesPartitioned
        /\ HeldInUse
        /\ UsedIsHeld

\* A page malloc returns is on no list, lost by nobody, held by nobody.
LEMMA FreshPages ==
  ASSUME IInv, NEW p \in Fresh
  PROVE  /\ p \in Pages /\ p \notin lost
         /\ \A t \in Threads : p \notin PoolOf(t)
         /\ holders[p] = 0
<1>1. /\ p \in Pages /\ p \notin lost
      /\ \A t \in Threads : p \notin PoolOf(t)
  BY DEF Fresh, PoolOf
<1>2. holders[p] \in Nat /\ holders[p] <= 1 /\ holders[p] # 1
  BY <1>1 DEF IInv, TypeOK, HeldInUse, PoolOf
<1> QED BY <1>1, <1>2

\* Nobody holds a page of a free list.
LEMMA FreePagesNotHeld ==
  ASSUME IInv
  PROVE  HeldNeverFree
<1>1. SUFFICES ASSUME NEW t \in Threads, NEW p \in ToSet(page_list_free[t])
               PROVE  holders[p] = 0
  BY DEF HeldNeverFree
<1>2. page_list_free[t] \in Seq(Pages)
  BY DEF IInv, TypeOK
<1>3. p \in Pages
  BY <1>1, <1>2, ToSetMember
<1>4. p \notin lost /\ p \notin ToSet(page_list_used[t])
  BY <1>1 DEF IInv, PagesPartitioned, PoolOf
<1>5. \A u \in Threads : p \notin ToSet(page_list_used[u])
  BY <1>1, <1>4 DEF IInv, PagesPartitioned, PoolOf
<1>6. holders[p] \in Nat /\ holders[p] <= 1 /\ holders[p] # 1
  BY <1>3, <1>4, <1>5 DEF IInv, TypeOK, HeldInUse
<1> QED BY <1>6

LEMMA InitIInv == Init => IInv
<1> SUFFICES ASSUME Init PROVE IInv
  OBVIOUS
<1>1. TypeOK
  <2>1. made \in [Threads -> BOOLEAN] /\ crashed \in BOOLEAN
    BY Zenon DEF Init
  <2>2. /\ page_list_free \in [Threads -> Seq(Pages)]
        /\ page_list_used \in [Threads -> Seq(Pages)]
    BY EmptySeq DEF Init
  <2>3. lost \in SUBSET Pages /\ strays \in SUBSET Pages
        /\ holders \in [Pages -> Nat] /\ peak \in [Threads -> Nat]
        /\ taken \in [Threads -> SUBSET Pages]
    BY DEF Init
  <2> QED BY <2>1, <2>2, <2>3 DEF TypeOK
<1>2. NoHeapNoPages /\ HeldInUse
  BY DEF Init, NoHeapNoPages, HeldInUse
<1>3. PagesPartitioned /\ UsedIsHeld
  BY EmptyList DEF Init, PagesPartitioned, UsedIsHeld, PoolOf
<1> QED BY <1>1, <1>2, <1>3 DEF IInv

\* The three kinds of allocation take the first page of a list of pages
\* nobody has; what that does to the invariant and to the abstract
\* allocator is the same for the three.
LEMMA TakeFirstStep ==
  ASSUME IInv,
         NEW t \in Threads, NEW list \in Seq(Pages),
         list # <<>>, IsInjective(list),
         ToSet(list) \cap ToSet(page_list_used[t]) = {},
         ToSet(list) \cap lost = {},
         \A u \in Threads \ {t} : ToSet(list) \cap PoolOf(u) = {},
         \A p \in ToSet(list) : holders[p] = 0,
         TakeFirst(t, list),
         made' \in [Threads -> BOOLEAN], made'[t],
         \A u \in Threads \ {t} : made'[u] = made[u],
         lost' = lost, strays' = strays, crashed' \in BOOLEAN
  PROVE  IInv' /\ Allocator!BANext
<1> DEFINE h == Head(list)
           used == page_list_used[t]
<1>1. /\ h \in ToSet(list) /\ h \in Pages
      /\ Tail(list) \in Seq(Pages)
      /\ IsInjective(Tail(list))
      /\ ToSet(Tail(list)) = ToSet(list) \ {h}
  BY TailList, ToSetMember
<1>2. used \in Seq(Pages) /\ IsInjective(used) /\ h \notin ToSet(used)
  BY <1>1 DEF IInv, TypeOK, PagesPartitioned
<1>3. /\ InsertHead(used, h) \in Seq(Pages)
      /\ IsInjective(InsertHead(used, h))
      /\ ToSet(InsertHead(used, h)) = {h} \cup ToSet(used)
  BY <1>1, <1>2, ConsList DEF InsertHead
<1>4. Len(used) \in Nat
  BY <1>2, LenProperties
<1>5. /\ page_list_free'[t] = Tail(list)
      /\ page_list_used'[t] = InsertHead(used, h)
      /\ \A u \in Threads \ {t} : /\ page_list_free'[u] = page_list_free[u]
                                  /\ page_list_used'[u] = page_list_used[u]
                                  /\ peak'[u] = peak[u]
      /\ \A p \in Pages : holders'[p] = IF p = h THEN 1 ELSE holders[p]
  BY <1>1 DEF IInv, TypeOK, TakeFirst
<1>6. TypeOK'
  <2>1. /\ page_list_free' \in [Threads -> Seq(Pages)]
        /\ page_list_used' \in [Threads -> Seq(Pages)]
    BY <1>1, <1>3 DEF IInv, TypeOK, TakeFirst
  <2>2. holders' \in [Pages -> Nat]
    BY <1>1 DEF IInv, TypeOK, TakeFirst
  <2>3. peak' \in [Threads -> Nat]
    BY <1>4 DEF IInv, TypeOK, TakeFirst
  <2>4. lost' \in SUBSET Pages /\ strays' \in SUBSET Pages
    BY DEF IInv, TypeOK
  <2>5. taken' \in [Threads -> SUBSET Pages]
    BY <1>1 DEF IInv, TypeOK, TakeFirst
  <2> QED BY <2>1, <2>2, <2>3, <2>4, <2>5, Zenon DEF TypeOK
<1>7. NoHeapNoPages'
  BY <1>5 DEF IInv, NoHeapNoPages
<1>8. PagesPartitioned'
  <2>1. /\ PoolOf(t)' = ToSet(list) \cup ToSet(used)
        /\ \A u \in Threads \ {t} : PoolOf(u)' = PoolOf(u)
    BY <1>1, <1>3, <1>5 DEF PoolOf
  <2>2. ASSUME NEW u \in Threads
        PROVE  /\ IsInjective(page_list_free'[u])
               /\ IsInjective(page_list_used'[u])
               /\ ToSet(page_list_free'[u]) \cap ToSet(page_list_used'[u]) = {}
               /\ PoolOf(u)' \cap lost' = {}
    <3>1. CASE u = t
      <4>1. ToSet(Tail(list)) \cap ({h} \cup ToSet(used)) = {}
        BY <1>1
      <4>2. (ToSet(list) \cup ToSet(used)) \cap lost = {}
        BY DEF IInv, PagesPartitioned, PoolOf
      <4> QED BY <1>1, <1>3, <1>5, <2>1, <3>1, <4>1, <4>2
    <3>2. CASE u # t
      BY <1>5, <2>1, <3>2 DEF IInv, PagesPartitioned
    <3> QED BY <3>1, <3>2
  <2>3. ASSUME NEW u \in Threads, NEW v \in Threads, u # v
        PROVE  PoolOf(u)' \cap PoolOf(v)' = {}
    <3>1. \A w \in Threads \ {t} : (ToSet(list) \cup ToSet(used)) \cap PoolOf(w) = {}
      BY DEF IInv, PagesPartitioned, PoolOf
    <3> QED BY <2>1, <2>3, <3>1 DEF IInv, PagesPartitioned
  <2> QED BY <2>2, <2>3 DEF PagesPartitioned
<1>9. HeldInUse'
  <2>1. SUFFICES ASSUME NEW p \in Pages
                 PROVE  /\ holders'[p] <= 1
                        /\ holders'[p] = 1 =>
                             \/ p \in lost'
                             \/ \E u \in Threads : p \in ToSet(page_list_used'[u])
    BY DEF HeldInUse
  <2>2. \A u \in Threads : ToSet(page_list_used[u]) \subseteq ToSet(page_list_used'[u])
    BY <1>3, <1>5
  <2> QED BY <1>3, <1>5, <2>2 DEF IInv, HeldInUse
<1>10. UsedIsHeld'
  <2>1. SUFFICES ASSUME NEW u \in Threads, NEW p \in ToSet(page_list_used'[u])
                 PROVE  holders'[p] = 1 \/ p \in strays'
    BY DEF UsedIsHeld
  <2>2. p \in Pages
    <3>1. page_list_used'[u] \in Seq(Pages)
      BY <1>6 DEF TypeOK
    <3> QED BY <2>1, <3>1, ToSetMember
  <2>3. CASE p = h
    BY <1>1, <1>5, <2>3
  <2>4. CASE p # h
    <3>1. p \in ToSet(page_list_used[u])
      BY <1>3, <1>5, <2>1, <2>4
    <3> QED BY <1>5, <2>1, <2>2, <2>4, <3>1 DEF IInv, UsedIsHeld
  <2> QED BY <2>3, <2>4
<1>11. Allocator!BANext
  <2>1. holders[h] = 0 /\ holders[h] + 1 = 1
    BY <1>1
  <2>2. holders' = [holders EXCEPT ![h] = holders[h] + 1]
    BY DEF TakeFirst
  <2> QED BY <1>1, <2>1, <2>2 DEF Allocator!BANext, Allocator!Alloc
<1> QED BY <1>6, <1>7, <1>8, <1>9, <1>10, <1>11 DEF IInv

-----------------------------------------------------------------------------

LEMMA AllocReuseStep ==
  ASSUME IInv, NEW t \in Threads, AllocReuse(t)
  PROVE  IInv' /\ Allocator!BANext
<1> DEFINE list == page_list_free[t]
<1>1. list \in Seq(Pages) /\ list # <<>> /\ IsInjective(list)
  BY DEF IInv, TypeOK, PagesPartitioned, AllocReuse
<1>2. /\ ToSet(list) \cap ToSet(page_list_used[t]) = {}
      /\ ToSet(list) \cap lost = {}
      /\ \A u \in Threads \ {t} : ToSet(list) \cap PoolOf(u) = {}
  BY DEF IInv, PagesPartitioned, PoolOf
<1>3. \A p \in ToSet(list) : holders[p] = 0
  BY FreePagesNotHeld DEF HeldNeverFree
<1>4. /\ TakeFirst(t, list)
      /\ made' = made /\ lost' = lost /\ strays' = strays /\ crashed' = crashed /\ made[t]
      /\ made \in [Threads -> BOOLEAN] /\ crashed \in BOOLEAN
  BY DEF AllocReuse, IInv, TypeOK
<1> HIDE DEF list
<1> QED BY <1>1, <1>2, <1>3, <1>4, TakeFirstStep

LEMMA AllocGrowStep ==
  ASSUME IInv, NEW t \in Threads, AllocGrow(t)
  PROVE  IInv' /\ Allocator!BANext
<1>1. PICK p \in Fresh : TakeFirst(t, InsertHead(page_list_free[t], p))
  BY DEF AllocGrow
<1> DEFINE list == InsertHead(page_list_free[t], p)
<1>2. /\ p \in Pages /\ p \notin lost /\ holders[p] = 0
      /\ \A u \in Threads : p \notin PoolOf(u)
  BY FreshPages
<1>3. <<>> \in Seq(Pages) /\ page_list_free[t] = <<>>
  BY EmptySeq DEF AllocGrow
<1>4. /\ list \in Seq(Pages) /\ Len(list) = Len(<<>>) + 1
      /\ ToSet(list) = {p} /\ IsInjective(list)
  <2>1. list = <<p>> \o <<>>
    BY <1>3 DEF InsertHead
  <2>2. <<>> \in Seq(Pages) /\ p \notin ToSet(<<>>) /\ IsInjective(<<>>)
    BY <1>3, EmptyList
  <2>3. /\ <<p>> \o <<>> \in Seq(Pages) /\ Len(<<p>> \o <<>>) = Len(<<>>) + 1
        /\ ToSet(<<p>> \o <<>>) = {p} \cup ToSet(<<>>) /\ IsInjective(<<p>> \o <<>>)
    BY <1>2, <2>2, ConsList
  <2> QED BY <2>1, <2>3, EmptyList
<1>5. list # <<>>
  BY <1>4, EmptyList
<1>6. /\ ToSet(list) \cap ToSet(page_list_used[t]) = {}
      /\ ToSet(list) \cap lost = {}
      /\ \A u \in Threads \ {t} : ToSet(list) \cap PoolOf(u) = {}
      /\ \A q \in ToSet(list) : holders[q] = 0
  BY <1>2, <1>4 DEF PoolOf
<1>7. /\ TakeFirst(t, list)
      /\ made' = made /\ lost' = lost /\ strays' = strays /\ crashed' = crashed /\ made[t]
      /\ made \in [Threads -> BOOLEAN] /\ crashed \in BOOLEAN
  BY <1>1 DEF AllocGrow, IInv, TypeOK
<1> HIDE DEF list
<1> QED BY <1>4, <1>5, <1>6, <1>7, TakeFirstStep

\* The pool of a new heap is a non-empty, duplicate-free list of fresh pages.
LEMMA NewPoolList ==
  ASSUME IInv, NEW pool \in NewPool(NElem)
  PROVE  /\ pool \in Seq(Pages) /\ Len(pool) = NElem
         /\ pool # <<>> /\ IsInjective(pool)
         /\ ToSet(pool) \subseteq Fresh
<1>1. pool \in [1..NElem -> Fresh] /\ IsInjective(pool)
  BY DEF NewPool, Injection
<1>2. Fresh \subseteq Pages
  BY DEF Fresh
<1>3. pool \in Seq(Fresh) /\ Len(pool) = NElem
  BY <1>1, NElemAssumption, SeqDef
<1>4. pool \in Seq(Pages)
  BY <1>2, <1>3, SeqMonotonic
<1>5. pool # <<>>
  BY <1>3, NElemAssumption
<1> QED BY <1>1, <1>3, <1>4, <1>5, ToSetMember

LEMMA AllocFirstStep ==
  ASSUME IInv, NEW t \in Threads, AllocFirst(t)
  PROVE  IInv' /\ Allocator!BANext
<1>1. PICK list \in NewPool(NElem) : TakeFirst(t, list)
  BY DEF AllocFirst
<1>2. /\ list \in Seq(Pages) /\ list # <<>> /\ IsInjective(list)
      /\ ToSet(list) \subseteq Fresh
  BY NewPoolList
<1>3. /\ ToSet(list) \cap ToSet(page_list_used[t]) = {}
      /\ ToSet(list) \cap lost = {}
      /\ \A u \in Threads \ {t} : ToSet(list) \cap PoolOf(u) = {}
      /\ \A q \in ToSet(list) : holders[q] = 0
  BY <1>2, FreshPages DEF PoolOf
<1>4. made \in [Threads -> BOOLEAN] /\ made' = [made EXCEPT ![t] = TRUE]
  BY DEF AllocFirst, IInv, TypeOK
<1>5. /\ made' \in [Threads -> BOOLEAN] /\ made'[t]
      /\ \A u \in Threads \ {t} : made'[u] = made[u]
  BY <1>4, Zenon
<1>6. lost' = lost /\ strays' = strays /\ crashed' \in BOOLEAN
  BY DEF AllocFirst, IInv, TypeOK
<1> QED BY <1>1, <1>2, <1>3, <1>5, <1>6, TakeFirstStep

LEMMA FreeStep ==
  ASSUME IInv, NEW t \in Threads, NEW p \in Pages, Free(t, p)
  PROVE  IInv' /\ Allocator!BANext
<1> DEFINE used == page_list_used[t]
           free == page_list_free[t]
<1>1. /\ used \in Seq(Pages) /\ IsInjective(used) /\ p \in ToSet(used)
      /\ free \in Seq(Pages) /\ IsInjective(free) /\ p \notin ToSet(free)
  BY DEF Free, IInv, TypeOK, PagesPartitioned
<1>2. /\ Unlink(used, p) \in Seq(Pages)
      /\ IsInjective(Unlink(used, p))
      /\ ToSet(Unlink(used, p)) = ToSet(used) \ {p}
  BY <1>1, UnlinkList DEF Unlink
<1>3. /\ InsertHead(free, p) \in Seq(Pages)
      /\ IsInjective(InsertHead(free, p))
      /\ ToSet(InsertHead(free, p)) = {p} \cup ToSet(free)
  BY <1>1, ConsList DEF InsertHead
<1>4. holders[p] = 1
  BY DEF Free, MayFree, IInv, TypeOK, HeldInUse
<1>5. /\ page_list_free'[t] = InsertHead(free, p)
      /\ page_list_used'[t] = Unlink(used, p)
      /\ \A u \in Threads \ {t} : /\ page_list_free'[u] = page_list_free[u]
                                  /\ page_list_used'[u] = page_list_used[u]
      /\ \A q \in Pages : holders'[q] = IF q = p THEN 0 ELSE holders[q]
  BY <1>4 DEF Free, GiveUp, IInv, TypeOK
<1>6. TypeOK'
  <2>1. made' = made /\ lost' = lost /\ strays' = strays /\ peak' = peak /\ crashed' = crashed
    BY DEF Free
  <2>2. /\ page_list_free' \in [Threads -> Seq(Pages)]
        /\ page_list_used' \in [Threads -> Seq(Pages)]
    BY <1>2, <1>3 DEF Free, IInv, TypeOK
  <2>3. holders' \in [Pages -> Nat] /\ taken' \in [Threads -> SUBSET Pages]
    BY <1>4 DEF Free, GiveUp, IInv, TypeOK
  <2> QED BY <2>1, <2>2, <2>3, Zenon DEF TypeOK, IInv
<1>7. NoHeapNoPages'
  BY <1>5 DEF IInv, NoHeapNoPages, Free
<1>8. PagesPartitioned'
  <2>1. \A u \in Threads : PoolOf(u)' = PoolOf(u)
    BY <1>1, <1>2, <1>3, <1>5 DEF PoolOf
  <2>2. lost' = lost
    BY DEF Free
  <2>3. ASSUME NEW u \in Threads
        PROVE  /\ IsInjective(page_list_free'[u])
               /\ IsInjective(page_list_used'[u])
               /\ ToSet(page_list_free'[u]) \cap ToSet(page_list_used'[u]) = {}
    <3>1. ToSet(free) \cap ToSet(used) = {}
      BY DEF IInv, PagesPartitioned
    <3> QED BY <1>2, <1>3, <1>5, <3>1 DEF IInv, PagesPartitioned
  <2> QED BY <2>1, <2>2, <2>3 DEF IInv, PagesPartitioned
<1>9. HeldInUse'
  <2>1. \A u \in Threads : ToSet(page_list_used[u]) \ {p} \subseteq ToSet(page_list_used'[u])
    BY <1>2, <1>5
  <2>2. lost' = lost
    BY DEF Free
  <2> QED BY <1>5, <2>1, <2>2 DEF IInv, HeldInUse
<1>10. UsedIsHeld'
  <2>1. SUFFICES ASSUME NEW u \in Threads, NEW q \in ToSet(page_list_used'[u])
                 PROVE  holders'[q] = 1 \/ q \in strays'
    BY DEF UsedIsHeld
  <2>2. q \in Pages
    <3>1. page_list_used'[u] \in Seq(Pages)
      BY <1>6 DEF TypeOK
    <3> QED BY <2>1, <3>1, ToSetMember
  <2>3. q \in ToSet(page_list_used[u]) /\ q # p
    <3>1. CASE u = t
      BY <1>2, <1>5, <2>1, <3>1
    <3>2. CASE u # t
      BY <1>1, <1>5, <2>1, <3>2 DEF IInv, PagesPartitioned, PoolOf
    <3> QED BY <3>1, <3>2
  <2>4. strays' = strays
    BY DEF Free
  <2> QED BY <1>5, <2>1, <2>2, <2>3, <2>4 DEF IInv, UsedIsHeld
<1>11. Allocator!BANext
  <2>1. holders' = [holders EXCEPT ![p] = holders[p] - 1] /\ holders[p] - 1 = 0
    BY <1>4 DEF Free, GiveUp
  <2> QED BY <1>4, <2>1 DEF Allocator!BANext, Allocator!Free
<1> QED BY <1>6, <1>7, <1>8, <1>9, <1>10, <1>11 DEF IInv

LEMMA FreeNoHeapStep ==
  ASSUME IInv, NEW t \in Threads, NEW p \in Pages, FreeNoHeap(t, p)
  PROVE  IInv' /\ Allocator!BANext
<1>1. holders[p] = 1
  BY DEF FreeNoHeap, MayFree, IInv, TypeOK, HeldInUse
<1>2. /\ made' = made /\ lost' = lost /\ peak' = peak /\ crashed' = crashed
      /\ page_list_free' = page_list_free /\ page_list_used' = page_list_used
      /\ holders' = [holders EXCEPT ![p] = 0]
  <2>1. holders[p] - 1 = 0
    BY <1>1
  <2> QED BY <2>1 DEF FreeNoHeap, GiveUp
<1>3. strays' = strays \cup {p}
  BY DEF FreeNoHeap
<1>4. TypeOK'
  <2>1. holders' \in [Pages -> Nat]
    BY <1>2 DEF IInv, TypeOK
  <2>2. strays' \in SUBSET Pages
    BY <1>3 DEF IInv, TypeOK
  <2>3. taken' \in [Threads -> SUBSET Pages]
    BY DEF FreeNoHeap, GiveUp, IInv, TypeOK
  <2> QED BY <1>2, <2>1, <2>2, <2>3, Zenon DEF IInv, TypeOK
<1>5. NoHeapNoPages' /\ PagesPartitioned'
  BY <1>2 DEF IInv, NoHeapNoPages, PagesPartitioned, PoolOf
<1>6. HeldInUse'
  BY <1>2 DEF IInv, TypeOK, HeldInUse
<1>7. UsedIsHeld'
  <2>1. SUFFICES ASSUME NEW u \in Threads, NEW q \in ToSet(page_list_used'[u])
                 PROVE  holders'[q] = 1 \/ q \in strays'
    BY DEF UsedIsHeld
  <2>2. q \in Pages /\ q \in ToSet(page_list_used[u])
    <3>1. page_list_used'[u] \in Seq(Pages)
      BY <1>4 DEF TypeOK
    <3> QED BY <1>2, <2>1, <3>1, ToSetMember
  <2> QED BY <1>2, <1>3, <2>2 DEF IInv, TypeOK, UsedIsHeld
<1>8. Allocator!BANext
  BY <1>1, <1>2 DEF Allocator!BANext, Allocator!Free
<1> QED BY <1>4, <1>5, <1>6, <1>7, <1>8 DEF IInv

LEMMA ThreadExitStep ==
  ASSUME IInv, NEW t \in Threads, ThreadExit(t)
  PROVE  IInv' /\ UNCHANGED holders
<1>1. /\ page_list_free'[t] = <<>> /\ page_list_used'[t] = <<>> /\ peak'[t] = 0
      /\ ~made'[t] /\ made' \in [Threads -> BOOLEAN]
      /\ \A u \in Threads \ {t} : made'[u] = made[u]
  BY Zenon DEF ThreadExit, IInv, TypeOK
<1>2. /\ \A u \in Threads \ {t} : /\ page_list_free'[u] = page_list_free[u]
                                  /\ page_list_used'[u] = page_list_used[u]
                                  /\ peak'[u] = peak[u]
      /\ lost' = lost \cup PoolOf(t)
      /\ holders' = holders /\ strays' = strays /\ crashed' = crashed
  BY DEF ThreadExit, IInv, TypeOK, PoolOf
<1>3. PoolOf(t) \subseteq Pages
  BY ToSetMember DEF IInv, TypeOK, PoolOf
<1>4. TypeOK'
  <2>1. /\ page_list_free' \in [Threads -> Seq(Pages)]
        /\ page_list_used' \in [Threads -> Seq(Pages)]
        /\ peak' \in [Threads -> Nat] /\ taken' \in [Threads -> SUBSET Pages]
    BY EmptySeq DEF ThreadExit, IInv, TypeOK
  <2>2. lost' \in SUBSET Pages
    BY <1>2, <1>3 DEF IInv, TypeOK
  <2> QED BY <1>1, <1>2, <2>1, <2>2, Zenon DEF TypeOK, IInv
<1>5. NoHeapNoPages'
  BY <1>1, <1>2 DEF IInv, NoHeapNoPages
<1>6. PagesPartitioned'
  <2>1. PoolOf(t)' = {} /\ \A u \in Threads \ {t} : PoolOf(u)' = PoolOf(u)
    BY <1>1, <1>2, EmptyList DEF PoolOf
  <2>2. ASSUME NEW u \in Threads
        PROVE  /\ IsInjective(page_list_free'[u])
               /\ IsInjective(page_list_used'[u])
               /\ ToSet(page_list_free'[u]) \cap ToSet(page_list_used'[u]) = {}
               /\ PoolOf(u)' \cap lost' = {}
    <3>1. CASE u = t
      BY <1>1, <2>1, <3>1, EmptyList
    <3>2. CASE u # t
      BY <1>2, <2>1, <3>2 DEF IInv, PagesPartitioned
    <3> QED BY <3>1, <3>2
  <2>3. \A u, v \in Threads : u # v => PoolOf(u)' \cap PoolOf(v)' = {}
    BY <2>1 DEF IInv, PagesPartitioned
  <2> QED BY <2>2, <2>3 DEF PagesPartitioned
<1>7. HeldInUse'
  BY <1>2 DEF IInv, HeldInUse, PoolOf
<1>8. UsedIsHeld'
  BY <1>1, <1>2, EmptyList DEF IInv, UsedIsHeld
<1> QED BY <1>2, <1>4, <1>5, <1>6, <1>7, <1>8 DEF IInv

\* A crash changes nothing but the flag, and neither does stuttering.
LEMMA CrashStep ==
  ASSUME IInv, crashed' \in BOOLEAN,
         UNCHANGED <<made, page_list_free, page_list_used, lost, holders, strays, taken, peak>>
  PROVE  IInv'
<1>1. TypeOK'
  BY Zenon DEF IInv, TypeOK
<1>2. NoHeapNoPages' /\ PagesPartitioned' /\ HeldInUse' /\ UsedIsHeld'
  BY DEF IInv, NoHeapNoPages, PagesPartitioned, PoolOf, HeldInUse, UsedIsHeld
<1> QED BY <1>1, <1>2 DEF IInv

\* Every step preserves the invariant and is a step of the abstract
\* allocator or leaves who holds what alone.
LEMMA NextIInv ==
  ASSUME IInv, [Next]_vars
  PROVE  IInv' /\ [Allocator!BANext]_holders
<1>1. ASSUME NEW t \in Threads, AllocReuse(t) \/ AllocGrow(t) \/ AllocFirst(t)
      PROVE  IInv' /\ Allocator!BANext
  BY <1>1, AllocReuseStep, AllocGrowStep, AllocFirstStep
<1>2. ASSUME NEW t \in Threads, AllocOutOfMemory(t)
      PROVE  IInv' /\ UNCHANGED holders
  BY <1>2, CrashStep DEF AllocOutOfMemory
<1>3. ASSUME NEW t \in Threads, NEW p \in Pages, Free(t, p) \/ FreeNoHeap(t, p)
      PROVE  IInv' /\ Allocator!BANext
  BY <1>3, FreeStep, FreeNoHeapStep
<1>4. ASSUME NEW t \in Threads, NEW p \in Pages, FreeNotOurs(t, p)
      PROVE  IInv' /\ UNCHANGED holders
  BY <1>4, CrashStep DEF FreeNotOurs
<1>5. ASSUME NEW t \in Threads, ThreadExit(t)
      PROVE  IInv' /\ UNCHANGED holders
  BY <1>5, ThreadExitStep
<1>6. CASE UNCHANGED vars
  <2>1. crashed' \in BOOLEAN
    BY <1>6 DEF vars, IInv, TypeOK
  <2> QED BY <1>6, <2>1, CrashStep DEF vars
<1> QED BY <1>1, <1>2, <1>3, <1>4, <1>5, <1>6 DEF Next, ThreadStep

-----------------------------------------------------------------------------

\* The inductive invariant holds in every reachable state.
THEOREM Invariance == Spec => []IInv
<1>1. IInv /\ [Next]_vars => IInv'
  BY NextIInv
<1> QED BY <1>1, InitIInv, PTL DEF Spec

\* The lists, the maps and the counters keep their types.
THEOREM TypeCorrect == Spec => []TypeOK
<1>1. IInv => TypeOK
  BY DEF IInv
<1> QED BY <1>1, Invariance, PTL

\* No interleaving of allocations, frees (by any thread) and thread exits
\* puts a page on two lists or twice on one.
THEOREM Partition == Spec => []PagesPartitioned
<1>1. IInv => PagesPartitioned
  BY DEF IInv
<1> QED BY <1>1, Invariance, PTL

\* A block in somebody's hands is never on a free list.
THEOREM NoHeldPageIsFree == Spec => []HeldNeverFree
<1>1. IInv => HeldNeverFree
  BY FreePagesNotHeld
<1> QED BY <1>1, Invariance, PTL

\* No page leaks but those freed in a thread that had no heap.
THEOREM NoLeak == Spec => []UsedIsHeld
<1>1. IInv => UsedIsHeld
  BY DEF IInv
<1> QED BY <1>1, Invariance, PTL

\* Wherever a held block is, it is in use there or lost with its thread.
THEOREM HeldBlocksKept == Spec => []HeldInUse
<1>1. IInv => HeldInUse
  BY DEF IInv
<1> QED BY <1>1, Invariance, PTL

\* The arithmetic of a pool of n blocks at least, u of them in use, whose
\* peak was k: taking one of f free ones keeps its size equal to its peak.
LEMMA PeakArithmetic ==
  ASSUME NEW n \in Nat \ {0}, NEW f \in Nat \ {0}, NEW u \in Nat, NEW k \in Nat,
         u <= k, f + u = IF k < n THEN n ELSE k,
         NEW m \in Nat, m = IF u < k THEN k ELSE u + 1
  PROVE  u + 1 <= m /\ (f - 1) + (u + 1) = IF m < n THEN n ELSE m
OBVIOUS

\* Taking the first page of a list that is as long as the free list, or one
\* longer when the free list is empty, keeps the bound on the pool.
LEMMA TakeFirstPool ==
  ASSUME IInv, PoolBound,
         NEW t \in Threads, NEW list \in Seq(Pages), list # <<>>,
         TakeFirst(t, list),
         made' \in [Threads -> BOOLEAN],
         \A u \in Threads \ {t} : made'[u] = made[u],
         \/ made[t] /\ list = page_list_free[t]
         \/ made[t] /\ page_list_free[t] = <<>> /\ Len(list) = 1
         \/ ~made[t] /\ Len(list) = NElem
  PROVE  PoolBound'
<1> DEFINE used == page_list_used[t]
           big(n) == IF n < NElem THEN NElem ELSE n
<1>1. used \in Seq(Pages) /\ Len(used) \in Nat /\ peak[t] \in Nat /\ NElem \in Nat \ {0}
  BY NElemAssumption, LenProperties DEF IInv, TypeOK
<1>2. /\ Len(list) \in Nat \ {0}
      /\ Len(Tail(list)) = Len(list) - 1
      /\ Len(InsertHead(used, Head(list))) = Len(used) + 1
  <2>1. Head(list) \in Pages /\ Tail(list) \in Seq(Pages) /\ Len(Tail(list)) = Len(list) - 1
    BY HeadTailProperties
  <2>2. Len(list) \in Nat \ {0}
    BY EmptySeq, LenProperties
  <2>3. Len(<<Head(list)>> \o used) = Len(used) + 1
    BY <1>1, <2>1, ConsList, Zenon
  <2> QED BY <1>1, <2>1, <2>2, <2>3 DEF InsertHead
<1>3. /\ page_list_free'[t] = Tail(list)
      /\ page_list_used'[t] = InsertHead(used, Head(list))
      /\ peak'[t] = IF Len(used) < peak[t] THEN peak[t] ELSE Len(used) + 1
      /\ \A u \in Threads \ {t} : /\ page_list_free'[u] = page_list_free[u]
                                  /\ page_list_used'[u] = page_list_used[u]
                                  /\ peak'[u] = peak[u]
  BY DEF IInv, TypeOK, TakeFirst
<1>4. /\ made[t] => /\ Len(used) <= peak[t]
                    /\ Len(page_list_free[t]) + Len(used) = big(peak[t])
      /\ ~made[t] => Len(used) = 0 /\ peak[t] = 0
  BY EmptySeq DEF IInv, NoHeapNoPages, PoolBound
<1>5. /\ Len(used) + 1 <= peak'[t]
      /\ (Len(list) - 1) + (Len(used) + 1) = big(peak'[t])
  <2>1. CASE made[t] /\ list = page_list_free[t]
    <3>1. Len(used) <= peak[t] /\ Len(list) + Len(used) = big(peak[t])
      BY <1>4, <2>1
    <3>2. peak'[t] \in Nat
      BY <1>1, <1>3
    <3>3. /\ Len(list) \in Nat \ {0} /\ Len(used) \in Nat /\ peak[t] \in Nat
          /\ NElem \in Nat \ {0}
          /\ peak'[t] = IF Len(used) < peak[t] THEN peak[t] ELSE Len(used) + 1
      BY <1>1, <1>2, <1>3
    <3>4. PICK f \in Nat \ {0}, u \in Nat, k \in Nat, m \in Nat :
             f = Len(list) /\ u = Len(used) /\ k = peak[t] /\ m = peak'[t]
      BY <3>2, <3>3
    <3>5. u <= k /\ f + u = big(k) /\ m = IF u < k THEN k ELSE u + 1
      BY <3>1, <3>3, <3>4
    <3>6. u + 1 <= m /\ (f - 1) + (u + 1) = big(m)
      BY <3>5, PeakArithmetic, NElemAssumption
    <3> QED BY <3>4, <3>6
  <2>2. CASE made[t] /\ page_list_free[t] = <<>> /\ Len(list) = 1
    <3>1. Len(page_list_free[t]) = 0
      BY <2>2
    <3>2. Len(used) = big(peak[t]) /\ Len(used) <= peak[t]
      BY <1>1, <1>4, <2>2, <3>1
    <3>3. Len(used) = peak[t] /\ NElem <= Len(used) /\ peak'[t] = Len(used) + 1
      BY <1>1, <1>3, <3>2
    <3> QED BY <1>1, <2>2, <3>3
  <2>3. CASE ~made[t] /\ Len(list) = NElem
    <3>1. Len(used) = 0 /\ peak'[t] = 1
      BY <1>3, <1>4, <2>3
    <3> QED BY <1>1, <2>3, <3>1
  <2> QED BY <2>1, <2>2, <2>3
<1>6. SUFFICES ASSUME NEW u \in Threads, made'[u]
               PROVE  /\ Len(page_list_used'[u]) <= peak'[u]
                      /\ Len(page_list_free'[u]) + Len(page_list_used'[u]) = big(peak'[u])
  BY DEF PoolBound
<1>7. CASE u = t
  <2>1. Len(page_list_used'[t]) = Len(used) + 1 /\ Len(page_list_free'[t]) = Len(list) - 1
    BY <1>2, <1>3
  <2> QED BY <1>5, <1>7, <2>1
<1>8. CASE u # t
  BY <1>3, <1>6, <1>8 DEF PoolBound
<1> QED BY <1>7, <1>8

\* A free moves one page, so the sum of the lengths stays.
LEMMA FreePool ==
  ASSUME IInv, PoolBound, NEW t \in Threads, NEW p \in Pages, Free(t, p)
  PROVE  PoolBound'
<1> DEFINE used == page_list_used[t]
           free == page_list_free[t]
<1>1. /\ used \in Seq(Pages) /\ IsInjective(used) /\ p \in ToSet(used)
      /\ free \in Seq(Pages) /\ Len(free) \in Nat /\ Len(used) \in Nat
  BY LenProperties DEF Free, IInv, TypeOK, PagesPartitioned
<1>2. Len(Unlink(used, p)) = Len(used) - 1
  BY <1>1, UnlinkList DEF Unlink
<1>3. Len(InsertHead(free, p)) = Len(free) + 1
  <2>1. Len(<<p>> \o free) = 1 + Len(free)
    BY <1>1, ConsList
  <2> QED BY <1>1, <2>1 DEF InsertHead
<1>4. /\ page_list_free'[t] = InsertHead(free, p)
      /\ page_list_used'[t] = Unlink(used, p)
      /\ \A u \in Threads \ {t} : /\ page_list_free'[u] = page_list_free[u]
                                  /\ page_list_used'[u] = page_list_used[u]
      /\ made' = made /\ peak' = peak /\ made[t] /\ peak[t] \in Nat
  BY DEF Free, IInv, TypeOK
<1>5. SUFFICES ASSUME NEW u \in Threads, made'[u]
               PROVE  /\ Len(page_list_used'[u]) <= peak'[u]
                      /\ Len(page_list_free'[u]) + Len(page_list_used'[u])
                           = IF peak'[u] < NElem THEN NElem ELSE peak'[u]
  BY DEF PoolBound
<1>6. CASE u = t
  <2>1. /\ Len(page_list_used'[t]) = Len(used) - 1
        /\ Len(page_list_free'[t]) = Len(free) + 1
        /\ peak'[t] = peak[t]
    BY <1>2, <1>3, <1>4
  <2>2. /\ Len(used) <= peak[t]
        /\ Len(free) + Len(used) = IF peak[t] < NElem THEN NElem ELSE peak[t]
    BY <1>4 DEF PoolBound
  <2>3. (Len(free) + 1) + (Len(used) - 1) = Len(free) + Len(used) /\ Len(used) - 1 <= peak[t]
    <3>1. \A f, w, k \in Nat : w <= k => (f + 1) + (w - 1) = f + w /\ w - 1 <= k
      OBVIOUS
    <3> QED BY <1>1, <1>4, <2>2, <3>1
  <2> QED BY <1>6, <2>1, <2>2, <2>3
<1>7. CASE u # t
  BY <1>4, <1>5, <1>7 DEF PoolBound
<1> QED BY <1>6, <1>7

\* Every heap is as large as its busiest moment made it, never larger: a
\* block freed is the next to be handed out before malloc is asked again.
THEOREM PoolBounded == Spec => []PoolBound
<1>1. Init => PoolBound
  BY DEF Init, PoolBound
<1>2. ASSUME IInv, PoolBound, [Next]_vars
      PROVE  PoolBound'
  <2>1. ASSUME NEW t \in Threads, AllocReuse(t)
        PROVE  PoolBound'
    BY <1>2, <2>1, TakeFirstPool DEF AllocReuse, IInv, TypeOK
  <2>2. ASSUME NEW t \in Threads, AllocGrow(t)
        PROVE  PoolBound'
    <3>1. PICK p \in Fresh : TakeFirst(t, InsertHead(page_list_free[t], p))
      BY <2>2 DEF AllocGrow
    <3>2. p \in Pages
      BY DEF Fresh
    <3>3. InsertHead(page_list_free[t], p) = <<p>> \o <<>>
      BY <2>2 DEF AllocGrow, InsertHead
    <3>4. <<p>> \o <<>> \in Seq(Pages) /\ Len(<<p>> \o <<>>) = 1 /\ <<p>> \o <<>> # <<>>
      BY <3>2
    <3> QED BY <1>2, <2>2, <3>1, <3>3, <3>4, TakeFirstPool DEF AllocGrow, IInv, TypeOK
  <2>3. ASSUME NEW t \in Threads, AllocFirst(t)
        PROVE  PoolBound'
    <3>1. PICK list \in NewPool(NElem) : TakeFirst(t, list)
      BY <2>3 DEF AllocFirst
    <3>2. list \in Seq(Pages) /\ Len(list) = NElem /\ list # <<>>
      BY <1>2, NewPoolList
    <3>3. made' \in [Threads -> BOOLEAN] /\ \A u \in Threads \ {t} : made'[u] = made[u]
      BY <1>2, <2>3, Zenon DEF AllocFirst, IInv, TypeOK
    <3>4. ~made[t]
      BY <2>3 DEF AllocFirst
    <3> QED BY <1>2, <3>1, <3>2, <3>3, <3>4, TakeFirstPool
  <2>4. ASSUME NEW t \in Threads, NEW p \in Pages, Free(t, p)
        PROVE  PoolBound'
    BY <1>2, <2>4, FreePool
  <2>5. ASSUME NEW t \in Threads, ThreadExit(t)
        PROVE  PoolBound'
    <3>1. /\ ~made'[t]
          /\ \A u \in Threads \ {t} :
               /\ made'[u] = made[u] /\ peak'[u] = peak[u]
               /\ page_list_free'[u] = page_list_free[u]
               /\ page_list_used'[u] = page_list_used[u]
      BY <1>2, <2>5 DEF ThreadExit, IInv, TypeOK
    <3> QED BY <1>2, <3>1 DEF PoolBound
  <2>6. CASE UNCHANGED <<made, page_list_free, page_list_used, peak>>
    BY <1>2, <2>6 DEF PoolBound
  <2>7. ASSUME NEW t \in Threads, NEW p \in Pages,
               AllocOutOfMemory(t) \/ FreeNoHeap(t, p) \/ FreeNotOurs(t, p)
        PROVE  UNCHANGED <<made, page_list_free, page_list_used, peak>>
    BY <2>7 DEF AllocOutOfMemory, FreeNoHeap, FreeNotOurs
  <2>8. ASSUME NEW t \in Threads, AllocOutOfMemory(t)
        PROVE  UNCHANGED <<made, page_list_free, page_list_used, peak>>
    BY <2>8 DEF AllocOutOfMemory
  <2> QED BY <1>2, <2>1, <2>2, <2>3, <2>4, <2>5, <2>6, <2>7, <2>8 DEF Next, ThreadStep, vars
<1> QED BY <1>1, <1>2, Invariance, PTL DEF Spec

\* A block that a thread without a heap has freed stays in use, or lost, and
\* nobody gets it again.
StraysStay ==
  \A p \in strays : /\ holders[p] = 0
                    /\ p \in lost \/ \E t \in Threads : p \in ToSet(page_list_used[t])

TakenInv == StraysStay /\ UsedIsTaken

\* The first of a list of pages nobody has is no stray; taking it keeps the
\* invariant.
LEMMA TakeFirstTaken ==
  ASSUME IInv, TakenInv, NEW t \in Threads, NEW list \in Seq(Pages), list # <<>>,
         \A p \in ToSet(list) : /\ holders[p] = 0 /\ p \notin lost
                                /\ \A u \in Threads : p \notin ToSet(page_list_used[u]),
         TakeFirst(t, list), lost' = lost, strays' = strays
  PROVE  TakenInv'
<1> DEFINE h == Head(list)
           used == page_list_used[t]
<1>1. h \in ToSet(list) /\ h \in Pages
  <2>1. list[1] = Head(list) /\ 1 \in DOMAIN list
    BY LenProperties, EmptySeq
  <2> QED BY <2>1, ToSetMember DEF ToSet
<1>2. h \notin strays
  BY <1>1 DEF TakenInv, StraysStay
<1>3. /\ used \in Seq(Pages) /\ IsInjective(used) /\ h \notin ToSet(used)
      /\ taken \in [Threads -> SUBSET Pages] /\ strays \in SUBSET Pages
      /\ holders \in [Pages -> Nat]
  BY <1>1 DEF IInv, TypeOK, PagesPartitioned
<1>4. ToSet(InsertHead(used, h)) = {h} \cup ToSet(used)
  BY <1>1, <1>3, ConsList DEF InsertHead
<1>5. /\ page_list_used'[t] = InsertHead(used, h) /\ taken'[t] = taken[t] \cup {h}
      /\ \A u \in Threads \ {t} : /\ page_list_used'[u] = page_list_used[u]
                                  /\ taken'[u] = taken[u]
      /\ \A p \in Pages \ {h} : holders'[p] = holders[p]
  BY <1>3 DEF IInv, TypeOK, TakeFirst
<1>6. UsedIsTaken'
  <2>1. SUFFICES ASSUME NEW u \in Threads
                 PROVE  taken'[u] = ToSet(page_list_used'[u]) \ strays
    BY DEF UsedIsTaken
  <2>2. taken[u] = ToSet(page_list_used[u]) \ strays
    BY DEF TakenInv, UsedIsTaken
  <2> QED BY <1>2, <1>4, <1>5, <2>2
<1>7. StraysStay'
  <2>1. \A u \in Threads : ToSet(page_list_used[u]) \subseteq ToSet(page_list_used'[u])
    BY <1>4, <1>5
  <2>2. \A p \in strays : p \in Pages \ {h}
    BY <1>2, <1>3
  <2> QED BY <1>5, <2>1, <2>2 DEF TakenInv, StraysStay
<1> QED BY <1>6, <1>7 DEF TakenInv

\* The three kinds of allocation.
LEMMA AllocTaken ==
  ASSUME IInv, TakenInv, NEW t \in Threads, AllocReuse(t) \/ AllocGrow(t) \/ AllocFirst(t)
  PROVE  TakenInv'
<1>1. CASE AllocReuse(t)
  <2>1. page_list_free[t] \in Seq(Pages) /\ page_list_free[t] # <<>>
    BY <1>1 DEF IInv, TypeOK, AllocReuse
  <2>2. \A p \in ToSet(page_list_free[t]) :
          /\ holders[p] = 0 /\ p \notin lost
          /\ \A u \in Threads : p \notin ToSet(page_list_used[u])
    BY FreePagesNotHeld DEF HeldNeverFree, IInv, PagesPartitioned, PoolOf
  <2>3. TakeFirst(t, page_list_free[t]) /\ lost' = lost /\ strays' = strays
    BY <1>1 DEF AllocReuse
  <2> QED BY <2>1, <2>2, <2>3, TakeFirstTaken
<1>2. CASE AllocGrow(t)
  <2>1. PICK p \in Fresh : TakeFirst(t, InsertHead(page_list_free[t], p))
    BY <1>2 DEF AllocGrow
  <2>2. page_list_free[t] = <<>> /\ lost' = lost /\ strays' = strays
    BY <1>2 DEF AllocGrow
  <2>3. /\ p \in Pages /\ p \notin lost /\ holders[p] = 0
        /\ \A u \in Threads : p \notin PoolOf(u)
    BY FreshPages
  <2> DEFINE list == InsertHead(page_list_free[t], p)
  <2>4. list \in Seq(Pages) /\ list # <<>> /\ ToSet(list) = {p}
    <3>1. <<>> \in Seq(Pages) /\ p \notin ToSet(<<>>) /\ IsInjective(<<>>) /\ ToSet(<<>>) = {}
      BY EmptySeq, EmptyList
    <3>2. /\ <<p>> \o <<>> \in Seq(Pages) /\ Len(<<p>> \o <<>>) = Len(<<>>) + 1
          /\ ToSet(<<p>> \o <<>>) = {p} \cup ToSet(<<>>)
      BY <2>3, <3>1, ConsList
    <3>3. list = <<p>> \o <<>>
      BY <2>2 DEF InsertHead
    <3> QED BY <3>1, <3>2, <3>3
  <2>5. \A q \in ToSet(list) : /\ holders[q] = 0 /\ q \notin lost
                               /\ \A u \in Threads : q \notin ToSet(page_list_used[u])
    BY <2>3, <2>4 DEF PoolOf
  <2> HIDE DEF list
  <2>6. TakeFirst(t, list)
    BY <2>1 DEF list
  <2> QED BY <2>2, <2>4, <2>5, <2>6, TakeFirstTaken
<1>3. CASE AllocFirst(t)
  <2>1. PICK list \in NewPool(NElem) : TakeFirst(t, list)
    BY <1>3 DEF AllocFirst
  <2>2. list \in Seq(Pages) /\ list # <<>> /\ ToSet(list) \subseteq Fresh
    BY NewPoolList
  <2>3. \A p \in ToSet(list) : /\ holders[p] = 0 /\ p \notin lost
                               /\ \A u \in Threads : p \notin ToSet(page_list_used[u])
    BY <2>2, FreshPages DEF PoolOf
  <2>4. lost' = lost /\ strays' = strays
    BY <1>3 DEF AllocFirst
  <2> QED BY <2>1, <2>2, <2>3, <2>4, TakeFirstTaken
<1> QED BY <1>1, <1>2, <1>3

\* A free takes its block, which is no stray, off one used list.
LEMMA FreeTaken ==
  ASSUME IInv, TakenInv, NEW t \in Threads, NEW p \in Pages, Free(t, p)
  PROVE  TakenInv'
<1>1. /\ page_list_used[t] \in Seq(Pages) /\ IsInjective(page_list_used[t])
      /\ page_list_used \in [Threads -> Seq(Pages)]
      /\ taken \in [Threads -> SUBSET Pages] /\ holders \in [Pages -> Nat]
      /\ strays \in SUBSET Pages /\ holders[p] = 1 /\ p \in ToSet(page_list_used[t])
  BY DEF Free, MayFree, IInv, TypeOK, HeldInUse, PagesPartitioned
<1>2. ToSet(Unlink(page_list_used[t], p)) = ToSet(page_list_used[t]) \ {p}
  BY <1>1, UnlinkList DEF Unlink
<1>3. /\ page_list_used'[t] = Unlink(page_list_used[t], p)
      /\ \A u \in Threads \ {t} : page_list_used'[u] = page_list_used[u]
      /\ \A u \in Threads : taken'[u] = taken[u] \ {p}
      /\ \A q \in Pages \ {p} : holders'[q] = holders[q]
      /\ strays' = strays /\ lost' = lost
  BY <1>1 DEF Free, GiveUp
<1>4. \A u \in Threads : ToSet(page_list_used'[u]) = ToSet(page_list_used[u]) \ {p}
  <2>1. ASSUME NEW u \in Threads \ {t} PROVE p \notin ToSet(page_list_used[u])
    BY <1>1 DEF IInv, PagesPartitioned, PoolOf
  <2> QED BY <1>2, <1>3, <2>1
<1>5. p \notin strays
  BY <1>1 DEF TakenInv, StraysStay
<1>6. UsedIsTaken'
  <2>1. \A u \in Threads : taken[u] = ToSet(page_list_used[u]) \ strays
    BY DEF TakenInv, UsedIsTaken
  <2> QED BY <1>3, <1>4, <2>1 DEF UsedIsTaken
<1>7. StraysStay'
  <2>1. \A q \in strays : q \in Pages \ {p}
    BY <1>1, <1>5
  <2> QED BY <1>3, <1>4, <2>1 DEF TakenInv, StraysStay
<1> QED BY <1>6, <1>7 DEF TakenInv

\* A free without a heap makes its block a stray.
LEMMA FreeNoHeapTaken ==
  ASSUME IInv, TakenInv, NEW t \in Threads, NEW p \in Pages, FreeNoHeap(t, p)
  PROVE  TakenInv'
<1>1. /\ holders[p] = 1 /\ holders \in [Pages -> Nat]
      /\ taken \in [Threads -> SUBSET Pages] /\ strays \in SUBSET Pages
  BY DEF FreeNoHeap, MayFree, IInv, TypeOK, HeldInUse
<1>2. p \in lost \/ \E u \in Threads : p \in ToSet(page_list_used[u])
  BY <1>1 DEF IInv, HeldInUse
<1>3. /\ holders'[p] = 0 /\ \A q \in Pages \ {p} : holders'[q] = holders[q]
      /\ \A u \in Threads : taken'[u] = taken[u] \ {p}
      /\ strays' = strays \cup {p} /\ lost' = lost /\ page_list_used' = page_list_used
  BY <1>1 DEF FreeNoHeap, GiveUp
<1>4. UsedIsTaken'
  BY <1>3 DEF TakenInv, UsedIsTaken
<1>5. StraysStay'
  BY <1>1, <1>2, <1>3 DEF TakenInv, StraysStay
<1> QED BY <1>4, <1>5 DEF TakenInv

LEMMA ThreadExitTaken ==
  ASSUME IInv, TakenInv, NEW t \in Threads, ThreadExit(t)
  PROVE  TakenInv'
<1>1. /\ page_list_used'[t] = <<>> /\ taken'[t] = {}
      /\ \A u \in Threads \ {t} : /\ page_list_used'[u] = page_list_used[u]
                                  /\ taken'[u] = taken[u]
      /\ holders' = holders /\ strays' = strays
      /\ lost \subseteq lost' /\ ToSet(page_list_used[t]) \subseteq lost'
  BY DEF ThreadExit, IInv, TypeOK
<1>2. UsedIsTaken'
  BY <1>1, EmptyList DEF TakenInv, UsedIsTaken
<1>3. StraysStay'
  BY <1>1 DEF TakenInv, StraysStay
<1> QED BY <1>2, <1>3 DEF TakenInv

\* A thread's used list is what it took from its heap and nobody freed, but
\* for strays: it can free that, and no block of another heap gets into it.
THEOREM OwnFreesWork == Spec => []UsedIsTaken
<1>1. Init => TakenInv
  BY EmptyList DEF Init, TakenInv, StraysStay, UsedIsTaken
<1>2. ASSUME IInv, TakenInv, [Next]_vars
      PROVE  TakenInv'
  <2>1. ASSUME NEW t \in Threads, ThreadStep(t)
        PROVE  TakenInv'
    <3>1. CASE AllocReuse(t) \/ AllocGrow(t) \/ AllocFirst(t)
      BY <1>2, <3>1, AllocTaken
    <3>2. CASE AllocOutOfMemory(t)
      BY <1>2, <3>2 DEF AllocOutOfMemory, TakenInv, StraysStay, UsedIsTaken
    <3>3. ASSUME NEW p \in Pages, Free(t, p) \/ FreeNoHeap(t, p)
          PROVE  TakenInv'
      BY <1>2, <3>3, FreeTaken, FreeNoHeapTaken
    <3>4. ASSUME NEW p \in Pages, FreeNotOurs(t, p)
          PROVE  TakenInv'
      BY <1>2, <3>4 DEF FreeNotOurs, TakenInv, StraysStay, UsedIsTaken
    <3>5. CASE ThreadExit(t)
      BY <1>2, <3>5, ThreadExitTaken
    <3> QED BY <2>1, <3>1, <3>2, <3>3, <3>4, <3>5 DEF ThreadStep
  <2>2. CASE UNCHANGED vars
    BY <1>2, <2>2 DEF vars, TakenInv, StraysStay, UsedIsTaken
  <2> QED BY <1>2, <2>1, <2>2 DEF Next
<1>3. TakenInv => UsedIsTaken
  BY DEF TakenInv
<1> QED BY <1>1, <1>2, <1>3, Invariance, PTL DEF Spec

\* The per-thread free lists implement the abstract block allocator: no
\* block has two holders, whatever the threads do.
THEOREM ImplementsAllocator == Spec => AllocatorSpec
<1>1. Init => Allocator!BAInit
  BY DEF Init, Allocator!BAInit
<1>2. IInv /\ [Next]_vars => [Allocator!BANext]_holders
  BY NextIInv
<1> QED BY <1>1, <1>2, Invariance, PTL DEF Spec, AllocatorSpec, Allocator!BASpec
=============================================================================
