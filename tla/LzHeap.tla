------------------------------- MODULE LzHeap -------------------------------
(***************************************************************************)
(* lz_heap: the free-list allocator of liblz, together with the way the    *)
(* JSON values (lz_json.c) and the queue elements (lz_tailq.c) use it: one *)
(* heap per thread, reached through a __thread pointer, created with NElem *)
(* blocks by the first allocation of that thread and never destroyed.      *)
(*                                                                         *)
(* A block is the page it lives in (lz_heap_page and its data[] are one    *)
(* malloc).  The C heap behind malloc is the set Pages: malloc returns any *)
(* page no list and no dead thread has, and fails when there is none.      *)
(***************************************************************************)
EXTENDS SequencesExt

CONSTANTS
  Threads,         \* the threads of the program
  Pages,           \* every page malloc can ever return
  NElem            \* blocks a new heap starts with (1024 in both callers)

ASSUME NElemAssumption == NElem \in Nat \ {0}
ASSUME PagesAssumption == IsFiniteSet(Pages)

VARIABLES
  made,             \* made[t]: the __thread heap pointer of t is not NULL
  page_list_free,   \* page_list_free[t], head first
  page_list_used,   \* page_list_used[t], head first
  lost,             \* pages of heaps whose thread has exited
  holders,          \* holders[p]: allocations of p minus frees of p
  strays,           \* history: blocks freed in a thread that had no heap
  taken,            \* history: blocks t's heap handed out and nobody freed
  peak,             \* history: most blocks of t's heap in use at one time
  crashed           \* the process took SIGSEGV

vars == <<made, page_list_free, page_list_used, lost, holders, strays,
          taken, peak, crashed>>

-----------------------------------------------------------------------------

\* The pages malloc may still return.
Fresh == Pages \ (lost \cup UNION { ToSet(page_list_free[t]) \cup
                                    ToSet(page_list_used[t]) : t \in Threads })

\* Definitions headed "Faulty" are defects a change to the code could bring
\* in; the properties notice each (PROJECT.json says which).
\* Faulty: the loop that fills a new heap goes round once too often.
OneTooMany(n) == Injection(1..(n + 1), Fresh)

\* SLIST_INSERT_HEAD and SLIST_REMOVE of an element the list contains.
InsertHead(list, p) == <<p>> \o list

\* Faulty: the head is removed, whichever block is freed.
UnlinkHead(list, p) == Tail(list)

Unlink(list, p) == RemoveFirst(list, p)

\* The free list of a heap with n blocks: malloc picks the pages.
NewPool(n) == Injection(1..n, Fresh)

Init ==
  /\ made = [t \in Threads |-> FALSE]
  /\ page_list_free = [t \in Threads |-> <<>>]
  /\ page_list_used = [t \in Threads |-> <<>>]
  /\ lost = {}
  /\ holders = [p \in Pages |-> 0]
  /\ strays = {}
  /\ taken = [t \in Threads |-> {}]
  /\ peak = [t \in Threads |-> 0]
  /\ crashed = FALSE

-----------------------------------------------------------------------------

\* Faulty: the block handed out stays on the free list.
TakeWithoutUnlink(t, list) ==
  /\ page_list_free' = [page_list_free EXCEPT ![t] = list]
  /\ page_list_used' = [page_list_used EXCEPT
                          ![t] = InsertHead(page_list_used[t], Head(list))]
  /\ holders' = [holders EXCEPT ![Head(list)] = holders[Head(list)] + 1]
  /\ taken' = [taken EXCEPT ![t] = taken[t] \cup {Head(list)}]
  /\ peak' = [peak EXCEPT ![t] = Len(page_list_used[t]) + 1]

\* The head of the free list `list` of t becomes the head of its used list
\* and is returned to the caller.
TakeFirst(t, list) ==
  /\ page_list_free' = [page_list_free EXCEPT ![t] = Tail(list)]
  /\ page_list_used' = [page_list_used EXCEPT
                          ![t] = InsertHead(page_list_used[t], Head(list))]
  /\ holders' = [holders EXCEPT ![Head(list)] = holders[Head(list)] + 1]
  /\ taken' = [taken EXCEPT ![t] = taken[t] \cup {Head(list)}]
  /\ peak' = [peak EXCEPT ![t] = IF Len(page_list_used[t]) < peak[t]
                                 THEN peak[t]
                                 ELSE Len(page_list_used[t]) + 1]

\* Allocation by a thread that has a heap with an unused block.
AllocReuse(t) ==
  /\ ~crashed /\ made[t]
  /\ page_list_free[t] # <<>>
  /\ TakeFirst(t, page_list_free[t])
  /\ UNCHANGED <<made, lost, strays, crashed>>

\* Allocation that finds the free list empty and grows the heap by a page.
AllocGrow(t) ==
  /\ ~crashed /\ made[t]
  /\ page_list_free[t] = <<>>
  /\ \E p \in Fresh : TakeFirst(t, InsertHead(page_list_free[t], p))
  /\ UNCHANGED <<made, lost, strays, crashed>>

\* The first allocation of a thread creates its heap.
AllocFirst(t) ==
  /\ ~crashed /\ ~made[t]
  /\ \E pool \in NewPool(NElem) : TakeFirst(t, pool)
  /\ made' = [made EXCEPT ![t] = TRUE]
  /\ UNCHANGED <<lost, strays, crashed>>

\* malloc fails in _lz_heap_page_new, which stores through the result
\* before anyone looks at it.
AllocOutOfMemory(t) ==
  /\ ~crashed
  /\ IF made[t] THEN page_list_free[t] = <<>> /\ Fresh = {}
                ELSE Cardinality(Fresh) < NElem
  /\ crashed' = TRUE
  /\ UNCHANGED <<made, page_list_free, page_list_used, lost, holders, strays, taken, peak>>

\* Whether a thread may free block p: somebody holds it.  Any thread may
\* be the one that frees it.
MayFree(p) == holders[p] > 0

\* Block p leaves its holder: nobody has it now.
GiveUp(p) ==
  /\ holders' = [holders EXCEPT ![p] = holders[p] - 1]
  /\ taken' = [t \in Threads |-> taken[t] \ {p}]

\* Faulty: the SLIST_REMOVE is forgotten.
FreeKeepsUsed(t, p) ==
  /\ ~crashed /\ made[t] /\ MayFree(p)
  /\ page_list_free' = [page_list_free EXCEPT ![t] = InsertHead(page_list_free[t], p)]
  /\ GiveUp(p)
  /\ UNCHANGED <<made, page_list_used, lost, strays, peak, crashed>>

\* lz_heap_free of a block of this thread's heap.
Free(t, p) ==
  /\ ~crashed /\ made[t] /\ MayFree(p)
  /\ p \in ToSet(page_list_used[t])
  /\ page_list_used' = [page_list_used EXCEPT ![t] = Unlink(page_list_used[t], p)]
  /\ page_list_free' = [page_list_free EXCEPT ![t] = InsertHead(page_list_free[t], p)]
  /\ GiveUp(p)
  /\ UNCHANGED <<made, lost, strays, peak, crashed>>

\* lz_heap_free in a thread that has no heap returns at once: the block
\* stays where it is, for good.
FreeNoHeap(t, p) ==
  /\ ~crashed /\ ~made[t] /\ MayFree(p)
  /\ GiveUp(p)
  /\ strays' = strays \cup {p}
  /\ UNCHANGED <<made, page_list_free, page_list_used, lost, peak, crashed>>

\* lz_heap_free of a block of another heap: SLIST_REMOVE runs off the end
\* of the used list and reads through NULL.
FreeNotOurs(t, p) ==
  /\ ~crashed /\ made[t] /\ MayFree(p)
  /\ p \notin ToSet(page_list_used[t])
  /\ crashed' = TRUE
  /\ UNCHANGED <<made, page_list_free, page_list_used, lost, holders, strays, taken, peak>>

\* A thread ends: its __thread pointer goes, the heap is never destroyed.
ThreadExit(t) ==
  /\ ~crashed /\ made[t]
  /\ made' = [made EXCEPT ![t] = FALSE]
  /\ lost' = lost \cup ToSet(page_list_free[t]) \cup ToSet(page_list_used[t])
  /\ page_list_free' = [page_list_free EXCEPT ![t] = <<>>]
  /\ page_list_used' = [page_list_used EXCEPT ![t] = <<>>]
  /\ peak' = [peak EXCEPT ![t] = 0]
  /\ taken' = [taken EXCEPT ![t] = {}]
  /\ UNCHANGED <<holders, strays, crashed>>

ThreadStep(t) ==
  \/ AllocReuse(t) \/ AllocGrow(t) \/ AllocFirst(t) \/ AllocOutOfMemory(t)
  \/ \E p \in Pages : Free(t, p) \/ FreeNoHeap(t, p) \/ FreeNotOurs(t, p)
  \/ ThreadExit(t)

Next == \E t \in Threads : ThreadStep(t)

Spec == Init /\ [][Next]_vars
-----------------------------------------------------------------------------

TypeOK ==
  /\ made \in [Threads -> BOOLEAN]
  /\ page_list_free \in [Threads -> Seq(Pages)]
  /\ page_list_used \in [Threads -> Seq(Pages)]
  /\ lost \in SUBSET Pages
  /\ holders \in [Pages -> Nat]
  /\ strays \in SUBSET Pages
  /\ taken \in [Threads -> SUBSET Pages]
  /\ peak \in [Threads -> Nat]
  /\ crashed \in BOOLEAN

\* The pages thread t's heap knows.
PoolOf(t) == ToSet(page_list_free[t]) \cup ToSet(page_list_used[t])

\* A page is on at most one list of at most one heap, and once on it:
\* Unlink-then-InsertHead of lz_heap.c:81 and :101 never duplicates or
\* shares a page, whatever threads free.
PagesPartitioned ==
  /\ \A t \in Threads : /\ IsInjective(page_list_free[t])
                        /\ IsInjective(page_list_used[t])
                        /\ ToSet(page_list_free[t]) \cap ToSet(page_list_used[t]) = {}
                        /\ PoolOf(t) \cap lost = {}
  /\ \A t, u \in Threads : t # u => PoolOf(t) \cap PoolOf(u) = {}

\* A block somebody holds is on no free list, so no allocation of any
\* thread hands it out again.
HeldNeverFree ==
  \A t \in Threads : \A p \in ToSet(page_list_free[t]) : holders[p] = 0

\* A block somebody holds is in use in a live heap or belongs to the heap
\* of a thread that has exited; HeldNeverFree follows from this one and
\* PagesPartitioned.
HeldInUse ==
  \A p \in Pages : /\ holders[p] <= 1
                   /\ holders[p] = 1 =>
                        \/ p \in lost
                        \/ \E t \in Threads : p \in ToSet(page_list_used[t])

\* Nothing leaks but through lz_heap_free with a NULL heap: a page on a
\* used list has a holder or was freed in a thread that had no heap.
UsedIsHeld ==
  \A t \in Threads : \A p \in ToSet(page_list_used[t]) :
    holders[p] = 1 \/ p \in strays

\* Recycling works: a heap has exactly as many pages as its largest
\* number of blocks in use asked for, and NElem at least.
PoolBound ==
  \A t \in Threads :
    made[t] => /\ Len(page_list_used[t]) <= peak[t]
               /\ Len(page_list_free[t]) + Len(page_list_used[t])
                    = IF peak[t] < NElem THEN NElem ELSE peak[t]

\* The used list of a heap is what its thread has taken from it and nobody
\* has freed, apart from strays.  So a thread can always free what it took
\* itself, whatever others freed meanwhile: SLIST_REMOVE finds the block.  And
\* a block taken from another heap, or before a thread ended, is never
\* found, so that freeing it crashes and does not move it to a second heap.
UsedIsTaken ==
  \A t \in Threads : taken[t] = ToSet(page_list_used[t]) \ strays

\* The free lists implement the abstract block allocator.
Allocator == INSTANCE BlockAllocator WITH Blocks <- Pages
AllocatorSpec == Allocator!BASpec
=============================================================================
