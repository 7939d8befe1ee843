------------------------------ MODULE LzTailq ------------------------------
(***************************************************************************)
(* lz_tailq: counted queues of elements that carry data, the list behind   *)
(* JSON arrays.  An element remembers the queue it was put on (tq_head);   *)
(* taking it off uses that memory and does not clear it.  for_each keeps   *)
(* the element it goes on with (temp) while the user's iterfn runs; clear  *)
(* and free call the user's freefn for each element they have taken off.   *)
(*                                                                         *)
(* TAILQ of <sys/queue.h> is modelled by what it does to the order of a    *)
(* queue.  The contract granted to the program: an element is put on a     *)
(* queue only while it is on none, and taken off or freed accordingly      *)
(* (only elements fresh from lz_tailq_elem_new may be taken off in vain);  *)
(* inside iterfn the element saved in temp stays where it is; freefn puts  *)
(* nothing on the queue that is being emptied and takes nothing off it.    *)
(* Callbacks of callbacks are left out: freefn neither walks nor empties   *)
(* another queue, and iterfn walks none (LzJsonValues has nested frees).   *)
(***************************************************************************)
EXTENDS SequencesExt

CONSTANTS
  Queues,      \* addresses of queues
  Elems,       \* addresses of elements
  Data,        \* the user's data blocks
  Null

ASSUME NullAssumption == Null \notin Queues \cup Elems \cup Data

VARIABLES
  tqs,         \* queues in existence
  elems,       \* their elements, in order
  n_elem,      \* their counters
  live,        \* elements in existence
  tq_head, data,               \* their fields
  owned,       \* data blocks handed to the library and not yet freed
  walked,      \* the queue for_each is walking, or Null
  cur, temp,   \* the element iterfn was given; the one that comes next
  emptied,     \* the queue clear or free is emptying, or Null
  doomed,      \* it is free that empties it
  dying,       \* the element whose freefn runs, or Null
  owed, seen   \* history: elements there since the walk began and not yet
               \* visited; elements visited and there ever since

walk == <<walked, cur, temp>>
empt == <<emptied, doomed, dying>>
vars == <<tqs, elems, n_elem, live, tq_head, data, owned,
          walked, cur, temp, emptied, doomed, dying, owed, seen>>

-----------------------------------------------------------------------------

On(q) == ToSet(elems[q])
Queued == UNION {On(q) : q \in tqs}

Position(q, e) == CHOOSE i \in 1..Len(elems[q]) : elems[q][i] = e

\* Faulty: TAILQ_NEXT that skips an element.
SkipNextOn(q, e) == IF Position(q, e) + 1 >= Len(elems[q]) THEN Null
                    ELSE elems[q][Position(q, e) + 2]

\* TAILQ_NEXT.
NextOn(q, e) == IF Position(q, e) = Len(elems[q]) THEN Null
                ELSE elems[q][Position(q, e) + 1]

Init ==
  /\ tqs = {} /\ live = {} /\ owned = {}
  /\ elems = [q \in Queues |-> <<>>] /\ n_elem = [q \in Queues |-> 0]
  /\ tq_head = [e \in Elems |-> Null] /\ data = [e \in Elems |-> Null]
  /\ walked = Null /\ cur = Null /\ temp = Null /\ owed = {} /\ seen = {}
  /\ emptied = Null /\ doomed = FALSE /\ dying = Null

\* The program runs: nothing is being emptied, or freefn has been called.
\* Data that is NULL is not given to freefn.
ProgramRuns == emptied = Null \/ (dying # Null /\ data[dying] # Null)

\* lz_tailq_new.
New(q) ==
  /\ ProgramRuns /\ q \notin tqs
  /\ tqs' = tqs \cup {q}
  /\ elems' = [elems EXCEPT ![q] = <<>>] /\ n_elem' = [n_elem EXCEPT ![q] = 0]
  /\ UNCHANGED <<live, tq_head, data, owned, walk, empt, owed, seen>>

\* lz_tailq_elem_new: d is NULL or a block the program has just made.
Make(e, d) ==
  /\ ProgramRuns /\ e \in Elems \ live /\ d \in (Data \ owned) \cup {Null}
  /\ live' = live \cup {e}
  /\ data' = [data EXCEPT ![e] = d]
  /\ owned' = owned \cup ({d} \ {Null})

ElemNew(e, d) ==
  /\ Make(e, d)
  /\ tq_head' = [tq_head EXCEPT ![e] = Null]
  /\ UNCHANGED <<tqs, elems, n_elem, walk, empt, owed, seen>>

\* TAILQ_INSERT_TAIL and TAILQ_INSERT_HEAD.
AtTail(list, e) == Append(list, e)
AtHead(list, e) == <<e>> \o list

\* Faulty: tq_head is set the first time only, or to the wrong pointer.
PutStaleHead(q, e, list) ==
  /\ elems' = [elems EXCEPT ![q] = list] /\ n_elem' = [n_elem EXCEPT ![q] = @ + 1]
  /\ tq_head' = [tq_head EXCEPT ![e] = IF @ = Null THEN q ELSE @]
PutWrongHead(q, e, list) ==
  /\ elems' = [elems EXCEPT ![q] = list] /\ n_elem' = [n_elem EXCEPT ![q] = @ + 1]
  /\ tq_head' = [tq_head EXCEPT ![e] = e]

\* The insertion, the counter and the tq_head.
PutOn(q, e, list) ==
  /\ elems' = [elems EXCEPT ![q] = list]
  /\ n_elem' = [n_elem EXCEPT ![q] = @ + 1]
  /\ tq_head' = [tq_head EXCEPT ![e] = q]

\* lz_tailq_append_elem and lz_tailq_prepend_elem.
AppendElem(q, e) ==
  /\ ProgramRuns /\ q \in tqs \ {emptied} /\ e \in live \ (Queued \cup {dying})
  /\ PutOn(q, e, AtTail(elems[q], e))
  /\ UNCHANGED <<tqs, live, data, owned, walk, empt, owed, seen>>
PrependElem(q, e) ==
  /\ ProgramRuns /\ q \in tqs \ {emptied} /\ e \in live \ (Queued \cup {dying})
  /\ PutOn(q, e, AtHead(elems[q], e))
  /\ UNCHANGED <<tqs, live, data, owned, walk, empt, owed, seen>>

\* lz_tailq_append and lz_tailq_prepend: a new element for the data.
AppendData(q, e, d) ==
  /\ q \in tqs \ {emptied} /\ Make(e, d)
  /\ PutOn(q, e, AtTail(elems[q], e))
  /\ UNCHANGED <<tqs, walk, empt, owed, seen>>
PrependData(q, e, d) ==
  /\ q \in tqs \ {emptied} /\ Make(e, d)
  /\ PutOn(q, e, AtHead(elems[q], e))
  /\ UNCHANGED <<tqs, walk, empt, owed, seen>>

\* lz_tailq_elem_remove, from the queue the element remembers; -1 when it
\* remembers none.
TakeOff(e) ==
  /\ LET q == tq_head[e] IN
     IF q = Null THEN UNCHANGED <<elems, n_elem>>
     ELSE /\ elems' = [elems EXCEPT ![q] = RemoveFirst(@, e)]
          /\ n_elem' = [n_elem EXCEPT ![q] = @ - 1]
  /\ owed' = owed \ {e} /\ seen' = seen \ {e}

ElemRemove(e) ==
  /\ ProgramRuns /\ e \in live /\ e # temp
  /\ tq_head[e] = Null \/ (e \in Queued /\ tq_head[e] # emptied)
  /\ TakeOff(e)
  /\ UNCHANGED <<tqs, live, tq_head, data, owned, walk, empt>>

\* Faulty: the data is not freed.
DiscardKeepsData(e) ==
  /\ live' = live \ {e} /\ UNCHANGED owned
  /\ data' = [data EXCEPT ![e] = Null] /\ tq_head' = [tq_head EXCEPT ![e] = Null]

\* The end of lz_tailq_elem_free of an element that is on no queue: the
\* freefn has freed the data, the heap takes the element.
Discard(e) ==
  /\ live' = live \ {e} /\ owned' = owned \ {data[e]}
  /\ data' = [data EXCEPT ![e] = Null] /\ tq_head' = [tq_head EXCEPT ![e] = Null]

ElemFree(e) ==
  /\ ProgramRuns /\ e \in live \ (Queued \cup {dying}) /\ e # temp
  /\ Discard(e)
  /\ UNCHANGED <<tqs, elems, n_elem, walk, empt, owed, seen>>

\* lz_tailq_dup of a queue whose elements say how long their data is, or have
\* none: fresh elements carry fresh blocks in the same order.  (Data with a
\* len of 0 would be shared with the copy; here the program has no such
\* data.)  Where malloc fails for the data of one element the copies made so
\* far are freed again and nothing has changed.
Dup(q, new, copies, blocks) ==
  /\ ProgramRuns /\ q \in tqs /\ new \in Queues \ tqs
  /\ DOMAIN copies = DOMAIN elems[q] /\ DOMAIN blocks = DOMAIN elems[q]
  /\ \A i \in DOMAIN blocks : blocks[i] = Null <=> data[elems[q][i]] = Null
  /\ IsInjective(copies)
  /\ \A i, j \in DOMAIN blocks : blocks[i] = blocks[j] /\ blocks[i] # Null => i = j
  /\ ToSet(copies) \subseteq Elems \ live
  /\ ToSet(blocks) \subseteq (Data \ owned) \cup {Null}
  /\ tqs' = tqs \cup {new}
  /\ elems' = [elems EXCEPT ![new] = copies]
  /\ n_elem' = [n_elem EXCEPT ![new] = Len(copies)]
  /\ live' = live \cup ToSet(copies) /\ owned' = owned \cup (ToSet(blocks) \ {Null})
  /\ tq_head' = [e \in Elems |-> IF e \in ToSet(copies) THEN new ELSE tq_head[e]]
  /\ data' = [e \in Elems |->
                IF e \in ToSet(copies)
                THEN blocks[CHOOSE i \in DOMAIN copies : copies[i] = e] ELSE data[e]]
  /\ UNCHANGED <<walk, empt, owed, seen>>

-----------------------------------------------------------------------------
(* lz_tailq_clear and lz_tailq_free: while dying is not Null the program is  *)
(* inside freefn(data[dying]).                                               *)

\* The contract: inside iterfn the walked queue may be cleared only when the
\* walk is at its end, and never freed.
EmptyStart(q, freeing) ==
  /\ emptied = Null /\ q \in tqs /\ temp \notin On(q)
  /\ freeing => q # walked
  /\ emptied' = q /\ doomed' = freeing
  /\ UNCHANGED <<tqs, elems, n_elem, live, tq_head, data, owned, walk, dying, owed, seen>>

\* The first element is taken off and its freefn called ...
EmptyNext ==
  /\ emptied # Null /\ dying = Null /\ elems[emptied] # <<>>
  /\ dying' = Head(elems[emptied]) /\ TakeOff(Head(elems[emptied]))
  /\ UNCHANGED <<tqs, live, tq_head, data, owned, walk, emptied, doomed>>

\* ... and returns.
EmptyFree ==
  /\ dying # Null
  /\ Discard(dying) /\ dying' = Null
  /\ UNCHANGED <<tqs, elems, n_elem, walk, emptied, doomed, owed, seen>>

\* No element is left: the queue is freed, or made a new one.
EmptyEnd ==
  /\ emptied # Null /\ dying = Null /\ elems[emptied] = <<>>
  /\ tqs' = IF doomed THEN tqs \ {emptied} ELSE tqs
  /\ n_elem' = [n_elem EXCEPT ![emptied] = 0]
  /\ emptied' = Null /\ doomed' = FALSE
  /\ UNCHANGED <<elems, live, tq_head, data, owned, walk, dying, owed, seen>>

-----------------------------------------------------------------------------
(* lz_tailq_for_each: the program is inside iterfn(cur). *)

ForEachStart(q) ==
  /\ emptied = Null /\ walked = Null /\ q \in tqs /\ elems[q] # <<>>
  /\ walked' = q
  /\ cur' = Head(elems[q]) /\ temp' = NextOn(q, Head(elems[q]))
  /\ seen' = {Head(elems[q])} /\ owed' = On(q) \ {Head(elems[q])}
  /\ UNCHANGED <<tqs, elems, n_elem, live, tq_head, data, owned, empt>>

\* iterfn returned 0: on to the saved element.
ForEachNext ==
  /\ emptied = Null /\ walked # Null /\ temp # Null
  /\ cur' = temp /\ temp' = NextOn(walked, temp)
  /\ seen' = seen \cup {temp} /\ owed' = owed \ {temp}
  /\ UNCHANGED <<tqs, elems, n_elem, live, tq_head, data, owned, walked, empt>>

LeaveEach ==
  /\ walked' = Null /\ cur' = Null /\ temp' = Null /\ owed' = {} /\ seen' = {}
  /\ UNCHANGED <<tqs, elems, n_elem, live, tq_head, data, owned, empt>>

\* iterfn returned 0 and no element was saved, or it returned something else.
ForEachEnd == emptied = Null /\ walked # Null /\ temp = Null /\ LeaveEach
ForEachStop == emptied = Null /\ walked # Null /\ LeaveEach

-----------------------------------------------------------------------------

Put ==
  \E q \in Queues, e \in Elems :
    \/ AppendElem(q, e) \/ PrependElem(q, e)
    \/ \E d \in Data \cup {Null} : AppendData(q, e, d) \/ PrependData(q, e, d)
Take == \E e \in Elems : ElemRemove(e) \/ ElemFree(e)
Manage ==
  \/ \E q \in Queues : New(q)
  \/ \E e \in Elems, d \in Data \cup {Null} : ElemNew(e, d)
  \/ \E q, new \in Queues : \E copies \in [DOMAIN elems[q] -> Elems],
                               blocks \in [DOMAIN elems[q] -> Data \cup {Null}] :
       Dup(q, new, copies, blocks)
Empty ==
  \/ \E q \in Queues, freeing \in BOOLEAN : EmptyStart(q, freeing)
  \/ EmptyNext \/ EmptyFree \/ EmptyEnd
Walk == (\E q \in Queues : ForEachStart(q)) \/ ForEachNext \/ ForEachEnd \/ ForEachStop

Next == Put \/ Take \/ Manage \/ Empty \/ Walk

Spec == Init /\ [][Next]_vars

-----------------------------------------------------------------------------

TypeOK ==
  /\ tqs \in SUBSET Queues /\ live \in SUBSET Elems /\ owned \in SUBSET Data
  /\ elems \in [Queues -> Seq(Elems)]
  /\ n_elem \in [Queues -> Int]
  /\ tq_head \in [Elems -> Queues \cup {Null}]
  /\ data \in [Elems -> Data \cup {Null}]
  /\ walked \in Queues \cup {Null}
  /\ cur \in Elems \cup {Null} /\ temp \in Elems \cup {Null}
  /\ emptied \in Queues \cup {Null} /\ doomed \in BOOLEAN
  /\ dying \in Elems \cup {Null}
  /\ owed \in SUBSET Elems /\ seen \in SUBSET Elems

\* An element on a queue is alive, is on it once and on no other, and
\* remembers it: lz_tailq_elem_remove takes it off the right one, though
\* tq_head still names an old queue after a removal, and counts it off the
\* right one, so that lz_tailq_size is the number of elements.
QueuedOnce ==
  \A q \in tqs :
    /\ IsInjective(elems[q]) /\ n_elem[q] = Len(elems[q])
    /\ \A e \in On(q) : e \in live /\ tq_head[e] = q

\* Every block handed over belongs to one live element, so it is freed once.
DataOwnedOnce ==
  /\ owned = {data[e] : e \in live} \ {Null}
  /\ \A e, f \in live : data[e] = data[f] /\ data[e] # Null => e = f

\* A walk visits every element that was there when it began and was not
\* removed meanwhile, and none twice unless it was taken off and put back.
EachVisitsAll ==
  [][/\ ForEachNext => cur' \notin seen
     /\ ForEachEnd => owed = {}]_vars
=============================================================================
