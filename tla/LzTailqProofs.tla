--------------------------- MODULE LzTailqProofs ---------------------------
(***************************************************************************)
(* Theorems about LzTailq, for every set of queues, elements and data: an  *)
(* element is on one queue at a time and remembers it, data has one owner, *)
(* and a walk misses nothing while its iterfn changes the queues, or a     *)
(* freefn does in the middle of lz_tailq_clear.                            *)
(***************************************************************************)
EXTENDS LzTailq, ListLemmas

\* What the saved element is worth while iterfn runs: it is still on the
\* walked queue, what the walk still owes is it and elements after it, what
\* the walk has seen is before it.
WalkInv ==
  /\ walked = Null => temp = Null /\ owed = {} /\ seen = {}
  /\ walked # Null => walked \in tqs /\ (temp # Null => temp \in On(walked))
  /\ temp = Null => owed = {}
  /\ temp # Null =>
       /\ \A e \in owed : e = temp \/ Precedes(elems[walked], temp, e)
       /\ \A e \in seen : Precedes(elems[walked], e, temp)

\* What clear and free know: the queue they empty exists, what a walk goes
\* on with is not on it, the element whose freefn runs is on no queue.
EmptyInv ==
  /\ emptied = Null => dying = Null
  /\ emptied # Null => /\ emptied \in tqs /\ temp \notin On(emptied)
                       /\ doomed => emptied # walked
  /\ dying # Null => dying \in live /\ dying \notin Queued

\* The inductive invariant.
IInv == TypeOK /\ QueuedOnce /\ DataOwnedOnce /\ WalkInv /\ EmptyInv

\* Queues have elements, and different queues different ones.
LEMMA OnQueues ==
  ASSUME TypeOK, QueuedOnce
  PROVE  /\ Null \notin Queues /\ Null \notin Elems /\ Null \notin Data
         /\ \A q \in tqs : /\ q \in Queues /\ elems[q] \in Seq(Elems)
                           /\ IsInjective(elems[q]) /\ On(q) \subseteq live
         /\ \A e : e \in Queued <=> \E q \in tqs : e \in On(q)
         /\ \A p, q \in tqs : \A e : e \in On(p) /\ e \in On(q) => p = q
BY NullAssumption DEF TypeOK, QueuedOnce, Queued

\* NextOn: NULL after the last element, else the next one in order.
LEMMA NextInOrder ==
  ASSUME TypeOK, QueuedOnce, NEW q \in tqs, NEW e \in On(q)
  PROVE  \/ /\ NextOn(q, e) = Null
            /\ \A f : ~Precedes(elems[q], e, f)
         \/ /\ NextOn(q, e) \in On(q)
            /\ \A f : Precedes(elems[q], e, f) <=>
                 f = NextOn(q, e) \/ Precedes(elems[q], NextOn(q, e), f)
<1>1. elems[q] \in Seq(Elems) /\ IsInjective(elems[q]) /\ e \in ToSet(elems[q])
  BY OnQueues DEF On
<1>2. PICK s, k : s = elems[q] /\ k = Position(q, e)
  OBVIOUS
<1>3. s \in Seq(Elems) /\ IsInjective(s)
  BY <1>1, <1>2
<1>4. k \in 1..Len(s) /\ s[k] = e
  <2>1. \E i \in 1..Len(elems[q]) : elems[q][i] = e
    BY <1>1, ToSetMember
  <2> QED BY <1>2, <2>1 DEF Position
<1>5. /\ k = Len(s) => \A f : ~Precedes(s, e, f)
      /\ k # Len(s) =>
           /\ k + 1 \in 1..Len(s)
           /\ \A f : Precedes(s, e, f) <=> f = s[k + 1] \/ Precedes(s, s[k + 1], f)
  BY <1>3, <1>4, Successor
<1>6. NextOn(q, e) = IF k = Len(s) THEN Null ELSE s[k + 1]
  BY <1>2 DEF NextOn
<1>7. CASE k = Len(s)
  BY <1>2, <1>5, <1>6, <1>7
<1>8. CASE k # Len(s)
  <2>1. s[k + 1] \in ToSet(s)
    BY <1>3, <1>5, <1>8, ToSetMember
  <2> QED BY <1>2, <1>5, <1>6, <1>8, <2>1 DEF On
<1> QED BY <1>7, <1>8

-----------------------------------------------------------------------------
(* Putting an element on a queue. *)

\* At either end a new element joins the queue and the order of the others
\* stays.
LEMMA PutList ==
  ASSUME TypeOK, QueuedOnce, NEW q \in tqs, NEW e \in Elems, e \notin Queued,
         NEW list, list = AtTail(elems[q], e) \/ list = AtHead(elems[q], e)
  PROVE  /\ list \in Seq(Elems) /\ IsInjective(list)
         /\ Len(list) = Len(elems[q]) + 1
         /\ ToSet(list) = On(q) \cup {e}
         /\ \A x, y : Precedes(elems[q], x, y) => Precedes(list, x, y)
<1>1. elems[q] \in Seq(Elems) /\ IsInjective(elems[q]) /\ e \notin ToSet(elems[q])
  BY OnQueues DEF On
<1>2. CASE list = AtTail(elems[q], e)
  BY <1>1, <1>2, PushList, PrecedesAppend DEF AtTail, On
<1>3. CASE list = AtHead(elems[q], e)
  BY <1>1, <1>3, ConsList, PrecedesCons DEF AtHead, On
<1> QED BY <1>2, <1>3

\* A new element's data is its own.
LEMMA MakeOwned ==
  ASSUME TypeOK, DataOwnedOnce, NEW e \in Elems, NEW d, Make(e, d)
  PROVE  /\ live' \in SUBSET Elems /\ owned' \in SUBSET Data
         /\ data' \in [Elems -> Data \cup {Null}]
         /\ live' = live \cup {e} /\ e \notin live
         /\ DataOwnedOnce'
<1>1. /\ live' = live \cup {e} /\ e \notin live
      /\ \A f \in Elems : data'[f] = IF f = e THEN d ELSE data[f]
      /\ owned' = owned \cup ({d} \ {Null})
      /\ d \in (Data \ owned) \cup {Null}
  BY DEF Make, TypeOK
<1>2. owned = {data[f] : f \in live} \ {Null} /\ live \subseteq Elems
  BY DEF DataOwnedOnce, TypeOK
<1>3. owned' = {data'[f] : f \in live'} \ {Null}
  BY <1>1, <1>2
<1>4. \A f, g \in live' : data'[f] = data'[g] /\ data'[f] # Null => f = g
  <2>1. \A f \in live : data[f] # Null => data[f] \in owned
    BY <1>2
  <2>2. \A f, g \in live : data[f] = data[g] /\ data[f] # Null => f = g
    BY DEF DataOwnedOnce
  <2> QED BY <1>1, <1>2, <2>1, <2>2
<1> QED BY <1>1, <1>3, <1>4 DEF DataOwnedOnce, Make, TypeOK

\* The insertion, whatever made the element.
LEMMA PutOnStep ==
  ASSUME IInv, NEW q \in tqs, q # emptied,
         NEW e \in Elems, e \notin Queued, e # dying,
         NEW list, list = AtTail(elems[q], e) \/ list = AtHead(elems[q], e),
         PutOn(q, e, list),
         UNCHANGED <<tqs, walk, empt, owed, seen>>,
         live \subseteq live', e \in live',
         live' \in SUBSET Elems, owned' \in SUBSET Data,
         data' \in [Elems -> Data \cup {Null}],
         DataOwnedOnce'
  PROVE  IInv'
<1>1. /\ list \in Seq(Elems) /\ IsInjective(list)
      /\ Len(list) = Len(elems[q]) + 1
      /\ ToSet(list) = On(q) \cup {e}
      /\ \A x, y : Precedes(elems[q], x, y) => Precedes(list, x, y)
  BY PutList DEF IInv
<1>2. /\ TypeOK /\ QueuedOnce /\ q \in Queues
      /\ tqs' = tqs /\ walked' = walked /\ cur' = cur /\ temp' = temp
      /\ emptied' = emptied /\ doomed' = doomed /\ dying' = dying
      /\ owed' = owed /\ seen' = seen
  BY DEF IInv, walk, empt, TypeOK
<1>3. /\ \A p \in tqs : elems'[p] = IF p = q THEN list ELSE elems[p]
      /\ \A p \in tqs : n_elem'[p] = IF p = q THEN n_elem[p] + 1 ELSE n_elem[p]
      /\ \A f \in Elems : tq_head'[f] = IF f = e THEN q ELSE tq_head[f]
  BY <1>2 DEF PutOn, TypeOK
<1>4. TypeOK'
  BY <1>1, <1>2 DEF PutOn, TypeOK
<1>5. \A p \in tqs : On(p)' = IF p = q THEN On(q) \cup {e} ELSE On(p)
  BY <1>1, <1>3 DEF On
<1>6. QueuedOnce'
  <2>1. SUFFICES ASSUME NEW p \in tqs
                 PROVE  /\ IsInjective(elems'[p]) /\ n_elem'[p] = Len(elems'[p])
                        /\ \A f \in On(p)' : f \in live' /\ tq_head'[f] = p
    BY <1>2 DEF QueuedOnce
  <2>2. /\ IsInjective(elems[p]) /\ n_elem[p] = Len(elems[p])
        /\ \A f \in On(p) : f \in live /\ tq_head[f] = p
        /\ e \notin On(p) /\ On(p) \subseteq Elems
    BY <1>2 DEF QueuedOnce, Queued, TypeOK
  <2>3. CASE p = q
    BY <1>1, <1>3, <1>5, <2>2, <2>3
  <2>4. CASE p # q
    BY <1>3, <1>5, <2>2, <2>4
  <2> QED BY <2>3, <2>4
<1>7. WalkInv'
  <2>1. WalkInv /\ Null \notin Queues
    BY NullAssumption DEF IInv
  <2>2. temp # Null => walked \in tqs
    BY <2>1 DEF WalkInv
  <2>3. \A p \in tqs : \A x, y : Precedes(elems[p], x, y) => Precedes(elems'[p], x, y)
    BY <1>1, <1>3
  <2>4. \A p \in tqs : On(p) \subseteq On(p)'
    BY <1>5
  <2> QED BY <1>2, <2>1, <2>2, <2>3, <2>4 DEF WalkInv
<1>8. EmptyInv'
  <2>1. EmptyInv
    BY DEF IInv
  <2>2. emptied # Null => On(emptied)' = On(emptied)
    BY <1>2, <1>5, <2>1 DEF EmptyInv
  <2>3. dying # Null => dying \notin Queued'
    BY <1>2, <1>5, <2>1 DEF EmptyInv, Queued
  <2> QED BY <1>2, <2>1, <2>2, <2>3 DEF EmptyInv
<1> QED BY <1>4, <1>6, <1>7, <1>8 DEF IInv

LEMMA PutStep ==
  ASSUME IInv, Put
  PROVE  IInv'
<1>1. TypeOK /\ QueuedOnce /\ DataOwnedOnce /\ Queued \subseteq live /\ live \subseteq Elems
  BY OnQueues DEF IInv, TypeOK
<1>2. ASSUME NEW q \in Queues, NEW e \in Elems, AppendElem(q, e) \/ PrependElem(q, e)
      PROVE  IInv'
  <2>1. /\ q \in tqs /\ q # emptied /\ e \in live /\ e \notin Queued /\ e # dying
        /\ live' = live /\ data' = data /\ owned' = owned
        /\ UNCHANGED <<tqs, walk, empt, owed, seen>>
    BY <1>2 DEF AppendElem, PrependElem
  <2>2. DataOwnedOnce'
    BY <1>1, <2>1 DEF DataOwnedOnce
  <2>3. /\ live' \in SUBSET Elems /\ owned' \in SUBSET Data
        /\ data' \in [Elems -> Data \cup {Null}]
    BY <1>1, <2>1 DEF TypeOK
  <2>4. PICK list : /\ list = AtTail(elems[q], e) \/ list = AtHead(elems[q], e)
                    /\ PutOn(q, e, list)
    BY <1>2 DEF AppendElem, PrependElem
  <2> QED BY <2>1, <2>2, <2>3, <2>4, PutOnStep
<1>3. ASSUME NEW q \in Queues, NEW e \in Elems, NEW d,
             AppendData(q, e, d) \/ PrependData(q, e, d)
      PROVE  IInv'
  <2>1. /\ q \in tqs /\ q # emptied /\ Make(e, d)
        /\ UNCHANGED <<tqs, walk, empt, owed, seen>>
    BY <1>3 DEF AppendData, PrependData
  <2>2. /\ live' \in SUBSET Elems /\ owned' \in SUBSET Data
        /\ data' \in [Elems -> Data \cup {Null}]
        /\ live' = live \cup {e} /\ e \notin live
        /\ DataOwnedOnce'
    BY <1>1, <2>1, MakeOwned
  <2>3. PICK list : /\ list = AtTail(elems[q], e) \/ list = AtHead(elems[q], e)
                    /\ PutOn(q, e, list)
    BY <1>3 DEF AppendData, PrependData
  <2>4. e \notin Queued /\ live \subseteq live' /\ e \in live' /\ e # dying
    BY <1>1, <2>2, NullAssumption DEF IInv, EmptyInv
  <2> QED BY <2>1, <2>2, <2>3, <2>4, PutOnStep
<1> QED BY <1>2, <1>3 DEF Put

-----------------------------------------------------------------------------
(* Taking an element off, freeing elements. *)

\* A freed element takes its data with it, and only its own.
LEMMA DiscardOwned ==
  ASSUME TypeOK, DataOwnedOnce, NEW e \in live, Discard(e)
  PROVE  /\ live' \in SUBSET Elems /\ owned' \in SUBSET Data
         /\ data' \in [Elems -> Data \cup {Null}]
         /\ tq_head' \in [Elems -> Queues \cup {Null}]
         /\ live' = live \ {e}
         /\ \A f \in live' : tq_head'[f] = tq_head[f]
         /\ DataOwnedOnce'
<1>1. /\ live' = live \ {e} /\ live \subseteq Elems
      /\ owned' = owned \ {data[e]}
      /\ \A f \in Elems : data'[f] = IF f = e THEN Null ELSE data[f]
      /\ \A f \in Elems : tq_head'[f] = IF f = e THEN Null ELSE tq_head[f]
  BY DEF Discard, TypeOK
<1>2. /\ owned = {data[f] : f \in live} \ {Null}
      /\ \A f, g \in live : data[f] = data[g] /\ data[f] # Null => f = g
  BY DEF DataOwnedOnce
<1>3. \A f \in live' : f \in live /\ f # e /\ data'[f] = data[f]
  BY <1>1
<1>4. owned' = {data'[f] : f \in live'} \ {Null}
  <2>1. ASSUME NEW d \in owned' PROVE d \in {data'[f] : f \in live'} \ {Null}
    <3>1. PICK f \in live : d = data[f] /\ d # Null /\ f # e
      BY <1>1, <1>2, <2>1
    <3> QED BY <1>1, <1>3, <3>1
  <2>2. ASSUME NEW f \in live', data'[f] # Null PROVE data'[f] \in owned'
    BY <1>1, <1>2, <1>3, <2>2
  <2> QED BY <2>1, <2>2
<1>5. \A f, g \in live' : data'[f] = data'[g] /\ data'[f] # Null => f = g
  BY <1>2, <1>3
<1>6. owned' \in SUBSET Data /\ live' \in SUBSET Elems
  BY <1>1 DEF TypeOK
<1>7. /\ data' \in [Elems -> Data \cup {Null}]
      /\ tq_head' \in [Elems -> Queues \cup {Null}]
  BY DEF Discard, TypeOK
<1> QED BY <1>1, <1>3, <1>4, <1>5, <1>6, <1>7 DEF DataOwnedOnce

\* lz_tailq_elem_remove takes the element off the queue it is on, or does
\* nothing.
LEMMA TakeOffStep ==
  ASSUME IInv, NEW e \in live, e # temp, e \in Queued \/ tq_head[e] = Null, TakeOff(e),
         UNCHANGED <<tqs, live, tq_head, data, owned, walk, emptied, doomed>>,
         dying' \in Elems \cup {Null}
  PROVE  /\ TypeOK' /\ QueuedOnce' /\ DataOwnedOnce' /\ WalkInv'
         /\ \A p \in tqs : On(p)' = On(p) \ {e}
<1>1. /\ TypeOK /\ QueuedOnce /\ DataOwnedOnce /\ WalkInv
      /\ e \in Elems /\ emptied' = emptied /\ doomed' = doomed
      /\ tqs' = tqs /\ live' = live /\ tq_head' = tq_head
      /\ data' = data /\ owned' = owned
      /\ walked' = walked /\ cur' = cur /\ temp' = temp
      /\ owed' = owed \ {e} /\ seen' = seen \ {e} /\ e # temp
  BY DEF IInv, TakeOff, walk, TypeOK
<1>2. DataOwnedOnce'
  BY <1>1 DEF DataOwnedOnce
<1>3. CASE tq_head[e] = Null
  <2>1. elems' = elems /\ n_elem' = n_elem
    BY <1>3 DEF TakeOff
  <2>2. TypeOK' /\ QueuedOnce'
    BY <1>1, <2>1 DEF TypeOK, QueuedOnce, On
  <2>3. WalkInv'
    BY <1>1, <2>1 DEF WalkInv, On
  <2>4. \A p \in tqs : e \notin On(p) /\ On(p)' = On(p)
    BY <1>1, <1>3, <2>1, OnQueues DEF QueuedOnce, On
  <2> QED BY <1>2, <2>2, <2>3, <2>4
<1>4. CASE tq_head[e] # Null
  <2>1. PICK q \in tqs : e \in On(q) /\ q = tq_head[e]
    BY <1>1, <1>4, OnQueues DEF QueuedOnce
  <2>2. PICK list : list = RemoveFirst(elems[q], e)
    OBVIOUS
  <2>3. q \in Queues /\ elems[q] \in Seq(Elems) /\ IsInjective(elems[q])
    BY <1>1, OnQueues
  <2>4. /\ list \in Seq(Elems) /\ Len(list) = Len(elems[q]) - 1
        /\ IsInjective(list) /\ ToSet(list) = On(q) \ {e}
        /\ \A x, y : Precedes(list, x, y) <=>
                       Precedes(elems[q], x, y) /\ x # e /\ y # e
    BY <2>1, <2>2, <2>3, UnlinkList, PrecedesUnlink DEF On
  <2>5. /\ elems' = [elems EXCEPT ![q] = list]
        /\ n_elem' = [n_elem EXCEPT ![q] = @ - 1]
    BY <1>4, <2>1, <2>2, <2>3, <1>1 DEF TakeOff, TypeOK
  <2>6. \A p \in tqs : /\ elems'[p] = IF p = q THEN list ELSE elems[p]
                       /\ n_elem'[p] = IF p = q THEN n_elem[p] - 1 ELSE n_elem[p]
    BY <1>1, <2>5 DEF TypeOK
  <2>7. TypeOK'
    BY <1>1, <2>4, <2>5 DEF TypeOK
  <2>8. \A p \in tqs : On(p)' = On(p) \ {e}
    <3>1. \A p \in tqs : p # q => e \notin On(p)
      BY <1>1, <2>1, OnQueues
    <3>2. \A p \in tqs : On(p)' = IF p = q THEN On(q) \ {e} ELSE On(p)
      BY <2>4, <2>6 DEF On
    <3> QED BY <3>1, <3>2
  <2>9. QueuedOnce'
    <3>1. SUFFICES ASSUME NEW p \in tqs
                   PROVE  /\ IsInjective(elems'[p]) /\ n_elem'[p] = Len(elems'[p])
                          /\ \A f \in On(p)' : f \in live' /\ tq_head'[f] = p
      BY <1>1 DEF QueuedOnce
    <3>2. /\ IsInjective(elems[p]) /\ n_elem[p] = Len(elems[p])
          /\ \A f \in On(p) : f \in live /\ tq_head[f] = p
      BY <1>1 DEF QueuedOnce
    <3> QED BY <1>1, <2>4, <2>6, <2>8, <3>2
  <2>10. WalkInv'
    <3>1. \A p \in tqs : \A x, y : Precedes(elems[p], x, y) /\ x # e /\ y # e
                                   => Precedes(elems'[p], x, y)
      BY <2>4, <2>6
    <3>2. temp # Null => walked \in tqs /\ temp \in On(walked)
      BY <1>1 DEF WalkInv
    <3> QED BY <1>1, <2>8, <3>1, <3>2 DEF WalkInv
  <2> QED BY <1>2, <2>7, <2>8, <2>9, <2>10
<1> QED BY <1>3, <1>4

LEMMA RemoveStep ==
  ASSUME IInv, NEW e \in Elems, ElemRemove(e)
  PROVE  IInv'
<1>1. /\ e \in live /\ e # temp /\ (e \in Queued \/ tq_head[e] = Null) /\ TakeOff(e)
      /\ UNCHANGED <<tqs, live, tq_head, data, owned, walk, emptied, doomed>>
      /\ dying' = dying /\ dying \in Elems \cup {Null} /\ temp' = temp /\ walked' = walked
      /\ EmptyInv
  BY DEF ElemRemove, empt, walk, IInv, TypeOK
<1>2. /\ TypeOK' /\ QueuedOnce' /\ DataOwnedOnce' /\ WalkInv'
      /\ \A p \in tqs : On(p)' = On(p) \ {e}
  BY <1>1, TakeOffStep
<1>3. EmptyInv'
  <2>1. dying # Null => dying \notin Queued'
    BY <1>1, <1>2 DEF EmptyInv, Queued
  <2> QED BY <1>1, <1>2, <2>1 DEF EmptyInv
<1> QED BY <1>2, <1>3 DEF IInv

\* An element on no queue goes.
LEMMA DiscardStep ==
  ASSUME IInv, NEW e \in live, e \notin Queued, Discard(e),
         UNCHANGED <<tqs, elems, n_elem, walk, emptied, doomed, owed, seen>>,
         dying' \in Elems \cup {Null}
  PROVE  /\ TypeOK' /\ QueuedOnce' /\ DataOwnedOnce' /\ WalkInv'
         /\ \A p \in tqs : On(p)' = On(p)
<1>1. /\ TypeOK /\ QueuedOnce /\ DataOwnedOnce /\ WalkInv
      /\ tqs' = tqs /\ elems' = elems /\ n_elem' = n_elem
      /\ walked' = walked /\ cur' = cur /\ temp' = temp
      /\ emptied' = emptied /\ doomed' = doomed
      /\ owed' = owed /\ seen' = seen
  BY DEF IInv, walk
<1>2. /\ live' \in SUBSET Elems /\ owned' \in SUBSET Data
      /\ data' \in [Elems -> Data \cup {Null}]
      /\ tq_head' \in [Elems -> Queues \cup {Null}]
      /\ live' = live \ {e}
      /\ \A f \in live' : tq_head'[f] = tq_head[f]
      /\ DataOwnedOnce'
  BY <1>1, DiscardOwned
<1>3. TypeOK'
  BY <1>1, <1>2 DEF TypeOK
<1>4. QueuedOnce'
  BY <1>1, <1>2 DEF QueuedOnce, Queued, On
<1>5. WalkInv'
  BY <1>1 DEF WalkInv, On
<1>6. \A p \in tqs : On(p)' = On(p)
  BY <1>1 DEF On
<1> QED BY <1>2, <1>3, <1>4, <1>5, <1>6

LEMMA FreeElemStep ==
  ASSUME IInv, NEW e \in Elems, ElemFree(e)
  PROVE  IInv'
<1>1. /\ e \in live /\ e \notin Queued /\ e # dying /\ Discard(e)
      /\ UNCHANGED <<tqs, elems, n_elem, walk, emptied, doomed, owed, seen>>
      /\ dying' = dying /\ dying \in Elems \cup {Null} /\ temp' = temp /\ walked' = walked
      /\ live' = live \ {e} /\ EmptyInv
  BY DEF ElemFree, Discard, empt, walk, IInv, TypeOK
<1>2. /\ TypeOK' /\ QueuedOnce' /\ DataOwnedOnce' /\ WalkInv'
      /\ \A p \in tqs : On(p)' = On(p)
  BY <1>1, DiscardStep
<1>3. EmptyInv'
  <2>1. Queued' = Queued
    BY <1>1, <1>2 DEF Queued
  <2> QED BY <1>1, <1>2, <2>1 DEF EmptyInv
<1> QED BY <1>2, <1>3 DEF IInv

\* lz_tailq_clear and lz_tailq_free begin: nothing has changed yet.
LEMMA EmptyStartStep ==
  ASSUME IInv, NEW q \in Queues, NEW freeing \in BOOLEAN, EmptyStart(q, freeing)
  PROVE  IInv'
<1>1. /\ TypeOK /\ QueuedOnce /\ DataOwnedOnce /\ WalkInv /\ EmptyInv
      /\ emptied = Null /\ q \in tqs /\ temp \notin On(q) /\ (freeing => q # walked)
      /\ emptied' = q /\ doomed' = freeing
      /\ tqs' = tqs /\ elems' = elems /\ n_elem' = n_elem
      /\ live' = live /\ tq_head' = tq_head /\ data' = data /\ owned' = owned
      /\ walked' = walked /\ cur' = cur /\ temp' = temp /\ dying' = dying
      /\ owed' = owed /\ seen' = seen
  BY DEF IInv, EmptyStart, walk
<1>2. TypeOK' /\ QueuedOnce' /\ DataOwnedOnce' /\ WalkInv'
  BY <1>1 DEF TypeOK, QueuedOnce, DataOwnedOnce, WalkInv, On
<1>3. EmptyInv'
  BY <1>1, NullAssumption DEF EmptyInv, On
<1> QED BY <1>2, <1>3 DEF IInv

\* The first element is taken off.
LEMMA EmptyNextStep ==
  ASSUME IInv, EmptyNext
  PROVE  IInv'
<1>1. /\ TypeOK /\ QueuedOnce /\ EmptyInv
      /\ emptied # Null /\ emptied \in tqs /\ temp \notin On(emptied)
      /\ doomed => emptied # walked
      /\ UNCHANGED <<tqs, live, tq_head, data, owned, walk, emptied, doomed>>
      /\ temp' = temp /\ walked' = walked
  BY DEF IInv, EmptyInv, EmptyNext, walk
<1>2. PICK e : e = Head(elems[emptied])
  OBVIOUS
<1>3. dying' = e /\ TakeOff(e) /\ elems[emptied] # <<>>
  BY <1>2 DEF EmptyNext
<1>4. elems[emptied] \in Seq(Elems) /\ IsInjective(elems[emptied])
  BY <1>1, OnQueues
<1>5. e \in On(emptied)
  BY <1>2, <1>3, <1>4, TailList DEF On
<1>6. e \in live /\ e \in Queued /\ e # temp /\ e \in Elems
  BY <1>1, <1>5, OnQueues DEF TypeOK
<1>7. /\ TypeOK' /\ QueuedOnce' /\ DataOwnedOnce' /\ WalkInv'
      /\ \A p \in tqs : On(p)' = On(p) \ {e}
  BY <1>1, <1>3, <1>6, TakeOffStep
<1>8. EmptyInv'
  <2>1. e \notin Queued'
    BY <1>1, <1>7 DEF Queued
  <2> QED BY <1>1, <1>3, <1>6, <1>7, <2>1 DEF EmptyInv
<1> QED BY <1>7, <1>8 DEF IInv

\* Its freefn returns.
LEMMA EmptyFreeStep ==
  ASSUME IInv, EmptyFree
  PROVE  IInv'
<1>1. /\ dying # Null /\ dying \in live /\ dying \notin Queued /\ Discard(dying)
      /\ UNCHANGED <<tqs, elems, n_elem, walk, emptied, doomed, owed, seen>>
      /\ dying' = Null /\ temp' = temp /\ walked' = walked /\ EmptyInv
  BY DEF EmptyFree, walk, IInv, EmptyInv
<1>2. /\ TypeOK' /\ QueuedOnce' /\ DataOwnedOnce' /\ WalkInv'
      /\ \A p \in tqs : On(p)' = On(p)
  BY <1>1, DiscardStep
<1>3. EmptyInv'
  BY <1>1, <1>2 DEF EmptyInv
<1> QED BY <1>2, <1>3 DEF IInv

\* The queue is empty: it goes, or is as new.
LEMMA EmptyEndStep ==
  ASSUME IInv, EmptyEnd
  PROVE  IInv'
<1>1. /\ TypeOK /\ QueuedOnce /\ DataOwnedOnce /\ WalkInv /\ EmptyInv
      /\ emptied \in tqs /\ dying = Null /\ elems[emptied] = <<>>
      /\ doomed => emptied # walked
      /\ tqs' = IF doomed THEN tqs \ {emptied} ELSE tqs
      /\ n_elem' = [n_elem EXCEPT ![emptied] = 0]
      /\ emptied' = Null /\ doomed' = FALSE /\ elems' = elems
      /\ live' = live /\ tq_head' = tq_head /\ data' = data /\ owned' = owned
      /\ walked' = walked /\ cur' = cur /\ temp' = temp /\ dying' = dying
      /\ owed' = owed /\ seen' = seen
  BY DEF IInv, EmptyEnd, EmptyInv, walk
<1>2. tqs' \subseteq tqs /\ (walked # Null => walked \in tqs')
  BY <1>1 DEF WalkInv
<1>3. TypeOK'
  <2>1. doomed' \in BOOLEAN
    BY <1>1, Zenon
  <2>2. /\ tqs' \in SUBSET Queues /\ n_elem' \in [Queues -> Int]
        /\ emptied' \in Queues \cup {Null}
    BY <1>1, <1>2 DEF TypeOK
  <2> QED BY <1>1, <2>1, <2>2 DEF TypeOK
<1>4. QueuedOnce'
  <2>1. \A p \in tqs : n_elem'[p] = n_elem[p]
    BY <1>1 DEF TypeOK, QueuedOnce
  <2> QED BY <1>1, <1>2, <2>1 DEF QueuedOnce, On
<1>5. DataOwnedOnce' /\ WalkInv'
  BY <1>1, <1>2 DEF DataOwnedOnce, WalkInv, On
<1>6. EmptyInv'
  BY <1>1 DEF EmptyInv
<1> QED BY <1>3, <1>4, <1>5, <1>6 DEF IInv

-----------------------------------------------------------------------------
(* New queues, new elements, copies of queues. *)

LEMMA NewStep ==
  ASSUME IInv, NEW q \in Queues, New(q)
  PROVE  IInv'
<1>1. /\ TypeOK /\ QueuedOnce /\ DataOwnedOnce /\ WalkInv /\ EmptyInv
      /\ emptied' = emptied /\ doomed' = doomed /\ dying' = dying
      /\ q \notin tqs /\ tqs' = tqs \cup {q}
      /\ live' = live /\ tq_head' = tq_head /\ data' = data /\ owned' = owned
      /\ walked' = walked /\ cur' = cur /\ temp' = temp
      /\ owed' = owed /\ seen' = seen
  BY DEF IInv, New, walk, empt
<1>2. /\ elems'[q] = <<>> /\ n_elem'[q] = 0
      /\ \A p \in tqs : elems'[p] = elems[p] /\ n_elem'[p] = n_elem[p]
  BY <1>1 DEF New, TypeOK
<1>3. TypeOK'
  BY <1>1 DEF New, TypeOK
<1>4. On(q)' = {} /\ \A p \in tqs : On(p)' = On(p)
  BY <1>2, EmptyList DEF On
<1>5. QueuedOnce'
  <2>1. /\ \A p \in tqs : /\ IsInjective(elems[p]) /\ n_elem[p] = Len(elems[p])
                          /\ \A f \in On(p) : f \in live /\ tq_head[f] = p
        /\ IsInjective(<<>>) /\ Len(<<>>) = 0
    BY <1>1, EmptyList DEF QueuedOnce
  <2> QED BY <1>1, <1>2, <1>4, <2>1 DEF QueuedOnce
<1>6. DataOwnedOnce'
  BY <1>1 DEF DataOwnedOnce
<1>7. WalkInv'
  <2>1. temp # Null => walked \in tqs
    BY <1>1 DEF WalkInv
  <2> QED BY <1>1, <1>2, <1>4, <2>1 DEF WalkInv
<1>8. EmptyInv'
  <2>1. Queued' = Queued
    BY <1>1, <1>4 DEF Queued
  <2> QED BY <1>1, <1>4, <2>1 DEF EmptyInv
<1> QED BY <1>3, <1>5, <1>6, <1>7, <1>8 DEF IInv

LEMMA NewElemStep ==
  ASSUME IInv, NEW e \in Elems, NEW d, ElemNew(e, d)
  PROVE  IInv'
<1>1. /\ TypeOK /\ QueuedOnce /\ DataOwnedOnce /\ WalkInv /\ EmptyInv
      /\ emptied' = emptied /\ doomed' = doomed /\ dying' = dying
      /\ Make(e, d) /\ tq_head' = [tq_head EXCEPT ![e] = Null]
      /\ tqs' = tqs /\ elems' = elems /\ n_elem' = n_elem
      /\ walked' = walked /\ cur' = cur /\ temp' = temp
      /\ owed' = owed /\ seen' = seen
  BY DEF IInv, ElemNew, walk, empt
<1>2. /\ live' \in SUBSET Elems /\ owned' \in SUBSET Data
      /\ data' \in [Elems -> Data \cup {Null}]
      /\ live' = live \cup {e} /\ e \notin live
      /\ DataOwnedOnce'
  BY <1>1, MakeOwned
<1>3. TypeOK'
  BY <1>1, <1>2 DEF TypeOK
<1>4. \A f \in live : tq_head'[f] = tq_head[f]
  BY <1>1, <1>2 DEF TypeOK
<1>5. QueuedOnce'
  BY <1>1, <1>2, <1>4 DEF QueuedOnce, On
<1>6. WalkInv'
  BY <1>1 DEF WalkInv, On
<1>7. EmptyInv'
  BY <1>1, <1>2 DEF EmptyInv, Queued, On
<1> QED BY <1>2, <1>3, <1>5, <1>6, <1>7 DEF IInv

\* The copies and their blocks are sequences, as long as the queue.
LEMMA DupLists ==
  ASSUME TypeOK, NEW q \in Queues, NEW new \in Queues,
         NEW copies \in [DOMAIN elems[q] -> Elems],
         NEW blocks \in [DOMAIN elems[q] -> Data \cup {Null}],
         Dup(q, new, copies, blocks)
  PROVE  /\ copies \in Seq(Elems) /\ blocks \in Seq(Data \cup {Null})
         /\ Len(blocks) = Len(copies)
         /\ \A i, j \in 1..Len(copies) : /\ copies[i] = copies[j] => i = j
                                         /\ blocks[i] = blocks[j] /\ blocks[i] # Null
                                            => i = j
         /\ IsInjective(copies)
<1>1. elems[q] \in Seq(Elems)
  BY DEF TypeOK
<1>2. PICK n \in Nat : n = Len(elems[q]) /\ DOMAIN elems[q] = 1..n
  BY <1>1, LenProperties
<1>3. copies \in Seq(Elems) /\ Len(copies) = n
  BY <1>2, SeqDef, LenProperties
<1>4. blocks \in Seq(Data \cup {Null}) /\ Len(blocks) = n
  BY <1>2, SeqDef, LenProperties
<1>5. /\ IsInjective(copies)
      /\ \A i, j \in 1..n : blocks[i] = blocks[j] /\ blocks[i] # Null => i = j
  BY <1>2 DEF Dup
<1> QED BY <1>3, <1>4, <1>5, InjectiveByIndex

LEMMA DupStep ==
  ASSUME IInv, NEW q \in Queues, NEW new \in Queues,
         NEW copies \in [DOMAIN elems[q] -> Elems],
         NEW blocks \in [DOMAIN elems[q] -> Data \cup {Null}],
         Dup(q, new, copies, blocks)
  PROVE  IInv'
<1>1. /\ TypeOK /\ QueuedOnce /\ DataOwnedOnce /\ WalkInv /\ EmptyInv
      /\ emptied' = emptied /\ doomed' = doomed /\ dying' = dying
      /\ new \notin tqs /\ tqs' = tqs \cup {new}
      /\ ToSet(copies) \subseteq Elems \ live
      /\ ToSet(blocks) \subseteq (Data \ owned) \cup {Null}
      /\ live' = live \cup ToSet(copies)
      /\ owned' = owned \cup (ToSet(blocks) \ {Null})
      /\ walked' = walked /\ cur' = cur /\ temp' = temp
      /\ owed' = owed /\ seen' = seen
  BY DEF IInv, Dup, walk, empt
<1>2. /\ copies \in Seq(Elems) /\ blocks \in Seq(Data \cup {Null})
      /\ Len(blocks) = Len(copies)
      /\ \A i, j \in 1..Len(copies) : /\ copies[i] = copies[j] => i = j
                                      /\ blocks[i] = blocks[j] /\ blocks[i] # Null
                                         => i = j
      /\ IsInjective(copies)
  BY <1>1, DupLists
<1>3. /\ elems'[new] = copies /\ n_elem'[new] = Len(copies)
      /\ \A p \in tqs : elems'[p] = elems[p] /\ n_elem'[p] = n_elem[p]
      /\ \A e \in Elems : tq_head'[e] = IF e \in ToSet(copies) THEN new ELSE tq_head[e]
  BY <1>1 DEF Dup, TypeOK
<1>4. /\ \A x : x \in ToSet(copies) <=> \E i \in 1..Len(copies) : copies[i] = x
      /\ \A x : x \in ToSet(blocks) <=> \E i \in 1..Len(copies) : blocks[i] = x
  BY <1>2, ToSetMember
<1>5. /\ \A i \in 1..Len(copies) : data'[copies[i]] = blocks[i]
      /\ \A e \in live : data'[e] = data[e]
  <2>1. DOMAIN copies = 1..Len(copies)
    BY <1>2, LenProperties
  <2>2. data' = [e \in Elems |->
                   IF e \in ToSet(copies)
                   THEN blocks[CHOOSE i \in DOMAIN copies : copies[i] = e]
                   ELSE data[e]]
    BY DEF Dup
  <2>3. ASSUME NEW i \in 1..Len(copies) PROVE data'[copies[i]] = blocks[i]
    <3>1. copies[i] \in ToSet(copies) /\ copies[i] \in Elems
      BY <1>1, <1>4
    <3>2. (CHOOSE j \in DOMAIN copies : copies[j] = copies[i]) = i
      BY <1>2, <2>1
    <3> QED BY <2>2, <3>1, <3>2
  <2>4. ASSUME NEW e \in live PROVE data'[e] = data[e]
    BY <1>1, <2>2 DEF TypeOK
  <2> QED BY <2>3, <2>4
<1>6. \A e \in live' : e \in live \/ \E i \in 1..Len(copies) : e = copies[i]
  BY <1>1, <1>4
<1>7. \A i \in 1..Len(copies) : /\ copies[i] \in Elems /\ copies[i] \notin live
                                /\ blocks[i] = Null \/ (blocks[i] \in Data /\ blocks[i] \notin owned)
  BY <1>1, <1>4
<1>8. TypeOK'
  <2>1. live' \in SUBSET Elems /\ owned' \in SUBSET Data /\ tqs' \in SUBSET Queues
    BY <1>1 DEF TypeOK
  <2>2. Len(copies) \in Int
    BY <1>2, LenProperties
  <2>3. elems' \in [Queues -> Seq(Elems)] /\ n_elem' \in [Queues -> Int]
    BY <1>1, <1>2, <2>2 DEF Dup, TypeOK
  <2>4. tq_head' \in [Elems -> Queues \cup {Null}]
    BY <1>1 DEF Dup, TypeOK
  <2>5. \A e \in Elems : data'[e] \in Data \cup {Null}
    <3>1. SUFFICES ASSUME NEW e \in Elems PROVE data'[e] \in Data \cup {Null}
      OBVIOUS
    <3>2. CASE e \in ToSet(copies)
      BY <1>4, <1>5, <1>7, <3>2
    <3>3. CASE e \notin ToSet(copies)
      BY <1>1, <3>3 DEF Dup, TypeOK
    <3> QED BY <3>2, <3>3
  <2>6. data' = [e \in Elems |-> data'[e]]
    BY DEF Dup
  <2> QED BY <1>1, <2>1, <2>3, <2>4, <2>5, <2>6 DEF TypeOK
<1>9. On(new)' = ToSet(copies) /\ \A p \in tqs : On(p)' = On(p)
  BY <1>3 DEF On
<1>10. QueuedOnce'
  <2>1. SUFFICES ASSUME NEW p \in tqs'
                 PROVE  /\ IsInjective(elems'[p]) /\ n_elem'[p] = Len(elems'[p])
                        /\ \A f \in On(p)' : f \in live' /\ tq_head'[f] = p
    BY DEF QueuedOnce
  <2>2. CASE p = new
    BY <1>1, <1>2, <1>3, <1>9, <2>2
  <2>3. CASE p \in tqs
    <3>1. /\ IsInjective(elems[p]) /\ n_elem[p] = Len(elems[p])
          /\ \A f \in On(p) : f \in live /\ tq_head[f] = p
      BY <1>1, <2>3 DEF QueuedOnce
    <3>2. \A f \in On(p) : f \in Elems /\ f \notin ToSet(copies)
      BY <1>1, <3>1 DEF TypeOK
    <3> QED BY <1>1, <1>3, <1>9, <2>3, <3>1, <3>2
  <2> QED BY <1>1, <2>2, <2>3
<1>11. DataOwnedOnce'
  <2>1. /\ owned = {data[e] : e \in live} \ {Null}
        /\ \A e, f \in live : data[e] = data[f] /\ data[e] # Null => e = f
    BY <1>1 DEF DataOwnedOnce
  <2>2. ASSUME NEW d \in owned' PROVE d \in {data'[e] : e \in live'} \ {Null}
    <3>1. CASE d \in owned
      BY <1>1, <1>5, <2>1, <3>1
    <3>2. CASE d \in ToSet(blocks) \ {Null}
      <4>1. PICK i \in 1..Len(copies) : d = blocks[i]
        BY <1>4, <3>2
      <4>2. copies[i] \in live' /\ data'[copies[i]] = d
        BY <1>1, <1>4, <1>5, <4>1
      <4> QED BY <3>2, <4>1, <4>2
    <3> QED BY <1>1, <2>2, <3>1, <3>2
  <2>3. ASSUME NEW e \in live', data'[e] # Null PROVE data'[e] \in owned'
    BY <1>1, <1>4, <1>5, <1>6, <2>1, <2>3
  <2>4. ASSUME NEW e \in live', NEW f \in live', data'[e] = data'[f], data'[e] # Null
        PROVE  e = f
    <3>1. CASE e \in live /\ f \in live
      BY <1>5, <2>1, <2>4, <3>1
    <3>2. CASE e \in live /\ f \notin live
      <4>1. data'[e] \in owned
        BY <1>5, <2>1, <2>4, <3>2
      <4>2. data'[f] \notin owned
        BY <1>5, <1>6, <1>7, <2>4, <3>2
      <4> QED BY <2>4, <4>1, <4>2
    <3>3. CASE e \notin live /\ f \in live
      <4>1. data'[f] \in owned
        BY <1>5, <2>1, <2>4, <3>3
      <4>2. data'[e] \notin owned
        BY <1>5, <1>6, <1>7, <2>4, <3>3
      <4> QED BY <2>4, <4>1, <4>2
    <3>4. CASE e \notin live /\ f \notin live
      BY <1>2, <1>5, <1>6, <2>4, <3>4
    <3> QED BY <3>1, <3>2, <3>3, <3>4
  <2> QED BY <2>2, <2>3, <2>4 DEF DataOwnedOnce
<1>12. WalkInv'
  <2>1. temp # Null => walked \in tqs
    BY <1>1 DEF WalkInv
  <2> QED BY <1>1, <1>3, <1>9, <2>1 DEF WalkInv
<1>13. EmptyInv'
  <2>1. emptied # Null => On(emptied)' = On(emptied)
    BY <1>1, <1>9 DEF EmptyInv
  <2>2. ASSUME dying # Null PROVE dying \in live' /\ dying \notin Queued'
    <3>1. dying \in live /\ dying \notin Queued
      BY <1>1, <2>2 DEF EmptyInv
    <3>2. dying \notin ToSet(copies)
      BY <1>1, <3>1
    <3> QED BY <1>1, <1>9, <3>1, <3>2 DEF Queued
  <2> QED BY <1>1, <2>1, <2>2 DEF EmptyInv
<1> QED BY <1>8, <1>10, <1>11, <1>12, <1>13 DEF IInv

-----------------------------------------------------------------------------
(* The walk. *)

\* A step of for_each to the element e leaves the rest of the invariant
\* alone.
LEMMA WalkFrame ==
  ASSUME IInv, emptied = Null, UNCHANGED <<tqs, elems, n_elem, live, tq_head, data, owned, empt>>,
         walked' \in tqs \cup {Null}, cur' \in Elems \cup {Null},
         temp' \in Elems \cup {Null}, owed' \subseteq Elems, seen' \subseteq Elems,
         WalkInv'
  PROVE  IInv'
<1>1. TypeOK'
  BY DEF IInv, TypeOK, empt
<1>2. QueuedOnce' /\ DataOwnedOnce'
  BY DEF IInv, QueuedOnce, DataOwnedOnce, On
<1>3. EmptyInv'
  BY DEF IInv, EmptyInv, empt
<1> QED BY <1>1, <1>2, <1>3 DEF IInv

\* The walk goes to e: what it still owes comes after e, what it has seen
\* before.
LEMMA VisitStep ==
  ASSUME IInv, emptied = Null, NEW q \in tqs, NEW e \in On(q),
         UNCHANGED <<tqs, elems, n_elem, live, tq_head, data, owned, empt>>,
         walked' = q, cur' = e, temp' = NextOn(q, e),
         \A f \in owed' : Precedes(elems[q], e, f),
         \A f \in seen' : f = e \/ Precedes(elems[q], f, e)
  PROVE  IInv'
<1>1. TypeOK /\ QueuedOnce /\ On(q) \subseteq Elems /\ e \in Elems
  BY OnQueues DEF IInv, TypeOK
<1>2. elems[q] \in Seq(Elems) /\ IsInjective(elems[q])
  BY <1>1, OnQueues
<1>3. /\ \A x, y : Precedes(elems[q], x, y) => x \in On(q) /\ y \in On(q)
      /\ \A x, y, z : Precedes(elems[q], x, y) /\ Precedes(elems[q], y, z)
                      => Precedes(elems[q], x, z)
  BY <1>2, PrecedesOrder DEF On
<1>4. PICK n : n = NextOn(q, e)
  OBVIOUS
<1>5. \/ n = Null /\ \A f : ~Precedes(elems[q], e, f)
      \/ /\ n \in On(q)
         /\ \A f : Precedes(elems[q], e, f) <=> f = n \/ Precedes(elems[q], n, f)
  BY <1>1, <1>4, NextInOrder
<1>6. WalkInv'
  <2>1. /\ elems'[q] = elems[q] /\ On(q)' = On(q) /\ tqs' = tqs
        /\ q # Null /\ n \in On(q) \cup {Null} /\ Null \notin Elems
    BY <1>1, <1>5, OnQueues DEF On
  <2>2. n = Null => owed' = {}
    BY <1>1, <1>5, OnQueues
  <2>3. n # Null => /\ \A f \in owed' : f = n \/ Precedes(elems[q], n, f)
                    /\ \A f \in seen' : Precedes(elems[q], f, n)
    BY <1>3, <1>5
  <2> QED BY <1>4, <2>1, <2>2, <2>3 DEF WalkInv
<1>7. owed' \subseteq Elems /\ seen' \subseteq Elems /\ n \in Elems \cup {Null}
  BY <1>1, <1>3, <1>5
<1> QED BY <1>1, <1>4, <1>6, <1>7, WalkFrame

LEMMA WalkStep ==
  ASSUME IInv, Walk
  PROVE  IInv'
<1>1. TypeOK /\ QueuedOnce /\ WalkInv
  BY DEF IInv
<1>2. CASE \E q \in Queues : ForEachStart(q)
  <2>1. PICK q \in Queues : ForEachStart(q)
    BY <1>2
  <2>2. PICK h : h = Head(elems[q])
    OBVIOUS
  <2>3. q \in tqs /\ elems[q] # <<>> /\ elems[q] \in Seq(Elems) /\ IsInjective(elems[q])
    BY <1>1, <2>1, OnQueues DEF ForEachStart
  <2>4. h \in On(q) /\ \A e \in On(q) : e = h \/ Precedes(elems[q], h, e)
    BY <2>2, <2>3, TailList, HeadPrecedes DEF On
  <2>5. /\ emptied = Null /\ walked' = q /\ cur' = h /\ temp' = NextOn(q, h)
        /\ seen' = {h} /\ owed' = On(q) \ {h}
        /\ UNCHANGED <<tqs, elems, n_elem, live, tq_head, data, owned, empt>>
    BY <2>1, <2>2 DEF ForEachStart
  <2> QED BY <2>3, <2>4, <2>5, VisitStep
<1>3. CASE ForEachNext
  <2>1. /\ walked \in tqs /\ temp \in On(walked)
        /\ \A e \in owed : e = temp \/ Precedes(elems[walked], temp, e)
        /\ \A e \in seen : Precedes(elems[walked], e, temp)
    BY <1>1, <1>3 DEF ForEachNext, WalkInv
  <2>2. /\ emptied = Null /\ walked' = walked /\ cur' = temp /\ temp' = NextOn(walked, temp)
        /\ seen' = seen \cup {temp} /\ owed' = owed \ {temp}
        /\ UNCHANGED <<tqs, elems, n_elem, live, tq_head, data, owned, empt>>
    BY <1>3 DEF ForEachNext
  <2>3. /\ \A f \in owed' : Precedes(elems[walked], temp, f)
        /\ \A f \in seen' : f = temp \/ Precedes(elems[walked], f, temp)
    BY <2>1, <2>2
  <2> QED BY <2>1, <2>2, <2>3, VisitStep
<1>4. CASE emptied = Null /\ LeaveEach
  <2>1. WalkInv'
    BY <1>4 DEF LeaveEach, WalkInv
  <2> QED BY <1>4, <2>1, WalkFrame DEF LeaveEach
<1> QED BY <1>2, <1>3, <1>4 DEF Walk, ForEachEnd, ForEachStop

-----------------------------------------------------------------------------

LEMMA InitIInv == Init => IInv
<1>1. SUFFICES ASSUME Init PROVE IInv
  OBVIOUS
<1>2. TypeOK
  <2>1. doomed \in BOOLEAN
    BY <1>1, Zenon DEF Init
  <2> QED BY <1>1, <2>1 DEF Init, TypeOK
<1>3. QueuedOnce /\ DataOwnedOnce /\ WalkInv /\ EmptyInv
  BY <1>1 DEF Init, QueuedOnce, DataOwnedOnce, WalkInv, EmptyInv
<1> QED BY <1>2, <1>3 DEF IInv

LEMMA StutterStep ==
  ASSUME IInv, UNCHANGED vars
  PROVE  IInv'
<1>1. TypeOK' /\ QueuedOnce' /\ DataOwnedOnce'
  BY DEF vars, IInv, TypeOK, QueuedOnce, DataOwnedOnce, On
<1>2. WalkInv' /\ EmptyInv'
  BY DEF vars, IInv, WalkInv, EmptyInv, Queued, On
<1> QED BY <1>1, <1>2 DEF IInv

LEMMA NextIInv == IInv /\ [Next]_vars => IInv'
<1>1. ASSUME IInv, Take PROVE IInv'
  BY <1>1, RemoveStep, FreeElemStep DEF Take
<1>2. ASSUME IInv, Manage PROVE IInv'
  BY <1>2, NewStep, NewElemStep, DupStep DEF Manage
<1>3. ASSUME IInv, Empty PROVE IInv'
  BY <1>3, EmptyStartStep, EmptyNextStep, EmptyFreeStep, EmptyEndStep DEF Empty
<1> QED BY <1>1, <1>2, <1>3, PutStep, WalkStep, StutterStep DEF Next

\* The invariant holds in every reachable state.
THEOREM Invariance == Spec => []IInv
BY InitIInv, NextIInv, PTL DEF Spec

\* Every variable keeps its type.
THEOREM TypeCorrect == Spec => []TypeOK
<1>1. IInv => TypeOK
  BY DEF IInv
<1> QED BY <1>1, Invariance, PTL

\* An element on a queue is alive, on it once and on no other, and remembers
\* it, so that lz_tailq_elem_remove takes it off the right queue and
\* lz_tailq_size counts the elements.
THEOREM ElementsQueuedOnce == Spec => []QueuedOnce
<1>1. IInv => QueuedOnce
  BY DEF IInv
<1> QED BY <1>1, Invariance, PTL

\* Every block of data has one live element as its owner, copies made by
\* lz_tailq_dup included: freefn is called once for each.
THEOREM DataFreedOnce == Spec => []DataOwnedOnce
<1>1. IInv => DataOwnedOnce
  BY DEF IInv
<1> QED BY <1>1, Invariance, PTL

\* lz_tailq_for_each visits every element that was there when it began and
\* was not removed meanwhile, and none twice, whatever iterfn appends,
\* prepends or removes.
THEOREM WalkComplete == Spec => EachVisitsAll
<1>1. IInv /\ ForEachNext => cur' \notin seen
  <2>1. SUFFICES ASSUME IInv, ForEachNext, temp \in seen PROVE FALSE
    BY DEF ForEachNext
  <2>2. walked \in tqs /\ Precedes(elems[walked], temp, temp)
    BY <2>1 DEF IInv, WalkInv, ForEachNext
  <2>3. elems[walked] \in Seq(Elems) /\ IsInjective(elems[walked])
    BY <2>1, <2>2, OnQueues DEF IInv
  <2> QED BY <2>2, <2>3, PrecedesOrder
<1>2. IInv /\ ForEachEnd => owed = {}
  BY DEF IInv, WalkInv, ForEachEnd
<1>3. IInv /\ [Next]_vars =>
        [/\ ForEachNext => cur' \notin seen
         /\ ForEachEnd => owed = {}]_vars
  BY <1>1, <1>2
<1> QED BY <1>3, Invariance, PTL DEF Spec, EachVisitsAll
=============================================================================
