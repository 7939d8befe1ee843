-------------------------- MODULE LzJsonTreeProofs --------------------------
(***************************************************************************)
(* What is computed from whole JSON values.  Printing: the output buffer   *)
(* is never overrun, its text is only added to, and each way printing ends *)
(* has its one reason.  Comparison: it is equality, as far as it is.  From *)
(* a Lua table: lua_next is called only as Lua allows, the Lua stack is    *)
(* left as it was, and what is made is what the table says.  All for every *)
(* value, however deep it nests.                                           *)
(***************************************************************************)
EXTENDS LzJsonPrint, LzJsonCompare, LzJsonFromLua, ListLemmas

-----------------------------------------------------------------------------
(* JSON values, and what is in them. *)

\* Which fields a value has is said by its type.
LEMMA ValueShape ==
  ASSUME NEW v \in Values
  PROVE  \/ v = NullPtr \/ v = Nil
         \/ v.type = "number" /\ v = [type |-> "number", num |-> v.num]
         \/ v.type = "bool" /\ v = [type |-> "bool", bool |-> v.bool]
         \/ v.type = "string" /\ v = [type |-> "string", str |-> v.str] /\ v.str \in Seq(STRING)
         \/ /\ v.type \in Containers /\ v = [type |-> v.type, members |-> v.members]
            /\ v.members \in Seq([key : Keys, val : Values])
<1>1. \/ v \in {NullPtr, Nil} \/ v \in [type : {"number"}, num : Int]
      \/ v \in [type : {"bool"}, bool : BOOLEAN]
      \/ v \in [type : {"string"}, str : Seq(STRING)]
      \/ v \in [type : Containers, members : Seq([key : Keys, val : Values])]
  BY ValueAssumption
<1>2. ASSUME v \in [type : {"number"}, num : Int]
      PROVE  v.type = "number" /\ v = [type |-> "number", num |-> v.num]
  BY <1>2
<1>3. ASSUME v \in [type : {"bool"}, bool : BOOLEAN]
      PROVE  v.type = "bool" /\ v = [type |-> "bool", bool |-> v.bool]
  BY <1>3
<1>4. ASSUME v \in [type : {"string"}, str : Seq(STRING)]
      PROVE  /\ v.type = "string" /\ v = [type |-> "string", str |-> v.str]
             /\ v.str \in Seq(STRING)
  BY <1>4
<1>5. ASSUME v \in [type : Containers, members : Seq([key : Keys, val : Values])]
      PROVE  /\ v.type \in Containers /\ v = [type |-> v.type, members |-> v.members]
             /\ v.members \in Seq([key : Keys, val : Values])
  BY <1>5
<1> QED BY <1>1, <1>2, <1>3, <1>4, <1>5

\* NULL and scalars are no containers.
LEMMA TypesApart ==
  /\ NullPtr.type = "none" /\ Nil.type = "null"
  /\ "none" \notin Containers /\ "null" \notin Containers /\ "number" \notin Containers
  /\ "bool" \notin Containers /\ "string" \notin Containers
  /\ "array" \in Containers /\ "object" \in Containers
  BY DEF NullPtr, Nil, Containers

\* Members of a value are values and nest less deep.
LEMMA ContainerFacts ==
  ASSUME NEW v \in Values, v.type \in Containers
  PROVE  /\ v = [type |-> v.type, members |-> v.members] /\ v # NullPtr
         /\ v.members \in Seq([key : Keys, val : Values])
         /\ Len(v.members) \in Nat /\ DOMAIN v.members = 1..Len(v.members)
         /\ \A n \in DOMAIN v.members :
              /\ v.members[n].key \in Keys /\ v.members[n].val \in Values
              /\ Nesting[v.members[n].val] < Nesting[v]
<1>1. v # NullPtr /\ v # Nil /\ v.type \notin {"number", "bool", "string"}
  BY TypesApart
<1>2. v = [type |-> v.type, members |-> v.members]
      /\ v.members \in Seq([key : Keys, val : Values])
  BY <1>1, ValueShape
<1>3. Len(v.members) \in Nat /\ DOMAIN v.members = 1..Len(v.members)
  BY <1>2, LenProperties
<1>4. \A n \in DOMAIN v.members : v.members[n] \in [key : Keys, val : Values]
  BY <1>2, <1>3, ElementOfSeq
<1>5. \A n \in DOMAIN v.members : v.members[n].key \in Keys /\ v.members[n].val \in Values
  BY <1>4
<1>6. \A n \in DOMAIN v.members : Nesting[v.members[n].val] < Nesting[v]
  BY DepthAssumption
<1> QED BY <1>1, <1>2, <1>3, <1>5, <1>6

\* How deep a value nests is a number, bounded, and less for a member.
LEMMA Depths ==
  ASSUME NEW v \in Values
  PROVE  /\ Nesting[v] \in Nat /\ Nesting[v] < MaxNesting + 1
         /\ v.type \in Containers =>
              \A n \in DOMAIN v.members :
                /\ v.members[n].val \in Values
                /\ Nesting[v.members[n].val] \in Nat /\ Nesting[v.members[n].val] < Nesting[v]
<1>1. \A w \in Values : Nesting[w] \in 0..MaxNesting
  BY DepthAssumption
<1>2. MaxNesting \in Nat
  BY DepthAssumption
<1>3. \A x \in 0..MaxNesting : x \in Nat /\ x < MaxNesting + 1
  BY <1>2
<1> QED BY <1>1, <1>3, ContainerFacts

\* What holds of the values that nest less than n deep, for each n, holds of
\* all.
LEMMA ByDepth ==
  ASSUME NEW P, 0 \in P, \A n \in Nat : n \in P /\ n < MaxNesting + 1 => n + 1 \in P
  PROVE  MaxNesting + 1 \in P
<1>1. MaxNesting + 1 \in Nat
  BY DepthAssumption
<1>2. PICK N \in Nat : N = MaxNesting + 1
  BY <1>1
<1>3. \A n \in 0..N : n \in Nat
  OBVIOUS
<1>4. \A n \in 0..N : n \in P /\ n < N => n + 1 \in P
  BY <1>2, <1>3
<1>5. \A n \in 0..N : n \in P
  BY <1>4, BoundedInduction
<1>6. N \in 0..N
  OBVIOUS
<1> QED BY <1>2, <1>5, <1>6

\* The body of Within, given what is in the members.
WithinOf(v, w) ==
  {v} \cup (IF v.type \in Containers
            THEN UNION { w[v.members[n].val] : n \in DOMAIN v.members } ELSE {})

\* It looks at members only.
LEMMA WithinSame ==
  ASSUME NEW u, NEW c, NEW d,
         u.type \in Containers => \A n \in DOMAIN u.members :
           c[u.members[n].val] = d[u.members[n].val]
  PROVE  WithinOf(u, c) = WithinOf(u, d)
BY DEF WithinOf

\* Within is what its definition says, one level at a time.
LEMMA WithinUnfolds ==
  ASSUME NEW v \in Values
  PROVE  Within[v] = WithinOf(v, Within)
<1> DEFINE Solves(f, n) == \A u \in Values : Nesting[u] < n => f[u] = WithinOf(u, f)
           P == { n \in Nat : \E f : Solves(f, n) }
<1>1. 0 \in P
  <2>1. Solves([u \in Values |-> {}], 0)
    BY Depths
  <2> QED BY <2>1
<1>2. ASSUME NEW n \in Nat, n \in P PROVE n + 1 \in P
  <2>1. PICK f : Solves(f, n)
    BY <1>2
  <2> DEFINE g == [u \in Values |-> WithinOf(u, f)]
  <2>2. ASSUME NEW u \in Values, Nesting[u] < n + 1 PROVE g[u] = WithinOf(u, g)
    <3>1. ASSUME u.type \in Containers, NEW m \in DOMAIN u.members
          PROVE  f[u.members[m].val] = g[u.members[m].val]
      <4>1. u.members[m].val \in Values /\ Nesting[u.members[m].val] < Nesting[u]
            /\ Nesting[u.members[m].val] \in Nat /\ Nesting[u] \in Nat
        BY <3>1, Depths
      <4>2. Nesting[u.members[m].val] < n
        BY <2>2, <4>1
      <4> QED BY <2>1, <4>1, <4>2
    <3>2. WithinOf(u, f) = WithinOf(u, g)
      <4> HIDE DEF g
      <4> QED BY <3>1, WithinSame
    <3> QED BY <3>2
  <2>3. \E h : Solves(h, n + 1)
    BY <2>2
  <2>4. n + 1 \in Nat
    OBVIOUS
  <2> QED BY <2>3, <2>4
<1>3. MaxNesting + 1 \in P
  <2> HIDE DEF P
  <2> QED BY <1>1, <1>2, ByDepth
<1>4. PICK f : Solves(f, MaxNesting + 1)
  BY <1>3
<1> DEFINE h == [u \in Values |-> f[u]]
<1>5. ASSUME NEW u \in Values PROVE h[u] = WithinOf(u, h)
  <2>1. f[u] = WithinOf(u, f)
    BY <1>4, Depths
  <2>2. ASSUME u.type \in Containers, NEW m \in DOMAIN u.members
        PROVE  f[u.members[m].val] = h[u.members[m].val]
    BY <2>2, Depths
  <2>3. WithinOf(u, f) = WithinOf(u, h)
    <3> HIDE DEF h
    <3> QED BY <2>2, WithinSame
  <2> QED BY <2>1, <2>3
<1>6. h = [u \in Values |-> WithinOf(u, h)]
  BY <1>5
<1>7. Within = CHOOSE f_ : f_ = [u \in Values |-> WithinOf(u, f_)]
  BY DEF Within, WithinOf
<1>8. Within = [u \in Values |-> WithinOf(u, Within)]
  <2> HIDE DEF h, Solves, P
  <2> QED BY <1>6, <1>7
<1> QED BY <1>8

\* What is in a value is the value and what is in its members.
LEMMA WithinFacts ==
  ASSUME NEW v \in Values
  PROVE  /\ v \in Within[v]
         /\ v.type \notin Containers => Within[v] = {v}
         /\ v.type \in Containers =>
              /\ \A n \in DOMAIN v.members : Within[v.members[n].val] \subseteq Within[v]
              /\ \A u \in Within[v] : u = v \/ \E n \in DOMAIN v.members :
                                                 u \in Within[v.members[n].val]
<1>1. Within[v] = WithinOf(v, Within)
  BY WithinUnfolds
<1> QED BY <1>1 DEF WithinOf

\* All that is in a value is a value.
LEMMA WithinValues ==
  ASSUME NEW v \in Values PROVE Within[v] \subseteq Values
<1> DEFINE Good(n) == \A u \in Values : Nesting[u] < n => Within[u] \subseteq Values
           P == { n \in Nat : Good(n) }
<1>1. 0 \in P
  BY Depths
<1>2. ASSUME NEW n \in Nat, n \in P PROVE n + 1 \in P
  <2>1. ASSUME NEW u \in Values, Nesting[u] < n + 1, NEW w \in Within[u] PROVE w \in Values
    <3>1. CASE w = u
      BY <3>1
    <3>2. CASE w # u
      <4>1. u.type \in Containers
        BY <3>2, WithinFacts
      <4>2. PICK m \in DOMAIN u.members : w \in Within[u.members[m].val]
        BY <3>2, <4>1, WithinFacts
      <4>3. u.members[m].val \in Values /\ Nesting[u.members[m].val] < Nesting[u]
            /\ Nesting[u.members[m].val] \in Nat /\ Nesting[u] \in Nat
        BY <4>1, Depths
      <4>4. Nesting[u.members[m].val] < n
        BY <2>1, <4>3
      <4> QED BY <1>2, <4>2, <4>3, <4>4
    <3> QED BY <3>1, <3>2
  <2>2. Good(n + 1)
    BY <2>1
  <2>3. n + 1 \in Nat
    OBVIOUS
  <2> QED BY <2>2, <2>3
<1>3. MaxNesting + 1 \in P
  <2> HIDE DEF P
  <2> QED BY <1>1, <1>2, ByDepth
<1> QED BY <1>3, Depths

\* What is asked of all that is in a value is so of its members.
LEMMA OfMembers ==
  ASSUME NEW v \in Values, v.type \in Containers, NEW n \in DOMAIN v.members
  PROVE  /\ NoNul(v) => NoNul(v.members[n].val)
         /\ NoNullMember(v) => NoNullMember(v.members[n].val) /\ v.members[n].val # NullPtr
         /\ DistinctKeys(v) => DistinctKeys(v.members[n].val)
<1>1. Within[v.members[n].val] \subseteq Within[v] /\ v \in Within[v]
  BY WithinFacts
<1>2. ContainersIn(v.members[n].val) \subseteq ContainersIn(v) /\ v \in ContainersIn(v)
  BY <1>1 DEF ContainersIn
<1>3. v.members[n] \in MembersOf(v)
  BY DEF MembersOf
<1>4. NoNul(v) => NoNul(v.members[n].val)
  BY <1>1 DEF NoNul
<1>5. NoNullMember(v) => NoNullMember(v.members[n].val) /\ v.members[n].val # NullPtr
  BY <1>2, <1>3 DEF NoNullMember
<1>6. DistinctKeys(v) => DistinctKeys(v.members[n].val)
  BY <1>2 DEF DistinctKeys
<1> QED BY <1>4, <1>5, <1>6

-----------------------------------------------------------------------------
(* The output buffer. *)

\* The inductive invariant of the output buffer.
IInv == TypeOK /\ InBounds

-----------------------------------------------------------------------------
(* Sequences. *)

\* Lengths are natural numbers.
LEMMA LenNat == ASSUME NEW S, NEW s \in Seq(S) PROVE Len(s) \in Nat
  OBVIOUS

\* A text is a prefix of itself,
LEMMA WholePrefix == ASSUME NEW S, NEW s \in Seq(S)
                     PROVE  SubSeq(s, 1, Len(s)) = s
  OBVIOUS

\* and of itself with more behind it.
LEMMA Joined == ASSUME NEW S, NEW s \in Seq(S), NEW t \in Seq(S)
                PROVE  /\ s \o t \in Seq(S)
                       /\ Len(s \o t) = Len(s) + Len(t)
                       /\ SubSeq(s \o t, 1, Len(s)) = s
  OBVIOUS

\* The first and the others of a list that is not empty.
LEMMA HeadTail == ASSUME NEW S, NEW s \in Seq(S), s # <<>>
                  PROVE  Head(s) \in S /\ Tail(s) \in Seq(S)
  OBVIOUS

-----------------------------------------------------------------------------
(* Storing. *)

\* The numbers of the type invariant, by themselves.
LEMMA Numbers == ASSUME IInv
                 PROVE  /\ buf_idx \in Nat /\ buf_len \in Nat /\ written = buf_idx
                        /\ buf_idx = Len(buf) /\ buf_idx <= buf_len
                        /\ buf \in Seq(Chars)
  BY DEF IInv, TypeOK, InBounds

\* Text that fits is stored inside the buffer and after what was there; what
\* is then written is what the buffer holds.
LEMMA StoreSafe == ASSUME IInv, NEW text \in Seq(Chars), Fits(text), Store(text)
                   PROVE  /\ buf' \in Seq(Chars) /\ buf_idx' = Len(buf')
                          /\ buf_idx' \in Nat /\ buf_len' \in Nat
                          /\ written' = Len(buf') /\ Len(buf') <= buf_len'
                          /\ ~dynamic => buf_len' = buf_len
                          /\ buf_len' >= buf_len
                          /\ SubSeq(buf', 1, buf_idx) = buf
                          /\ outcome' = outcome
  <1>1. /\ buf_idx \in Nat /\ buf_len \in Nat /\ written = buf_idx
        /\ buf_idx = Len(buf) /\ buf_idx <= buf_len
        /\ buf \in Seq(Chars)
    BY Numbers
  <1>2. buf' = buf \o text
    BY <1>1, WholePrefix DEF Store
  <1>3. /\ buf' \in Seq(Chars) /\ Len(buf') = buf_idx + Len(text)
        /\ SubSeq(buf', 1, buf_idx) = buf
    BY <1>1, <1>2, Joined
  <1>4. PICK n \in Nat : n = Len(text)
    BY LenNat
  <1>5. buf_idx' = buf_idx + n /\ written' = buf_idx + n /\ outcome' = outcome
    BY <1>1, <1>4 DEF Store
  <1>6. buf_len' = IF dynamic /\ n > buf_len - buf_idx THEN buf_len + n + Grow ELSE buf_len
    BY <1>4 DEF Store, Enlarged, Room
  <1>7. dynamic \/ n <= buf_len - buf_idx
    BY <1>4 DEF Fits, Room
  <1>8. Grow \in Nat
    BY SizeAssumption
  <1>9. /\ buf_len' \in Nat /\ buf_idx + n <= buf_len' /\ buf_len' >= buf_len
        /\ ~dynamic => buf_len' = buf_len
    <2>1. CASE dynamic /\ n > buf_len - buf_idx
      <3>1. buf_len' = buf_len + n + Grow
        BY <1>6, <2>1
      <3>2. buf_len + n + Grow \in Nat /\ buf_idx + n <= buf_len + n + Grow
            /\ buf_len + n + Grow >= buf_len
        BY <1>1, <1>8
      <3> QED  BY <2>1, <3>1, <3>2
    <2>2. CASE ~(dynamic /\ n > buf_len - buf_idx)
      <3>1. buf_len' = buf_len
        BY <1>6, <2>2
      <3>2. n <= buf_len - buf_idx
        BY <1>1, <1>7, <2>2
      <3>3. buf_idx + n <= buf_len
        BY <1>1, <3>2
      <3> QED  BY <1>1, <3>1, <3>3
    <2> QED  BY <2>1, <2>2
  <1>10. buf_idx + n \in Nat
    BY <1>1
  <1>11. Len(buf') = buf_idx + n
    BY <1>3, <1>4
  <1> QED  BY <1>3, <1>5, <1>9, <1>10, <1>11

-----------------------------------------------------------------------------

\* What a step does to the buffer.
Buffered ==
  /\ buf' \in Seq(Chars) /\ buf_idx' = Len(buf')
  /\ buf_idx' \in Nat /\ buf_len' \in Nat
  /\ written' = Len(buf') /\ Len(buf') <= buf_len'
  /\ ~dynamic => buf_len' = buf_len
  /\ buf_len' >= buf_len
  /\ SubSeq(buf', 1, buf_idx) = buf

\* A step that leaves the buffer alone keeps it sound.
LEMMA SameBuffer == ASSUME IInv, UNCHANGED <<buf, buf_idx, buf_len, written>>
                    PROVE  Buffered
  <1>1. /\ buf_idx \in Nat /\ buf_len \in Nat /\ written = buf_idx
        /\ buf_idx = Len(buf) /\ buf_idx <= buf_len
        /\ buf \in Seq(Chars)
    BY Numbers
  <1>2. buf_len >= buf_len
    BY <1>1
  <1>3. SubSeq(buf, 1, buf_idx) = buf
    BY <1>1, WholePrefix
  <1> QED  BY <1>1, <1>2, <1>3 DEF Buffered

\* The outcomes of printing.
Outcomes == {"printing", "done", "failed", "aborted", "no memory"}

\* A call that fails leaves the buffer alone.
LEMMA FailSafe == ASSUME IInv, Fail PROVE Buffered /\ outcome' \in Outcomes
  <1>1. UNCHANGED <<buf, buf_idx, buf_len, written>> /\ outcome' = "failed"
    BY DEF Fail, jbuf
  <1> QED  BY <1>1, SameBuffer DEF Outcomes

\* _addbuf keeps the buffer sound, whether it stores or fails.
LEMMA AddbufSafe == ASSUME IInv, NEW text \in Seq(Chars), Addbuf(text)
                    PROVE  Buffered /\ outcome' \in Outcomes
  <1>1. outcome \in Outcomes
    BY DEF IInv, TypeOK, Outcomes
  <1>2. CASE text = <<>>
    <2>1. UNCHANGED <<buf, buf_idx, buf_len, written>> /\ outcome' = outcome
      BY <1>2 DEF Addbuf, jbuf
    <2> QED  BY <1>1, <2>1, SameBuffer
  <1>3. CASE text # <<>> /\ Fits(text)
    <2>1. Store(text)
      BY <1>3 DEF Addbuf
    <2> QED  BY <1>1, <1>3, <2>1, StoreSafe DEF Buffered
  <1>4. CASE text # <<>> /\ ~Fits(text)
    BY <1>4, FailSafe DEF Addbuf
  <1> QED  BY <1>2, <1>3, <1>4

\* A call that is pending is one of the request, and has its text.
LEMMA PendingCall == ASSUME IInv, NEW how, Pending(how)
                     PROVE  /\ Head(calls).text \in Seq(Chars)
                            /\ Tail(calls) \in Seq(Call)
  <1>1. calls \in Seq(Call) /\ calls # <<>>
    BY DEF IInv, TypeOK, Pending
  <1>2. Head(calls) \in Call /\ Tail(calls) \in Seq(Call)
    BY <1>1, HeadTail
  <1> QED  BY <1>2 DEF Call

\* Every step leaves the buffer sound.
LEMMA StepBuffered == ASSUME IInv, Next
                      PROVE  /\ Buffered /\ outcome' \in Outcomes
                             /\ calls' \in Seq(Call)
                             /\ UNCHANGED <<dynamic, request>>
  <1>1. CASE Add
    <2>1. /\ Pending("add") /\ Addbuf(Head(calls).text)
          /\ calls' = Tail(calls) /\ UNCHANGED <<dynamic, request>>
      BY <1>1 DEF Add, Made
    <2> QED  BY <2>1, PendingCall, AddbufSafe
  <1>2. CASE AddFormatted
    <2>1. /\ Pending("format")
          /\ calls' = Tail(calls) /\ UNCHANGED <<dynamic, request>>
          /\ Fail \/ Addbuf(Head(calls).text)
      BY <1>2 DEF AddFormatted, Made
    <2> QED  BY <2>1, PendingCall, AddbufSafe, FailSafe
  <1>3. CASE OutOfMemory
    <2>1. /\ Pending("add")
          /\ calls' = Tail(calls) /\ UNCHANGED <<dynamic, request>>
          /\ outcome' = "no memory" /\ UNCHANGED <<buf, buf_idx, buf_len, written>>
      BY <1>3 DEF OutOfMemory, Made, jbuf
    <2> QED  BY <2>1, PendingCall, SameBuffer DEF Outcomes
  <1>4. CASE Refuse
    <2>1. /\ Pending("refuse") /\ Fail
          /\ calls' = Tail(calls) /\ UNCHANGED <<dynamic, request>>
      BY <1>4 DEF Refuse, Made
    <2> QED  BY <2>1, PendingCall, FailSafe
  <1>5. CASE Abort
    <2>1. /\ Pending("abort")
          /\ calls' = Tail(calls) /\ UNCHANGED <<dynamic, request>>
          /\ outcome' = "aborted" /\ UNCHANGED <<buf, buf_idx, buf_len, written>>
      BY <1>5 DEF Abort, Made, jbuf
    <2> QED  BY <2>1, PendingCall, SameBuffer DEF Outcomes
  <1>6. CASE Finish
    <2>1. /\ outcome' = "done" /\ UNCHANGED <<buf, buf_idx, buf_len, written>>
          /\ UNCHANGED <<dynamic, request, calls>>
      BY <1>6 DEF Finish, jbuf
    <2>2. calls \in Seq(Call)
      BY DEF IInv, TypeOK
    <2> QED  BY <2>1, <2>2, SameBuffer DEF Outcomes
  <1> QED  BY <1>1, <1>2, <1>3, <1>4, <1>5, <1>6 DEF Next

\* The buffer is sound at first,
LEMMA InitSound == Init => IInv
  <1> SUFFICES ASSUME Init PROVE IInv
    OBVIOUS
  <1>0. /\ buf = <<>> /\ buf_idx = 0 /\ written = 0
        /\ (dynamic = FALSE /\ buf_len \in 0..MaxLen) \/ (dynamic = TRUE /\ buf_len = 0)
    BY DEF Init
  <1>1. /\ buf = <<>> /\ buf_idx = 0 /\ written = 0 /\ buf_len \in Nat
        /\ dynamic \in BOOLEAN
    <2>1. MaxLen \in Nat
      BY SizeAssumption
    <2>2. buf_len \in Nat
      BY <1>0, <2>1
    <2>3. dynamic \in BOOLEAN
      BY <1>0
    <2> QED  BY <1>0, <2>2, <2>3
  <1>2. request \in Requests /\ calls = request /\ outcome = "printing"
    BY DEF Init
  <1>3. calls \in Seq(Call)
    BY <1>2, RequestsAssumption
  <1>e. buf = <<>>
    BY <1>1
  <1>4. buf \in Seq(Chars) /\ Len(buf) = 0
    BY <1>e, EmptySeq
  <1>5. TypeOK
    <2>1. buf_idx = Len(buf) /\ buf_idx \in Nat /\ written \in Int
      BY <1>1, <1>4
    <2> QED  BY <1>1, <1>2, <1>3, <1>4, <2>1 DEF TypeOK
  <1>6. 0 <= buf_len
    BY <1>1
  <1>7. InBounds
    BY <1>1, <1>4, <1>6 DEF InBounds
  <1> QED  BY <1>5, <1>7 DEF IInv

\* after each step,
LEMMA StepSound == IInv /\ [Next]_vars => IInv'
  <1> SUFFICES ASSUME IInv, [Next]_vars PROVE IInv'
    OBVIOUS
  <1>1. CASE Next
    <2>1. /\ Buffered /\ outcome' \in Outcomes /\ calls' \in Seq(Call)
          /\ UNCHANGED <<dynamic, request>>
      BY <1>1, StepBuffered
    <2>2. dynamic \in BOOLEAN /\ request \in Requests
      BY DEF IInv, TypeOK
    <2>3. TypeOK'
      <3>1. /\ buf' \in Seq(Chars) /\ buf_idx' = Len(buf')
            /\ buf_idx' \in Nat /\ buf_len' \in Nat /\ written' = Len(buf')
        BY <2>1 DEF Buffered
      <3>2. written' \in Int
        BY <3>1
      <3> QED  BY <2>1, <2>2, <3>1, <3>2 DEF TypeOK, Outcomes
    <2>4. InBounds'
      BY <2>1 DEF Buffered, InBounds
    <2> QED  BY <2>3, <2>4 DEF IInv
  <1>2. CASE UNCHANGED vars
    <2>1. UNCHANGED <<buf, buf_idx, buf_len, written, dynamic, request, calls, outcome>>
      BY <1>2 DEF vars, jbuf
    <2> QED  BY <2>1 DEF IInv, TypeOK, InBounds
  <1> QED  BY <1>1, <1>2

\* and always.
LEMMA AlwaysSound == Spec => []IInv
  <1> QED  BY InitSound, StepSound, PTL DEF Spec

\* Every variable keeps its type, and buf_idx is where the text ends.
THEOREM TypeCorrect == Spec => []TypeOK
  <1>1. IInv => TypeOK
    BY DEF IInv
  <1> QED  BY AlwaysSound, <1>1, PTL

\* No call writes past the end of the buffer, fixed or grown, and the number
\* of bytes the caller is told is the number that are there.
THEOREM NeverOverrun == Spec => []InBounds
  <1>1. IInv => InBounds
    BY DEF IInv
  <1> QED  BY AlwaysSound, <1>1, PTL

\* The caller's buffer keeps its length, a grown one never shrinks, and what
\* was stored stays where it is, whatever is stored after it.
THEOREM TextKept == Spec => BufferKept
  <1>1. IInv /\ [Next]_vars =>
          [/\ ~dynamic => buf_len' = buf_len
           /\ buf_len' >= buf_len
           /\ SubSeq(buf', 1, buf_idx) = buf]_vars
    <2> SUFFICES ASSUME IInv, Next
                 PROVE  /\ ~dynamic => buf_len' = buf_len
                        /\ buf_len' >= buf_len
                        /\ SubSeq(buf', 1, buf_idx) = buf
      OBVIOUS
    <2> QED  BY StepBuffered DEF Buffered
  <1> QED  BY AlwaysSound, <1>1, PTL DEF Spec, BufferKept

-----------------------------------------------------------------------------
(* The calls that print a value. *)

\* The calls for a value rest on those for its members alone.
LEMMA PrintSame ==
  ASSUME NEW v \in Values, NEW esc, NEW c, NEW d,
         v.type \in Containers => \A n \in DOMAIN v.members :
           c[v.members[n].val] = d[v.members[n].val]
  PROVE  ValueCalls(v, esc, c) = ValueCalls(v, esc, d)
<1>1. CASE v.type \in Containers
  <2>1. AllMembers(v, c) = AllMembers(v, d)
    <3>1. \A n \in DOMAIN v.members : MemberCalls(v, n, c) = MemberCalls(v, n, d)
      BY <1>1 DEF MemberCalls
    <3> QED BY <3>1 DEF AllMembers
  <2> QED BY <2>1, TypesApart DEF ValueCalls
<1>2. CASE v.type \notin Containers
  BY <1>2, ValueShape, TypesApart DEF ValueCalls
<1> QED BY <1>1, <1>2

\* The calls of a value are those of _lz_j_to_buffer, with the calls of its
\* members.
LEMMA PrintedUnfolds ==
  ASSUME NEW esc, NEW v \in Values
  PROVE  Printed(esc)[v] = ValueCalls(v, esc, Printed(esc))
<1> DEFINE Solves(f, n) == \A u \in Values : Nesting[u] < n => f[u] = ValueCalls(u, esc, f)
           P == { n \in Nat : \E f : Solves(f, n) }
<1>1. 0 \in P
  <2>1. Solves([u \in Values |-> {}], 0)
    BY Depths
  <2> QED BY <2>1
<1>2. ASSUME NEW n \in Nat, n \in P PROVE n + 1 \in P
  <2>1. PICK f : Solves(f, n)
    BY <1>2
  <2> DEFINE g == [u \in Values |-> ValueCalls(u, esc, f)]
  <2>2. ASSUME NEW u \in Values, Nesting[u] < n + 1 PROVE g[u] = ValueCalls(u, esc, g)
    <3>1. ASSUME u.type \in Containers, NEW m \in DOMAIN u.members
          PROVE  f[u.members[m].val] = g[u.members[m].val]
      <4>1. u.members[m].val \in Values /\ Nesting[u.members[m].val] < Nesting[u]
            /\ Nesting[u.members[m].val] \in Nat /\ Nesting[u] \in Nat
        BY <3>1, Depths
      <4>2. Nesting[u.members[m].val] < n
        BY <2>2, <4>1
      <4> QED BY <2>1, <4>1, <4>2
    <3>2. ValueCalls(u, esc, f) = ValueCalls(u, esc, g)
      <4> HIDE DEF g
      <4> QED BY <3>1, PrintSame
    <3> QED BY <3>2
  <2>3. \E h : Solves(h, n + 1)
    BY <2>2
  <2>4. n + 1 \in Nat
    OBVIOUS
  <2> QED BY <2>3, <2>4
<1>3. MaxNesting + 1 \in P
  <2> HIDE DEF P
  <2> QED BY <1>1, <1>2, ByDepth
<1>4. PICK f : Solves(f, MaxNesting + 1)
  BY <1>3
<1> DEFINE h == [u \in Values |-> f[u]]
<1>5. ASSUME NEW u \in Values PROVE h[u] = ValueCalls(u, esc, h)
  <2>1. f[u] = ValueCalls(u, esc, f)
    BY <1>4, Depths
  <2>2. ASSUME u.type \in Containers, NEW m \in DOMAIN u.members
        PROVE  f[u.members[m].val] = h[u.members[m].val]
    BY <2>2, Depths
  <2>3. ValueCalls(u, esc, f) = ValueCalls(u, esc, h)
    <3> HIDE DEF h
    <3> QED BY <2>2, PrintSame
  <2> QED BY <2>1, <2>3
<1>6. h = [u \in Values |-> ValueCalls(u, esc, h)]
  BY <1>5
<1>7. Printed(esc) = CHOOSE f_ : f_ = [u \in Values |-> ValueCalls(u, esc, f_)]
  BY DEF Printed
<1>8. Printed(esc) = [u \in Values |-> ValueCalls(u, esc, Printed(esc))]
  <2> HIDE DEF h, Solves, P
  <2> QED BY <1>6, <1>7
<1> QED BY <1>8

\* Lists of calls of _addbuf.
AllAdd(c) == IsList(c) /\ \A i \in DOMAIN c : c[i].how = "add"

\* One such list after another.
LEMMA AllAddConcat ==
  ASSUME NEW s, AllAdd(s), NEW t, AllAdd(t) PROVE AllAdd(s \o t)
<1>1. PICK c : c = s \o t
  OBVIOUS
<1>2. IsList(s) /\ IsList(t)
  BY DEF AllAdd
<1>3. IsList(c) /\ \A i \in DOMAIN c : (i \in DOMAIN s /\ c[i] = s[i])
                                       \/ \E j \in DOMAIN t : c[i] = t[j]
  <2>1. Joins(c, s, t)
    BY <1>1, <1>2 DEF Joins
  <2> QED BY <2>1, ListElements
<1> QED BY <1>1, <1>3 DEF AllAdd

\* Adding is one call.
LEMMA AddingFacts ==
  ASSUME NEW text
  PROVE  /\ AllAdd(Adding(text)) /\ Len(Adding(text)) = 1 /\ DOMAIN Adding(text) = {1}
         /\ Adding(text)[1] = [how |-> "add", text |-> text]
<1>1. Adding(text) = <<[how |-> "add", text |-> text]>>
  BY DEF Adding, Calling
<1> QED BY <1>1, ListSingle DEF AllAdd

\* Keys and commas are added.
LEMMA KeyAndComma ==
  ASSUME NEW k, NEW n, NEW m PROVE AllAdd(KeyCalls(k)) /\ AllAdd(CommaCalls(n, m))
<1>1. AllAdd(<<>>)
  BY ListNone DEF AllAdd
<1>2. AllAdd(CommaCalls(n, m))
  BY <1>1, AddingFacts DEF CommaCalls
<1>3. PICK a, b, c : a = Adding(<<"quote">>) /\ b = Adding(k) /\ c = Adding(<<"quote", ":">>)
  OBVIOUS
<1>4. AllAdd(a) /\ AllAdd(b) /\ AllAdd(c)
  BY <1>3, AddingFacts
<1>5. AllAdd(a \o b \o c)
  BY ONLY <1>4, AllAddConcat
<1> QED BY <1>2, <1>3, <1>5 DEF KeyCalls

\* A string is added, escaped or not.
LEMMA StringAllAdd ==
  ASSUME NEW str \in Seq(STRING), NEW esc PROVE AllAdd(StringCalls(str, esc))
<1> DEFINE chars == [n \in DOMAIN str |-> Calling("add", Escape(str[n]))]
<1>1. AllAdd(chars)
  <2>1. Len(str) \in Nat /\ DOMAIN str = 1..Len(str)
    BY LenProperties
  <2> DEFINE f == [n \in 1..Len(str) |-> Calling("add", Escape(str[n]))]
  <2>2. chars = [n \in 1..Len(str) |-> f[n]]
    BY <2>1
  <2>3. IsList(chars)
    <3> HIDE DEF chars, f
    <3> QED BY <2>1, <2>2, ListOfFunction
  <2>4. \A n \in DOMAIN chars : chars[n].how = "add"
    BY DEF Calling
  <2> QED BY <2>3, <2>4 DEF AllAdd
<1>2. AllAdd(<<>>)
  BY ListNone DEF AllAdd
<1>3. PICK q, m : q = Adding(<<"quote">>) /\ m = IF esc THEN chars ELSE <<>>
  OBVIOUS
<1>4. AllAdd(q) /\ AllAdd(m)
  <2>1. AllAdd(q)
    BY <1>3, AddingFacts
  <2>2. AllAdd(m)
    <3> HIDE DEF chars
    <3> QED BY <1>1, <1>2, <1>3
  <2> QED BY <2>1, <2>2
<1>5. AllAdd(q \o m \o q)
  BY ONLY <1>4, AllAddConcat
<1> QED BY <1>3, <1>5 DEF StringCalls

\* What a call between the brackets of v is: one of its own, the assertion of
\* a NULL member, or one of those for a member.
MemberCall(v, printed, call) ==
  \/ call.how = "add"
  \/ call.how = "abort" /\ \E n \in DOMAIN v.members : v.members[n].val = NullPtr
  \/ \E n \in DOMAIN v.members :
       /\ v.members[n].val # NullPtr
       /\ \E j \in DOMAIN printed[v.members[n].val] : call = printed[v.members[n].val][j]

\* So for each member,
LEMMA OneMember ==
  ASSUME NEW v \in Values, v.type \in Containers, NEW printed, NEW n \in DOMAIN v.members,
         IsList(printed[v.members[n].val]), NEW c, c = MemberCalls(v, n, printed)
  PROVE  IsList(c) /\ \A i \in DOMAIN c : MemberCall(v, printed, c[i])
<1>1. CASE v.members[n].val = NullPtr
  <2>1. c = <<[how |-> "abort", text |-> <<>>]>>
    BY <1>1 DEF MemberCalls, Calling
  <2>2. IsList(c) /\ \A i \in DOMAIN c : c[i].how = "abort"
    BY <2>1, ListSingle
  <2> QED BY <1>1, <2>2 DEF MemberCall
<1>2. CASE v.members[n].val # NullPtr
  <2>1. PICK k : k = IF v.type = "object" THEN KeyCalls(v.members[n].key) ELSE <<>>
    OBVIOUS
  <2>2. PICK p : p = printed[v.members[n].val]
    OBVIOUS
  <2>3. PICK e : e = CommaCalls(n, Len(v.members))
    OBVIOUS
  <2>4. c = (k \o p) \o e
    BY <1>2, <2>1, <2>2, <2>3 DEF MemberCalls
  <2>5. AllAdd(k) /\ AllAdd(e)
    BY <2>1, <2>3, KeyAndComma, ListNone DEF AllAdd
  <2>6. IsList(p) /\ \A i \in DOMAIN p : MemberCall(v, printed, p[i])
    BY <1>2, <2>2 DEF MemberCall
  <2>7. \A i \in DOMAIN k : MemberCall(v, printed, k[i])
    BY <2>5 DEF AllAdd, MemberCall
  <2>8. \A i \in DOMAIN e : MemberCall(v, printed, e[i])
    BY <2>5 DEF AllAdd, MemberCall
  <2>9. IsList(k) /\ IsList(e)
    BY <2>5 DEF AllAdd
  <2>10. PICK kp : kp = k \o p
    OBVIOUS
  <2>11. IsList(kp) /\ \A i \in DOMAIN kp : (i \in DOMAIN k /\ kp[i] = k[i])
                                            \/ \E j \in DOMAIN p : kp[i] = p[j]
    <3>1. Joins(kp, k, p)
      BY <2>6, <2>9, <2>10 DEF Joins
    <3> QED BY <3>1, ListElements
  <2>12. \A i \in DOMAIN kp : MemberCall(v, printed, kp[i])
    BY <2>6, <2>7, <2>11
  <2>13. IsList(c) /\ \A i \in DOMAIN c : (i \in DOMAIN kp /\ c[i] = kp[i])
                                          \/ \E j \in DOMAIN e : c[i] = e[j]
    <3>1. Joins(c, kp, e)
      BY <2>4, <2>9, <2>10, <2>11 DEF Joins
    <3> QED BY <3>1, ListElements
  <2> QED BY <2>8, <2>12, <2>13
<1> QED BY <1>1, <1>2

\* and for all of them in a row.
LEMMA MembersTogether ==
  ASSUME NEW v \in Values, v.type \in Containers, NEW printed,
         \A n \in DOMAIN v.members : IsList(printed[v.members[n].val]),
         NEW c, c = AllMembers(v, printed)
  PROVE  IsList(c) /\ \A i \in DOMAIN c : MemberCall(v, printed, c[i])
<1> DEFINE s == [n \in DOMAIN v.members |-> MemberCalls(v, n, printed)]
<1>1. Len(v.members) \in Nat /\ DOMAIN v.members = 1..Len(v.members)
  BY ContainerFacts
<1>2. s = [n \in 1..Len(v.members) |-> s[n]] /\ DOMAIN s = DOMAIN v.members
  BY <1>1
<1>3. IsList(s) /\ Len(s) = Len(v.members)
  <2> HIDE DEF s
  <2> QED BY <1>1, <1>2, ListOfFunction
<1>4. \A n \in DOMAIN v.members :
        IsList(s[n]) /\ \A i \in DOMAIN s[n] : MemberCall(v, printed, s[n][i])
  <2>1. ASSUME NEW n \in DOMAIN v.members
        PROVE  IsList(s[n]) /\ \A i \in DOMAIN s[n] : MemberCall(v, printed, s[n][i])
    <3>1. s[n] = MemberCalls(v, n, printed)
      OBVIOUS
    <3> HIDE DEF s
    <3> QED BY <3>1, OneMember
  <2> QED BY <2>1
<1>5. c = FlattenSeq(s)
  BY DEF AllMembers
<1> HIDE DEF s
<1>6. \A n \in 1..Len(s) : IsList(s[n])
  BY <1>1, <1>3, <1>4
<1>7. IsList(c) /\ \A i \in DOMAIN c : \E n \in 1..Len(s) : \E j \in DOMAIN s[n] : c[i] = s[n][j]
  BY ONLY <1>3, <1>5, <1>6, FlattenParts
<1> QED BY <1>1, <1>3, <1>4, <1>7

\* A value that is no container is one call that formats, one that refuses, or
\* calls that add.
LEMMA ScalarCalls ==
  ASSUME NEW v \in Values, v.type \notin Containers, NEW esc
  PROVE  /\ v.type \in {"bool", "null"} =>
              \E text : Calls(v, esc) = <<[how |-> "format", text |-> text]>>
         /\ v = NullPtr => Calls(v, esc) = <<[how |-> "refuse", text |-> <<>>]>>
         /\ v.type \notin {"bool", "null"} /\ v # NullPtr => AllAdd(Calls(v, esc))
<1>1. Calls(v, esc) = ValueCalls(v, esc, Printed(esc))
  BY PrintedUnfolds DEF Calls
<1>2. v.type # "array" /\ v.type # "object"
  BY TypesApart
<1>3. CASE v.type = "bool"
  <2>1. Calls(v, esc) = <<Calling("format", Word(v.bool))>>
    BY <1>1, <1>2, <1>3 DEF ValueCalls
  <2>2. v # NullPtr
    BY <1>3, TypesApart
  <2> QED BY <1>3, <2>1, <2>2 DEF Calling
<1>4. CASE v.type = "null"
  <2>1. Calls(v, esc) = <<Calling("format", NullWord)>>
    BY <1>1, <1>2, <1>4 DEF ValueCalls
  <2>2. v # NullPtr
    BY <1>4, TypesApart
  <2> QED BY <1>4, <2>1, <2>2 DEF Calling
<1>5. CASE v = NullPtr
  <2>1. v.type = "none"
    BY <1>5, TypesApart
  <2>2. Calls(v, esc) = <<Calling("refuse", <<>>)>>
    BY <1>1, <1>2, <2>1 DEF ValueCalls
  <2> QED BY <1>5, <2>1, <2>2 DEF Calling
<1>6. CASE v.type = "number"
  <2>1. Calls(v, esc) = Adding(NumberText(v.num))
    BY <1>1, <1>2, <1>6 DEF ValueCalls
  <2>2. v # NullPtr
    BY <1>6, TypesApart
  <2>3. AllAdd(Calls(v, esc))
    BY <2>1, AddingFacts
  <2> QED BY <1>6, <2>2, <2>3
<1>7. CASE v.type = "string"
  <2>1. Calls(v, esc) = StringCalls(v.str, esc)
    BY <1>1, <1>2, <1>7 DEF ValueCalls
  <2>2. v.str \in Seq(STRING) /\ v # NullPtr
    BY <1>7, ValueShape, TypesApart
  <2> QED BY <1>7, <2>1, <2>2, StringAllAdd
<1>8. v = NullPtr \/ v.type \in {"number", "bool", "string", "null"}
  BY ValueShape, TypesApart
<1> QED BY <1>3, <1>4, <1>5, <1>6, <1>7, <1>8

\* A container ends with its bracket.
LEMMA ContainerCalls ==
  ASSUME NEW v \in Values, v.type \in Containers, NEW esc,
         \A n \in DOMAIN v.members : IsList(Calls(v.members[n].val, esc)),
         NEW c, c = Calls(v, esc)
  PROVE  /\ IsList(c) /\ \A i \in DOMAIN c : MemberCall(v, Printed(esc), c[i])
         /\ Len(c) \in DOMAIN c /\ c[Len(c)].how = "add" /\ c[Len(c)].text # <<>>
<1>1. c = ValueCalls(v, esc, Printed(esc))
  BY PrintedUnfolds DEF Calls
<1>2. PICK m : m = AllMembers(v, Printed(esc))
  OBVIOUS
<1>3. IsList(m) /\ \A i \in DOMAIN m : MemberCall(v, Printed(esc), m[i])
  BY <1>2, MembersTogether DEF Calls
<1>4. \E x, y : c = (Adding(<<x>>) \o m) \o Adding(<<y>>)
  <2>1. CASE v.type = "array"
    <3>1. c = Adding(<<"[">>) \o m \o Adding(<<"]">>)
      BY <1>1, <1>2, <2>1, TypesApart DEF ValueCalls
    <3> QED BY <3>1
  <2>2. CASE v.type = "object"
    <3>1. c = Adding(<<"{">>) \o m \o Adding(<<"}">>)
      BY <1>1, <1>2, <2>2, TypesApart DEF ValueCalls
    <3> QED BY <3>1
  <2>3. v.type = "array" \/ v.type = "object"
    BY DEF Containers
  <2> QED BY <2>1, <2>2, <2>3
<1>5. PICK x, y : c = (Adding(<<x>>) \o m) \o Adding(<<y>>)
  BY <1>4
<1>6. PICK a, z, am : a = Adding(<<x>>) /\ z = Adding(<<y>>) /\ am = a \o m
  OBVIOUS
<1>7. IsList(a) /\ IsList(z) /\ (\A i \in DOMAIN a : a[i].how = "add")
  BY <1>6, AddingFacts DEF AllAdd
<1>8. /\ Len(z) = 1 /\ DOMAIN z = {1} /\ z[1].how = "add" /\ z[1].text = <<y>>
  <2>1. PICK t : t = <<y>>
    OBVIOUS
  <2>2. z = Adding(t)
    BY <1>6, <2>1
  <2>3. Len(z) = 1 /\ DOMAIN z = {1} /\ z[1] = [how |-> "add", text |-> t]
    BY <2>2, AddingFacts
  <2> QED BY <2>1, <2>3
<1>9. IsList(am) /\ \A i \in DOMAIN am : (i \in DOMAIN a /\ am[i] = a[i])
                                         \/ \E j \in DOMAIN m : am[i] = m[j]
  <2>1. Joins(am, a, m)
    BY <1>3, <1>6, <1>7 DEF Joins
  <2> QED BY <2>1, ListElements
<1>10. \A i \in DOMAIN am : MemberCall(v, Printed(esc), am[i])
  <2>1. \A i \in DOMAIN a : MemberCall(v, Printed(esc), a[i])
    BY <1>7 DEF MemberCall
  <2> QED BY <1>3, <1>9, <2>1
<1>11. Joins(c, am, z)
  BY <1>5, <1>6, <1>7, <1>9 DEF Joins
<1>12. IsList(c) /\ \A i \in DOMAIN c : (i \in DOMAIN am /\ c[i] = am[i])
                                        \/ \E j \in DOMAIN z : c[i] = z[j]
  BY <1>11, ListElements
<1>13. \A i \in DOMAIN c : MemberCall(v, Printed(esc), c[i])
  <2>1. \A i \in DOMAIN z : MemberCall(v, Printed(esc), z[i])
    BY <1>8 DEF MemberCall
  <2> QED BY <1>10, <1>12, <2>1
<1>14. Len(c) \in DOMAIN c /\ c[Len(c)] = z[1]
  BY <1>8, <1>11, ListConcat
<1>15. <<y>> # <<>>
  OBVIOUS
<1> QED BY <1>8, <1>12, <1>13, <1>14, <1>15

\* What calls there are: only NULL is refused, and only a NULL member stops
\* the program.
SoundCalls(v, c) ==
  /\ IsList(c)
  /\ v # NullPtr => \A i \in DOMAIN c : c[i].how # "refuse"
  /\ \A i \in DOMAIN c : c[i].how = "abort" => ~NoNullMember(v)

\* By induction on nesting, the calls of every value are of the kinds above.
LEMMA CallsSound ==
  ASSUME NEW v \in Values, NEW esc PROVE SoundCalls(v, Calls(v, esc))
<1> DEFINE Good(n) == \A u \in Values : Nesting[u] < n => SoundCalls(u, Calls(u, esc))
           P == { n \in Nat : Good(n) }
<1>1. 0 \in P
  BY Depths
<1>2. ASSUME NEW n \in Nat, n \in P PROVE n + 1 \in P
  <2>1. ASSUME NEW u \in Values, Nesting[u] < n + 1 PROVE SoundCalls(u, Calls(u, esc))
    <3>1. CASE u.type \notin Containers
      <4>1. CASE u.type \in {"bool", "null"}
        <5>1. PICK text : Calls(u, esc) = <<[how |-> "format", text |-> text]>>
          BY <3>1, <4>1, ScalarCalls
        <5> QED BY <5>1, ListSingle DEF SoundCalls
      <4>2. CASE u = NullPtr
        <5>1. Calls(u, esc) = <<[how |-> "refuse", text |-> <<>>]>>
          BY <3>1, <4>2, ScalarCalls
        <5> QED BY <4>2, <5>1, ListSingle DEF SoundCalls
      <4>3. CASE u.type \notin {"bool", "null"} /\ u # NullPtr
        <5>1. AllAdd(Calls(u, esc))
          BY <3>1, <4>3, ScalarCalls
        <5> QED BY <5>1 DEF AllAdd, SoundCalls
      <4> QED BY <4>1, <4>2, <4>3
    <3>2. CASE u.type \in Containers
      <4>1. ASSUME NEW m \in DOMAIN u.members
            PROVE  SoundCalls(u.members[m].val, Calls(u.members[m].val, esc))
        <5>1. u.members[m].val \in Values /\ Nesting[u.members[m].val] < Nesting[u]
              /\ Nesting[u.members[m].val] \in Nat /\ Nesting[u] \in Nat
          BY <3>2, Depths
        <5>2. Nesting[u.members[m].val] < n
          BY <2>1, <5>1
        <5> QED BY <1>2, <5>1, <5>2
      <4>2. PICK c : c = Calls(u, esc)
        OBVIOUS
      <4>3. \A m \in DOMAIN u.members : IsList(Calls(u.members[m].val, esc))
        BY <4>1 DEF SoundCalls
      <4>4. IsList(c) /\ \A i \in DOMAIN c : MemberCall(u, Printed(esc), c[i])
        BY <3>2, <4>2, <4>3, ContainerCalls
      <4>5. ASSUME NEW i \in DOMAIN c
            PROVE  c[i].how # "refuse" /\ (c[i].how = "abort" => ~NoNullMember(u))
        <5>1. MemberCall(u, Printed(esc), c[i])
          BY <4>4
        <5>2. CASE c[i].how = "add"
          BY <5>2
        <5>3. CASE c[i].how = "abort" /\ \E m \in DOMAIN u.members : u.members[m].val = NullPtr
          BY <3>2, <5>3, OfMembers
        <5>4. CASE \E m \in DOMAIN u.members :
                     /\ u.members[m].val # NullPtr
                     /\ \E j \in DOMAIN Printed(esc)[u.members[m].val] :
                          c[i] = Printed(esc)[u.members[m].val][j]
          <6>1. PICK m \in DOMAIN u.members :
                  /\ u.members[m].val # NullPtr
                  /\ \E j \in DOMAIN Calls(u.members[m].val, esc) :
                       c[i] = Calls(u.members[m].val, esc)[j]
            BY <5>4 DEF Calls
          <6>2. SoundCalls(u.members[m].val, Calls(u.members[m].val, esc))
            BY <4>1
          <6>3. c[i].how # "refuse" /\ (c[i].how = "abort" => ~NoNullMember(u.members[m].val))
            BY <6>1, <6>2 DEF SoundCalls
          <6>4. NoNullMember(u) => NoNullMember(u.members[m].val)
            BY <3>2, OfMembers
          <6> QED BY <6>3, <6>4
        <5> QED BY <5>1, <5>2, <5>3, <5>4 DEF MemberCall
      <4> QED BY <4>2, <4>4, <4>5 DEF SoundCalls
    <3> QED BY <3>1, <3>2
  <2>2. n + 1 \in Nat
    OBVIOUS
  <2> QED BY <2>1, <2>2
<1>3. MaxNesting + 1 \in P
  <2> HIDE DEF P
  <2> QED BY <1>1, <1>2, ByDepth
<1> QED BY <1>3, Depths

\* A call that formats is the only one or is followed by one that adds text.
LEMMA FormatFollowed ==
  ASSUME NEW v \in Values, NEW esc, NEW c, c = Calls(v, esc), v # NullPtr,
         NEW i \in DOMAIN c, c[i].how = "format"
  PROVE  IF v.type \in {"bool", "null"} THEN Len(c) = 1 /\ i = 1
         ELSE i # Len(c) /\ Len(c) \in DOMAIN c /\ c[Len(c)].text # <<>>
<1>1. CASE v.type \in {"bool", "null"}
  <2>1. v.type \notin Containers
    BY <1>1, TypesApart
  <2>2. PICK text : c = <<[how |-> "format", text |-> text]>>
    BY <1>1, <2>1, ScalarCalls
  <2> QED BY <1>1, <2>2, ListSingle
<1>2. CASE v.type \notin {"bool", "null"} /\ v.type \notin Containers
  BY <1>2, ScalarCalls DEF AllAdd
<1>3. CASE v.type \in Containers
  <2>1. \A n \in DOMAIN v.members : IsList(Calls(v.members[n].val, esc))
    BY <1>3, ContainerFacts, CallsSound DEF SoundCalls
  <2>2. Len(c) \in DOMAIN c /\ c[Len(c)].how = "add" /\ c[Len(c)].text # <<>>
    BY <1>3, <2>1, ContainerCalls
  <2>3. v.type \notin {"bool", "null"}
    BY <1>3, TypesApart
  <2> QED BY <2>2, <2>3
<1> QED BY <1>1, <1>2, <1>3

-----------------------------------------------------------------------------
(* Printing. *)

\* How long the text of the first calls is.
AreTotals(t, r) ==
  /\ t[0] = 0 /\ \A n \in 0..Len(r) : t[n] \in Nat
  /\ \A n \in 1..Len(r) : t[n] = t[n - 1] + Len(r[n].text)
\* The lengths of the texts so far, for each number of calls.
Totals(r) == CHOOSE t : AreTotals(t, r)

\* Each call of a list has a text and a kind.
LEMMA RequestFacts ==
  ASSUME NEW r \in Seq(Call)
  PROVE  /\ Len(r) \in Nat /\ DOMAIN r = 1..Len(r)
         /\ \A n \in 1..Len(r) : /\ r[n].text \in Seq(Chars) /\ Len(r[n].text) \in Nat
                                 /\ r[n].how \in {"add", "format", "abort", "refuse"}
<1>1. Len(r) \in Nat /\ DOMAIN r = 1..Len(r)
  BY LenProperties
<1>2. ASSUME NEW n \in 1..Len(r)
      PROVE  r[n].text \in Seq(Chars) /\ r[n].how \in {"add", "format", "abort", "refuse"}
  <2>1. r[n] \in Call
    BY <1>2, ElementOfSeq
  <2> QED BY <2>1 DEF Call
<1>3. \A n \in 1..Len(r) : Len(r[n].text) \in Nat
  BY <1>2, LenProperties
<1> QED BY <1>1, <1>2, <1>3

\* There are such lengths.
LEMMA TotalsKnown == ASSUME NEW r \in Seq(Call) PROVE AreTotals(Totals(r), r)
<1> DEFINE N == Len(r)
           G == [n \in 1..N |-> [t \in Nat |-> t + Len(r[n].text)]]
<1>1. N \in Nat /\ \A n \in 1..N : Len(r[n].text) \in Nat
  BY RequestFacts
<1>2. Steps(G, N, Nat) /\ 0 \in Nat
  <2>1. \A n \in 1..N : \A t \in Nat : t + Len(r[n].text) \in Nat
    BY <1>1
  <2> HIDE DEF N
  <2> QED BY <2>1 DEF Steps
<1>3. PICK f : Iterates(f, G, N, Nat, 0)
  <2> HIDE DEF N, G
  <2> QED BY ONLY <1>1, <1>2, Iterated
<1>4. f[0] = 0 /\ \A n \in 0..N : f[n] \in Nat
  <2> HIDE DEF N, G
  <2> QED BY <1>3 DEF Iterates
<1>5. ASSUME NEW n \in 1..N PROVE f[n] = f[n - 1] + Len(r[n].text)
  <2>1. n - 1 \in 0..N
    BY <1>1
  <2>2. f[n] = G[n][f[n - 1]]
    <3> HIDE DEF N, G
    <3> QED BY <1>3 DEF Iterates
  <2>3. f[n - 1] \in Nat
    <3> HIDE DEF N, G
    <3> QED BY <1>4, <2>1
  <2> HIDE DEF N
  <2> QED BY <2>2, <2>3
<1>6. AreTotals(f, r)
  BY <1>4, <1>5 DEF AreTotals
<1> QED BY <1>6 DEF Totals

\* One more call adds its text.
LEMMA OneMore ==
  ASSUME NEW r \in Seq(Call), NEW n \in 0..Len(r), n < Len(r)
  PROVE  /\ n + 1 \in 1..Len(r) /\ n + 1 \in 0..Len(r)
         /\ Totals(r)[n] \in Nat /\ Totals(r)[n + 1] \in Nat
         /\ Totals(r)[n + 1] = Totals(r)[n] + Len(r[n + 1].text)
<1>1. AreTotals(Totals(r), r) /\ Len(r) \in Nat
  BY TotalsKnown, RequestFacts
<1>2. PICK k \in 1..Len(r) : k = n + 1
  BY <1>1
<1>3. k \in 0..Len(r) /\ k - 1 = n
  BY <1>1, <1>2
<1>4. Totals(r)[k] = Totals(r)[k - 1] + Len(r[k].text) /\ Totals(r)[k] \in Nat
      /\ Totals(r)[n] \in Nat
  BY <1>1, <1>3 DEF AreTotals
<1> QED BY <1>2, <1>3, <1>4

\* They rise to the length of the whole text.
LEMMA TotalsRise ==
  ASSUME NEW r \in Seq(Call), NEW m \in 0..Len(r), NEW k \in 0..Len(r), m <= k
  PROVE  Totals(r)[m] \in Nat /\ Totals(r)[k] \in Nat /\ Totals(r)[m] <= Totals(r)[k]
<1> DEFINE N == Len(r)
           P == { n \in 0..N : m <= n => Totals(r)[m] <= Totals(r)[n] }
<1>1. N \in Nat
  BY RequestFacts
<1>2. \A n \in 0..N : Totals(r)[n] \in Nat
  BY TotalsKnown DEF AreTotals
<1>3. 0 \in P
  BY <1>1, <1>2
<1>4. ASSUME NEW n \in 0..N, n \in P, n < N PROVE n + 1 \in P
  <2>1. /\ n + 1 \in 1..N /\ n + 1 \in 0..N /\ Len(r[n + 1].text) \in Nat
        /\ Totals(r)[n + 1] = Totals(r)[n] + Len(r[n + 1].text)
    BY <1>4, OneMore, RequestFacts
  <2>2. CASE m <= n
    <3>1. Totals(r)[m] <= Totals(r)[n]
      BY <1>4, <2>2
    <3>2. Totals(r)[m] <= Totals(r)[n + 1]
      <4>1. PICK a, b, c, d : a = Totals(r)[m] /\ b = Totals(r)[n] /\ c = Totals(r)[n + 1]
                              /\ d = Len(r[n + 1].text)
        OBVIOUS
      <4>2. a \in Nat /\ b \in Nat /\ d \in Nat /\ a <= b /\ c = b + d
        BY <1>2, <2>1, <3>1, <4>1
      <4>3. a <= c
        BY ONLY <4>2
      <4> QED BY <4>1, <4>3
    <3> QED BY <2>1, <3>2
  <2>3. CASE ~(m <= n)
    <3>1. m <= n + 1 => m = n + 1
      BY <1>1, <2>3
    <3> QED BY <1>2, <2>1, <3>1
  <2> QED BY <2>2, <2>3
<1>5. \A n \in 0..N : n \in P
  <2> HIDE DEF P, N
  <2> QED BY <1>1, <1>3, <1>4, BoundedInduction
<1>6. k \in P
  <2> HIDE DEF P
  <2> QED BY <1>5
<1> QED BY <1>2, <1>6

\* Before text in the last call the text is shorter.
LEMMA TotalsRiseAtEnd ==
  ASSUME NEW r \in Seq(Call), NEW m \in 0..Len(r), m # Len(r), r[Len(r)].text # <<>>
  PROVE  Totals(r)[m] < Totals(r)[Len(r)]
<1>1. Len(r) \in Nat
  BY RequestFacts
<1>2. PICK k \in Nat : k + 1 = Len(r) /\ m <= k
  <2>1. Len(r) - 1 \in Nat /\ Len(r) - 1 + 1 = Len(r) /\ m <= Len(r) - 1
    BY <1>1
  <2> QED BY <2>1
<1>3. k \in 0..Len(r) /\ k < Len(r) /\ Len(r) \in 1..Len(r)
  BY <1>2
<1>4. r[Len(r)].text \in Seq(Chars)
  BY <1>3, RequestFacts
<1>5. Len(r[Len(r)].text) \in Nat \ {0}
  BY <1>4, EmptySeq
<1>6. Totals(r)[Len(r)] = Totals(r)[k] + Len(r[Len(r)].text) /\ Totals(r)[k] \in Nat
  BY <1>2, <1>3, OneMore
<1>7. Totals(r)[m] \in Nat /\ Totals(r)[m] <= Totals(r)[k]
  BY <1>2, <1>3, TotalsRise
<1>8. PICK a, b, c, d : a = Totals(r)[m] /\ b = Totals(r)[k] /\ c = Totals(r)[Len(r)]
                        /\ d = Len(r[Len(r)].text)
  OBVIOUS
<1>9. a \in Nat /\ b \in Nat /\ d \in Nat \ {0} /\ a <= b /\ c = b + d
  BY <1>5, <1>6, <1>7, <1>8
<1>10. a < c
  BY ONLY <1>9
<1> QED BY <1>8, <1>10

\* c is what is left of r after the first m calls.
Remains(c, m, r) ==
  /\ m \in 0..Len(r) /\ m + Len(c) = Len(r)
  /\ \A i \in 1..Len(c) : c[i] = r[m + i]

\* Making the next call leaves the others.
LEMMA RemainsTail ==
  ASSUME NEW c \in Seq(Call), NEW r \in Seq(Call), NEW m, Remains(c, m, r), c # <<>>
  PROVE  /\ Remains(Tail(c), m + 1, r) /\ Head(c) = r[m + 1]
         /\ m \in 0..Len(r) /\ m < Len(r) /\ m + 1 \in 1..Len(r)
<1>1. PICK d : d = Tail(c)
  OBVIOUS
<1>2. /\ Len(c) \in Nat \ {0} /\ Len(r) \in Nat /\ Len(d) = Len(c) - 1 /\ Head(c) = c[1]
      /\ \A i \in 1..Len(d) : d[i] = c[i + 1]
  BY <1>1, EmptySeq, HeadTailProperties, LenProperties
<1>3. /\ m \in 0..Len(r) /\ m + Len(c) = Len(r) /\ \A i \in 1..Len(c) : c[i] = r[m + i]
  BY DEF Remains
<1>4. PICK n, k : n = Len(r) /\ k = Len(c)
  OBVIOUS
<1>5. n \in Nat /\ k \in Nat \ {0} /\ m \in Nat /\ m + k = n /\ Len(d) = k - 1
  BY <1>2, <1>3, <1>4
<1>6. m + 1 \in 0..n /\ m + 1 \in 1..n /\ m < n /\ m + 1 + Len(d) = n /\ 1 \in 1..k
  BY ONLY <1>5
<1>7. ASSUME NEW i \in 1..Len(d) PROVE d[i] = r[m + 1 + i]
  <2>1. i + 1 \in 1..k /\ m + (i + 1) = m + 1 + i
    BY ONLY <1>5, i \in 1..Len(d)
  <2>2. d[i] = c[i + 1] /\ c[i + 1] = r[m + (i + 1)]
    BY <1>2, <1>3, <1>4, <2>1
  <2> QED BY <2>1, <2>2
<1>8. Remains(d, m + 1, r)
  BY <1>4, <1>6, <1>7 DEF Remains
<1> QED BY <1>1, <1>2, <1>3, <1>4, <1>6, <1>8

\* Why printing is where it is after the first m calls of r, with w bytes
\* written and room for l, more when d says so.
Explains(o, m, r, w, l, d) ==
  /\ o \in {"printing", "done"} =>
       w = Totals(r)[m] /\ (m # 0 /\ r[m].how = "format" /\ ~d => w < l)
  /\ o = "failed" =>
       m # 0 /\ \/ r[m].how = "refuse"
                \/ r[m].how = "add" /\ ~d /\ Totals(r)[m] > l
                \/ r[m].how = "format" /\ (~d => Totals(r)[m] >= l)
  /\ o = "aborted" => m # 0 /\ r[m].how = "abort"

\* Why printing goes on,
LEMMA StillPrinting ==
  ASSUME NEW m, m # 0, NEW r, NEW w, w = Totals(r)[m], NEW l, NEW d,
         r[m].how = "format" /\ ~d => w < l
  PROVE  Explains("printing", m, r, w, l, d)
BY DEF Explains

\* and why it fails.
LEMMA NowFailed ==
  ASSUME NEW m, m # 0, NEW r, NEW w, NEW l, NEW d,
         \/ r[m].how = "refuse"
         \/ r[m].how = "add" /\ ~d /\ Totals(r)[m] > l
         \/ r[m].how = "format" /\ (~d => Totals(r)[m] >= l)
  PROVE  Explains("failed", m, r, w, l, d)
BY DEF Explains

\* The state after m calls is explained.
Explained(m) == Explains(outcome, m, request, written, buf_len, dynamic)

\* The invariant of printing: some number of calls has been made, and that
\* explains the state.
PInv ==
  /\ IInv /\ json \in Values /\ request = Calls(json, escape)
  /\ \E m : Remains(calls, m, request) /\ Explained(m)
  /\ outcome = "done" => calls = <<>>

\* What is to be printed and what is left of it are lists of calls.
LEMMA RequestIsList == ASSUME IInv PROVE request \in Seq(Call) /\ calls \in Seq(Call)
  BY RequestsAssumption DEF IInv, TypeOK

\* Before the first call nothing needs an explanation.
LEMMA FirstExplained == ASSUME PrintInit PROVE PInv
<1>1. Init /\ json \in Values /\ request = Calls(json, escape)
  BY DEF PrintInit
<1>2. IInv
  BY <1>1, InitSound
<1>3. calls = request /\ outcome = "printing" /\ written = 0
  BY <1>1 DEF Init
<1>4. request \in Seq(Call)
  BY <1>2, RequestIsList
<1>5. Remains(calls, 0, request)
  <2>1. Len(request) \in Nat
    BY <1>4, RequestFacts
  <2>2. 0 \in 0..Len(request) /\ 0 + Len(request) = Len(request)
        /\ \A i \in 1..Len(request) : 0 + i = i
    BY <2>1
  <2> QED BY <1>3, <2>2 DEF Remains
<1>6. Totals(request)[0] = 0
  BY <1>4, TotalsKnown DEF AreTotals
<1>7. Explained(0)
  BY <1>3, <1>6 DEF Explained, Explains
<1> QED BY <1>1, <1>2, <1>3, <1>5, <1>7 DEF PInv

\* The room left, and what is written with the next call.
LEMMA NextTotal ==
  ASSUME IInv, NEW m, Remains(calls, m, request), Explained(m), calls # <<>>,
         outcome = "printing", NEW n, n = Len(Head(calls).text)
  PROVE  /\ n \in Nat /\ Head(calls).text \in Seq(Chars) /\ Head(calls) = request[m + 1]
         /\ written + n = Totals(request)[m + 1]
         /\ n <= Room <=> Totals(request)[m + 1] <= buf_len
         /\ n < Room <=> Totals(request)[m + 1] < buf_len
<1>1. request \in Seq(Call) /\ calls \in Seq(Call)
  BY RequestIsList
<1>2. Head(calls) = request[m + 1] /\ m \in 0..Len(request) /\ m < Len(request)
      /\ m + 1 \in 1..Len(request)
  BY <1>1, RemainsTail
<1>3. n \in Nat /\ Head(calls).text \in Seq(Chars)
  BY <1>1, <1>2, RequestFacts
<1>4. Totals(request)[m + 1] = Totals(request)[m] + n
  BY <1>1, <1>2, OneMore
<1>5. written = Totals(request)[m]
  BY DEF Explained, Explains
<1>6. written \in Nat /\ buf_len \in Nat /\ buf_idx = written
  BY Numbers
<1>7. PICK t : t = Totals(request)[m + 1]
  OBVIOUS
<1>8. t = written + n
  BY <1>4, <1>5, <1>7
<1>9. Room = buf_len - written
  BY <1>6 DEF Room
<1>10. (n <= buf_len - written <=> t <= buf_len) /\ (n < buf_len - written <=> t < buf_len)
  BY ONLY <1>3, <1>6, <1>8
<1> QED BY <1>2, <1>3, <1>7, <1>8, <1>9, <1>10

\* What a call of _addbuf leaves.
LEMMA AddbufExplained ==
  ASSUME IInv, NEW m, Remains(calls, m, request), Explained(m), calls # <<>>,
         outcome = "printing", Addbuf(Head(calls).text),
         \/ Head(calls).how = "add"
         \/ Head(calls).how = "format" /\ Len(Head(calls).text) < Room,
         NEW k, k = m + 1
  PROVE  Explains(outcome', k, request, written', buf_len', dynamic) /\ outcome' # "done"
<1> DEFINE text == Head(calls).text
<1>1. PICK n : n = Len(text)
  OBVIOUS
<1>2. /\ n \in Nat /\ text \in Seq(Chars) /\ Head(calls) = request[k]
      /\ written + n = Totals(request)[k]
      /\ n <= Room <=> Totals(request)[k] <= buf_len
      /\ n < Room <=> Totals(request)[k] < buf_len
  BY <1>1, NextTotal
<1>3. written \in Nat /\ buf_len \in Nat
  BY Numbers
<1>4. m \in Nat /\ k # 0
  <2>1. m \in 0..Len(request)
    BY DEF Remains
  <2> QED BY <2>1
<1>5. request[k].how = "format" => Totals(request)[k] < buf_len
  BY <1>1, <1>2
<1>6. CASE text = <<>> \/ Fits(text)
  <2>1. outcome' = "printing" /\ written' = Totals(request)[k]
    <3>1. CASE text = <<>>
      <4>1. n = 0 /\ written' = written /\ outcome' = "printing"
        BY <1>1, <3>1, EmptySeq DEF Addbuf, jbuf
      <4>2. written + n = written
        BY <1>3, <4>1
      <4> QED BY <1>2, <4>1, <4>2
    <3>2. CASE text # <<>> /\ Fits(text)
      BY <1>1, <1>2, <3>2 DEF Addbuf, Store
    <3> QED BY <1>6, <3>1, <3>2
  <2>2. ~dynamic => buf_len' = buf_len
    <3>1. CASE text = <<>>
      BY <3>1 DEF Addbuf, jbuf
    <3>2. CASE text # <<>> /\ Fits(text)
      BY <3>2 DEF Addbuf, Store, Enlarged
    <3> QED BY <1>6, <3>1, <3>2
  <2>3. request[k].how = "format" /\ ~dynamic => written' < buf_len'
    BY <1>5, <2>1, <2>2
  <2> QED BY <1>4, <2>1, <2>3, StillPrinting
<1>7. CASE text # <<>> /\ ~Fits(text)
  <2>1. outcome' = "failed" /\ buf_len' = buf_len /\ ~dynamic /\ ~(n <= Room)
    BY <1>1, <1>7 DEF Addbuf, Fail, Fits, jbuf
  <2>2. Totals(request)[k] > buf_len /\ ~(Totals(request)[k] < buf_len)
    <3>1. Totals(request)[k] \in Nat
      BY <1>2, <1>3
    <3>2. ~(Totals(request)[k] <= buf_len)
      BY <1>2, <2>1
    <3> QED BY <1>3, <3>1, <3>2
  <2>3. request[k].how = "add"
    BY <1>2, <1>5, <2>2
  <2> QED BY <1>4, <2>1, <2>2, <2>3, NowFailed
<1> QED BY <1>6, <1>7

\* Every call made leaves what can be explained.
LEMMA CallExplained ==
  ASSUME IInv, NEW m, Remains(calls, m, request), Explained(m),
         Add \/ AddFormatted \/ OutOfMemory \/ Refuse \/ Abort
  PROVE  /\ \E k : /\ Remains(calls', k, request)
                   /\ Explains(outcome', k, request, written', buf_len', dynamic)
         /\ outcome' # "done"
<1>1. /\ calls # <<>> /\ calls' = Tail(calls) /\ UNCHANGED <<dynamic, request>>
      /\ outcome = "printing"
  BY DEF Add, AddFormatted, OutOfMemory, Refuse, Abort, Pending, Made
<1>2. request \in Seq(Call) /\ calls \in Seq(Call)
  BY RequestIsList
<1>3. PICK k : k = m + 1
  OBVIOUS
<1>4. Remains(calls', k, request) /\ Head(calls) = request[k] /\ k # 0
  <2>1. /\ Remains(Tail(calls), m + 1, request) /\ Head(calls) = request[m + 1]
        /\ m + 1 \in 1..Len(request)
    BY <1>1, <1>2, RemainsTail
  <2>2. Len(request) \in Nat
    BY <1>2, RequestFacts
  <2>3. m + 1 # 0
    BY <2>1, <2>2
  <2> QED BY <1>1, <1>3, <2>1, <2>3
<1>5. Explains(outcome', k, request, written', buf_len', dynamic) /\ outcome' # "done"
  <2>1. CASE Add
    <3>1. Head(calls).how = "add" /\ Addbuf(Head(calls).text)
      BY <2>1 DEF Add, Pending
    <3> QED BY <1>1, <1>3, <3>1, AddbufExplained
  <2>2. CASE AddFormatted
    <3>1. PICK n : n = Len(Head(calls).text)
      OBVIOUS
    <3>2. Head(calls).how = "format" /\ (n >= Room \/ ~(n >= Room))
      BY <2>2 DEF AddFormatted, Pending
    <3>3. /\ n \in Nat /\ (n < Room <=> Totals(request)[k] < buf_len)
          /\ written + n = Totals(request)[k] /\ written \in Nat /\ buf_len \in Nat
          /\ Room = buf_len - written
      BY <1>1, <1>3, <3>1, NextTotal, Numbers DEF Room
    <3>4. CASE n >= Room
      <4>1. outcome' = "failed" /\ buf_len' = buf_len
        BY <2>2, <3>1, <3>4 DEF AddFormatted, Fail, jbuf
      <4>2. Totals(request)[k] >= buf_len
        <5>1. PICK t : t = Totals(request)[k]
          OBVIOUS
        <5>2. t = written + n /\ ~(t < buf_len)
          <6>1. ~(n < Room)
            BY <3>3, <3>4
          <6> QED BY <3>3, <5>1, <6>1
        <5>3. t >= buf_len
          BY ONLY <3>3, <5>2
        <5> QED BY <5>1, <5>3
      <4>3. request[k].how = "format"
        BY <1>4, <3>2
      <4> QED BY <1>4, <4>1, <4>2, <4>3, NowFailed
    <3>5. CASE ~(n >= Room)
      <4>1. Addbuf(Head(calls).text)
        BY <2>2, <3>1, <3>5 DEF AddFormatted
      <4>2. n < Room
        <5>1. Room \in Int
          BY <3>3
        <5> QED BY <3>3, <3>5, <5>1
      <4> QED BY <1>1, <1>3, <3>1, <3>2, <4>1, <4>2, AddbufExplained
    <3> QED BY <3>2, <3>4, <3>5
  <2>3. CASE OutOfMemory
    <3>1. outcome' = "no memory"
      BY <2>3 DEF OutOfMemory
    <3> QED BY <3>1 DEF Explains
  <2>4. CASE Refuse
    <3>1. outcome' = "failed" /\ request[k].how = "refuse"
      BY <1>4, <2>4 DEF Refuse, Fail, Pending
    <3> QED BY <1>4, <3>1, NowFailed
  <2>5. CASE Abort
    <3>1. outcome' = "aborted" /\ request[k].how = "abort"
      BY <1>4, <2>5 DEF Abort, Pending
    <3> QED BY <1>4, <3>1 DEF Explains
  <2> QED BY <2>1, <2>2, <2>3, <2>4, <2>5
<1> QED BY <1>4, <1>5

\* Each step of the serializer keeps the invariant.
LEMMA StepExplained == ASSUME PInv, [PrintNext]_pvars PROVE PInv'
<1>1. /\ IInv /\ json \in Values /\ request = Calls(json, escape)
      /\ outcome = "done" => calls = <<>>
  BY DEF PInv
<1>2. PICK m : Remains(calls, m, request) /\ Explained(m)
  BY DEF PInv
<1>3. [Next]_vars /\ UNCHANGED <<json, escape>>
  BY DEF PrintNext, pvars
<1>4. IInv'
  BY <1>1, <1>3, StepSound
<1>5. UNCHANGED <<request, dynamic>>
  BY <1>1, <1>3, StepBuffered DEF vars, jbuf
<1>6. /\ \E k : /\ Remains(calls', k, request)
                /\ Explains(outcome', k, request, written', buf_len', dynamic)
      /\ outcome' = "done" => calls' = <<>>
  <2>1. CASE Add \/ AddFormatted \/ OutOfMemory \/ Refuse \/ Abort
    BY <1>1, <1>2, <2>1, CallExplained
  <2>2. CASE Finish
    <3>1. /\ outcome = "printing" /\ outcome' = "done" /\ calls' = calls /\ calls = <<>>
          /\ written' = written /\ buf_len' = buf_len
      BY <2>2 DEF Finish, jbuf
    <3>2. Explains(outcome', m, request, written', buf_len', dynamic)
      BY <1>2, <3>1 DEF Explained, Explains
    <3> QED BY <1>2, <3>1, <3>2
  <2>3. CASE UNCHANGED vars
    <3>1. UNCHANGED <<calls, outcome, written, buf_len>>
      BY <2>3 DEF vars, jbuf
    <3> QED BY <1>1, <1>2, <3>1 DEF Explained
  <2> QED BY <1>3, <2>1, <2>2, <2>3 DEF Next
<1>7. \E k : Remains(calls, k, request)' /\ Explained(k)'
  <2>1. PICK k : /\ Remains(calls', k, request)
                 /\ Explains(outcome', k, request, written', buf_len', dynamic)
    BY <1>6
  <2> QED BY <1>5, <2>1 DEF Explained
<1>8. json' \in Values /\ request' = Calls(json', escape')
  BY <1>1, <1>3, <1>5
<1>9. outcome' = "done" => calls' = <<>>
  BY <1>6
<1> QED BY <1>4, <1>7, <1>8, <1>9 DEF PInv

\* TextLength is the total of all calls.
LEMMA WholeLength ==
  ASSUME request \in Seq(Call) PROVE TextLength = Totals(request)[Len(request)]
<1> DEFINE s == [n \in DOMAIN request |-> request[n].text]
<1>1. Len(request) \in Nat /\ DOMAIN request = 1..Len(request)
      /\ \A n \in 1..Len(request) : request[n].text \in Seq(Chars)
  BY RequestFacts
<1>2. s = [n \in 1..Len(request) |-> s[n]]
      /\ \A n \in 1..Len(request) : s[n] = request[n].text
  BY <1>1
<1>3. TextLength = Len(FlattenSeq(s))
  BY DEF TextLength
<1> HIDE DEF s
<1>4. IsList(s) /\ Len(s) = Len(request)
  BY <1>1, <1>2, ListOfFunction
<1>5. \A n \in 1..Len(s) : IsList(s[n])
  BY <1>1, <1>2, <1>4 DEF IsList
<1>6. PICK t : t = Totals(request)
  OBVIOUS
<1>7. t[0] = 0 /\ \A n \in 1..Len(s) : t[n] = t[n - 1] + Len(s[n])
  BY <1>2, <1>4, <1>6, TotalsKnown DEF AreTotals
<1>8. Len(FlattenSeq(s)) = t[Len(s)]
  BY ONLY <1>4, <1>5, <1>7, FlattenLength
<1> QED BY <1>3, <1>4, <1>6, <1>8

\* The explanation of the last state is that of the outcome.
LEMMA WhyItEnds == ASSUME PInv PROVE OutcomeExplained
<1> DEFINE N == Len(request)
           last == IF json.type \in {"bool", "null"} THEN 1 ELSE 0
<1>1. /\ IInv /\ json \in Values /\ request = Calls(json, escape)
      /\ outcome = "done" => calls = <<>>
  BY DEF PInv
<1>2. PICK m : Remains(calls, m, request) /\ Explained(m)
  BY DEF PInv
<1>3. request \in Seq(Call) /\ calls \in Seq(Call)
  BY <1>1, RequestIsList
<1>4. N \in Nat /\ m \in 0..N /\ N \in 0..N /\ m <= N /\ DOMAIN request = 1..N
      /\ (m # 0 => m \in DOMAIN request)
  BY <1>2, <1>3, RequestFacts DEF Remains
<1>5. SoundCalls(json, request)
  BY <1>1, CallsSound
<1>6. PICK t, total : t = Totals(request)[m] /\ total = Totals(request)[N]
  OBVIOUS
<1>7. t \in Nat /\ total \in Nat /\ t <= total /\ TextLength = total
  BY <1>3, <1>4, <1>6, TotalsRise, WholeLength
<1>8. buf_len \in Nat /\ written \in Nat /\ written <= buf_len
  BY <1>1, Numbers
<1>9. last \in {0, 1} /\ (json.type \in {"bool", "null"} <=> last = 1)
  OBVIOUS
<1>10. ASSUME outcome = "done", ~dynamic, json # NullPtr PROVE total + last <= buf_len
  <2>1. calls = <<>> /\ m = N
    BY <1>1, <1>2, <1>4, <1>10 DEF Remains
  <2>2. t = total /\ written = total
    BY <1>2, <1>6, <1>10, <2>1 DEF Explained, Explains
  <2>3. CASE last = 1
    <3>1. PICK text : request = <<[how |-> "format", text |-> text]>>
      BY <1>1, <1>9, <2>3, ScalarCalls, TypesApart
    <3>2. N = 1 /\ request[N].how = "format"
      BY <3>1, ListSingle
    <3>3. written < buf_len
      BY <1>2, <1>10, <2>1, <3>2 DEF Explained, Explains
    <3> HIDE DEF last
    <3> QED BY <1>7, <1>8, <2>2, <2>3, <3>3
  <2>4. CASE last = 0
    <3> HIDE DEF last
    <3> QED BY <1>7, <1>8, <2>2, <2>4
  <2> QED BY <1>9, <2>3, <2>4
<1>11. ASSUME outcome = "failed", ~dynamic, json # NullPtr PROVE ~(total + last <= buf_len)
  <2>1. /\ m # 0
        /\ \/ request[m].how = "refuse"
           \/ request[m].how = "add" /\ t > buf_len
           \/ request[m].how = "format" /\ t >= buf_len
    BY <1>2, <1>6, <1>11 DEF Explained, Explains
  <2>2. m \in DOMAIN request
    BY <1>4, <2>1
  <2>3. request[m].how # "refuse"
    BY <1>5, <1>11, <2>2 DEF SoundCalls
  <2>4. CASE t > buf_len
    <3> HIDE DEF last
    <3> QED BY <1>7, <1>8, <1>9, <2>4
  <2>5. CASE request[m].how = "format" /\ t >= buf_len
    <3>1. IF json.type \in {"bool", "null"} THEN N = 1 /\ m = 1
          ELSE m # N /\ N \in DOMAIN request /\ request[N].text # <<>>
      BY <1>1, <1>11, <2>2, <2>5, FormatFollowed
    <3>2. CASE last = 1
      <4> HIDE DEF last
      <4> QED BY <1>7, <1>8, <2>5, <3>2
    <3>3. CASE last = 0
      <4>1. m # N /\ request[N].text # <<>>
        BY <1>9, <3>1, <3>3
      <4>2. t < total
        BY <1>3, <1>4, <1>6, <4>1, TotalsRiseAtEnd
      <4> HIDE DEF last
      <4> QED BY <1>7, <1>8, <2>5, <3>3, <4>2
    <3> QED BY <1>9, <3>2, <3>3
  <2> QED BY <2>1, <2>3, <2>4, <2>5
<1>12. outcome \in {"done", "failed"} /\ ~dynamic /\ json # NullPtr =>
         (outcome = "done" <=> TextLength + last <= buf_len)
  BY <1>7, <1>10, <1>11
<1>13. outcome = "failed" /\ dynamic /\ json # NullPtr =>
         \E n \in DOMAIN request : request[n].how = "format"
  <2> SUFFICES ASSUME outcome = "failed", dynamic, json # NullPtr
               PROVE  \E n \in DOMAIN request : request[n].how = "format"
    OBVIOUS
  <2>1. m # 0 /\ (request[m].how = "refuse" \/ request[m].how = "format")
    BY <1>2 DEF Explained, Explains
  <2>2. m \in DOMAIN request
    BY <1>4, <2>1
  <2>3. request[m].how # "refuse"
    BY <1>5, <2>2 DEF SoundCalls
  <2> QED BY <2>1, <2>2, <2>3
<1>14. outcome = "aborted" => ~NoNullMember(json)
  <2> SUFFICES ASSUME outcome = "aborted" PROVE ~NoNullMember(json)
    OBVIOUS
  <2>1. m # 0 /\ request[m].how = "abort"
    BY <1>2 DEF Explained, Explains
  <2>2. m \in DOMAIN request
    BY <1>4, <2>1
  <2> QED BY <1>5, <2>1, <2>2 DEF SoundCalls
<1> QED BY <1>12, <1>13, <1>14 DEF OutcomeExplained

\* Whatever is printed: into a buffer that is given it succeeds exactly when
\* the text fits, but that true, false and null alone want a byte more; into
\* one that grows it fails only at true, false and null; and it stops the
\* program only at a member that is NULL.
THEOREM OutcomesExplained == PrintSpec => []OutcomeExplained
<1>1. PrintInit => PInv
  BY FirstExplained
<1>2. PInv /\ [PrintNext]_pvars => PInv'
  BY StepExplained
<1>3. PInv => OutcomeExplained
  BY WhyItEnds
<1> QED BY <1>1, <1>2, <1>3, PTL DEF PrintSpec

\* The printing of a value is that of a sequence of calls: what is proved of
\* the output buffer holds there.
THEOREM PrintingIsBuffered == PrintSpec => Spec
<1>1. PrintInit => Init
  BY DEF PrintInit
<1>2. [PrintNext]_pvars => [Next]_vars
  BY DEF PrintNext, pvars
<1> QED BY <1>1, <1>2, PTL DEF PrintSpec, Spec

-----------------------------------------------------------------------------
(* Comparison. *)

\* A member is found under its key, and nothing under any other.
LEMMA FoundMember ==
  ASSUME NEW v \in Values, v.type \in Containers, NEW k
  PROVE  \/ /\ \A n \in DOMAIN v.members : v.members[n].key # k
            /\ Found(v, k) = NullPtr
         \/ \E n \in DOMAIN v.members : v.members[n].key = k /\ Found(v, k) = v.members[n].val
<1> DEFINE T == PlacesOf(v, k)
<1>1. T \in SUBSET Nat /\ T \subseteq DOMAIN v.members /\ \A n \in T : v.members[n].key = k
  BY ContainerFacts DEF PlacesOf
<1>2. CASE T = {}
  BY <1>2 DEF PlacesOf, Found
<1>3. CASE T # {}
  <2>1. PICK m \in T : \A n \in T : m <= n
    BY <1>1, <1>3, LeastNatural
  <2>2. PICK c : c = CHOOSE d \in T : \A n \in T : d <= n
    OBVIOUS
  <2>3. c \in T
    BY <2>1, <2>2
  <2>4. Found(v, k) = v.members[c].val
    BY <1>3, <2>2 DEF Found
  <2> QED BY <1>1, <2>3, <2>4
<1> QED BY <1>2, <1>3

\* Where keys are distinct it is the only one.
LEMMA FoundOnly ==
  ASSUME NEW v \in Values, v.type \in Containers,
         \A m, n \in DOMAIN v.members : v.members[m].key = v.members[n].key => m = n,
         NEW n \in DOMAIN v.members
  PROVE  Found(v, v.members[n].key) = v.members[n].val
BY FoundMember

\* What the values equal to a are and what is in v, given the same of what is
\* in them.
EqualTo(a, callback, eq) == [b \in Values |-> ValuesEqual(a, b, callback, eq)]
\* Which values are equal, what they mean and what is in them rest on the
\* values of members alone, which nest less deep.
LEMMA EqualSame ==
  ASSUME NEW a \in Values, NEW callback, NEW c, NEW d,
         a.type \in Containers => \A n \in DOMAIN a.members :
           c[a.members[n].val] = d[a.members[n].val]
  PROVE  EqualTo(a, callback, c) = EqualTo(a, callback, d)
<1>1. ASSUME NEW b \in Values
      PROVE  ValuesEqual(a, b, callback, c) = ValuesEqual(a, b, callback, d)
  <2>1. CASE a.type \in Containers
    <3>1. MembersEqual(a, b, callback, c) = MembersEqual(a, b, callback, d)
      BY <2>1 DEF MembersEqual
    <3> QED BY <3>1, TypesApart DEF ValuesEqual
  <2>2. CASE a.type \notin Containers
    BY <2>2, ValueShape, TypesApart DEF ValuesEqual
  <2> QED BY <2>1, <2>2
<1> QED BY <1>1 DEF EqualTo

\* What a value means rests on what its members mean.
LEMMA MeaningSame ==
  ASSUME NEW v \in Values, NEW callback, NEW c, NEW d,
         v.type \in Containers => \A n \in DOMAIN v.members :
           c[v.members[n].val] = d[v.members[n].val]
  PROVE  Meaning(v, callback, c) = Meaning(v, callback, d)
<1>1. CASE v.type = "object"
  <2>1. v.type \in Containers
    BY <1>1, TypesApart
  <2>2. ASSUME NEW k \in CountedKeys(v, callback) PROVE c[Found(v, k)] = d[Found(v, k)]
    <3>1. PICK n \in DOMAIN v.members : v.members[n].key = k
      BY DEF CountedKeys
    <3>2. PICK m \in DOMAIN v.members : Found(v, k) = v.members[m].val
      BY <2>1, <3>1, FoundMember
    <3> QED BY <2>1, <3>2
  <2> QED BY <1>1, <2>2 DEF Meaning
<1>2. CASE v.type = "array"
  <2>1. \A n \in DOMAIN v.members : c[v.members[n].val] = d[v.members[n].val]
    BY <1>2, TypesApart
  <2> QED BY <1>2, <2>1 DEF Meaning
<1>3. CASE v.type \notin {"object", "array"}
  BY <1>3 DEF Meaning
<1> QED BY <1>1, <1>2, <1>3

\* Equality is what the code does at one level, with itself for the members.
LEMMA EqualityUnfolds ==
  ASSUME NEW callback, NEW v \in Values
  PROVE  Equality(callback)[v] = EqualTo(v, callback, Equality(callback))
<1> DEFINE Solves(f, n) == \A u \in Values : Nesting[u] < n => f[u] = EqualTo(u, callback, f)
           P == { n \in Nat : \E f : Solves(f, n) }
<1>1. 0 \in P
  <2>1. Solves([u \in Values |-> {}], 0)
    BY Depths
  <2> QED BY <2>1
<1>2. ASSUME NEW n \in Nat, n \in P PROVE n + 1 \in P
  <2>1. PICK f : Solves(f, n)
    BY <1>2
  <2> DEFINE g == [u \in Values |-> EqualTo(u, callback, f)]
  <2>2. ASSUME NEW u \in Values, Nesting[u] < n + 1 PROVE g[u] = EqualTo(u, callback, g)
    <3>1. ASSUME u.type \in Containers, NEW m \in DOMAIN u.members
          PROVE  f[u.members[m].val] = g[u.members[m].val]
      <4>1. u.members[m].val \in Values /\ Nesting[u.members[m].val] < Nesting[u]
            /\ Nesting[u.members[m].val] \in Nat /\ Nesting[u] \in Nat
        BY <3>1, Depths
      <4>2. Nesting[u.members[m].val] < n
        BY <2>2, <4>1
      <4> QED BY <2>1, <4>1, <4>2
    <3>2. EqualTo(u, callback, f) = EqualTo(u, callback, g)
      <4> HIDE DEF g
      <4> QED BY <3>1, EqualSame
    <3> QED BY <3>2
  <2>3. \E h : Solves(h, n + 1)
    BY <2>2
  <2>4. n + 1 \in Nat
    OBVIOUS
  <2> QED BY <2>3, <2>4
<1>3. MaxNesting + 1 \in P
  <2> HIDE DEF P
  <2> QED BY <1>1, <1>2, ByDepth
<1>4. PICK f : Solves(f, MaxNesting + 1)
  BY <1>3
<1> DEFINE h == [u \in Values |-> f[u]]
<1>5. ASSUME NEW u \in Values PROVE h[u] = EqualTo(u, callback, h)
  <2>1. f[u] = EqualTo(u, callback, f)
    BY <1>4, Depths
  <2>2. ASSUME u.type \in Containers, NEW m \in DOMAIN u.members
        PROVE  f[u.members[m].val] = h[u.members[m].val]
    BY <2>2, Depths
  <2>3. EqualTo(u, callback, f) = EqualTo(u, callback, h)
    <3> HIDE DEF h
    <3> QED BY <2>2, EqualSame
  <2> QED BY <2>1, <2>3
<1>6. h = [u \in Values |-> EqualTo(u, callback, h)]
  BY <1>5
<1>7. Equality(callback) = CHOOSE f_ : f_ = [u \in Values |-> EqualTo(u, callback, f_)]
  BY DEF Equality, EqualTo
<1>8. Equality(callback) = [u \in Values |-> EqualTo(u, callback, Equality(callback))]
  <2> HIDE DEF h, Solves, P
  <2> QED BY <1>6, <1>7
<1> QED BY <1>8

\* So is the meaning of a value.
LEMMA SensesUnfolds ==
  ASSUME NEW callback, NEW v \in Values
  PROVE  Senses(callback)[v] = Meaning(v, callback, Senses(callback))
<1> DEFINE Solves(f, n) == \A u \in Values : Nesting[u] < n => f[u] = Meaning(u, callback, f)
           P == { n \in Nat : \E f : Solves(f, n) }
<1>1. 0 \in P
  <2>1. Solves([u \in Values |-> {}], 0)
    BY Depths
  <2> QED BY <2>1
<1>2. ASSUME NEW n \in Nat, n \in P PROVE n + 1 \in P
  <2>1. PICK f : Solves(f, n)
    BY <1>2
  <2> DEFINE g == [u \in Values |-> Meaning(u, callback, f)]
  <2>2. ASSUME NEW u \in Values, Nesting[u] < n + 1 PROVE g[u] = Meaning(u, callback, g)
    <3>1. ASSUME u.type \in Containers, NEW m \in DOMAIN u.members
          PROVE  f[u.members[m].val] = g[u.members[m].val]
      <4>1. u.members[m].val \in Values /\ Nesting[u.members[m].val] < Nesting[u]
            /\ Nesting[u.members[m].val] \in Nat /\ Nesting[u] \in Nat
        BY <3>1, Depths
      <4>2. Nesting[u.members[m].val] < n
        BY <2>2, <4>1
      <4> QED BY <2>1, <4>1, <4>2
    <3>2. Meaning(u, callback, f) = Meaning(u, callback, g)
      <4> HIDE DEF g
      <4> QED BY <3>1, MeaningSame
    <3> QED BY <3>2
  <2>3. \E h : Solves(h, n + 1)
    BY <2>2
  <2>4. n + 1 \in Nat
    OBVIOUS
  <2> QED BY <2>3, <2>4
<1>3. MaxNesting + 1 \in P
  <2> HIDE DEF P
  <2> QED BY <1>1, <1>2, ByDepth
<1>4. PICK f : Solves(f, MaxNesting + 1)
  BY <1>3
<1> DEFINE h == [u \in Values |-> f[u]]
<1>5. ASSUME NEW u \in Values PROVE h[u] = Meaning(u, callback, h)
  <2>1. f[u] = Meaning(u, callback, f)
    BY <1>4, Depths
  <2>2. ASSUME u.type \in Containers, NEW m \in DOMAIN u.members
        PROVE  f[u.members[m].val] = h[u.members[m].val]
    BY <2>2, Depths
  <2>3. Meaning(u, callback, f) = Meaning(u, callback, h)
    <3> HIDE DEF h
    <3> QED BY <2>2, MeaningSame
  <2> QED BY <2>1, <2>3
<1>6. h = [u \in Values |-> Meaning(u, callback, h)]
  BY <1>5
<1>7. Senses(callback) = CHOOSE f_ : f_ = [u \in Values |-> Meaning(u, callback, f_)]
  BY DEF Senses
<1>8. Senses(callback) = [u \in Values |-> Meaning(u, callback, Senses(callback))]
  <2> HIDE DEF h, Solves, P
  <2> QED BY <1>6, <1>7
<1> QED BY <1>8

\* The same for the operators that the properties use.
LEMMA EqualUnfolds ==
  ASSUME NEW a \in Values, NEW b \in Values, NEW callback
  PROVE  Equal(a, b, callback) <=> ValuesEqual(a, b, callback, Equality(callback))
<1>1. Equality(callback)[a] = EqualTo(a, callback, Equality(callback))
  BY EqualityUnfolds
<1> QED BY <1>1 DEF Equal, EqualTo

\* The meaning of one value,
LEMMA SenseUnfolds ==
  ASSUME NEW v \in Values, NEW callback
  PROVE  Sense(v, callback) = Meaning(v, callback, Senses(callback))
  BY SensesUnfolds DEF Sense

\* A scalar means itself.
LEMMA SenseOfScalar ==
  ASSUME NEW v \in Values, v.type \notin Containers, NEW callback
  PROVE  Sense(v, callback) = v
<1>1. v.type # "array" /\ v.type # "object"
  BY TypesApart
<1> QED BY <1>1, SenseUnfolds DEF Meaning

\* of an array: the meanings of its members in order,
LEMMA SenseOfArray ==
  ASSUME NEW v \in Values, v.type = "array", NEW callback
  PROVE  Sense(v, callback) =
           [type |-> "array",
            members |-> [n \in DOMAIN v.members |-> Sense(v.members[n].val, callback)]]
  BY SenseUnfolds DEF Meaning, Sense

\* and of an object: a function from the keys that count.
LEMMA SenseOfObject ==
  ASSUME NEW v \in Values, v.type = "object", NEW callback
  PROVE  Sense(v, callback) =
           [type |-> "object",
            members |-> [k \in CountedKeys(v, callback) |-> Sense(Found(v, k), callback)]]
  BY SenseUnfolds DEF Meaning, Sense

\* DistinctKeys speaks of the value itself as well.
LEMMA OwnKeysDistinct ==
  ASSUME NEW v \in Values, v.type = "object", DistinctKeys(v)
  PROVE  \A m, n \in DOMAIN v.members : v.members[m].key = v.members[n].key => m = n
<1>1. v \in ContainersIn(v)
  BY WithinFacts, TypesApart DEF ContainersIn
<1> QED BY <1>1 DEF DistinctKeys

\* A string without NUL is all seen by strcmp.
LEMMA CStringWhole ==
  ASSUME NEW v \in Values, v.type = "string", NoNul(v) PROVE CString(v.str) = v.str
<1>1. v.str \in Seq(STRING)
  BY ValueShape, TypesApart
<1>2. v \in Within[v]
  BY WithinFacts
<1>3. { m \in DOMAIN v.str : v.str[m] = "nul" } = {}
  BY <1>2 DEF NoNul
<1>4. CString(v.str) = SubSeq(v.str, 1, Len(v.str))
  BY <1>3 DEF CString
<1> QED BY <1>1, <1>4

\* Scalars that are equal are the same.
LEMMA EqualScalars ==
  ASSUME NEW a \in Values, NEW b \in Values, NEW callback, a.type \notin Containers,
         NoNul(a), NoNul(b)
  PROVE  Equal(a, b, callback) <=> a # NullPtr /\ a = b
<1>1. Equal(a, b, callback) <=> ValuesEqual(a, b, callback, Equality(callback))
  BY EqualUnfolds
<1>2. ASSUME Equal(a, b, callback) PROVE a # NullPtr /\ a = b
  <2>1. a # NullPtr /\ b # NullPtr /\ a.type = b.type
    BY <1>1, <1>2 DEF ValuesEqual
  <2>2. CASE a = Nil
    BY <2>1, <2>2, ValueShape, TypesApart
  <2>3. CASE a.type = "number"
    <3>1. a.num = b.num
      BY <1>1, <1>2, <2>3 DEF ValuesEqual
    <3>2. a = [type |-> "number", num |-> a.num] /\ b = [type |-> "number", num |-> b.num]
      BY <2>1, <2>3, ValueShape, TypesApart
    <3> QED BY <2>1, <3>1, <3>2
  <2>4. CASE a.type = "bool"
    <3>1. a.bool = b.bool
      BY <1>1, <1>2, <2>4, TypesApart DEF ValuesEqual
    <3>2. a = [type |-> "bool", bool |-> a.bool] /\ b = [type |-> "bool", bool |-> b.bool]
      BY <2>1, <2>4, ValueShape, TypesApart
    <3> QED BY <2>1, <3>1, <3>2
  <2>5. CASE a.type = "string"
    <3>1. CString(a.str) = CString(b.str)
      BY <1>1, <1>2, <2>5, TypesApart DEF ValuesEqual
    <3>2. a = [type |-> "string", str |-> a.str] /\ b = [type |-> "string", str |-> b.str]
      BY <2>1, <2>5, ValueShape, TypesApart
    <3>3. a.str = b.str
      BY <2>1, <2>5, <3>1, CStringWhole
    <3> QED BY <2>1, <3>2, <3>3
  <2> QED BY <2>1, <2>2, <2>3, <2>4, <2>5, ValueShape
<1>3. ASSUME a # NullPtr, a = b PROVE ValuesEqual(a, b, callback, Equality(callback))
  <2>1. a = Nil \/ a.type \in {"number", "bool", "string"}
    BY <1>3, ValueShape
  <2>2. CASE a = Nil
    BY <1>3, <2>2, TypesApart DEF ValuesEqual
  <2>3. CASE a.type = "number"
    BY <1>3, <2>3, TypesApart DEF ValuesEqual
  <2>4. CASE a.type = "bool"
    BY <1>3, <2>4, TypesApart DEF ValuesEqual
  <2>5. CASE a.type = "string"
    BY <1>3, <2>5, TypesApart DEF ValuesEqual
  <2> QED BY <2>1, <2>2, <2>3, <2>4, <2>5
<1> QED BY <1>1, <1>2, <1>3

\* Containers that are equal are so member by member.
LEMMA EqualContainers ==
  ASSUME NEW a \in Values, NEW b \in Values, NEW callback, a.type \in Containers
  PROVE  Equal(a, b, callback) <=>
           /\ b.type = a.type /\ Len(b.members) = Len(a.members)
           /\ \A n \in DOMAIN a.members :
                LET m == a.members[n]
                    other == MemberFor(b, n, m.key)
                IN /\ m.val # NullPtr
                   /\ \/ a.type = "object" /\ Passed(m.key, callback)
                      \/ other # NullPtr /\ Equal(m.val, other, callback)
<1>1. Equal(a, b, callback) <=> ValuesEqual(a, b, callback, Equality(callback))
  BY EqualUnfolds
<1>2. a # NullPtr /\ a.type \notin {"number", "string", "bool", "null"}
  BY TypesApart
<1>3. b.type = a.type => /\ b # NullPtr
                         /\ SizeOf(a) = Len(a.members) /\ SizeOf(b) = Len(b.members)
  BY <1>2, TypesApart DEF SizeOf
<1>4. MembersEqual(a, b, callback, Equality(callback)) <=>
        \A n \in DOMAIN a.members :
          LET m == a.members[n]
              other == MemberFor(b, n, m.key)
          IN /\ m.val # NullPtr
             /\ \/ a.type = "object" /\ Passed(m.key, callback)
                \/ other # NullPtr /\ Equal(m.val, other, callback)
  BY DEF MembersEqual, Equal
<1>5. ValuesEqual(a, b, callback, Equality(callback)) <=>
        /\ b.type = a.type /\ Len(b.members) = Len(a.members)
        /\ MembersEqual(a, b, callback, Equality(callback))
  <2>1. ASSUME ValuesEqual(a, b, callback, Equality(callback))
        PROVE  /\ b.type = a.type /\ Len(b.members) = Len(a.members)
               /\ MembersEqual(a, b, callback, Equality(callback))
    BY <1>2, <1>3, <2>1 DEF ValuesEqual
  <2>2. ASSUME b.type = a.type, Len(b.members) = Len(a.members),
               MembersEqual(a, b, callback, Equality(callback))
        PROVE  ValuesEqual(a, b, callback, Equality(callback))
    <3>1. b # NullPtr /\ SizeOf(a) = SizeOf(b)
      BY <1>3, <2>2
    <3> QED BY <1>2, <2>2, <3>1 DEF ValuesEqual
  <2> QED BY <2>1, <2>2
<1> QED BY <1>1, <1>4, <1>5

\* The member of an array that the code compares with is that at its index.
LEMMA ArrayMember ==
  ASSUME NEW b \in Values, b.type = "array", NEW n \in DOMAIN b.members, NEW k
  PROVE  MemberFor(b, n, k) = b.members[n].val
<1>1. n <= Len(b.members) /\ b.type # "object"
  BY ContainerFacts, TypesApart
<1> QED BY <1>1 DEF MemberFor

\* Members of arrays that are equal.
LEMMA EqualArrays ==
  ASSUME NEW a \in Values, NEW b \in Values, NEW callback, a.type = "array"
  PROVE  Equal(a, b, callback) <=>
           /\ b.type = "array" /\ DOMAIN b.members = DOMAIN a.members
           /\ \A n \in DOMAIN a.members :
                /\ a.members[n].val # NullPtr /\ b.members[n].val # NullPtr
                /\ Equal(a.members[n].val, b.members[n].val, callback)
<1>0. a.type \in Containers /\ a.type # "object"
  BY TypesApart
<1>1. b.type = "array" => (Len(b.members) = Len(a.members) <=> DOMAIN b.members = DOMAIN a.members)
  <2>1. ASSUME b.type = "array"
        PROVE  /\ Len(a.members) \in Nat /\ DOMAIN a.members = 1..Len(a.members)
               /\ Len(b.members) \in Nat /\ DOMAIN b.members = 1..Len(b.members)
    BY <1>0, <2>1, ContainerFacts
  <2>2. \A x, y \in Nat : 1..x = 1..y => x = y
    OBVIOUS
  <2> QED BY <2>1, <2>2
<1>2. ASSUME b.type = "array", DOMAIN b.members = DOMAIN a.members, NEW n \in DOMAIN a.members
      PROVE  MemberFor(b, n, a.members[n].key) = b.members[n].val
  BY <1>2, ArrayMember
<1> QED BY <1>0, <1>1, <1>2, EqualContainers

\* Members of objects that are equal.
LEMMA EqualObjects ==
  ASSUME NEW a \in Values, NEW b \in Values, NEW callback, a.type = "object"
  PROVE  Equal(a, b, callback) <=>
           /\ b.type = "object" /\ Len(b.members) = Len(a.members)
           /\ \A n \in DOMAIN a.members :
                /\ a.members[n].val # NullPtr
                /\ \/ Passed(a.members[n].key, callback)
                   \/ /\ Found(b, a.members[n].key) # NullPtr
                      /\ Equal(a.members[n].val, Found(b, a.members[n].key), callback)
<1>1. a.type \in Containers
  BY TypesApart
<1>2. \A n, k : b.type = "object" => MemberFor(b, n, k) = Found(b, k)
  BY DEF MemberFor
<1> QED BY <1>1, <1>2, EqualContainers

\* A key that counts is that of a member, and what is found under it is one.
LEMMA CountedKey ==
  ASSUME NEW v \in Values, v.type = "object", NEW callback, NEW k
  PROVE  /\ k \in CountedKeys(v, callback) =>
              /\ ~Passed(k, callback)
              /\ \E n \in DOMAIN v.members : v.members[n].key = k /\ Found(v, k) = v.members[n].val
         /\ \A n \in DOMAIN v.members :
              v.members[n].key = k /\ ~Passed(k, callback) => k \in CountedKeys(v, callback)
         /\ Found(v, k) # NullPtr /\ ~Passed(k, callback) => k \in CountedKeys(v, callback)
<1>0. v.type \in Containers
  BY TypesApart
<1>1. ASSUME k \in CountedKeys(v, callback)
      PROVE  /\ ~Passed(k, callback)
             /\ \E n \in DOMAIN v.members : v.members[n].key = k /\ Found(v, k) = v.members[n].val
  <2>1. PICK n \in DOMAIN v.members : v.members[n].key = k /\ ~Passed(k, callback)
    BY <1>1 DEF CountedKeys
  <2> QED BY <1>0, <2>1, FoundMember
<1>2. ASSUME NEW n \in DOMAIN v.members, v.members[n].key = k, ~Passed(k, callback)
      PROVE  k \in CountedKeys(v, callback)
  BY <1>2 DEF CountedKeys
<1>3. ASSUME Found(v, k) # NullPtr, ~Passed(k, callback) PROVE k \in CountedKeys(v, callback)
  <2>1. PICK n \in DOMAIN v.members : v.members[n].key = k
    BY <1>0, <1>3, FoundMember
  <2> QED BY <1>2, <1>3, <2>1
<1> QED BY <1>1, <1>2, <1>3

\* Two values that are equal both ways round mean the same, when their
\* members that are do.
LEMMA TwoWaysStep ==
  ASSUME NEW a \in Values, NEW b \in Values, NEW callback,
         Equal(a, b, callback), Equal(b, a, callback), NoNul(a), NoNul(b),
         a.type \in Containers =>
           \A n \in DOMAIN a.members, v \in Values :
             /\ Equal(a.members[n].val, v, callback) /\ Equal(v, a.members[n].val, callback)
             /\ NoNul(a.members[n].val) /\ NoNul(v)
             => Sense(a.members[n].val, callback) = Sense(v, callback)
  PROVE  Sense(a, callback) = Sense(b, callback)
<1>1. CASE a.type \notin Containers
  BY <1>1, EqualScalars
<1>2. CASE a.type = "array"
  <2>0. a.type \in Containers
    BY <1>2, TypesApart
  <2>1. b.type = "array" /\ DOMAIN b.members = DOMAIN a.members /\ b.type \in Containers
    BY <1>2, <2>0, EqualArrays
  <2>2. ASSUME NEW n \in DOMAIN a.members
        PROVE  Sense(a.members[n].val, callback) = Sense(b.members[n].val, callback)
    <3>1. Equal(a.members[n].val, b.members[n].val, callback)
      BY <1>2, EqualArrays
    <3>2. Equal(b.members[n].val, a.members[n].val, callback)
      BY <1>2, <2>1, EqualArrays
    <3>3. NoNul(a.members[n].val) /\ NoNul(b.members[n].val) /\ b.members[n].val \in Values
      BY <2>0, <2>1, OfMembers, ContainerFacts
    <3> QED BY <2>0, <3>1, <3>2, <3>3
  <2> QED BY <1>2, <2>1, <2>2, SenseOfArray
<1>3. CASE a.type = "object"
  <2>0. a.type \in Containers
    BY <1>3, TypesApart
  <2>1. b.type = "object" /\ b.type \in Containers
    BY <1>3, <2>0, EqualObjects
  <2>2. ASSUME NEW k \in CountedKeys(a, callback)
        PROVE  k \in CountedKeys(b, callback) /\ Equal(Found(a, k), Found(b, k), callback)
    <3>1. PICK n \in DOMAIN a.members : a.members[n].key = k /\ Found(a, k) = a.members[n].val
      BY <1>3, CountedKey
    <3>2. ~Passed(k, callback)
      BY <1>3, CountedKey
    <3>3. Found(b, k) # NullPtr /\ Equal(Found(a, k), Found(b, k), callback)
      BY <1>3, <3>1, <3>2, EqualObjects
    <3> QED BY <2>1, <3>2, <3>3, CountedKey
  <2>3. ASSUME NEW k \in CountedKeys(b, callback)
        PROVE  k \in CountedKeys(a, callback) /\ Equal(Found(b, k), Found(a, k), callback)
    <3>1. PICK n \in DOMAIN b.members : b.members[n].key = k /\ Found(b, k) = b.members[n].val
      BY <2>1, CountedKey
    <3>2. ~Passed(k, callback)
      BY <2>1, CountedKey
    <3>3. Found(a, k) # NullPtr /\ Equal(Found(b, k), Found(a, k), callback)
      BY <2>1, <3>1, <3>2, EqualObjects
    <3> QED BY <1>3, <3>2, <3>3, CountedKey
  <2>4. CountedKeys(a, callback) = CountedKeys(b, callback)
    BY <2>2, <2>3
  <2>5. ASSUME NEW k \in CountedKeys(a, callback)
        PROVE  Sense(Found(a, k), callback) = Sense(Found(b, k), callback)
    <3>1. PICK n \in DOMAIN a.members : Found(a, k) = a.members[n].val
      BY <1>3, CountedKey
    <3>2. PICK m \in DOMAIN b.members : Found(b, k) = b.members[m].val
      BY <2>1, <2>4, CountedKey
    <3>3. NoNul(a.members[n].val) /\ NoNul(b.members[m].val) /\ b.members[m].val \in Values
      BY <2>0, <2>1, OfMembers, ContainerFacts
    <3>4. Equal(Found(a, k), Found(b, k), callback) /\ Equal(Found(b, k), Found(a, k), callback)
      BY <2>2, <2>3
    <3> QED BY <2>0, <3>1, <3>2, <3>3, <3>4
  <2>6. [k \in CountedKeys(a, callback) |-> Sense(Found(a, k), callback)] =
        [k \in CountedKeys(b, callback) |-> Sense(Found(b, k), callback)]
    BY <2>4, <2>5
  <2> QED BY <1>3, <2>1, <2>6, SenseOfObject
<1> QED BY <1>1, <1>2, <1>3 DEF Containers

\* By induction on nesting, values equal in both orders mean the same.
LEMMA TwoWays ==
  ASSUME NEW a \in Values, NEW b \in Values, NEW callback,
         Equal(a, b, callback), Equal(b, a, callback), NoNul(a), NoNul(b)
  PROVE  Sense(a, callback) = Sense(b, callback)
<1> DEFINE Good(n) ==
             \A u, v \in Values :
               /\ Nesting[u] < n /\ Equal(u, v, callback) /\ Equal(v, u, callback)
               /\ NoNul(u) /\ NoNul(v)
               => Sense(u, callback) = Sense(v, callback)
           P == { n \in Nat : Good(n) }
<1>1. 0 \in P
  BY Depths
<1>2. ASSUME NEW n \in Nat, n \in P PROVE n + 1 \in P
  <2>1. ASSUME NEW u \in Values, NEW v \in Values, Nesting[u] < n + 1,
               Equal(u, v, callback), Equal(v, u, callback), NoNul(u), NoNul(v)
        PROVE  Sense(u, callback) = Sense(v, callback)
    <3>1. ASSUME u.type \in Containers, NEW m \in DOMAIN u.members
          PROVE  u.members[m].val \in Values /\ Nesting[u.members[m].val] < n
      <4>1. u.members[m].val \in Values /\ Nesting[u.members[m].val] < Nesting[u]
            /\ Nesting[u.members[m].val] \in Nat /\ Nesting[u] \in Nat
        BY <3>1, Depths
      <4> QED BY <2>1, <4>1
    <3>2. Good(n)
      BY <1>2
    <3> QED BY <2>1, <3>1, <3>2, TwoWaysStep
  <2>2. Good(n + 1)
    BY <2>1
  <2>3. n + 1 \in Nat
    OBVIOUS
  <2> QED BY <2>2, <2>3
<1>3. MaxNesting + 1 \in P
  <2> HIDE DEF P
  <2> QED BY <1>1, <1>2, ByDepth
<1> QED BY <1>3, Depths

\* Where nothing is passed over and keys are distinct there are as many keys
\* as members.
LEMMA KeyCount ==
  ASSUME NEW v \in Values, v.type = "object", DistinctKeys(v),
         NEW callback, \A k \in Keys : ~Passed(k, callback)
  PROVE  /\ IsFiniteSet(CountedKeys(v, callback))
         /\ Cardinality(CountedKeys(v, callback)) = Len(v.members)
<1> DEFINE N == Len(v.members)
           T == CountedKeys(v, callback)
           f == [n \in 1..N |-> v.members[n].key]
<1>1. /\ N \in Nat /\ DOMAIN v.members = 1..N
      /\ \A n \in DOMAIN v.members : v.members[n].key \in Keys
  BY ContainerFacts, TypesApart
<1>2. \A n \in 1..N : f[n] \in T
  BY <1>1, CountedKey
<1>3. \A k \in T : \E n \in 1..N : f[n] = k
  BY <1>1, CountedKey
<1>4. \A m, n \in 1..N : f[m] = f[n] => m = n
  BY <1>1, OwnKeysDistinct
<1>5. f \in [1..N -> T]
  BY <1>2
<1> HIDE DEF f, T
<1>6. DOMAIN f = 1..N
  BY <1>5
<1>7. f \in Injection(1..N, T) /\ f \in Surjection(1..N, T)
  BY <1>3, <1>4, <1>5, <1>6 DEF Injection, Surjection, IsInjective
<1>8. ExistsBijection(1..N, T)
  BY <1>7 DEF ExistsBijection, Bijection
<1>9. IsFiniteSet(1..N) /\ Cardinality(1..N) = N
  BY <1>1, FS_Interval
<1>10. IsFiniteSet(T) /\ Cardinality(T) = N
  BY <1>8, <1>9, FS_Bijection
<1> QED BY <1>10 DEF T

\* Equality without the cases that only the code knows.
Plain(v) == v # NullPtr /\ NoNullMember(v) /\ DistinctKeys(v) /\ NoNul(v)

\* Members of plain values are plain.
LEMMA PlainMembers ==
  ASSUME NEW v \in Values, v.type \in Containers, Plain(v), NEW n \in DOMAIN v.members
  PROVE  Plain(v.members[n].val)
BY OfMembers DEF Plain

\* Under each key of a plain object a plain value is found.
LEMMA PlainFound ==
  ASSUME NEW v \in Values, v.type = "object", Plain(v), NEW callback,
         NEW k \in CountedKeys(v, callback)
  PROVE  \E n \in DOMAIN v.members :
           /\ v.members[n].key = k /\ Found(v, k) = v.members[n].val
           /\ Plain(v.members[n].val) /\ v.members[n].val \in Values
<1>1. v.type \in Containers
  BY TypesApart
<1>2. PICK n \in DOMAIN v.members : v.members[n].key = k /\ Found(v, k) = v.members[n].val
  BY CountedKey
<1> QED BY <1>1, <1>2, PlainMembers, ContainerFacts

\* Plain objects with the same keys have as many members, and the other way
\* round when the keys of one are among those of the other.
LEMMA SameKeys ==
  ASSUME NEW a \in Values, NEW b \in Values, a.type = "object", b.type = "object",
         DistinctKeys(a), DistinctKeys(b), NEW callback, \A k \in Keys : ~Passed(k, callback)
  PROVE  /\ CountedKeys(a, callback) = CountedKeys(b, callback) =>
              Len(a.members) = Len(b.members)
         /\ /\ Len(a.members) = Len(b.members)
            /\ CountedKeys(a, callback) \subseteq CountedKeys(b, callback)
            => CountedKeys(a, callback) = CountedKeys(b, callback)
<1>1. /\ IsFiniteSet(CountedKeys(a, callback)) /\ IsFiniteSet(CountedKeys(b, callback))
      /\ Cardinality(CountedKeys(a, callback)) = Len(a.members)
      /\ Cardinality(CountedKeys(b, callback)) = Len(b.members)
  BY KeyCount
<1> QED BY <1>1, FS_Subset

\* Plain values are equal exactly if they mean the same, when that is so of
\* their members.
LEMMA PlainStep ==
  ASSUME NEW a \in Values, NEW b \in Values, Plain(a), Plain(b),
         NEW callback, \A k \in Keys : ~Passed(k, callback),
         a.type \in Containers =>
           \A n \in DOMAIN a.members, v \in Values :
             Plain(a.members[n].val) /\ Plain(v) =>
               (Equal(a.members[n].val, v, callback)
                  <=> Sense(a.members[n].val, callback) = Sense(v, callback))
  PROVE  Equal(a, b, callback) <=> Sense(a, callback) = Sense(b, callback)
<1>0. /\ b.type \notin Containers => Sense(b, callback) = b
      /\ b.type = "array" => Sense(b, callback).type = "array"
      /\ b.type = "object" => Sense(b, callback).type = "object"
  BY SenseOfScalar, SenseOfArray, SenseOfObject
<1>1. CASE a.type \notin Containers
  <2>1. Sense(a, callback) = a
    BY <1>1, SenseOfScalar
  <2>2. Equal(a, b, callback) <=> a = b
    BY <1>1, EqualScalars DEF Plain
  <2>3. b.type \in Containers => Sense(b, callback).type \in Containers
    BY <1>0 DEF Containers
  <2> QED BY <1>0, <1>1, <2>1, <2>2, <2>3
<1>2. CASE a.type = "array"
  <2>0. a.type \in Containers
    BY <1>2, TypesApart
  <2>1. Sense(a, callback) = Sense(b, callback) <=>
          /\ b.type = "array" /\ DOMAIN b.members = DOMAIN a.members
          /\ \A n \in DOMAIN a.members :
               Sense(a.members[n].val, callback) = Sense(b.members[n].val, callback)
    <3>1. PICK f : f = [n \in DOMAIN a.members |-> Sense(a.members[n].val, callback)]
      OBVIOUS
    <3>2. PICK g : g = [n \in DOMAIN b.members |-> Sense(b.members[n].val, callback)]
      OBVIOUS
    <3>3. f = g <=> /\ DOMAIN b.members = DOMAIN a.members
                    /\ \A n \in DOMAIN a.members :
                         Sense(a.members[n].val, callback) = Sense(b.members[n].val, callback)
      BY <3>1, <3>2
    <3>4. Sense(a, callback) = [type |-> "array", members |-> f]
      BY <1>2, <3>1, SenseOfArray
    <3>5. b.type = "array" => Sense(b, callback) = [type |-> "array", members |-> g]
      BY <3>2, SenseOfArray
    <3>6. Sense(a, callback) = Sense(b, callback) => b.type = "array"
      BY <1>0, <3>4, TypesApart DEF Containers
    <3> QED BY <3>3, <3>4, <3>5, <3>6
  <2>2. ASSUME b.type = "array", DOMAIN b.members = DOMAIN a.members, NEW n \in DOMAIN a.members
        PROVE  /\ a.members[n].val # NullPtr /\ b.members[n].val # NullPtr
               /\ Equal(a.members[n].val, b.members[n].val, callback)
                    <=> Sense(a.members[n].val, callback) = Sense(b.members[n].val, callback)
    <3>1. b.type \in Containers
      BY <2>2, TypesApart
    <3>2. Plain(a.members[n].val) /\ Plain(b.members[n].val) /\ b.members[n].val \in Values
      BY <2>0, <2>2, <3>1, PlainMembers, ContainerFacts
    <3>3. a.members[n].val # NullPtr /\ b.members[n].val # NullPtr
      BY <3>2 DEF Plain
    <3> QED BY <2>0, <3>2, <3>3
  <2> QED BY <1>2, <2>1, <2>2, EqualArrays
<1>3. CASE a.type = "object"
  <2>0. a.type \in Containers /\ DistinctKeys(a) /\ DistinctKeys(b)
    BY <1>3, TypesApart DEF Plain
  <2>1. Sense(a, callback) = Sense(b, callback) <=>
          /\ b.type = "object" /\ CountedKeys(a, callback) = CountedKeys(b, callback)
          /\ \A k \in CountedKeys(a, callback) :
               Sense(Found(a, k), callback) = Sense(Found(b, k), callback)
    <3>1. PICK f : f = [k \in CountedKeys(a, callback) |-> Sense(Found(a, k), callback)]
      OBVIOUS
    <3>2. PICK g : g = [k \in CountedKeys(b, callback) |-> Sense(Found(b, k), callback)]
      OBVIOUS
    <3>3. f = g <=> /\ CountedKeys(a, callback) = CountedKeys(b, callback)
                    /\ \A k \in CountedKeys(a, callback) :
                         Sense(Found(a, k), callback) = Sense(Found(b, k), callback)
      BY <3>1, <3>2
    <3>4. Sense(a, callback) = [type |-> "object", members |-> f]
      BY <1>3, <3>1, SenseOfObject
    <3>5. b.type = "object" => Sense(b, callback) = [type |-> "object", members |-> g]
      BY <3>2, SenseOfObject
    <3>6. Sense(a, callback) = Sense(b, callback) => b.type = "object"
      BY <1>0, <3>4, TypesApart DEF Containers
    <3> QED BY <3>3, <3>4, <3>5, <3>6
  <2>2. ASSUME b.type = "object", NEW n \in DOMAIN a.members, NEW k, k = a.members[n].key
        PROVE  /\ a.members[n].val # NullPtr /\ Found(a, k) = a.members[n].val
               /\ ~Passed(k, callback) /\ k \in CountedKeys(a, callback)
               /\ k \in CountedKeys(b, callback) <=> Found(b, k) # NullPtr
               /\ k \in CountedKeys(b, callback) =>
                    (Equal(a.members[n].val, Found(b, k), callback)
                       <=> Sense(Found(a, k), callback) = Sense(Found(b, k), callback))
    <3>1. k \in Keys /\ ~Passed(k, callback)
      BY <2>0, <2>2, ContainerFacts
    <3>2. k \in CountedKeys(a, callback)
      BY <1>3, <2>2, <3>1, CountedKey
    <3>3. Found(a, k) = a.members[n].val
      BY <1>3, <2>0, <2>2, OwnKeysDistinct, FoundOnly
    <3>4. Plain(a.members[n].val) /\ a.members[n].val # NullPtr
      BY <2>0, PlainMembers DEF Plain
    <3>5. ASSUME k \in CountedKeys(b, callback)
          PROVE  Found(b, k) # NullPtr /\ Found(b, k) \in Values /\ Plain(Found(b, k))
      <4>1. PICK m \in DOMAIN b.members :
              /\ Found(b, k) = b.members[m].val
              /\ Plain(b.members[m].val) /\ b.members[m].val \in Values
        BY <2>2, <3>5, PlainFound
      <4> QED BY <4>1 DEF Plain
    <3>6. Found(b, k) # NullPtr => k \in CountedKeys(b, callback)
      BY <2>2, <3>1, CountedKey
    <3> QED BY <2>0, <3>1, <3>2, <3>3, <3>4, <3>5, <3>6
  <2>3. ASSUME Equal(a, b, callback) PROVE Sense(a, callback) = Sense(b, callback)
    <3>1. b.type = "object" /\ Len(b.members) = Len(a.members)
      BY <1>3, <2>3, EqualObjects
    <3>2. ASSUME NEW k \in CountedKeys(a, callback)
          PROVE  /\ k \in CountedKeys(b, callback)
                 /\ Sense(Found(a, k), callback) = Sense(Found(b, k), callback)
      <4>1. PICK n \in DOMAIN a.members : a.members[n].key = k
        BY <1>3, CountedKey
      <4>2. Found(b, k) # NullPtr /\ Equal(a.members[n].val, Found(b, k), callback)
        BY <1>3, <2>2, <2>3, <3>1, <4>1, EqualObjects
      <4> QED BY <2>2, <3>1, <4>1, <4>2
    <3>3. CountedKeys(a, callback) = CountedKeys(b, callback)
      BY <1>3, <2>0, <3>1, <3>2, SameKeys
    <3> QED BY <2>1, <3>1, <3>2, <3>3
  <2>4. ASSUME Sense(a, callback) = Sense(b, callback) PROVE Equal(a, b, callback)
    <3>1. b.type = "object" /\ CountedKeys(a, callback) = CountedKeys(b, callback)
      BY <2>1, <2>4
    <3>2. Len(b.members) = Len(a.members)
      BY <1>3, <2>0, <3>1, SameKeys
    <3>3. ASSUME NEW n \in DOMAIN a.members
          PROVE  /\ a.members[n].val # NullPtr
                 /\ Found(b, a.members[n].key) # NullPtr
                 /\ Equal(a.members[n].val, Found(b, a.members[n].key), callback)
      BY <2>1, <2>2, <2>4, <3>1
    <3> QED BY <1>3, <3>1, <3>2, <3>3, EqualObjects
  <2> QED BY <2>3, <2>4
<1> QED BY <1>1, <1>2, <1>3 DEF Containers

\* By induction on nesting, plain values are equal exactly if they mean the
\* same.
LEMMA PlainEquality ==
  ASSUME NEW a \in Values, NEW b \in Values, Plain(a), Plain(b),
         NEW callback, \A k \in Keys : ~Passed(k, callback)
  PROVE  Equal(a, b, callback) <=> Sense(a, callback) = Sense(b, callback)
<1> DEFINE Good(n) ==
             \A u, v \in Values :
               Nesting[u] < n /\ Plain(u) /\ Plain(v) =>
                 (Equal(u, v, callback) <=> Sense(u, callback) = Sense(v, callback))
           P == { n \in Nat : Good(n) }
<1>1. 0 \in P
  BY Depths
<1>2. ASSUME NEW n \in Nat, n \in P PROVE n + 1 \in P
  <2>1. ASSUME NEW u \in Values, NEW v \in Values, Nesting[u] < n + 1, Plain(u), Plain(v)
        PROVE  Equal(u, v, callback) <=> Sense(u, callback) = Sense(v, callback)
    <3>1. ASSUME u.type \in Containers, NEW m \in DOMAIN u.members
          PROVE  u.members[m].val \in Values /\ Nesting[u.members[m].val] < n
      <4>1. u.members[m].val \in Values /\ Nesting[u.members[m].val] < Nesting[u]
            /\ Nesting[u.members[m].val] \in Nat /\ Nesting[u] \in Nat
        BY <3>1, Depths
      <4> QED BY <2>1, <4>1
    <3>2. Good(n)
      BY <1>2
    <3> QED BY <2>1, <3>1, <3>2, PlainStep
  <2>2. Good(n + 1)
    BY <2>1
  <2>3. n + 1 \in Nat
    OBVIOUS
  <2> QED BY <2>2, <2>3
<1>3. MaxNesting + 1 \in P
  <2> HIDE DEF P
  <2> QED BY <1>1, <1>2, ByDepth
<1> QED BY <1>3, Depths

\* Where nothing is passed over a value with a NULL in it equals nothing.
LEMMA EqualNoNull ==
  ASSUME NEW a \in Values, NEW b \in Values, Equal(a, b, cb), NoFilter, cb \in [Keys -> Int]
  PROVE  a # NullPtr /\ NoNullMember(a)
<1> DEFINE Good(n) ==
             \A u, v \in Values : Nesting[u] < n /\ Equal(u, v, cb) => NoNullMember(u)
           P == { n \in Nat : Good(n) }
<1>1. 0 \in P
  BY Depths
<1>2. ASSUME NEW n \in Nat, n \in P PROVE n + 1 \in P
  <2>1. ASSUME NEW u \in Values, NEW v \in Values, Nesting[u] < n + 1, Equal(u, v, cb),
               NEW w \in ContainersIn(u), NEW m \in MembersOf(w)
        PROVE  m.val # NullPtr
    <3>1. u.type \in Containers
      BY WithinFacts DEF ContainersIn
    <3>2. ASSUME NEW j \in DOMAIN u.members
          PROVE  /\ u.members[j].val # NullPtr /\ u.members[j].val \in Values
                 /\ NoNullMember(u.members[j].val)
      <4>1. u.members[j].val \in Values /\ Nesting[u.members[j].val] < Nesting[u]
            /\ Nesting[u.members[j].val] \in Nat /\ Nesting[u] \in Nat
        BY <3>1, Depths
      <4>2. Nesting[u.members[j].val] < n
        BY <2>1, <4>1
      <4>3. ~Passed(u.members[j].key, cb)
        BY <3>1, <3>2, ContainerFacts DEF NoFilter
      <4>4. PICK k, o : k = u.members[j].key /\ o = MemberFor(v, j, k)
        OBVIOUS
      <4>5. v.type = u.type /\ Len(v.members) = Len(u.members)
            /\ u.members[j].val # NullPtr /\ o # NullPtr /\ Equal(u.members[j].val, o, cb)
        BY <2>1, <3>1, <4>3, <4>4, EqualContainers
      <4>6. o \in Values
        <5>1. CASE v.type = "object"
          <6>1. o = Found(v, k)
            BY <4>4, <5>1 DEF MemberFor
          <6>2. PICK x \in DOMAIN v.members : o = v.members[x].val
            BY <3>1, <4>5, <6>1, FoundMember
          <6> QED BY <3>1, <4>5, <6>2, ContainerFacts
        <5>2. CASE v.type # "object"
          <6>1. v.type = "array" /\ j \in DOMAIN v.members
            BY <3>1, <4>5, <5>2, ContainerFacts DEF Containers
          <6> QED BY <3>1, <4>4, <4>5, <6>1, ArrayMember, ContainerFacts
        <5> QED BY <5>1, <5>2
      <4> QED BY <1>2, <4>1, <4>2, <4>5, <4>6
    <3>3. CASE w = u
      BY <3>2, <3>3 DEF MembersOf
    <3>4. CASE w # u
      <4>1. PICK j \in DOMAIN u.members : w \in Within[u.members[j].val]
        BY <3>1, <3>4, WithinFacts DEF ContainersIn
      <4>2. w \in ContainersIn(u.members[j].val)
        BY <4>1 DEF ContainersIn
      <4> QED BY <3>2, <4>2 DEF NoNullMember
    <3> QED BY <3>3, <3>4
  <2>2. Good(n + 1)
    BY <2>1 DEF NoNullMember
  <2>3. n + 1 \in Nat
    OBVIOUS
  <2> QED BY <2>2, <2>3
<1>3. MaxNesting + 1 \in P
  <2> HIDE DEF P
  <2> QED BY <1>1, <1>2, ByDepth
<1>4. a # NullPtr
  BY EqualUnfolds DEF ValuesEqual
<1> QED BY <1>3, <1>4, Depths

\* A value whose members have distinct keys against itself.
LEMMA AgainstItself ==
  ASSUME NEW v \in Values, cb \in [Keys -> Int], NoFilter, NoNul(v),
         v.type \in Containers => \A m \in MembersOf(v) : DistinctKeys(m.val)
  PROVE  Equal(v, v, cb) <=> v # NullPtr /\ NoNullMember(v) /\ HidesNothing(v)
<1>0. \A k \in Keys : ~Passed(k, cb)
  BY DEF NoFilter
<1>1. CASE v.type \notin Containers
  <2>1. ContainersIn(v) = {}
    BY <1>1, WithinFacts DEF ContainersIn
  <2> QED BY <1>1, <2>1, EqualScalars DEF NoNullMember, HidesNothing
<1>2. CASE v.type \in Containers
  <2>1. ASSUME NEW n \in DOMAIN v.members
        PROVE  /\ v.members[n] \in MembersOf(v) /\ v.members[n].val \in Values
               /\ NoNul(v.members[n].val) /\ DistinctKeys(v.members[n].val)
               /\ NoNullMember(v) => Plain(v.members[n].val)
    <3>1. v.members[n] \in MembersOf(v)
      BY DEF MembersOf
    <3>2. /\ v.members[n].val \in Values /\ NoNul(v.members[n].val)
          /\ DistinctKeys(v.members[n].val)
      BY <1>2, <3>1, ContainerFacts, OfMembers
    <3> QED BY <1>2, <3>1, <3>2, OfMembers DEF Plain
  \* Below the members no key stands twice.
  <2>2. ASSUME NEW u \in ContainersIn(v), u # v, u.type = "object", NEW m \in MembersOf(u)
        PROVE  Found(u, m.key) = m.val
    <3>1. PICK n \in DOMAIN v.members : u \in Within[v.members[n].val]
      BY <1>2, <2>2, WithinFacts DEF ContainersIn
    <3>2. u \in ContainersIn(v.members[n].val)
      BY <2>2, <3>1 DEF ContainersIn
    <3>3. u \in Values /\ u.type \in Containers
      BY <2>2, WithinValues DEF ContainersIn
    <3>4. \A x, j \in DOMAIN u.members : u.members[x].key = u.members[j].key => x = j
      BY <2>1, <2>2, <3>2 DEF DistinctKeys
    <3>5. PICK x \in DOMAIN u.members : m = u.members[x]
      BY DEF MembersOf
    <3> QED BY <3>3, <3>4, <3>5, FoundOnly
  <2>3. v \in ContainersIn(v)
    BY <1>2, WithinFacts DEF ContainersIn
  <2>4. HidesNothing(v) <=>
          (v.type = "object" => \A n \in DOMAIN v.members :
             Sense(v.members[n].val, cb) = Sense(Found(v, v.members[n].key), cb))
    <3>1. ASSUME HidesNothing(v), v.type = "object", NEW n \in DOMAIN v.members
          PROVE  Sense(v.members[n].val, cb) = Sense(Found(v, v.members[n].key), cb)
      BY <2>1, <2>3, <3>1 DEF HidesNothing
    <3>2. ASSUME v.type = "object" => \A n \in DOMAIN v.members :
                   Sense(v.members[n].val, cb) = Sense(Found(v, v.members[n].key), cb),
                 NEW u \in ContainersIn(v), u.type = "object", NEW m \in MembersOf(u)
          PROVE  Sense(m.val, cb) = Sense(Found(u, m.key), cb)
      <4>1. CASE u = v
        BY <3>2, <4>1 DEF MembersOf
      <4>2. CASE u # v
        BY <2>2, <3>2, <4>2
      <4> QED BY <4>1, <4>2
    <3> QED BY <3>1, <3>2 DEF HidesNothing
  <2>5. v # NullPtr
    BY <1>2, TypesApart
  <2>6. Equal(v, v, cb) => NoNullMember(v)
    BY EqualNoNull
  <2>7. ASSUME NoNullMember(v), v.type = "array" PROVE Equal(v, v, cb)
    <3>1. ASSUME NEW n \in DOMAIN v.members
          PROVE  v.members[n].val # NullPtr /\ Equal(v.members[n].val, v.members[n].val, cb)
      <4>1. Plain(v.members[n].val) /\ v.members[n].val \in Values
        BY <2>1, <2>7
      <4> QED BY <1>0, <4>1, PlainEquality DEF Plain
    <3> QED BY <2>7, <3>1, EqualArrays
  <2>8. ASSUME NoNullMember(v), v.type = "object"
        PROVE  Equal(v, v, cb) <=>
                 \A n \in DOMAIN v.members :
                   Sense(v.members[n].val, cb) = Sense(Found(v, v.members[n].key), cb)
    <3>1. ASSUME NEW n \in DOMAIN v.members
          PROVE  /\ v.members[n].val # NullPtr /\ Found(v, v.members[n].key) # NullPtr
                 /\ ~Passed(v.members[n].key, cb)
                 /\ Equal(v.members[n].val, Found(v, v.members[n].key), cb) <=>
                      Sense(v.members[n].val, cb) = Sense(Found(v, v.members[n].key), cb)
      <4>1. PICK j \in DOMAIN v.members : Found(v, v.members[n].key) = v.members[j].val
        BY <1>2, FoundMember
      <4>2. Plain(v.members[n].val) /\ v.members[n].val \in Values
            /\ Plain(v.members[j].val) /\ v.members[j].val \in Values
        BY <2>1, <2>8
      <4>3. ~Passed(v.members[n].key, cb)
        BY <1>0, <1>2, ContainerFacts
      <4>4. v.members[n].val # NullPtr /\ v.members[j].val # NullPtr
        BY <4>2 DEF Plain
      <4> QED BY <1>0, <4>1, <4>2, <4>3, <4>4, PlainEquality
    <3> QED BY <2>8, <3>1, EqualObjects
  <2>9. v.type \in {"array", "object"}
    BY <1>2 DEF Containers
  <2> QED BY <2>4, <2>5, <2>6, <2>7, <2>8, <2>9, TypesApart
<1> QED BY <1>1, <1>2

-----------------------------------------------------------------------------

\* The values compared are among those given, and the call returns what the
\* comparison of them is.
VerdictInv ==
  /\ j1 \in Values /\ j2 \in Values /\ cb \in [Keys -> Int]
  /\ verdict \in {"none", Compared(j1, j2, cb)}

\* The result of a comparison is that of Equality, always.
LEMMA VerdictKept == CompareSpec => []VerdictInv
<1>1. CompareInit => VerdictInv
  BY CallbackAssumption DEF CompareInit, VerdictInv
<1>2. VerdictInv /\ [Compare]_compared => VerdictInv'
  BY DEF VerdictInv, Compare, compared
<1> QED BY <1>1, <1>2, PTL DEF CompareSpec

\* What a finished comparison returns.
LEMMA OutcomeSays ==
  ASSUME VerdictInv, verdict # "none" PROVE verdict = "0" <=> Equal(j1, j2, cb)
<1>1. "0" # "-1"
  OBVIOUS
<1> QED BY <1>1 DEF VerdictInv, Compared

\* For values without NULL members, duplicate keys and NULs lz_json_compare
\* is equality, though it looks up only the members of its first argument.
THEOREM PlainCompared == CompareSpec => []PlainIsEquality
<1>1. VerdictInv => PlainIsEquality
  <2> SUFFICES ASSUME VerdictInv, verdict # "none", NoFilter,
                      \A v \in {j1, j2} :
                        v # NullPtr /\ NoNullMember(v) /\ DistinctKeys(v) /\ NoNul(v)
               PROVE  verdict = "0" <=> Same
    BY DEF PlainIsEquality
  <2>1. j1 \in Values /\ j2 \in Values /\ Plain(j1) /\ Plain(j2)
    BY DEF VerdictInv, Plain
  <2>2. \A k \in Keys : ~Passed(k, cb)
    BY DEF VerdictInv, NoFilter
  <2>3. Equal(j1, j2, cb) <=> Same
    BY <2>1, <2>2, PlainEquality DEF Same
  <2> QED BY <2>3, OutcomeSays
<1> QED BY <1>1, VerdictKept, PTL

\* Two values that lz_json_compare finds equal in both orders have the same
\* members under the keys that count, duplicates and filters included.
THEOREM TwoWaysCompared == CompareSpec => []TwoWaysIsSame
<1>1. VerdictInv => TwoWaysIsSame
  <2> SUFFICES ASSUME VerdictInv, verdict = "0", Equal(j2, j1, cb), NoNul(j1), NoNul(j2)
               PROVE  Same
    BY DEF TwoWaysIsSame
  <2>1. j1 \in Values /\ j2 \in Values /\ Equal(j1, j2, cb)
    BY OutcomeSays DEF VerdictInv
  <2> QED BY <2>1, TwoWays DEF Same
<1> QED BY <1>1, VerdictKept, PTL

\* lz_json_compare finds a value equal to itself unless NULL stands in it or
\* a member hides an older one that differs.
THEOREM ComparedWithItself == CompareSpec => []EqualsItself
<1>1. VerdictInv => EqualsItself
  <2> SUFFICES ASSUME VerdictInv, verdict # "none", j1 = j2, NoFilter, NoNul(j1),
                      j1.type \in Containers => \A m \in MembersOf(j1) : DistinctKeys(m.val)
               PROVE  verdict = "0" <=> j1 # NullPtr /\ NoNullMember(j1) /\ HidesNothing(j1)
    BY DEF EqualsItself
  <2>1. j1 \in Values /\ cb \in [Keys -> Int]
    BY DEF VerdictInv
  <2>2. Equal(j1, j1, cb) <=> j1 # NullPtr /\ NoNullMember(j1) /\ HidesNothing(j1)
    BY <2>1, AgainstItself
  <2> QED BY <2>2, OutcomeSays
<1> QED BY <1>1, VerdictKept, PTL

-----------------------------------------------------------------------------
(* From Lua: tables and the places of a walk through them. *)

\* What may lie on the Lua stack.
Items == LuaValues \cup LuaKeys \cup {Nil}

\* k is nil or a key of t.
IsPlace(t, k) == k = Nil \/ \E i \in DOMAIN t.entries : t.entries[i].key = k

\* Entries of tables have keys and values, and no two the same key.
LEMMA TableEntries ==
  ASSUME NEW t \in Tables
  PROVE  /\ t \in LuaValues /\ t.type = "table"
         /\ Len(t.entries) \in Nat /\ DOMAIN t.entries = 1..Len(t.entries)
         /\ t.entries \in Seq([key : LuaKeys, val : LuaValues])
         /\ \A i \in DOMAIN t.entries :
              /\ t.entries[i].key \in LuaKeys /\ t.entries[i].key # Nil
              /\ t.entries[i].val \in LuaValues
         /\ \A i, j \in DOMAIN t.entries : t.entries[i].key = t.entries[j].key => i = j
<1>1. t \in LuaValues /\ t.type = "table"
  BY DEF Tables
<1>2. t.entries \in Seq([key : LuaKeys, val : LuaValues])
  BY LuaAssumption
<1>3. Len(t.entries) \in Nat /\ DOMAIN t.entries = 1..Len(t.entries)
  BY <1>2, LenProperties
<1>4. \A i \in DOMAIN t.entries : t.entries[i] \in [key : LuaKeys, val : LuaValues]
  BY <1>2, <1>3, ElementOfSeq
<1>5. \A i \in DOMAIN t.entries :
        t.entries[i].key \in LuaKeys /\ t.entries[i].key # Nil /\ t.entries[i].val \in LuaValues
  BY <1>4, LuaAssumption
<1>6. \A i, j \in DOMAIN t.entries : t.entries[i].key = t.entries[j].key => i = j
  BY LuaAssumption
<1> QED BY <1>1, <1>2, <1>3, <1>5, <1>6

\* A place in a table is before its first entry or at the entry of the key,
LEMMA PlaceFound ==
  ASSUME NEW t \in Tables, NEW k, IsPlace(t, k)
  PROVE  /\ Place(t, k) \in 0..Len(t.entries)
         /\ k = Nil => Place(t, k) = 0
         /\ k # Nil => Place(t, k) \in DOMAIN t.entries /\ t.entries[Place(t, k)].key = k
<1>1. Len(t.entries) \in Nat /\ DOMAIN t.entries = 1..Len(t.entries)
  BY TableEntries
<1>2. CASE k = Nil
  <2>1. Place(t, k) = 0
    BY <1>2 DEF Place
  <2> QED BY <1>1, <1>2, <2>1
<1>3. CASE k # Nil
  <2>1. \E i \in DOMAIN t.entries : t.entries[i].key = k
    BY <1>3 DEF IsPlace
  <2>2. Place(t, k) = CHOOSE i \in DOMAIN t.entries : t.entries[i].key = k
    BY <1>3 DEF Place
  <2>3. Place(t, k) \in DOMAIN t.entries /\ t.entries[Place(t, k)].key = k
    BY <2>1, <2>2
  <2> QED BY <1>1, <1>3, <2>3
<1> QED BY <1>2, <1>3

\* and every entry is at the place of its key.
LEMMA PlaceOfEntry ==
  ASSUME NEW t \in Tables, NEW i \in DOMAIN t.entries
  PROVE  /\ IsPlace(t, t.entries[i].key) /\ Place(t, t.entries[i].key) = i
<1>1. IsPlace(t, t.entries[i].key)
  BY DEF IsPlace
<1>2. t.entries[i].key # Nil
  BY TableEntries
<1>3. /\ Place(t, t.entries[i].key) \in DOMAIN t.entries
      /\ t.entries[Place(t, t.entries[i].key)].key = t.entries[i].key
  BY <1>1, <1>2, PlaceFound
<1> QED BY <1>1, <1>3, TableEntries

-----------------------------------------------------------------------------
(* What is on the Lua stack: a table and the place of the walk through it,
   for each call; and, when a table was refused, what it left. *)

\* The m-th table on stack s, the place of the walk above it, and above that
\* the value at that place, if the stack is that high.
Frame(s, m) ==
  /\ s[2 * m - 1] \in Tables /\ IsPlace(s[2 * m - 1], s[2 * m])
  /\ 2 * m < Len(s) =>
       /\ s[2 * m] # Nil
       /\ s[2 * m + 1] = s[2 * m - 1].entries[Place(s[2 * m - 1], s[2 * m])].val

\* n tables on the stack, and a value above them but at the head of the loop.
Layout(n) ==
  /\ Len(stack) = IF pc = "next" THEN 2 * n ELSE 2 * n + 1
  /\ \A m \in 1..n : Frame(stack, m)

\* The invariant of the Lua stack: at least as many tables as running calls,
\* each with a place in it.
StackInv ==
  /\ given \in LuaValues /\ stack \in Seq(Items) /\ IsList(parents)
  /\ pc \in {"start", "next", "back", "done"}
  /\ stack[1] = given
  /\ pc = "start" => stack = <<given>> /\ parents = <<>>
  /\ pc \in {"next", "back"} => parents # <<>>
  /\ \E n \in Nat : Len(parents) <= n /\ Layout(n)

\* Frames below what changed are what they were.
LEMMA FrameKept ==
  ASSUME NEW s, NEW u, NEW n \in Nat, NEW m \in 1..n, Frame(s, m),
         Len(s) \in Nat, Len(u) \in Nat, NEW h \in Nat, h <= Len(s), h <= Len(u),
         2 * m < h \/ (2 * m = h /\ h = Len(u)), \A i \in 1..h : u[i] = s[i]
  PROVE  Frame(u, m)
<1>1. m \in Nat /\ m >= 1
  OBVIOUS
<1>2. 2 * m - 1 \in 1..h /\ 2 * m \in 1..h /\ (2 * m < Len(u) => 2 * m + 1 \in 1..h /\ 2 * m < Len(s))
  BY <1>1
<1>3. u[2 * m - 1] = s[2 * m - 1] /\ u[2 * m] = s[2 * m]
      /\ (2 * m < Len(u) => u[2 * m + 1] = s[2 * m + 1] /\ 2 * m < Len(s))
  BY <1>2
<1> QED BY <1>3 DEF Frame

\* The top of the stack at the head of the loop.
LEMMA AtHead ==
  ASSUME StackInv, pc = "next", NEW n \in Nat, Len(parents) <= n, Layout(n),
         NEW t, t = stack[2 * n - 1], NEW p, p = Place(t, stack[2 * n])
  PROVE  /\ n >= 1 /\ Len(stack) = 2 * n
         /\ t \in Tables /\ IsPlace(t, stack[2 * n])
         /\ FromTop(2) = t /\ FromTop(1) = stack[2 * n]
         /\ p \in 0..Len(t.entries)
         /\ Left = SubSeq(t.entries, p + 1, Len(t.entries))
         /\ Left = <<>> <=> p = Len(t.entries)
         /\ Left # <<>> => /\ p + 1 \in DOMAIN t.entries
                           /\ key = t.entries[p + 1].key /\ val = t.entries[p + 1].val
<1>1. n >= 1
  <2>1. parents # <<>> /\ IsList(parents)
    BY DEF StackInv
  <2>2. Len(parents) \in Nat \ {0}
    BY <2>1, ListFront
  <2> QED BY <2>2
<1>2. Len(stack) = 2 * n /\ 2 * n + 1 - 2 = 2 * n - 1 /\ 2 * n + 1 - 1 = 2 * n
  BY DEF Layout
<1>3. FromTop(2) = t /\ FromTop(1) = stack[2 * n]
  BY <1>2 DEF FromTop
<1>4. t \in Tables /\ IsPlace(t, stack[2 * n])
  <2>1. n \in 1..n
    BY <1>1
  <2> QED BY <2>1 DEF Layout, Frame
<1>5. p \in 0..Len(t.entries)
  BY <1>4, PlaceFound
<1>6. Left = SubSeq(t.entries, p + 1, Len(t.entries))
  BY <1>3 DEF Left
<1>7. t.entries \in Seq([key : LuaKeys, val : LuaValues]) /\ DOMAIN t.entries = 1..Len(t.entries)
      /\ Len(t.entries) \in Nat
  BY <1>4, TableEntries
<1>8. /\ Left = <<>> <=> p = Len(t.entries)
      /\ p < Len(t.entries) => Head(Left) = t.entries[p + 1] /\ p + 1 \in 1..Len(t.entries)
  BY <1>5, <1>6, <1>7, Rest
<1>9. ASSUME Left # <<>> PROVE /\ p + 1 \in DOMAIN t.entries
                               /\ key = t.entries[p + 1].key /\ val = t.entries[p + 1].val
  <2>1. p < Len(t.entries)
    BY <1>5, <1>7, <1>8, <1>9
  <2> QED BY <1>7, <1>8, <2>1 DEF key, val
<1> QED BY <1>1, <1>2, <1>3, <1>4, <1>5, <1>6, <1>8, <1>9

\* The next entry's key takes the place of the one before.
LEMMA KeyMoves ==
  ASSUME StackInv, AtEntry, NEW n \in Nat, Len(parents) <= n, Layout(n),
         NEW u, u \in Seq(Items), Len(u) \in Nat, Len(u) >= 2 * n,
         \A i \in 1..(2 * n - 1) : u[i] = stack[i], u[2 * n] = key,
         Len(u) > 2 * n => u[2 * n + 1] = val
  PROVE  \A m \in 1..n : Frame(u, m)
<1> DEFINE t == stack[2 * n - 1]
           p == Place(t, stack[2 * n])
<1> HIDE DEF t, p
<1>1. pc = "next" /\ Left # <<>>
  BY DEF AtEntry
<1>2. /\ n >= 1 /\ Len(stack) = 2 * n /\ t \in Tables
      /\ p + 1 \in DOMAIN t.entries
      /\ key = t.entries[p + 1].key /\ val = t.entries[p + 1].val
  BY <1>1, AtHead DEF t, p
<1>3. IsPlace(t, key) /\ Place(t, key) = p + 1 /\ key # Nil
  BY <1>2, PlaceOfEntry, TableEntries
<1>4. u[2 * n - 1] = t
  <2>1. 2 * n - 1 \in 1..(2 * n - 1)
    BY <1>2
  <2> QED BY <2>1 DEF t
<1>5. Frame(u, n)
  <2>1. u[2 * n - 1] \in Tables /\ IsPlace(u[2 * n - 1], u[2 * n]) /\ u[2 * n] # Nil
    BY <1>2, <1>3, <1>4
  <2>2. ASSUME 2 * n < Len(u)
        PROVE  u[2 * n + 1] = u[2 * n - 1].entries[Place(u[2 * n - 1], u[2 * n])].val
    <3>1. u[2 * n + 1] = val
      BY <2>2
    <3> QED BY <1>2, <1>3, <1>4, <3>1
  <2> QED BY <2>1, <2>2 DEF Frame
<1>6. ASSUME NEW m \in 1..n, m # n PROVE Frame(u, m)
  <2>1. Frame(stack, m)
    BY DEF Layout
  <2>2. 2 * n - 1 \in Nat /\ 2 * n - 1 <= Len(stack) /\ 2 * n - 1 <= Len(u) /\ 2 * m < 2 * n - 1
    BY <1>2, <1>6
  <2>3. Len(stack) \in Nat
    BY <1>2
  <2> QED BY <2>1, <2>2, <2>3, FrameKept
<1> QED BY <1>5, <1>6

-----------------------------------------------------------------------------
(* Recursive functions of Lua values. *)

\* The values of entries nest less deep than their table.
LEMMA Nests ==
  ASSUME NEW t \in LuaValues
  PROVE  /\ LuaNesting[t] \in Nat /\ LuaNesting[t] < MaxLuaNesting + 1
         /\ t.type = "table" =>
              \A i \in DOMAIN t.entries :
                /\ t.entries[i].val \in LuaValues
                /\ LuaNesting[t.entries[i].val] \in Nat /\ LuaNesting[t.entries[i].val] < LuaNesting[t]
<1>1. \A v \in LuaValues : LuaNesting[v] \in 0..MaxLuaNesting
  BY NestingAssumption
<1>2. MaxLuaNesting \in Nat
  BY NestingAssumption
<1>3. \A x \in 0..MaxLuaNesting : x \in Nat /\ x < MaxLuaNesting + 1
  BY <1>2
<1>4. ASSUME t.type = "table", NEW i \in DOMAIN t.entries
      PROVE  t.entries[i].val \in LuaValues /\ LuaNesting[t.entries[i].val] < LuaNesting[t]
  <2>1. t \in Tables
    BY <1>4 DEF Tables
  <2> QED BY <1>4, <2>1, TableEntries, NestingAssumption
<1> QED BY <1>1, <1>3, <1>4

\* A recursive function over the Lua values is there once it is there for
\* those that nest less than n deep, for each n.
LEMMA ByNesting ==
  ASSUME NEW P, 0 \in P, \A n \in Nat : n \in P /\ n < MaxLuaNesting + 1 => n + 1 \in P
  PROVE  MaxLuaNesting + 1 \in P
<1>1. MaxLuaNesting + 1 \in Nat
  BY NestingAssumption
<1>2. PICK N \in Nat : N = MaxLuaNesting + 1
  BY <1>1
<1>3. \A n \in 0..N : n \in Nat
  OBVIOUS
<1>4. \A n \in 0..N : n \in P /\ n < N => n + 1 \in P
  BY <1>2, <1>3
<1>5. \A n \in 0..N : n \in P
  BY <1>4, BoundedInduction
<1>6. N \in 0..N
  OBVIOUS
<1> QED BY <1>2, <1>5, <1>6

\* Inside is what its definition says, one level at a time.
LEMMA InsideUnfolds ==
  ASSUME NEW t \in LuaValues
  PROVE  Inside[t] = {t} \cup (IF t.type = "table"
                               THEN UNION { Inside[t.entries[i].val] : i \in DOMAIN t.entries }
                               ELSE {})
<1> DEFINE Body(f, u) == {u} \cup (IF u.type = "table"
                                   THEN UNION { f[u.entries[i].val] : i \in DOMAIN u.entries }
                                   ELSE {})
           Solves(f, n) == \A u \in LuaValues : LuaNesting[u] < n => f[u] = Body(f, u)
           P == { n \in Nat : \E f : Solves(f, n) }
<1>0. \A f, g, u : (u.type = "table" => \A i \in DOMAIN u.entries :
                       f[u.entries[i].val] = g[u.entries[i].val])
                   => Body(f, u) = Body(g, u)
  OBVIOUS
<1> HIDE DEF Body
<1>1. 0 \in P
  <2>1. Solves([u \in LuaValues |-> {}], 0)
    BY Nests
  <2> QED BY <2>1
<1>2. ASSUME NEW n \in Nat, n \in P PROVE n + 1 \in P
  <2>1. PICK f : Solves(f, n)
    BY <1>2
  <2> DEFINE g == [u \in LuaValues |-> Body(f, u)]
  <2>2. ASSUME NEW u \in LuaValues, LuaNesting[u] < n + 1 PROVE g[u] = Body(g, u)
    <3>1. ASSUME u.type = "table", NEW i \in DOMAIN u.entries
          PROVE  f[u.entries[i].val] = g[u.entries[i].val]
      <4>1. u.entries[i].val \in LuaValues /\ LuaNesting[u.entries[i].val] < LuaNesting[u]
            /\ LuaNesting[u.entries[i].val] \in Nat /\ LuaNesting[u] \in Nat
        BY <3>1, Nests
      <4>2. LuaNesting[u.entries[i].val] < n
        BY <2>2, <4>1
      <4> QED BY <2>1, <4>1, <4>2
    <3>2. Body(f, u) = Body(g, u)
      <4> HIDE DEF g
      <4> QED BY <1>0, <3>1
    <3> QED BY <3>2
  <2>3. \E h : Solves(h, n + 1)
    BY <2>2
  <2>4. n + 1 \in Nat
    OBVIOUS
  <2> QED BY <2>3, <2>4
<1>3. MaxLuaNesting + 1 \in P
  <2> HIDE DEF P
  <2> QED BY <1>1, <1>2, ByNesting
<1>4. PICK f : Solves(f, MaxLuaNesting + 1)
  BY <1>3
<1> DEFINE h == [u \in LuaValues |-> f[u]]
<1>5. ASSUME NEW u \in LuaValues PROVE h[u] = Body(h, u)
  <2>1. f[u] = Body(f, u)
    BY <1>4, Nests
  <2>2. ASSUME u.type = "table", NEW i \in DOMAIN u.entries
        PROVE  f[u.entries[i].val] = h[u.entries[i].val]
    BY <2>2, Nests
  <2>3. Body(f, u) = Body(h, u)
    <3> HIDE DEF h
    <3> QED BY <1>0, <2>2
  <2> QED BY <2>1, <2>3
<1>6. h = [u \in LuaValues |-> Body(h, u)]
  BY <1>5
<1>7. Inside = CHOOSE f_ : f_ = [u \in LuaValues |-> Body(f_, u)]
  BY DEF Inside, Body
<1>8. Inside = [u \in LuaValues |-> Body(Inside, u)]
  <2> HIDE DEF h, Solves, P
  <2> QED BY <1>6, <1>7
<1> QED BY <1>8 DEF Body

\* A table's own entries hold nothing that is not in it.
LEMMA InsideEntry ==
  ASSUME NEW t \in Tables
  PROVE  /\ t \in TablesIn(t)
         /\ \A i \in DOMAIN t.entries : Inside[t.entries[i].val] \subseteq Inside[t]
<1>1. t \in LuaValues /\ t.type = "table"
  BY TableEntries
<1> QED BY <1>1, InsideUnfolds DEF TablesIn

-----------------------------------------------------------------------------
(* The steps of the conversion. *)

\* At an entry: what is on top of the stack and what the entry holds.
LEMMA AtEntryItems ==
  ASSUME StackInv, AtEntry
  PROVE  /\ key \in LuaKeys /\ key # Nil /\ val \in LuaValues
         /\ key \in Items /\ val \in Items /\ Nil \in Items
<1>1. PICK n \in Nat : Len(parents) <= n /\ Layout(n)
  BY DEF StackInv
<1>2. pc = "next" /\ Left # <<>>
  BY DEF AtEntry
<1>3. PICK t, p : t = stack[2 * n - 1] /\ p = Place(t, stack[2 * n])
  OBVIOUS
<1>4. /\ t \in Tables /\ p + 1 \in DOMAIN t.entries
      /\ key = t.entries[p + 1].key /\ val = t.entries[p + 1].val
  BY <1>1, <1>2, <1>3, AtHead
<1> QED BY <1>4, TableEntries DEF Items

\* The stack without its top.
LEMMA Popped ==
  ASSUME StackInv, NEW k \in Nat, Len(stack) = k + 1
  PROVE  /\ Pop(1) = SubSeq(stack, 1, k) /\ Pop(1) \in Seq(Items) /\ Len(Pop(1)) = k
         /\ \A i \in 1..k : Pop(1)[i] = stack[i]
<1>1. stack \in Seq(Items)
  BY DEF StackInv
<1>2. Pop(1) = SubSeq(stack, 1, k)
  <2>1. k + 1 - 1 = k
    OBVIOUS
  <2> QED BY <2>1 DEF Pop
<1>3. \A i \in 1..Len(stack) : stack[i] \in Items
  BY <1>1, ElementOfSeq
<1>4. \A i \in 1..k : i \in 1..Len(stack)
  OBVIOUS
<1>5. /\ SubSeq(stack, 1, k) \in Seq(Items) /\ Len(SubSeq(stack, 1, k)) = k
      /\ \A i \in 1..k : SubSeq(stack, 1, k)[i] = stack[i]
  BY <1>1, <1>3, <1>4
<1> QED BY <1>2, <1>5

\* What stays of the stack below the key at the head of the loop, and what
\* each step puts in the key's place.
LEMMA StackSteps ==
  ASSUME StackInv, NEW n \in Nat, n >= 1, Len(stack) = 2 * n
  PROVE  /\ End => /\ stack' \in Seq(Items) /\ Len(stack') = 2 * n - 1
                   /\ \A i \in 1..(2 * n - 1) : stack'[i] = stack[i]
         /\ AddLeaf \/ Skip =>
              /\ stack' \in Seq(Items) /\ Len(stack') = 2 * n /\ stack'[2 * n] = key
              /\ \A i \in 1..(2 * n - 1) : stack'[i] = stack[i]
         /\ RefuseKey =>
              /\ stack' \in Seq(Items) /\ Len(stack') = 2 * n + 1
              /\ stack'[2 * n] = key /\ stack'[2 * n + 1] = val
              /\ \A i \in 1..(2 * n - 1) : stack'[i] = stack[i]
         /\ Descend =>
              /\ stack' \in Seq(Items) /\ Len(stack') = 2 * n + 2
              /\ stack'[2 * n] = key /\ stack'[2 * n + 1] = val /\ stack'[2 * n + 2] = Nil
              /\ \A i \in 1..(2 * n - 1) : stack'[i] = stack[i]
<1>1. PICK k \in Nat : k = 2 * n - 1
  OBVIOUS
<1>2. Len(stack) = k + 1 /\ 2 * n = k + 1 /\ 2 * n + 1 = k + 2 /\ 2 * n + 2 = k + 3
  BY <1>1
<1>3. /\ Pop(1) = SubSeq(stack, 1, k) /\ Pop(1) \in Seq(Items) /\ Len(Pop(1)) = k
      /\ \A i \in 1..k : Pop(1)[i] = stack[i]
  BY <1>2, Popped
<1>4. k \in 0..Len(stack) /\ stack \in Seq(Items)
  BY <1>2 DEF StackInv
<1>5. ASSUME End
      PROVE  /\ stack' \in Seq(Items) /\ Len(stack') = 2 * n - 1
             /\ \A i \in 1..(2 * n - 1) : stack'[i] = stack[i]
  <2>1. stack' = Pop(1)
    BY <1>5 DEF End
  <2> QED BY <1>1, <1>3, <2>1
<1>6. ASSUME AddLeaf \/ Skip
      PROVE  /\ stack' \in Seq(Items) /\ Len(stack') = 2 * n /\ stack'[2 * n] = key
             /\ \A i \in 1..(2 * n - 1) : stack'[i] = stack[i]
  <2>1. AtEntry /\ stack' = Append(SubSeq(stack, 1, k), key)
    BY <1>3, <1>6 DEF AddLeaf, Skip
  <2>2. key \in Items
    BY <2>1, AtEntryItems
  <2>3. /\ stack' \in Seq(Items) /\ Len(stack') = k + 1 /\ stack'[k + 1] = key
        /\ \A i \in 1..k : stack'[i] = stack[i]
    BY <1>4, <2>1, <2>2, KeepOne
  <2> QED BY <1>1, <1>2, <2>3
<1>7. ASSUME AtEntry, NEW u, u = SubSeq(stack, 1, k) \o <<key, val>>
      PROVE  /\ u \in Seq(Items) /\ Len(u) = k + 2
             /\ u[k + 1] = key /\ u[k + 2] = val
             /\ \A i \in 1..k : u[i] = stack[i]
  <2>1. key \in Items /\ val \in Items
    BY <1>7, AtEntryItems
  <2> QED BY <1>4, <1>7, <2>1, KeepTwo
<1>8. ASSUME RefuseKey
      PROVE  /\ stack' \in Seq(Items) /\ Len(stack') = 2 * n + 1
             /\ stack'[2 * n] = key /\ stack'[2 * n + 1] = val
             /\ \A i \in 1..(2 * n - 1) : stack'[i] = stack[i]
  <2>1. AtEntry /\ stack' = SubSeq(stack, 1, k) \o <<key, val>>
    BY <1>3, <1>8 DEF RefuseKey
  <2> QED BY <1>1, <1>2, <1>7, <2>1
<1>9. ASSUME Descend
      PROVE  /\ stack' \in Seq(Items) /\ Len(stack') = 2 * n + 2
             /\ stack'[2 * n] = key /\ stack'[2 * n + 1] = val /\ stack'[2 * n + 2] = Nil
             /\ \A i \in 1..(2 * n - 1) : stack'[i] = stack[i]
  <2>1. PICK u : u = SubSeq(stack, 1, k) \o <<key, val>>
    OBVIOUS
  <2>2. AtEntry /\ stack' = Append(u, Nil)
    BY <1>3, <1>9, <2>1 DEF Descend, Enter
  <2>3. /\ u \in Seq(Items) /\ Len(u) = k + 2
        /\ u[k + 1] = key /\ u[k + 2] = val
        /\ \A i \in 1..k : u[i] = stack[i]
    BY <1>7, <2>1, <2>2
  <2>4. Nil \in Items
    BY DEF Items
  <2>5. /\ Append(u, Nil) \in Seq(Items) /\ Len(Append(u, Nil)) = k + 3
        /\ Append(u, Nil)[k + 3] = Nil /\ \A i \in 1..(k + 2) : Append(u, Nil)[i] = u[i]
    BY <2>3, <2>4
  <2>6. k + 1 \in 1..(k + 2) /\ k + 2 \in 1..(k + 2) /\ \A i \in 1..k : i \in 1..(k + 2)
    OBVIOUS
  <2>7. /\ stack' \in Seq(Items) /\ Len(stack') = k + 3
        /\ stack'[k + 1] = key /\ stack'[k + 2] = val /\ stack'[k + 3] = Nil
        /\ \A i \in 1..k : stack'[i] = stack[i]
    BY <2>2, <2>3, <2>5, <2>6
  <2> QED BY <1>1, <1>2, <2>7
<1> QED BY <1>5, <1>6, <1>8, <1>9

\* What each step does to the parents of the calls.
LEMMA ParentsSteps ==
  ASSUME IsList(parents), parents # <<>>, NEW d, d = Len(parents)
  PROVE  /\ d \in Nat \ {0}
         /\ End \/ RefuseKey =>
              /\ IsList(parents') /\ Len(parents') = d - 1
              /\ pc' = IF d = 1 THEN "done" ELSE "back"
              /\ \A i \in 1..(d - 1) : parents'[i] = parents[i]
         /\ AddLeaf \/ Skip \/ Resume =>
              /\ IsList(parents') /\ Len(parents') = d /\ pc' = "next"
              /\ \A i \in 1..(d - 1) : parents'[i] = parents[i]
         /\ AddLeaf => parents'[d] = Added(Parent, key, Leaf(val))
         /\ Skip => parents'[d] = Parent
         /\ Resume => parents'[d] = IF ret = NullPtr THEN parents[d]
                                  ELSE Added(parents[d], FromTop(2), ret)
         /\ Descend =>
              /\ IsList(parents') /\ Len(parents') = d + 1 /\ pc' = "next"
              /\ parents'[d] = Parent /\ parents'[d + 1] = NullPtr
              /\ \A i \in 1..(d - 1) : parents'[i] = parents[i]
<1>1. /\ d \in Nat \ {0} /\ IsList(Front(parents)) /\ Len(Front(parents)) = d - 1
      /\ \A i \in 1..(d - 1) : Front(parents)[i] = parents[i]
      /\ Last(parents) = parents[d]
  BY ListFront
<1>2. ASSUME End \/ RefuseKey
      PROVE  /\ IsList(parents') /\ Len(parents') = d - 1
             /\ pc' = IF d = 1 THEN "done" ELSE "back"
             /\ \A i \in 1..(d - 1) : parents'[i] = parents[i]
  <2>1. parents' = Front(parents) /\ pc' = IF d = 1 THEN "done" ELSE "back"
    BY <1>2 DEF End, RefuseKey, Return
  <2> QED BY <1>1, <2>1
<1>3. ASSUME NEW e, parents' = Append(Front(parents), e)
      PROVE  /\ IsList(parents') /\ Len(parents') = d /\ parents'[d] = e
             /\ \A i \in 1..(d - 1) : parents'[i] = parents[i]
  BY <1>3, ReplaceLast
<1>4. ASSUME AddLeaf
      PROVE  parents' = Append(Front(parents), Added(Parent, key, Leaf(val))) /\ pc' = "next"
  BY <1>4 DEF AddLeaf, AddTo, AtEntry
<1>5. ASSUME Skip
      PROVE  parents' = Append(Front(parents), Parent) /\ pc' = "next"
  BY <1>5 DEF Skip, AtEntry
<1>6. ASSUME Resume
      PROVE  /\ pc' = "next"
             /\ parents' = IF ret = NullPtr THEN parents
                           ELSE Append(Front(parents), Added(parents[d], FromTop(2), ret))
  BY <1>1, <1>6 DEF Resume, AddTo
<1>7. ASSUME Descend
      PROVE  /\ IsList(parents') /\ Len(parents') = d + 1 /\ pc' = "next"
             /\ parents'[d] = Parent /\ parents'[d + 1] = NullPtr
             /\ \A i \in 1..(d - 1) : parents'[i] = parents[i]
  <2>1. PICK u : u = Append(Front(parents), Parent)
    OBVIOUS
  <2>2. parents' = Append(u, NullPtr) /\ pc' = "next"
    BY <1>7, <2>1 DEF Descend, Enter
  <2>3. /\ IsList(u) /\ Len(u) = d /\ u[d] = Parent
        /\ \A i \in 1..(d - 1) : u[i] = parents[i]
    BY <2>1, ReplaceLast
  <2>4. /\ IsList(parents') /\ Len(parents') = d + 1 /\ parents'[d + 1] = NullPtr
        /\ \A i \in 1..d : parents'[i] = u[i]
    BY <2>2, <2>3, ListAppend
  <2>5. d \in 1..d /\ \A i \in 1..(d - 1) : i \in 1..d
    BY <1>1
  <2> QED BY <2>2, <2>3, <2>4, <2>5
<1>8. ASSUME AddLeaf \/ Skip \/ Resume
      PROVE  /\ IsList(parents') /\ Len(parents') = d /\ pc' = "next"
             /\ \A i \in 1..(d - 1) : parents'[i] = parents[i]
  <2>1. ASSUME Resume, ret = NullPtr
        PROVE  /\ IsList(parents') /\ Len(parents') = d /\ pc' = "next"
               /\ \A i \in 1..(d - 1) : parents'[i] = parents[i]
    BY <1>6, <2>1
  <2>2. CASE \E e : parents' = Append(Front(parents), e)
    BY <1>3, <1>4, <1>5, <1>6, <1>8, <2>2
  <2> QED BY <1>4, <1>5, <1>6, <1>8, <2>1, <2>2
<1>9. /\ AddLeaf => parents'[d] = Added(Parent, key, Leaf(val))
      /\ Skip => parents'[d] = Parent
      /\ Resume => parents'[d] = IF ret = NullPtr THEN parents[d]
                               ELSE Added(parents[d], FromTop(2), ret)
  BY <1>3, <1>4, <1>5, <1>6
<1> QED BY <1>1, <1>2, <1>7, <1>8, <1>9

\* With n tables on the stack before a step, how many there are after it.
LEMMA EntryStep ==
  ASSUME StackInv, NEW n \in Nat, Len(parents) <= n, Layout(n), pc = "next"
  PROVE  /\ End => n - 1 \in Nat /\ Layout(n - 1)'
         /\ AddLeaf \/ Skip \/ RefuseKey => Layout(n)'
         /\ Descend => Layout(n + 1)'
<1>0. PICK t, p : t = stack[2 * n - 1] /\ p = Place(t, stack[2 * n])
  OBVIOUS
<1>1. n >= 1 /\ Len(stack) = 2 * n /\ \A m \in 1..n : Frame(stack, m)
  BY <1>0, AtHead DEF Layout
<1>2. IsList(parents) /\ parents # <<>>
  BY DEF StackInv
<1>3. PICK k \in Nat : k = 2 * n - 1
  BY <1>1
<1>4. ASSUME End PROVE n - 1 \in Nat /\ Layout(n - 1)'
  <2>1. /\ Len(stack') = k /\ \A i \in 1..k : stack'[i] = stack[i]
    BY <1>1, <1>3, <1>4, StackSteps
  <2>2. pc' # "next"
    BY <1>2, <1>4, ParentsSteps
  <2>3. n - 1 \in Nat /\ 2 * (n - 1) + 1 = k
    BY <1>1, <1>3
  <2>4. ASSUME NEW m \in 1..(n - 1) PROVE Frame(stack', m)
    <3>1. m \in 1..n /\ 2 * m < k /\ k <= Len(stack) /\ k <= Len(stack')
          /\ Len(stack) \in Nat /\ Len(stack') \in Nat
      BY <1>1, <1>3, <2>1
    <3>2. Frame(stack, m)
      BY <1>1, <3>1
    <3> QED BY <1>3, <2>1, <3>1, <3>2, FrameKept
  <2>5. \A m \in 1..(n - 1) : Frame(stack, m)'
    BY <2>4 DEF Frame
  <2>6. Len(stack') = IF pc' = "next" THEN 2 * (n - 1) ELSE 2 * (n - 1) + 1
    BY <2>1, <2>2, <2>3
  <2> QED BY <2>3, <2>5, <2>6 DEF Layout
<1>5. ASSUME AddLeaf \/ Skip \/ RefuseKey \/ Descend
      PROVE  \A m \in 1..n : Frame(stack, m)'
  <2>1. AtEntry
    BY <1>5 DEF AddLeaf, Skip, RefuseKey, Descend
  <2>2. /\ stack' \in Seq(Items) /\ stack'[2 * n] = key
        /\ Len(stack') \in {2 * n, 2 * n + 1, 2 * n + 2}
        /\ Len(stack') # 2 * n => stack'[2 * n + 1] = val
        /\ \A i \in 1..(2 * n - 1) : stack'[i] = stack[i]
    BY <1>1, <1>5, StackSteps
  <2>3. Len(stack') \in Nat /\ Len(stack') >= 2 * n
    BY <2>2
  <2>4. Len(stack') > 2 * n => stack'[2 * n + 1] = val
    BY <2>2
  <2>5. \A m \in 1..n : Frame(stack', m)
    BY <2>1, <2>2, <2>3, <2>4, KeyMoves
  <2> QED BY <2>5 DEF Frame
<1>6. ASSUME AddLeaf \/ Skip PROVE Layout(n)'
  <2>1. Len(stack') = 2 * n
    BY <1>1, <1>6, StackSteps
  <2>2. pc' = "next"
    BY <1>2, <1>6, ParentsSteps
  <2> QED BY <1>5, <1>6, <2>1, <2>2 DEF Layout
<1>7. ASSUME RefuseKey PROVE Layout(n)'
  <2>1. Len(stack') = 2 * n + 1
    BY <1>1, <1>7, StackSteps
  <2>2. pc' # "next"
    BY <1>2, <1>7, ParentsSteps
  <2> QED BY <1>5, <1>7, <2>1, <2>2 DEF Layout
<1>8. ASSUME Descend PROVE Layout(n + 1)'
  <2>1. /\ Len(stack') = 2 * n + 2 /\ stack'[2 * n + 1] = val /\ stack'[2 * n + 2] = Nil
    BY <1>1, <1>8, StackSteps
  <2>2. pc' = "next"
    BY <1>2, <1>8, ParentsSteps
  <2>3. val \in Tables
    BY <1>8, AtEntryItems DEF Descend, Tables
  <2>4. 2 * (n + 1) = 2 * n + 2 /\ 2 * (n + 1) - 1 = 2 * n + 1 /\ ~(2 * (n + 1) < Len(stack'))
    BY <2>1
  <2>5. Frame(stack, n + 1)'
    <3>1. stack'[2 * (n + 1) - 1] = val /\ stack'[2 * (n + 1)] = Nil
      BY <2>1, <2>4
    <3> QED BY <2>3, <2>4, <3>1 DEF Frame, IsPlace
  <2>6. \A m \in 1..(n + 1) : m \in 1..n \/ m = n + 1
    OBVIOUS
  <2>7. \A m \in 1..(n + 1) : Frame(stack, m)'
    BY <1>5, <1>8, <2>5, <2>6
  <2> QED BY <2>1, <2>2, <2>4, <2>7 DEF Layout
<1> QED BY <1>4, <1>6, <1>7, <1>8

\* Back from a table, its place in the table around it is on top again.
LEMMA ResumeStep ==
  ASSUME StackInv, NEW n \in Nat, Layout(n), Resume
  PROVE  /\ Layout(n)' /\ stack' \in Seq(Items) /\ Len(stack) = 2 * n + 1
         /\ Len(stack') = 2 * n /\ \A i \in 1..(2 * n) : stack'[i] = stack[i]
<1>1. PICK k \in Nat : k = 2 * n
  OBVIOUS
<1>2. Len(stack) = k + 1 /\ pc' = "next" /\ stack' = Pop(1)
  BY <1>1 DEF Layout, Resume
<1>3. /\ stack' \in Seq(Items) /\ Len(stack') = k /\ \A i \in 1..k : stack'[i] = stack[i]
  BY <1>2, Popped
<1>4. ASSUME NEW m \in 1..n PROVE Frame(stack', m)
  <2>1. Frame(stack, m)
    BY DEF Layout
  <2>2. /\ 2 * m < k \/ (2 * m = k /\ k = Len(stack'))
        /\ k <= Len(stack) /\ k <= Len(stack') /\ Len(stack) \in Nat /\ Len(stack') \in Nat
    BY <1>1, <1>2, <1>3
  <2> QED BY <1>1, <1>3, <2>1, <2>2, FrameKept
<1>5. \A m \in 1..n : Frame(stack, m)'
  BY <1>4 DEF Frame
<1> QED BY <1>1, <1>2, <1>3, <1>5 DEF Layout

\* The call for the table the program gave.
LEMMA FromLuaStep ==
  ASSUME StackInv, FromLua
  PROVE  /\ stack = <<given>> /\ parents = <<>>
         /\ given.type # "table" =>
              stack' = stack /\ parents' = parents /\ pc' = "done" /\ Layout(0)'
         /\ given.type = "table" =>
              /\ stack' = <<given, Nil>> /\ parents' = <<NullPtr>> /\ pc' = "next"
              /\ Layout(1)'
<1>1. stack = <<given>> /\ parents = <<>> /\ given \in LuaValues
  BY DEF StackInv, FromLua
<1>2. ASSUME given.type # "table"
      PROVE  stack' = stack /\ parents' = parents /\ pc' = "done" /\ Layout(0)'
  <2>1. stack' = stack /\ parents' = parents /\ pc' = "done"
    BY <1>2 DEF FromLua
  <2>2. Len(stack') = 1
    BY <1>1, <2>1
  <2> QED BY <2>1, <2>2 DEF Layout
<1>3. ASSUME given.type = "table"
      PROVE  /\ stack' = <<given, Nil>> /\ parents' = <<NullPtr>> /\ pc' = "next"
             /\ Layout(1)'
  <2>1. stack' = <<given, Nil>> /\ parents' = <<NullPtr>> /\ pc' = "next"
    BY <1>1, <1>3 DEF FromLua, Enter
  <2>2. given \in Tables
    BY <1>1, <1>3 DEF Tables
  <2>3. Len(stack') = 2 /\ stack'[2 * 1 - 1] = given /\ stack'[2 * 1] = Nil
    BY <2>1
  <2>4. Frame(stack, 1)'
    BY <2>2, <2>3 DEF Frame, IsPlace
  <2> QED BY <2>1, <2>3, <2>4 DEF Layout
<1> QED BY <1>1, <1>2, <1>3

-----------------------------------------------------------------------------
(* The calls of lua_next. *)

\* The stack holds what is given at first.
LEMMA StackInit == ASSUME LuaInit PROVE StackInv
<1>1. /\ given \in LuaValues /\ stack = <<given>> /\ parents = <<>> /\ pc = "start"
  BY DEF LuaInit
<1>2. stack \in Seq(Items) /\ Len(stack) = 1 /\ stack[1] = given
  BY <1>1 DEF Items
<1>3. parents \in Seq({}) /\ Len(parents) = 0
  BY <1>1
<1>4. Layout(0)
  BY <1>1, <1>2 DEF Layout
<1> QED BY <1>1, <1>2, <1>3, <1>4 DEF StackInv, IsList

\* Every step keeps the stack so.
LEMMA StackStep == ASSUME StackInv, [LuaNext]_lua PROVE StackInv'
<1>1. /\ given \in LuaValues /\ stack \in Seq(Items) /\ IsList(parents)
      /\ pc \in {"start", "next", "back", "done"} /\ stack[1] = given
      /\ pc = "start" => stack = <<given>> /\ parents = <<>>
      /\ pc \in {"next", "back"} => parents # <<>>
  BY DEF StackInv
<1>2. PICK n \in Nat : Len(parents) <= n /\ Layout(n)
  BY DEF StackInv
<1>3. CASE FromLua
  <2>1. given' = given /\ stack = <<given>> /\ parents = <<>>
    BY <1>3, FromLuaStep DEF FromLua, Enter
  <2>2. CASE given.type = "table"
    <3>1. stack' = <<given, Nil>> /\ parents' = <<NullPtr>> /\ pc' = "next" /\ Layout(1)'
      BY <1>3, <2>2, FromLuaStep
    <3>2. stack' \in Seq(Items) /\ stack'[1] = given
      BY <1>1, <3>1 DEF Items
    <3>3. parents' \in Seq({NullPtr}) /\ Len(parents') = 1 /\ parents' # <<>>
      BY <3>1
    <3>4. IsList(parents)' /\ Len(parents') <= 1
      BY <3>3 DEF IsList
    <3> QED BY <1>1, <2>1, <3>1, <3>2, <3>3, <3>4 DEF StackInv
  <2>3. CASE given.type # "table"
    <3>1. stack' = stack /\ parents' = parents /\ pc' = "done" /\ Layout(0)'
      BY <1>3, <2>3, FromLuaStep
    <3>2. IsList(parents)' /\ Len(parents') = 0
      BY <1>1, <2>1, <3>1 DEF IsList
    <3> QED BY <1>1, <2>1, <3>1, <3>2 DEF StackInv
  <2> QED BY <2>2, <2>3
<1>4. CASE End \/ AddLeaf \/ Skip \/ RefuseKey \/ Descend
  <2>1. pc = "next" /\ given' = given
    BY <1>4 DEF End, AddLeaf, Skip, RefuseKey, Descend, AtEntry, Return, Enter
  <2>2. PICK t, p : t = stack[2 * n - 1] /\ p = Place(t, stack[2 * n])
    OBVIOUS
  <2>3. n >= 1 /\ Len(stack) = 2 * n
    BY <1>2, <2>1, <2>2, AtHead
  <2>4. stack' \in Seq(Items) /\ \A i \in 1..(2 * n - 1) : stack'[i] = stack[i]
    BY <1>4, <2>3, StackSteps
  <2>5. stack'[1] = given'
    <3>1. 1 \in 1..(2 * n - 1)
      BY <2>3
    <3> QED BY <1>1, <2>1, <2>4, <3>1
  <2>6. PICK d \in Nat : d = Len(parents) /\ d >= 1 /\ d <= n
    BY <1>1, <1>2, <2>1, ListFront
  <2>7. CASE End \/ RefuseKey
    <3>1. /\ IsList(parents') /\ Len(parents') = d - 1
          /\ pc' = IF d = 1 THEN "done" ELSE "back"
      BY <1>1, <2>1, <2>6, <2>7, ParentsSteps
    <3>2. pc' # "done" => parents' # <<>>
      <4>1. d - 1 = 0 => d = 1
        <5>1. \A x \in Nat : x - 1 = 0 => x = 1
          OBVIOUS
        <5> QED BY <5>1
      <4>2. parents' = <<>> => Len(parents') = 0
        OBVIOUS
      <4> QED BY <3>1, <4>1, <4>2
    <3>3. \E k \in Nat : Len(parents') <= k /\ Layout(k)'
      <4>1. End => n - 1 \in Nat /\ Layout(n - 1)'
        BY <1>2, <2>1, EntryStep
      <4>2. RefuseKey => Layout(n)'
        BY <1>2, <2>1, EntryStep
      <4>3. d - 1 <= n - 1 /\ d - 1 <= n
        BY <2>6
      <4> QED BY <2>7, <3>1, <4>1, <4>2, <4>3
    <3> QED BY <1>1, <2>1, <2>4, <2>5, <3>1, <3>2, <3>3 DEF StackInv, IsList
  <2>8. CASE AddLeaf \/ Skip
    <3>1. IsList(parents') /\ Len(parents') = d /\ pc' = "next"
      BY <1>1, <2>1, <2>6, <2>8, ParentsSteps
    <3>2. parents' # <<>>
      BY <2>6, <3>1
    <3>3. Layout(n)'
      BY <1>2, <2>1, <2>8, EntryStep
    <3>4. \E k \in Nat : Len(parents') <= k /\ Layout(k)'
      BY <2>6, <3>1, <3>3
    <3> QED BY <1>1, <2>1, <2>4, <2>5, <3>1, <3>2, <3>4 DEF StackInv, IsList
  <2>9. CASE Descend
    <3>1. IsList(parents') /\ Len(parents') = d + 1 /\ pc' = "next"
      BY <1>1, <2>1, <2>6, <2>9, ParentsSteps
    <3>2. parents' # <<>>
      BY <2>6, <3>1
    <3>3. Layout(n + 1)'
      BY <1>2, <2>1, <2>9, EntryStep
    <3>4. \E k \in Nat : Len(parents') <= k /\ Layout(k)'
      <4>1. d + 1 <= n + 1 /\ n + 1 \in Nat
        BY <2>6
      <4> QED BY <3>1, <3>3, <4>1
    <3> QED BY <1>1, <2>1, <2>4, <2>5, <3>1, <3>2, <3>4 DEF StackInv, IsList
  <2> QED BY <1>4, <2>7, <2>8, <2>9
<1>5. CASE Resume
  <2>1. pc = "back" /\ given' = given
    BY <1>5 DEF Resume
  <2>2. PICK d \in Nat : d = Len(parents) /\ d >= 1 /\ d <= n
    BY <1>1, <1>2, <2>1, ListFront
  <2>3. /\ Layout(n)' /\ stack' \in Seq(Items)
        /\ \A i \in 1..(2 * n) : stack'[i] = stack[i]
    BY <1>2, <1>5, ResumeStep
  <2>4. stack'[1] = given'
    <3>1. 1 \in 1..(2 * n)
      BY <2>2
    <3> QED BY <1>1, <2>1, <2>3, <3>1
  <2>5. IsList(parents') /\ Len(parents') = d /\ pc' = "next"
    BY <1>1, <1>5, <2>1, <2>2, ParentsSteps
  <2>6. parents' # <<>>
    BY <2>2, <2>5
  <2>7. \E k \in Nat : Len(parents') <= k /\ Layout(k)'
    BY <2>2, <2>3, <2>5
  <2> QED BY <1>1, <2>1, <2>3, <2>4, <2>5, <2>6, <2>7 DEF StackInv, IsList
<1>6. CASE UNCHANGED lua
  BY <1>6 DEF lua, StackInv, Layout, Frame, IsList
<1> QED BY <1>3, <1>4, <1>5, <1>6 DEF LuaNext

\* lua_next is only called as Lua allows it, whatever tables are given.
THEOREM NextLegal == LuaSpec => []NextIsLegal
<1>1. LuaInit => StackInv
  BY StackInit
<1>2. StackInv /\ [LuaNext]_lua => StackInv'
  BY StackStep
<1>3. StackInv => NextIsLegal
  <2> SUFFICES ASSUME StackInv, pc = "next" PROVE NextIsLegal
    BY DEF NextIsLegal
  <2>1. PICK n \in Nat : Len(parents) <= n /\ Layout(n)
    BY DEF StackInv
  <2>2. PICK t, p : t = stack[2 * n - 1] /\ p = Place(t, stack[2 * n])
    OBVIOUS
  <2>3. /\ n >= 1 /\ Len(stack) = 2 * n
        /\ t \in Tables /\ IsPlace(t, stack[2 * n])
        /\ FromTop(2) = t /\ FromTop(1) = stack[2 * n]
    BY <2>1, <2>2, AtHead
  <2>4. t.type = "table"
    BY <2>3, TableEntries
  <2> QED BY <2>3, <2>4 DEF NextIsLegal, IsPlace
<1> QED BY <1>1, <1>2, <1>3, PTL DEF LuaSpec

-----------------------------------------------------------------------------
(* Parents, and the stack as long as no table is refused. *)

\* An array or an object of the parser's kind.
IsContainer(p) ==
  \E kind, ms : /\ kind \in {"array", "object"} /\ IsList(ms)
                 /\ p = [type |-> kind, members |-> ms]

\* The invariant of the walk: a call has no parent before its first entry and
\* a container afterwards, and the tables on the stack are inside the value
\* given.
WalkInv ==
  /\ pc = "done" => parents = <<>>
  /\ \A i \in 1..Len(parents) :
       \/ IsContainer(parents[i])
       \/ parents[i] = NullPtr /\ i = Len(parents) /\ pc = "next" /\ stack[Len(stack)] = Nil
  /\ \A m \in Nat \ {0} : 2 * m <= Len(stack) => Inside[stack[2 * m - 1]] \subseteq Inside[given]
  /\ ~OddFirstKey(given) => Layout(Len(parents))

\* A container is not NULL.
LEMMA ContainerNotNull ==
  ASSUME NEW p, IsContainer(p) PROVE p # NullPtr
<1>1. PICK kind, ms : /\ kind \in {"array", "object"} /\ IsList(ms)
                     /\ p = [type |-> kind, members |-> ms]
  BY DEF IsContainer
<1>2. p.type # NullPtr.type
  BY <1>1 DEF NullPtr
<1> QED BY <1>2

\* A container stays one when something is added to it.
LEMMA AddedContainer ==
  ASSUME NEW p, IsContainer(p), NEW k, NEW ent
  PROVE  IsContainer(Added(p, k, ent))
<1>1. PICK kind, ms : /\ kind \in {"array", "object"} /\ IsList(ms)
                     /\ p = [type |-> kind, members |-> ms]
  BY DEF IsContainer
<1>2. CASE kind = "object" /\ k.type = "string"
  <2>1. Added(p, k, ent) = [type |-> kind, members |-> <<Pairing(k.str, ent)>> \o ms]
    BY <1>1, <1>2 DEF Added
  <2>2. IsList(<<Pairing(k.str, ent)>> \o ms)
    <3>1. PICK S : ms \in Seq(S)
      BY <1>1 DEF IsList
    <3>2. PICK e : e = Pairing(k.str, ent)
      OBVIOUS
    <3>3. PICK R : R = S \cup {e}
      OBVIOUS
    <3>4. \A x \in S : x \in R
      BY <3>3
    <3>5. ms \in Seq(R) /\ <<e>> \in Seq(R)
      BY <3>1, <3>3, <3>4
    <3>6. <<e>> \o ms \in Seq(R)
      BY <3>5
    <3> QED BY <3>2, <3>6 DEF IsList
  <2> QED BY <1>1, <2>1, <2>2 DEF IsContainer
<1>3. CASE kind = "array" /\ k.type # "string"
  <2>1. Added(p, k, ent) = [type |-> kind, members |-> Append(ms, Pairing(<<>>, ent))]
    BY <1>1, <1>3 DEF Added
  <2>2. IsList(Append(ms, Pairing(<<>>, ent)))
    BY <1>1, ListAppend
  <2> QED BY <1>1, <2>1, <2>2 DEF IsContainer
<1>4. CASE ~(kind = "object" /\ k.type = "string") /\ ~(kind = "array" /\ k.type # "string")
  <2>1. p.type = kind
    BY <1>1
  <2>2. Added(p, k, ent) = p
    BY <1>4, <2>1 DEF Added
  <2> QED BY <2>2
<1> QED BY <1>2, <1>3, <1>4

\* The parent a member goes to is a container, a new one if need be.
LEMMA ParentContainer ==
  ASSUME IsList(parents), parents # <<>>,
         parents[Len(parents)] = NullPtr \/ IsContainer(parents[Len(parents)])
  PROVE  IsContainer(Parent)
<1>1. Last(parents) = parents[Len(parents)]
  BY ListFront
<1>2. CASE Last(parents) # NullPtr
  BY <1>1, <1>2 DEF Parent
<1>3. CASE Last(parents) = NullPtr
  <2>1. Parent = Arr(<<>>) \/ Parent = Obj(<<>>)
    BY <1>3 DEF Parent
  <2>2. Arr(<<>>) = [type |-> "array", members |-> <<>>]
    <3>1. [i \in DOMAIN <<>> |-> [key |-> <<>>, val |-> <<>>[i]]] = <<>>
      OBVIOUS
    <3> QED BY <3>1 DEF Arr
  <2>3. Obj(<<>>) = [type |-> "object", members |-> <<>>]
    BY DEF Obj
  <2>4. IsList(<<>>)
    <3>1. <<>> \in Seq({})
      OBVIOUS
    <3> QED BY <3>1 DEF IsList
  <2> QED BY <2>1, <2>2, <2>3, <2>4 DEF IsContainer
<1> QED BY <1>2, <1>3

\* No table in what was given is refused when none has an odd first key.
LEMMA NoRefusal ==
  ASSUME StackInv, WalkInv, RefuseKey
  PROVE  OddFirstKey(given)
<1>1. PICK n \in Nat : Len(parents) <= n /\ Layout(n)
  BY DEF StackInv
<1>2. AtEntry /\ ~CanGoOn /\ pc = "next" /\ Left # <<>>
  BY DEF RefuseKey, AtEntry
<1>3. PICK t, p : t = stack[2 * n - 1] /\ p = Place(t, stack[2 * n])
  OBVIOUS
<1>4. /\ n >= 1 /\ Len(stack) = 2 * n /\ t \in Tables
      /\ p + 1 \in DOMAIN t.entries /\ key = t.entries[p + 1].key
  BY <1>1, <1>2, <1>3, AtHead
<1>5. parents # <<>> /\ IsList(parents)
  BY <1>2 DEF StackInv
<1>6. PICK d \in Nat : d = Len(parents) /\ d \in 1..d /\ Last(parents) = parents[d]
  BY <1>5, ListFront
<1>7. parents[d] = NullPtr /\ key.type \notin Named
  BY <1>2, <1>6 DEF CanGoOn
<1>8. stack[2 * n] = Nil
  BY <1>4, <1>6, <1>7, ContainerNotNull DEF WalkInv
<1>9. p = 0 /\ p + 1 = 1
  BY <1>3, <1>8 DEF Place
<1>10. t \in TablesIn(given)
  <2>1. n \in Nat \ {0} /\ 2 * n <= Len(stack)
    BY <1>4
  <2>2. Inside[t] \subseteq Inside[given]
    BY <1>3, <2>1 DEF WalkInv
  <2>3. t \in Inside[t] /\ t.type = "table"
    BY <1>4, InsideEntry DEF TablesIn
  <2> QED BY <2>2, <2>3 DEF TablesIn
<1>11. t.entries # <<>> /\ t.entries[1].key.type \notin Named
  BY <1>4, <1>7, <1>9
<1> QED BY <1>10, <1>11 DEF OddFirstKey

\* The parents of the calls after a step.
LEMMA ParentsStep ==
  ASSUME StackInv, WalkInv, LuaNext
  PROVE  /\ pc' = "done" => parents' = <<>>
         /\ \A i \in 1..Len(parents') :
              \/ IsContainer(parents'[i])
              \/ /\ parents'[i] = NullPtr /\ i = Len(parents') /\ pc' = "next"
                 /\ stack'[Len(stack')] = Nil
<1>1. IsList(parents) /\ (pc \in {"next", "back"} => parents # <<>>)
  BY DEF StackInv
<1>2. \A i \in 1..Len(parents) :
        \/ IsContainer(parents[i])
        \/ parents[i] = NullPtr /\ i = Len(parents) /\ pc = "next" /\ stack[Len(stack)] = Nil
  BY DEF WalkInv
<1>3. CASE FromLua
  <2>1. CASE given.type = "table"
    <3>1. stack' = <<given, Nil>> /\ parents' = <<NullPtr>> /\ pc' = "next"
      BY <1>3, <2>1, FromLuaStep
    <3>2. Len(stack') = 2 /\ stack'[2] = Nil /\ Len(parents') = 1 /\ parents'[1] = NullPtr
      BY <3>1
    <3> QED BY <3>1, <3>2
  <2>2. CASE given.type # "table"
    <3>1. parents' = <<>>
      BY <1>3, <2>2, FromLuaStep
    <3> QED BY <3>1
  <2> QED BY <2>1, <2>2
<1>4. CASE ~FromLua
  <2>1. pc \in {"next", "back"} /\ parents # <<>>
    BY <1>1, <1>4 DEF LuaNext, End, AddLeaf, Skip, RefuseKey, Descend, Resume, AtEntry
  <2>2. PICK d \in Nat \ {0} : d = Len(parents)
    BY <1>1, <2>1, ListFront
  <2>3. d \in 1..d /\ \A i \in 1..(d - 1) : i \in 1..d /\ i # d
    BY <2>2
  <2>4. \A i \in 1..(d - 1) : IsContainer(parents[i])
    BY <1>2, <2>2, <2>3
  <2>5. IsContainer(parents[d]) \/ parents[d] = NullPtr
    BY <1>2, <2>2, <2>3
  <2>6. CASE End \/ RefuseKey
    <3>1. /\ IsList(parents') /\ Len(parents') = d - 1 /\ pc' = IF d = 1 THEN "done" ELSE "back"
          /\ \A i \in 1..(d - 1) : parents'[i] = parents[i]
      BY <1>1, <2>1, <2>2, <2>6, ParentsSteps
    <3>2. pc' = "done" => parents' = <<>>
      <4>1. PICK S : parents' \in Seq(S)
        BY <3>1 DEF IsList
      <4>2. pc' = "done" => Len(parents') = 0
        BY <3>1
      <4> QED BY <4>1, <4>2, EmptySeq
    <3> QED BY <2>4, <3>1, <3>2
  <2>7. CASE AddLeaf \/ Skip \/ Resume
    <3>1. /\ IsList(parents') /\ Len(parents') = d /\ pc' = "next"
          /\ \A i \in 1..(d - 1) : parents'[i] = parents[i]
      BY <1>1, <2>1, <2>2, <2>7, ParentsSteps
    <3>2. IsContainer(Parent)
      BY <1>1, <2>1, <2>2, <2>5, ParentContainer
    <3>3. IsContainer(parents'[d])
      <4>1. CASE AddLeaf
        <5>1. parents'[d] = Added(Parent, key, Leaf(val))
          BY <1>1, <2>1, <2>2, <4>1, ParentsSteps
        <5> QED BY <3>2, <5>1, AddedContainer
      <4>2. CASE Skip
        <5>1. parents'[d] = Parent
          BY <1>1, <2>1, <2>2, <4>2, ParentsSteps
        <5> QED BY <3>2, <5>1
      <4>3. CASE Resume
        <5>1. parents'[d] = IF ret = NullPtr THEN parents[d]
                            ELSE Added(parents[d], FromTop(2), ret)
          BY <1>1, <2>1, <2>2, <4>3, ParentsSteps
        <5>2. pc # "next"
          BY <4>3 DEF Resume
        <5>3. IsContainer(parents[d])
          BY <1>2, <2>2, <2>3, <5>2
        <5> QED BY <5>1, <5>3, AddedContainer
      <4> QED BY <2>7, <4>1, <4>2, <4>3
    <3>4. \A i \in 1..d : i \in 1..(d - 1) \/ i = d
      BY <2>2
    <3> QED BY <2>4, <3>1, <3>3, <3>4
  <2>8. CASE Descend
    <3>1. /\ IsList(parents') /\ Len(parents') = d + 1 /\ pc' = "next"
          /\ parents'[d] = Parent /\ parents'[d + 1] = NullPtr
          /\ \A i \in 1..(d - 1) : parents'[i] = parents[i]
      BY <1>1, <2>1, <2>2, <2>8, ParentsSteps
    <3>2. IsContainer(Parent)
      BY <1>1, <2>1, <2>2, <2>5, ParentContainer
    <3>3. stack'[Len(stack')] = Nil
      <4>1. PICK n \in Nat : Len(parents) <= n /\ Layout(n)
        BY DEF StackInv
      <4>2. pc = "next"
        BY <2>8 DEF Descend, AtEntry
      <4>3. PICK t, p : t = stack[2 * n - 1] /\ p = Place(t, stack[2 * n])
        OBVIOUS
      <4>4. n >= 1 /\ Len(stack) = 2 * n
        BY <4>1, <4>2, <4>3, AtHead
      <4> QED BY <2>8, <4>4, StackSteps
    <3>4. \A i \in 1..(d + 1) : i \in 1..(d - 1) \/ i = d \/ i = d + 1
      BY <2>2
    <3> QED BY <2>4, <3>1, <3>2, <3>3, <3>4
  <2> QED BY <1>4, <2>6, <2>7, <2>8 DEF LuaNext
<1> QED BY <1>3, <1>4

\* The tables on the stack all lie in what was given.
LEMMA RootedStep ==
  ASSUME StackInv, WalkInv, LuaNext
  PROVE  \A m \in Nat \ {0} : 2 * m <= Len(stack') =>
                               Inside[stack'[2 * m - 1]] \subseteq Inside[given]
<1>1. PICK n \in Nat : Len(parents) <= n /\ Layout(n)
  BY DEF StackInv
<1>2. \A m \in Nat \ {0} : 2 * m <= Len(stack) =>
        Inside[stack[2 * m - 1]] \subseteq Inside[given]
  BY DEF WalkInv
<1>3. CASE FromLua
  <2>1. Len(stack') \in {1, 2} /\ stack'[1] = given
    BY <1>3, FromLuaStep
  <2>2. ASSUME NEW k \in {1, 2}, NEW m \in Nat \ {0}, 2 * m <= k PROVE 2 * m - 1 = 1
    BY <2>2
  <2> QED BY <2>1, <2>2
<1>4. CASE Resume
  <2>1. Len(stack) = 2 * n + 1 /\ Len(stack') = 2 * n /\ \A i \in 1..(2 * n) : stack'[i] = stack[i]
    BY <1>1, <1>4, ResumeStep
  <2>2. \A m \in Nat \ {0} : 2 * m <= Len(stack') => 2 * m <= Len(stack) /\ 2 * m - 1 \in 1..(2 * n)
    BY <2>1
  <2> QED BY <1>2, <2>1, <2>2
<1>5. CASE End \/ AddLeaf \/ Skip \/ RefuseKey \/ Descend
  <2>1. pc = "next"
    BY <1>5 DEF End, AddLeaf, Skip, RefuseKey, Descend, AtEntry
  <2>2. PICK t, p : t = stack[2 * n - 1] /\ p = Place(t, stack[2 * n])
    OBVIOUS
  <2>3. /\ n >= 1 /\ Len(stack) = 2 * n /\ t \in Tables
        /\ Left # <<>> => p + 1 \in DOMAIN t.entries /\ val = t.entries[p + 1].val
    BY <1>1, <2>1, <2>2, AtHead
  <2>4. \A i \in 1..(2 * n - 1) : stack'[i] = stack[i]
    BY <1>5, <2>3, StackSteps
  <2>5. ASSUME NEW m \in Nat \ {0}, 2 * m <= 2 * n
        PROVE  Inside[stack'[2 * m - 1]] \subseteq Inside[given]
    <3>1. 2 * m <= Len(stack) /\ 2 * m - 1 \in 1..(2 * n - 1)
      BY <2>3, <2>5
    <3> QED BY <1>2, <2>4, <3>1
  <2>6. ~Descend => Len(stack') \in {2 * n - 1, 2 * n, 2 * n + 1}
    BY <1>5, <2>3, StackSteps
  <2>7. ASSUME NEW k \in {2 * n - 1, 2 * n, 2 * n + 1}, NEW m \in Nat \ {0}, 2 * m <= k
        PROVE  2 * m <= 2 * n
    BY <2>7
  <2>8. CASE Descend
    <3>1. Len(stack') = 2 * n + 2 /\ stack'[2 * n + 1] = val
      BY <2>3, <2>8, StackSteps
    <3>2. Left # <<>>
      BY <2>8 DEF Descend, AtEntry
    <3>3. Inside[val] \subseteq Inside[t]
      BY <2>3, <3>2, InsideEntry
    <3>4. Inside[t] \subseteq Inside[given]
      <4>1. n \in Nat \ {0} /\ 2 * n <= Len(stack)
        BY <2>3
      <4> QED BY <1>2, <2>2, <4>1
    <3>5. ASSUME NEW m \in Nat \ {0}, 2 * m <= 2 * n + 2
          PROVE  2 * m <= 2 * n \/ 2 * m - 1 = 2 * n + 1
      BY <3>5
    <3> QED BY <2>5, <3>1, <3>3, <3>4, <3>5
  <2> QED BY <2>5, <2>6, <2>7, <2>8
<1> QED BY <1>3, <1>4, <1>5 DEF LuaNext

\* Each call has its own table on the stack, and nothing else is there, as
\* long as no table is refused.
LEMMA DepthStep ==
  ASSUME StackInv, WalkInv, LuaNext, ~OddFirstKey(given)
  PROVE  Layout(Len(parents))'
<1>1. PICK n \in Nat : Len(parents) <= n /\ Layout(n)
  BY DEF StackInv
<1>2. Layout(Len(parents)) /\ IsList(parents) /\ (pc \in {"next", "back"} => parents # <<>>)
  BY DEF StackInv, WalkInv
<1>3. CASE FromLua
  <2>1. CASE given.type = "table"
    <3>1. parents' = <<NullPtr>> /\ Layout(1)'
      BY <1>3, <2>1, FromLuaStep
    <3>2. Len(parents') = 1
      BY <3>1
    <3> QED BY <3>1, <3>2 DEF Layout
  <2>2. CASE given.type # "table"
    <3>1. parents' = <<>> /\ Layout(0)'
      BY <1>3, <2>2, FromLuaStep
    <3>2. Len(parents') = 0
      BY <3>1
    <3> QED BY <3>1, <3>2 DEF Layout
  <2> QED BY <2>1, <2>2
<1>4. CASE ~FromLua
  <2>1. parents # <<>>
    BY <1>2, <1>4 DEF LuaNext, End, AddLeaf, Skip, RefuseKey, Descend, Resume, AtEntry
  <2>2. PICK d \in Nat \ {0} : d = Len(parents)
    BY <1>2, <2>1, ListFront
  <2>3. Layout(d)
    BY <1>2, <2>2
  <2>4. ~RefuseKey
    BY NoRefusal
  <2>5. CASE End
    <3>1. Layout(d - 1)'
      BY <2>2, <2>3, <2>5, EntryStep DEF End
    <3>2. Len(parents') = d - 1
      BY <1>2, <2>1, <2>2, <2>5, ParentsSteps
    <3> QED BY <3>1, <3>2 DEF Layout
  <2>6. CASE AddLeaf \/ Skip
    <3>1. Layout(d)'
      BY <2>2, <2>3, <2>6, EntryStep DEF AddLeaf, Skip, AtEntry
    <3>2. Len(parents') = d
      BY <1>2, <2>1, <2>2, <2>6, ParentsSteps
    <3> QED BY <3>1, <3>2 DEF Layout
  <2>7. CASE Descend
    <3>1. Layout(d + 1)'
      BY <2>2, <2>3, <2>7, EntryStep DEF Descend, AtEntry
    <3>2. Len(parents') = d + 1
      BY <1>2, <2>1, <2>2, <2>7, ParentsSteps
    <3> QED BY <3>1, <3>2 DEF Layout
  <2>8. CASE Resume
    <3>1. Layout(d)'
      BY <2>2, <2>3, <2>8, ResumeStep
    <3>2. Len(parents') = d
      BY <1>2, <2>1, <2>2, <2>8, ParentsSteps
    <3> QED BY <3>1, <3>2 DEF Layout
  <2> QED BY <1>4, <2>4, <2>5, <2>6, <2>7, <2>8 DEF LuaNext
<1> QED BY <1>3, <1>4

\* Nothing is being read at first.
LEMMA WalkInit == ASSUME LuaInit PROVE WalkInv
<1>1. /\ stack = <<given>> /\ parents = <<>> /\ pc = "start"
  BY DEF LuaInit
<1>2. Len(stack) = 1 /\ Len(parents) = 0
  BY <1>1
<1>3. Layout(Len(parents))
  BY <1>1, <1>2 DEF Layout
<1>4. \A m \in Nat \ {0} : ~(2 * m <= Len(stack))
  BY <1>2
<1> QED BY <1>1, <1>2, <1>3, <1>4 DEF WalkInv

\* Every step keeps the walk so.
LEMMA WalkStep == ASSUME StackInv, WalkInv, [LuaNext]_lua PROVE WalkInv'
<1>1. CASE LuaNext
  <2>1. given' = given
    BY <1>1 DEF LuaNext, FromLua, End, AddLeaf, Skip, RefuseKey, Descend, Resume, Return, Enter
  <2>2. OddFirstKey(given)' <=> OddFirstKey(given)
    BY <2>1 DEF OddFirstKey, TablesIn
  <2>3. ~OddFirstKey(given)' => Layout(Len(parents))'
    BY <1>1, <2>2, DepthStep
  <2>4. \A i \in 1..Len(parents') :
          \/ IsContainer(parents[i])'
          \/ /\ parents'[i] = NullPtr /\ i = Len(parents') /\ pc' = "next"
             /\ stack'[Len(stack')] = Nil
    BY <1>1, ParentsStep DEF IsContainer, IsList
  <2>5. pc' = "done" => parents' = <<>>
    BY <1>1, ParentsStep
  <2>6. \A m \in Nat \ {0} : 2 * m <= Len(stack') =>
          Inside[stack'[2 * m - 1]] \subseteq Inside[given']
    BY <1>1, <2>1, RootedStep
  <2> QED BY <2>3, <2>4, <2>5, <2>6 DEF WalkInv
<1>2. CASE UNCHANGED lua
  BY <1>2 DEF lua, WalkInv, OddFirstKey, TablesIn, IsContainer, IsList, Layout, Frame
<1> QED BY <1>1, <1>2

\* The Lua stack is left as it was found, whatever table is given, but when
\* some table in it begins with a key that is no number or string.
THEOREM LuaStackKept == LuaSpec => []StackKept
<1>1. LuaInit => StackInv /\ WalkInv
  BY StackInit, WalkInit
<1>2. StackInv /\ WalkInv /\ [LuaNext]_lua => StackInv' /\ WalkInv'
  BY StackStep, WalkStep
<1>3. StackInv /\ WalkInv => StackKept
  <2> SUFFICES ASSUME StackInv, WalkInv PROVE StackKept
    OBVIOUS
  <2>1. stack[1] = given /\ stack \in Seq(Items)
    BY DEF StackInv
  <2>2. ASSUME pc = "done", ~OddFirstKey(given) PROVE stack = <<given>>
    <3>1. Layout(Len(parents)) /\ Len(parents) = 0
      BY <2>2 DEF WalkInv
    <3>2. Len(stack) = 1
      BY <2>2, <3>1 DEF Layout
    <3> QED BY <2>1, <3>2
  <2> QED BY <2>1, <2>2 DEF StackKept
<1> QED BY <1>1, <1>2, <1>3, PTL DEF LuaSpec

-----------------------------------------------------------------------------
(* What a table becomes. *)

\* What the n-th entry of t adds to the members r of those before it.
WithEntry(t, c, n, r) ==
  IF c[t.entries[n].val] = NullPtr THEN r
  ELSE IF ForArray(t) THEN Append(r, Pairing(<<>>, c[t.entries[n].val]))
  ELSE <<Pairing(t.entries[n].key.str, c[t.entries[n].val])>> \o r

\* The members made from the first n entries of a table.
LEMMA MembersSteps ==
  ASSUME NEW t \in Tables, NEW c
  PROVE  /\ Members(t, c)[0] = <<>>
         /\ \A n \in 1..Len(t.entries) :
              Members(t, c)[n] = WithEntry(t, c, n, Members(t, c)[n - 1])
         /\ \A n \in 0..Len(t.entries) : IsList(Members(t, c)[n])
<1> DEFINE N == Len(t.entries)
           E == { Pairing(<<>>, c[t.entries[n].val]) : n \in 1..N }
                \cup { Pairing(t.entries[n].key.str, c[t.entries[n].val]) : n \in 1..N }
           R == Seq(E)
           G == [n \in 1..N |-> [r \in R |-> WithEntry(t, c, n, r)]]
<1>1. N \in Nat
  BY TableEntries
<1>2. <<>> \in R
  OBVIOUS
<1>3. ASSUME NEW n \in 1..N, NEW r \in R PROVE WithEntry(t, c, n, r) \in R
  <2>1. PICK a, b : a = Pairing(<<>>, c[t.entries[n].val])
                    /\ b = Pairing(t.entries[n].key.str, c[t.entries[n].val])
    OBVIOUS
  <2>2. a \in E /\ b \in E
    BY <2>1
  <2> HIDE DEF E
  <2>3. Append(r, a) \in R /\ <<b>> \o r \in R
    BY <2>2
  <2> HIDE DEF R
  <2>4. WithEntry(t, c, n, r) \in {r, Append(r, a), <<b>> \o r}
    BY <2>1 DEF WithEntry
  <2> QED BY <2>3, <2>4
<1>4. PICK f : Iterates(f, G, N, R, <<>>)
  <2> HIDE DEF R
  <2>1. N \in Nat /\ <<>> \in R /\ Steps(G, N, R)
    BY <1>1, <1>2, <1>3 DEF Steps
  <2> HIDE DEF G, N
  <2> QED BY ONLY <2>1, Iterated
<1> HIDE DEF E
<1>5. f \in [0..N -> R] /\ f[0] = <<>>
      /\ \A n \in 1..N : f[n] = WithEntry(t, c, n, f[n - 1])
  <2> HIDE DEF R
  <2>1. \A n \in 1..N : n \in 0..N /\ n - 1 \in 0..N
    BY <1>1
  <2>2. f \in [0..N -> R] /\ f[0] = <<>> /\ \A n \in 1..N : f[n] = G[n][f[n - 1]]
    BY <1>4 DEF Iterates
  <2> QED BY <2>1, <2>2
<1>6. f = [n \in 0..N |-> IF n = 0 THEN <<>> ELSE WithEntry(t, c, n, f[n - 1])]
  <2> HIDE DEF R, G
  <2>1. \A n \in 0..N : n # 0 => n \in 1..N
    BY <1>1
  <2>2. \A n \in 0..N : f[n] = IF n = 0 THEN <<>> ELSE WithEntry(t, c, n, f[n - 1])
    BY <1>5, <2>1
  <2> HIDE DEF N
  <2> QED BY <1>5, <2>2
<1>7. Members(t, c) = CHOOSE ms : ms = [n \in 0..N |-> IF n = 0 THEN <<>>
                                                        ELSE WithEntry(t, c, n, ms[n - 1])]
  BY DEF Members, WithEntry
<1>8. \E ms : ms = [n \in 0..N |-> IF n = 0 THEN <<>> ELSE WithEntry(t, c, n, ms[n - 1])]
  <2> HIDE DEF N, G, R
  <2> QED BY <1>6
<1>9. Members(t, c) = [n \in 0..N |-> IF n = 0 THEN <<>>
                                       ELSE WithEntry(t, c, n, Members(t, c)[n - 1])]
  <2> HIDE DEF N, G, R
  <2> QED BY <1>7, <1>8
<1> HIDE DEF G, R
<1>10. 0 \in 0..N /\ \A n \in 1..N : n \in 0..N /\ n # 0 /\ n - 1 \in 0..N
  BY <1>1
<1> HIDE DEF N
<1>11. Members(t, c)[0] = <<>>
       /\ \A n \in 1..N : Members(t, c)[n] = WithEntry(t, c, n, Members(t, c)[n - 1])
  BY <1>9, <1>10
<1>12. \A n \in 0..N : Members(t, c)[n] \in R
  <2> DEFINE P == { n \in 0..N : Members(t, c)[n] \in R }
  <2>1. 0 \in P
    BY <1>2, <1>10, <1>11
  <2>2. ASSUME NEW n \in 0..N, n \in P, n < N PROVE n + 1 \in P
    <3>1. n + 1 \in 1..N /\ n + 1 - 1 = n
      BY <1>1, <2>2
    <3>2. Members(t, c)[n + 1] = WithEntry(t, c, n + 1, Members(t, c)[n])
      BY <1>11, <3>1
    <3>3. Members(t, c)[n + 1] \in R
      BY <1>3, <2>2, <3>1, <3>2
    <3> QED BY <1>10, <3>1, <3>3
  <2> HIDE DEF P
  <2>3. \A n \in 0..N : n \in P
    BY ONLY <1>1, <2>1, <2>2, BoundedInduction
  <2> QED BY <2>3 DEF P
<1>13. \A n \in 0..N : IsList(Members(t, c)[n])
  BY <1>12 DEF R, IsList
<1> QED BY <1>11, <1>13 DEF N

\* Only what the values of the entries become decides.
LEMMA MembersSame ==
  ASSUME NEW t \in Tables, NEW c, NEW d,
         \A i \in DOMAIN t.entries : c[t.entries[i].val] = d[t.entries[i].val]
  PROVE  Members(t, c)[Len(t.entries)] = Members(t, d)[Len(t.entries)]
<1> DEFINE N == Len(t.entries)
           P == { n \in 0..N : Members(t, c)[n] = Members(t, d)[n] }
<1>1. N \in Nat /\ DOMAIN t.entries = 1..N
  BY TableEntries
<1>2. 0 \in 0..N /\ N \in 0..N
  BY <1>1
<1>3. 0 \in P
  BY <1>2, MembersSteps
<1>4. ASSUME NEW n \in 0..N, n \in P, n < N PROVE n + 1 \in P
  <2>1. n + 1 \in 1..N /\ n + 1 \in 0..N /\ n + 1 - 1 = n
    BY <1>1, <1>4
  <2>2. PICK k \in 1..N : k = n + 1
    BY <2>1
  <2>3. Members(t, c)[k] = WithEntry(t, c, k, Members(t, c)[n])
        /\ Members(t, d)[k] = WithEntry(t, d, k, Members(t, d)[n])
    BY <2>1, <2>2, MembersSteps
  <2>4. c[t.entries[k].val] = d[t.entries[k].val]
    BY <1>1
  <2>5. \A r : WithEntry(t, c, k, r) = WithEntry(t, d, k, r)
    BY <2>4 DEF WithEntry
  <2> QED BY <1>4, <2>1, <2>2, <2>3, <2>5
<1> HIDE DEF P, N
<1>5. \A n \in 0..N : n \in P
  BY ONLY <1>1, <1>3, <1>4, BoundedInduction
<1> QED BY <1>2, <1>5 DEF P, N

\* What becomes of a table rests on what becomes of its values.
LEMMA AsJsonSame ==
  ASSUME NEW u \in LuaValues, NEW c, NEW d,
         u.type = "table" => \A i \in DOMAIN u.entries : c[u.entries[i].val] = d[u.entries[i].val]
  PROVE  AsJson(u, c) = AsJson(u, d)
<1>1. CASE u.type = "table"
  <2>1. u \in Tables
    BY <1>1 DEF Tables
  <2>2. Members(u, c)[Len(u.entries)] = Members(u, d)[Len(u.entries)]
    BY <1>1, <2>1, MembersSame
  <2> QED BY <2>2 DEF AsJson
<1>2. CASE u.type # "table"
  BY <1>2 DEF AsJson
<1> QED BY <1>1, <1>2

\* Converted is what its definition says, one level at a time.
LEMMA ConvertedUnfolds ==
  ASSUME NEW t \in LuaValues PROVE Converted[t] = AsJson(t, Converted)
<1> DEFINE Solves(f, n) == \A u \in LuaValues : LuaNesting[u] < n => f[u] = AsJson(u, f)
           P == { n \in Nat : \E f : Solves(f, n) }
<1>1. 0 \in P
  <2>1. Solves([u \in LuaValues |-> {}], 0)
    BY Nests
  <2> QED BY <2>1
<1>2. ASSUME NEW n \in Nat, n \in P PROVE n + 1 \in P
  <2>1. PICK f : Solves(f, n)
    BY <1>2
  <2> DEFINE g == [u \in LuaValues |-> AsJson(u, f)]
  <2>2. ASSUME NEW u \in LuaValues, LuaNesting[u] < n + 1 PROVE g[u] = AsJson(u, g)
    <3>1. ASSUME u.type = "table", NEW i \in DOMAIN u.entries
          PROVE  f[u.entries[i].val] = g[u.entries[i].val]
      <4>1. u.entries[i].val \in LuaValues /\ LuaNesting[u.entries[i].val] < LuaNesting[u]
            /\ LuaNesting[u.entries[i].val] \in Nat /\ LuaNesting[u] \in Nat
        BY <3>1, Nests
      <4>2. LuaNesting[u.entries[i].val] < n
        BY <2>2, <4>1
      <4> QED BY <2>1, <4>1, <4>2
    <3>2. AsJson(u, f) = AsJson(u, g)
      <4> HIDE DEF g
      <4> QED BY <3>1, AsJsonSame
    <3> QED BY <3>2
  <2>3. \E h : Solves(h, n + 1)
    BY <2>2
  <2>4. n + 1 \in Nat
    OBVIOUS
  <2> QED BY <2>3, <2>4
<1>3. MaxLuaNesting + 1 \in P
  <2> HIDE DEF P
  <2> QED BY <1>1, <1>2, ByNesting
<1>4. PICK f : Solves(f, MaxLuaNesting + 1)
  BY <1>3
<1> DEFINE h == [u \in LuaValues |-> f[u]]
<1>5. ASSUME NEW u \in LuaValues PROVE h[u] = AsJson(u, h)
  <2>1. f[u] = AsJson(u, f)
    BY <1>4, Nests
  <2>2. ASSUME u.type = "table", NEW i \in DOMAIN u.entries
        PROVE  f[u.entries[i].val] = h[u.entries[i].val]
    BY <2>2, Nests
  <2>3. AsJson(u, f) = AsJson(u, h)
    <3> HIDE DEF h
    <3> QED BY <2>2, AsJsonSame
  <2> QED BY <2>1, <2>3
<1>6. h = [u \in LuaValues |-> AsJson(u, h)]
  BY <1>5
<1>7. Converted = CHOOSE f_ : f_ = [u \in LuaValues |-> AsJson(u, f_)]
  BY DEF Converted
<1>8. Converted = [u \in LuaValues |-> AsJson(u, Converted)]
  <2> HIDE DEF h, Solves, P
  <2> QED BY <1>6, <1>7
<1> QED BY <1>8

\* What the first n entries of t make of it.
Part(t, n) == [type |-> IF ForArray(t) THEN "array" ELSE "object",
               members |-> Members(t, Converted)[n]]

\* All keys of t are of one kind, a number's or a string's.
OneKind(t) == \E kind \in Named : \A i \in DOMAIN t.entries : t.entries[i].key.type = kind

\* Part of a table becomes a container.
LEMMA PartContainer ==
  ASSUME NEW t \in Tables, NEW n \in 0..Len(t.entries)
  PROVE  IsContainer(Part(t, n))
<1>1. IsList(Members(t, Converted)[n])
  BY MembersSteps
<1> QED BY <1>1 DEF IsContainer, Part

\* Adding by a key: in front in an object, at the end in an array.
LEMMA AddedTo ==
  ASSUME NEW r, NEW k, NEW v
  PROVE  /\ k.type = "string" => Added([type |-> "object", members |-> r], k, v) =
                                   [type |-> "object", members |-> <<Pairing(k.str, v)>> \o r]
         /\ k.type # "string" => Added([type |-> "array", members |-> r], k, v) =
                                   [type |-> "array", members |-> Append(r, Pairing(<<>>, v))]
<1>1. PICK o, a : /\ o = [type |-> "object", members |-> r]
                  /\ a = [type |-> "array", members |-> r]
  OBVIOUS
<1>2. ASSUME k.type = "string"
      PROVE  Added(o, k, v) = [type |-> "object", members |-> <<Pairing(k.str, v)>> \o r]
  BY <1>1, <1>2 DEF Added
<1>3. ASSUME k.type # "string"
      PROVE  Added(a, k, v) = [type |-> "array", members |-> Append(r, Pairing(<<>>, v))]
  BY <1>1, <1>3 DEF Added
<1> QED BY <1>1, <1>2, <1>3

\* The entry after the first n, when it becomes something, is added; and the
\* first makes the parent of its kind.
LEMMA PartGrows ==
  ASSUME NEW t \in Tables, OneKind(t), NEW n \in DOMAIN t.entries,
         NEW v, v = Converted[t.entries[n].val]
  PROVE  /\ t.entries[n].key.type \in Named
         /\ v = NullPtr => Part(t, n) = Part(t, n - 1)
         /\ v # NullPtr => /\ Part(t, n) = Added(Part(t, n - 1), t.entries[n].key, v)
                           /\ Part(t, n) # Part(t, n - 1)
         /\ Part(t, 0) = IF t.entries[n].key.type = "number" THEN Arr(<<>>) ELSE Obj(<<>>)
<1> DEFINE k == t.entries[n].key
           ms == Members(t, Converted)
<1>1. n \in 1..Len(t.entries) /\ Len(t.entries) \in Nat /\ DOMAIN t.entries = 1..Len(t.entries)
  BY TableEntries
<1>2. n - 1 \in 0..Len(t.entries) /\ 1 \in DOMAIN t.entries
  BY <1>1
<1>3. ms[0] = <<>> /\ ms[n] = WithEntry(t, Converted, n, ms[n - 1]) /\ IsList(ms[n - 1])
  BY <1>1, <1>2, MembersSteps
<1>4. k.type \in Named /\ (ForArray(t) <=> k.type = "number")
  BY <1>2 DEF OneKind, ForArray
<1> HIDE DEF ms
<1>5. ASSUME v = NullPtr PROVE Part(t, n) = Part(t, n - 1)
  BY <1>3, <1>5 DEF Part, WithEntry, ms
<1>6. ASSUME v # NullPtr PROVE /\ Part(t, n) = Added(Part(t, n - 1), k, v)
                               /\ Part(t, n) # Part(t, n - 1)
  <2>1. PICK r : r = ms[n - 1] /\ IsList(r)
    BY <1>3
  <2>2. CASE k.type = "number"
    <3>1. ms[n] = Append(r, Pairing(<<>>, v))
      BY <1>3, <1>4, <1>6, <2>1, <2>2 DEF WithEntry
    <3>2. Part(t, n - 1) = [type |-> "array", members |-> r]
          /\ Part(t, n) = [type |-> "array", members |-> Append(r, Pairing(<<>>, v))]
      BY <1>4, <2>1, <2>2, <3>1 DEF Part, ms
    <3>3. Append(r, Pairing(<<>>, v)) # r
      BY <2>1, LongerByOne
    <3>4. k.type # "string"
      BY <2>2
    <3>5. Added(Part(t, n - 1), k, v) = Part(t, n)
      BY <3>2, <3>4, AddedTo
    <3> HIDE DEF k
    <3>6. Part(t, n).members # Part(t, n - 1).members
      BY <3>2, <3>3
    <3> QED BY <3>5, <3>6
  <2>3. CASE k.type = "string"
    <3>0. ~ForArray(t)
      BY <1>4, <2>3
    <3>1. ms[n] = <<Pairing(k.str, v)>> \o r
      BY <1>3, <1>6, <2>1, <3>0 DEF WithEntry
    <3>2. Part(t, n - 1) = [type |-> "object", members |-> r]
          /\ Part(t, n) = [type |-> "object", members |-> <<Pairing(k.str, v)>> \o r]
      BY <2>1, <3>0, <3>1 DEF Part, ms
    <3>3. <<Pairing(k.str, v)>> \o r # r
      BY <2>1, LongerByOne
    <3>5. Added(Part(t, n - 1), k, v) = Part(t, n)
      BY <2>3, <3>2, AddedTo
    <3> HIDE DEF k
    <3>6. Part(t, n).members # Part(t, n - 1).members
      BY <3>2, <3>3
    <3> QED BY <3>5, <3>6
  <2> QED BY <1>4, <2>2, <2>3 DEF Named
<1>7. Part(t, 0) = IF k.type = "number" THEN Arr(<<>>) ELSE Obj(<<>>)
  <2>1. Part(t, 0) = [type |-> IF ForArray(t) THEN "array" ELSE "object", members |-> <<>>]
    BY <1>3 DEF Part, ms
  <2>2. Arr(<<>>) = [type |-> "array", members |-> <<>>]
    <3>1. [i \in DOMAIN <<>> |-> [key |-> <<>>, val |-> <<>>[i]]] = <<>>
      OBVIOUS
    <3> QED BY <3>1 DEF Arr
  <2>3. Obj(<<>>) = [type |-> "object", members |-> <<>>]
    BY DEF Obj
  <2> HIDE DEF k
  <2> QED BY <1>4, <2>1, <2>2, <2>3
<1> QED BY <1>4, <1>5, <1>6, <1>7

\* What a leaf, and a value that is passed over, becomes.
LEMMA LeafConverted ==
  ASSUME NEW v \in LuaValues, v.type # "table"
  PROVE  /\ v.type \in Named => Converted[v] = Leaf(v) /\ Leaf(v) # NullPtr
         /\ v.type \notin Named => Converted[v] = NullPtr
<1>1. Converted[v] = AsJson(v, Converted)
  BY ConvertedUnfolds
<1>2. CASE v.type = "number"
  <2>1. Converted[v] = Num(v.num % UIntSize)
    BY <1>1, <1>2 DEF AsJson
  <2>2. Leaf(v) = Num(v.num % UIntSize)
    BY <1>2 DEF Leaf, ToUnsigned
  <2>3. \A n : Num(n) # NullPtr
    <3>1. \A n : Num(n).type # NullPtr.type
      BY DEF Num, NullPtr
    <3> QED BY <3>1
  <2> QED BY <1>2, <2>1, <2>2, <2>3 DEF Named
<1>3. CASE v.type = "string"
  <2>1. Converted[v] = v /\ Leaf(v) = v
    BY <1>1, <1>3 DEF AsJson, Leaf
  <2>2. v.type # NullPtr.type
    BY <1>3 DEF NullPtr
  <2> QED BY <1>3, <2>1, <2>2 DEF Named
<1>4. CASE v.type \notin Named
  BY <1>1, <1>4 DEF AsJson, Named
<1> QED BY <1>2, <1>3, <1>4 DEF Named

\* A table becomes NULL if it is empty, else all its parts.
LEMMA TableConverted ==
  ASSUME NEW t \in Tables
  PROVE  Converted[t] = IF t.entries = <<>> THEN NullPtr ELSE Part(t, Len(t.entries))
<1>1. t \in LuaValues /\ t.type = "table"
  BY TableEntries
<1>2. Converted[t] = AsJson(t, Converted)
  BY <1>1, ConvertedUnfolds
<1> QED BY <1>1, <1>2 DEF AsJson, Part

\* What is inside a Lua value is one.
LEMMA InsideValues ==
  ASSUME NEW t \in LuaValues PROVE Inside[t] \subseteq LuaValues
<1> DEFINE P == { n \in Nat : \A u \in LuaValues : LuaNesting[u] < n => Inside[u] \subseteq LuaValues }
<1>1. 0 \in P
  BY Nests
<1>2. ASSUME NEW n \in Nat, n \in P PROVE n + 1 \in P
  <2>1. ASSUME NEW u \in LuaValues, LuaNesting[u] < n + 1 PROVE Inside[u] \subseteq LuaValues
    <3>1. ASSUME u.type = "table", NEW i \in DOMAIN u.entries
          PROVE  Inside[u.entries[i].val] \subseteq LuaValues
      <4>1. u.entries[i].val \in LuaValues /\ LuaNesting[u.entries[i].val] < LuaNesting[u]
            /\ LuaNesting[u.entries[i].val] \in Nat /\ LuaNesting[u] \in Nat
        BY <3>1, Nests
      <4>2. LuaNesting[u.entries[i].val] < n
        BY <2>1, <4>1
      <4> QED BY <1>2, <4>1, <4>2
    <3>2. Inside[u] = {u} \cup (IF u.type = "table"
                                THEN UNION { Inside[u.entries[i].val] : i \in DOMAIN u.entries }
                                ELSE {})
      BY InsideUnfolds
    <3> QED BY <3>1, <3>2
  <2> QED BY <2>1
<1>3. MaxLuaNesting + 1 \in P
  <2> HIDE DEF P
  <2> QED BY <1>1, <1>2, ByNesting
<1> QED BY <1>3, Nests

\* Where keys are of one kind no first key is refused.
LEMMA UniformFirstKeys ==
  ASSUME given \in LuaValues, Uniform(given) PROVE ~OddFirstKey(given)
<1> SUFFICES ASSUME NEW u \in TablesIn(given), u.entries # <<>>, u.entries[1].key.type \notin Named
             PROVE  FALSE
  BY DEF OddFirstKey
<1>1. u \in Tables
  BY InsideValues DEF TablesIn, Tables
<1>2. 1 \in DOMAIN u.entries
  <2>1. u.entries \in Seq([key : LuaKeys, val : LuaValues]) /\ Len(u.entries) \in Nat
        /\ DOMAIN u.entries = 1..Len(u.entries)
    BY <1>1, TableEntries
  <2>2. Len(u.entries) # 0
    BY <2>1, EmptySeq
  <2> QED BY <2>1, <2>2
<1> QED BY <1>2 DEF Uniform

\* The parent of the i-th call while it waits for a table to be converted,
\* and while it is the innermost.
Waiting(s, i) == Part(s[2 * i - 1], Place(s[2 * i - 1], s[2 * i]) - 1)
Working(s, i) ==
  IF s[2 * i] = Nil THEN NullPtr ELSE Part(s[2 * i - 1], Place(s[2 * i - 1], s[2 * i]))

\* The invariant of what is made, where keys are of one kind: each parent is
\* what the entries before its place become, and nothing is lost.
MadeInv ==
  Uniform(given) =>
    /\ leaked = <<>>
    /\ pc = "start" => ret = NullPtr
    /\ \A i \in 1..Len(parents) :
         parents[i] = IF pc = "next" /\ i = Len(parents) THEN Working(stack, i)
                      ELSE Waiting(stack, i)
    /\ pc = "back" => ret = Converted[stack[Len(stack)]]
    /\ pc = "done" => ret = IF given.type = "table" THEN Converted[given] ELSE NullPtr

\* In the loop, when every table has one kind of keys: the innermost call's
\* table, and the parent made of its entries so far.
LEMMA AtWork ==
  ASSUME StackInv, WalkInv, MadeInv, Uniform(given), pc \in {"next", "back"},
         NEW d, d = Len(parents), NEW t, t = stack[2 * d - 1], NEW p, p = Place(t, stack[2 * d])
  PROVE  /\ d \in Nat \ {0} /\ Layout(d) /\ parents # <<>> /\ IsList(parents)
         /\ t \in Tables /\ OneKind(t) /\ IsPlace(t, stack[2 * d])
         /\ p \in 0..Len(t.entries) /\ (p = 0 <=> stack[2 * d] = Nil)
         /\ parents[d] = IF pc = "next" THEN Working(stack, d) ELSE Waiting(stack, d)
<1>1. given \in LuaValues /\ parents # <<>> /\ IsList(parents)
  BY DEF StackInv
<1>2. d \in Nat \ {0} /\ d \in 1..d
  BY <1>1, ListFront
<1>3. Layout(d)
  BY <1>1, UniformFirstKeys DEF WalkInv
<1>4. t \in Tables /\ IsPlace(t, stack[2 * d])
  BY <1>2, <1>3 DEF Layout, Frame
<1>5. p \in 0..Len(t.entries) /\ (stack[2 * d] = Nil => p = 0)
      /\ (stack[2 * d] # Nil => p \in DOMAIN t.entries)
  BY <1>4, PlaceFound
<1>6. p = 0 <=> stack[2 * d] = Nil
  BY <1>4, <1>5, TableEntries
<1>7. OneKind(t)
  <2>1. 2 * d <= Len(stack)
    BY <1>2, <1>3 DEF Layout
  <2>2. Inside[t] \subseteq Inside[given]
    BY <1>2, <2>1 DEF WalkInv
  <2>3. t \in TablesIn(given)
    BY <1>4, <2>2, InsideEntry DEF TablesIn
  <2> QED BY <2>3 DEF Uniform, OneKind
<1>8. parents[d] = IF pc = "next" THEN Working(stack, d) ELSE Waiting(stack, d)
  BY <1>2 DEF MadeInv
<1> QED BY <1>1, <1>2, <1>3, <1>4, <1>5, <1>6, <1>7, <1>8

\* At an entry the parent holds what the entries before it became.
LEMMA AtWorkEntry ==
  ASSUME StackInv, WalkInv, MadeInv, Uniform(given), AtEntry,
         NEW d, d = Len(parents), NEW t, t = stack[2 * d - 1], NEW p, p = Place(t, stack[2 * d])
  PROVE  /\ p + 1 \in DOMAIN t.entries /\ p \in Nat
         /\ key = t.entries[p + 1].key /\ val = t.entries[p + 1].val
         /\ key # Nil /\ Place(t, key) = p + 1
         /\ Parent = Part(t, p)
<1>1. pc = "next" /\ Left # <<>>
  BY DEF AtEntry
<1>2. /\ d \in Nat \ {0} /\ Layout(d) /\ parents # <<>> /\ IsList(parents)
      /\ t \in Tables /\ OneKind(t)
      /\ p \in 0..Len(t.entries) /\ (p = 0 <=> stack[2 * d] = Nil)
      /\ parents[d] = Working(stack, d)
  BY <1>1, AtWork
<1>3. /\ p + 1 \in DOMAIN t.entries /\ key = t.entries[p + 1].key /\ val = t.entries[p + 1].val
  BY <1>1, <1>2, AtHead
<1>4. key # Nil /\ Place(t, key) = p + 1
  BY <1>2, <1>3, PlaceOfEntry, TableEntries
<1>5. p \in Nat
  BY <1>2
<1>6. Last(parents) = parents[d]
  BY <1>2, ListFront
<1>7. Parent = Part(t, p)
  <2>1. CASE p = 0
    <3>1. Last(parents) = NullPtr
      BY <1>2, <1>6, <2>1 DEF Working
    <3>2. Parent = IF key.type = "number" THEN Arr(<<>>) ELSE Obj(<<>>)
      BY <3>1 DEF Parent
    <3>3. Part(t, 0) = IF key.type = "number" THEN Arr(<<>>) ELSE Obj(<<>>)
      BY <1>2, <1>3, PartGrows
    <3> QED BY <2>1, <3>2, <3>3
  <2>2. CASE p # 0
    <3>1. Last(parents) = Part(t, p)
      BY <1>2, <1>6, <2>2 DEF Working
    <3>2. Part(t, p) # NullPtr
      BY <1>2, PartContainer, ContainerNotNull
    <3> QED BY <3>1, <3>2 DEF Parent
  <2> QED BY <2>1, <2>2
<1> QED BY <1>3, <1>4, <1>5, <1>7

-----------------------------------------------------------------------------
(* The parents hold what the entries so far became. *)

\* What the calls that wait have is not touched.
LEMMA WaitingKept ==
  ASSUME StackInv, WalkInv, MadeInv, Uniform(given), pc \in {"next", "back"},
         NEW d, d = Len(parents),
         \A i \in 1..(2 * d - 1) : stack'[i] = stack[i], \A i \in 1..(d - 1) : parents'[i] = parents[i]
  PROVE  \A i \in 1..(d - 1) : parents'[i] = Waiting(stack', i)
<1> SUFFICES ASSUME NEW i \in 1..(d - 1) PROVE parents'[i] = Waiting(stack', i)
  OBVIOUS
<1>1. PICK t, p : t = stack[2 * d - 1] /\ p = Place(t, stack[2 * d])
  OBVIOUS
<1>2. d \in Nat \ {0}
  BY <1>1, AtWork
<1>3. i \in 1..d /\ i # d /\ 2 * i - 1 \in 1..(2 * d - 1) /\ 2 * i \in 1..(2 * d - 1)
  BY <1>2
<1>4. parents[i] = Waiting(stack, i)
  BY <1>3 DEF MadeInv
<1>5. stack'[2 * i - 1] = stack[2 * i - 1] /\ stack'[2 * i] = stack[2 * i]
  BY <1>3
<1> QED BY <1>4, <1>5 DEF Waiting

\* An entry that is no table is added to the parent,
LEMMA MadeLeaf ==
  ASSUME StackInv, WalkInv, MadeInv, Uniform(given), AddLeaf \/ Skip
  PROVE  /\ leaked' = <<>> /\ pc' = "next"
         /\ \A i \in 1..Len(parents') :
              parents'[i] = IF i = Len(parents') THEN Working(stack', i) ELSE Waiting(stack', i)
<1>1. PICK d, t : d = Len(parents) /\ t = stack[2 * d - 1]
  OBVIOUS
<1>2. PICK p : p = Place(t, stack[2 * d])
  OBVIOUS
<1>3. AtEntry /\ pc = "next"
  BY DEF AddLeaf, Skip, AtEntry
<1>4. /\ d \in Nat \ {0} /\ Layout(d) /\ parents # <<>> /\ IsList(parents)
      /\ t \in Tables /\ OneKind(t)
  BY <1>1, <1>2, <1>3, AtWork
<1>5. /\ p + 1 \in DOMAIN t.entries /\ p \in Nat
      /\ key = t.entries[p + 1].key /\ val = t.entries[p + 1].val
      /\ key # Nil /\ Place(t, key) = p + 1
      /\ Parent = Part(t, p)
  BY <1>1, <1>2, <1>3, AtWorkEntry
<1>6. Len(stack) = 2 * d
  BY <1>3, <1>4 DEF Layout
<1>7. stack'[2 * d] = key /\ \A i \in 1..(2 * d - 1) : stack'[i] = stack[i]
  <2>1. d \in Nat /\ d >= 1 /\ Len(stack) = 2 * d
    BY <1>4, <1>6
  <2> QED BY <2>1, StackSteps
<1>8. Len(parents') = d /\ pc' = "next" /\ \A i \in 1..(d - 1) : parents'[i] = parents[i]
  BY <1>1, <1>4, ParentsSteps
<1>9. PICK n, v : n = p + 1 /\ v = Converted[t.entries[n].val]
  OBVIOUS
<1>10. n - 1 = p /\ n \in DOMAIN t.entries
  BY <1>5, <1>9
<1>11. /\ v = NullPtr => Part(t, n) = Part(t, p)
       /\ v # NullPtr => Part(t, n) = Added(Part(t, p), key, v) /\ Part(t, n) # Part(t, p)
  BY <1>4, <1>5, <1>9, <1>10, PartGrows
<1>12. val \in LuaValues
  BY <1>4, <1>5, TableEntries
<1>13. leaked = <<>>
  BY DEF MadeInv
<1>14. parents'[d] = Part(t, n) /\ leaked' = <<>>
  <2>1. CASE AddLeaf
    <3>1. val.type \in Named /\ val.type # "table"
      BY <2>1 DEF AddLeaf, Named
    <3>2. v = Leaf(val) /\ v # NullPtr
      BY <1>5, <1>9, <1>12, <3>1, LeafConverted
    <3>3. parents'[d] = Added(Part(t, p), key, v)
      BY <1>1, <1>4, <1>5, <2>1, <3>2, ParentsSteps
    <3>4. leaked' = leaked
      <4>1. Added(Parent, key, Leaf(val)) # Parent
        BY <1>5, <1>11, <3>2
      <4> QED BY <2>1, <4>1 DEF AddLeaf, AddTo
    <3> QED BY <1>11, <1>13, <3>2, <3>3, <3>4
  <2>2. CASE Skip
    <3>1. val.type \notin Named /\ val.type # "table"
      BY <2>2 DEF Skip
    <3>2. v = NullPtr
      BY <1>5, <1>9, <1>12, <3>1, LeafConverted
    <3>3. parents'[d] = Part(t, p)
      BY <1>1, <1>4, <1>5, <2>2, ParentsSteps
    <3>4. leaked' = leaked
      BY <2>2 DEF Skip
    <3> QED BY <1>11, <1>13, <3>2, <3>3, <3>4
  <2> QED BY <2>1, <2>2
<1>15. Working(stack', d) = Part(t, n)
  <2>1. 2 * d - 1 \in 1..(2 * d - 1)
    BY <1>4
  <2>2. stack'[2 * d - 1] = t
    BY <1>1, <1>7, <2>1
  <2> QED BY <1>5, <1>7, <1>9, <2>2 DEF Working
<1>16. \A i \in 1..(d - 1) : parents'[i] = Waiting(stack', i)
  BY <1>1, <1>3, <1>7, <1>8, WaitingKept
<1>17. \A i \in 1..d : i = d \/ (i \in 1..(d - 1) /\ i # d)
  BY <1>4
<1> QED BY <1>8, <1>14, <1>15, <1>16, <1>17

\* a table begins a parent of its own,
LEMMA MadeDescend ==
  ASSUME StackInv, WalkInv, MadeInv, Uniform(given), Descend
  PROVE  /\ leaked' = <<>> /\ pc' = "next"
         /\ \A i \in 1..Len(parents') :
              parents'[i] = IF i = Len(parents') THEN Working(stack', i) ELSE Waiting(stack', i)
<1>1. PICK d, t : d = Len(parents) /\ t = stack[2 * d - 1]
  OBVIOUS
<1>2. PICK p : p = Place(t, stack[2 * d])
  OBVIOUS
<1>3. AtEntry /\ pc = "next"
  BY DEF Descend, AtEntry
<1>4. /\ d \in Nat \ {0} /\ Layout(d) /\ parents # <<>> /\ IsList(parents)
      /\ t \in Tables /\ OneKind(t)
  BY <1>1, <1>2, <1>3, AtWork
<1>5. p \in Nat /\ Place(t, key) = p + 1 /\ Parent = Part(t, p)
  BY <1>1, <1>2, <1>3, AtWorkEntry
<1>6. Len(stack) = 2 * d
  BY <1>3, <1>4 DEF Layout
<1>7. /\ stack'[2 * d] = key /\ stack'[2 * d + 2] = Nil
      /\ \A i \in 1..(2 * d - 1) : stack'[i] = stack[i]
  <2>1. d \in Nat /\ d >= 1 /\ Len(stack) = 2 * d
    BY <1>4, <1>6
  <2> QED BY <2>1, StackSteps
<1>8. /\ Len(parents') = d + 1 /\ pc' = "next"
      /\ \A i \in 1..(d - 1) : parents'[i] = parents[i]
      /\ parents'[d] = Part(t, p) /\ parents'[d + 1] = NullPtr
  BY <1>1, <1>4, <1>5, ParentsSteps
<1>9. Waiting(stack', d) = Part(t, p)
  <2>1. 2 * d - 1 \in 1..(2 * d - 1) /\ p + 1 - 1 = p
    BY <1>4, <1>5
  <2>2. stack'[2 * d - 1] = t
    BY <1>1, <1>7, <2>1
  <2> QED BY <1>5, <1>7, <2>1, <2>2 DEF Waiting
<1>10. Working(stack', d + 1) = NullPtr
  <2>1. 2 * (d + 1) = 2 * d + 2
    BY <1>4
  <2> QED BY <1>7, <2>1 DEF Working
<1>11. \A i \in 1..(d - 1) : parents'[i] = Waiting(stack', i)
  BY <1>1, <1>3, <1>7, <1>8, WaitingKept
<1>12. \A i \in 1..(d + 1) : i = d + 1 \/ (i = d /\ i # d + 1) \/ (i \in 1..(d - 1) /\ i # d + 1)
  BY <1>4
<1>13. leaked' = <<>>
  BY DEF MadeInv, Descend
<1> QED BY <1>8, <1>9, <1>10, <1>11, <1>12, <1>13

\* is added when it is done,
LEMMA MadeResume ==
  ASSUME StackInv, WalkInv, MadeInv, Uniform(given), Resume
  PROVE  /\ leaked' = <<>> /\ pc' = "next"
         /\ \A i \in 1..Len(parents') :
              parents'[i] = IF i = Len(parents') THEN Working(stack', i) ELSE Waiting(stack', i)
<1>1. PICK d, t : d = Len(parents) /\ t = stack[2 * d - 1]
  OBVIOUS
<1>2. PICK p : p = Place(t, stack[2 * d])
  OBVIOUS
<1>3. pc = "back"
  BY DEF Resume
<1>4. /\ d \in Nat \ {0} /\ Layout(d) /\ parents # <<>> /\ IsList(parents)
      /\ t \in Tables /\ OneKind(t) /\ IsPlace(t, stack[2 * d])
      /\ parents[d] = Waiting(stack, d)
  BY <1>1, <1>2, <1>3, AtWork
<1>5. Len(stack) = 2 * d + 1 /\ \A i \in 1..(2 * d) : stack'[i] = stack[i]
  BY <1>4, ResumeStep
<1>6. stack[2 * d] # Nil /\ stack[2 * d + 1] = t.entries[p].val
  <2>1. d \in 1..d /\ 2 * d < Len(stack)
    BY <1>4, <1>5
  <2> QED BY <1>1, <1>2, <1>4, <2>1 DEF Layout, Frame
<1>7. p \in DOMAIN t.entries /\ t.entries[p].key = stack[2 * d]
  BY <1>2, <1>4, <1>6, PlaceFound
<1>8. ret = Converted[t.entries[p].val]
  BY <1>3, <1>5, <1>6 DEF MadeInv
<1>9. FromTop(2) = stack[2 * d]
  <2>1. Len(stack) + 1 - 2 = 2 * d
    BY <1>4, <1>5
  <2> QED BY <2>1 DEF FromTop
<1>10. parents[d] = Part(t, p - 1)
  BY <1>1, <1>2, <1>4 DEF Waiting
<1>11. /\ ret = NullPtr => Part(t, p) = Part(t, p - 1)
       /\ ret # NullPtr => /\ Part(t, p) = Added(Part(t, p - 1), FromTop(2), ret)
                           /\ Part(t, p) # Part(t, p - 1)
  BY <1>4, <1>7, <1>8, <1>9, PartGrows
<1>12. /\ Len(parents') = d /\ pc' = "next"
       /\ \A i \in 1..(d - 1) : parents'[i] = parents[i]
       /\ parents'[d] = IF ret = NullPtr THEN parents[d] ELSE Added(parents[d], FromTop(2), ret)
  BY <1>1, <1>4, ParentsSteps
<1>13. parents'[d] = Part(t, p)
  BY <1>10, <1>11, <1>12
<1>14. leaked' = <<>>
  <2>1. leaked = <<>>
    BY DEF MadeInv
  <2>2. Last(parents) = Part(t, p - 1)
    BY <1>1, <1>4, <1>10, ListFront
  <2>3. ret # NullPtr => Added(Last(parents), FromTop(2), ret) # Last(parents)
    BY <1>11, <2>2
  <2> QED BY <2>1, <2>3 DEF Resume, AddTo
<1>15. Working(stack', d) = Part(t, p)
  <2>1. 2 * d - 1 \in 1..(2 * d) /\ 2 * d \in 1..(2 * d)
    BY <1>4
  <2>2. stack'[2 * d - 1] = t /\ stack'[2 * d] = stack[2 * d]
    BY <1>1, <1>5, <2>1
  <2> QED BY <1>2, <1>6, <2>2 DEF Working
<1>16. \A i \in 1..(2 * d - 1) : i \in 1..(2 * d)
  BY <1>4
<1>17. \A i \in 1..(d - 1) : parents'[i] = Waiting(stack', i)
  BY <1>1, <1>3, <1>5, <1>12, <1>16, WaitingKept
<1>18. \A i \in 1..d : i = d \/ (i \in 1..(d - 1) /\ i # d)
  BY <1>4
<1> QED BY <1>4, <1>12, <1>13, <1>14, <1>15, <1>17, <1>18

\* and is then converted as a whole.
LEMMA MadeEnd ==
  ASSUME StackInv, WalkInv, MadeInv, Uniform(given), End
  PROVE  /\ leaked' = <<>> /\ pc' \in {"back", "done"}
         /\ \A i \in 1..Len(parents') : parents'[i] = Waiting(stack', i)
         /\ pc' = "back" => ret' = Converted[stack'[Len(stack')]]
         /\ pc' = "done" => given.type = "table" /\ ret' = Converted[given]
<1>1. PICK d, t : d = Len(parents) /\ t = stack[2 * d - 1]
  OBVIOUS
<1>2. PICK p : p = Place(t, stack[2 * d])
  OBVIOUS
<1>3. pc = "next" /\ Left = <<>>
  BY DEF End
<1>4. /\ d \in Nat \ {0} /\ Layout(d) /\ parents # <<>> /\ IsList(parents)
      /\ t \in Tables /\ OneKind(t) /\ (p = 0 <=> stack[2 * d] = Nil)
      /\ parents[d] = Working(stack, d)
  BY <1>1, <1>2, <1>3, AtWork
<1>5. Len(stack) = 2 * d /\ p = Len(t.entries)
  BY <1>1, <1>2, <1>3, <1>4, AtHead
<1>6. /\ Len(stack') = 2 * d - 1 /\ stack' \in Seq(Items)
      /\ \A i \in 1..(2 * d - 1) : stack'[i] = stack[i]
  <2>1. d \in Nat /\ d >= 1 /\ Len(stack) = 2 * d
    BY <1>4, <1>5
  <2> QED BY <2>1, StackSteps
<1>7. /\ Len(parents') = d - 1 /\ pc' = IF d = 1 THEN "done" ELSE "back"
      /\ \A i \in 1..(d - 1) : parents'[i] = parents[i]
  BY <1>1, <1>3, <1>4, ParentsSteps
<1>8. \A i \in 1..(d - 1) : parents'[i] = Waiting(stack', i)
  BY <1>1, <1>3, <1>6, <1>7, WaitingKept
<1>9. ret' = parents[d]
  BY <1>1, <1>4, ListFront DEF End, Return
<1>10. parents[d] = Converted[t]
  <2>1. Converted[t] = IF t.entries = <<>> THEN NullPtr ELSE Part(t, Len(t.entries))
    BY <1>4, TableConverted
  <2>2. t.entries = <<>> <=> Len(t.entries) = 0
    BY <1>4, TableEntries, EmptySeq
  <2> QED BY <1>1, <1>2, <1>4, <1>5, <2>1, <2>2 DEF Working
<1>11. stack'[Len(stack')] = t
  <2>1. 2 * d - 1 \in 1..(2 * d - 1)
    BY <1>4
  <2> QED BY <1>1, <1>6, <2>1
<1>12. ASSUME d = 1 PROVE given = t /\ given.type = "table"
  <2>1. 2 * d - 1 = 1
    BY <1>12
  <2>2. stack[1] = given
    BY DEF StackInv
  <2> QED BY <1>1, <1>4, <2>1, <2>2, TableEntries
<1>13. leaked' = <<>>
  BY DEF MadeInv, End
<1> QED BY <1>7, <1>8, <1>9, <1>10, <1>11, <1>12, <1>13

\* The value given is a table or becomes NULL.
LEMMA MadeFromLua ==
  ASSUME StackInv, MadeInv, Uniform(given), FromLua
  PROVE  /\ leaked' = <<>> /\ pc' \in {"next", "done"}
         /\ \A i \in 1..Len(parents') :
              parents'[i] = NullPtr /\ i = Len(parents') /\ pc' = "next" /\ Working(stack', i) = NullPtr
         /\ pc' = "done" => ret' = NullPtr /\ given.type # "table"
<1>1. leaked' = <<>> /\ ret' = NullPtr
  BY DEF MadeInv, FromLua, Enter
<1>2. CASE given.type = "table"
  <2>1. stack' = <<given, Nil>> /\ parents' = <<NullPtr>> /\ pc' = "next"
    BY <1>2, FromLuaStep
  <2>2. stack'[2 * 1] = Nil /\ Len(parents') = 1 /\ parents'[1] = NullPtr
    BY <2>1
  <2>3. Working(stack', 1) = NullPtr
    BY <2>2 DEF Working
  <2>4. \A i \in 1..1 : i = 1
    OBVIOUS
  <2> QED BY <1>1, <2>1, <2>2, <2>3, <2>4
<1>3. CASE given.type # "table"
  <2>1. parents' = <<>> /\ pc' = "done"
    BY <1>3, FromLuaStep
  <2> QED BY <1>1, <1>3, <2>1
<1> QED BY <1>2, <1>3

\* Nothing is made at first.
LEMMA MadeInit == ASSUME LuaInit PROVE MadeInv
<1>1. parents = <<>> /\ pc = "start" /\ ret = NullPtr /\ leaked = <<>>
  BY DEF LuaInit
<1>2. Len(parents) = 0
  BY <1>1
<1> QED BY <1>1, <1>2 DEF MadeInv

\* Every step keeps what is made so.
LEMMA MadeStep == ASSUME StackInv, WalkInv, MadeInv, [LuaNext]_lua PROVE MadeInv'
<1>1. CASE UNCHANGED lua
  BY <1>1 DEF lua, MadeInv, Working, Waiting, Part, Place, Uniform, TablesIn
<1>2. CASE LuaNext
  <2>1. given' = given
    BY <1>2 DEF LuaNext, FromLua, End, AddLeaf, Skip, RefuseKey, Descend, Resume, Return, Enter
  <2> SUFFICES ASSUME Uniform(given)'
               PROVE  /\ leaked' = <<>> /\ pc' # "start"
                      /\ \A i \in 1..Len(parents') :
                           parents'[i] = IF pc' = "next" /\ i = Len(parents') THEN Working(stack', i)
                                         ELSE Waiting(stack', i)
                      /\ pc' = "back" => ret' = Converted[stack'[Len(stack')]]
                      /\ pc' = "done" => ret' = IF given'.type = "table" THEN Converted[given']
                                                ELSE NullPtr
    BY DEF MadeInv, Working, Waiting, Part, Place
  <2>2. Uniform(given)
    BY <2>1 DEF Uniform, TablesIn
  <2>3. ~RefuseKey
    BY <2>2, NoRefusal, UniformFirstKeys DEF StackInv
  <2>4. CASE FromLua
    BY <2>1, <2>2, <2>4, MadeFromLua
  <2>5. CASE End
    BY <2>1, <2>2, <2>5, MadeEnd
  <2>6. CASE AddLeaf \/ Skip
    BY <2>2, <2>6, MadeLeaf
  <2>7. CASE Descend
    BY <2>2, <2>7, MadeDescend
  <2>8. CASE Resume
    BY <2>2, <2>8, MadeResume
  <2> QED BY <1>2, <2>3, <2>4, <2>5, <2>6, <2>7, <2>8 DEF LuaNext
<1> QED BY <1>1, <1>2

\* Where no table mixes kinds of keys, the conversion gives what the
\* recursive description says, in order, and loses no value.
THEOREM LuaUniformConverted == LuaSpec => []UniformConverted
<1>1. LuaInit => StackInv /\ WalkInv /\ MadeInv
  BY StackInit, WalkInit, MadeInit
<1>2. StackInv /\ WalkInv /\ MadeInv /\ [LuaNext]_lua => StackInv' /\ WalkInv' /\ MadeInv'
  BY StackStep, WalkStep, MadeStep
<1>3. MadeInv => UniformConverted
  BY DEF MadeInv, UniformConverted
<1> QED BY <1>1, <1>2, <1>3, PTL DEF LuaSpec
=============================================================================
