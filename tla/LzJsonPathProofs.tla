-------------------------- MODULE LzJsonPathProofs --------------------------
(***************************************************************************)
(* Path lookup stays inside its buffer and inside the value, goes where    *)
(* the path says, and nowhere else, for every path and every value.        *)
(***************************************************************************)
EXTENDS LzJsonPath, ListLemmas

\* The characters kept are among those passed over; the '[' of an index
\* being read is not kept, which leaves room for the NUL.
Kept ==
  /\ Len(buf) < i
  /\ state = "reading array" => Len(buf) + 1 < i
  /\ result = "none" => i <= Len(path) + 1 /\ js # NULL

IInv == TypeOK /\ Kept /\ BufFits

-----------------------------------------------------------------------------

LEMMA PathType == ASSUME TypeOK
                  PROVE  /\ path \in Seq(Chars) /\ Len(path) \in Nat
                         /\ i \in 1..(Len(path) + 2)
                         /\ buf \in Seq(Chars \cup {"nul"}) /\ Len(buf) \in Nat
  <1>1. path \in Seq(Chars)
    BY DEF TypeOK
  <1>2. buf \in Seq(Chars \cup {"nul"})
    BY DEF TypeOK
  <1>3. i \in 1..(Len(path) + 2)
    BY DEF TypeOK
  <1>4. Len(path) \in Nat
    BY <1>1
  <1>5. Len(buf) \in Nat
    BY <1>2
  <1> QED  BY <1>1, <1>2, <1>3, <1>4, <1>5

LEMMA Numbers == ASSUME TypeOK PROVE Len(path) \in Nat /\ Len(buf) \in Nat /\ i \in Nat
  <1>1. Len(path) \in Nat /\ i \in 1..(Len(path) + 2) /\ Len(buf) \in Nat
    BY PathType
  <1> QED  BY <1>1

LEMMA ChType == ASSUME TypeOK, result = "none", Kept
                PROVE  /\ ch \in Chars \cup {"nul"}
                       /\ ch = "nul" <=> i = Len(path) + 1
  <1>1. path \in Seq(Chars) /\ i \in 1..(Len(path) + 2) /\ Len(path) \in Nat
    BY PathType
  <1>2. "nul" \notin Chars
    BY PathsAssumption
  <1>3. CASE i <= Len(path)
    <2>1. path[i] \in Chars
      BY <1>1, <1>3
    <2>2. ch \in Chars
      BY <1>3, <2>1 DEF ch
    <2>3. i # Len(path) + 1
      BY Numbers, <1>3
    <2> QED  BY <1>2, <2>2, <2>3
  <1>4. CASE ~(i <= Len(path))
    <2>1. i <= Len(path) + 1
      BY DEF Kept
    <2>2. i = Len(path) + 1
      BY Numbers, <1>4, <2>1
    <2>3. ch = "nul"
      BY <1>4 DEF ch
    <2> QED  BY <2>2, <2>3
  <1> QED  BY <1>3, <1>4

LEMMA MemberType == ASSUME NEW node, NEW key, Member(node, key) # NULL
                    PROVE  Member(node, key) \in Nodes
  BY NodesAssumption DEF Member

LEMMA ItemType == ASSUME NEW node, NEW index, Item(node, index) # NULL
                  PROVE  Item(node, index) \in Nodes
  <1>1. node \in Arrays /\ index + 1 \in DOMAIN Items[node]
        /\ Item(node, index) = Items[node][index + 1]
    BY DEF Item
  <1>2. Items[node] \in Seq(Nodes \cup {NULL})
    BY <1>1, NodesAssumption
  <1> QED  BY <1>1, <1>2

\* What a round does to the index and the result.
LEMMA Round == ASSUME TypeOK, Kept, result = "none", Advance,
                      prev' \in Nodes
               PROVE  /\ i' = i + 1 /\ i' \in 1..(Len(path') + 2)
                      /\ js' = js /\ path' = path
                      /\ result' \in Nodes \cup {NULL, "none"}
                      /\ result' = "none" => i' <= Len(path') + 1 /\ js' # NULL
  <1>1. ch = "nul" <=> i = Len(path) + 1
    BY ChType
  <1>2. i \in 1..(Len(path) + 2) /\ Len(path) \in Nat /\ i <= Len(path) + 1
    BY PathType DEF Kept
  <1>3. js' = js /\ path' = path /\ i' = i + 1
    BY DEF Advance
  <1>4. result' = IF ch # "nul" THEN "none" ELSE IF prev' # js THEN prev' ELSE NULL
    BY DEF Advance
  <1>5. "none" \notin Nodes \cup {NULL}
    BY NodesAssumption
  <1>6. result' = "none" => ch # "nul"
    BY <1>4, <1>5
  <1>7. i + 1 \in 1..(Len(path) + 2)
    BY <1>2
  <1>8. result' \in Nodes \cup {NULL, "none"}
    BY <1>4
  <1>9. ASSUME result' = "none" PROVE i' <= Len(path') + 1 /\ js' # NULL
    <2>1. i # Len(path) + 1
      BY <1>1, <1>6, <1>9
    <2>2. i + 1 <= Len(path) + 1
      BY <1>2, <2>1
    <2> QED  BY <1>3, <2>2 DEF Kept
  <1> QED  BY <1>3, <1>7, <1>8, <1>9

\* The same for the buffer when a character is appended to it.
LEMMA Stored == ASSUME NEW b \in Seq(Chars \cup {"nul"}), NEW c \in Chars \cup {"nul"}
                PROVE  /\ Append(b, c) \in Seq(Chars \cup {"nul"})
                       /\ Len(Append(b, c)) = Len(b) + 1
  OBVIOUS

LEMMA Emptied == /\ <<>> \in Seq(Chars \cup {"nul"}) /\ Len(<<>>) = 0
  OBVIOUS

LEMMA InitKept == Init => IInv
  <1> SUFFICES ASSUME Init PROVE IInv
    OBVIOUS
  <1>1. path \in Seq(Chars)
    BY PathsAssumption DEF Init
  <1>2. Len(path) \in Nat
    BY <1>1
  <1>3. "none" # NULL
    BY NodesAssumption
  <1>4. /\ js \in Nodes \cup {NULL} /\ prev = js /\ i = 1 /\ buf = <<>>
        /\ state = "reading key" /\ result = IF js = NULL THEN NULL ELSE "none"
    BY DEF Init
  <1>5. 1 \in 1..(Len(path) + 2)
    BY <1>2
  <1>6. TypeOK
    BY <1>1, <1>3, <1>4, <1>5, Emptied DEF TypeOK
  <1>e. buf = <<>> /\ i = 1
    BY <1>4
  <1>l. Len(buf) = 0
    BY <1>e
  <1>k. result = "none" => js # NULL
    BY <1>3, <1>4
  <1>m. 0 < 1 /\ 1 <= Len(path) + 1 /\ 0 <= Len(path)
    BY <1>2
  <1>7. Kept
    BY <1>4, <1>l, <1>k, <1>m DEF Kept
  <1>8. BufFits
    BY <1>l, <1>m DEF BufFits
  <1> QED  BY <1>6, <1>7, <1>8 DEF IInv

LEMMA StepKept == IInv /\ [Next]_vars => IInv'
  <1> SUFFICES ASSUME IInv, [Next]_vars PROVE IInv'
    OBVIOUS
  <1>o. TypeOK /\ Kept /\ BufFits
    BY DEF IInv
  <1>n. Len(path) \in Nat /\ Len(buf) \in Nat /\ i \in Nat
    BY <1>o, Numbers
  <1>s. buf \in Seq(Chars \cup {"nul"})
    BY <1>o, PathType
  <1>b. Len(buf) < i /\ Len(buf) <= Len(path)
    BY <1>o DEF Kept, BufFits
  <1>j. result = "none" => js \in Nodes /\ prev \in Nodes /\ i <= Len(path) + 1
    BY <1>o DEF TypeOK, Kept
  <1>c. result = "none" => ch \in Chars \cup {"nul"} /\ (ch = "nul" <=> i = Len(path) + 1)
    BY <1>o, ChType
  \* Every action but NotFound ends its round with Advance.
  <1>a. ASSUME result = "none", Advance, prev' \in Nodes,
               buf' \in Seq(Chars \cup {"nul"}), Len(buf') < i + 1,
               state' \in {"reading key", "reading array", "reading array end"},
               state' = "reading array" => Len(buf') < i,
               Len(buf') <= Len(path)
        PROVE  IInv'
    <2>1. /\ i' = i + 1 /\ i' \in 1..(Len(path') + 2)
          /\ js' = js /\ path' = path
          /\ result' \in Nodes \cup {NULL, "none"}
          /\ result' = "none" => i' <= Len(path') + 1 /\ js' # NULL
      BY <1>a, <1>o, Round
    <2>2. TypeOK'
      <3>1. js \in Nodes \cup {NULL} /\ path \in Seq(Chars)
        BY <1>o DEF TypeOK
      <3> QED  BY <1>a, <2>1, <3>1 DEF TypeOK
    <2>s. buf' \in Seq(Chars \cup {"nul"})
      BY <1>a
    <2>3. Len(buf') \in Nat
      BY <2>s
    <2>i. i' = i + 1 /\ i \in Nat
      BY <1>n, <2>1
    <2>l. Len(buf') < i + 1 /\ (state' = "reading array" => Len(buf') < i)
      BY <1>a
    <2>n. \A n \in Nat : (n < i + 1 <=> n < i') /\ (n < i <=> n + 1 < i')
      BY <2>i
    <2>4. Len(buf') < i' /\ (state' = "reading array" => Len(buf') + 1 < i')
      BY <2>3, <2>n, <2>l
    <2>5. Kept'
      BY <2>1, <2>4 DEF Kept
    <2>6. BufFits'
      BY <1>a, <2>1 DEF BufFits
    <2> QED  BY <2>2, <2>5, <2>6 DEF IInv
  \* Nothing is appended.
  <1>e. ASSUME result = "none", Advance, prev' \in Nodes,
               buf' = buf \/ buf' = <<>>,
               state' \in {"reading key", "reading array", "reading array end"}
        PROVE  IInv'
    <2>1. buf' \in Seq(Chars \cup {"nul"})
      BY <1>e, <1>s, Emptied
    <2>e. buf' = buf \/ buf' = <<>>
      BY <1>e
    <2>2. Len(buf') <= Len(buf)
      BY <2>e, <1>n
    <2>3. Len(buf') \in Nat
      BY <2>1
    <2>4. Len(buf') < i + 1 /\ Len(buf') < i /\ Len(buf') <= Len(path)
      BY <1>n, <1>b, <2>2, <2>3
    <2> QED  BY <1>a, <1>e, <2>1, <2>4
  \* The character is appended: there is room for it.
  <1>p. ASSUME result = "none", Advance, prev' \in Nodes, buf' = Append(buf, ch),
               state' = state, state \in {"reading key", "reading array"},
               state = "reading key" => ch # "nul"
        PROVE  IInv'
    <2>1. buf' \in Seq(Chars \cup {"nul"}) /\ Len(buf') = Len(buf) + 1
      BY <1>c, <1>p, <1>s, Stored
    <2>2. Len(buf) + 1 < i + 1
      BY <1>n, <1>b
    <2>3. CASE state = "reading key"
      <3>1. i # Len(path) + 1
        BY <1>c, <1>p, <2>3
      <3>i. i <= Len(path) + 1
        BY <1>j, <1>p
      <3>2. Len(buf) + 1 <= Len(path)
        BY <1>n, <1>b, <3>1, <3>i
      <3> QED  BY <1>a, <1>p, <2>1, <2>2, <2>3, <3>2
    <2>4. CASE state = "reading array"
      <3>1. Len(buf) + 1 < i
        BY <1>o, <2>4 DEF Kept
      <3>i. i <= Len(path) + 1
        BY <1>j, <1>p
      <3>2. Len(buf) + 1 <= Len(path)
        BY <1>n, <3>1, <3>i
      <3> QED  BY <1>a, <1>p, <2>1, <2>2, <2>4, <3>1, <3>2
    <2> QED  BY <1>p, <2>3, <2>4
  <1>1. CASE StartIndex
    <2>1. /\ result = "none" /\ state' = "reading array"
          /\ prev' = prev /\ buf' = buf /\ Advance
      BY <1>1 DEF StartIndex, Reading
    <2> QED  BY <1>e, <1>j, <2>1
  <1>2. CASE FindMember
    <2>1. /\ result = "none" /\ state' = state /\ state = "reading key"
          /\ prev' \in Nodes /\ buf' = <<>> /\ Advance
      BY <1>2, MemberType DEF FindMember, Reading
    <2> QED  BY <1>e, <2>1
  <1>3. CASE ReadKey
    <2>1. /\ result = "none" /\ state' = state /\ state = "reading key"
          /\ prev' = prev /\ buf' = Append(buf, ch) /\ ch # "nul" /\ Advance
      BY <1>3 DEF ReadKey, Reading
    <2> QED  BY <1>p, <1>j, <2>1
  <1>4. CASE FindItem
    <2>1. /\ result = "none" /\ state' = "reading array end"
          /\ prev' \in Nodes /\ buf' = <<>> /\ Advance
      BY <1>4, ItemType DEF FindItem, Reading
    <2> QED  BY <1>e, <2>1
  <1>5. CASE ReadIndex
    <2>1. /\ result = "none" /\ state' = state /\ state = "reading array"
          /\ prev' = prev /\ buf' = Append(buf, ch) /\ Advance
      BY <1>5 DEF ReadIndex, Reading
    <2> QED  BY <1>p, <1>j, <2>1
  <1>6. CASE AfterIndex
    <2>1. /\ result = "none" /\ state' = "reading key"
          /\ prev' = prev /\ buf' = buf /\ Advance
      BY <1>6 DEF AfterIndex, Reading
    <2> QED  BY <1>e, <1>j, <2>1
  <1>7. CASE NotFound
    <2>1. /\ result' = NULL /\ UNCHANGED <<js, path, i, prev, buf, state>>
      BY <1>7 DEF NotFound
    <2>2. NULL # "none"
      BY NodesAssumption
    <2>3. TypeOK'
      BY <1>o, <2>1 DEF TypeOK
    <2> QED  BY <1>o, <2>1, <2>2, <2>3 DEF IInv, Kept, BufFits
  <1>8. CASE UNCHANGED vars
    <2>1. UNCHANGED <<js, path, i, prev, buf, state, result>>
      BY <1>8 DEF vars
    <2>2. TypeOK'
      BY <1>o, <2>1 DEF TypeOK
    <2> QED  BY <1>o, <2>1, <2>2 DEF IInv, Kept, BufFits
  <1> QED  BY <1>1, <1>2, <1>3, <1>4, <1>5, <1>6, <1>7, <1>8 DEF Next

LEMMA AlwaysKept == Spec => []IInv
  <1> QED  BY InitKept, StepKept, PTL DEF Spec

\* Every variable keeps its type, and the pointer that lz_json_path_get
\* moves is never NULL while it reads: it is looked into without a check.
THEOREM TypeCorrect == Spec => []TypeOK
  <1>1. IInv => TypeOK
    BY DEF IInv
  <1> QED  BY AlwaysKept, <1>1, PTL

\* The characters lz_json_path_get keeps, and the NUL it puts after them,
\* fit the strlen(path) + 1 bytes it has for them, whatever the path.
THEOREM BufferSuffices == Spec => []BufFits
  <1>1. IInv => BufFits
    BY DEF IInv
  <1> QED  BY AlwaysKept, <1>1, PTL

-----------------------------------------------------------------------------
(* Numbers. *)

\* The functions that NumberOf and Accumulated define by recursion.
NumberFn(text) ==
  CHOOSE value : value =
    [k \in 0..Len(text) |-> IF k = 0 THEN 0 ELSE value[k - 1] * 10 + DigitValue(text[k])]
AccumulatedFn(line) ==
  CHOOSE value : value =
    [n \in 0..Len(line) |->
       IF n = 0 THEN 0
       ELSE ToSigned((value[n - 1] * 10 + DigitValue(line[n])) % UIntSize)]

LEMMA DigitRange == ASSUME NEW c \in DigitSet PROVE DigitValue(c) \in 0..9
  <1>1. PICK j \in 1..10 : c = Digits[j]
    BY DEF DigitSet
  <1>2. j - 1 \in 0..9 /\ Digits[(j - 1) + 1] = c
    BY <1>1
  <1> HIDE DEF DigitSet, Digits
  <1>3. \E d \in 0..9 : Digits[d + 1] = c
    BY <1>2
  <1> QED  BY <1>3 DEF DigitValue

LEMMA NumberSteps ==
  ASSUME NEW text \in Seq(DigitSet)
  PROVE  /\ NumberOf(text) = NumberFn(text)[Len(text)] /\ Len(text) \in Nat
         /\ NumberFn(text)[0] = 0
         /\ \A k \in 1..Len(text) :
              /\ DigitValue(text[k]) \in 0..9
              /\ NumberFn(text)[k] = NumberFn(text)[k - 1] * 10 + DigitValue(text[k])
  <1> DEFINE N == Len(text)
             G == [k \in 1..N |-> [v \in Int |-> v * 10 + DigitValue(text[k])]]
  <1>1. N \in Nat /\ \A k \in 1..N : text[k] \in DigitSet
    BY LenProperties, ElementOfSeq
  <1>2. \A k \in 1..N : DigitValue(text[k]) \in 0..9
    BY <1>1, DigitRange
  <1>3. G \in [1..N -> [Int -> Int]]
    <2>1. \A k \in 1..N : DigitValue(text[k]) \in Int
      BY <1>2
    <2> QED  BY <2>1
  <1>4. PICK f : Iterates(f, G, N, Int, 0)
    <2>1. N \in Nat /\ 0 \in Int /\ Steps(G, N, Int)
      BY <1>1, <1>3 DEF Steps
    <2> HIDE DEF G, N
    <2> QED  BY ONLY <2>1, Iterated
  <1>5. f = [k \in 0..N |-> IF k = 0 THEN 0 ELSE f[k - 1] * 10 + DigitValue(text[k])]
    <2>1. \A k \in 0..N : k # 0 => k \in 1..N /\ k - 1 \in 0..N
      BY <1>1
    <2>2. \A k \in 0..N : f[k] = IF k = 0 THEN 0 ELSE f[k - 1] * 10 + DigitValue(text[k])
      BY <1>4, <2>1 DEF Iterates
    <2> QED  BY <1>4, <2>2 DEF Iterates
  <1>6. NumberFn(text) = [k \in 0..N |-> IF k = 0 THEN 0
                                         ELSE NumberFn(text)[k - 1] * 10 + DigitValue(text[k])]
    BY <1>5 DEF NumberFn
  <1>7. NumberOf(text) = NumberFn(text)[N]
    BY DEF NumberOf, NumberFn
  <1>8. 0 \in 0..N /\ \A k \in 1..N : k \in 0..N /\ k # 0
    BY <1>1
  <1> HIDE DEF N
  <1>9. NumberFn(text)[0] = 0
        /\ \A k \in 1..N : NumberFn(text)[k] = NumberFn(text)[k - 1] * 10 + DigitValue(text[k])
    BY <1>6, <1>8
  <1> QED  BY <1>1, <1>2, <1>7, <1>9 DEF N

LEMMA AccumulatedSteps ==
  ASSUME NEW text \in Seq(DigitSet)
  PROVE  /\ Accumulated(text) = AccumulatedFn(text)[Len(text)]
         /\ AccumulatedFn(text)[0] = 0
         /\ \A k \in 1..Len(text) :
              AccumulatedFn(text)[k] =
                ToSigned((AccumulatedFn(text)[k - 1] * 10 + DigitValue(text[k])) % UIntSize)
  <1> DEFINE N == Len(text)
             R == { ToSigned(u) : u \in Int } \cup {0}
             G == [k \in 1..N |-> [v \in R |-> ToSigned((v * 10 + DigitValue(text[k])) % UIntSize)]]
  <1>1. N \in Nat /\ \A k \in 1..N : text[k] \in DigitSet
    BY LenProperties, ElementOfSeq
  <1>2. \A k \in 1..N : DigitValue(text[k]) \in 0..9
    BY <1>1, DigitRange
  <1>a. UIntSize \in Nat /\ IntMax \in Int /\ UIntSize # 0
    BY IntAssumption
  <1>b. R \subseteq Int
    BY <1>a DEF ToSigned
  <1>3. G \in [1..N -> [R -> R]]
    <2>1. ASSUME NEW k \in 1..N, NEW v \in R
          PROVE  (v * 10 + DigitValue(text[k])) % UIntSize \in Int
      <3>1. DigitValue(text[k]) \in Int /\ v \in Int
        BY <1>2, <1>b
      <3>2. v * 10 + DigitValue(text[k]) \in Int
        BY <3>1
      <3>3. \A x \in Int : x % UIntSize \in Int
        BY <1>a
      <3> QED  BY <3>2, <3>3
    <2>2. \A k \in 1..N : \A v \in R : ToSigned((v * 10 + DigitValue(text[k])) % UIntSize) \in R
      BY <2>1
    <2> HIDE DEF R
    <2> QED  BY <2>2
  <1>4. PICK f : Iterates(f, G, N, R, 0)
    <2>1. N \in Nat /\ 0 \in R /\ Steps(G, N, R)
      BY <1>1, <1>3 DEF Steps
    <2> HIDE DEF G, N, R
    <2> QED  BY ONLY <2>1, Iterated
  <1> HIDE DEF R
  <1>5. f = [n \in 0..N |-> IF n = 0 THEN 0
                            ELSE ToSigned((f[n - 1] * 10 + DigitValue(text[n])) % UIntSize)]
    <2>1. \A k \in 0..N : k # 0 => k \in 1..N /\ k - 1 \in 0..N
      BY <1>1
    <2>2. \A k \in 0..N : f[k] = IF k = 0 THEN 0
                                 ELSE ToSigned((f[k - 1] * 10 + DigitValue(text[k])) % UIntSize)
      BY <1>4, <2>1 DEF Iterates
    <2> QED  BY <1>4, <2>2 DEF Iterates
  <1>6. AccumulatedFn(text) =
          [n \in 0..N |->
             IF n = 0 THEN 0
             ELSE ToSigned((AccumulatedFn(text)[n - 1] * 10 + DigitValue(text[n])) % UIntSize)]
    BY <1>5 DEF AccumulatedFn
  <1>7. Accumulated(text) = AccumulatedFn(text)[N]
    BY DEF Accumulated, AccumulatedFn
  <1>8. 0 \in 0..N /\ \A k \in 1..N : k \in 0..N /\ k # 0
    BY <1>1
  <1> HIDE DEF N
  <1>9. AccumulatedFn(text)[0] = 0
        /\ \A k \in 1..N : AccumulatedFn(text)[k] =
             ToSigned((AccumulatedFn(text)[k - 1] * 10 + DigitValue(text[k])) % UIntSize)
    BY <1>6, <1>8
  <1> QED  BY <1>7, <1>9 DEF N

\* The number that digits write is a natural, and only grows with more of them.
LEMMA NumberRead ==
  ASSUME NEW text \in Seq(DigitSet)
  PROVE  /\ NumberOf(text) \in Nat
         /\ \A k \in 0..Len(text) : /\ NumberFn(text)[k] \in Nat
                                    /\ NumberFn(text)[k] <= NumberFn(text)[Len(text)]
  <1> DEFINE N == Len(text)
             v == NumberFn(text)
             Digit(k) == DigitValue(text[k])
  <1>1. /\ NumberOf(text) = v[N] /\ N \in Nat /\ v[0] = 0
        /\ \A k \in 1..N : Digit(k) \in 0..9 /\ v[k] = v[k - 1] * 10 + Digit(k)
    BY NumberSteps
  <1> HIDE DEF N, v, Digit
  <1>2. \A k \in 0..N : v[k] \in Nat
    <2> DEFINE P == { k \in 0..N : v[k] \in Nat }
    <2>1. 0 \in P
      BY <1>1
    <2>2. ASSUME NEW k \in 0..N, k \in P, k < N PROVE k + 1 \in P
      <3>1. k + 1 \in 1..N /\ k + 1 \in 0..N /\ (k + 1) - 1 = k
        BY <1>1, <2>2
      <3>2. v[k + 1] = v[k] * 10 + Digit(k + 1) /\ Digit(k + 1) \in 0..9 /\ v[k] \in Nat
        BY <1>1, <2>2, <3>1
      <3>3. v[k + 1] \in Nat
        BY <3>2
      <3> QED  BY <3>1, <3>3
    <2> HIDE DEF P
    <2>3. \A k \in 0..N : k \in P
      BY <1>1, <2>1, <2>2, BoundedInduction
    <2> QED  BY <2>3 DEF P
  <1>3. \A k \in 0..N : v[k] <= v[N]
    <2> DEFINE P == { k \in 0..N : v[N - k] <= v[N] }
    <2>1. 0 \in P
      <3>1. 0 \in 0..N /\ N - 0 = N /\ N \in 0..N
        BY <1>1
      <3>2. v[N] \in Nat
        BY <1>2, <3>1
      <3>3. v[N] <= v[N]
        BY <3>2
      <3> QED  BY <3>1, <3>3
    <2>2. ASSUME NEW k \in 0..N, k \in P, k < N PROVE k + 1 \in P
      <3>1. N - k \in 1..N /\ k + 1 \in 0..N /\ (N - k) - 1 = N - (k + 1)
            /\ N - (k + 1) \in 0..N /\ N \in 0..N
        BY <1>1, <2>2
      <3>2. /\ v[N - k] = v[N - (k + 1)] * 10 + Digit(N - k) /\ Digit(N - k) \in 0..9
        BY <1>1, <3>1
      <3>3. v[N - (k + 1)] \in Nat /\ v[N] \in Nat /\ v[N - k] <= v[N]
        BY <1>2, <2>2, <3>1
      <3>4. v[N - (k + 1)] <= v[N]
        BY <3>2, <3>3
      <3> QED  BY <3>1, <3>4
    <2> HIDE DEF P
    <2>3. \A k \in 0..N : k \in P
      BY <1>1, <2>1, <2>2, BoundedInduction
    <2>4. \A k \in 0..N : N - k \in 0..N /\ N - (N - k) = k
      BY <1>1
    <2> QED  BY <2>3, <2>4 DEF P
  <1>4. N \in 0..N
    BY <1>1
  <1> QED  BY <1>1, <1>2, <1>3, <1>4 DEF N, v

\* lz_atoi reads a run of digits as the number it writes, if an int holds it.
LEMMA AtoiReads ==
  ASSUME NEW text \in Seq(DigitSet), NumberOf(text) <= IntMax
  PROVE  Atoi(text) = NumberOf(text) /\ NumberOf(text) \in Nat /\ NumberOf(text) < UIntSize
  <1> DEFINE N == Len(text)
             v == NumberFn(text)
             a == AccumulatedFn(text)
             Digit(k) == DigitValue(text[k])
  <1>1. /\ NumberOf(text) = v[N] /\ N \in Nat /\ v[0] = 0
        /\ \A k \in 1..N : Digit(k) \in 0..9 /\ v[k] = v[k - 1] * 10 + Digit(k)
    BY NumberSteps
  <1>2. /\ Accumulated(text) = a[N] /\ a[0] = 0
        /\ \A k \in 1..N : a[k] = ToSigned((a[k - 1] * 10 + Digit(k)) % UIntSize)
    BY AccumulatedSteps
  <1>3. UIntSize \in Nat /\ IntMax \in Nat /\ IntMax < UIntSize
    BY IntAssumption
  <1>n. DOMAIN text = 1..N
    BY LenProperties
  <1> HIDE DEF N, v, a, Digit
  <1>4. \A k \in 0..N : v[k] \in Nat /\ v[k] <= v[N]
    BY NumberRead DEF N, v
  <1>6. \A x \in 0..IntMax : x % UIntSize = x /\ ToSigned(x) = x
    <2>1. \A x \in 0..IntMax : x % UIntSize = x
      BY <1>3
    <2>2. \A x \in 0..IntMax : ~(x > IntMax)
      BY <1>3
    <2> QED  BY <2>1, <2>2 DEF ToSigned
  <1>7. \A k \in 0..N : a[k] = v[k]
    <2> DEFINE P == { k \in 0..N : a[k] = v[k] }
    <2>1. 0 \in P
      BY <1>1, <1>2
    <2>2. ASSUME NEW k \in 0..N, k \in P, k < N PROVE k + 1 \in P
      <3>1. k + 1 \in 1..N /\ k + 1 \in 0..N /\ (k + 1) - 1 = k /\ N \in 0..N
        BY <1>1, <2>2
      <3>2. v[k + 1] = v[k] * 10 + Digit(k + 1) /\ a[k] = v[k]
        BY <1>1, <2>2, <3>1
      <3>3. a[k + 1] = ToSigned(v[k + 1] % UIntSize)
        BY <1>2, <3>1, <3>2
      <3>4. v[k + 1] \in Nat /\ v[k + 1] <= v[N] /\ v[N] \in Nat /\ v[N] <= IntMax
        BY <1>1, <1>4, <3>1
      <3>5. v[k + 1] \in 0..IntMax
        BY <1>3, <3>4
      <3>6. a[k + 1] = v[k + 1]
        BY <1>6, <3>3, <3>5
      <3> QED  BY <3>1, <3>6
    <2> HIDE DEF P
    <2>3. \A k \in 0..N : k \in P
      BY <1>1, <2>1, <2>2, BoundedInduction
    <2> QED  BY <2>3 DEF P
  <1>8. N \in 0..N
    BY <1>1
  <1>9. Accumulated(text) = NumberOf(text) /\ NumberOf(text) \in Nat
    BY <1>1, <1>2, <1>4, <1>7, <1>8
  <1>10. \A k \in DOMAIN text : text[k] \in DigitSet
    BY <1>n, ElementOfSeq DEF N
  <1>11. ~(Accumulated(text) < 0)
    BY <1>9
  <1>12. Atoi(text) = NumberOf(text)
    BY <1>9, <1>10, <1>11 DEF Atoi
  <1> QED  BY <1>3, <1>9, <1>12

-----------------------------------------------------------------------------
(* What a path writes. *)

\* The characters of paths and what stands between them.
Signs == Chars \cup {".", "[", "]"} \cup DigitSet

\* The functions that Written and Follow define by recursion.
WrittenFn(steps) ==
  CHOOSE text : text =
    [k \in 0..Len(steps) |->
       CASE k = 0 -> <<>>
         [] k = 1 -> StepText(steps[1])
         [] OTHER -> text[k - 1] \o <<".">> \o StepText(steps[k])]
FollowFn(node, steps) ==
  CHOOSE at : at =
    [k \in 0..Len(steps) |->
       IF k = 0 THEN node
       ELSE IF steps[k].kind = "key" THEN Member(at[k - 1], steps[k].text)
       ELSE Nth(at[k - 1], NumberOf(steps[k].text) % UIntSize)]

\* The characters before step k.
Begin(steps, k) == IF k = 1 THEN 0 ELSE Len(WrittenFn(steps)[k - 1]) + 1

LEMMA StepFacts ==
  ASSUME NEW steps \in StepSeqs
  PROVE  /\ Len(steps) \in Nat /\ Len(steps) > 0
         /\ \A k \in 1..Len(steps) :
              /\ steps[k].kind \in {"key", "index"}
              /\ steps[k].text \in Seq(Signs) /\ Len(steps[k].text) \in Nat
              /\ StepText(steps[k]) \in Seq(Signs) /\ Len(StepText(steps[k])) \in Nat
  <1>1. /\ steps # <<>> /\ steps \in Seq([kind : {"key", "index"}, text : Seq(Chars)])
    BY StepsAssumption
  <1>2. Len(steps) \in Nat /\ Len(steps) > 0 /\ DOMAIN steps = 1..Len(steps)
    <2>1. Len(steps) \in Nat /\ DOMAIN steps = 1..Len(steps)
      BY <1>1, LenProperties
    <2>2. Len(steps) # 0
      BY <1>1, EmptySeq
    <2> QED  BY <2>1, <2>2
  <1>3. ASSUME NEW k \in 1..Len(steps)
        PROVE  /\ steps[k].kind \in {"key", "index"}
               /\ steps[k].text \in Seq(Signs) /\ Len(steps[k].text) \in Nat
               /\ StepText(steps[k]) \in Seq(Signs) /\ Len(StepText(steps[k])) \in Nat
    <2>1. steps[k] \in [kind : {"key", "index"}, text : Seq(Chars)]
      BY <1>1, ElementOfSeq
    <2>2. steps[k].kind \in {"key", "index"} /\ steps[k].text \in Seq(Chars)
      BY <2>1
    <2> DEFINE t == steps[k].text
    <2>3. t \in Seq(Signs) /\ <<"[">> \in Seq(Signs) /\ <<"]">> \in Seq(Signs)
      <3>1. Chars \subseteq Signs /\ "[" \in Signs /\ "]" \in Signs
        BY DEF Signs
      <3> HIDE DEF Signs
      <3> QED  BY <2>2, <3>1
    <2> HIDE DEF Signs, t
    <2>4. <<"[">> \o t \in Seq(Signs)
      BY <2>3, ConcatProperties
    <2>5. <<"[">> \o t \o <<"]">> \in Seq(Signs)
      BY <2>3, <2>4, ConcatProperties
    <2>6. StepText(steps[k]) \in Seq(Signs)
      BY <2>3, <2>5 DEF StepText, t
    <2>7. Len(t) \in Nat /\ Len(StepText(steps[k])) \in Nat
      BY <2>3, <2>6, LenProperties
    <2> QED  BY <2>2, <2>3, <2>6, <2>7 DEF t
  <1> QED  BY <1>2, <1>3

\* A key is written as it is, without dots and opening brackets.
LEMMA KeyText ==
  ASSUME NEW steps \in StepSeqs, NEW k \in 1..Len(steps), steps[k].kind = "key"
  PROVE  /\ StepText(steps[k]) = steps[k].text
         /\ \A j \in 1..Len(steps[k].text) : steps[k].text[j] \notin {".", "["}
  <1>1. k \in DOMAIN steps
    <2>1. steps \in Seq([kind : {"key", "index"}, text : Seq(Chars)])
      BY StepsAssumption
    <2> QED  BY <2>1, LenProperties
  <1>2. steps[k].text \in Seq(Chars \ {".", "["})
    BY <1>1, StepsAssumption
  <1>3. \A j \in 1..Len(steps[k].text) : steps[k].text[j] \in Chars \ {".", "["}
    BY <1>2, ElementOfSeq
  <1> QED  BY <1>3 DEF StepText

\* An index is written as its digits, in brackets.
LEMMA IndexText ==
  ASSUME NEW steps \in StepSeqs, NEW k \in 1..Len(steps), steps[k].kind = "index"
  PROVE  LET t == steps[k].text
             w == StepText(steps[k])
         IN /\ t \in Seq(DigitSet)
            /\ Len(w) = Len(t) + 2 /\ w[1] = "[" /\ w[Len(t) + 2] = "]"
            /\ \A j \in 1..Len(t) : w[j + 1] = t[j] /\ t[j] # "]"
  <1> DEFINE t == steps[k].text
             n == Len(t)
             open == <<"[">>
             w == open \o t \o <<"]">>
  <1>1. k \in DOMAIN steps
    <2>1. steps \in Seq([kind : {"key", "index"}, text : Seq(Chars)])
      BY StepsAssumption
    <2> QED  BY <2>1, LenProperties
  <1>2. t \in Seq(DigitSet)
    BY <1>1, StepsAssumption
  <1>3. \A j \in 1..n : t[j] \in DigitSet
    BY <1>2, ElementOfSeq
  <1>4. t \in Seq(Signs) /\ n \in Nat
    BY StepFacts
  <1>5. open \in Seq(Signs) /\ <<"]">> \in Seq(Signs) /\ Len(open) = 1 /\ Len(<<"]">>) = 1
        /\ open[1] = "[" /\ <<"]">>[1] = "]"
    BY DEF Signs
  <1>6. "]" \notin DigitSet
    BY DEF DigitSet, Digits
  <1>7. StepText(steps[k]) = w
    BY DEF StepText
  <1> HIDE DEF t, n, open
  <1>8. /\ open \o t \in Seq(Signs) /\ Len(open \o t) = 1 + n
        /\ \A j \in 1..(1 + n) : (open \o t)[j] = IF j <= 1 THEN open[j] ELSE t[j - 1]
    <2>1. /\ open \o t \in Seq(Signs) /\ Len(open \o t) = Len(open) + Len(t)
          /\ \A j \in 1..(Len(open) + Len(t)) :
               (open \o t)[j] = IF j <= Len(open) THEN open[j] ELSE t[j - Len(open)]
      BY <1>4, <1>5, ConcatProperties
    <2> QED  BY <1>5, <2>1 DEF n
  <1>9. /\ Len(w) = (1 + n) + 1
        /\ \A j \in 1..((1 + n) + 1) :
             w[j] = IF j <= 1 + n THEN (open \o t)[j] ELSE <<"]">>[j - (1 + n)]
    BY <1>5, <1>8, ConcatProperties
  <1> HIDE DEF w
  <1>10. Len(w) = n + 2
    BY <1>4, <1>9
  <1>11. w[1] = "["
    <2>1. 1 \in 1..((1 + n) + 1) /\ 1 \in 1..(1 + n) /\ 1 <= 1 + n /\ 1 <= 1
      BY <1>4
    <2> QED  BY <1>5, <1>8, <1>9, <2>1
  <1>12. w[n + 2] = "]"
    <2>1. n + 2 \in 1..((1 + n) + 1) /\ ~(n + 2 <= 1 + n) /\ (n + 2) - (1 + n) = 1
      BY <1>4
    <2> QED  BY <1>5, <1>9, <2>1
  <1>13. ASSUME NEW j \in 1..n PROVE w[j + 1] = t[j]
    <2>1. j + 1 \in 1..((1 + n) + 1) /\ j + 1 \in 1..(1 + n) /\ j + 1 <= 1 + n
          /\ ~(j + 1 <= 1) /\ (j + 1) - 1 = j
      BY <1>4
    <2> QED  BY <1>8, <1>9, <2>1
  <1> QED  BY <1>2, <1>3, <1>6, <1>7, <1>10, <1>11, <1>12, <1>13 DEF t, n

LEMMA WrittenFacts ==
  ASSUME NEW steps \in StepSeqs
  PROVE  LET N == Len(steps)
             W == WrittenFn(steps)
         IN /\ Written(steps) = W[N]
            /\ \A k \in 0..N : W[k] \in Seq(Signs)
            /\ W[0] = <<>> /\ W[1] = StepText(steps[1])
            /\ \A k \in 2..N : W[k] = W[k - 1] \o <<".">> \o StepText(steps[k])
  <1> DEFINE N == Len(steps)
             R == Seq(Signs)
             Longer(k, w) == IF k = 1 THEN StepText(steps[1])
                             ELSE w \o <<".">> \o StepText(steps[k])
             G == [k \in 1..N |-> [w \in R |-> Longer(k, w)]]
  <1>1. N \in Nat /\ N > 0 /\ \A k \in 1..N : StepText(steps[k]) \in R
    BY StepFacts
  <1>2. Steps(G, N, R)
    <2>1. ASSUME NEW k \in 1..N, NEW w \in R PROVE Longer(k, w) \in R
      <3>1. StepText(steps[1]) \in R /\ StepText(steps[k]) \in R
        <4>1. 1 \in 1..N
          BY <1>1
        <4> QED  BY <1>1, <4>1
      <3>2. <<".">> \in R
        BY DEF Signs
      <3> DEFINE v == w \o <<".">>
      <3> HIDE DEF Signs
      <3>3. v \in R
        BY <3>2, ConcatProperties
      <3> HIDE DEF v
      <3>4. v \o StepText(steps[k]) \in R
        BY <3>1, <3>3, ConcatProperties
      <3> QED  BY <3>1, <3>4 DEF v
    <2> HIDE DEF R, Longer
    <2>2. G \in [1..N -> [R -> R]]
      BY <2>1
    <2> QED  BY <2>2 DEF Steps
  <1>3. <<>> \in R
    OBVIOUS
  <1>4. PICK f : Iterates(f, G, N, R, <<>>)
    <2> HIDE DEF G, N, R
    <2> QED  BY ONLY <1>1, <1>2, <1>3, Iterated
  <1>5. /\ f \in [0..N -> R] /\ f[0] = <<>>
        /\ \A k \in 1..N : f[k] = Longer(k, f[k - 1])
    <2>1. /\ f \in [0..N -> R] /\ f[0] = <<>>
          /\ \A k \in 1..N : f[k] = G[k][f[k - 1]]
      BY <1>4 DEF Iterates
    <2>2. \A k \in 1..N : k - 1 \in 0..N
      BY <1>1
    <2> HIDE DEF R, Longer
    <2> QED  BY <2>1, <2>2
  <1>6. f = [k \in 0..N |-> CASE k = 0 -> <<>>
                              [] k = 1 -> StepText(steps[1])
                              [] OTHER -> f[k - 1] \o <<".">> \o StepText(steps[k])]
    <2>1. \A k \in 0..N : k = 0 \/ k \in 1..N
      BY <1>1
    <2>2. 0 # 1
      OBVIOUS
    <2>3. \A k \in 0..N : f[k] = CASE k = 0 -> <<>>
                              [] k = 1 -> StepText(steps[1])
                              [] OTHER -> f[k - 1] \o <<".">> \o StepText(steps[k])
      BY <1>5, <2>1, <2>2
    <2> QED  BY <1>5, <2>3
  <1>7. WrittenFn(steps) =
          [k \in 0..N |-> CASE k = 0 -> <<>>
                            [] k = 1 -> StepText(steps[1])
                            [] OTHER -> WrittenFn(steps)[k - 1] \o <<".">> \o StepText(steps[k])]
    BY <1>6 DEF WrittenFn
  <1>8. Written(steps) = WrittenFn(steps)[N]
    BY DEF Written, WrittenFn
  <1> DEFINE W == WrittenFn(steps)
  <1> HIDE DEF N, R, W, G
  <1>9. W[0] = <<>> /\ W[1] = StepText(steps[1])
        /\ \A k \in 2..N : W[k] = W[k - 1] \o <<".">> \o StepText(steps[k])
    <2>1. /\ 0 \in 0..N /\ 1 \in 0..N /\ 0 # 1
          /\ \A k \in 2..N : k \in 0..N /\ k # 0 /\ k # 1
      BY <1>1
    <2> QED  BY <1>7, <2>1 DEF W
  <1>10. \A k \in 0..N : W[k] \in R
    <2> DEFINE P == { k \in 0..N : W[k] \in R }
    <2>1. 0 \in P
      BY <1>1, <1>3, <1>9
    <2>2. ASSUME NEW k \in 0..N, k \in P, k < N PROVE k + 1 \in P
      <3>1. k + 1 \in 1..N /\ k + 1 \in 0..N /\ (k + 1) - 1 = k
            /\ (k + 1 = 1 \/ (k + 1 \in 2..N /\ k + 1 # 1))
        BY <1>1, <2>2
      <3>2. \A w \in R : Longer(k + 1, w) \in R
        <4>1. G \in [1..N -> [R -> R]]
          BY <1>2 DEF Steps
        <4>2. \A w \in R : G[k + 1][w] \in R
          BY <3>1, <4>1
        <4>3. \A w \in R : G[k + 1][w] = Longer(k + 1, w)
          BY <3>1 DEF G
        <4> QED  BY <4>2, <4>3
      <3>3. W[k + 1] = Longer(k + 1, W[k])
        BY <1>9, <3>1
      <3> QED  BY <2>2, <3>1, <3>2, <3>3
    <2> HIDE DEF P
    <2>3. \A k \in 0..N : k \in P
      BY <1>1, <2>1, <2>2, BoundedInduction
    <2> QED  BY <2>3 DEF P
  <1> QED  BY <1>8, <1>9, <1>10 DEF N, R, W

\* The text up to a step is the text before it, a dot, and the step.
LEMMA OneStepMore ==
  ASSUME NEW steps \in StepSeqs, NEW k \in 1..Len(steps)
  PROVE  LET W == WrittenFn(steps)
             b == Begin(steps, k)
             s == StepText(steps[k])
         IN /\ b \in Nat /\ Len(W[k]) \in Nat /\ Len(W[k]) = b + Len(s)
            /\ \A j \in 1..Len(s) : W[k][b + j] = s[j]
            /\ k > 1 => b = Len(W[k - 1]) + 1 /\ W[k][b] = "."
            /\ Len(W[k - 1]) \in Nat /\ Len(W[k - 1]) <= Len(W[k])
            /\ \A p \in 1..Len(W[k - 1]) : W[k][p] = W[k - 1][p]
  <1> DEFINE N == Len(steps)
             W == WrittenFn(steps)
             s == StepText(steps[k])
             n == Len(s)
             v == W[k - 1]
             m == Len(v)
  <1>1. /\ s \in Seq(Signs) /\ n \in Nat /\ N \in Nat
    BY StepFacts
  <1>2. /\ W[0] = <<>> /\ W[1] = StepText(steps[1])
        /\ \A j \in 2..N : W[j] = W[j - 1] \o <<".">> \o StepText(steps[j])
        /\ \A j \in 0..N : W[j] \in Seq(Signs)
    BY WrittenFacts
  <1>3. CASE k = 1
    <2>1. k - 1 = 0 /\ Begin(steps, k) = 0 /\ W[k] = s /\ v = <<>>
      BY <1>2, <1>3 DEF Begin
    <2>2. \A j \in 1..n : 0 + j = j
      BY <1>1
    <2>3. m = 0 /\ n = 0 + n /\ 0 <= n
      BY <1>1, <2>1
    <2>4. \A p : p \notin 1..0
      OBVIOUS
    <2> HIDE DEF W, s, n, v, m
    <2>5. \A j \in 1..n : W[k][0 + j] = s[j]
      BY <2>1, <2>2
    <2>6. Len(W[k]) = n /\ Len(W[k - 1]) = 0
      BY <2>1, <2>3 DEF n, m, v
    <2> QED  BY <1>1, <1>3, <2>1, <2>3, <2>4, <2>5, <2>6 DEF n, m, v, W, s
  <1>4. CASE k > 1
    <2>1. k \in 2..N /\ k - 1 \in 0..N /\ k # 1
      BY <1>1, <1>4
    <2>2. v \in Seq(Signs) /\ m \in Nat
      <3>1. v \in Seq(Signs)
        BY <1>2, <2>1
      <3> QED  BY <3>1, LenProperties
    <2>3. W[k] = v \o <<".">> \o s
      BY <1>2, <2>1
    <2> DEFINE u == v \o <<".">>
    <2>4. <<".">> \in Seq(Signs) /\ Len(<<".">>) = 1 /\ <<".">>[1] = "."
      BY DEF Signs
    <2>5. Begin(steps, k) = m + 1
      BY <2>1 DEF Begin
    <2> HIDE DEF W, s, n, v, m
    <2>6. /\ u \in Seq(Signs) /\ Len(u) = m + 1 /\ u[m + 1] = "."
          /\ \A p \in 1..m : u[p] = v[p]
      <3>1. /\ u \in Seq(Signs) /\ Len(u) = Len(v) + Len(<<".">>)
            /\ \A p \in 1..(Len(v) + Len(<<".">>)) :
                 u[p] = IF p <= Len(v) THEN v[p] ELSE <<".">>[p - Len(v)]
        BY <2>2, <2>4, ConcatProperties
      <3>2. Len(u) = m + 1 /\ \A p \in 1..(m + 1) : u[p] = IF p <= m THEN v[p] ELSE <<".">>[p - m]
        BY <2>4, <3>1 DEF m
      <3>3. m + 1 \in 1..(m + 1) /\ ~(m + 1 <= m) /\ (m + 1) - m = 1
            /\ \A p \in 1..m : p \in 1..(m + 1) /\ p <= m
        BY <2>2
      <3> HIDE DEF u
      <3> QED  BY <2>4, <3>1, <3>2, <3>3
    <2> HIDE DEF u
    <2>7. /\ W[k] \in Seq(Signs) /\ Len(W[k]) = (m + 1) + n
          /\ \A p \in 1..((m + 1) + n) : W[k][p] = IF p <= m + 1 THEN u[p] ELSE s[p - (m + 1)]
      <3>1. /\ u \o s \in Seq(Signs) /\ Len(u \o s) = Len(u) + Len(s)
            /\ \A p \in 1..(Len(u) + Len(s)) :
                 (u \o s)[p] = IF p <= Len(u) THEN u[p] ELSE s[p - Len(u)]
        BY <1>1, <2>6, ConcatProperties
      <3>2. W[k] = u \o s
        BY <2>3 DEF u
      <3> QED  BY <2>6, <3>1, <3>2 DEF n
    <2>8. \A j \in 1..n : W[k][(m + 1) + j] = s[j]
      <3>1. \A j \in 1..n : /\ (m + 1) + j \in 1..((m + 1) + n) /\ ~((m + 1) + j <= m + 1)
                            /\ ((m + 1) + j) - (m + 1) = j
        BY <1>1, <2>2
      <3> QED  BY <2>7, <3>1
    <2>9. W[k][m + 1] = "."
      <3>1. m + 1 \in 1..((m + 1) + n) /\ m + 1 <= m + 1
        BY <1>1, <2>2
      <3> QED  BY <2>6, <2>7, <3>1
    <2>10. \A p \in 1..m : W[k][p] = v[p]
      <3>1. \A p \in 1..m : p \in 1..((m + 1) + n) /\ p <= m + 1
        BY <1>1, <2>2
      <3> QED  BY <2>6, <2>7, <3>1
    <2>11. m <= (m + 1) + n /\ (m + 1) + n \in Nat /\ m + 1 \in Nat
      BY <1>1, <2>2
    <2> QED  BY <2>2, <2>5, <2>7, <2>8, <2>9, <2>10, <2>11 DEF n, m, v, W, s
  <1>5. k = 1 \/ k > 1
    BY <1>1
  <1> QED  BY <1>3, <1>4, <1>5

\* What is written up to a step stays where it is.
LEMMA PathBegins ==
  ASSUME NEW steps \in StepSeqs, NEW j \in 0..Len(steps)
  PROVE  LET W == WrittenFn(steps) IN
         /\ Len(W[j]) \in Nat /\ Len(W[j]) <= Len(Written(steps))
         /\ \A p \in 1..Len(W[j]) : Written(steps)[p] = W[j][p]
  <1> DEFINE N == Len(steps)
             W == WrittenFn(steps)
             Covers(k) == /\ Len(W[j]) <= Len(W[k])
                          /\ \A p \in 1..Len(W[j]) : W[k][p] = W[j][p]
             P == { d \in 0..(N - j) : Covers(j + d) }
  <1>1. N \in Nat /\ N - j \in Nat /\ j \in Nat /\ j + 0 = j /\ j + (N - j) = N
        /\ N - j \in 0..(N - j)
    <2>1. N \in Nat
      BY StepFacts
    <2> QED  BY <2>1
  <1>2. \A k \in 0..N : Len(W[k]) \in Nat
    BY WrittenFacts, LenProperties
  <1>3. 0 \in P
    <2>1. Len(W[j]) <= Len(W[j])
      BY <1>2
    <2>2. Covers(j)
      BY <2>1
    <2> HIDE DEF Covers
    <2> QED  BY <1>1, <2>2
  <1>4. ASSUME NEW d \in 0..(N - j), d \in P, d < N - j PROVE d + 1 \in P
    <2> DEFINE k == j + d + 1
    <2>1. k \in 1..N /\ k - 1 = j + d /\ j + (d + 1) = k /\ d + 1 \in 0..(N - j)
          /\ k \in 0..N /\ k - 1 \in 0..N
      BY <1>1, <1>4
    <2>2. Covers(k - 1)
      BY <1>4, <2>1
    <2> HIDE DEF k
    <2>3. /\ Len(W[k - 1]) <= Len(W[k])
          /\ \A p \in 1..Len(W[k - 1]) : W[k][p] = W[k - 1][p]
      BY <2>1, OneStepMore
    <2>4. Len(W[j]) \in Nat /\ Len(W[k - 1]) \in Nat /\ Len(W[k]) \in Nat
      BY <1>2, <2>1
    <2>5. Len(W[j]) <= Len(W[k])
      BY <2>2, <2>3, <2>4
    <2>6. \A p \in 1..Len(W[j]) : p \in 1..Len(W[k - 1])
      BY <2>2, <2>4
    <2>7. Covers(k)
      BY <2>2, <2>3, <2>5, <2>6
    <2> HIDE DEF Covers
    <2> QED  BY <2>1, <2>7
  <1> HIDE DEF P
  <1>5. \A d \in 0..(N - j) : d \in P
    BY <1>1, <1>3, <1>4, BoundedInduction
  <1>6. Covers(N)
    <2> HIDE DEF Covers
    <2>1. Covers(j + (N - j))
      BY <1>1, <1>5 DEF P
    <2> QED  BY <1>1, <2>1
  <1>7. Written(steps) = W[N]
    BY WrittenFacts
  <1> QED  BY <1>2, <1>6, <1>7

\* Where in the path a step is written.
LEMMA Places ==
  ASSUME NEW steps \in StepSeqs, NEW k \in 1..Len(steps)
  PROVE  LET b == Begin(steps, k)
             s == StepText(steps[k])
             w == Written(steps)
         IN /\ b \in Nat /\ Len(s) \in Nat /\ Len(w) \in Nat /\ b + Len(s) <= Len(w)
            /\ \A j \in 1..Len(s) : w[b + j] = s[j]
            /\ k = Len(steps) => b + Len(s) = Len(w)
            /\ k < Len(steps) => /\ b + Len(s) + 1 <= Len(w) /\ w[b + Len(s) + 1] = "."
                                 /\ Begin(steps, k + 1) = b + Len(s) + 1
  <1> DEFINE N == Len(steps)
             W == WrittenFn(steps)
             b == Begin(steps, k)
             s == StepText(steps[k])
             n == Len(s)
             w == Written(steps)
  <1>1. N \in Nat /\ n \in Nat
    BY StepFacts
  <1>n. k \in 0..N /\ N \in 0..N
    BY <1>1
  <1>2. /\ b \in Nat /\ Len(W[k]) = b + n
        /\ \A j \in 1..n : W[k][b + j] = s[j]
    BY OneStepMore
  <1>3. /\ Len(W[k]) \in Nat /\ Len(W[k]) <= Len(w)
        /\ \A p \in 1..Len(W[k]) : w[p] = W[k][p]
    BY <1>n, PathBegins
  <1>4. w = W[N] /\ Len(w) \in Nat
    <2>1. w = W[N] /\ W[N] \in Seq(Signs)
      BY <1>n, WrittenFacts
    <2> QED  BY <2>1, LenProperties
  <1>5. \A j \in 1..n : w[b + j] = s[j]
    <2>1. \A j \in 1..n : b + j \in 1..(b + n)
      BY <1>1, <1>2
    <2> HIDE DEF w, W, s, n, b
    <2> QED  BY <1>2, <1>3, <2>1
  <1>6. ASSUME k < N
        PROVE  /\ b + n + 1 <= Len(w) /\ w[b + n + 1] = "."
               /\ Begin(steps, k + 1) = b + n + 1
    <2>1. k + 1 \in 1..N /\ k + 1 > 1 /\ (k + 1) - 1 = k /\ k + 1 \in 0..N
      BY <1>1, <1>6
    <2> DEFINE c == Begin(steps, k + 1)
    <2>2. /\ c \in Nat /\ c = Len(W[k]) + 1 /\ W[k + 1][c] = "."
          /\ Len(W[k + 1]) = c + Len(StepText(steps[k + 1]))
          /\ Len(StepText(steps[k + 1])) \in Nat
      <3>1. /\ c \in Nat /\ (k + 1 > 1 => c = Len(W[(k + 1) - 1]) + 1 /\ W[k + 1][c] = ".")
            /\ Len(W[k + 1]) = c + Len(StepText(steps[k + 1]))
        BY <2>1, OneStepMore
      <3>2. Len(StepText(steps[k + 1])) \in Nat
        BY <2>1, StepFacts
      <3> HIDE DEF c, W
      <3> QED  BY <2>1, <3>1, <3>2
    <2>3. /\ Len(W[k + 1]) \in Nat /\ Len(W[k + 1]) <= Len(w)
          /\ \A p \in 1..Len(W[k + 1]) : w[p] = W[k + 1][p]
      BY <2>1, PathBegins
    <2> HIDE DEF w, W, s, n, b, c
    <2>4. c = b + n + 1
      BY <1>2, <2>2
    <2>5. c \in 1..Len(W[k + 1]) /\ c <= Len(w)
      BY <1>1, <1>2, <1>4, <2>2, <2>3, <2>4
    <2>6. w[c] = "."
      BY <2>2, <2>3, <2>5
    <2> QED  BY <2>4, <2>5, <2>6 DEF c
  <1>7. k = N => b + n = Len(w)
    BY <1>2, <1>4
  <1>8. b + n <= Len(w)
    BY <1>2, <1>3
  <1> QED  BY <1>1, <1>2, <1>4, <1>5, <1>6, <1>7, <1>8

-----------------------------------------------------------------------------
(* Where steps lead. *)

\* What a step leads to.
Onward(node, step) ==
  IF step.kind = "key" THEN Member(node, step.text)
  ELSE Nth(node, NumberOf(step.text) % UIntSize)

LEMMA OnwardFacts ==
  ASSUME NEW node, NEW steps \in StepSeqs, NEW k \in 1..Len(steps)
  PROVE  LET to == Onward(node, steps[k]) IN
         to = NULL \/ (to \in Nodes /\ node \in Nodes /\ Holds(node, to))
  <1> DEFINE text == steps[k].text
             m == NumberOf(text) % UIntSize
  <1>1. CASE steps[k].kind = "key"
    <2>1. Onward(node, steps[k]) = Member(node, text)
      BY <1>1 DEF Onward
    <2>2. CASE node \in Objects /\ text \in DOMAIN Members[node]
      <3>1. Member(node, text) = Members[node][text]
        BY <2>2 DEF Member
      <3>2. Members[node][text] \in Nodes \cup {NULL} /\ node \in Nodes
        BY <2>2, NodesAssumption, TreeAssumption
      <3>3. Holds(node, Members[node][text])
        BY <2>2 DEF Holds
      <3> QED  BY <2>1, <3>1, <3>2, <3>3
    <2>3. CASE ~(node \in Objects /\ text \in DOMAIN Members[node])
      BY <2>1, <2>3 DEF Member
    <2> QED  BY <2>2, <2>3
  <1>2. CASE steps[k].kind # "key"
    <2>i. steps[k].kind = "index"
      BY <1>2, StepFacts
    <2>1. Onward(node, steps[k]) = Nth(node, m)
      BY <1>2 DEF Onward
    <2>2. CASE node \in Arrays /\ m < Len(Items[node])
      <3>1. Nth(node, m) = Items[node][m + 1]
        BY <2>2 DEF Nth
      <3>2. Items[node] \in Seq(Nodes \cup {NULL}) /\ node \in Nodes
        BY <2>2, NodesAssumption, TreeAssumption
      <3>3. m \in Nat
        <4>1. text \in Seq(DigitSet)
          BY <2>i, IndexText
        <4>2. NumberOf(text) \in Nat
          BY <4>1, NumberRead
        <4>3. UIntSize \in Nat /\ UIntSize > 0
          BY IntAssumption
        <4>4. \A x \in Nat : x % UIntSize \in Nat
          BY <4>3
        <4> QED  BY <4>2, <4>4
      <3>4. Len(Items[node]) \in Nat /\ DOMAIN Items[node] = 1..Len(Items[node])
        BY <3>2, LenProperties
      <3> HIDE DEF m
      <3>5. m + 1 \in 1..Len(Items[node])
        BY <2>2, <3>3, <3>4
      <3>6. Items[node][m + 1] \in Nodes \cup {NULL}
        BY <3>2, <3>5, ElementOfSeq
      <3>7. Holds(node, Items[node][m + 1])
        BY <2>2, <3>4, <3>5 DEF Holds
      <3> QED  BY <2>1, <3>1, <3>2, <3>6, <3>7
    <2>3. CASE ~(node \in Arrays /\ m < Len(Items[node]))
      BY <2>1, <2>3 DEF Nth
    <2> QED  BY <2>2, <2>3
  <1> QED  BY <1>1, <1>2

\* Looking an index up in the way of the code is looking up the number it
\* writes, if an int holds that.
LEMMA ItemIsNth ==
  ASSUME NEW node, NEW text \in Seq(DigitSet), NumberOf(text) <= IntMax
  PROVE  Item(node, Atoi(text)) = Nth(node, NumberOf(text) % UIntSize)
  <1> DEFINE n == NumberOf(text)
  <1>1. Atoi(text) = n /\ n \in Nat /\ n < UIntSize
    BY AtoiReads
  <1>2. n % UIntSize = n
    BY <1>1, IntAssumption
  <1> HIDE DEF n
  <1>3. Item(node, n) = Nth(node, n)
    <2>1. ASSUME node \in Arrays PROVE n + 1 \in DOMAIN Items[node] <=> n < Len(Items[node])
      <3>1. Items[node] \in Seq(Nodes \cup {NULL})
        BY <2>1, NodesAssumption
      <3>2. Len(Items[node]) \in Nat /\ DOMAIN Items[node] = 1..Len(Items[node])
        BY <3>1, LenProperties
      <3> QED  BY <1>1, <3>2
    <2> QED  BY <2>1 DEF Item, Nth
  <1> QED  BY <1>1, <1>2, <1>3 DEF n

LEMMA FollowFacts ==
  ASSUME NEW node \in Nodes, NEW steps \in StepSeqs
  PROVE  LET N == Len(steps)
             T == FollowFn(node, steps)
         IN /\ Follow(node, steps) = T[N] /\ T[0] = node
            /\ \A k \in 1..N : T[k] = Onward(T[k - 1], steps[k])
            /\ \A k \in 0..N : T[k] \in Nodes \cup {NULL}
  <1> DEFINE N == Len(steps)
             R == Nodes \cup {NULL}
             G == [k \in 1..N |-> [v \in R |-> Onward(v, steps[k])]]
             T == FollowFn(node, steps)
  <1>1. N \in Nat /\ N > 0
    BY StepFacts
  <1>2. Steps(G, N, R)
    <2>1. \A k \in 1..N : \A v \in R : Onward(v, steps[k]) \in R
      BY OnwardFacts
    <2> HIDE DEF R
    <2>2. G \in [1..N -> [R -> R]]
      BY <2>1
    <2> QED  BY <2>2 DEF Steps
  <1>3. node \in R
    OBVIOUS
  <1>4. PICK f : Iterates(f, G, N, R, node)
    <2> HIDE DEF G, N, R
    <2> QED  BY ONLY <1>1, <1>2, <1>3, Iterated
  <1>5. /\ f \in [0..N -> R] /\ f[0] = node
        /\ \A k \in 1..N : f[k] = Onward(f[k - 1], steps[k])
    <2>1. /\ f \in [0..N -> R] /\ f[0] = node
          /\ \A k \in 1..N : f[k] = G[k][f[k - 1]]
      BY <1>4 DEF Iterates
    <2>2. \A k \in 1..N : k - 1 \in 0..N
      BY <1>1
    <2> HIDE DEF R
    <2> QED  BY <2>1, <2>2
  <1>6. f = [k \in 0..N |-> IF k = 0 THEN node
                            ELSE IF steps[k].kind = "key" THEN Member(f[k - 1], steps[k].text)
                            ELSE Nth(f[k - 1], NumberOf(steps[k].text) % UIntSize)]
    <2>1. \A k \in 0..N : k = 0 \/ k \in 1..N
      BY <1>1
    <2>2. \A k \in 0..N : f[k] = IF k = 0 THEN node
                            ELSE IF steps[k].kind = "key" THEN Member(f[k - 1], steps[k].text)
                            ELSE Nth(f[k - 1], NumberOf(steps[k].text) % UIntSize)
      BY <1>5, <2>1 DEF Onward
    <2> QED  BY <1>5, <2>2
  <1>7. T = [k \in 0..N |-> IF k = 0 THEN node
                            ELSE IF steps[k].kind = "key" THEN Member(T[k - 1], steps[k].text)
                            ELSE Nth(T[k - 1], NumberOf(steps[k].text) % UIntSize)]
    BY <1>6 DEF FollowFn
  <1>8. Follow(node, steps) = T[N]
    BY DEF Follow, FollowFn
  <1> HIDE DEF T, N, R, G
  <1>9. T[0] = node /\ \A k \in 1..N : T[k] = Onward(T[k - 1], steps[k])
    <2>1. 0 \in 0..N /\ \A k \in 1..N : k \in 0..N /\ k # 0
      BY <1>1
    <2> QED  BY <1>7, <2>1 DEF Onward
  <1>10. \A k \in 0..N : T[k] \in R
    <2>1. \A k \in 0..N : k = 0 \/ k \in 1..N
      BY <1>1
    <2>2. ASSUME NEW k \in 1..N PROVE T[k] \in R
      <3>1. \A v : Onward(v, steps[k]) \in R
        BY OnwardFacts DEF R, N
      <3> QED  BY <1>9, <3>1
    <2> QED  BY <1>3, <1>9, <2>1, <2>2
  <1> QED  BY <1>8, <1>9, <1>10 DEF T, N, R

\* From a value that is not there no step leads anywhere.
LEMMA LostStaysLost ==
  ASSUME NEW node \in Nodes, NEW steps \in StepSeqs, NEW j \in 0..Len(steps),
         FollowFn(node, steps)[j] = NULL
  PROVE  Follow(node, steps) = NULL
  <1> DEFINE N == Len(steps)
             T == FollowFn(node, steps)
             P == { d \in 0..(N - j) : T[j + d] = NULL }
  <1>1. N \in Nat /\ N - j \in Nat /\ j \in Nat /\ j + 0 = j /\ j + (N - j) = N
        /\ N - j \in 0..(N - j)
    <2>1. N \in Nat
      BY StepFacts
    <2> QED  BY <2>1
  <1>2. 0 \in P
    BY <1>1
  <1>3. ASSUME NEW d \in 0..(N - j), d \in P, d < N - j PROVE d + 1 \in P
    <2> DEFINE k == j + d + 1
    <2>1. k \in 1..N /\ k - 1 = j + d /\ j + (d + 1) = k /\ d + 1 \in 0..(N - j)
      BY <1>1, <1>3
    <2>2. T[k - 1] = NULL
      BY <1>3, <2>1
    <2> HIDE DEF k
    <2>3. T[k] = Onward(T[k - 1], steps[k])
      BY <2>1, FollowFacts
    <2>4. T[k] = NULL
      BY <2>1, <2>2, <2>3, OnwardFacts, NodesAssumption
    <2> QED  BY <2>1, <2>4
  <1> HIDE DEF P
  <1>4. \A d \in 0..(N - j) : d \in P
    BY <1>1, <1>2, <1>3, BoundedInduction
  <1>5. T[j + (N - j)] = NULL
    BY <1>1, <1>4 DEF P
  <1> QED  BY <1>1, <1>5, FollowFacts

\* Steps never lead back to where they start.
LEMMA NeverBack ==
  ASSUME NEW node \in Nodes, NEW steps \in StepSeqs
  PROVE  Follow(node, steps) # node
  <1> DEFINE N == Len(steps)
             T == FollowFn(node, steps)
             S == { T[k] : k \in 0..N }
  <1> SUFFICES ASSUME Follow(node, steps) = node PROVE FALSE
    OBVIOUS
  <1>1. /\ N \in Nat /\ N > 0 /\ N \in 1..N /\ 0 \in 0..N /\ N \in 0..N
        /\ \A k \in 0..N : k = 0 \/ k \in 1..N
        /\ \A k \in 1..N : k - 1 \in 0..N
    <2>1. N \in Nat /\ N > 0
      BY StepFacts
    <2> QED  BY <2>1
  <1>2. /\ T[N] = node /\ T[0] = node
        /\ \A k \in 1..N : T[k] = Onward(T[k - 1], steps[k])
        /\ \A k \in 0..N : T[k] \in Nodes \cup {NULL}
    BY FollowFacts
  <1>3. \A k \in 0..N : T[k] # NULL
    BY LostStaysLost, NodesAssumption
  <1>4. \A k \in 1..N : Holds(T[k - 1], T[k])
    BY <1>1, <1>2, <1>3, OnwardFacts
  <1>5. S \in SUBSET Nodes /\ S # {} /\ \A k \in 0..N : T[k] \in S
    <2>1. \A k \in 0..N : T[k] \in Nodes
      BY <1>2, <1>3
    <2> QED  BY <1>1, <2>1
  <1>6. PICK v \in S : \A o \in S : ~Holds(o, v)
    <2> HIDE DEF S
    <2> QED  BY <1>5, TreeAssumption
  <1>7. PICK k \in 0..N : v = T[k]
    BY <1>6
  <1> HIDE DEF S
  <1>8. CASE k = 0
    <2>1. v = T[N]
      BY <1>2, <1>7, <1>8
    <2>2. T[N - 1] \in S /\ Holds(T[N - 1], v)
      BY <1>1, <1>4, <1>5, <2>1
    <2> QED  BY <1>6, <2>2
  <1>9. CASE k \in 1..N
    <2>1. T[k - 1] \in S /\ Holds(T[k - 1], v)
      BY <1>1, <1>4, <1>5, <1>7, <1>9
    <2> QED  BY <1>6, <2>1
  <1> QED  BY <1>1, <1>7, <1>8, <1>9

-----------------------------------------------------------------------------
(* A lookup on its way through a path that writes steps.  Its state st, the *)
(* value at that it has reached, the index n of its next character and the  *)
(* characters b it has kept say how far it is.                              *)

\* In front of or inside key k, m of whose characters are read.
AtKey(steps, node, k, m, st, at, n, b) ==
  /\ st = "reading key" /\ steps[k].kind = "key"
  /\ at = FollowFn(node, steps)[k - 1]
  /\ n = Begin(steps, k) + m + 1 /\ b = SubSeq(steps[k].text, 1, m)

\* In front of the bracket of index k.
AtBracket(steps, node, k, st, at, n, b) ==
  /\ st = "reading key" /\ steps[k].kind = "index"
  /\ at = FollowFn(node, steps)[k - 1]
  /\ n = Begin(steps, k) + 1 /\ b = <<>>

\* Inside the brackets of index k, m of whose digits are read.
AtDigit(steps, node, k, m, st, at, n, b) ==
  /\ st = "reading array" /\ steps[k].kind = "index"
  /\ at = FollowFn(node, steps)[k - 1]
  /\ n = Begin(steps, k) + m + 2 /\ b = SubSeq(steps[k].text, 1, m)

\* Past the brackets of index k.
PastIndex(steps, node, k, st, at, n, b) ==
  /\ st = "reading array end" /\ steps[k].kind = "index"
  /\ at = FollowFn(node, steps)[k]
  /\ n = Begin(steps, k) + Len(StepText(steps[k])) + 1 /\ b = <<>>

OnTheWay(steps, node, st, at, n, b) ==
  \E k \in 1..Len(steps) :
    \/ AtBracket(steps, node, k, st, at, n, b)
    \/ PastIndex(steps, node, k, st, at, n, b)
    \/ \E m \in 0..Len(steps[k].text) : \/ AtKey(steps, node, k, m, st, at, n, b)
                                        \/ AtDigit(steps, node, k, m, st, at, n, b)

\* A lookup by steps: on its way, or returned with where the steps lead.
Follows(steps) ==
  IF result = "none" THEN OnTheWay(steps, js, state, prev, i, buf)
  ELSE result = Follow(js, steps)

PathInv ==
  \A steps \in StepSeqs :
    path = Written(steps) /\ InRange(steps) /\ js # NULL => Follows(steps)

\* What is known while a path that writes steps is read.
UnderWay(steps) ==
  /\ TypeOK /\ Kept
  /\ steps \in StepSeqs /\ path = Written(steps) /\ InRange(steps)
  /\ js \in Nodes /\ result = "none"

LEMMA Taken ==
  ASSUME NEW S, NEW t \in Seq(S)
  PROVE  /\ SubSeq(t, 1, 0) = <<>> /\ SubSeq(t, 1, Len(t)) = t
         /\ \A m \in 0..(Len(t) - 1) : Append(SubSeq(t, 1, m), t[m + 1]) = SubSeq(t, 1, m + 1)
  <1>1. Len(t) \in Nat
    BY LenProperties
  <1>2. SubSeq(t, 1, 0) = <<>>
    BY SubSeqEmpty
  <1>3. SubSeq(t, 1, Len(t)) = t
    BY SubSeqFull
  <1>4. ASSUME NEW m \in 0..(Len(t) - 1)
        PROVE  Append(SubSeq(t, 1, m), t[m + 1]) = SubSeq(t, 1, m + 1)
    <2>1. 1 \in 1..Len(t) /\ m + 1 \in 1..Len(t) /\ (m + 1) - 1 = m /\ m \in Int
          /\ \A p \in 1..m : p \in 1..Len(t)
      BY <1>1
    <2>2. SubSeq(t, 1, m + 1) = SubSeq(t, 1, m) \o <<t[m + 1]>>
      <3>1. m + 1 \in 1..Len(t)
        BY <2>1
      <3>2. SubSeq(t, 1, m + 1) = SubSeq(t, 1, (m + 1) - 1) \o <<t[m + 1]>>
        BY <2>1, <3>1, SubSeqRecursiveSecond
      <3> QED  BY <2>1, <3>2
    <2>3. SubSeq(t, 1, m) \in Seq(S) /\ t[m + 1] \in S
      <3>1. \A p \in 1..m : t[p] \in S
        BY <2>1, ElementOfSeq
      <3>2. SubSeq(t, 1, m) \in Seq(S)
        BY <2>1, <3>1, SubSeqProperties
      <3> QED  BY <2>1, <3>2, ElementOfSeq
    <2> QED  BY <2>2, <2>3, AppendIsConcat
  <1> QED  BY <1>2, <1>3, <1>4

\* The steps that follow one another.
LEMMA StepOrder ==
  ASSUME NEW steps \in StepSeqs, NEW k \in 1..Len(steps)
  PROVE  /\ Len(steps) \in 0..Len(steps) /\ k \in 0..Len(steps)
         /\ k = Len(steps) \/ k < Len(steps)
         /\ k < Len(steps) => k + 1 \in 1..Len(steps) /\ (k + 1) - 1 = k
  <1>1. Len(steps) \in Nat
    BY StepFacts
  <1> QED  BY <1>1

\* In front of a step.
LEMMA Starts ==
  ASSUME NEW steps \in StepSeqs, NEW node, NEW k \in 1..Len(steps), NEW st, NEW at, NEW n, NEW b
  PROVE  /\ st = "reading key" /\ at = FollowFn(node, steps)[k - 1]
         /\ n = Begin(steps, k) + 1 /\ b = <<>>
         => OnTheWay(steps, node, st, at, n, b)
  <1>1. steps[k].text \in Seq(Signs) /\ Len(steps[k].text) \in Nat
    BY StepFacts
  <1>2. Begin(steps, k) \in Nat
    BY Places
  <1>3. Begin(steps, k) + 0 = Begin(steps, k) /\ 0 \in 0..Len(steps[k].text)
    BY <1>1, <1>2
  <1>4. SubSeq(steps[k].text, 1, 0) = <<>>
    BY <1>1, Taken
  <1> SUFFICES ASSUME st = "reading key", at = FollowFn(node, steps)[k - 1],
                      n = Begin(steps, k) + 1, b = <<>>
               PROVE  OnTheWay(steps, node, st, at, n, b)
    OBVIOUS
  <1>5. CASE steps[k].kind = "index"
    BY <1>5 DEF OnTheWay, AtBracket
  <1>6. CASE steps[k].kind = "key"
    <2>1. AtKey(steps, node, k, 0, st, at, n, b)
      BY <1>3, <1>4, <1>6 DEF AtKey
    <2> QED  BY <1>3, <2>1 DEF OnTheWay
  <1> QED  BY <1>5, <1>6, StepFacts

\* The character at a place inside the path, and after its last one.
LEMMA ChAt ==
  ASSUME NEW steps, UnderWay(steps)
  PROVE  /\ \A p : i = p /\ p <= Len(path) => ch = path[p] /\ ch # "nul"
         /\ i = Len(path) + 1 => ch = "nul"
  <1>1. ch = "nul" <=> i = Len(path) + 1
    BY ChType DEF UnderWay
  <1>2. Len(path) \in Nat
    BY Numbers DEF UnderWay
  <1>3. ASSUME i <= Len(path) PROVE ch = path[i] /\ ch # "nul"
    <2>1. i # Len(path) + 1
      BY <1>2, <1>3
    <2> QED  BY <1>1, <1>3, <2>1 DEF ch
  <1> QED  BY <1>1, <1>3

\* After a step: the next one, or the end of the path.
LEMMA Passed ==
  ASSUME NEW steps, UnderWay(steps), NEW k \in 1..Len(steps), Advance,
         i = Begin(steps, k) + Len(StepText(steps[k])) + 1,
         prev' = FollowFn(js, steps)[k], buf' = <<>>, state' = "reading key"
  PROVE  Follows(steps)'
  <1>0. steps \in StepSeqs /\ path = Written(steps) /\ js \in Nodes
    BY DEF UnderWay
  <1>1. /\ Len(steps) \in 0..Len(steps) /\ k \in 0..Len(steps)
        /\ k = Len(steps) \/ k < Len(steps)
        /\ k < Len(steps) => k + 1 \in 1..Len(steps) /\ (k + 1) - 1 = k
    BY <1>0, StepOrder
  <1> DEFINE b == Begin(steps, k)
             s == Len(StepText(steps[k]))
  <1>2. /\ b \in Nat /\ s \in Nat /\ Len(path) \in Nat
        /\ k = Len(steps) => b + s = Len(path)
        /\ k < Len(steps) => /\ b + s + 1 <= Len(path) /\ path[b + s + 1] = "."
                             /\ Begin(steps, k + 1) = b + s + 1
    BY <1>0, Places
  <1>3. /\ js' = js /\ path' = path /\ i' = i + 1
        /\ result' = IF ch # "nul" THEN "none" ELSE IF prev' # js THEN prev' ELSE NULL
    BY DEF Advance
  <1>4. CASE k < Len(steps)
    <2>1. ch # "nul"
      BY <1>2, <1>4, ChAt
    <2>2. k + 1 \in 1..Len(steps) /\ (k + 1) - 1 = k
      BY <1>1, <1>4
    <2>3. i' = Begin(steps, k + 1) + 1
      BY <1>2, <1>3, <1>4
    <2>4. prev' = FollowFn(js, steps)[(k + 1) - 1]
      BY <2>2
    <2>5. OnTheWay(steps, js, state', prev', i', buf')
      BY <1>0, <2>2, <2>3, <2>4, Starts
    <2>6. result' = "none"
      BY <1>3, <2>1
    <2> QED  BY <1>3, <2>5, <2>6 DEF Follows
  <1>5. CASE k = Len(steps)
    <2>1. ch = "nul"
      <3>1. i = Len(path) + 1
        BY <1>2, <1>5
      <3> QED  BY <3>1, ChAt
    <2>2. prev' = Follow(js, steps)
      BY <1>0, <1>5, FollowFacts
    <2>3. prev' # js
      BY <1>0, <2>2, NeverBack
    <2>4. result' = Follow(js, steps)
      BY <1>3, <2>1, <2>2, <2>3
    <2>5. result' # "none"
      <3>1. /\ Follow(js, steps) = FollowFn(js, steps)[Len(steps)]
            /\ \A j \in 0..Len(steps) : FollowFn(js, steps)[j] \in Nodes \cup {NULL}
        BY <1>0, FollowFacts
      <3>2. Follow(js, steps) \in Nodes \cup {NULL}
        BY <1>1, <3>1
      <3> QED  BY <2>4, <3>2, NodesAssumption
    <2> QED  BY <1>3, <2>4, <2>5 DEF Follows
  <1> QED  BY <1>1, <1>4, <1>5

\* A step that leads nowhere.
LEMMA Lost ==
  ASSUME NEW steps, UnderWay(steps), NEW k \in 1..Len(steps), FollowFn(js, steps)[k] = NULL,
         js' = js, result' = NULL
  PROVE  Follows(steps)'
  <1>1. steps \in StepSeqs /\ js \in Nodes
    BY DEF UnderWay
  <1>2. k \in 0..Len(steps)
    BY <1>1, StepFacts
  <1>3. Follow(js, steps) = NULL
    BY <1>1, <1>2, LostStaysLost
  <1>4. NULL # "none"
    BY NodesAssumption
  <1> QED  BY <1>3, <1>4 DEF Follows

-----------------------------------------------------------------------------
(* Each round of the lookup. *)

\* What a step leads to, as the code looks it up.
LEMMA OnwardIs ==
  ASSUME NEW steps, UnderWay(steps), NEW k \in 1..Len(steps)
  PROVE  LET T == FollowFn(js, steps) IN
         /\ T[k] \in Nodes \cup {NULL}
         /\ steps[k].kind = "key" => T[k] = Member(T[k - 1], steps[k].text)
         /\ steps[k].kind = "index" => T[k] = Item(T[k - 1], Atoi(steps[k].text))
  <1>0. steps \in StepSeqs /\ js \in Nodes /\ InRange(steps)
    BY DEF UnderWay
  <1> DEFINE T == FollowFn(js, steps)
  <1>1. k \in 0..Len(steps)
    BY <1>0, StepOrder
  <1>2. T[k] \in Nodes \cup {NULL} /\ T[k] = Onward(T[k - 1], steps[k])
    BY <1>0, <1>1, FollowFacts
  <1>3. ASSUME steps[k].kind = "index"
        PROVE  T[k] = Item(T[k - 1], Atoi(steps[k].text))
    <2>1. k \in DOMAIN steps
      <3>1. steps \in Seq([kind : {"key", "index"}, text : Seq(Chars)])
        BY <1>0, StepsAssumption
      <3> QED  BY <3>1, LenProperties
    <2>2. NumberOf(steps[k].text) <= IntMax
      BY <1>0, <1>3, <2>1 DEF InRange
    <2>3. steps[k].text \in Seq(DigitSet)
      BY <1>0, <1>3, IndexText
    <2>4. Item(T[k - 1], Atoi(steps[k].text)) = Nth(T[k - 1], NumberOf(steps[k].text) % UIntSize)
      BY <2>2, <2>3, ItemIsNth
    <2> QED  BY <1>2, <1>3, <2>4 DEF Onward
  <1>4. steps[k].kind = "key" => T[k] = Member(T[k - 1], steps[k].text)
    BY <1>2 DEF Onward
  <1> QED  BY <1>2, <1>3, <1>4

LEMMA KeyRound ==
  ASSUME NEW steps, UnderWay(steps), NEW k \in 1..Len(steps), NEW m \in 0..Len(steps[k].text),
         AtKey(steps, js, k, m, state, prev, i, buf), Next
  PROVE  Follows(steps)'
  <1> DEFINE t == steps[k].text
             T == FollowFn(js, steps)
             p == Begin(steps, k)
  <1>0. steps \in StepSeqs /\ path = Written(steps) /\ js \in Nodes /\ result = "none"
    BY DEF UnderWay
  <1>1. /\ state = "reading key" /\ steps[k].kind = "key" /\ prev = T[k - 1]
        /\ i = p + m + 1 /\ buf = SubSeq(t, 1, m)
    BY DEF AtKey
  <1>2. /\ StepText(steps[k]) = t /\ t \in Seq(Signs) /\ Len(t) \in Nat
        /\ \A j \in 1..Len(t) : t[j] \notin {".", "["}
    BY <1>0, <1>1, KeyText, StepFacts
  <1>3. /\ p \in Nat /\ Len(path) \in Nat /\ p + Len(t) <= Len(path)
        /\ \A j \in 1..Len(t) : path[p + j] = t[j]
        /\ k = Len(steps) => p + Len(t) = Len(path)
        /\ k < Len(steps) => p + Len(t) + 1 <= Len(path) /\ path[p + Len(t) + 1] = "."
    BY <1>0, <1>2, Places
  <1>t. Len(StepText(steps[k])) = Len(t)
    BY <1>2
  <1> HIDE DEF t, p, T
  <1>6. m \in Nat /\ m <= Len(t) /\ (m < Len(t) \/ m = Len(t))
    <2>1. m \in 0..Len(t)
      BY DEF t
    <2> QED  BY <1>2, <2>1
  <1>4. CASE m < Len(t)
    <2>1. m + 1 \in 1..Len(t) /\ m + 1 \in 0..Len(t) /\ m \in 0..(Len(t) - 1)
          /\ i = p + (m + 1) /\ i <= Len(path) /\ i + 1 = p + (m + 1) + 1
      <3>1. m + 1 \in 1..Len(t) /\ m + 1 \in 0..Len(t) /\ m \in 0..(Len(t) - 1)
        BY <1>2, <1>4, <1>6
      <3>2. i = p + (m + 1) /\ i + 1 = p + (m + 1) + 1
        <4>1. p + m + 1 = p + (m + 1)
          BY <1>3, <1>6
        <4> QED  BY <1>1, <4>1
      <3>3. p + (m + 1) <= Len(path)
        BY <1>2, <1>3, <1>4, <1>6
      <3> QED  BY <3>1, <3>2, <3>3
    <2>2. ch = t[m + 1] /\ ch \notin {".", "[", "nul"}
      <3>1. ch = path[p + (m + 1)] /\ ch # "nul"
        BY <2>1, ChAt
      <3>2. path[p + (m + 1)] = t[m + 1] /\ t[m + 1] \notin {".", "["}
        BY <1>2, <1>3, <2>1
      <3> QED  BY <3>1, <3>2
    <2>3. ReadKey
      BY <1>1, <2>2 DEF Next, StartIndex, FindMember, FindItem, ReadIndex, AfterIndex,
                          NotFound, Reading
    <2>4. /\ buf' = Append(buf, ch) /\ prev' = prev /\ state' = state /\ js' = js
          /\ i' = i + 1 /\ result' = "none"
      BY <2>2, <2>3 DEF ReadKey, Advance
    <2>5. buf' = SubSeq(t, 1, m + 1)
      <3>1. Append(SubSeq(t, 1, m), t[m + 1]) = SubSeq(t, 1, m + 1)
        BY <1>2, <2>1, Taken
      <3> QED  BY <1>1, <2>2, <2>4, <3>1
    <2>6. AtKey(steps, js, k, m + 1, state', prev', i', buf')
      BY <1>1, <2>1, <2>4, <2>5 DEF AtKey, t, p, T
    <2>7. OnTheWay(steps, js, state', prev', i', buf')
      BY <2>1, <2>6 DEF OnTheWay, t
    <2> QED  BY <2>4, <2>7 DEF Follows
  <1>5. CASE m = Len(t)
    <2>1. buf = t /\ i = p + Len(t) + 1
      BY <1>1, <1>2, <1>5, Taken
    <2>2. ch \in {".", "nul"}
      <3>1. CASE k < Len(steps)
        BY <1>3, <2>1, <3>1, ChAt
      <3>2. CASE k = Len(steps)
        <4>1. i = Len(path) + 1
          BY <1>3, <2>1, <3>2
        <4> QED  BY <4>1, ChAt
      <3> QED  BY <1>0, <3>1, <3>2, StepOrder
    <2>3. T[k] = Member(prev, buf)
      BY <1>1, <2>1, OnwardIs DEF T, t
    <2>4. FindMember \/ NotFound
      BY <1>1, <2>2 DEF Next, StartIndex, ReadKey, FindItem, ReadIndex, AfterIndex, Reading
    <2>5. CASE FindMember
      <3>1. /\ prev' = Member(prev, buf) /\ buf' = <<>> /\ state' = "reading key" /\ Advance
        BY <1>1, <2>5 DEF FindMember
      <3> QED  BY <1>t, <2>1, <2>3, <3>1, Passed DEF T, p
    <2>6. CASE NotFound
      <3>1. /\ Member(prev, buf) = NULL /\ js' = js /\ result' = NULL
        BY <1>1, <2>6 DEF NotFound, Reading
      <3> QED  BY <2>3, <3>1, Lost DEF T
    <2> QED  BY <2>4, <2>5, <2>6
  <1> QED  BY <1>4, <1>5, <1>6

LEMMA BracketRound ==
  ASSUME NEW steps, UnderWay(steps), NEW k \in 1..Len(steps),
         AtBracket(steps, js, k, state, prev, i, buf), Next
  PROVE  Follows(steps)'
  <1> DEFINE t == steps[k].text
             w == StepText(steps[k])
             T == FollowFn(js, steps)
             p == Begin(steps, k)
  <1>0. steps \in StepSeqs /\ path = Written(steps) /\ js \in Nodes /\ result = "none"
    BY DEF UnderWay
  <1>1. /\ state = "reading key" /\ steps[k].kind = "index" /\ prev = T[k - 1]
        /\ i = p + 1 /\ buf = <<>>
    BY DEF AtBracket
  <1>2. t \in Seq(Signs) /\ Len(t) \in Nat /\ Len(w) = Len(t) + 2 /\ w[1] = "["
    BY <1>0, <1>1, IndexText, StepFacts
  <1>3. /\ p \in Nat /\ Len(path) \in Nat /\ p + Len(w) <= Len(path)
        /\ \A j \in 1..Len(w) : path[p + j] = w[j]
    BY <1>0, Places
  <1> HIDE DEF t, w, p, T
  <1>4. 1 \in 1..Len(w) /\ p + 1 <= Len(path) /\ 0 \in 0..Len(t) /\ (p + 1) + 1 = p + 0 + 2
    BY <1>2, <1>3
  <1>5. ch = "["
    BY <1>1, <1>2, <1>3, <1>4, ChAt
  <1>6. StartIndex
    BY <1>1, <1>5 DEF Next, ReadKey, FindMember, FindItem, ReadIndex, AfterIndex, NotFound, Reading
  <1>7. /\ buf' = buf /\ prev' = prev /\ state' = "reading array" /\ js' = js
        /\ i' = i + 1 /\ result' = "none"
    BY <1>5, <1>6 DEF StartIndex, Advance
  <1>8. buf' = SubSeq(t, 1, 0)
    BY <1>1, <1>2, <1>7, Taken
  <1>9. AtDigit(steps, js, k, 0, state', prev', i', buf')
    BY <1>1, <1>4, <1>7, <1>8 DEF AtDigit, t, p, T
  <1>10. OnTheWay(steps, js, state', prev', i', buf')
    BY <1>4, <1>9 DEF OnTheWay, t
  <1> QED  BY <1>7, <1>10 DEF Follows

LEMMA DigitRound ==
  ASSUME NEW steps, UnderWay(steps), NEW k \in 1..Len(steps), NEW m \in 0..Len(steps[k].text),
         AtDigit(steps, js, k, m, state, prev, i, buf), Next
  PROVE  Follows(steps)'
  <1> DEFINE t == steps[k].text
             w == StepText(steps[k])
             T == FollowFn(js, steps)
             p == Begin(steps, k)
  <1>0. steps \in StepSeqs /\ path = Written(steps) /\ js \in Nodes /\ result = "none"
    BY DEF UnderWay
  <1>1. /\ state = "reading array" /\ steps[k].kind = "index" /\ prev = T[k - 1]
        /\ i = p + m + 2 /\ buf = SubSeq(t, 1, m)
    BY DEF AtDigit
  <1>2. /\ t \in Seq(Signs) /\ Len(t) \in Nat /\ Len(w) = Len(t) + 2 /\ w[Len(t) + 2] = "]"
        /\ \A j \in 1..Len(t) : w[j + 1] = t[j] /\ t[j] # "]"
    BY <1>0, <1>1, IndexText, StepFacts
  <1>3. /\ p \in Nat /\ Len(path) \in Nat /\ p + Len(w) <= Len(path)
        /\ \A j \in 1..Len(w) : path[p + j] = w[j]
    BY <1>0, Places
  <1> HIDE DEF t, w, p, T
  <1>6. m \in Nat /\ m <= Len(t) /\ (m < Len(t) \/ m = Len(t))
    <2>1. m \in 0..Len(t)
      BY DEF t
    <2> QED  BY <1>2, <2>1
  <1>4. CASE m < Len(t)
    <2>1. m + 1 \in 1..Len(t) /\ m + 1 \in 0..Len(t) /\ m \in 0..(Len(t) - 1)
          /\ (m + 1) + 1 \in 1..Len(w) /\ i = p + ((m + 1) + 1) /\ i <= Len(path)
          /\ i + 1 = p + (m + 1) + 2
      <3>1. m + 1 \in 1..Len(t) /\ m + 1 \in 0..Len(t) /\ m \in 0..(Len(t) - 1)
        BY <1>2, <1>4, <1>6
      <3>2. (m + 1) + 1 \in 1..Len(w)
        BY <1>2, <1>4, <1>6
      <3>3. i = p + ((m + 1) + 1) /\ i + 1 = p + (m + 1) + 2
        <4>1. p + m + 2 = p + ((m + 1) + 1) /\ (p + m + 2) + 1 = p + (m + 1) + 2
          BY <1>3, <1>6
        <4> QED  BY <1>1, <4>1
      <3>4. p + ((m + 1) + 1) <= Len(path)
        BY <1>2, <1>3, <1>4, <1>6
      <3> QED  BY <3>1, <3>2, <3>3, <3>4
    <2>2. ch = t[m + 1] /\ ch # "]"
      <3>1. ch = path[p + ((m + 1) + 1)]
        BY <2>1, ChAt
      <3>2. path[p + ((m + 1) + 1)] = w[(m + 1) + 1]
        BY <1>3, <2>1
      <3>3. w[(m + 1) + 1] = t[m + 1] /\ t[m + 1] # "]"
        BY <1>2, <2>1
      <3> QED  BY <3>1, <3>2, <3>3
    <2>n. ch # "nul"
      BY <2>1, ChAt
    <2>3. ReadIndex
      BY <1>1, <2>2 DEF Next, StartIndex, ReadKey, FindMember, FindItem, AfterIndex,
                          NotFound, Reading
    <2>4. /\ buf' = Append(buf, ch) /\ prev' = prev /\ state' = state /\ js' = js
          /\ i' = i + 1 /\ result' = "none"
      BY <2>n, <2>3 DEF ReadIndex, Advance
    <2>5. buf' = SubSeq(t, 1, m + 1)
      <3>1. Append(SubSeq(t, 1, m), t[m + 1]) = SubSeq(t, 1, m + 1)
        BY <1>2, <2>1, Taken
      <3> QED  BY <1>1, <2>2, <2>4, <3>1
    <2>6. AtDigit(steps, js, k, m + 1, state', prev', i', buf')
      BY <1>1, <2>1, <2>4, <2>5 DEF AtDigit, t, p, T
    <2>7. OnTheWay(steps, js, state', prev', i', buf')
      BY <2>1, <2>6 DEF OnTheWay, t
    <2> QED  BY <2>4, <2>7 DEF Follows
  <1>5. CASE m = Len(t)
    <2>1. buf = t /\ Len(t) + 2 \in 1..Len(w) /\ i = p + (Len(t) + 2) /\ i <= Len(path)
          /\ i + 1 = p + Len(w) + 1
      <3>1. buf = t
        BY <1>1, <1>2, <1>5, Taken
      <3>2. i = p + Len(t) + 2
        BY <1>1, <1>5
      <3> QED  BY <1>2, <1>3, <3>1, <3>2
    <2>2. ch = "]" /\ ch # "nul"
      <3>1. ch = path[p + (Len(t) + 2)]
        BY <2>1, ChAt
      <3>2. path[p + (Len(t) + 2)] = w[Len(t) + 2]
        BY <1>3, <2>1
      <3> QED  BY <1>2, <3>1, <3>2
    <2>3. T[k] = Item(prev, Atoi(buf))
      BY <1>1, <2>1, OnwardIs DEF T, t
    <2>4. FindItem \/ NotFound
      BY <1>1, <2>2 DEF Next, StartIndex, ReadKey, FindMember, ReadIndex, AfterIndex, Reading
    <2>5. CASE FindItem
      <3>1. /\ prev' = T[k] /\ buf' = <<>> /\ state' = "reading array end" /\ js' = js
            /\ i' = i + 1 /\ result' = "none"
        BY <2>2, <2>3, <2>5 DEF FindItem, Advance
      <3>2. PastIndex(steps, js, k, state', prev', i', buf')
        BY <1>1, <2>1, <3>1 DEF PastIndex, T, p, w
      <3>3. OnTheWay(steps, js, state', prev', i', buf')
        BY <3>2 DEF OnTheWay
      <3> QED  BY <3>1, <3>3 DEF Follows
    <2>6. CASE NotFound
      <3>1. /\ Item(prev, Atoi(buf)) = NULL /\ js' = js /\ result' = NULL
        BY <1>1, <2>6 DEF NotFound, Reading
      <3> QED  BY <2>3, <3>1, Lost DEF T
    <2> QED  BY <2>4, <2>5, <2>6
  <1> QED  BY <1>4, <1>5, <1>6

LEMMA PastRound ==
  ASSUME NEW steps, UnderWay(steps), NEW k \in 1..Len(steps),
         PastIndex(steps, js, k, state, prev, i, buf), Next
  PROVE  Follows(steps)'
  <1>1. /\ state = "reading array end" /\ prev = FollowFn(js, steps)[k] /\ buf = <<>>
        /\ i = Begin(steps, k) + Len(StepText(steps[k])) + 1
    BY DEF PastIndex
  <1>2. AfterIndex
    BY <1>1 DEF Next, StartIndex, ReadKey, FindMember, FindItem, ReadIndex, NotFound, Reading
  <1>3. prev' = prev /\ buf' = buf /\ state' = "reading key" /\ Advance
    BY <1>2 DEF AfterIndex
  <1> QED  BY <1>1, <1>3, Passed

LEMMA InitFollows == Init => PathInv
  <1> SUFFICES ASSUME Init, NEW steps \in StepSeqs, js # NULL PROVE Follows(steps)
    BY DEF PathInv
  <1>1. /\ js \in Nodes /\ i = 1 /\ prev = js /\ buf = <<>> /\ state = "reading key"
        /\ result = "none"
    BY DEF Init
  <1>2. 1 \in 1..Len(steps) /\ 1 - 1 = 0
    <2>1. Len(steps) \in Nat /\ Len(steps) > 0
      BY StepFacts
    <2> QED  BY <2>1
  <1>3. prev = FollowFn(js, steps)[1 - 1]
    BY <1>1, <1>2, FollowFacts
  <1>4. i = Begin(steps, 1) + 1
    <2>1. Begin(steps, 1) = 0 /\ 0 + 1 = 1
      BY DEF Begin
    <2> QED  BY <1>1, <2>1
  <1>5. OnTheWay(steps, js, state, prev, i, buf)
    BY <1>1, <1>2, <1>3, <1>4, Starts
  <1> QED  BY <1>1, <1>5 DEF Follows

LEMMA StepFollows == IInv /\ PathInv /\ [Next]_vars => PathInv'
  <1> SUFFICES ASSUME IInv, PathInv, [Next]_vars PROVE PathInv'
    OBVIOUS
  <1>1. js' = js /\ path' = path
    BY DEF Next, StartIndex, FindMember, ReadKey, FindItem, ReadIndex, AfterIndex, NotFound,
           Advance, vars
  <1>2. SUFFICES ASSUME NEW steps \in StepSeqs, path = Written(steps), InRange(steps), js # NULL
                 PROVE  Follows(steps)'
    BY <1>1 DEF PathInv
  <1>3. Follows(steps)
    BY <1>2 DEF PathInv
  <1>4. CASE result = "none" /\ Next
    <2>1. UnderWay(steps)
      BY <1>2, <1>4 DEF UnderWay, IInv, TypeOK
    <2>2. OnTheWay(steps, js, state, prev, i, buf)
      BY <1>3, <1>4 DEF Follows
    <2>3. PICK k \in 1..Len(steps) :
            \/ AtBracket(steps, js, k, state, prev, i, buf)
            \/ PastIndex(steps, js, k, state, prev, i, buf)
            \/ \E m \in 0..Len(steps[k].text) :
                 \/ AtKey(steps, js, k, m, state, prev, i, buf)
                 \/ AtDigit(steps, js, k, m, state, prev, i, buf)
      BY <2>2 DEF OnTheWay
    <2> QED  BY <1>4, <2>1, <2>3, BracketRound, PastRound, KeyRound, DigitRound
  <1>5. CASE result # "none" \/ UNCHANGED vars
    <2>1. UNCHANGED vars
      BY <1>5 DEF Next, StartIndex, FindMember, ReadKey, FindItem, ReadIndex, AfterIndex, NotFound,
                  Reading
    <2>2. UNCHANGED <<js, path, i, prev, buf, state, result>>
      BY <2>1 DEF vars
    <2> QED  BY <1>3, <2>2 DEF Follows
  <1> QED  BY <1>4, <1>5

\* A path that writes steps leads lz_json_path_get where the steps lead, in
\* every value: keys are looked up as they are written, indices counted from
\* zero, and what is not there is not found, however long the path.
THEOREM FollowsSteps == Spec => []FollowsPath
  <1>1. Init => IInv /\ PathInv
    BY InitKept, InitFollows
  <1>2. (IInv /\ PathInv) /\ [Next]_vars => (IInv /\ PathInv)'
    BY StepKept, StepFollows
  <1>3. IInv /\ PathInv => FollowsPath
    BY DEF PathInv, Follows, FollowsPath, WrittenSteps
  <1> QED  BY <1>1, <1>2, <1>3, PTL DEF Spec

-----------------------------------------------------------------------------
(* What a path that finds something writes. *)

\* Every step that a path can write, and sequences of steps of which none is
\* left out.
AnyStep == { KeyStep(t) : t \in Seq(Chars \ {".", "["}) }
           \cup { IndexStep(t) : t \in Seq(Chars \cap DigitSet) }
NoStepLeftOut == \A steps \in Seq(AnyStep) : steps # <<>> => steps \in StepSeqs

\* What is left of a division, and how often it went.
LEMMA Division ==
  ASSUME NEW v \in Int, NEW m \in Nat, m # 0
  PROVE  \E r \in 0..(m - 1), e \in Int : r = v % m /\ v = r + e * m
  <1>1. v % m \in 0..(m - 1)
    OBVIOUS
  <1>2. v \div m \in Int
    OBVIOUS
  <1>3. v = (v % m) + (v \div m) * m
    OBVIOUS
  <1> QED BY <1>1, <1>2, <1>3

\* Two remainders are not a multiple apart.
LEMMA NoMultiple ==
  ASSUME NEW m \in Nat, m # 0, NEW a \in 0..(m - 1), NEW r \in 0..(m - 1),
         NEW d \in Int, a - r = d * m
  PROVE  a = r
  <1>1. ASSUME d >= 1 PROVE d * m >= m
    BY <1>1
  <1>2. ASSUME d <= -1 PROVE d * m <= -m
    BY <1>2
  <1>3. d = 0 => d * m = 0
    OBVIOUS
  <1>4. PICK x \in Int : x = d * m
    OBVIOUS
  <1> QED BY <1>1, <1>2, <1>3, <1>4

\* A remainder is found again when multiples are added.
LEMMA Remainder ==
  ASSUME NEW m \in Nat, m # 0, NEW a \in 0..(m - 1), NEW q \in Int, NEW v \in Int, v = a + q * m
  PROVE  v % m = a
  <1>1. PICK r \in 0..(m - 1), e \in Int : r = v % m /\ v = r + e * m
    BY Division
  <1>2. PICK d \in Int : d = e - q
    OBVIOUS
  <1>3. d * m = e * m - q * m
    BY <1>2
  <1>4. PICK x \in Int, y \in Int : x = e * m /\ y = q * m
    OBVIOUS
  <1>5. a - r = d * m
    BY <1>1, <1>3, <1>4
  <1> QED BY <1>1, <1>5, NoMultiple

\* Numbers that leave the same remainder as an int has.
Wraps(y, x) == \E q \in Int : y = x + q * UIntSize

\* One digit more, on both sides of the remainder.
LEMMA DigitWraps ==
  ASSUME NEW x \in Int, NEW y \in Int, Wraps(y, x), NEW d \in 0..9
  PROVE  LET z == ToSigned((x * 10 + d) % UIntSize) IN
         z \in Int /\ z <= IntMax /\ Wraps(y * 10 + d, z)
  <1> DEFINE z == ToSigned((x * 10 + d) % UIntSize)
  <1>a. PICK m \in Nat, h \in Int : m = UIntSize /\ h = IntMax /\ m # 0 /\ h >= 0 /\ h < m
    BY IntAssumption
  <1>b. PICK q \in Int : y = x + q * m
    BY <1>a DEF Wraps
  <1>1. PICK w \in Int : w = x * 10 + d
    OBVIOUS
  <1>2. PICK r \in 0..(m - 1), e \in Int : r = w % m /\ w = r + e * m
    BY <1>a, Division
  <1>3. z = (IF r > h THEN r - m ELSE r)
    BY <1>1, <1>2, <1>a DEF ToSigned
  <1> HIDE DEF z
  <1>z. z \in Int /\ z <= h /\ (z = r \/ z = r - m)
    BY <1>3, <1>a
  <1>4. y * 10 + d = w + (q * 10) * m
    <2>1. (q * 10) * m = (q * m) * 10
      OBVIOUS
    <2>2. PICK s \in Int : s = q * m
      OBVIOUS
    <2> QED BY <1>1, <1>b, <2>1, <2>2
  <1>5. y * 10 + d = r + (e + q * 10) * m
    <2>1. PICK f \in Int : f = q * 10
      OBVIOUS
    <2>2. (e + f) * m = e * m + f * m
      OBVIOUS
    <2>3. PICK s \in Int, t \in Int : s = e * m /\ t = f * m
      OBVIOUS
    <2>4. w + f * m = r + (e + f) * m
      BY <1>2, <2>2, <2>3
    <2> QED BY <1>4, <2>1, <2>4
  <1>6. PICK p \in Int : p = e + q * 10
    OBVIOUS
  <1>7. y * 10 + d = r + p * m
    BY <1>5, <1>6
  <1>8. \E s \in Int : y * 10 + d = z + s * m
    <2>1. CASE z = r
      BY <1>7, <2>1
    <2>2. CASE z = r - m
      <3>1. (p + 1) * m = p * m + m /\ p + 1 \in Int
        OBVIOUS
      <3>2. PICK s \in Int : s = p * m
        OBVIOUS
      <3>3. y * 10 + d = r + s
        BY <1>7, <3>2
      <3>4. y * 10 + d = z + (p + 1) * m
        BY <2>2, <3>1, <3>2, <3>3
      <3> QED BY <3>1, <3>4
    <2> QED BY <1>z, <2>1, <2>2
  <1>9. Wraps(y * 10 + d, z)
    BY <1>8, <1>a DEF Wraps
  <1> QED BY <1>z, <1>a, <1>9 DEF z

\* The digits that lz_atoi accumulates wrap: what it has is the number they
\* write, but for a multiple of 2^Width.
LEMMA AccumulatedWraps ==
  ASSUME NEW text \in Seq(DigitSet)
  PROVE  /\ Accumulated(text) \in Int /\ Accumulated(text) <= IntMax
         /\ NumberOf(text) \in Int /\ Wraps(NumberOf(text), Accumulated(text))
  <1> DEFINE N == Len(text)
             v == NumberFn(text)
             a == AccumulatedFn(text)
             Digit(k) == DigitValue(text[k])
             P == { k \in 0..N : a[k] \in Int /\ a[k] <= IntMax /\ Wraps(v[k], a[k]) }
  <1>1. /\ NumberOf(text) = v[N] /\ N \in Nat /\ v[0] = 0
        /\ \A k \in 1..N : Digit(k) \in 0..9 /\ v[k] = v[k - 1] * 10 + Digit(k)
    BY NumberSteps
  <1>2. /\ Accumulated(text) = a[N] /\ a[0] = 0
        /\ \A k \in 1..N : a[k] = ToSigned((a[k - 1] * 10 + Digit(k)) % UIntSize)
    BY AccumulatedSteps
  <1>3. \A k \in 0..N : v[k] \in Int
    <2>1. \A k \in 0..N : v[k] \in Nat
      BY NumberRead
    <2> HIDE DEF v, N
    <2> QED BY <2>1
  <1> HIDE DEF N, v, a, Digit
  <1>4. 0 \in P
    <2>1. 0 \in 0..N
      BY <1>1
    <2>2. PICK m \in Nat : m = UIntSize
      BY IntAssumption
    <2>3. 0 = 0 + 0 * m
      OBVIOUS
    <2>4. Wraps(0, 0)
      BY <2>2, <2>3 DEF Wraps
    <2>5. 0 <= IntMax
      BY IntAssumption
    <2> QED BY <1>1, <1>2, <2>1, <2>4, <2>5
  <1>5. ASSUME NEW k \in 0..N, k \in P, k < N PROVE k + 1 \in P
    <2>1. k + 1 \in 1..N /\ k + 1 \in 0..N /\ (k + 1) - 1 = k
      BY <1>1, <1>5
    <2>2. /\ v[k + 1] = v[k] * 10 + Digit(k + 1) /\ Digit(k + 1) \in 0..9
          /\ a[k + 1] = ToSigned((a[k] * 10 + Digit(k + 1)) % UIntSize)
      BY <1>1, <1>2, <2>1
    <2>3. a[k] \in Int /\ v[k] \in Int /\ Wraps(v[k], a[k])
      BY <1>3, <1>5
    <2>4. a[k + 1] \in Int /\ a[k + 1] <= IntMax /\ Wraps(v[k + 1], a[k + 1])
      BY <2>2, <2>3, DigitWraps
    <2> QED BY <2>1, <2>4
  <1> HIDE DEF P
  <1>6. \A k \in 0..N : k \in P
    BY <1>1, <1>4, <1>5, BoundedInduction
  <1>7. N \in 0..N
    BY <1>1
  <1> QED BY <1>1, <1>2, <1>3, <1>6, <1>7 DEF P

\* So it returns that number modulo 2^Width, or -1.
LEMMA AtoiWraps ==
  ASSUME NEW text \in Seq(DigitSet)
  PROVE  Atoi(text) # -1 => Atoi(text) \in Nat /\ Atoi(text) = NumberOf(text) % UIntSize
  <1>1. DOMAIN text = 1..Len(text)
    BY LenProperties
  <1>2. \A k \in DOMAIN text : text[k] \in DigitSet
    BY <1>1, ElementOfSeq
  <1>3. PICK a \in Int, v \in Int, q \in Int : /\ a = Accumulated(text) /\ v = NumberOf(text)
                                               /\ a <= IntMax /\ v = a + q * UIntSize
    BY AccumulatedWraps DEF Wraps
  <1>4. Atoi(text) = IF a < 0 THEN -1 ELSE a
    BY <1>2, <1>3 DEF Atoi
  <1>5. CASE ~(a < 0)
    <2>1. PICK m \in Nat : m = UIntSize /\ m # 0 /\ IntMax \in Nat /\ IntMax < m
      BY IntAssumption
    <2>2. a \in 0..(m - 1)
      BY <1>3, <1>5, <2>1
    <2>3. v = a + q * m
      BY <1>3, <2>1
    <2>4. v % m = a
      BY ONLY <2>1, <2>2, <2>3, Remainder
    <2> QED BY <1>3, <1>4, <1>5, <2>1, <2>4
  <1> QED BY <1>4, <1>5

\* An item found is one that a step leads to.
LEMMA ItemOnward ==
  ASSUME NEW node, NEW text, IsList(text), Item(node, Atoi(text)) # NULL
  PROVE  /\ \A n \in DOMAIN text : text[n] \in DigitSet
         /\ Item(node, Atoi(text)) = Onward(node, IndexStep(text))
  <1>1. node \in Arrays /\ Atoi(text) + 1 \in DOMAIN Items[node]
        /\ Item(node, Atoi(text)) = Items[node][Atoi(text) + 1]
    BY DEF Item
  <1>2. Items[node] \in Seq(Nodes \cup {NULL})
    BY <1>1, NodesAssumption
  <1>3. DOMAIN Items[node] = 1..Len(Items[node]) /\ Len(Items[node]) \in Nat
    BY <1>2, LenProperties
  <1>4. \A n \in DOMAIN text : text[n] \in DigitSet
    <2> SUFFICES ASSUME \E n \in DOMAIN text : text[n] \notin DigitSet PROVE FALSE
      OBVIOUS
    <2>1. Atoi(text) = -1
      BY DEF Atoi
    <2> QED BY <1>1, <1>3, <2>1
  <1>5. text \in Seq(DigitSet)
    BY <1>4, ListOf
  <1>6. Atoi(text) \in Nat /\ Atoi(text) = NumberOf(text) % UIntSize
    <2>1. Atoi(text) # -1
      BY <1>1, <1>3
    <2> QED BY <1>5, <2>1, AtoiWraps
  <1>7. Atoi(text) < Len(Items[node])
    BY <1>1, <1>3, <1>6
  <1>8. Nth(node, Atoi(text)) = Items[node][Atoi(text) + 1]
    BY <1>1, <1>7 DEF Nth
  <1>9. Onward(node, IndexStep(text)) = Nth(node, NumberOf(text) % UIntSize)
    BY DEF Onward, IndexStep
  <1> QED BY <1>1, <1>4, <1>6, <1>8, <1>9

-----------------------------------------------------------------------------
(* Steps written one after the other. *)

\* The function that Forms defines by recursion, and one round of it.
FormsFn(steps) ==
  CHOOSE forms : forms =
    [k \in 0..Len(steps) |->
       IF k = 0 THEN {<<>>} ELSE Lengthened(forms[k - 1], k, steps[k])]
Joint(k) == IF k = 1 THEN <<>> ELSE <<".">>
Gap(k) == IF k = 1 THEN 0 ELSE 1

\* A step written in one text behind another: its length and its characters.
LEMMA JoinedFacts ==
  ASSUME NEW text \in Seq(Signs), NEW form \in Seq(Signs), NEW k \in Nat
  PROVE  LET c == Joined(text, k, form)
             n == Gap(k)
         IN /\ n \in 0..1 /\ c \in Seq(Signs) /\ Len(c) = Len(text) + n + Len(form)
            /\ \A j \in 1..Len(text) : c[j] = text[j]
            /\ n = 1 => c[Len(text) + 1] = "."
            /\ \A j \in 1..Len(form) : c[Len(text) + n + j] = form[j]
  <1>0. PICK c : c = Joined(text, k, form)
    OBVIOUS
  <1>n. PICK n \in 0..1 : n = Gap(k)
    BY DEF Gap
  <1>1. /\ Joint(k) \in Seq(Signs) /\ Len(Joint(k)) = n /\ (n = 1 => Joint(k)[1] = ".")
    <2>1. <<>> \in Seq(Signs) /\ Len(<<>>) = 0
      OBVIOUS
    <2>2. <<".">> \in Seq(Signs) /\ Len(<<".">>) = 1 /\ <<".">>[1] = "."
      BY DEF Signs
    <2> QED BY <1>n, <2>1, <2>2 DEF Joint, Gap
  <1> DEFINE u == text \o Joint(k)
             l == Len(text)
             f == Len(form)
  <1>2. l \in Nat /\ f \in Nat
    BY LenProperties
  <1>3. /\ u \in Seq(Signs) /\ Len(u) = l + n
        /\ \A j \in 1..(l + n) : u[j] = IF j <= l THEN text[j] ELSE Joint(k)[j - l]
    <2>1. /\ u \in Seq(Signs) /\ Len(u) = Len(text) + Len(Joint(k))
          /\ \A j \in 1..(Len(text) + Len(Joint(k))) :
               u[j] = IF j <= Len(text) THEN text[j] ELSE Joint(k)[j - Len(text)]
      BY <1>1, ConcatProperties
    <2> HIDE DEF u
    <2> QED BY <1>1, <2>1
  <1> HIDE DEF u
  <1>4. c = u \o form
    BY <1>0 DEF Joined, Joint, u
  <1>5. /\ c \in Seq(Signs) /\ Len(c) = Len(u) + f
        /\ \A j \in 1..(Len(u) + f) : c[j] = IF j <= Len(u) THEN u[j] ELSE form[j - Len(u)]
    <2>1. /\ u \o form \in Seq(Signs) /\ Len(u \o form) = Len(u) + Len(form)
          /\ \A j \in 1..(Len(u) + Len(form)) :
               (u \o form)[j] = IF j <= Len(u) THEN u[j] ELSE form[j - Len(u)]
      <3>1. u \in Seq(Signs) /\ form \in Seq(Signs)
        BY <1>3
      <3> QED BY ONLY <3>1, ConcatProperties
    <2> QED BY <1>4, <2>1
  <1> HIDE DEF l, f
  <1>6. \A j \in 1..l : c[j] = text[j]
    <2>1. \A j \in 1..l : j \in 1..(l + n) /\ j \in 1..((l + n) + f) /\ j <= l /\ j <= l + n
      BY <1>2
    <2> QED BY <1>3, <1>5, <2>1
  <1>7. n = 1 => c[l + 1] = "."
    <2>1. n = 1 => /\ l + 1 \in 1..(l + n) /\ l + 1 \in 1..((l + n) + f) /\ ~(l + 1 <= l)
                   /\ l + 1 <= l + n /\ (l + 1) - l = 1
      BY <1>2
    <2> QED BY <1>1, <1>3, <1>5, <2>1
  <1>8. \A j \in 1..f : c[l + n + j] = form[j]
    <2>1. \A j \in 1..f : /\ l + n + j \in 1..((l + n) + f) /\ ~(l + n + j <= l + n)
                          /\ (l + n + j) - (l + n) = j
      BY <1>2
    <2> QED BY <1>3, <1>5, <2>1
  <1> QED BY <1>0, <1>n, <1>3, <1>5, <1>6, <1>7, <1>8 DEF l, f

\* The digits t of an index with its opening bracket behind m of them.
Bracketing(t, m) == SubSeq(t, 1, m) \o <<"[">> \o SubSeq(t, m + 1, Len(t)) \o <<"]">>

\* Its length and its characters.
LEMMA BracketingFacts ==
  ASSUME NEW t \in Seq(Signs), NEW m \in 0..Len(t), NEW c, c = Bracketing(t, m)
  PROVE  /\ c \in Seq(Signs) /\ Len(c) = Len(t) + 2
         /\ \A j \in 1..m : c[j] = t[j]
         /\ c[m + 1] = "["
         /\ \A j \in m + 1..Len(t) : c[j + 1] = t[j]
         /\ c[Len(t) + 2] = "]"
  <1> DEFINE n == Len(t)
             a == SubSeq(t, 1, m)
             b == SubSeq(t, m + 1, n)
             u == a \o <<"[">>
             w == u \o b
  <1>1. n \in Nat /\ m \in Nat /\ m <= n
    BY LenProperties
  <1>2. \A j \in 1..n : t[j] \in Signs
    BY ElementOfSeq
  <1>3. /\ a \in Seq(Signs) /\ Len(a) = m
        /\ \A j \in 1..m : a[j] = t[j]
    <2>1. /\ \A j \in 1..m : t[j] \in Signs
          /\ 1 \in Int /\ m \in Int /\ m - 1 + 1 = m
          /\ \A j \in 1..m : 1 + j - 1 = j
          /\ (IF 1 <= m THEN m - 1 + 1 ELSE 0) = m
      BY <1>1, <1>2
    <2>2. /\ a \in Seq(Signs) /\ Len(a) = (IF 1 <= m THEN m - 1 + 1 ELSE 0)
          /\ \A j \in 1..(m - 1 + 1) : a[j] = t[1 + j - 1]
      BY <2>1, SubSeqProperties
    <2> HIDE DEF a
    <2> QED BY <2>1, <2>2
  <1>4. /\ b \in Seq(Signs) /\ Len(b) = n - m
        /\ \A j \in 1..(n - m) : b[j] = t[m + j]
    BY RestElements
  <1>5. /\ <<"[">> \in Seq(Signs) /\ Len(<<"[">>) = 1 /\ <<"[">>[1] = "["
        /\ <<"]">> \in Seq(Signs) /\ Len(<<"]">>) = 1 /\ <<"]">>[1] = "]"
    BY DEF Signs
  <1>6. c = w \o <<"]">>
    BY DEF Bracketing
  <1> HIDE DEF a, b
  <1>7. /\ u \in Seq(Signs) /\ Len(u) = m + 1
        /\ \A j \in 1..(m + 1) : u[j] = IF j <= m THEN a[j] ELSE <<"[">>[j - m]
    BY <1>3, <1>5, ConcatProperties
  <1> HIDE DEF u
  <1>8. /\ w \in Seq(Signs) /\ Len(w) = (m + 1) + (n - m)
        /\ \A j \in 1..((m + 1) + (n - m)) : w[j] = IF j <= m + 1 THEN u[j] ELSE b[j - (m + 1)]
    <2>1. /\ w \in Seq(Signs) /\ Len(w) = Len(u) + Len(b)
          /\ \A j \in 1..(Len(u) + Len(b)) : w[j] = IF j <= Len(u) THEN u[j] ELSE b[j - Len(u)]
      BY <1>4, <1>7, ConcatProperties
    <2> HIDE DEF w, n
    <2> QED BY <1>4, <1>7, <2>1
  <1>9. (m + 1) + (n - m) = n + 1
    BY <1>1
  <1> HIDE DEF w
  <1>10. /\ c \in Seq(Signs) /\ Len(c) = (n + 1) + 1
         /\ \A j \in 1..((n + 1) + 1) : c[j] = IF j <= n + 1 THEN w[j] ELSE <<"]">>[j - (n + 1)]
    BY <1>5, <1>6, <1>8, <1>9, ConcatProperties
  <1> HIDE DEF n
  <1>11. \A j \in 1..m : c[j] = t[j]
    <2>1. \A j \in 1..m : /\ j \in 1..((n + 1) + 1) /\ j <= n + 1 /\ j \in 1..(n + 1)
                          /\ j <= m + 1 /\ j \in 1..(m + 1) /\ j <= m
      BY <1>1
    <2> QED BY <1>3, <1>7, <1>8, <1>9, <1>10, <2>1
  <1>12. c[m + 1] = "["
    <2>1. /\ m + 1 \in 1..((n + 1) + 1) /\ m + 1 <= n + 1 /\ m + 1 \in 1..(n + 1)
          /\ m + 1 <= m + 1 /\ m + 1 \in 1..(m + 1) /\ ~(m + 1 <= m) /\ (m + 1) - m = 1
      BY <1>1
    <2> QED BY <1>5, <1>7, <1>8, <1>9, <1>10, <2>1
  <1>13. ASSUME NEW j \in m + 1..n PROVE c[j + 1] = t[j]
    <2>1. /\ j + 1 \in 1..((n + 1) + 1) /\ j + 1 <= n + 1 /\ j + 1 \in 1..(n + 1)
          /\ ~(j + 1 <= m + 1) /\ (j + 1) - (m + 1) = j - m /\ j - m \in 1..(n - m)
          /\ m + (j - m) = j
      BY <1>1
    <2> QED BY <1>4, <1>8, <1>9, <1>10, <2>1
  <1>14. c[n + 2] = "]"
    <2>1. n + 2 \in 1..((n + 1) + 1) /\ ~(n + 2 <= n + 1) /\ (n + 2) - (n + 1) = 1
      BY <1>1
    <2> QED BY <1>5, <1>10, <2>1
  <1>15. Len(c) = n + 2
    BY <1>1, <1>10
  <1> QED BY <1>10, <1>11, <1>12, <1>13, <1>14, <1>15 DEF n

\* The forms of a step are texts.
LEMMA AnyStepFacts ==
  ASSUME NEW s \in AnyStep
  PROVE  /\ s.text \in Seq(Chars)
         /\ s.kind = "key" => s = KeyStep(s.text) /\ StepForms(s) = {s.text}
         /\ s.kind # "key" => /\ s = IndexStep(s.text)
                              /\ StepForms(s) = { Bracketing(s.text, k) : k \in 0..Len(s.text) }
         /\ \A form \in StepForms(s) : form \in Seq(Signs)
  <1>1. CASE \E t \in Seq(Chars \ {".", "["}) : s = KeyStep(t)
    <2>1. PICK t \in Seq(Chars \ {".", "["}) : s = KeyStep(t)
      BY <1>1
    <2>2. s.kind = "key" /\ s.text = t
      BY <2>1 DEF KeyStep
    <2>3. t \in Seq(Chars) /\ t \in Seq(Signs)
      <3>1. Chars \ {".", "["} \subseteq Chars /\ Chars \subseteq Signs
        BY DEF Signs
      <3> HIDE DEF Signs
      <3> QED BY <3>1
    <2>4. StepForms(s) = {t}
      BY <2>2 DEF StepForms
    <2> QED BY <2>1, <2>2, <2>3, <2>4
  <1>2. CASE \E t \in Seq(Chars \cap DigitSet) : s = IndexStep(t)
    <2>1. PICK t \in Seq(Chars \cap DigitSet) : s = IndexStep(t)
      BY <1>2
    <2>2. s.kind = "index" /\ s.text = t
      BY <2>1 DEF IndexStep
    <2>3. t \in Seq(Chars) /\ t \in Seq(Signs)
      <3>1. Chars \cap DigitSet \subseteq Chars /\ Chars \subseteq Signs
        BY DEF Signs
      <3> HIDE DEF Signs
      <3> QED BY <3>1
    <2>4. StepForms(s) = { Bracketing(t, k) : k \in 0..Len(t) }
      BY <2>2 DEF StepForms, Bracketing
    <2>5. \A k \in 0..Len(t) : Bracketing(t, k) \in Seq(Signs)
      BY <2>3, BracketingFacts
    <2> QED BY <2>1, <2>2, <2>3, <2>4, <2>5
  <1> QED BY <1>1, <1>2 DEF AnyStep

\* The forms of some steps are those of one step fewer, made longer.
LEMMA FormsFacts ==
  ASSUME NEW steps \in Seq(AnyStep)
  PROVE  LET N == Len(steps)
             F == FormsFn(steps)
         IN /\ Forms(steps) = F[N] /\ F[0] = {<<>>} /\ N \in Nat
            /\ \A k \in 0..N : F[k] \in SUBSET Seq(Signs)
            /\ \A k \in 1..N : F[k] = Lengthened(F[k - 1], k, steps[k])
  <1> DEFINE N == Len(steps)
             R == SUBSET Seq(Signs)
             G == [k \in 1..N |-> [texts \in R |-> Lengthened(texts, k, steps[k])]]
             F == FormsFn(steps)
  <1>1. N \in Nat /\ \A k \in 1..N : steps[k] \in AnyStep
    BY LenProperties, ElementOfSeq
  <1>2. \A k \in 1..N : \A texts \in R : Lengthened(texts, k, steps[k]) \in R
    <2> SUFFICES ASSUME NEW k \in 1..N, NEW texts \in R, NEW text \in texts,
                        NEW form \in StepForms(steps[k])
                 PROVE  Joined(text, k, form) \in Seq(Signs)
      BY DEF Lengthened
    <2>1. text \in Seq(Signs) /\ form \in Seq(Signs) /\ k \in Nat
      BY <1>1, AnyStepFacts
    <2> QED BY <2>1, JoinedFacts
  <1>3. Steps(G, N, R)
    <2> HIDE DEF R, N
    <2>1. G \in [1..N -> [R -> R]]
      BY <1>2
    <2> QED BY <2>1 DEF Steps
  <1>4. {<<>>} \in R
    OBVIOUS
  <1>5. PICK f : Iterates(f, G, N, R, {<<>>})
    <2> HIDE DEF G, N, R
    <2> QED BY ONLY <1>1, <1>3, <1>4, Iterated
  <1>6. /\ f \in [0..N -> R] /\ f[0] = {<<>>}
        /\ \A k \in 1..N : f[k] = Lengthened(f[k - 1], k, steps[k])
    <2>1. /\ f \in [0..N -> R] /\ f[0] = {<<>>}
          /\ \A k \in 1..N : f[k] = G[k][f[k - 1]]
      BY <1>5 DEF Iterates
    <2>2. \A k \in 1..N : k - 1 \in 0..N
      BY <1>1
    <2> HIDE DEF R
    <2> QED BY <2>1, <2>2
  <1>7. f = [k \in 0..N |-> IF k = 0 THEN {<<>>}
               ELSE Lengthened(f[k - 1], k, steps[k])]
    <2>1. \A k \in 0..N : k = 0 \/ k \in 1..N
      BY <1>1
    <2>2. \A k \in 0..N : f[k] = IF k = 0 THEN {<<>>}
               ELSE Lengthened(f[k - 1], k, steps[k])
      BY <1>6, <2>1
    <2> QED BY <1>6, <2>2
  <1>8. F = [k \in 0..N |-> IF k = 0 THEN {<<>>}
               ELSE Lengthened(F[k - 1], k, steps[k])]
    BY <1>7 DEF FormsFn
  <1>9. Forms(steps) = F[N]
    BY DEF Forms, FormsFn
  <1> HIDE DEF F, N, G
  <1>10. F[0] = {<<>>} /\ \A k \in 1..N : F[k] = Lengthened(F[k - 1], k, steps[k])
    <2>1. 0 \in 0..N /\ \A k \in 1..N : k \in 0..N /\ k # 0
      BY <1>1
    <2> QED BY <1>8, <2>1
  <1>11. \A k \in 0..N : F[k] \in R
    <2> DEFINE P == { k \in 0..N : F[k] \in R }
    <2>1. 0 \in P
      <3>1. 0 \in 0..N
        BY <1>1
      <3> QED BY <1>4, <1>10, <3>1
    <2>2. ASSUME NEW k \in 0..N, k \in P, k < N PROVE k + 1 \in P
      <3>1. k + 1 \in 1..N /\ k + 1 \in 0..N /\ (k + 1) - 1 = k
        BY <1>1, <2>2
      <3> HIDE DEF R
      <3>2. F[k + 1] \in R
        BY <1>2, <1>10, <2>2, <3>1
      <3> QED BY <3>1, <3>2
    <2> HIDE DEF P
    <2>3. \A k \in 0..N : k \in P
      BY <1>1, <2>1, <2>2, BoundedInduction
    <2> QED BY <2>3 DEF P
  <1> QED BY <1>1, <1>9, <1>10, <1>11 DEF F, N

\* No steps are written by no text.
LEMMA NoSteps == <<>> \in Seq(AnyStep) /\ Forms(<<>>) = {<<>>}
  <1>1. <<>> \in Seq(AnyStep) /\ Len(<<>>) = 0
    OBVIOUS
  <1> QED BY <1>1, FormsFacts

\* One more step.
LEMMA StepAdded ==
  ASSUME NEW steps \in Seq(AnyStep), NEW s \in AnyStep, NEW more, more = Append(steps, s)
  PROVE  /\ more \in Seq(AnyStep) /\ more # <<>>
         /\ Len(steps) \in Nat /\ Len(more) = Len(steps) + 1 /\ more[Len(steps) + 1] = s
         /\ \A k \in 1..Len(steps) : more[k] = steps[k]
  <1>1. /\ Len(steps) \in Nat /\ more \in Seq(AnyStep) /\ Len(more) = Len(steps) + 1
        /\ more[Len(steps) + 1] = s /\ \A k \in 1..Len(steps) : more[k] = steps[k]
    BY AppendProperties, LenProperties
  <1>2. Len(more) # 0
    BY <1>1
  <1>3. more # <<>>
    BY <1>2
  <1> QED BY <1>1, <1>3

\* A form of it behind a text of the others is a text of all.
LEMMA FormsMore ==
  ASSUME NEW steps \in Seq(AnyStep), NEW s \in AnyStep, NEW more, more = Append(steps, s),
         NEW text \in Forms(steps), NEW form \in StepForms(s)
  PROVE  Joined(text, Len(steps) + 1, form) \in Forms(more)
  <1> DEFINE N == Len(steps)
             F == FormsFn(steps)
             H == FormsFn(more)
             P == { k \in 0..N : H[k] = F[k] }
  <1>1. /\ more \in Seq(AnyStep) /\ N \in Nat /\ Len(more) = N + 1 /\ more[N + 1] = s
        /\ \A k \in 1..N : more[k] = steps[k]
    BY StepAdded
  <1>2. /\ Forms(steps) = F[N] /\ F[0] = {<<>>}
        /\ \A k \in 1..N : F[k] = Lengthened(F[k - 1], k, steps[k])
    BY FormsFacts
  <1>3. /\ Forms(more) = H[N + 1] /\ H[0] = {<<>>}
        /\ \A k \in 1..(N + 1) : H[k] = Lengthened(H[k - 1], k, more[k])
    BY <1>1, FormsFacts
  <1> HIDE DEF N, F, H
  <1>4. 0 \in P
    <2>1. 0 \in 0..N
      BY <1>1
    <2> QED BY <1>2, <1>3, <2>1
  <1>5. ASSUME NEW k \in 0..N, k \in P, k < N PROVE k + 1 \in P
    <2>1. k + 1 \in 1..N /\ k + 1 \in 0..N /\ (k + 1) - 1 = k /\ k + 1 \in 1..(N + 1)
      BY <1>1, <1>5
    <2>2. H[k + 1] = Lengthened(H[k], k + 1, more[k + 1]) /\ F[k + 1] = Lengthened(F[k], k + 1, steps[k + 1])
      BY <1>2, <1>3, <2>1
    <2>3. H[k] = F[k] /\ more[k + 1] = steps[k + 1]
      BY <1>1, <1>5, <2>1
    <2> QED BY <2>1, <2>2, <2>3
  <1> HIDE DEF P
  <1>6. \A k \in 0..N : k \in P
    BY <1>1, <1>4, <1>5, BoundedInduction
  <1>7. N \in 0..N /\ N + 1 \in 1..(N + 1) /\ (N + 1) - 1 = N
    BY <1>1
  <1>8. H[N] = Forms(steps)
    BY <1>2, <1>6, <1>7 DEF P
  <1>9. Forms(more) = Lengthened(Forms(steps), N + 1, s)
    BY <1>1, <1>3, <1>7, <1>8
  <1> QED BY <1>9 DEF Lengthened, N

\* Where steps lead, if any are taken.
Here(node, steps) == IF steps = <<>> THEN node ELSE Follow(node, steps)

\* One more step leads on from where the others lead.
LEMMA FollowMore ==
  ASSUME NoStepLeftOut, NEW node \in Nodes, NEW steps \in Seq(AnyStep), NEW s \in AnyStep,
         NEW more, more = Append(steps, s)
  PROVE  more \in StepSeqs /\ Follow(node, more) = Onward(Here(node, steps), s)
  <1> DEFINE N == Len(steps)
             T == FollowFn(node, steps)
             U == FollowFn(node, more)
             P == { k \in 0..N : U[k] = T[k] }
  <1>1. /\ more \in Seq(AnyStep) /\ more # <<>> /\ N \in Nat /\ Len(more) = N + 1
        /\ more[N + 1] = s /\ \A k \in 1..N : more[k] = steps[k]
    BY StepAdded
  <1>2. more \in StepSeqs
    BY <1>1 DEF NoStepLeftOut
  <1>3. /\ Follow(node, more) = U[N + 1] /\ U[0] = node
        /\ \A k \in 1..(N + 1) : U[k] = Onward(U[k - 1], more[k])
    <2>1. /\ Follow(node, more) = U[Len(more)] /\ U[0] = node
          /\ \A k \in 1..Len(more) : U[k] = Onward(U[k - 1], more[k])
      BY <1>2, FollowFacts
    <2> HIDE DEF U, N
    <2> QED BY <1>1, <2>1
  <1> HIDE DEF U
  <1>4. Follow(node, more) = Onward(U[N], s)
    <2>1. N + 1 \in 1..(N + 1) /\ (N + 1) - 1 = N
      BY <1>1
    <2> QED BY <1>1, <1>3, <2>1
  <1>5. CASE steps = <<>>
    <2>1. N = 0
      BY <1>5
    <2> QED BY <1>2, <1>3, <1>4, <1>5, <2>1 DEF Here
  <1>6. CASE steps # <<>>
    <2>1. steps \in StepSeqs
      BY <1>6 DEF NoStepLeftOut
    <2>2. /\ Follow(node, steps) = T[N] /\ T[0] = node
          /\ \A k \in 1..N : T[k] = Onward(T[k - 1], steps[k])
      BY <2>1, FollowFacts
    <2> HIDE DEF N, T
    <2>3. 0 \in P
      BY <1>1, <1>3, <2>2
    <2>4. ASSUME NEW k \in 0..N, k \in P, k < N PROVE k + 1 \in P
      <3>1. k + 1 \in 1..N /\ k + 1 \in 0..N /\ (k + 1) - 1 = k /\ k + 1 \in 1..(N + 1)
        BY <1>1, <2>4
      <3>2. U[k + 1] = Onward(U[k], more[k + 1]) /\ T[k + 1] = Onward(T[k], steps[k + 1])
        BY <1>3, <2>2, <3>1
      <3>3. U[k] = T[k] /\ more[k + 1] = steps[k + 1]
        BY <1>1, <2>4, <3>1
      <3> QED BY <3>1, <3>2, <3>3
    <2> HIDE DEF P
    <2>5. \A k \in 0..N : k \in P
      BY <1>1, <2>3, <2>4, BoundedInduction
    <2>6. N \in 0..N
      BY <1>1
    <2>7. U[N] = T[N]
      BY <2>5, <2>6 DEF P
    <2> QED BY <1>2, <1>4, <1>6, <2>2, <2>7 DEF Here
  <1> QED BY <1>5, <1>6

-----------------------------------------------------------------------------
(* A lookup that finds something, on its way: the steps it has taken, the   *)
(* text it has read for them, and what it has read of the next step.  st is *)
(* its state, n the index of its next character, b what it has kept.        *)

Explained(steps, text) ==
  /\ steps \in Seq(AnyStep) /\ text \in Forms(steps)
  /\ Begins(text) /\ prev = Here(js, steps)

\* The characters of path p before the next step, and what parts the two.
Off(steps, text) == IF steps = <<>> THEN 0 ELSE Len(text) + 1
Parted(p, steps, text) ==
  steps # <<>> => /\ Len(text) + 1 <= Len(p)
                  /\ p[Len(text) + 1] = "." \/ (Len(text) > 0 /\ text[Len(text)] = "]")

\* The first m characters of b are those behind the first o of p.
Copied(p, o, b, m) ==
  \A j \in 1..m : o + j \in 1..Len(p) /\ b[j] = p[o + j] /\ b[j] \notin {".", "["}

\* Behind them is a bracket, and then the others.
Bracketed(p, o, b, m) ==
  /\ Copied(p, o, b, m)
  /\ o + m + 1 \in 1..Len(p) /\ p[o + m + 1] = "["
  /\ \A j \in m + 1..Len(b) :
       o + j + 1 \in 1..Len(p) /\ b[j] = p[o + j + 1] /\ b[j] # "]"

InKey(p, steps, text, st, n, b) ==
  LET o == Off(steps, text) IN
  /\ st = "reading key" /\ Parted(p, steps, text)
  /\ n = o + Len(b) + 1 /\ Copied(p, o, b, Len(b))
InIndex(p, steps, text, st, n, b) ==
  LET o == Off(steps, text) IN
  /\ st = "reading array" /\ Parted(p, steps, text)
  /\ n = o + Len(b) + 2 /\ \E m \in 0..Len(b) : Bracketed(p, o, b, m)
PastBracket(steps, text, st, n, b) ==
  /\ st = "reading array end" /\ b = <<>> /\ steps # <<>>
  /\ n = Len(text) + 1 /\ Len(text) > 0 /\ text[Len(text)] = "]"

Reads(steps, text) ==
  /\ Explained(steps, text)
  /\ \/ InKey(path, steps, text, state, i, buf)
     \/ InIndex(path, steps, text, state, i, buf)
     \/ PastBracket(steps, text, state, i, buf)

ExplainInv ==
  IF result = "none" THEN \E steps \in Seq(AnyStep) : \E text \in Forms(steps) : Reads(steps, text)
  ELSE OnlySteps

\* The text of the steps taken is no longer than the path.
LEMMA ExplainedFacts ==
  ASSUME NEW steps, NEW text, Explained(steps, text), TypeOK
  PROVE  /\ steps \in Seq(AnyStep) /\ Len(steps) \in Nat /\ text \in Seq(Signs) /\ Len(text) \in Nat
         /\ DOMAIN text = 1..Len(text) /\ Len(text) <= Len(path) /\ Len(path) \in Nat
         /\ steps = <<>> => Len(text) = 0
         /\ Off(steps, text) \in Nat
  <1>1. steps \in Seq(AnyStep) /\ text \in Forms(steps) /\ Begins(text)
    BY DEF Explained
  <1>2. Len(steps) \in Nat /\ Len(steps) \in 0..Len(steps)
    BY <1>1, LenProperties
  <1>3. Forms(steps) \in SUBSET Seq(Signs)
    BY <1>1, <1>2, FormsFacts
  <1>4. text \in Seq(Signs)
    BY <1>1, <1>3
  <1>5. Len(text) \in Nat /\ DOMAIN text = 1..Len(text)
    BY <1>4, LenProperties
  <1>6. steps = <<>> => text = <<>>
    BY <1>1, NoSteps
  <1>7. steps = <<>> => Len(text) = 0
    BY <1>6
  <1>8. Len(path) \in Nat /\ Len(text) <= Len(path)
    BY <1>1, Numbers DEF Begins
  <1>9. Off(steps, text) \in Nat
    BY <1>5 DEF Off
  <1> QED BY <1>1, <1>2, <1>4, <1>5, <1>7, <1>8, <1>9

\* A step taken that the path writes.
LEMMA StepTaken ==
  ASSUME NoStepLeftOut, TypeOK, js \in Nodes,
         NEW steps, NEW text, Explained(steps, text), Parted(path, steps, text),
         NEW s \in AnyStep, NEW form \in StepForms(s),
         Off(steps, text) + Len(form) <= Len(path),
         \A j \in 1..Len(form) : path[Off(steps, text) + j] = form[j],
         prev' = Onward(prev, s), js' = js, path' = path
  PROVE  \E more \in Seq(AnyStep) : \E c \in Forms(more) :
           /\ Explained(more, c)' /\ more # <<>>
           /\ Len(c) = Off(steps, text) + Len(form) /\ Len(c) \in Nat
           /\ Len(form) > 0 => c[Len(c)] = form[Len(form)]
  <1> DEFINE more == Append(steps, s)
             k == Len(steps) + 1
             n == Gap(k)
             c == Joined(text, k, form)
             o == Off(steps, text)
             l == Len(text)
             f == Len(form)
  <1>1. /\ steps \in Seq(AnyStep) /\ Len(steps) \in Nat /\ text \in Seq(Signs) /\ l \in Nat
        /\ DOMAIN text = 1..l /\ l <= Len(path) /\ Len(path) \in Nat
        /\ steps = <<>> => l = 0
    BY ExplainedFacts
  <1>2. text \in Forms(steps) /\ prev = Here(js, steps) /\ Begins(text)
    BY DEF Explained
  <1>3. more \in Seq(AnyStep) /\ more # <<>>
    BY <1>1, StepAdded
  <1>4. Here(js, more) = Onward(prev, s)
    <2>1. Follow(js, more) = Onward(Here(js, steps), s)
      BY <1>1, FollowMore
    <2> QED BY <1>2, <1>3, <2>1 DEF Here
  <1>5. c \in Forms(more)
    BY <1>1, <1>2, FormsMore
  <1>6. form \in Seq(Signs) /\ f \in Nat
    <2>1. form \in Seq(Signs)
      BY AnyStepFacts
    <2> QED BY <2>1, LenProperties
  <1>7. n \in 0..1 /\ k \in Nat /\ (n = 1 \/ n = 0) /\ (n = 0 <=> steps = <<>>) /\ o = l + n
    <2>1. steps = <<>> <=> Len(steps) = 0
      BY <1>1, EmptySeq
    <2>2. Len(steps) = 0 <=> k = 1
      BY <1>1
    <2>3. k \in Nat
      BY <1>1
    <2>4. n \in 0..1 /\ (n = 1 \/ n = 0) /\ (n = 0 <=> k = 1)
      BY DEF Gap
    <2>5. o = IF steps = <<>> THEN 0 ELSE l + 1
      BY DEF Off
    <2> HIDE DEF n, k, l, o
    <2>6. o = l + n
      BY <1>1, <2>1, <2>2, <2>4, <2>5
    <2> QED BY <2>1, <2>2, <2>3, <2>4, <2>6
  <1>8. /\ c \in Seq(Signs) /\ Len(c) = l + n + f
        /\ \A j \in 1..l : c[j] = text[j]
        /\ n = 1 => c[l + 1] = "."
        /\ \A j \in 1..f : c[l + n + j] = form[j]
    <2> HIDE DEF k
    <2> QED BY <1>1, <1>6, <1>7, JoinedFacts
  <1>9. /\ o + f <= Len(path) /\ \A j \in 1..f : path[o + j] = form[j]
    OBVIOUS
  <1>10. n = 1 => l + 1 <= Len(path) /\ (path[l + 1] = "." \/ (l > 0 /\ text[l] = "]"))
    BY <1>7 DEF Parted
  <1>11. DOMAIN c = 1..Len(c)
    BY <1>8, LenProperties
  <1>b. \A j \in 1..l : path[j] = text[j] \/ (j > 1 /\ text[j - 1] = "]")
    BY <1>1, <1>2 DEF Begins
  <1> HIDE DEF more, k, n, c, o, l, f
  <1>12. Len(c) = o + f /\ Len(c) \in Nat /\ Len(c) <= Len(path) /\ l \in Nat /\ f \in Nat /\ n \in Nat
    BY <1>1, <1>6, <1>7, <1>8, <1>9
  <1>13. ASSUME NEW j \in 1..Len(c) PROVE path[j] = c[j] \/ (j > 1 /\ c[j - 1] = "]")
    <2>1. CASE j <= l
      <3>1. j \in 1..l /\ (j > 1 => j - 1 \in 1..l)
        BY <1>12, <2>1
      <3> QED BY <1>8, <1>b, <3>1
    <2>2. CASE n = 1 /\ j = l + 1
      <3>1. (l + 1) - 1 = l /\ (l > 0 => l \in 1..l /\ l + 1 > 1)
        BY <1>12
      <3> QED BY <1>8, <1>10, <2>2, <3>1
    <2>3. CASE j > l + n
      <3>1. PICK m \in 1..f : j = l + n + m
        <4>1. j - (l + n) \in 1..f /\ l + n + (j - (l + n)) = j
          BY <1>12, <1>7, <2>3
        <4> QED BY <4>1
      <3> QED BY <1>7, <1>8, <1>9, <3>1
    <2> QED BY <1>7, <1>12, <2>1, <2>2, <2>3
  <1>14. Begins(c)
    BY <1>11, <1>12, <1>13 DEF Begins
  <1>15. Begins(c)'
    BY <1>14 DEF Begins
  <1>16. Explained(more, c)'
    <2>1. prev' = Here(js', more)
      BY <1>4
    <2> QED BY <1>3, <1>5, <1>15, <2>1 DEF Explained
  <1>17. f > 0 => c[Len(c)] = form[f]
    <2>1. f > 0 => f \in 1..f /\ Len(c) = l + n + f
      BY <1>6, <1>8
    <2> QED BY <1>8, <2>1
  <1> QED BY <1>3, <1>5, <1>12, <1>16, <1>17 DEF f, o

\* What a round does.
LEMMA Turn ==
  ASSUME IInv, result = "none", Advance, prev' \in Nodes
  PROVE  /\ i' = i + 1 /\ js' = js /\ path' = path /\ js \in Nodes /\ TypeOK
         /\ i \in Nat /\ Len(path) \in Nat
         /\ ch # "nul" => i \in 1..Len(path) /\ ch = path[i] /\ ch \in Chars /\ result' = "none"
         /\ ch = "nul" => /\ i = Len(path) + 1 /\ result' # "none"
                          /\ result' \in Nodes => prev' # js /\ result' = prev'
  <1>1. TypeOK /\ Kept
    BY DEF IInv
  <1>2. ch \in Chars \cup {"nul"} /\ (ch = "nul" <=> i = Len(path) + 1)
    BY <1>1, ChType
  <1>3. i \in 1..(Len(path) + 2) /\ Len(path) \in Nat /\ i <= Len(path) + 1
    BY <1>1, PathType DEF Kept
  <1>4. /\ i' = i + 1 /\ js' = js /\ path' = path
        /\ result' = IF ch # "nul" THEN "none" ELSE IF prev' # js THEN prev' ELSE NULL
    BY DEF Advance
  <1>5. js \in Nodes /\ "none" \notin Nodes /\ "none" # NULL /\ NULL \notin Nodes
    BY <1>1, NodesAssumption DEF TypeOK, Kept
  <1>6. ch # "nul" => i \in 1..Len(path)
    BY <1>2, <1>3
  <1>7. ch # "nul" => ch = path[i]
    <2>1. i \in 1..Len(path) => i <= Len(path)
      OBVIOUS
    <2> QED BY <1>6, <2>1 DEF ch
  <1>8. i \in Nat
    BY <1>3
  <1> QED BY <1>1, <1>2, <1>3, <1>4, <1>5, <1>6, <1>7, <1>8

\* While no step is taken, those that are taken stay.
LEMMA ExplainedStays ==
  ASSUME NEW steps, NEW text, Explained(steps, text), js' = js, path' = path, prev' = prev
  PROVE  Explained(steps, text)'
  BY DEF Explained, Begins

\* The lookup goes on.
LEMMA GoesOn ==
  ASSUME NEW steps, NEW text, Explained(steps, text)', result' = "none",
         \/ InKey(path', steps, text, state', i', buf')
         \/ InIndex(path', steps, text, state', i', buf')
         \/ PastBracket(steps, text, state', i', buf')
  PROVE  ExplainInv'
  <1>1. Reads(steps, text)'
    BY DEF Reads
  <1>2. steps \in Seq(AnyStep) /\ text \in Forms(steps)
    BY DEF Explained
  <1> QED BY <1>1, <1>2 DEF ExplainInv

\* The lookup returns at the end of a path that it can explain.
LEMMA Returns ==
  ASSUME NoStepLeftOut, IInv, result = "none", Advance, ch = "nul", prev' \in Nodes,
         NEW steps, NEW text, Explained(steps, text)', EndsAfter(text)
  PROVE  ExplainInv'
  <1>1. /\ js' = js /\ path' = path /\ result' # "none"
        /\ result' \in Nodes => prev' # js /\ result' = prev'
    BY Turn
  <1>2. steps \in Seq(AnyStep) /\ text \in Forms(steps) /\ Begins(text)' /\ prev' = Here(js', steps)
    BY DEF Explained
  <1>3. EndsAfter(text)'
    BY <1>1 DEF EndsAfter
  <1>4. ASSUME result' \in Nodes
        PROVE  steps # <<>> /\ steps \in StepSeqs /\ result' = Follow(js', steps)
    <2>1. steps # <<>>
      BY <1>1, <1>2, <1>4 DEF Here
    <2>2. steps \in StepSeqs
      BY <1>2, <2>1 DEF NoStepLeftOut
    <2> QED BY <1>1, <1>2, <1>4, <2>1, <2>2 DEF Here
  <1>5. OnlySteps'
    BY <1>2, <1>3, <1>4 DEF OnlySteps
  <1> QED BY <1>1, <1>5 DEF ExplainInv

\* At the end of the path nothing is left.
LEMMA NothingLeft ==
  ASSUME TypeOK, NEW text, Len(text) = Len(path)
  PROVE  EndsAfter(text)
  <1>1. path \in Seq(Chars) /\ Len(path) \in Nat
    BY PathType
  <1>2. SubSeq(path, Len(path) + 1, Len(path)) = <<>>
    <2>1. Len(path) + 1 \in Int /\ Len(path) \in Int /\ Len(path) < Len(path) + 1
      BY <1>1
    <2> QED BY <2>1, SubSeqEmpty
  <1> QED BY <1>2 DEF EndsAfter

\* A character of a key.
LEMMA KeyRead ==
  ASSUME IInv, NEW steps, NEW text, Explained(steps, text),
         InKey(path, steps, text, state, i, buf), ReadKey
  PROVE  ExplainInv'
  <1> DEFINE o == Off(steps, text)
             n == Len(buf)
  <1>1. /\ result = "none" /\ state = "reading key" /\ ch \notin {"[", ".", "nul"}
        /\ buf' = Append(buf, ch) /\ prev' = prev /\ state' = state /\ Advance
    BY DEF ReadKey, Reading
  <1>2. prev' \in Nodes
    BY <1>1 DEF IInv, TypeOK, Kept
  <1>3. /\ i' = i + 1 /\ js' = js /\ path' = path /\ result' = "none" /\ TypeOK
        /\ i \in 1..Len(path) /\ ch = path[i] /\ ch \in Chars
    BY <1>1, <1>2, Turn
  <1>4. Explained(steps, text)' /\ o \in Nat
    BY <1>1, <1>3, ExplainedStays, ExplainedFacts
  <1>5. /\ n \in Nat /\ Len(buf') = n + 1 /\ buf'[n + 1] = ch
        /\ \A j \in 1..n : buf'[j] = buf[j]
    <2>1. IsList(buf)
      BY <1>3, PathType DEF IsList
    <2>2. /\ Len(buf) \in Nat /\ Len(Append(buf, ch)) = Len(buf) + 1
          /\ Append(buf, ch)[Len(buf) + 1] = ch
          /\ \A j \in 1..Len(buf) : Append(buf, ch)[j] = buf[j]
      BY <2>1, ListAppend
    <2> QED BY <1>1, <2>2
  <1>6. /\ i = o + n + 1 /\ Copied(path, o, buf, n) /\ Parted(path, steps, text)
    BY DEF InKey
  <1> HIDE DEF o, n
  <1>7. Copied(path, o, buf', n + 1)
    <2> SUFFICES ASSUME NEW j \in 1..(n + 1)
                 PROVE  o + j \in 1..Len(path) /\ buf'[j] = path[o + j] /\ buf'[j] \notin {".", "["}
      BY DEF Copied
    <2>1. CASE j = n + 1
      <3>1. o + (n + 1) = i
        BY <1>4, <1>5, <1>6
      <3> QED BY <1>1, <1>3, <1>5, <2>1, <3>1
    <2>2. CASE j # n + 1
      <3>1. j \in 1..n
        BY <1>5, <2>2
      <3> QED BY <1>5, <1>6, <3>1 DEF Copied
    <2> QED BY <2>1, <2>2
  <1>8. i' = o + (n + 1) + 1
    BY <1>3, <1>4, <1>5, <1>6
  <1>9. InKey(path', steps, text, state', i', buf')
    BY <1>1, <1>3, <1>5, <1>6, <1>7, <1>8 DEF InKey, o
  <1> QED BY <1>3, <1>4, <1>9, GoesOn

\* The '[' of an index.
LEMMA IndexStarted ==
  ASSUME IInv, NEW steps, NEW text, Explained(steps, text),
         InKey(path, steps, text, state, i, buf), StartIndex
  PROVE  ExplainInv'
  <1> DEFINE o == Off(steps, text)
             n == Len(buf)
  <1>1. /\ result = "none" /\ ch = "[" /\ buf' = buf /\ prev' = prev
        /\ state' = "reading array" /\ Advance
    BY DEF StartIndex, Reading
  <1>2. prev' \in Nodes
    BY <1>1 DEF IInv, TypeOK, Kept
  <1>3. /\ i' = i + 1 /\ js' = js /\ path' = path /\ result' = "none" /\ TypeOK
        /\ i \in 1..Len(path) /\ ch = path[i]
    BY <1>1, <1>2, Turn
  <1>4. Explained(steps, text)' /\ o \in Nat /\ n \in Nat
    BY <1>1, <1>3, ExplainedStays, ExplainedFacts, PathType
  <1>6. /\ i = o + n + 1 /\ Copied(path, o, buf, n) /\ Parted(path, steps, text)
    BY DEF InKey
  <1> HIDE DEF o
  <1>7. Bracketed(path, o, buf, n)
    <2>1. \A j \in n + 1..n : FALSE
      BY <1>4
    <2>2. o + n + 1 \in 1..Len(path) /\ path[o + n + 1] = "["
      BY <1>1, <1>3, <1>6
    <2> QED BY <1>6, <2>1, <2>2 DEF Bracketed
  <1>8. i' = o + n + 2 /\ n \in 0..n
    BY <1>3, <1>4, <1>6
  <1>9. InIndex(path', steps, text, state', i', buf')
    BY <1>1, <1>3, <1>6, <1>7, <1>8 DEF InIndex, o
  <1> QED BY <1>3, <1>4, <1>9, GoesOn

\* A member found: the key before it is a step.
LEMMA MemberFound ==
  ASSUME NoStepLeftOut, IInv, NEW steps, NEW text, Explained(steps, text),
         InKey(path, steps, text, state, i, buf), FindMember
  PROVE  ExplainInv'
  <1> DEFINE o == Off(steps, text)
             n == Len(buf)
             s == KeyStep(buf)
  <1>1. /\ result = "none" /\ ch \in {".", "nul"} /\ state = "reading key" /\ state' = state
        /\ Member(prev, buf) # NULL /\ prev' = Member(prev, buf) /\ buf' = <<>> /\ Advance
    BY DEF FindMember, Reading
  <1>2. prev' \in Nodes
    BY <1>1, MemberType
  <1>3. /\ i' = i + 1 /\ js' = js /\ path' = path /\ js \in Nodes /\ TypeOK
        /\ i \in Nat /\ Len(path) \in Nat
        /\ ch # "nul" => i \in 1..Len(path) /\ ch = path[i] /\ result' = "none"
        /\ ch = "nul" => i = Len(path) + 1
    BY <1>1, <1>2, Turn
  <1>4. o \in Nat /\ n \in Nat /\ buf \in Seq(Chars \cup {"nul"}) /\ path \in Seq(Chars)
    BY <1>3, ExplainedFacts, PathType
  <1>6. /\ i = o + n + 1 /\ Copied(path, o, buf, n) /\ Parted(path, steps, text)
    BY DEF InKey
  <1>7. buf \in Seq(Chars \ {".", "["})
    <2>1. DOMAIN buf = 1..n
      BY <1>4, LenProperties
    <2>2. \A j \in DOMAIN buf : buf[j] \in Chars \ {".", "["}
      <3>1. \A j \in 1..Len(path) : path[j] \in Chars
        BY <1>4, ElementOfSeq
      <3> HIDE DEF o
      <3> QED BY <1>6, <2>1, <3>1 DEF Copied
    <2>3. IsList(buf)
      BY <1>4 DEF IsList
    <2> QED BY <2>2, <2>3, ListOf
  <1>8. s \in AnyStep /\ buf \in StepForms(s)
    <2>1. s \in AnyStep
      BY <1>7 DEF AnyStep
    <2>2. s.kind = "key" /\ s.text = buf
      BY DEF KeyStep
    <2> QED BY <2>1, <2>2, AnyStepFacts
  <1>9. prev' = Onward(prev, s)
    BY <1>1 DEF Onward, KeyStep
  <1>10. o + n <= Len(path)
    <2>1. i <= Len(path) + 1
      BY <1>3
    <2> HIDE DEF o, n
    <2> QED BY <1>3, <1>4, <1>6, <2>1
  <1>11. \A j \in 1..n : path[o + j] = buf[j]
    BY <1>6 DEF Copied
  <1>p. PICK more \in Seq(AnyStep) : \E c \in Forms(more) :
           /\ Explained(more, c)' /\ more # <<>> /\ Len(c) = o + n /\ Len(c) \in Nat
    <2> HIDE DEF s
    <2> QED BY <1>3, <1>6, <1>8, <1>9, <1>10, <1>11, StepTaken
  <1>12. PICK c \in Forms(more) :
           /\ Explained(more, c)' /\ more # <<>> /\ Len(c) = o + n /\ Len(c) \in Nat
    BY <1>p
  <1> HIDE DEF o, n, s
  <1>13. i = Len(c) + 1
    BY <1>6, <1>12
  <1>14. CASE ch = "nul"
    <2>1. Len(c) = Len(path)
      BY <1>3, <1>12, <1>13, <1>14
    <2>2. EndsAfter(c)
      BY <1>3, <2>1, NothingLeft
    <2> QED BY <1>1, <1>2, <1>12, <1>14, <2>2, Returns
  <1>15. CASE ch = "."
    <2>1. /\ i \in 1..Len(path) /\ path[i] = "." /\ result' = "none"
      <3>1. ch # "nul"
        BY <1>15
      <3> QED BY <1>3, <1>15, <3>1
    <2>2. Parted(path, more, c)
      <3>1. Len(c) + 1 <= Len(path) /\ path[Len(c) + 1] = "."
        BY <1>3, <1>13, <2>1
      <3> QED BY <3>1 DEF Parted
    <2>3. Off(more, c) = Len(c) + 1
      BY <1>12 DEF Off
    <2>4. Len(buf') = 0
      BY <1>1
    <2>5. i' = Off(more, c) + Len(buf') + 1
      BY <1>3, <1>12, <1>13, <2>3, <2>4
    <2>6. Copied(path, Off(more, c), buf', Len(buf'))
      <3>1. \A j \in 1..0 : FALSE
        OBVIOUS
      <3> QED BY <2>4, <3>1 DEF Copied
    <2>7. InKey(path', more, c, state', i', buf')
      BY <1>1, <1>3, <2>2, <2>5, <2>6 DEF InKey
    <2> QED BY <1>12, <2>1, <2>7, GoesOn
  <1> QED BY <1>1, <1>14, <1>15

\* A path that ends in an index that is never closed.
LEMMA Unclosed ==
  ASSUME TypeOK, NEW steps, NEW text, Explained(steps, text), Off(steps, text) = Len(text) + 1,
         NEW m \in 0..Len(buf), Bracketed(path, Len(text) + 1, buf, m),
         Len(path) + 1 = Len(text) + 1 + Len(buf) + 2
  PROVE  EndsAfter(text)
  <1> DEFINE l == Len(text)
             N == Len(path)
             n == Len(buf)
             r == SubSeq(path, l + 1, N)
  <1>1. /\ path \in Seq(Chars) /\ N \in Nat /\ n \in Nat /\ l \in Nat /\ l <= N /\ m \in Nat
        /\ m <= n /\ N = l + n + 2 /\ l \in 0..N
    <2>1. path \in Seq(Chars) /\ N \in Nat /\ n \in Nat /\ l \in Nat /\ l <= N
      BY ExplainedFacts, PathType
    <2>2. m \in Nat /\ m <= n
      BY <2>1
    <2>3. N + 1 = l + 1 + n + 2
      OBVIOUS
    <2> HIDE DEF l, N, n
    <2>4. N = l + n + 2 /\ l \in 0..N
      BY <2>1, <2>3
    <2> QED BY <2>1, <2>2, <2>4
  <1>2. Len(r) = N - l /\ \A j \in 1..(N - l) : r[j] = path[l + j]
    BY <1>1, RestElements
  <1>3. /\ \A j \in 1..m : buf[j] = path[l + 1 + j] /\ buf[j] \notin {".", "["}
        /\ path[l + 1 + m + 1] = "["
        /\ \A j \in m + 1..n : buf[j] = path[l + 1 + j + 1] /\ buf[j] # "]"
    BY DEF Bracketed, Copied
  <1> HIDE DEF r, l, N, n
  <1>4. m + 2 \in 2..Len(r) /\ r[m + 2] = "["
    <2>1. m + 2 \in 2..(N - l) /\ m + 2 \in 1..(N - l) /\ l + (m + 2) = l + 1 + m + 1
      BY <1>1
    <2> QED BY <1>2, <1>3, <2>1
  <1>5. ASSUME NEW j \in (m + 2) + 1..Len(r) PROVE r[j] # "]"
    <2>1. j \in 1..(N - l) /\ j - 2 \in m + 1..n /\ l + j = l + 1 + (j - 2) + 1
      BY <1>1, <1>2
    <2> QED BY <1>2, <1>3, <2>1
  <1>6. ASSUME NEW j \in 2..(m + 2) - 1 PROVE r[j] \notin {".", "["}
    <2>1. j \in 1..(N - l) /\ j - 1 \in 1..m /\ l + j = l + 1 + (j - 1)
      BY <1>1
    <2> QED BY <1>2, <1>3, <2>1
  <1>7. \E k \in 2..Len(r) : /\ r[k] = "["
                             /\ \A j \in k + 1..Len(r) : r[j] # "]"
                             /\ \A j \in 2..k - 1 : r[j] \notin {".", "["}
    BY <1>4, <1>5, <1>6
  <1> QED BY <1>7 DEF EndsAfter, r, l, N

\* A character of an index, or the end of a path inside one.
LEMMA IndexRead ==
  ASSUME NoStepLeftOut, IInv, NEW steps, NEW text, Explained(steps, text),
         InIndex(path, steps, text, state, i, buf), ReadIndex
  PROVE  ExplainInv'
  <1> DEFINE o == Off(steps, text)
             n == Len(buf)
  <1>1. /\ result = "none" /\ ch # "]" /\ state = "reading array"
        /\ buf' = Append(buf, ch) /\ prev' = prev /\ state' = state /\ Advance
    BY DEF ReadIndex, Reading
  <1>2. prev' \in Nodes /\ prev' = prev
    BY <1>1 DEF IInv, TypeOK, Kept
  <1>3. /\ i' = i + 1 /\ js' = js /\ path' = path /\ TypeOK
        /\ i \in Nat /\ Len(path) \in Nat
        /\ ch # "nul" => i \in 1..Len(path) /\ ch = path[i] /\ result' = "none"
        /\ ch = "nul" => /\ i = Len(path) + 1
                         /\ result' # "none"
                         /\ result' \in Nodes => prev' # js /\ result' = prev'
    BY <1>1, <1>2, Turn
  <1>4. Explained(steps, text)' /\ o \in Nat
    BY <1>1, <1>3, ExplainedStays, ExplainedFacts
  <1>5. /\ n \in Nat /\ Len(buf') = n + 1 /\ buf'[n + 1] = ch
        /\ \A j \in 1..n : buf'[j] = buf[j]
    <2>1. IsList(buf)
      BY <1>3, PathType DEF IsList
    <2>2. /\ Len(buf) \in Nat /\ Len(Append(buf, ch)) = Len(buf) + 1
          /\ Append(buf, ch)[Len(buf) + 1] = ch
          /\ \A j \in 1..Len(buf) : Append(buf, ch)[j] = buf[j]
      BY <2>1, ListAppend
    <2> QED BY <1>1, <2>2
  <1>6. /\ i = o + n + 2 /\ Parted(path, steps, text)
        /\ \E m \in 0..n : Bracketed(path, o, buf, m)
    BY DEF InIndex
  <1>7. PICK m \in 0..n : Bracketed(path, o, buf, m)
    BY <1>6
  <1>8. CASE ch # "nul"
    <2> HIDE DEF o, n
    <2>1. m \in 0..(n + 1)
      BY <1>5
    <2>2. Bracketed(path, o, buf', m)
      <3>1. /\ \A j \in 1..m : o + j \in 1..Len(path) /\ buf[j] = path[o + j] /\ buf[j] \notin {".", "["}
            /\ o + m + 1 \in 1..Len(path) /\ path[o + m + 1] = "["
            /\ \A j \in m + 1..n : o + j + 1 \in 1..Len(path) /\ buf[j] = path[o + j + 1] /\ buf[j] # "]"
        BY <1>7 DEF Bracketed, Copied, n
      <3>2. \A j \in 1..m : j \in 1..n
        BY <1>5
      <3>3. \A j \in m + 1..n : j \in 1..n
        BY <1>5
      <3>4. ASSUME NEW j \in m + 1..(n + 1)
            PROVE  o + j + 1 \in 1..Len(path) /\ buf'[j] = path[o + j + 1] /\ buf'[j] # "]"
        <4>1. CASE j = n + 1
          <5>1. o + (n + 1) + 1 = i
            BY <1>4, <1>5, <1>6
          <5> QED BY <1>1, <1>3, <1>5, <1>8, <4>1, <5>1
        <4>2. CASE j # n + 1
          <5>1. j \in m + 1..n
            BY <1>5, <4>2
          <5> QED BY <1>5, <3>1, <3>3, <5>1
        <4> QED BY <4>1, <4>2
      <3> QED BY <1>5, <3>1, <3>2, <3>4 DEF Bracketed, Copied
    <2>3. i' = o + (n + 1) + 2
      BY <1>3, <1>4, <1>5, <1>6
    <2>4. InIndex(path', steps, text, state', i', buf')
      BY <1>1, <1>3, <1>5, <1>6, <2>1, <2>2, <2>3 DEF InIndex, o
    <2> QED BY <1>3, <1>4, <1>8, <2>4, GoesOn
  <1>9. CASE ch = "nul"
    <2>1. CASE steps # <<>>
      <3>1. o = Len(text) + 1
        BY <2>1 DEF Off
      <3>2. Len(path) + 1 = Len(text) + 1 + Len(buf) + 2
        BY <1>3, <1>6, <1>9, <3>1
      <3>3. EndsAfter(text)
        BY <1>3, <1>7, <3>1, <3>2, Unclosed
      <3> QED BY <1>1, <1>2, <1>4, <1>9, <3>3, Returns
    \* Nothing is found when no step is taken.
    <2>2. CASE steps = <<>>
      <3>1. prev = js
        BY <2>2 DEF Explained, Here
      <3>2. result' \notin Nodes
        BY <1>2, <1>3, <1>9, <3>1
      <3> QED BY <1>3, <1>9, <3>2 DEF ExplainInv, OnlySteps
    <2> QED BY <2>1, <2>2
  <1> QED BY <1>8, <1>9

\* An item found: the digits before it are a step.
LEMMA ItemFound ==
  ASSUME NoStepLeftOut, IInv, NEW steps, NEW text, Explained(steps, text),
         InIndex(path, steps, text, state, i, buf), FindItem
  PROVE  ExplainInv'
  <1> DEFINE o == Off(steps, text)
             n == Len(buf)
             s == IndexStep(buf)
  <1>1. /\ result = "none" /\ ch = "]" /\ state' = "reading array end"
        /\ Item(prev, Atoi(buf)) # NULL /\ prev' = Item(prev, Atoi(buf)) /\ buf' = <<>> /\ Advance
    BY DEF FindItem, Reading
  <1>2. prev' \in Nodes
    BY <1>1, ItemType
  <1>3. /\ i' = i + 1 /\ js' = js /\ path' = path /\ js \in Nodes /\ TypeOK
        /\ i \in Nat /\ Len(path) \in Nat
        /\ i \in 1..Len(path) /\ ch = path[i] /\ result' = "none"
    <2>1. ch # "nul"
      BY <1>1
    <2> QED BY <1>1, <1>2, <2>1, Turn
  <1>4. o \in Nat /\ n \in Nat /\ buf \in Seq(Chars \cup {"nul"}) /\ path \in Seq(Chars)
        /\ IsList(buf) /\ DOMAIN buf = 1..n
    <2>1. o \in Nat /\ n \in Nat /\ buf \in Seq(Chars \cup {"nul"}) /\ path \in Seq(Chars)
      BY <1>3, ExplainedFacts, PathType
    <2> QED BY <2>1, LenProperties DEF IsList
  <1>6. /\ i = o + n + 2 /\ Parted(path, steps, text)
        /\ \E m \in 0..n : Bracketed(path, o, buf, m)
    BY DEF InIndex
  <1>7. PICK m \in 0..n : Bracketed(path, o, buf, m)
    BY <1>6
  <1>8. /\ \A j \in 1..m : o + j \in 1..Len(path) /\ buf[j] = path[o + j]
        /\ o + m + 1 \in 1..Len(path) /\ path[o + m + 1] = "["
        /\ \A j \in m + 1..n : o + j + 1 \in 1..Len(path) /\ buf[j] = path[o + j + 1]
    BY <1>7 DEF Bracketed, Copied
  <1>9. (\A j \in DOMAIN buf : buf[j] \in DigitSet) /\ prev' = Onward(prev, s)
    BY <1>1, <1>4, ItemOnward
  <1>10. buf \in Seq(Chars \cap DigitSet) /\ buf \in Seq(Signs)
    <2>1. \A j \in 1..Len(path) : path[j] \in Chars
      BY <1>4, ElementOfSeq
    <2> HIDE DEF o, n
    <2>2. \A j \in 1..n : buf[j] \in Chars
      <3>1. \A j \in 1..n : j \in 1..m \/ j \in m + 1..n
        BY <1>4
      <3> QED BY <1>8, <2>1, <3>1
    <2>3. \A j \in DOMAIN buf : buf[j] \in Chars \cap DigitSet
      BY <1>4, <1>9, <2>2
    <2>4. buf \in Seq(Chars \cap DigitSet)
      BY <1>4, <2>3, ListOf
    <2>5. \A j \in DOMAIN buf : buf[j] \in Signs
      BY <2>3 DEF Signs
    <2> QED BY <1>4, <2>4, <2>5, ListOf
  <1> DEFINE f == Bracketing(buf, m)
  <1>11. s \in AnyStep /\ f \in StepForms(s)
    <2>1. s \in AnyStep
      BY <1>10 DEF AnyStep
    <2>2. s.kind # "key" /\ s.text = buf
      BY DEF IndexStep
    <2> HIDE DEF s
    <2> QED BY <2>1, <2>2, AnyStepFacts
  <1>12. /\ Len(f) = n + 2
         /\ \A j \in 1..m : f[j] = buf[j]
         /\ f[m + 1] = "["
         /\ \A j \in m + 1..n : f[j + 1] = buf[j]
         /\ f[n + 2] = "]"
    BY <1>10, BracketingFacts
  <1>13. o + Len(f) <= Len(path) /\ Len(f) \in Nat /\ Len(f) > 0
    <2> HIDE DEF o, n, f
    <2> QED BY <1>3, <1>4, <1>6, <1>12
  <1>14. \A j \in 1..Len(f) : path[o + j] = f[j]
    <2> HIDE DEF o, n, f
    <2> SUFFICES ASSUME NEW j \in 1..Len(f) PROVE path[o + j] = f[j]
      OBVIOUS
    <2>1. CASE j \in 1..m
      BY <1>8, <1>12, <2>1
    <2>2. CASE j = m + 1
      <3>1. o + j = o + m + 1
        BY <1>4, <2>2
      <3> QED BY <1>8, <1>12, <2>2, <3>1
    <2>3. CASE j \in m + 2..n + 1
      <3>1. j - 1 \in m + 1..n /\ o + (j - 1) + 1 = o + j /\ (j - 1) + 1 = j
        BY <1>4, <2>3
      <3> QED BY <1>8, <1>12, <3>1
    <2>4. CASE j = n + 2
      <3>1. o + j = i
        BY <1>4, <1>6, <2>4
      <3> QED BY <1>1, <1>3, <1>12, <2>4, <3>1
    <2>5. j \in 1..m \/ j = m + 1 \/ j \in m + 2..n + 1 \/ j = n + 2
      BY <1>4, <1>12
    <2> QED BY <2>1, <2>2, <2>3, <2>4, <2>5
  <1>p. PICK more \in Seq(AnyStep) : \E c \in Forms(more) :
           /\ Explained(more, c)' /\ more # <<>> /\ Len(c) = o + Len(f) /\ Len(c) \in Nat
           /\ c[Len(c)] = f[Len(f)]
    <2> HIDE DEF s, f
    <2> QED BY <1>3, <1>6, <1>9, <1>11, <1>13, <1>14, StepTaken
  <1>15. PICK c \in Forms(more) :
           /\ Explained(more, c)' /\ more # <<>> /\ Len(c) = o + Len(f) /\ Len(c) \in Nat
           /\ c[Len(c)] = f[Len(f)]
    BY <1>p
  <1> HIDE DEF o, n, s, f
  <1>16. i' = Len(c) + 1 /\ Len(c) > 0
    BY <1>3, <1>4, <1>6, <1>12, <1>15
  <1>17. PastBracket(more, c, state', i', buf')
    BY <1>1, <1>12, <1>15, <1>16 DEF PastBracket
  <1> QED BY <1>3, <1>15, <1>17, GoesOn

\* The character after a ']', or the end of the path there.
LEMMA IndexPassed ==
  ASSUME NoStepLeftOut, IInv, NEW steps, NEW text, Explained(steps, text),
         PastBracket(steps, text, state, i, buf), AfterIndex
  PROVE  ExplainInv'
  <1>1. /\ result = "none" /\ buf' = buf /\ prev' = prev /\ state' = "reading key" /\ Advance
    BY DEF AfterIndex, Reading
  <1>2. prev' \in Nodes /\ prev' = prev
    BY <1>1 DEF IInv, TypeOK, Kept
  <1>3. /\ i' = i + 1 /\ js' = js /\ path' = path /\ TypeOK
        /\ i \in Nat /\ Len(path) \in Nat
        /\ ch # "nul" => i \in 1..Len(path) /\ result' = "none"
        /\ ch = "nul" => i = Len(path) + 1
    BY <1>1, <1>2, Turn
  <1>4. Explained(steps, text)' /\ Len(text) \in Nat
    BY <1>1, <1>3, ExplainedStays, ExplainedFacts
  <1>5. /\ buf = <<>> /\ steps # <<>> /\ i = Len(text) + 1
        /\ Len(text) > 0 /\ text[Len(text)] = "]"
    BY DEF PastBracket
  <1>6. CASE ch = "nul"
    <2>1. Len(text) = Len(path)
      BY <1>3, <1>4, <1>5, <1>6
    <2>2. EndsAfter(text)
      BY <1>3, <2>1, NothingLeft
    <2> QED BY <1>1, <1>2, <1>4, <1>6, <2>2, Returns
  <1>7. CASE ch # "nul"
    <2>1. Parted(path, steps, text)
      <3>1. Len(text) + 1 <= Len(path)
        BY <1>3, <1>5, <1>7
      <3> QED BY <1>5, <3>1 DEF Parted
    <2>2. Off(steps, text) = Len(text) + 1 /\ Len(buf') = 0
      BY <1>1, <1>5 DEF Off
    <2>3. i' = Off(steps, text) + Len(buf') + 1
      BY <1>3, <1>4, <1>5, <2>2
    <2>4. Copied(path, Off(steps, text), buf', Len(buf'))
      <3>1. \A j \in 1..0 : FALSE
        OBVIOUS
      <3> QED BY <2>2, <3>1 DEF Copied
    <2>5. InKey(path', steps, text, state', i', buf')
      BY <1>1, <1>3, <2>1, <2>3, <2>4 DEF InKey
    <2> QED BY <1>3, <1>4, <1>7, <2>5, GoesOn
  <1> QED BY <1>6, <1>7

\* The invariant of a lookup that can be explained: at the start,
LEMMA InitExplained == Init => ExplainInv
  <1> SUFFICES ASSUME Init PROVE ExplainInv
    OBVIOUS
  <1>1. /\ js \in Nodes \cup {NULL} /\ i = 1 /\ prev = js /\ buf = <<>> /\ state = "reading key"
        /\ result = IF js = NULL THEN NULL ELSE "none"
    BY DEF Init
  <1>2. CASE result = "none"
    <2>1. <<>> \in Seq(AnyStep) /\ <<>> \in Forms(<<>>)
      BY NoSteps
    <2>2. Begins(<<>>)
      <3>1. Len(<<>>) = 0 /\ DOMAIN <<>> = {}
        BY ListNone
      <3>2. Len(path) >= 0
        <4>1. path \in Seq(Chars)
          BY PathsAssumption DEF Init
        <4>2. Len(path) \in Nat
          BY <4>1, LenProperties
        <4> QED BY <4>2
      <3> QED BY <3>1, <3>2 DEF Begins
    <2>3. Explained(<<>>, <<>>)
      BY <1>1, <2>1, <2>2 DEF Explained, Here
    <2>4. Off(<<>>, <<>>) = 0 /\ Len(buf) = 0 /\ 0 + 0 + 1 = 1
      <3>1. Len(buf) = 0
        BY <1>1, ListNone
      <3>2. 0 + 0 + 1 = 1
        OBVIOUS
      <3> QED BY <3>1, <3>2 DEF Off
    <2>5. Copied(path, 0, buf, 0)
      <3>1. \A j \in 1..0 : FALSE
        OBVIOUS
      <3> QED BY <3>1 DEF Copied
    <2>6. InKey(path, <<>>, <<>>, state, i, buf)
      BY <1>1, <2>4, <2>5 DEF InKey, Parted
    <2>7. Reads(<<>>, <<>>)
      BY <2>3, <2>6 DEF Reads
    <2> QED BY <1>2, <2>1, <2>7 DEF ExplainInv
  <1>3. CASE result # "none"
    <2>1. result \notin Nodes
      BY <1>1, <1>3, NodesAssumption
    <2> QED BY <1>3, <2>1 DEF ExplainInv, OnlySteps
  <1> QED BY <1>2, <1>3

\* and in every step.
LEMMA StepExplained == NoStepLeftOut /\ IInv /\ ExplainInv /\ [Next]_vars => ExplainInv'
  <1> SUFFICES ASSUME NoStepLeftOut, IInv, ExplainInv, [Next]_vars PROVE ExplainInv'
    OBVIOUS
  <1>1. CASE result = "none" /\ Next
    <2>p. PICK steps \in Seq(AnyStep) : \E text \in Forms(steps) : Reads(steps, text)
      BY <1>1 DEF ExplainInv
    <2>1. PICK text \in Forms(steps) : Reads(steps, text)
      BY <2>p
    <2>2. /\ Explained(steps, text)
          /\ \/ InKey(path, steps, text, state, i, buf)
             \/ InIndex(path, steps, text, state, i, buf)
             \/ PastBracket(steps, text, state, i, buf)
      BY <2>1 DEF Reads
    <2>3. CASE NotFound
      <3>1. result' = NULL /\ result' # "none" /\ result' \notin Nodes
        BY <2>3, NodesAssumption DEF NotFound
      <3> QED BY <3>1 DEF ExplainInv, OnlySteps
    <2>4. CASE InKey(path, steps, text, state, i, buf)
      <3>1. state = "reading key"
        BY <2>4 DEF InKey
      <3>2. StartIndex \/ ReadKey \/ FindMember \/ NotFound
        BY <1>1, <3>1 DEF Next, FindItem, ReadIndex, AfterIndex, Reading
      <3> QED BY <2>2, <2>3, <2>4, <3>2, IndexStarted, KeyRead, MemberFound
    <2>5. CASE InIndex(path, steps, text, state, i, buf)
      <3>1. state = "reading array"
        BY <2>5 DEF InIndex
      <3>2. ReadIndex \/ FindItem \/ NotFound
        BY <1>1, <3>1 DEF Next, StartIndex, ReadKey, FindMember, AfterIndex, Reading
      <3> QED BY <2>2, <2>3, <2>5, <3>2, IndexRead, ItemFound
    <2>6. CASE PastBracket(steps, text, state, i, buf)
      <3>1. state = "reading array end"
        BY <2>6 DEF PastBracket
      <3>2. AfterIndex
        BY <1>1, <3>1 DEF Next, StartIndex, ReadKey, FindMember, FindItem, ReadIndex, NotFound, Reading
      <3> QED BY <2>2, <2>6, <3>2, IndexPassed
    <2> QED BY <2>2, <2>4, <2>5, <2>6
  <1>2. CASE result # "none" \/ UNCHANGED vars
    <2>1. UNCHANGED vars
      BY <1>2 DEF Next, StartIndex, FindMember, ReadKey, FindItem, ReadIndex, AfterIndex, NotFound,
                  Reading
    <2>2. UNCHANGED <<js, path, i, prev, buf, state, result>>
      BY <2>1 DEF vars
    <2>3. \A steps, text : Reads(steps, text) => Reads(steps, text)'
      BY <2>2 DEF Reads, Explained, Begins
    <2>4. \A text : Begins(text) /\ EndsAfter(text) => Begins(text)' /\ EndsAfter(text)'
      BY <2>2 DEF Begins, EndsAfter
    <2>5. OnlySteps => OnlySteps'
      BY <2>2, <2>4 DEF OnlySteps
    <2> QED BY <2>2, <2>3, <2>5 DEF ExplainInv
  <1> QED BY <1>1, <1>2

\* Whatever lz_json_path_get finds is where some steps lead that the path
\* writes: a path that is not well formed finds nothing else, but for the
\* character after a ']' and an index that is not closed.  The steps are
\* looked for in StepSeqs, of which none may be left out.
THEOREM OnlyStepsFound == NoStepLeftOut => (Spec => []OnlySteps)
  <1> SUFFICES ASSUME NoStepLeftOut PROVE Spec => []OnlySteps
    OBVIOUS
  <1>1. Init => IInv /\ ExplainInv
    BY InitKept, InitExplained
  <1>2. (IInv /\ ExplainInv) /\ [Next]_vars => (IInv /\ ExplainInv)'
    BY StepKept, StepExplained
  <1>3. IInv /\ ExplainInv => OnlySteps
    <2>1. "none" \notin Nodes
      BY NodesAssumption
    <2> QED BY <2>1 DEF ExplainInv, OnlySteps
  <1> QED BY <1>1, <1>2, <1>3, PTL DEF Spec
=============================================================================
