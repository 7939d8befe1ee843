--------------------------- MODULE LzJsonCompare ---------------------------
(***************************************************************************)
(* lz_json_compare (lz_json.c): two values are compared member by member,  *)
(* those of an object by key, and a callback may have keys passed over.    *)
(***************************************************************************)
EXTENDS JsonForest

CONSTANT Callbacks   \* what a filter callback returns for each key, a function

ASSUME CallbackAssumption == Callbacks \subseteq [Keys -> Int]

VARIABLES
  j1, j2, cb,  \* the arguments
  verdict      \* "none" until the call returns

compared == <<j1, j2, cb, verdict>>

-----------------------------------------------------------------------------

\* Faulty: the length of a container is not among the sizes.
SizeOfStrings(v) == IF v.type = "string" THEN Len(v.str) ELSE 0

\* lz_json_get_size.
SizeOf(v) ==
  CASE v.type = "string"     -> Len(v.str)
    [] v.type \in Containers -> Len(v.members)
    [] OTHER                 -> 0

\* lz_kvmap_find: the newest member of that key.
PlacesOf(v, key) == { i \in DOMAIN v.members : v.members[i].key = key }
Found(v, key) ==
  IF PlacesOf(v, key) = {} THEN NullPtr
  ELSE v.members[CHOOSE i \in PlacesOf(v, key) : \A j \in PlacesOf(v, key) : i <= j].val

\* What strcmp sees of a string: the characters before the first NUL.
CString(str) ==
  LET nuls == { i \in DOMAIN str : str[i] = "nul" } IN
  SubSeq(str, 1, IF nuls = {} THEN Len(str)
                 ELSE (CHOOSE i \in nuls : \A j \in nuls : i <= j) - 1)

\* The callback, when there is one, returned 1 for the key.
Passed(k, callback) == callback[k] = 1

\* Faulty: an object is compared as the list of its members.
MemberForInOrder(v, i, key) == IF i <= Len(v.members) THEN v.members[i].val ELSE NullPtr

\* The member to compare with the i-th: of an array the one at the same
\* index, of an object the one of the same key.
MemberFor(v, i, key) ==
  IF v.type = "object" THEN Found(v, key)
  ELSE IF i <= Len(v.members) THEN v.members[i].val ELSE NullPtr

\* _lz_j_array_compare and _lz_j_object_compare: only the members of a are
\* gone through.  Which values are equal is eq.
MembersEqual(a, b, callback, eq) ==
  \A i \in DOMAIN a.members :
    LET m == a.members[i]
        other == MemberFor(b, i, m.key)
    IN /\ m.val # NullPtr
       /\ \/ a.type = "object" /\ Passed(m.key, callback)
          \/ other # NullPtr /\ eq[m.val][other]

\* _lz_j_compare.  A NULL pointer equals nothing.
ValuesEqual(a, b, callback, eq) ==
  /\ a # NullPtr /\ b # NullPtr
  /\ a.type = b.type
  /\ SizeOf(a) = SizeOf(b)
  /\ CASE a.type = "number"     -> a.num = b.num
       [] a.type \in Containers -> MembersEqual(a, b, callback, eq)
       [] a.type = "string"     -> CString(a.str) = CString(b.str)
       [] a.type = "bool"       -> a.bool = b.bool
       [] a.type = "null"       -> TRUE

Equality(callback) ==
  LET eq[a \in Values] == [b \in Values |-> ValuesEqual(a, b, callback, eq)] IN eq
Equal(a, b, callback) == Equality(callback)[a][b]

\* What lz_json_compare returns.
Compared(a, b, callback) == IF Equal(a, b, callback) THEN "0" ELSE "-1"

CompareInit == j1 \in Values /\ j2 \in Values /\ cb \in Callbacks /\ verdict = "none"

Compare ==
  /\ verdict = "none"
  /\ verdict' = Compared(j1, j2, cb)
  /\ UNCHANGED <<j1, j2, cb>>

CompareSpec == CompareInit /\ [][Compare]_compared
-----------------------------------------------------------------------------
(* What it means for two values to be the same.                            *)

\* The keys of an object that are not passed over.
CountedKeys(v, callback) ==
  { v.members[i].key : i \in { i \in DOMAIN v.members : ~Passed(v.members[i].key, callback) } }

\* The value without the order of its objects and without the members that
\* are passed over: an object as a function from its keys to the values
\* found under them.  The sense of what is in the value is s.
Meaning(v, callback, s) ==
  CASE v.type = "object" -> [type |-> "object",
                             members |-> [k \in CountedKeys(v, callback) |-> s[Found(v, k)]]]
    [] v.type = "array"  -> [type |-> "array",
                             members |-> [i \in DOMAIN v.members |-> s[v.members[i].val]]]
    [] OTHER -> v
Senses(callback) == LET s[v \in Values] == Meaning(v, callback, s) IN s
Sense(v, callback) == Senses(callback)[v]

NoFilter == \A k \in DOMAIN cb : ~Passed(k, cb)
Same == Sense(j1, cb) = Sense(j2, cb)
-----------------------------------------------------------------------------

\* For values without NULL members, duplicate keys and NULs the comparison
\* is equality: whatever the order in which members were added, and without
\* looking at the members of j2 that j1 does not have.
PlainIsEquality ==
  /\ verdict # "none" /\ NoFilter
  /\ (\A v \in {j1, j2} : v # NullPtr /\ NoNullMember(v) /\ DistinctKeys(v) /\ NoNul(v))
  => (verdict = "0" <=> Same)

\* For any values, with duplicate keys and keys passed over: two that are
\* equal both ways round have the same members under the keys that count.
\* One way is not enough: a key of j2 may stand where j1 has a duplicate or
\* a key that is passed over.
TwoWaysIsSame ==
  verdict = "0" /\ Equal(j2, j1, cb) /\ NoNul(j1) /\ NoNul(j2) => Same

\* In every container in v, the newest member of a key does not hide one that
\* differs from it.
HidesNothing(v) ==
  \A u \in ContainersIn(v) : u.type = "object" =>
    \A m \in MembersOf(u) : Sense(m.val, cb) = Sense(Found(u, m.key), cb)

\* A value is equal to itself unless it is NULL, has a NULL member, or has an
\* older member that the newest of its key hides and that differs from it.
EqualsItself ==
  /\ verdict # "none" /\ j1 = j2 /\ NoFilter /\ NoNul(j1)
  /\ (j1.type \in Containers => \A m \in MembersOf(j1) : DistinctKeys(m.val))
  => (verdict = "0" <=> j1 # NullPtr /\ NoNullMember(j1) /\ HidesNothing(j1))
=============================================================================
