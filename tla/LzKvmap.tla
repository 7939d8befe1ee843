------------------------------ MODULE LzKvmap ------------------------------
(***************************************************************************)
(* lz_kvmap: the hash map behind JSON objects.  An entry is on two lists   *)
(* at once: the doubly linked chain of its hash bucket (next, prev, ents)  *)
(* and the singly linked list of all entries, newest first (ent_list).     *)
(* Lookups walk the chain, iteration and destruction walk the list.        *)
(*                                                                         *)
(* The map is used by one thread.  What interleaves is the user's code     *)
(* run by iterfn and freefn in the middle of for_each, clear and free; the *)
(* variable loop says in whose callback the program is.  The callback      *)
(* contract the model grants: in for_each, look up, add, and remove any    *)
(* entry but the current one; in clear, look up; in free, nothing.         *)
(***************************************************************************)
EXTENDS SequencesExt

CONSTANTS
  Ents,        \* addresses malloc can return for an entry
  Null,        \* the NULL pointer
  Keys,        \* NUL-terminated strings
  NoKey,       \* no lookup in progress
  NoAnswer,    \* no entry has been returned since the last call began
  PrefixOf,    \* <<k, l>>: strncmp(l, k, strlen(k)) = 0
  Hash,        \* hashfn of a string, read up to its NUL
  NBuckets,    \* size of ents[] (lz_kvmap_new rounds up to a power of two)
  WithKlen     \* TRUE: lz_kvmap_add_wklen may be given a klen shorter than
               \* the string it points into

ASSUME EntsAssumption == /\ Null \notin Ents /\ NoKey \notin Keys
                         /\ NoAnswer \notin Ents \cup {Null}
ASSUME PrefixAssumption == /\ PrefixOf \subseteq Keys \X Keys
                           /\ \A k \in Keys : <<k, k>> \in PrefixOf
ASSUME HashAssumption == Hash \in [Keys -> Nat]
ASSUME BucketsAssumption == NBuckets \in Nat \ {0}
ASSUME KlenAssumption == WithKlen \in BOOLEAN

VARIABLES
  live,        \* entries malloc'd and not yet freed
  key, hash, next, prev,       \* their fields
  ents,        \* ents[b]: head of bucket b's chain
  ent_list,    \* the list of all entries, head first
  n_entries,   \* what lz_kvmap_get_size returns
  loop,        \* "none", "each", "clear", "free", or "gone" after free
  cur,         \* the entry the running callback was given
  save,        \* clear and free: the entry they go on with
  owed,        \* history: entries the running for_each still has to visit
  want,        \* the running lookup: "find", "remove", or "none"
  find_key,    \* its key, or NoKey
  find_ent,    \* its cursor
  ret          \* the entry (or Null) an add or a find has just returned

fields == <<key, hash, next, prev>>
looping == <<loop, cur, save, owed>>
finding == <<want, find_key, find_ent>>
vars == <<live, key, hash, next, prev, ents, ent_list, n_entries,
          loop, cur, save, owed, want, find_key, find_ent, ret>>

-----------------------------------------------------------------------------

\* hash & (n_buckets - 1), n_buckets being a power of two.
Bucket(h) == h % NBuckets
Buckets == 0..(NBuckets - 1)

\* SLIST_NEXT(e, list_next) and the SLIST macros on ent_list.
Position(e) == CHOOSE i \in 1..Len(ent_list) : ent_list[i] = e

\* Faulty: SLIST_NEXT that skips an entry, or that goes round.
SkipNext(e) == IF Position(e) + 1 >= Len(ent_list) THEN Null
               ELSE ent_list[Position(e) + 2]
RoundNext(e) == IF Len(ent_list) = 1 THEN Null
                ELSE IF Position(e) = Len(ent_list) THEN Head(ent_list)
                ELSE ent_list[Position(e) + 1]

ListNext(e) == IF Position(e) = Len(ent_list) THEN Null
               ELSE ent_list[Position(e) + 1]
InsertHead(list, e) == <<e>> \o list
Unlink(list, e) == RemoveFirst(list, e)

\* lz_kvmap_new: an empty map.
Init ==
  /\ ents = [b \in Buckets |-> Null] /\ ent_list = <<>> /\ n_entries = 0
  /\ loop = "none"
  /\ live = {}
  /\ key = [e \in Ents |-> NoKey] /\ hash = [e \in Ents |-> 0]
  /\ next = [e \in Ents |-> Null] /\ prev = [e \in Ents |-> Null]
  /\ cur = Null /\ save = Null /\ owed = {}
  /\ want = "none" /\ find_key = NoKey /\ find_ent = Null
  /\ ret = NoAnswer

Listed == ToSet(ent_list)

\* e is nearer the head of the list than f.
Before(e, f) ==
  \E i, j \in 1..Len(ent_list) : i < j /\ ent_list[i] = e /\ ent_list[j] = f

\* The program is not inside a lookup, and where it may change the map.
Ready == find_key = NoKey
MayChange == Ready /\ loop \in {"none", "each"}

-----------------------------------------------------------------------------
(* Adding. *)

\* Faulty: the old head of the bucket keeps its prev.
InsertForgetsPrev(e, k, buf) ==
  LET b == Bucket(Hash[buf]) IN
  /\ e \in Ents \ live
  /\ live' = live \cup {e}
  /\ key' = [key EXCEPT ![e] = k] /\ hash' = [hash EXCEPT ![e] = Hash[buf]]
  /\ next' = [next EXCEPT ![e] = ents[b]] /\ prev' = [prev EXCEPT ![e] = Null]
  /\ ents' = [ents EXCEPT ![b] = e]
  /\ ent_list' = InsertHead(ent_list, e)
  /\ n_entries' = n_entries + 1
  /\ ret' = e
  /\ UNCHANGED <<looping, finding>>

\* _lz_kvmap_add: the entry e malloc returned gets the first klen bytes of
\* buf as its key, but the hash of all of buf.
Insert(e, k, buf) ==
  LET b == Bucket(Hash[buf]) IN
  /\ e \in Ents \ live
  /\ live' = live \cup {e}
  /\ key' = [key EXCEPT ![e] = k]
  /\ hash' = [hash EXCEPT ![e] = Hash[buf]]
  /\ next' = [next EXCEPT ![e] = ents[b]]
  /\ prev' = [x \in Ents |-> IF x = e THEN Null
                             ELSE IF x = ents[b] THEN e ELSE prev[x]]
  /\ ents' = [ents EXCEPT ![b] = e]
  /\ ent_list' = InsertHead(ent_list, e)
  /\ n_entries' = n_entries + 1
  /\ ret' = e
  /\ UNCHANGED <<looping, finding>>

\* lz_kvmap_add.
Add(e, k) == MayChange /\ Insert(e, k, k)

\* lz_kvmap_add_wklen with a klen that ends the key at or, with WithKlen,
\* before the NUL.
AddWklen(e, k, buf) ==
  /\ MayChange
  /\ <<k, buf>> \in PrefixOf
  /\ WithKlen \/ k = buf
  /\ Insert(e, k, buf)

-----------------------------------------------------------------------------
(* Removing. *)

\* Faulty: the entry is never freed.
NoRelease(e) == UNCHANGED <<live, key, hash>>

\* free(ent): the memory is malloc's again.  What it holds is unspecified;
\* the model clears it.
Release(e) ==
  /\ live' = live \ {e}
  /\ key' = [key EXCEPT ![e] = NoKey]
  /\ hash' = [hash EXCEPT ![e] = 0]

\* lz_kvmap_remove_ent.
RemoveEntry(e) ==
  LET b == Bucket(hash[e]) IN
  /\ prev' = [x \in Ents |-> IF x = e THEN Null
                             ELSE IF x = next[e] THEN prev[e] ELSE prev[x]]
  /\ next' = [x \in Ents |-> IF x = e THEN Null
                             ELSE IF x = prev[e] THEN next[e] ELSE next[x]]
  /\ ents' = IF ents[b] = e
             THEN [ents EXCEPT ![b] = IF prev[e] # Null THEN prev[e] ELSE next[e]]
             ELSE ents
  /\ n_entries' = n_entries - 1
  /\ ent_list' = Unlink(ent_list, e)
  /\ Release(e)
  /\ owed' = owed \ {e}
  /\ ret' = NoAnswer
  /\ UNCHANGED <<loop, cur, save>>

RemoveEnt(e) ==
  /\ MayChange
  /\ e \in ToSet(ent_list) /\ e # cur
  /\ RemoveEntry(e)
  /\ UNCHANGED finding

-----------------------------------------------------------------------------
(* Looking up. *)

\* Faulty: every entry of the bucket is taken for the one sought.
MatchesBucket(e, k) == Bucket(hash[e]) = Bucket(Hash[k])

\* The comparison of lz_kvmap_ent_find: equal hashes, and the key sought is
\* a prefix of the entry's.
Matches(e, k) == hash[e] = Hash[k] /\ <<k, key[e]>> \in PrefixOf

\* What a lookup must find: the entry nearest the head of the list that
\* satisfies the comparison, or nothing.
IsFirstMatch(e, k) ==
  IF e = Null THEN \A f \in Listed : ~Matches(f, k)
  ELSE /\ e \in Listed /\ Matches(e, k)
       /\ \A f \in Listed : Matches(f, k) => ~Before(f, e)

\* lz_kvmap_ent_find, lz_kvmap_find (w = "find") and lz_kvmap_remove
\* (w = "remove") begin at the head of the key's bucket.  The contract:
\* iterfn removes no key under which the current entry would be found.
FindStart(k, w) ==
  /\ Ready
  /\ IF w = "find" THEN loop \in {"none", "each", "clear"}
     ELSE MayChange /\ (loop = "each" => ~IsFirstMatch(cur, k))
  /\ want' = w /\ find_key' = k
  /\ find_ent' = ents[Bucket(Hash[k])]
  /\ ret' = NoAnswer
  /\ UNCHANGED <<live, fields, ents, ent_list, n_entries, looping>>

\* Faulty: an entry that does not match takes the one after it along.
FindSkips ==
  /\ ~Ready /\ find_ent # Null /\ ~Matches(find_ent, find_key)
  /\ find_ent' = IF next[find_ent] = Null THEN Null ELSE next[next[find_ent]]
  /\ UNCHANGED <<live, fields, ents, ent_list, n_entries, looping,
                 want, find_key, ret>>

FindStep ==
  /\ ~Ready /\ find_ent # Null /\ ~Matches(find_ent, find_key)
  /\ find_ent' = next[find_ent]
  /\ UNCHANGED <<live, fields, ents, ent_list, n_entries, looping,
                 want, find_key, ret>>

FindDone == want' = "none" /\ find_key' = NoKey /\ find_ent' = Null

\* The chain ends, or its entry matches and is returned.
FindEnd ==
  /\ ~Ready /\ want = "find"
  /\ find_ent # Null => Matches(find_ent, find_key)
  /\ ret' = find_ent
  /\ FindDone
  /\ UNCHANGED <<live, fields, ents, ent_list, n_entries, looping>>

\* lz_kvmap_remove finds nothing and returns 0.
RemoveMiss ==
  /\ ~Ready /\ want = "remove" /\ find_ent = Null
  /\ FindDone
  /\ UNCHANGED <<live, fields, ents, ent_list, n_entries, looping, ret>>

\* lz_kvmap_remove removes the entry it found.
RemoveHit ==
  /\ ~Ready /\ want = "remove" /\ find_ent # Null
  /\ Matches(find_ent, find_key)
  /\ RemoveEntry(find_ent)
  /\ FindDone

-----------------------------------------------------------------------------
(* lz_kvmap_for_each: the program is inside iterfn(cur). *)

ForEachStart ==
  /\ Ready /\ loop = "none" /\ ent_list # <<>>
  /\ loop' = "each"
  /\ cur' = Head(ent_list)
  /\ owed' = ToSet(ent_list) \ {Head(ent_list)}
  /\ ret' = NoAnswer
  /\ UNCHANGED <<live, fields, ents, ent_list, n_entries, save, finding>>

\* iterfn returned 0: the next entry is the one after cur now.
ForEachNext ==
  /\ Ready /\ loop = "each" /\ ListNext(cur) # Null
  /\ cur' = ListNext(cur)
  /\ owed' = owed \ {ListNext(cur)}
  /\ ret' = NoAnswer
  /\ UNCHANGED <<live, fields, ents, ent_list, n_entries, loop, save, finding>>

LeaveEach ==
  /\ loop' = "none" /\ cur' = Null /\ owed' = {}
  /\ ret' = NoAnswer
  /\ UNCHANGED <<live, fields, ents, ent_list, n_entries, save, finding>>

\* iterfn returned 0 for the last entry.
ForEachEnd == Ready /\ loop = "each" /\ ListNext(cur) = Null /\ LeaveEach

\* iterfn returned something else.
ForEachStop == Ready /\ loop = "each" /\ LeaveEach

-----------------------------------------------------------------------------
(* lz_kvmap_clear and lz_kvmap_free: the program is inside freefn(cur->val), *)
(* cur being off the list and not yet freed.                                 *)

\* Faulty: clear leaves the bucket pointing at the entry.
DetachListOnly(e) ==
  /\ cur' = e /\ save' = ListNext(e)
  /\ ent_list' = Unlink(ent_list, e)
  /\ ents' = ents /\ ret' = NoAnswer

\* One round of the loop up to the callback; clear also empties the
\* entry's bucket.
Detach(e) ==
  /\ cur' = e
  /\ save' = ListNext(e)
  /\ ent_list' = Unlink(ent_list, e)
  /\ ents' = IF loop' = "clear" THEN [ents EXCEPT ![Bucket(hash[e])] = Null]
             ELSE ents
  /\ ret' = NoAnswer

EmptyStart(how) ==
  /\ Ready /\ loop = "none" /\ ent_list # <<>>
  /\ loop' = how
  /\ Detach(Head(ent_list))
  /\ UNCHANGED <<live, fields, n_entries, owed, finding>>

\* freefn returned: free(cur), on to the next entry.
EmptyNext ==
  /\ Ready /\ loop \in {"clear", "free"} /\ save # Null
  /\ loop' = loop
  /\ Release(cur)
  /\ next' = [next EXCEPT ![cur] = Null] /\ prev' = [prev EXCEPT ![cur] = Null]
  /\ Detach(save)
  /\ UNCHANGED <<n_entries, owed, finding>>

\* freefn returned and it was the last entry: clear resets the counter,
\* free releases the buckets and the map.
EmptyEnd ==
  /\ Ready /\ loop \in {"clear", "free"} /\ save = Null
  /\ loop' = IF loop = "clear" THEN "none" ELSE "gone"
  /\ n_entries' = IF loop = "clear" THEN 0 ELSE n_entries
  /\ Release(cur)
  /\ next' = [next EXCEPT ![cur] = Null] /\ prev' = [prev EXCEPT ![cur] = Null]
  /\ cur' = Null
  /\ ret' = NoAnswer
  /\ UNCHANGED <<ents, ent_list, save, owed, finding>>

\* lz_kvmap_free of an empty map.
FreeEmpty ==
  /\ Ready /\ loop = "none" /\ ent_list = <<>>
  /\ loop' = "gone"
  /\ ret' = NoAnswer
  /\ UNCHANGED <<live, fields, ents, ent_list, n_entries, cur, save, owed, finding>>

\* The program makes another map.
New ==
  /\ loop = "gone"
  /\ ents' = [b \in Buckets |-> Null] /\ ent_list' = <<>> /\ n_entries' = 0
  /\ loop' = "none"
  /\ ret' = NoAnswer
  /\ UNCHANGED <<live, fields, cur, save, owed, finding>>

-----------------------------------------------------------------------------

Change ==
  \/ \E e \in Ents, k \in Keys : \/ Add(e, k)
                                 \/ \E buf \in Keys : AddWklen(e, k, buf)
  \/ \E e \in Ents : RemoveEnt(e)
Lookup ==
  \/ \E k \in Keys, w \in {"find", "remove"} : FindStart(k, w)
  \/ FindStep \/ FindEnd \/ RemoveMiss \/ RemoveHit
Iterate == ForEachStart \/ ForEachNext \/ ForEachEnd \/ ForEachStop
Empty ==
  \/ \E how \in {"clear", "free"} : EmptyStart(how)
  \/ EmptyNext \/ EmptyEnd \/ FreeEmpty

Next == Change \/ Lookup \/ Iterate \/ Empty \/ New

Spec == Init /\ [][Next]_vars

\* A call that has begun runs to its end: the library never waits (weak
\* fairness of its loops).  iterfn and freefn return, whatever lookups they
\* make first (strong fairness, since a lookup disables the return).
FairSpec == /\ Spec
            /\ WF_vars(FindStep \/ FindEnd \/ RemoveMiss \/ RemoveHit)
            /\ SF_vars(EmptyNext \/ EmptyEnd)
            /\ SF_vars(ForEachNext \/ ForEachEnd)
-----------------------------------------------------------------------------

TypeOK ==
  /\ live \in SUBSET Ents
  /\ key \in [Ents -> Keys \cup {NoKey}]
  /\ hash \in [Ents -> Nat]
  /\ next \in [Ents -> Ents \cup {Null}]
  /\ prev \in [Ents -> Ents \cup {Null}]
  /\ ents \in [Buckets -> Ents \cup {Null}]
  /\ ent_list \in Seq(Ents)
  /\ n_entries \in Int
  /\ loop \in {"none", "each", "clear", "free", "gone"}
  /\ cur \in Ents \cup {Null} /\ save \in Ents \cup {Null}
  /\ owed \in SUBSET Ents
  /\ want \in {"none", "find", "remove"}
  /\ find_key \in Keys \cup {NoKey}
  /\ find_ent \in Ents \cup {Null}
  /\ ret \in Ents \cup {Null, NoAnswer}

SameBucket(e, f) == Bucket(hash[e]) = Bucket(hash[f])

\* f is the first entry of e's bucket after e in the list.
Adjacent(e, f) ==
  /\ e \in Listed /\ f \in Listed /\ Before(e, f) /\ SameBucket(e, f)
  /\ \A g \in Listed : SameBucket(e, g) => ~(Before(e, g) /\ Before(g, f))

\* Outside clear and free the two structures tell the same story: the chain
\* of a bucket is the list restricted to that bucket, in the same order,
\* and prev is the inverse of next.  Every splice of lz_kvmap_remove_ent
\* and every insertion keeps it so.
ChainsMatchList ==
  loop \in {"none", "each"} =>
    /\ \A e \in Listed :
         /\ next[e] # Null => Adjacent(e, next[e])
         /\ next[e] = Null => \A f \in Listed : SameBucket(e, f) => ~Before(e, f)
         /\ prev[e] # Null => Adjacent(prev[e], e)
         /\ prev[e] = Null => \A f \in Listed : SameBucket(e, f) => ~Before(f, e)
    /\ \A b \in Buckets :
         /\ ents[b] # Null =>
              /\ ents[b] \in Listed /\ Bucket(hash[ents[b]]) = b
              /\ \A f \in Listed : Bucket(hash[f]) = b => ~Before(f, ents[b])
         /\ ents[b] = Null => \A f \in Listed : Bucket(hash[f]) # b

\* Whatever a lookup may dereference, in the program or in a callback of
\* for_each or clear, is an entry still on the list: never one that clear
\* has already freed.
LookupsSafe ==
  loop \in {"none", "each", "clear"} =>
    /\ find_ent # Null => find_ent \in Listed
    /\ \A b \in Buckets : ents[b] # Null => ents[b] \in Listed
    /\ \A e \in Listed : next[e] # Null => next[e] \in Listed

\* lz_kvmap_get_size is the number of entries whenever no emptying is under
\* way.  (During clear the counter still has its old value.)
SizeIsExact == loop \in {"none", "each"} => n_entries = Len(ent_list)

\* Every entry malloc'd is on the list once or is the one whose freefn is
\* running; the loops go on with an entry of the list.  So every entry is
\* freed exactly once and a map that is gone leaves nothing behind.
EntriesOwned ==
  /\ IsInjective(ent_list)
  /\ live = Listed \cup (IF loop \in {"clear", "free"} THEN {cur} ELSE {})
  /\ loop \in {"clear", "free"} => /\ cur # Null /\ cur \notin Listed
                                   /\ save = (IF ent_list = <<>> THEN Null
                                              ELSE Head(ent_list))
  /\ loop = "each" => cur \in Listed
  /\ loop = "gone" => live = {}

\* The walk along the chain returns what a search of the whole list would.
FindsFirstMatch ==
  [][FindEnd /\ loop # "clear" => IsFirstMatch(find_ent, find_key)]_vars

\* for_each calls iterfn once for every entry that was there when it began
\* and was not removed meanwhile, and for no other, though iterfn adds and
\* removes entries.
EachVisitsAll ==
  [][/\ ForEachNext => cur' \in owed
     /\ ForEachEnd => owed = {}]_vars

\* The hypothesis under which keys are told apart: no string has the hash
\* of one of its proper prefixes (djb2 gives no such promise), and no caller
\* of lz_kvmap_add_wklen cuts a string short.
KeysToldApart ==
  /\ ~WithKlen
  /\ \A p \in PrefixOf : Hash[p[1]] = Hash[p[2]] => p[1] = p[2]

Map == INSTANCE Multimap WITH
         Ids <- Ents,
         entries <- [i \in DOMAIN ent_list |->
                       [id |-> ent_list[i], key |-> key[ent_list[i]]]],
         emptying <- loop \in {"clear", "free"},
         asking <- want, asked <- find_key, answer <- ret

\* The map implements the abstract multimap when keys are told apart.
MultimapSpec == Map!MMSpec

\* Lookups, removals by key, iterations and emptyings end: no chain has a
\* cycle and no loop goes round for ever.
LoopsEnd ==
  /\ ~Ready ~> Ready
  /\ loop \in {"each", "clear", "free"} ~> loop \in {"none", "gone"}
=============================================================================
