------------------------------ MODULE Multimap ------------------------------
(***************************************************************************)
(* What a key/value map that never replaces promises its clients: adding   *)
(* shadows, looking up and removing by key mean the newest entry of that   *)
(* exact key, removing uncovers what was shadowed.  LzKvmap implements     *)
(* this specification with hash buckets, pointer chains and a list.        *)
(***************************************************************************)
EXTENDS SequencesExt

CONSTANTS Ids, Keys, Null, NoKey, NoAnswer

VARIABLES
  entries,    \* sequence of [id, key], newest first
  emptying,   \* the map is being cleared or freed entry by entry
  asking,     \* the question that waits for an answer: "find" or "remove"
  asked,      \* by key, or "none" and NoKey
  answer      \* the id (or Null) an operation has just returned

question == <<asking, asked>>
mmvars == <<entries, emptying, asking, asked, answer>>

WithKey(k) == { i \in DOMAIN entries : entries[i].key = k }
WithId(id) == { i \in DOMAIN entries : entries[i].id = id }

\* The newest entry of key k, or Null.
Newest(k) == IF WithKey(k) = {} THEN Null ELSE entries[Min(WithKey(k))].id

\* The entries without id, which at most one of them has.
Without(id) == IF WithId(id) = {} THEN entries
               ELSE RemoveAt(entries, Min(WithId(id)))

Idle == asking = "none" /\ asked = NoKey

MMInit ==
  /\ entries = <<>> /\ emptying = FALSE
  /\ asking = "none" /\ asked = NoKey /\ answer = NoAnswer

Add(id, k) ==
  /\ Idle /\ ~emptying
  /\ WithId(id) = {}
  /\ entries' = <<[id |-> id, key |-> k]>> \o entries
  /\ answer' = id
  /\ UNCHANGED <<emptying, question>>

RemoveId(id) ==
  /\ Idle /\ ~emptying
  /\ WithId(id) # {}
  /\ entries' = Without(id)
  /\ answer' = NoAnswer
  /\ UNCHANGED <<emptying, question>>

\* A question is put.
Ask(k, what) ==
  /\ Idle
  /\ asking' = what /\ asked' = k
  /\ answer' = NoAnswer
  /\ UNCHANGED <<entries, emptying>>

Answered == asking' = "none" /\ asked' = NoKey

\* While the map is being emptied a lookup may miss what is still there.
Find ==
  /\ asking = "find" /\ Answered
  /\ answer' \in {Newest(asked)} \cup (IF emptying THEN {Null} ELSE {})
  /\ UNCHANGED <<entries, emptying>>

\* Nothing is removed when the key has no entry.
RemoveKey ==
  /\ asking = "remove" /\ ~emptying /\ Answered
  /\ entries' = Without(Newest(asked))
  /\ answer' = NoAnswer
  /\ UNCHANGED emptying

\* An operation that returns no entry.
Quiet == Idle /\ answer' = NoAnswer /\ UNCHANGED <<entries, emptying, question>>

\* Emptying drops the newest entry first.
Drop ==
  /\ Idle /\ entries # <<>>
  /\ entries' = Tail(entries)
  /\ emptying' = TRUE
  /\ answer' = NoAnswer
  /\ UNCHANGED question

Emptied ==
  /\ Idle /\ entries = <<>>
  /\ emptying' = FALSE
  /\ answer' = NoAnswer
  /\ UNCHANGED <<entries, question>>

MMNext ==
  \/ \E id \in Ids : RemoveId(id) \/ \E k \in Keys : Add(id, k)
  \/ \E k \in Keys, what \in {"find", "remove"} : Ask(k, what)
  \/ Find \/ RemoveKey \/ Quiet \/ Drop \/ Emptied

MMSpec == MMInit /\ [][MMNext]_mmvars
=============================================================================
