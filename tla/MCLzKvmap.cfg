CONSTANTS
  e1 = e1
  e2 = e2
  e3 = e3
  Null = Null
  NoKey = NoKey
  NoAnswer = NoAnswer
  Ents = {e1, e2, e3}
  Keys = {"a", "ab", "b", "c"}
  PrefixOf <- ProperPrefix
  Hash <- CollidingHash
  NBuckets = 2
  WithKlen = FALSE
SPECIFICATION FairSpec
INVARIANT ChainsMatchList
INVARIANT LookupsSafe
INVARIANT EntriesOwned
PROPERTY EachVisitsAll
PROPERTY MultimapSpec
PROPERTY FindsFirstMatch
PROPERTY LoopsEnd
