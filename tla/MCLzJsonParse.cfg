SPECIFICATION FairSpec
CONSTANTS
  Strs = {"a", "b"}
  MCAlphabet = {"[", "]", "{", "}", ",", ":", "1", "a", "b", "null", " "}
  MaxLen = 6
  MaxEdits = 1
  Inputs <- MCTexts
INVARIANTS TypeOK ValuesOwnedOnce ReadsWhatIsWritten AcceptsPlainText 
PROPERTIES ParseEnds
CHECK_DEADLOCK FALSE
