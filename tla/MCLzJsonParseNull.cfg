SPECIFICATION Spec
CONSTANTS
  Strs = {"a", "b"}
  MCAlphabet = {"[", "]", "1", "null", ","}
  MaxLen = 0
  MaxEdits = 1
  Inputs <- MCEdited
INVARIANTS ConvertsAsWritten
CHECK_DEADLOCK FALSE
