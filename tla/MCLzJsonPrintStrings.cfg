CONSTANTS
  Chars <- AllChars
  Requests <- SomeRequests
  Values <- SomeValues
  Keys <- SomeKeys
  Nesting <- SomeNesting
  MaxNesting = 4
  MaxLen = 16
  Grow = 2
  Width = 8
SPECIFICATION PrintSpec
CHECK_DEADLOCK FALSE
INVARIANT StringsKept
