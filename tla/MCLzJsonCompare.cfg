CONSTANTS
  Values <- SomeValues
  Keys <- SomeKeys
  Callbacks <- SomeCallbacks
  Nesting <- SomeNesting
  MaxNesting = 2
SPECIFICATION CompareSpec
CHECK_DEADLOCK FALSE
INVARIANT PlainIsEquality
INVARIANT TwoWaysIsSame
INVARIANT EqualsItself
