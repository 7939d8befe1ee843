CONSTANTS
  LuaValues <- SomeLuaValues
  LuaKeys <- SomeKeys
  LuaNesting <- SomeNesting
  MaxLuaNesting = 3
  Values <- SomeValues
  Width = 4
SPECIFICATION LuaSpec
CHECK_DEADLOCK FALSE
INVARIANT NextIsLegal
INVARIANT StackKept
INVARIANT UniformConverted
INVARIANT RoundTrip
PROPERTY Ends
