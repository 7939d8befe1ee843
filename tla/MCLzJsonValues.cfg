CONSTANTS
  n1 = n1
  n2 = n2
  n3 = n3
  Null = Null
  NoKey = NoKey
  Nodes = {n1, n2, n3}
  Keys = {"a", "b"}
  MaxMembers = 2
SPECIFICATION FairSpec
INVARIANT HeldOnce
INVARIANT FreesExactly
PROPERTY BlocksSpec
PROPERTY FreeEnds
