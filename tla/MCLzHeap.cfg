CONSTANTS
  t1 = t1
  t2 = t2
  t3 = t3
  p1 = p1
  p2 = p2
  p3 = p3
  p4 = p4
  p5 = p5
  p6 = p6
  Threads = {t1, t2, t3}
  Pages = {p1, p2, p3, p4, p5, p6}
  NElem = 2
SPECIFICATION Spec
SYMMETRY Symmetry
CHECK_DEADLOCK FALSE
INVARIANT PagesPartitioned
INVARIANT UsedIsHeld
INVARIANT PoolBound
INVARIANT UsedIsTaken
PROPERTY AllocatorSpec
