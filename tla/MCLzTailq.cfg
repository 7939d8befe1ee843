SPECIFICATION Spec
CONSTANTS
  Queues = {q1, q2}
  Elems = {e1, e2, e3, e4}
  Data = {d1, d2}
  Null = Null
SYMMETRY MCSymmetry
INVARIANTS TypeOK QueuedOnce DataOwnedOnce
PROPERTIES EachVisitsAll
