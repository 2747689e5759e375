SPECIFICATION Spec
CONSTANTS
  Callers = {p1}
  Bounds = {b1, b2, b3}
  NoBound = NoBound
  NQueues = 2
  MaxRef = 1
  MaxFaults = 0
INVARIANTS
  ReferencedBoundIsServed
