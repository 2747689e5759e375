SPECIFICATION MCSpec
CONSTANTS
  \* PermFailWindow
  Window = 2
  MaxRetries = 3
  MaxTime = 8
  MaxFailures = 7
  \* RateWindow
  StormWindow = 3
  StormTime = 10
  MaxInWindow = 2
  Cooldown = 2
  \* Sched
  Callers = {p1, p2}
  Bounds = {b1, b2, b3}
  NoBound = NoBound
  NQueues = 2
  MaxRef = 2
  MaxFaults = 1
  \* ResponseQueue
  Readers = {r1, r2}
  PoolSize = 3
  MaxResponses = 6
  MaxRecoveries = 1
SYMMETRY Symmetry
INVARIANTS
  StormLimited
PROPERTIES
  PermFailNeedsBurst
  BusyMeansFull
  ImplementsFifo
