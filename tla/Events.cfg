SPECIFICATION Spec
CONSTANTS
  Readers = {r1, r2}
  Producers = {p1}
  QueueSize = 2
  MaxInputs = 3
SYMMETRY Symmetry
INVARIANTS
  
  
  RecordFetched
PROPERTIES
  ImplementsFifo
CHECK_DEADLOCK FALSE
