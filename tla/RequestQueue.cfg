SPECIFICATION FairSpec
CONSTANTS
  Submitters = {s1, s2}
  NoSubmitter = NoSubmitter
  MaxCount = 2
  Ids = 3
INVARIANTS
  FillingIsExclusive
  RequestsInOrder
  
PROPERTIES
  FullQueueDrains
