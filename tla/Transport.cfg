SPECIFICATION FairSpec
CONSTANTS
  Threshold = 2
  MaxInWindow = 1
  Flows = {"aer", "frozen", "perm", "reset", "pm", "remove", "shutdown"}
  MaxEvents = 2
INVARIANTS
  ReinitIsExclusive
  WorkersStopped
  
  ToldMatchesLink
PROPERTIES
  LinkUpBecomesLive
