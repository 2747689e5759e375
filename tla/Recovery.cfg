SPECIFICATION FairSpec
CONSTANTS
  Kickers = {k1}
  Callers = {c1, c2}
  NoCaller = NoCaller
  MaxRetries = 2
  MaxStarts = 2
INVARIANTS
  TypeOK
  
  
PROPERTIES
  
  RecoveryCallReturns
