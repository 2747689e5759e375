\* Three chunks and one failure, then a short transfer.
SPECIFICATION FairSpec
CONSTANTS
    Chunks = 3
    MaxFaults = 1
INVARIANTS
    
    ChunksOwned
PROPERTIES
    TableStable
    HealthyEnds
