\* Two transfers and one reset, link flap or peer reset.
SPECIFICATION FairSpec
CONSTANTS
    MaxTransfers = 2
    MaxFaults = 1
    IsLlm = 1
INVARIANT CompletedIsMoved
PROPERTIES
    CompletedOnce
    TransferReturns
CHECK_DEADLOCK FALSE
