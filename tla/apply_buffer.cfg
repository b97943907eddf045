SPECIFICATION FairSpec
CONSTANTS
    NumBatches = 6
    MaxPending = 2
CHECK_DEADLOCK FALSE
INVARIANTS
    BufferInv
    NobodyStuck
PROPERTIES
    QueueSpec
    EventuallyDelivered
