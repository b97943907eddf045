SPECIFICATION Spec
CONSTANTS
    NumBatches = 4
    MaxPending = 3
CHECK_DEADLOCK FALSE
INVARIANT NobodyStuck
