SPECIFICATION FairSpec
CONSTANTS
    Key = {"k1", "k2"}
    FirstKey = "k1"
    Op <- MCOp
    MaxOps = 3
    MaxTime = 2
    WordBits = 2
INVARIANTS SearchFits VerdictIsRight LongestIsLongest
PROPERTIES Returns
CHECK_DEADLOCK FALSE
