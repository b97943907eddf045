SPECIFICATION FairSpec
CONSTANTS
    Call = {c1, c2}
    MaxCrashes = 2
INVARIANTS
    RPCInv
    RepliedIsSaved
PROPERTIES
    CallReturns
    HandlersEnd
