SPECIFICATION FairSpec
CONSTANTS
    Client = {c1, c2}
    Admin = c2
    Group = {"g1", "g2"}
    NServers = 2
    MaxOps = 2
    MaxFailures = 1
    MaxChanges = 1
INVARIANTS TypeOK ReturnedIsExecuted ExecutedOnce
PROPERTIES EveryOperationReturns
CHECK_DEADLOCK FALSE
