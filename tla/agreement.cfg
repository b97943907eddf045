SPECIFICATION TestSpec
CONSTANTS
    NServers = 3
    Node = {0, 1, 2}
    Command = {"c", "x"}
    Cmd = "c"
    MaxLog = 3
INVARIANTS
    OneReturnsAgreed
    WaitReturnsAgreed
    NoFalseAlarm
CHECK_DEADLOCK FALSE
