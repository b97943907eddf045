SPECIFICATION Spec
CONSTANTS
    Server = {s1, s2}
    Command = {a, b}
    NoServer = NoServer
    Elected = s1
    MaxLog = 0
    MaxElections = 2
    MaxRestarts = 0
    MaxSnapshots = 0
    MaxInFlight = 2
CHECK_DEADLOCK FALSE
SYMMETRY Symmetry
INVARIANT StateMachineSafety
