SPECIFICATION SpecElected
CONSTANTS
    Server = {s1, s2, s3}
    Command = {a}
    NoServer = NoServer
    Elected = s1
    MaxLog = 0
    MaxElections = 0
    MaxRestarts = 1
    MaxSnapshots = 1
    MaxInFlight = 3
CHECK_DEADLOCK FALSE
SYMMETRY SymmetryElected
INVARIANT MakeReturns
