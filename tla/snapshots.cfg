SPECIFICATION SpecSnapshots
CONSTANTS
    Server = {s1, s2, s3}
    Command = {a, b}
    NoServer = NoServer
    Elected = s1
    MaxLog = 0
    MaxElections = 1
    MaxRestarts = 1
    MaxSnapshots = 1
    MaxInFlight = 3
CHECK_DEADLOCK FALSE
CONSTRAINTS CleanHistory FewCalls
SYMMETRY SymmetryElected
INVARIANTS
    SnapshotCoversIndex
    OneLeaderNoPanic
    CleanCommitsAgree
    CleanLeaderCompleteness
    CleanCommittedDurable
PROPERTIES
    CommittedStays
    OnlyOverlaysDropEntries
