SPECIFICATION SpecTerms
CONSTANTS
    Server = {s1, s2, s3}
    Command = {a, b}
    NoServer = NoServer
    Elected = s1
    MaxLog = 0
    MaxElections = 2
    MaxRestarts = 1
    MaxSnapshots = 0
    MaxInFlight = 2
CHECK_DEADLOCK FALSE
SYMMETRY Symmetry
CONSTRAINT FewElections
INVARIANTS
    TypeOK
    DurableState
    VoteOnceUnlessLed
    WonByQuorum
    CleanElectionSafety
    CleanLogMatching
    CleanLeaderCompleteness
    CleanCommitsAgree
PROPERTY ImplementsAgreedLog
