SPECIFICATION FairDiverged
CONSTANTS
    Server = {s1, s2, s3}
    Command = {a, b}
    NoServer = NoServer
    Elected = s1
    MaxLog = 3
    MaxElections = 0
    MaxRestarts = 0
    MaxSnapshots = 0
    MaxInFlight = 2
CHECK_DEADLOCK FALSE
PROPERTY LaggardsCatchUp
