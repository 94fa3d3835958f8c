CONSTANTS
    Hashes <- MCHashes
    Zones <- MCZones
    Apex = ""
    Domain = "d1"
    Key = "ka"
    Whitelist <- MCWhitelist
    SeenSequence = 1
    NoTcp = {"n2"}
    TxtHashes = 8
    Broken = broken
    None = None
    MaxQueries = 2
    MaxFailures = 1
SPECIFICATION FairSpec
INVARIANTS
    OnlyTreeNodes
    CompleteQuery
PROPERTY QueriesEnd
CHECK_DEADLOCK FALSE
