CONSTANTS
    Hashes <- MCHashes
    Zones <- MCLongZones
    Apex = ""
    Domain = "d1"
    Key = "ka"
    Whitelist <- MCWhitelist
    SeenSequence = 1
    NoTcp = {"n2"}
    TxtHashes = 2
    Broken = broken
    None = None
    MaxQueries = 1
    MaxFailures = 0
SPECIFICATION Spec
INVARIANT CompleteQuery
CHECK_DEADLOCK FALSE
