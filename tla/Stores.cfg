CONSTANTS
    Entry = {e1, e2, e3, e4}
    Other = {x1, x2}
    MapSize = 1
    MaxMapSize = 3
    MaxRounds = 2
    Faults = {"begin", "put", "commit", "grow"}
    Keys = {"chest", "bench"}
    Blobs = {"b1", "b2"}
    Conns = {"simcore"}
    Absent = "absent"
    CacheSize = 1
    MaxAsks = 2
    MaxFaults = 2
SPECIFICATION MCSpec
INVARIANTS NothingDropped LoadsFindSaves TerrainReads
CHECK_DEADLOCK FALSE
