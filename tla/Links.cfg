CONSTANTS
    None = None
    Chunks = {1, 2}
    Values = {0, 1}
    Air = 0
    Near0 = {1}
    MaxChunks = 1
    MaxChanges = 1
    MaxDrops = 1
    MaxMoves = 1
    Req = {r1, r2, r3}
    Key = {k1, k2}
    Worker = {w1, w2}
    Encoder = {e1}
    NoKey = NoKey
SPECIFICATION MCSpec
INVARIANTS NoOrphanCallback ShowsLastChange
PROPERTIES Answered NearIsLoaded ComesBack
CHECK_DEADLOCK FALSE
