CONSTANTS
    Thread = {t1, t2}
    Key = {k1, k2}
    Block = {b1, b2}
    Obj = {o1, o2, o3}
    Null = Null
    Air = Air
    None = None
    Undecodable = Undecodable
    Capacity = 1
    Calls = {"setBlock", "casBlock", "AsyncGetChunk", "GetBlockAt"}
    Faults = {"read", "write"}
    Stored = {"none", "chunk", "old"}
    MaxOps = 4
    MixedOps = 3
    Callers = {"tick", "router"}
    Positions = {0, 1}
    Values = {0, 1}
    ChunkSize = 2
    MaxCalls = 2
SPECIFICATION MCSpec
SYMMETRY MCSymmetry
INVARIANTS AckedIsDurable CasWinsOnce ReadsSeeAcked AnsweredByItsOwn
CHECK_DEADLOCK FALSE
