CONSTANTS
    Conns = {"a", "b", "s"}
    Frames <- MCFrames
    Gateway = "gateway"
    SendChSize = 2
    MaxFrames = 4
    MaxFaults = 1
    Senders = {"s1", "s2"}
    FrameLen <- MCFrameLen
    WriteBatch = 2
    RingEntries = 2
    Word = 64
    Errno = 2
    TagBase = 2
    TagSpace = 32
    ReadMax = 3
    MaxWriteFaults = 1
    MaxLives = 2
SPECIFICATION MCSpec
INVARIANTS RouterDelivers FramesFlow PlayerHeld
CHECK_DEADLOCK FALSE
