CONSTANTS
    Owner = {b1}
    None = None
    MaxReq = 1
    MaxWant = 2
    MaxSteam = 1
    Rate = 1
    MaxEpoch = 2
    Ttl = 3
    RetryBase = 1
    RetryMax = 2
    MaxRetries = 1
    RejectBase = 1
    RejectMax = 2
    ReplayCap = 1
    QueueCap = 2
    Lossy = TRUE
SPECIFICATION FairSpec
INVARIANTS ConsumesSettle TwiceOnlyIfForgotten
PROPERTY ConsumeAnswered
