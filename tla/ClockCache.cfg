CONSTANTS
    Thread = {t1, t2}
    Key = {k1, k2}
    Val = {x1, x2, x3, x4}
    NoKey = NoKey
    NoVal = NoVal
    Assoc = 2
    MaxOps = 4
SPECIFICATION FairSpec
INVARIANT ExactlyOnce
PROPERTY SomeReturn
