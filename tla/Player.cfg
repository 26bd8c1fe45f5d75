CONSTANTS
    MaxStack = 3
    HotbarSize = 1
    PlayerSlots = 2
    Players = {p1, p2}
    Items = {1, 2, 9}
    ItemId <- StackId
    Ingredient = 1
    Product = 2
    Chests = {1}
    Benches = {2}
    Machines = {3}
    ContSlots = 1
    StartInv <- ConInv
    MaxEvents = 5
    NoBlock = NoBlock
SPECIFICATION MCSpec
SYMMETRY MCSymmetry
INVARIANTS ItemsAccounted BlocksAccounted ClientIsCurrent
PROPERTY GridActsOnce
CHECK_DEADLOCK FALSE
