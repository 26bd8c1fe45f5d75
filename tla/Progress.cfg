\* Two slots of two items, so that rewards and exchanges meet a full
\* inventory; one fault of any kind.
CONSTANTS
    Quests = {1, 2, 3, 4}
    Prereqs <- MCPrereqs
    EraOf <- MCEraOf
    DetectType <- MCDetect
    Target <- MCTarget
    Reward <- MCReward
    Cost <- MCCost
    AutoComplete = {1, 3}
    Cooldown = 1
    SlotCount = 2
    Stack = 2
    Items = {1}
    MaxMoves = 2
    MaxQueue = 2
    MaxFaults = 1
    Entities = {p, q}
SPECIFICATION MCSpec
SYMMETRY MCSymmetry
INVARIANTS ErasExact RewardsAreKept RecipesAsWritten
PROPERTIES BookSpec ExchangesWhole
CHECK_DEADLOCK FALSE
