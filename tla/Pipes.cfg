SPECIFICATION MCSpec
CONSTANTS
    MaxPos = 3
    PipeCap = 3
    MaxHeat = 2
    FirstEntity = 1
    MaxEvents = 4
    SimRestarts = 1
INVARIANTS JoinedAsBuilt NetworksAreTheWires ToolsAccounted
PROPERTY TickConserves
CHECK_DEADLOCK FALSE
