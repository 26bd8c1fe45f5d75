CONSTANTS
    m1 = m1
    m2 = m2
    Machines = {m1, m2}
    Layouts <- MCLayouts
    Recipes = {1, 2, 3}
    Accepts <- MCAccepts
    Eu <- MCEu
    Fluid <- MCFluid
    Cost <- MCCost
    Duration = 1
    Cap = 1
    OutCap = 1
    MaxIn = 1
    MaxRetries = 1
    Backoff = 1
    Expiry = 2
    MaxWire = 2
    MaxLoss = 1
    MaxRemove = 1
SPECIFICATION MCSpec
INVARIANTS WaitsForSomething MultiblocksSettle HeatIsPaid
PROPERTY CraftsArePaid
CHECK_DEADLOCK FALSE
