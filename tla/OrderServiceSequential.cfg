CONSTANTS
    u1 = u1
    u2 = u2
    Users = {u1, u2}
    Prices = {1, 2}
    Quantities = {1, 2}
    Inputs <- CheckedOrders
    MaxOrders = 3
    Funds = 3
    MaxInFlight = 1
    MaxCrashes = 0
    DbFaults = FALSE
SPECIFICATION Spec
INVARIANTS
    RowsMatchBook
    LocksCoverBook
CHECK_DEADLOCK FALSE
