CONSTANTS
    u1 = u1
    u2 = u2
    Users = {u1, u2}
    Prices = {1}
    Quantities = {1, 2}
    Inputs <- CrossingOrders
    MaxOrders = 3
    Funds = 3
    MaxInFlight = 2
    MaxCrashes = 0
    DbFaults = TRUE
SPECIFICATION Spec
INVARIANTS
    WalletsSound
    RowsNeverAhead
    ClosedRowsOffBook
CHECK_DEADLOCK FALSE
