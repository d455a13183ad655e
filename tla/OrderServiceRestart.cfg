CONSTANTS
    u1 = u1
    u2 = u2
    Users = {u1, u2}
    Prices = {1}
    Quantities = {1, 2}
    Inputs <- CrossingOrders
    MaxOrders = 2
    Funds = 2
    MaxInFlight = 2
    MaxCrashes = 2
    DbFaults = FALSE
SPECIFICATION FairSpec
PROPERTIES
    LostOrdersClosed
    NothingHangs
CHECK_DEADLOCK FALSE
