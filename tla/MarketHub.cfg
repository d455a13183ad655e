CONSTANTS
    Users = {u1, u2}
    Prices = {1}
    Quantities = {1, 2}
    Inputs <- FeedOrders
    MaxOrders = 2
    Clients = {c1}
    Buffer = 2
SPECIFICATION HubSpec
INVARIANTS
    FeedIsFaithful
    ClosedOnce
    NoGaps
PROPERTIES
    EveryoneIsServed
CHECK_DEADLOCK FALSE
