CONSTANTS
    Users = {u1, u2}
    Prices = {1, 2}
    Quantities = {1, 2}
    Inputs <- LimitsAndSweeps
    MaxOrders = 4
SPECIFICATION Spec
SYMMETRY UserSymmetry
INVARIANTS
    NotCrossed
    IndexesAgree
    QuantitiesAgree
PROPERTIES
    GoneForGood
    ImplementsPriceTime
CHECK_DEADLOCK FALSE
