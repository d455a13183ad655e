CONSTANTS
    Keys = {1, 2, 3, 4, 5, 6, 7}
    Values = {"x", "y"}
    NoValue = "none"
SPECIFICATION Spec
INVARIANTS
    Balanced
    AnswersInOrder
PROPERTIES
    IsAMap
