CONSTANTS
    Goroutines = {g1, g2, g3}
    Pairs = {p1, p2}
SPECIFICATION FairSpec
INVARIANTS
    OneBookPerPair
    OneInside
PROPERTIES
    CallsReturn
