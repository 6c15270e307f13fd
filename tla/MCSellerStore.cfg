SPECIFICATION Spec
CHECK_DEADLOCK FALSE
CONSTANTS
    Sellers = {s1, s2}
    Handles = {h1, h2}
    Names = {n1}
    ScanRefs = {k1}
    Requests = {r1, r2}
    None = None
    MaxRequests = 4
    MaxCrashes = 1
SYMMETRY MCSymmetry
INVARIANTS
    TypeOK
    SameNameMeansOverlap
    HandleFindsItsSeller
    LastAnswerHolds
