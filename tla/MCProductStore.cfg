SPECIFICATION FairSpec
CONSTANTS
    Products = {p1}
    Orders = {o1, o2}
    Buyers = {b1, b2}
    None = None
    HalfMade = HalfMade
    MaxSupply = 2
    MaxFailures = 1
CHECK_DEADLOCK FALSE
INVARIANTS
    TypeOK
    UnitsAreAccounted
    SoldOutIsTrue
PROPERTIES
    SoldOutIsShown
    ImplementsLimitedSale
