SPECIFICATION FairSpec
CONSTANTS
    Addresses = {a1, a2}
    None = None
    MaxAckAttempts = 2
    MaxDisruptions = 1
    MaxReloads = 1
CHECK_DEADLOCK FALSE
INVARIANTS
    TypeOK
PROPERTIES
    ImplementsDelivery
    SellerIsTold
