SPECIFICATION FairSpec
CONSTANTS
    o1 = o1
    o2 = o2
    o3 = o3
    s1 = s1
    s2 = s2
    Orders = {o1, o2, o3}
    Sellers = {s1, s2}
    SellerOf <- MCSellerOf
    ScanRefs = {k1}
    ValidIndexes <- MCValidIndexes
    PoolAddresses = {p1}
    MaxDeriveAttempts = 2
    MaxFailures = 1
    None = None
INVARIANTS
    TypeOK
    UniqueAddresses
    DepositFindsItsOrder
    MarkCoversBindings
PROPERTIES
    KeyedIntentSucceeds
