SPECIFICATION FairSpec
CONSTANTS
    Orders = {o1, o2}
    Txids = {t1, t2}
    None = None
    MaxAddresses = 2
    Batch = 1
    Amounts <- MCAmounts
    Price = 2
    MinConfirmations = 1
    MaxDepth = 1
    Limit = 2
    MaxDisruptions = 1
INVARIANTS
    TypeOK
    PaidIsCovered
PROPERTIES
    NothingIsUndone
    DepositSettles
