SPECIFICATION FairSpec
CONSTANTS
    Orders = {o1, o2}
    Txids = {t1, t2}
    None = None
    MaxAddresses = 2
    Batch = 2
    Amounts = {2}
    Price = 2
    MinConfirmations = 2
    MaxDepth = 2
    Limit = 1
    MaxDisruptions = 0
PROPERTIES
    DepositSettles
