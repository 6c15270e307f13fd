SPECIFICATION FairSpec
CONSTANTS
    Orders = {1, 2}
    Drafts = {1, 2}
    MaxDisruptions = 1
INVARIANTS
    TypeOK
    OneSendAtATime
PROPERTIES
    EveryBuyerIsServed
