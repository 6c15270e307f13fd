SPECIFICATION TransferFairSpec
CONSTANTS
    Total = 2
    Window = 1
    NoRequest = NoRequest
    MaxHashes = 2
    MaxFaults = 2
INVARIANTS
    TransferTypeOK
    AckMeansAssembled
PROPERTIES
    FileArrives
