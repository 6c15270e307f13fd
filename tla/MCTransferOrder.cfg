SPECIFICATION FairSpec
CONSTANTS
    Buyers = {b1, b2}
    Providers = {"dev", "cipherpay", "zcash-onchain"}
    Txids = {t1, t2}
    Wraps = {w1}
    Amounts <- MCAmounts
    Confirmations <- MCConfirmations
    Price = 2
    MinConfirmations = 2
    DeliveryModes = {"browser", "client"}
    None = None
    MaxClaims = 2
    MaxInFlight = 2
INVARIANTS
    TypeOK
    EnvelopeIsForPayer
    ClaimsAreEarned
    SettlementHasCause
    SentMeansSent
    IndexNeverDangles
PROPERTIES
    PaymentIsBinding
    ImplementsSale
    PaidIsClaimable
