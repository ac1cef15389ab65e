SPECIFICATION Spec
CONSTANTS
    Order = {1, 2}
    Txn = {1, 2, 3}
    User = {"buyer"}
    OrderOf <- TwoEach
    UserOf <- OneUser
    Provider <- EachProvider
    Charge <- TwoCharges
    Amount = {500, 2500, 1000}
    MIN_AMOUNT_UZS = 1000
    UZS_PER_COIN = 1000
    NoTxn = 0
    MaxInFlight = 2
    MaxCredits = 2
INVARIANTS
    NetMatchesStatus
    PerformedIsHonoured
    CreditedOnceUnlessOverlap
PROPERTIES
    ImplementsOrderBook
CHECK_DEADLOCK FALSE
