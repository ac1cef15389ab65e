SPECIFICATION Spec
CONSTANTS
    Order = {1}
    Txn = {1}
    User = {"buyer"}
    OrderOf <- OneOrder
    UserOf <- OneUser
    Provider <- AllClick
    Charge <- SameCharge
    Amount = {2500}
    MIN_AMOUNT_UZS = 1000
    UZS_PER_COIN = 1000
    NoTxn = 0
    MaxInFlight = 1
    MaxCredits = 2
INVARIANTS
    CreditedOnce
CHECK_DEADLOCK FALSE
