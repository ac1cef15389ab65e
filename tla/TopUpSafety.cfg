SPECIFICATION Spec
CONSTANTS
    Request = {r1, r2}
    User = {"payer"}
    Admin = {a1, a2}
    UserOf <- OneUser
    Method <- Usdt
    Amount <- ThreeCoins
    NoRequest = NoRequest
    MaxMoves = 3
SYMMETRY Symmetry
INVARIANTS
    NetIsExplained
    OnePending
