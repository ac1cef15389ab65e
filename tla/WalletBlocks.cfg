SPECIFICATION FairSpec
CONSTANTS
    Profile = {p1, p2}
    Client = {c1, c2}
    Editor = {}
    Amount = {1}
    NoClient = NoClient
    NoProfile = NoProfile
    MaxCalls = 2
    MaxBalance = 1
INVARIANTS
    BalanceIsLedger
PROPERTIES
    NoOverdraft
    EveryBlockEnds
