SPECIFICATION FairSpec
CONSTANTS
    Profile = {p1, p2}
    Plan = {basic}
    Sub = {1, 2}
    Worker = {w1, w2}
    Tab = {b1}
    Canceller = {}
    Form = {}
    Gifted = {}
    Days <- OneDay
    Prices = {1}
    Coins = 2
    NoProfile = NoProfile
    NoPlan = NoPlan
    NoSub = NoSub
    MaxTime = 5
INVARIANTS
    CacheAgrees
PROPERTIES
    DueIsSettled
