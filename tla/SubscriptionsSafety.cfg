SPECIFICATION Spec
CONSTANTS
    Profile = {p1}
    Plan = {basic}
    Sub = {1, 2}
    Worker = {w1, w2}
    Tab = {}
    Canceller = {a1}
    Form = {f1}
    Gifted = {p1}
    Days <- OneDay
    Prices = {0, 1}
    Coins = 4
    NoProfile = NoProfile
    NoPlan = NoPlan
    NoSub = NoSub
    MaxTime = 4
INVARIANTS
    OneActive
    TimeIsPaid
    PeriodsDoNotOverlap
