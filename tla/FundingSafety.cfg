SPECIFICATION Spec
CONSTANTS
    Project = {p1}
    Profile = {u1, u2}
    Contribution = {1, 2}
    Request = {r1, r2}
    Admin = {a1}
    Page = {g1, g2}
    Target <- TargetTwo
    MinFund <- One
    ReleasePrice <- One
    Entered = {0, 2}
    Savings = 2
    Clawed = 4
    NoProject = NoProject
    NoProfile = NoProfile
SYMMETRY Symmetry
INVARIANTS
    CollectedAccounted
    MoneyIsReturned
