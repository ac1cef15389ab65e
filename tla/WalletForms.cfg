SPECIFICATION Spec
CONSTANTS
    Profile = {p1}
    Client = {c1, c2}
    Editor = {e1}
    Amount = {1, 2}
    NoClient = NoClient
    NoProfile = NoProfile
    MaxCalls = 2
    MaxBalance = 1
SYMMETRY Symmetry
INVARIANTS
    Isolation
PROPERTIES
    ImplementsLedger
