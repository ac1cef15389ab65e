SPECIFICATION FairSpec
CONSTANTS
    Name = {facets, trending}
    Recomputed = {trending}
    Reader = {r1}
    Task = {t1}
    Saver = {s1}
    Updater = {u1}
    NoName = NoName
    MaxCatalog = 2
    MaxVersion = 3
INVARIANT
    FreshSinceBump
PROPERTY
    EventuallyCurrent
