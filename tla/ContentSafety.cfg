SPECIFICATION Spec
CONSTANTS
    Episode = {e1}
    Editor = {a1}
    Worker = {w1, w2}
    Guid = {g1, g2}
    File = {f1, f2}
    NoEpisode = NoEpisode
    NoGuid = NoGuid
    NoFile = NoFile
    MaxTasks = 2
    MaxNews = 1
    u1 = u1
    u2 = u2
    t1 = t1
    t2 = t2
    t3 = t3
    User = {u1, u2}
    Tab = {t1, t2, t3}
    Owner <- MCOwner
    Moderator = {m1}
    Review = {c1, c2}
    Disputed = {c1}
    Blocks <- MCBlocks
    AUTO_HIDE_THRESHOLD = 2
    NoUser = NoUser
    NoReview = NoReview
SYMMETRY Symmetry
CONSTRAINT Undisturbed
INVARIANTS
    
    ToldOnce
    LikesNotOverstated
    HiddenWhenDue
