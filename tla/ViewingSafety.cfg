SPECIFICATION Spec
CONSTANTS
    u1 = u1
    u2 = u2
    t1 = t1
    t2 = t2
    m1 = m1
    m2 = m2
    rose = rose
    crown = crown
    thistle = thistle
    User = {u1}
    Tab = {t1, t2}
    Owner <- MCOwner
    Movie = {m1, m2}
    Worker = {w1, w2}
    Score = {1}
    Status = {2, 3}
    Actor = {a1}
    Gift = {rose, crown, thistle}
    Price <- MCPrice
    Coins = 3
    Series = {m1}
    MaxEpisode = 3
    FREE_EPISODE_LIMIT = 1
    Vip = {m1}
    Funded = {}
    Superuser = {}
    Hosted <- MCHosted
    NoMovie = NoMovie
    NoScore = NoScore
    NoActor = NoActor
    NoTab = NoTab
    NoPage = NoPage
    MaxJobs = 1
    Cast = {a1}
    Picture = {k1, k2}
    Optimizer = {w1, w2}
    Deletable = {u1, m1}
    Backfilled = {u1}
    MaxShrinks = 1
    Member = {u1, u2}
    MaxFollows = 2
SYMMETRY Alike
CONSTRAINT Undisturbed
INVARIANTS
    RatingAgrees
    XpAccounted
    GiftsAccounted
    NextIsQueued
    
    LatestUploadShown
    FollowersAreTold
