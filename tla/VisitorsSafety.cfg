SPECIFICATION Spec
CONSTANTS
    u1 = u1
    u2 = u2
    c1 = c1
    m1 = m1
    m2 = m2
    m3 = m3
    drama = drama
    comedy = comedy
    tag = tag
    User = {u1, u2}
    Tab = {t1, t2}
    Owner <- MCOwner
    Movie = {m1, m2}
    Token = {k1, k2}
    Chat = {chat1, chat2}
    Hook = {w1, w2}
    NoUser = NoUser
    NoChat = NoChat
    NoToken = NoToken
    Person = {p1, p2}
    Email = {"ALI@x", "ali@x", "vali@x"}
    Lower <- MCLower
    Uid = {i1}
    Form = {f1}
    Login = {l1, l2}
    NoPerson = NoPerson
    NoEmail = "none"
    Collection = {c1}
    Holder <- MCHolder
    MAX_ITEMS = 2
    MaxUpdates = 2
    NoCollection = NoCollection
    Absent = Absent
    Genre = {drama, comedy}
    Genres <- MCGenres
    Tags <- MCTags
    Country <- MCCountry
    limit = 2
    Missing = Missing
    x1 = x1
    n1 = n1
    Film = {f3}
    Player = {a1}
    Text = {x1, x2}
    Name = {n1, n2}
    Indexer = {o1, o2}
    NoFilm = NoFilm
    Gone = Gone
    MaxJobs = 2
    Phrase = {h1, h2}
    Word = {y1, y2}
    Empty = Empty
    MaxEdits = 2
    MaxTranslations = 2
    Problem = {backlog, CacheDown}
    CacheDown = CacheDown
    Monitor = {d1, d2}
    Cooldown = 2
    MaxRetries = 1
    MaxAlerts = 1
SYMMETRY Symmetry
CONSTRAINT Undisturbed
INVARIANTS
    LinksAreExclusive
    EveryoneCanReturn
    VerifiedIsOwned
    PageIsCurrent
    CarouselsAreCurrent
    FacetsAgree
    IndexIsCurrent
    TranslationsArrive
    HeldBackWhenTold
