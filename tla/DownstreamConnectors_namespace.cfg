\* Names: two connectors, whose names collide across prefixes and with a native tool, an
\* administrator and the discovery task.
SPECIFICATION Spec
CONSTANTS
    Connector = {c1, c2}
    Worker = {w1}
    Request = {r1}
    Operations = {"create", "patch", "publish"}
    Configuration = {open}
    Auth <- MCAuthOpen
    Token <- MCToken
    Prefix = {p1, p2}
    Tool = {t1, t2}
    PublicName <- MCPublicName
    Native = {n3}
    Missing = Missing
    MaxConcurrency = 1
    MaxEvents = 5
    MaxGeneration = 0
    open = open
    static = static
    oauth = oauth
    anonymous = anonymous
    bearer1 = bearer1
    bearer2 = bearer2
    grant1 = grant1
    grant2 = grant2
    p1 = p1
    p2 = p2
    t1 = t1
    t2 = t2
    n1 = n1
    n2 = n2
    n3 = n3
INVARIANT PublishedNamesAreUnique
PROPERTY CatalogueChangesAreAnnounced
SYMMETRY Symmetry
