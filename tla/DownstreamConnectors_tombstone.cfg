\* An edit in flight while its connector is deleted.
SPECIFICATION Spec
CONSTANTS
    Connector = {c1}
    Worker = {w1}
    Request = {r1, r2}
    Operations = {"create", "put", "delete"}
    Configuration = {open}
    Auth <- MCAuthOpen
    Token <- MCToken
    Prefix = {p1}
    Tool = {t1}
    PublicName <- MCPublicName
    Native = {}
    Missing = Missing
    MaxConcurrency = 1
    MaxEvents = 4
    MaxGeneration = 0
    open = open
    static = static
    oauth = oauth
    anonymous = anonymous
    bearer1 = bearer1
    bearer2 = bearer2
    grant1 = grant1
    grant2 = grant2
    p1 = p1
    p2 = p2
    t1 = t1
    t2 = t2
    n1 = n1
    n2 = n2
    n3 = n3
PROPERTY DeletedIdentityStaysDeleted
