\* One connector, all operations, two requests at a time and the discovery task, with OAuth and
\* static credentials.
SPECIFICATION Spec
CONSTANTS
    Connector = {c1}
    Worker = {w1}
    Request = {r1, r2}
    Operations = {"create", "patch", "put", "reauthorize", "discover", "toggle", "publish", "unpublish", "delete", "grant"}
    Configuration = {static, oauth}
    Auth <- MCAuthStaticOAuth
    Token <- MCTokenFew
    Prefix = {p1}
    Tool = {t1}
    PublicName <- MCPublicName
    Native = {}
    Missing = Missing
    MaxConcurrency = 1
    MaxEvents = 3
    MaxGeneration = 3
    open = open
    static = static
    oauth = oauth
    anonymous = anonymous
    bearer1 = bearer1
    bearer2 = bearer2
    grant1 = grant1
    grant2 = grant2
    p1 = p1
    p2 = p2
    t1 = t1
    t2 = t2
    n1 = n1
    n2 = n2
    n3 = n3
INVARIANT ConnectorsInv
PROPERTY ToolChoicesSurviveFailedDiscovery
PROPERTY CatalogComesFromCurrentConfiguration
SYMMETRY RequestSymmetry
