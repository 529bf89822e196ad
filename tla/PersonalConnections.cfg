\* One user; an old call and a new one.
SPECIFICATION FairSpec
CONSTANTS
    User = {alice}
    Flow = {f1, f2}
    None = None
    MaxRevision = 4
    MaxAttempts = 2
    MaxConfigurations = 2
    MaxInventories = 1
INVARIANTS
    PersonalInv
    ListingIsTrue
PROPERTIES
    TokensAreNotResent
    WithdrawnAttemptsInstallNothing
    NoLockout
CHECK_DEADLOCK FALSE
