\* One session of alice and two streams, in a directory she may lose the right
\* to write in; two files at a time.
SPECIFICATION FairUploadSpec
CONSTANTS
    Node = {root, n1}
    Root = root
    Name = {a}
    alice = alice
    bob = bob
    good = good
    other = other
    User = {alice}
    Group = {}
    System = System
    None = None
    Lost = Lost
    Identity <- TheIdentities
    Offers <- TheOffers
    Client = {c1}
    MaxRevision <- NoRevisions
    MaxDirectories = 1
    MaxGrants = 1
    Upload = {u1}
    Task = {t1, t2}
    Body = {good, other}
    Expectations <- TheExpectations
INVARIANTS
    UploadInv
PROPERTIES
    WritersAddFiles
    ImplementsPromise
    ClaimsAreSettled
CHECK_DEADLOCK FALSE
