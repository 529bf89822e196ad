\* Two callers and a client share a root and two more nodes.
SPECIFICATION Spec
CONSTANTS
    Node = {root, n1, n2}
    Root = root
    Name = {a, b}
    alice = alice
    bob = bob
    staff = staff
    User = {alice, bob}
    Group = {staff}
    System = System
    None = None
    Identity <- TheIdentities
    Offers <- TheOffers
    Client = {c1}
    MaxRevision <- MaxRevisions
    MaxDirectories = 3
    MaxGrants = 1
SYMMETRY TheSymmetry
VIEW TheView
INVARIANTS
    NamespaceInv
    SharingInv
    RevisionsIdentifyVersions
PROPERTIES
    NoLaterGrantLost
    ChangesAreAnnounced
CHECK_DEADLOCK FALSE
