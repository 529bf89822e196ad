\* One key that three tasks read: an old load, a new one, and a waiter for
\* either; the source changes once.
SPECIFICATION FairSpec
CONSTANTS
    Key = {k1}
    Task = {t1, t2, t3}
    None = None
    MaxVersion = 2
    MaxGenerations = 2
INVARIANTS
    SharedLoads
PROPERTIES
    ImplementsReadThrough
    EveryCallEnds
