\* Two connections for three tasks; one of two owners may initialize the pool
\* while the other closes it.
SPECIFICATION FairSpec
CONSTANTS
    Task = {t1, t2, t3}
    Owner = {o1, o2}
    Connection = {k1, k2, k3}
    Size = 2
    None = None
INVARIANTS
    PoolInv
PROPERTIES
    ImplementsLoans
    PoolIsLive
CHECK_DEADLOCK FALSE
