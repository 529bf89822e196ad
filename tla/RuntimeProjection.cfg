SPECIFICATION FairSpec
CONSTANTS
    Worker = {w1}
    Store <- MCStore
    Transactions <- MCTransactions
    Stages <- MCStages
    Reads <- MCReads
    Downstream = "downstream"
    Retained = {"permissions"}
    BatchLimit = 2
    MaxCommits = 3
    MaxFaults = 1
INVARIANTS
    NoEventLost
    ReadyMeansReloaded
    QuietReadyWorkerIsCurrent
PROPERTIES
    BootstrapMissesNothing
    NoRollback
    EveryChangeIsServed
CHECK_DEADLOCK FALSE
