\* Three listeners.
SPECIFICATION FairHostSpec
CONSTANT N = 3
INVARIANTS
    ListenersInv
PROPERTIES
    ReadyMeansListening
    ProcessEnds
CHECK_DEADLOCK FALSE
