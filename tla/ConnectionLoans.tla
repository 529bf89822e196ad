---------------------------- MODULE ConnectionLoans ----------------------------
(***************************************************************************)
(* What a pool of connections promises: at most Size connections exist;    *)
(* each is lent to one borrower at a time and comes back before it is      *)
(* closed or lent again; a pool that has closed has none left.             *)
(***************************************************************************)
EXTENDS Naturals, FiniteSets

CONSTANTS Borrower, Connection, Size, None

VARIABLES
    phase,  \* "new", "open", "closing", "closed"
    live,   \* connections that have been opened and not been closed
    lent    \* what each borrower works with, or None

vars == <<phase, live, lent>>

Lent == {lent[b] : b \in Borrower}

Init ==
    /\ phase = "new"
    /\ live = {}
    /\ lent = [b \in Borrower |-> None]

\* Opened in advance, or to be discarded.
Open(c) ==
    /\ phase # "closed" /\ c \notin live
    /\ live' = live \cup {c}
    /\ Cardinality(live') =< Size
    /\ UNCHANGED <<phase, lent>>

\* Lending starts with all connections open.
Start(c) ==
    /\ phase = "new" /\ phase' = "open" /\ c \notin live
    /\ live' = live \cup {c}
    /\ Cardinality(live') = Size
    /\ UNCHANGED lent

\* One that is there, or one opened for the purpose.
Lend(b, c) ==
    /\ phase \in {"open", "closing"}
    /\ lent[b] = None /\ c \notin Lent
    /\ live' = live \cup {c}
    /\ Cardinality(live') =< Size
    /\ lent' = [lent EXCEPT ![b] = c]
    /\ UNCHANGED phase

Return(b) ==
    /\ lent[b] # None
    /\ lent' = [lent EXCEPT ![b] = None]
    /\ UNCHANGED <<phase, live>>

Close(c) ==
    /\ c \in live /\ c \notin Lent
    /\ live' = live \ {c}
    /\ UNCHANGED <<phase, lent>>

Stop ==
    /\ phase \in {"new", "open"} /\ phase' = "closing"
    /\ UNCHANGED <<live, lent>>

Stopped ==
    /\ phase = "closing" /\ live = {}
    /\ phase' = "closed"
    /\ UNCHANGED <<live, lent>>

Next ==
    \/ \E c \in Connection : Open(c) \/ Start(c) \/ Close(c)
    \/ \E b \in Borrower : Return(b) \/ \E c \in Connection : Lend(b, c)
    \/ Stop \/ Stopped

Spec == Init /\ [][Next]_vars
=============================================================================
