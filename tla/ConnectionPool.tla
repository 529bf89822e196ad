---------------------------- MODULE ConnectionPool ----------------------------
(***************************************************************************)
(* The connection pool (infrastructure/connections/pool.py).  Tasks of one *)
(* event loop borrow connections; owners initialize and close the pool.    *)
(* They are interleaved where the code awaits: the lifecycle lock is held  *)
(* over such places, the condition's lock is not, as wait_for gives it up. *)
(*                                                                         *)
(* A task is one use of get_connection.  It may be cancelled wherever it   *)
(* waits, what complete_cleanup shields excepted, and the driver may fail  *)
(* to connect, to reset and to close.                                      *)
(***************************************************************************)
EXTENDS Naturals, FiniteSets

CONSTANTS
    Task, Owner,
    Connection,   \* a closed connection's name may be used again
    Size,         \* the pool's size
    None

ASSUME PoolAssumption ==
    /\ Size \in Nat \ {0}
    /\ IsFiniteSet(Task) /\ IsFiniteSet(Owner) /\ Task \cap Owner = {}
    /\ None \notin Connection \cup Owner

VARIABLES
    state,      \* _state
    available,  \* _available
    borrowed,   \* _borrowed
    lifecycle,  \* the owner with the lifecycle lock, or None
    live,       \* history: the driver's open connections
    dirty,      \* history: those that were used and not reset since
    at,         \* where each task and owner is
    holds,      \* the connection it has in hand, or None
    kept        \* connections that an owner has opened, or is to close

pool == <<state, available, borrowed, lifecycle>>
driver == <<live, dirty>>
vars == <<pool, driver, at, holds, kept>>

Process == Task \cup Owner

\* Task: get_connection evaluates its condition, sleeps in wait_for, lets its
\* caller use the connection, resets it, gives the capacity back.  Owner:
\* initialize and close wait for the lifecycle lock; _close waits for the
\* borrowers, asleep or evaluating.  Both: open, discard, close a connection.
TaskStep == {"new", "asking", "waiting", "using", "resetting", "returning"}
OwnerStep == {"new", "initializing", "stopping", "draining", "checking", "clearing"}
Step == TaskStep \cup OwnerStep \cup {"opening", "discarding", "closing", "done"}

\* Where a task counts in _borrowed.
Reserved == {"opening", "discarding", "using", "resetting", "closing", "returning"}

Init ==
    /\ state = "NEW"
    /\ available = {} /\ borrowed = 0
    /\ lifecycle = None
    /\ live = {} /\ dirty = {}
    /\ at = [p \in Process |-> "new"]
    /\ holds = [p \in Process |-> None]
    /\ kept = [o \in Owner |-> {}]

Goes(p, step) == at' = [at EXCEPT ![p] = step]

\* notify_all.
Woken(step) == [p \in Process |-> IF step[p] = "waiting" THEN "asking"
                                  ELSE IF step[p] = "draining" THEN "checking"
                                  ELSE step[p]]

---------------------------------------------------------------------------
(* Opening a connection: _open_connection, for a task and for an owner.    *)

\* It has failed: a task gives its reservation back, initialize closes the
\* pool and what it has opened.
Fails(p) ==
    /\ Goes(p, IF p \in Task THEN "returning" ELSE "clearing")
    /\ state' = IF p \in Task THEN state ELSE "CLOSED"

Connects(p, c) ==
    /\ at[p] = "opening" /\ c \notin live
    /\ live' = live \cup {c}
    /\ IF p \in Task
        THEN /\ Goes(p, "using") /\ holds' = [holds EXCEPT ![p] = c]
             /\ UNCHANGED <<pool, kept>>
        ELSE /\ UNCHANGED <<holds, borrowed>>
             /\ IF Cardinality(kept[p] \cup {c}) < Size
                 THEN /\ kept' = [kept EXCEPT ![p] = @ \cup {c}]
                      /\ UNCHANGED <<pool, at>>
                 ELSE /\ state' = "OPEN" /\ available' = kept[p] \cup {c}
                      /\ lifecycle' = None
                      /\ kept' = [kept EXCEPT ![p] = {}] /\ Goes(p, "done")
    /\ UNCHANGED dirty

\* Mutant: the reservation is forgotten.
ConnectFailsQuietly(p) ==
    /\ at[p] \in {"opening", "discarding"}
    /\ IF p \in Task THEN Goes(p, "done") /\ UNCHANGED state ELSE Fails(p)
    /\ UNCHANGED <<available, borrowed, lifecycle, driver, holds, kept>>

ConnectFails(p) ==
    /\ at[p] \in {"opening", "discarding"}
    /\ Fails(p)
    /\ UNCHANGED <<available, borrowed, lifecycle, driver, holds, kept>>

\* Cancelled: the connection comes nevertheless, and has to be closed.
Discard(p) ==
    /\ at[p] = "opening"
    /\ Goes(p, "discarding")
    /\ UNCHANGED <<pool, driver, holds, kept>>

DiscardConnects(p, c) ==
    /\ at[p] = "discarding" /\ c \notin live
    /\ live' = live \cup {c}
    /\ holds' = [holds EXCEPT ![p] = c]
    /\ Goes(p, "closing")
    /\ UNCHANGED <<pool, dirty, kept>>

\* driver.close: that it fails changes nothing, the connection is given up.
Close(p) ==
    /\ at[p] = "closing"
    /\ live' = live \ {holds[p]} /\ dirty' = dirty \ {holds[p]}
    /\ holds' = [holds EXCEPT ![p] = None]
    /\ Fails(p)
    /\ UNCHANGED <<available, borrowed, lifecycle, kept>>

---------------------------------------------------------------------------
(* Borrowing: get_connection.                                              *)

Ask(t) ==
    /\ at[t] = "new"
    /\ Goes(t, "asking")
    /\ UNCHANGED <<pool, driver, holds, kept>>

Refused(t) ==
    /\ at[t] = "asking" /\ state # "OPEN"
    /\ Goes(t, "done")
    /\ UNCHANGED <<pool, driver, holds, kept>>

Wait(t) ==
    /\ at[t] = "asking" /\ state = "OPEN" /\ borrowed = Size
    /\ Goes(t, "waiting")
    /\ UNCHANGED <<pool, driver, holds, kept>>

\* The task is cancelled, or its timeout passes, before it has a reservation.
GiveUp(t) ==
    /\ at[t] \in {"asking", "waiting"}
    /\ Goes(t, "done")
    /\ UNCHANGED <<pool, driver, holds, kept>>

MayReserve(t) == at[t] = "asking" /\ state = "OPEN" /\ borrowed < Size

Borrow(t, c) ==
    /\ MayReserve(t)
    /\ c \in available /\ available' = available \ {c}
    /\ borrowed' = borrowed + 1
    /\ holds' = [holds EXCEPT ![t] = c]
    /\ Goes(t, "using")
    /\ UNCHANGED <<state, lifecycle, driver, kept>>

BorrowNew(t) ==
    /\ MayReserve(t) /\ available = {}
    /\ borrowed' = borrowed + 1
    /\ Goes(t, "opening")
    /\ UNCHANGED <<state, available, lifecycle, driver, holds, kept>>

Use(t) ==
    /\ at[t] = "using"
    /\ dirty' = dirty \cup {holds[t]}
    /\ UNCHANGED <<pool, live, at, holds, kept>>

\* The caller's block ends, raises or is cancelled: _release.
Leave(t) ==
    /\ at[t] = "using"
    /\ Goes(t, "resetting")
    /\ UNCHANGED <<pool, driver, holds, kept>>

ResetSucceeds(t) ==
    /\ at[t] = "resetting"
    /\ dirty' = dirty \ {holds[t]}
    /\ available' = available \cup {holds[t]}
    /\ holds' = [holds EXCEPT ![t] = None]
    /\ Goes(t, "returning")
    /\ UNCHANGED <<state, borrowed, lifecycle, live, kept>>

ResetFails(t) ==
    /\ at[t] = "resetting"
    /\ Goes(t, "closing")
    /\ UNCHANGED <<pool, driver, holds, kept>>

\* Mutant: nobody is told.
ReturnQuietly(t) ==
    /\ at[t] = "returning"
    /\ borrowed' = borrowed - 1
    /\ Goes(t, "done")
    /\ UNCHANGED <<state, available, lifecycle, driver, holds, kept>>

\* _return_capacity.
ReturnCapacity(t) ==
    /\ at[t] = "returning"
    /\ borrowed' = borrowed - 1
    /\ at' = Woken([at EXCEPT ![t] = "done"])
    /\ UNCHANGED <<state, available, lifecycle, driver, holds, kept>>

---------------------------------------------------------------------------
(* The pool's owners.                                                      *)

Call(o, what) ==
    /\ at[o] = "new"
    /\ Goes(o, what)
    /\ UNCHANGED <<pool, driver, holds, kept>>

\* initialize is cancelled while it waits for the lock.
Forsake(o) ==
    /\ at[o] = "initializing"
    /\ Goes(o, "done")
    /\ UNCHANGED <<pool, driver, holds, kept>>

Initialize(o) ==
    /\ at[o] = "initializing" /\ lifecycle = None
    /\ IF state = "NEW"
        THEN lifecycle' = o /\ Goes(o, "opening")
        ELSE UNCHANGED lifecycle /\ Goes(o, "done")
    /\ UNCHANGED <<state, available, borrowed, driver, holds, kept>>

\* Mutant: what is borrowed is not waited for.
DrainIdle(o, step) ==
    /\ kept' = [kept EXCEPT ![o] = available] /\ available' = {}
    /\ at' = [step EXCEPT ![o] = "clearing"]

\* _close waits until nothing is borrowed and takes what is available.
Drain(o, step) ==
    IF borrowed = 0
    THEN /\ kept' = [kept EXCEPT ![o] = available] /\ available' = {}
         /\ at' = [step EXCEPT ![o] = "clearing"]
    ELSE at' = [step EXCEPT ![o] = "draining"] /\ UNCHANGED <<kept, available>>

Stop(o) ==
    /\ at[o] = "stopping" /\ lifecycle = None
    /\ IF state = "CLOSED"
        THEN Goes(o, "done") /\ UNCHANGED <<pool, kept>>
        ELSE /\ lifecycle' = o /\ state' = "CLOSING"
             /\ Drain(o, Woken(at))
             /\ UNCHANGED borrowed
    /\ UNCHANGED <<driver, holds>>

CheckDrained(o) ==
    /\ at[o] = "checking"
    /\ Drain(o, at)
    /\ UNCHANGED <<state, borrowed, lifecycle, driver, holds>>

\* _close_connections, one after the other in any order.
CloseKept(o, c) ==
    /\ at[o] = "clearing" /\ c \in kept[o]
    /\ live' = live \ {c} /\ dirty' = dirty \ {c}
    /\ kept' = [kept EXCEPT ![o] = @ \ {c}]
    /\ UNCHANGED <<pool, at, holds>>

Cleared(o) ==
    /\ at[o] = "clearing" /\ kept[o] = {}
    /\ state' = "CLOSED" /\ lifecycle' = None
    /\ Goes(o, "done")
    /\ UNCHANGED <<available, borrowed, driver, holds, kept>>

---------------------------------------------------------------------------

Opens(p) ==
    \/ \E c \in Connection : Connects(p, c) \/ DiscardConnects(p, c)
    \/ ConnectFails(p) \/ Close(p)

Borrows(t) ==
    \/ Opens(t)
    \/ Refused(t) \/ Wait(t)
    \/ \E c \in Connection : Borrow(t, c)
    \/ BorrowNew(t) \/ Leave(t) \/ ResetSucceeds(t) \/ ResetFails(t)
    \/ ReturnCapacity(t)

Owns(o) ==
    \/ Opens(o)
    \/ Initialize(o) \/ Stop(o) \/ CheckDrained(o)
    \/ \E c \in Connection : CloseKept(o, c)
    \/ Cleared(o)

\* What nobody has to do: to call, to use, to cancel.
Calls ==
    \/ \E t \in Task : Ask(t) \/ Use(t) \/ GiveUp(t)
    \/ \E p \in Process : Discard(p)
    \/ \E o \in Owner : Forsake(o) \/ \E what \in {"initializing", "stopping"} : Call(o, what)

Next == (\E t \in Task : Borrows(t)) \/ (\E o \in Owner : Owns(o)) \/ Calls

Spec == Init /\ [][Next]_vars

\* The driver answers, a borrower's block ends, and the loop runs who can run.
FairSpec == Spec /\ (\A t \in Task : WF_vars(Borrows(t)))
                 /\ (\A o \in Owner : WF_vars(Owns(o)))

---------------------------------------------------------------------------
(* Properties.                                                             *)

TypeOK ==
    /\ state \in {"NEW", "OPEN", "CLOSING", "CLOSED"}
    /\ available \subseteq Connection
    /\ borrowed \in Nat
    /\ lifecycle \in Owner \cup {None}
    /\ live \subseteq Connection /\ dirty \subseteq Connection
    /\ at \in [Process -> Step]
    /\ holds \in [Process -> Connection \cup {None}]
    /\ kept \in [Owner -> SUBSET Connection]

\* The capacity is that of the tasks with a reservation, no more and no less,
\* whatever was cancelled and whatever failed (get_connection, _release).
CapacityIsKept == borrowed = Cardinality({t \in Task : at[t] \in Reserved})

\* Nothing of one borrower's transaction reaches the next: what is available
\* has been reset (_release).
AvailableIsClean == available \cap dirty = {}

\* What the pool knows of its connections is true at every await.
PoolInv == TypeOK /\ CapacityIsKept /\ AvailableIsClean

\* An initialization that has failed is the beginning of the end.
Phase ==
    CASE state = "NEW" -> IF \E o \in Owner : at[o] \in {"discarding", "closing"}
                          THEN "closing" ELSE "new"
      [] state = "OPEN" -> "open"
      [] state = "CLOSING" -> "closing"
      [] state = "CLOSED" -> IF lifecycle = None THEN "closed" ELSE "closing"

LentTo == [t \in Task |-> IF at[t] = "using" THEN holds[t] ELSE None]

Loans == INSTANCE ConnectionLoans WITH
    Borrower <- Task,
    Connection <- Connection,
    Size <- Size,
    None <- None,
    phase <- Phase,
    live <- live,
    lent <- LentTo

\* The pool keeps a pool's promise (ConnectionPool).
ImplementsLoans == Loans!Spec

\* Who waits for a connection gets one, or an error: no wake-up is lost, no
\* capacity.
EveryRequestEnds == \A t \in Task : at[t] = "asking" ~> at[t] \in {"using", "done"}

\* close returns, with whatever failing and being cancelled at the time.
ClosingEnds == \A o \in Owner : at[o] = "stopping" ~> at[o] = "done"

\* Nobody waits for the pool for ever.
PoolIsLive == EveryRequestEnds /\ ClosingEnds
=============================================================================
