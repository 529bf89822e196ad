---------------------------- MODULE ReadThrough ----------------------------
(***************************************************************************)
(* What a request cache promises (core/caching/ports.py, ADR-010): a read  *)
(* answers with some version the source has had since the last             *)
(* invalidation of the key that came before the read, or fails.            *)
(***************************************************************************)
EXTENDS Integers

CONSTANTS Key, Task, None

VARIABLES
    source,     \* source[k]: the version of what k stands for
    valid,      \* valid[k]: that version when k was last invalidated
    call,       \* call[t]: the read that task t is making, or None
    answer      \* answer[t]: what the last read of t returned, 0 for none

vars == <<source, valid, call, answer>>

Init ==
    /\ source = [k \in Key |-> 1]
    /\ valid = [k \in Key |-> 1]
    /\ call = [t \in Task |-> None]
    /\ answer = [t \in Task |-> 0]

Change(k) ==
    /\ source' = [source EXCEPT ![k] = @ + 1]
    /\ UNCHANGED <<valid, call, answer>>

Invalidate(K) ==
    /\ valid' = [k \in Key |-> IF k \in K THEN source[k] ELSE valid[k]]
    /\ UNCHANGED <<source, call, answer>>

Begin(t, k) ==
    /\ call[t] = None
    /\ call' = [call EXCEPT ![t] = [key |-> k, since |-> valid[k]]]
    /\ answer' = [answer EXCEPT ![t] = 0]
    /\ UNCHANGED <<source, valid>>

Return(t) ==
    /\ call[t] # None
    /\ \E v \in call[t].since .. source[call[t].key] : answer' = [answer EXCEPT ![t] = v]
    /\ call' = [call EXCEPT ![t] = None]
    /\ UNCHANGED <<source, valid>>

Fail(t) ==
    /\ call[t] # None
    /\ call' = [call EXCEPT ![t] = None]
    /\ UNCHANGED <<source, valid, answer>>

Next ==
    \/ \E k \in Key : Change(k)
    \/ \E K \in SUBSET Key : Invalidate(K)
    \/ \E t \in Task : Return(t) \/ Fail(t) \/ \E k \in Key : Begin(t, k)

Spec == Init /\ [][Next]_vars
=============================================================================
