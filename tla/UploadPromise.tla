--------------------------- MODULE UploadPromise ---------------------------
(***************************************************************************)
(* What an upload session promises (core/filesystem/uploads/ports.py),     *)
(* without transactions, claims and streams: a session is filled, and      *)
(* becomes one file, the same for everybody who completes it.  A session   *)
(* with a delegated transfer is filled once.                               *)
(***************************************************************************)
CONSTANTS Upload, Node, Body, None

VARIABLES
    phase,  \* phase[s]: "none", "open", "filled", "done"
    once,   \* once[s]: the session has a delegated transfer
    kept,   \* kept[s]: the body the session holds, or None
    file,   \* file[s]: the node it has become, or None
    told    \* told[s]: the nodes that completions have answered

vars == <<phase, once, kept, file, told>>

Init ==
    /\ phase = [s \in Upload |-> "none"]
    /\ once = [s \in Upload |-> FALSE]
    /\ kept = [s \in Upload |-> None]
    /\ file = [s \in Upload |-> None]
    /\ told = [s \in Upload |-> {}]

Begin(s) ==
    /\ phase[s] = "none"
    /\ phase' = [phase EXCEPT ![s] = "open"]
    /\ \E b \in BOOLEAN : once' = [once EXCEPT ![s] = b]
    /\ UNCHANGED <<kept, file, told>>

Fill(s, body) ==
    /\ phase[s] = "open" \/ (phase[s] = "filled" /\ ~once[s])
    /\ phase' = [phase EXCEPT ![s] = "filled"]
    /\ kept' = [kept EXCEPT ![s] = body]
    /\ UNCHANGED <<once, file, told>>

Finish(s, n) ==
    /\ phase[s] = "filled"
    /\ \A r \in Upload : file[r] # n
    /\ phase' = [phase EXCEPT ![s] = "done"]
    /\ file' = [file EXCEPT ![s] = n]
    /\ told' = [told EXCEPT ![s] = {n}]
    /\ UNCHANGED <<once, kept>>

Next ==
    \E s \in Upload :
        \/ Begin(s)
        \/ \E body \in Body : Fill(s, body)
        \/ \E n \in Node : Finish(s, n)

Spec == Init /\ [][Next]_vars
=============================================================================
