---------------------------- MODULE RequestCache ----------------------------
(***************************************************************************)
(* RequestCache (core/caching/request_cache.py): tasks of one event loop   *)
(* read keys through a key-value driver, one load per key at a time.       *)
(*                                                                         *)
(* The first task that reads a key owns a future that later readers wait   *)
(* for.  It looks the key up under its generation, calls the loader on a   *)
(* miss, stores what that returns, and answers everybody.  Invalidation    *)
(* forgets the future and the generation, but interrupts nothing: a load   *)
(* in flight goes on, and writes under an address that no one reads again. *)
(*                                                                         *)
(* A future is named after its owner: it has no waiters any more when the  *)
(* owner begins another one.  Values are versions of a source the loaders  *)
(* read; a stored version is at least 1.                                   *)
(***************************************************************************)
EXTENDS Integers, FiniteSets

CONSTANTS
    Key, Task,
    None,
    MaxVersion,     \* bound: versions of a source
    MaxGenerations  \* bound: generations issued

Generation == 1 .. MaxGenerations
Call == [key : Key, since : Nat]

ASSUME CacheAssumption ==
    /\ None \notin Task /\ None \notin Call
    /\ MaxVersion \in Nat /\ MaxGenerations \in Nat

VARIABLES
    source, valid, call, answer,    \* as in ReadThrough; valid and the field
                                    \* since are history, no code reads them
    generation,     \* generation[k], 0 if there is none (_generations)
    issued,         \* generations issued so far (uuid4)
    pending,        \* the owner of the future pending for k, or None
    driver,         \* driver[k, g]: the version stored, 0 for a miss
    pc,             \* what a task waits for
    address,        \* the generation in an owner's storage_key
    value,          \* what an owner or a waiter has received
    leader          \* the owner a waiter waits for

outside == <<source, valid, answer>>
vars == <<outside, call, generation, issued, pending, driver, pc, address, value, leader>>

Owning == {"lookup", "load", "loaded", "set", "stored"}
Loading == {"load", "loaded", "set"}
KeyOf(t) == call[t].key

Init ==
    /\ source = [k \in Key |-> 1]
    /\ valid = [k \in Key |-> 1]
    /\ call = [t \in Task |-> None]
    /\ answer = [t \in Task |-> 0]
    /\ generation = [k \in Key |-> 0]
    /\ issued = 0
    /\ pending = [k \in Key |-> None]
    /\ driver = [k \in Key |-> [g \in Generation |-> 0]]
    /\ pc = [t \in Task |-> "idle"]
    /\ address = [t \in Task |-> 0]
    /\ value = [t \in Task |-> 0]
    /\ leader = [t \in Task |-> None]

-----------------------------------------------------------------------------
(* Whatever the loaders read changes, and someone invalidates what depends *)
(* on it.                                                                  *)

Change(k) ==
    /\ source[k] < MaxVersion
    /\ source' = [source EXCEPT ![k] = @ + 1]
    /\ UNCHANGED <<valid, answer, call, generation, issued, pending, driver, pc, address,
                   value, leader>>

(* invalidate, and clear if K is Key. *)
Invalidate(K) ==
    /\ pending' = [k \in Key |-> IF k \in K THEN None ELSE pending[k]]
    /\ generation' = [k \in Key |-> IF k \in K THEN 0 ELSE generation[k]]
    /\ valid' = [k \in Key |-> IF k \in K THEN source[k] ELSE valid[k]]
    /\ UNCHANGED <<source, answer, call, issued, driver, pc, address, value, leader>>

-----------------------------------------------------------------------------
(* get_or_load.                                                            *)

Calls(t, k) ==
    /\ call' = [call EXCEPT ![t] = [key |-> k, since |-> valid[k]]]
    /\ answer' = [answer EXCEPT ![t] = 0]
Goes(t, step) == pc' = [pc EXCEPT ![t] = step]

\* Mutant: every reader loads for itself.
BeginAlone(t, k) ==
    /\ pc[t] = "idle"
    /\ generation[k] # 0 \/ issued < MaxGenerations
    /\ Calls(t, k)
    /\ Goes(t, "lookup")
    /\ pending' = [pending EXCEPT ![k] = t]
    /\ issued' = IF generation[k] = 0 THEN issued + 1 ELSE issued
    /\ generation' = [generation EXCEPT ![k] = IF @ = 0 THEN issued + 1 ELSE @]
    /\ address' = [address EXCEPT ![t] = generation'[k]]
    /\ UNCHANGED <<source, valid, driver, value, leader>>

(* _load and _storage_key: the future is pending, the generation captured, *)
(* before anything is awaited.                                             *)
BeginOwn(t, k) ==
    /\ pc[t] = "idle"
    /\ pending[k] = None
    /\ generation[k] # 0 \/ issued < MaxGenerations
    /\ Calls(t, k)
    /\ Goes(t, "lookup")
    /\ pending' = [pending EXCEPT ![k] = t]
    /\ issued' = IF generation[k] = 0 THEN issued + 1 ELSE issued
    /\ generation' = [generation EXCEPT ![k] = IF @ = 0 THEN issued + 1 ELSE @]
    /\ address' = [address EXCEPT ![t] = generation'[k]]
    /\ UNCHANGED <<source, valid, driver, value, leader>>

BeginWait(t, k) ==
    /\ pc[t] = "idle"
    /\ pending[k] # None
    /\ Calls(t, k)
    /\ Goes(t, "wait")
    /\ leader' = [leader EXCEPT ![t] = pending[k]]
    /\ UNCHANGED <<source, valid, generation, issued, pending, driver, address, value>>

Lookup(t) ==
    /\ pc[t] = "lookup"
    /\ LET stored == driver[KeyOf(t)][address[t]] IN
         /\ Goes(t, IF stored = 0 THEN "load" ELSE "stored")
         /\ value' = [value EXCEPT ![t] = stored]
    /\ UNCHANGED <<outside, call, generation, issued, pending, driver, address, leader>>

LoaderReads(t) ==
    /\ pc[t] = "load"
    /\ Goes(t, "loaded")
    /\ value' = [value EXCEPT ![t] = source[KeyOf(t)]]
    /\ UNCHANGED <<outside, call, generation, issued, pending, driver, address, leader>>

(* The loader returns to a load that is still the pending one. *)
LoaderReturns(t) ==
    /\ pc[t] = "loaded"
    /\ pending[KeyOf(t)] = t
    /\ Goes(t, "set")
    /\ UNCHANGED <<outside, call, generation, issued, pending, driver, address, value, leader>>

\* Mutant: the storage key is made when the value is stored.
StoreUnderCurrentKey(t) ==
    /\ pc[t] = "set"
    /\ Goes(t, "stored")
    /\ generation[KeyOf(t)] # 0
    /\ driver' = [driver EXCEPT ![KeyOf(t)][generation[KeyOf(t)]] = value[t]]
    /\ UNCHANGED <<outside, call, generation, issued, pending, address, value, leader>>

Store(t) ==
    /\ pc[t] = "set"
    /\ Goes(t, "stored")
    /\ driver' = [driver EXCEPT ![KeyOf(t)][address[t]] = value[t]]
    /\ UNCHANGED <<outside, call, generation, issued, pending, address, value, leader>>

-----------------------------------------------------------------------------
(* The end of a load.                                                      *)

Waiters(t) == { u \in Task : leader[u] = t }

(* The owner is gone, those who have heard of it have an outcome. *)
Settles(t, heard, outcome) ==
    /\ pc' = [u \in Task |-> IF u = t THEN "idle" ELSE IF u \in heard THEN outcome ELSE pc[u]]
    /\ leader' = [u \in Task |-> IF u \in heard THEN None ELSE leader[u]]
    /\ call' = [call EXCEPT ![t] = None]
    /\ address' = [address EXCEPT ![t] = 0]
    /\ pending' = [k \in Key |-> IF k = KeyOf(t) /\ pending[k] = t THEN None ELSE pending[k]]
    /\ UNCHANGED <<source, valid, issued, driver>>

Answers(t, heard) ==
    /\ pc[t] = "stored" \/ (pc[t] = "loaded" /\ pending[KeyOf(t)] # t)
    /\ Settles(t, heard, "answered")
    /\ answer' = [answer EXCEPT ![t] = value[t]]
    /\ value' = [u \in Task |-> IF u = t THEN 0 ELSE IF u \in heard THEN value[t] ELSE value[u]]
    /\ UNCHANGED generation

\* Mutant: a load that was invalidated meanwhile answers its caller only.
CompletePending(t) == Answers(t, IF pending[KeyOf(t)] = t THEN Waiters(t) ELSE {})

(* The future gets its result, and the owner returns it.  A load that was  *)
(* invalidated before the loader returned is not stored.                   *)
Complete(t) == Answers(t, Waiters(t))

(* The driver or the loader raises, or the owner is cancelled: so are its  *)
(* waiters.  A driver may have stored the value and raise nevertheless.    *)
Abandon(t) ==
    /\ pc[t] \in Owning
    /\ Settles(t, Waiters(t), "failed")
    /\ generation' = [k \in Key |-> IF k = KeyOf(t) /\ pending[k] = t THEN 0 ELSE generation[k]]
    /\ value' = [value EXCEPT ![t] = 0]
    /\ UNCHANGED answer

Returns(t) ==
    /\ Goes(t, "idle")
    /\ call' = [call EXCEPT ![t] = None]
    /\ value' = [value EXCEPT ![t] = 0]
    /\ leader' = [leader EXCEPT ![t] = None]
    /\ UNCHANGED <<source, valid, generation, issued, pending, driver, address>>

(* A waiter resumes. *)
Resume(t) ==
    /\ pc[t] \in {"answered", "failed"}
    /\ Returns(t)
    /\ answer' = IF pc[t] = "answered" THEN [answer EXCEPT ![t] = value[t]] ELSE answer

(* A waiter is cancelled: the future is shielded from it. *)
Leave(t) ==
    /\ pc[t] \in {"wait", "answered", "failed"}
    /\ Returns(t)
    /\ UNCHANGED answer

Progress(t) ==
    \/ Lookup(t) \/ LoaderReads(t) \/ LoaderReturns(t) \/ Store(t) \/ Complete(t) \/ Resume(t)

Next ==
    \/ \E k \in Key : Change(k) \/ Invalidate({k})
    \/ Invalidate(Key)
    \/ \E t \in Task : Progress(t) \/ Abandon(t) \/ Leave(t)
    \/ \E t \in Task, k \in Key : BeginOwn(t, k) \/ BeginWait(t, k)

Spec == Init /\ [][Next]_vars

(* Drivers and loaders answer, and the event loop resumes who was answered. *)
FairSpec == Spec /\ \A t \in Task : WF_vars(Progress(t))

-----------------------------------------------------------------------------
(* Properties.                                                             *)

TypeOK ==
    /\ source \in [Key -> Nat \ {0}] /\ valid \in [Key -> Nat]
    /\ call \in [Task -> Call \cup {None}]
    /\ answer \in [Task -> Nat]
    /\ generation \in [Key -> Generation \cup {0}]
    /\ issued \in 0 .. MaxGenerations
    /\ pending \in [Key -> Task \cup {None}]
    /\ driver \in [Key -> [Generation -> Nat]]
    /\ pc \in [Task -> {"idle", "wait", "answered", "failed"} \cup Owning]
    /\ address \in [Task -> Generation \cup {0}]
    /\ value \in [Task -> Nat]
    /\ leader \in [Task -> Task \cup {None}]
    /\ \A t \in Task : /\ pc[t] = "idle" <=> call[t] = None
                       /\ pc[t] = "wait" <=> leader[t] # None
                       /\ pc[t] \in Owning <=> address[t] # 0

(* One load per key and generation: no two tasks own the same address,     *)
(* nothing is stored at an address while it is loaded, and a generation    *)
(* that outlives its load has a value, which no failed load leaves behind. *)
SharedLoads ==
    /\ \A t, u \in Task : pc[t] \in Owning /\ pc[u] \in Owning /\ t # u =>
         KeyOf(t) # KeyOf(u) \/ address[t] # address[u]
    /\ \A t \in Task : pc[t] \in Loading => driver[KeyOf(t)][address[t]] = 0
    /\ \A k \in Key : generation[k] # 0 /\ pending[k] = None =>
         driver[k][generation[k]] # 0

(* A task that waits, waits for a task that is loading the same key, no    *)
(* newer than itself: no one is left behind by an invalidation.            *)
WaitersHaveLeaders ==
    \A t \in Task : pc[t] = "wait" =>
        /\ leader[t] \in Task /\ pc[leader[t]] \in Owning
        /\ KeyOf(leader[t]) = KeyOf(t)
        /\ call[t].since = call[leader[t]].since

(* The pending future is that of the one owner whose address is current,   *)
(* and no invalidation has come between the two.                           *)
PendingInv ==
    /\ \A k \in Key : pending[k] # None =>
         /\ pc[pending[k]] \in Owning /\ KeyOf(pending[k]) = k
         /\ generation[k] # 0 /\ address[pending[k]] = generation[k]
         /\ call[pending[k]].since = valid[k]
    /\ \A t \in Task : pc[t] \in Owning =>
         /\ address[t] <= issued
         /\ address[t] = generation[KeyOf(t)] => pending[KeyOf(t)] = t
    /\ \A k \in Key : generation[k] <= issued

(* What is stored, or has been received, is no older than the invalidation *)
(* that its generation, or its reader, has followed.                       *)
FreshInv ==
    /\ \A k \in Key : valid[k] <= source[k]
    /\ \A k \in Key, g \in Generation :
         /\ driver[k][g] <= source[k]
         /\ driver[k][g] # 0 => g <= issued
         /\ driver[k][g] # 0 /\ generation[k] = g => driver[k][g] >= valid[k]
    /\ \A t \in Task : pc[t] # "idle" => call[t].since <= source[KeyOf(t)]
    /\ \A t \in Task : pc[t] \in Owning =>
         LET stored == driver[KeyOf(t)][address[t]] IN
             /\ stored # 0 => stored >= call[t].since
             /\ pc[t] = "stored" => stored # 0
    /\ \A t \in Task : pc[t] \in {"loaded", "set", "stored", "answered"} =>
         value[t] \in call[t].since .. source[KeyOf(t)] /\ value[t] # 0

IInv == TypeOK /\ SharedLoads /\ WaitersHaveLeaders /\ PendingInv /\ FreshInv

(* A read that begins after an invalidation never returns what was loaded  *)
(* before it, whatever is in flight.                                       *)
Promise == INSTANCE ReadThrough WITH
    Key <- Key,
    Task <- Task,
    None <- None,
    source <- source,
    valid <- valid,
    call <- call,
    answer <- answer

ImplementsReadThrough == Promise!Spec

(* No reader waits for ever, whoever fails, is cancelled or invalidates.   *)
EveryCallEnds == \A t \in Task : pc[t] # "idle" ~> pc[t] = "idle"
=============================================================================
