------------------------- MODULE RuntimeProjection -------------------------
(***************************************************************************)
(* The MCP workers' in-memory projections of the application database.     *)
(*                                                                         *)
(* Every write transaction that changes what discovery serves appends a    *)
(* change event to the durable stream (core/messaging/stores).  A worker   *)
(* reads the stream past its own checkpoint and, whatever the events say,  *)
(* reloads all of its projections, one after the other and one store read  *)
(* at a time, before it advances the checkpoint (mcp/messaging/            *)
(* projection.py).  Its discovery task reloads one of the projections, the *)
(* downstream MCP snapshot, on its own account (capability_notifications). *)
(* Requests are let through only while the health flag says ready.         *)
(*                                                                         *)
(* A store's content is represented by the sequence number of the last     *)
(* event that changed it, a loaded projection by the numbers of the stores *)
(* it was built from.                                                      *)
(***************************************************************************)
EXTENDS Integers, Sequences, FiniteSets

CONSTANTS
    Worker,         \* MCP processes
    Store,          \* what the projections are loaded from
    Transactions,   \* the sets of stores one write transaction changes; {}
                    \* stands for an event type that the readers filter out
    Stages,         \* the projections, in the order reconcile() reloads them
    Reads,          \* Reads[p]: the stores projection p reads, in order
    Downstream,     \* the projection that the discovery task reloads too
    Retained,       \* projections a failed reload leaves as they were
    BatchLimit,     \* events per poll
    MaxCommits,     \* bound: transactions in a behaviour
    MaxFaults       \* bound: failed reads, failed changes and crashes

Projection == { Stages[n] : n \in DOMAIN Stages }
Task == {"sync", "refresh"}

ASSUME ProjectionAssumption ==
    /\ Transactions \subseteq SUBSET Store
    /\ Stages \in Seq(Projection)
    /\ \A m, n \in DOMAIN Stages : Stages[m] = Stages[n] => m = n
    /\ Reads \in [Projection -> Seq(Store) \ {<<>>}]
    /\ Downstream \in Projection
    /\ Retained \subseteq Projection \ {Downstream}
    /\ BatchLimit \in Nat \ {0}
    /\ MaxCommits \in Nat
    /\ MaxFaults \in Nat

VARIABLES
    log,            \* log[i]: the stores changed by the transaction of event i
    committed,      \* committed[s]: the last event that changed store s
    mode,           \* what the worker's main task is doing
    ready,          \* RuntimeProjectionHealth.ready
    failed,         \* RuntimeProjectionHealth.failed
    checkpoint,     \* last processed sequence; last_applied_sequence with it
    cursor,         \* the `sequence' the running bootstrap or poll will save
    at,             \* index in Stages of the reload under way, 0 for none
    buffer,         \* buffer[w][t]: what task t has read of the current stage
    loaded,         \* loaded[w][p]: FALSE when p is empty or unavailable
    view,           \* view[w][p][j]: the version of store Reads[p][j] in p
    monitor,        \* holder of the discovery monitor's lock
    refresher,      \* the periodic discovery task
    faults          \* faults so far (bound only)

database == <<log, committed>>
sync == <<mode, ready, failed, checkpoint, cursor, at>>
projections == <<buffer, loaded, view, monitor>>
vars == <<database, sync, projections, refresher, faults>>

-----------------------------------------------------------------------------
(* The state of a process that has just started. *)

NotRead(p) == [j \in DOMAIN Reads[p] |-> 0]
Nothing == [p \in Projection |-> NotRead(p)]
NoneLoaded == [p \in Projection |-> FALSE]

Init ==
    /\ log = <<>>
    /\ committed = [s \in Store |-> 0]
    /\ mode = [w \in Worker |-> "down"]
    /\ ready = [w \in Worker |-> FALSE]
    /\ failed = [w \in Worker |-> FALSE]
    /\ checkpoint = [w \in Worker |-> 0]
    /\ cursor = [w \in Worker |-> 0]
    /\ at = [w \in Worker |-> 0]
    /\ buffer = [w \in Worker |-> [t \in Task |-> <<>>]]
    /\ loaded = [w \in Worker |-> NoneLoaded]
    /\ view = [w \in Worker |-> Nothing]
    /\ monitor = [w \in Worker |-> "free"]
    /\ refresher = [w \in Worker |-> "idle"]
    /\ faults = 0

-----------------------------------------------------------------------------
(* The database: one serialized transaction changes stores and appends its *)
(* event.                                                                  *)

Append1(S) ==
    /\ Len(log) < MaxCommits
    /\ log' = Append(log, S)
    /\ committed' = [s \in Store |-> IF s \in S THEN Len(log) + 1 ELSE committed[s]]

Commit(S) ==
    /\ Append1(S)
    /\ UNCHANGED <<sync, projections, refresher, faults>>

\* Mutant: the reader's list of event types forgets group permissions.
PendingWithoutGrants(n) == { i \in (n + 1) .. Len(log) : log[i] \ {"grant"} # {} }

(* list_after_types: at most BatchLimit delivered events after n. *)
Pending(n) == { i \in (n + 1) .. Len(log) : log[i] # {} }

IsBatchEnd(n, e) ==
    LET batch == { i \in Pending(n) :
                     Cardinality({ j \in Pending(n) : j < i }) < BatchLimit }
    IN  e \in batch /\ \A i \in batch : i <= e

-----------------------------------------------------------------------------
(* One reload of a projection by a task: a read per store, the last one    *)
(* followed, without an await, by the publication of the new projection.   *)

\* Mutant: the two tasks reload the snapshot without a lock.
NoMutex(w, t, p) == TRUE

Mutex(w, t, p) == p = Downstream => monitor[w] = t

Read(w, t, p) ==
    /\ Mutex(w, t, p)
    /\ Len(buffer[w][t]) + 1 < Len(Reads[p])
    /\ buffer' = [buffer EXCEPT ![w][t] =
                    Append(@, committed[Reads[p][Len(@) + 1]])]
    /\ UNCHANGED <<loaded, view, monitor>>

Publish(w, t, p) ==
    /\ Mutex(w, t, p)
    /\ Len(buffer[w][t]) + 1 = Len(Reads[p])
    /\ view' = [view EXCEPT ![w][p] =
                  Append(buffer[w][t], committed[Reads[p][Len(Reads[p])]])]
    /\ loaded' = [loaded EXCEPT ![w][p] = TRUE]
    /\ buffer' = [buffer EXCEPT ![w][t] = <<>>]

(* A read raises: the projection is emptied, or made unavailable. *)
Discard(w, t, p) ==
    /\ Mutex(w, t, p)
    /\ faults < MaxFaults
    /\ faults' = faults + 1
    /\ loaded' = [loaded EXCEPT ![w][p] = @ /\ p \in Retained]
    /\ buffer' = [buffer EXCEPT ![w][t] = <<>>]
    /\ UNCHANGED view

Acquire(w, t) == monitor[w] = "free" /\ monitor' = [monitor EXCEPT ![w] = t]
Release(w) == monitor' = [monitor EXCEPT ![w] = "free"]
ReleaseAfter(w, p) == IF p = Downstream THEN Release(w) ELSE UNCHANGED monitor

-----------------------------------------------------------------------------
(* RuntimeProjectionSynchronizer *)

Start(w) ==
    /\ mode[w] = "down"
    /\ mode' = [mode EXCEPT ![w] = "fence"]
    /\ UNCHANGED <<database, ready, failed, checkpoint, cursor, at, projections, refresher, faults>>

(* bootstrap: page through the stream to find its head ... *)
FenceRead(w) ==
    /\ mode[w] = "fence"
    /\ \E e \in Pending(cursor[w]) :
         IsBatchEnd(cursor[w], e) /\ cursor' = [cursor EXCEPT ![w] = e]
    /\ UNCHANGED <<database, mode, ready, failed, checkpoint, at, projections, refresher, faults>>

(* ... and load everything from there. *)
FenceReached(w) ==
    /\ mode[w] = "fence"
    /\ Pending(cursor[w]) = {}
    /\ mode' = [mode EXCEPT ![w] = "hydrate"]
    /\ at' = [at EXCEPT ![w] = 1]
    /\ UNCHANGED <<database, ready, failed, checkpoint, cursor, projections, refresher, faults>>

(* _poll_once with events. *)
Poll(w) ==
    /\ mode[w] \in {"replay", "running"}
    /\ at[w] = 0
    /\ \E e \in Pending(checkpoint[w]) :
         IsBatchEnd(checkpoint[w], e) /\ cursor' = [cursor EXCEPT ![w] = e]
    /\ at' = [at EXCEPT ![w] = 1]
    /\ UNCHANGED <<database, mode, ready, failed, checkpoint, projections, refresher, faults>>

\* Mutant: without events there is nothing to do, failed or not.
RetryOnEventsOnly(w) == FALSE

(* _poll_once without events after a failure. *)
Retry(w) ==
    /\ mode[w] \in {"replay", "running"}
    /\ at[w] = 0
    /\ Pending(checkpoint[w]) = {}
    /\ failed[w]
    /\ cursor' = [cursor EXCEPT ![w] = checkpoint[w]]
    /\ at' = [at EXCEPT ![w] = 1]
    /\ UNCHANGED <<database, mode, ready, failed, checkpoint, projections, refresher, faults>>

\* Mutant: ready as soon as the hydration is over, without the replay.
BootstrappedWithoutReplay(w) ==
    /\ mode[w] = "replay"
    /\ at[w] = 0
    /\ ready' = [ready EXCEPT ![w] = TRUE]
    /\ mode' = [mode EXCEPT ![w] = "baseline"]
    /\ \E n \in DOMAIN Stages :
         Stages[n] = Downstream /\ at' = [at EXCEPT ![w] = n]
    /\ UNCHANGED <<database, failed, checkpoint, cursor, projections, refresher, faults>>

(* The end of bootstrap; initialize_native_capabilities comes next. *)
Bootstrapped(w) ==
    /\ mode[w] = "replay"
    /\ at[w] = 0
    /\ Pending(checkpoint[w]) = {}
    /\ ~failed[w]
    /\ ready' = [ready EXCEPT ![w] = TRUE]
    /\ mode' = [mode EXCEPT ![w] = "baseline"]
    /\ \E n \in DOMAIN Stages :
         Stages[n] = Downstream /\ at' = [at EXCEPT ![w] = n]
    /\ UNCHANGED <<database, failed, checkpoint, cursor, projections, refresher, faults>>

SyncAcquire(w) ==
    /\ at[w] # 0 /\ Stages[at[w]] = Downstream
    /\ Acquire(w, "sync")
    /\ UNCHANGED <<database, sync, buffer, loaded, view, refresher, faults>>

SyncRead(w) ==
    /\ at[w] # 0
    /\ Read(w, "sync", Stages[at[w]])
    /\ UNCHANGED <<database, sync, refresher, faults>>

SyncPublish(w) ==
    /\ at[w] # 0
    /\ at[w] < Len(Stages)
    /\ mode[w] # "baseline"
    /\ Publish(w, "sync", Stages[at[w]])
    /\ ReleaseAfter(w, Stages[at[w]])
    /\ at' = [at EXCEPT ![w] = @ + 1]
    /\ UNCHANGED <<database, mode, ready, failed, checkpoint, cursor, refresher, faults>>

\* Mutant: the checkpoint saved is the head of the stream, not the batch.
FinishApplyAtHead(w) ==
    /\ at[w] = Len(Stages)
    /\ mode[w] # "baseline"
    /\ Publish(w, "sync", Stages[at[w]])
    /\ ReleaseAfter(w, Stages[at[w]])
    /\ at' = [at EXCEPT ![w] = 0]
    /\ failed' = [failed EXCEPT ![w] = FALSE]
    /\ ready' = [ready EXCEPT ![w] = mode[w] = "running"]
    /\ checkpoint' = [checkpoint EXCEPT ![w] = Len(log)]
    /\ mode' = [mode EXCEPT ![w] = IF @ = "hydrate" THEN "replay" ELSE @]
    /\ UNCHANGED <<database, cursor, refresher, faults>>

(* reconcile() has returned: _apply sets the flags, the caller the         *)
(* checkpoint.                                                             *)
FinishApply(w) ==
    /\ at[w] = Len(Stages)
    /\ mode[w] # "baseline"
    /\ Publish(w, "sync", Stages[at[w]])
    /\ ReleaseAfter(w, Stages[at[w]])
    /\ at' = [at EXCEPT ![w] = 0]
    /\ failed' = [failed EXCEPT ![w] = FALSE]
    /\ ready' = [ready EXCEPT ![w] = mode[w] = "running"]
    /\ checkpoint' = [checkpoint EXCEPT ![w] = cursor[w]]
    /\ mode' = [mode EXCEPT ![w] = IF @ = "hydrate" THEN "replay" ELSE @]
    /\ UNCHANGED <<database, cursor, refresher, faults>>

FinishBaseline(w) ==
    /\ mode[w] = "baseline"
    /\ Publish(w, "sync", Downstream)
    /\ Release(w)
    /\ at' = [at EXCEPT ![w] = 0]
    /\ mode' = [mode EXCEPT ![w] = "running"]
    /\ UNCHANGED <<database, ready, failed, checkpoint, cursor, refresher, faults>>

\* Mutant: a failed reload is logged and the worker stays ready.
SyncLoadFailsQuietly(w) ==
    /\ mode[w] = "running"
    /\ at[w] # 0
    /\ Discard(w, "sync", Stages[at[w]])
    /\ ReleaseAfter(w, Stages[at[w]])
    /\ at' = [at EXCEPT ![w] = 0]
    /\ UNCHANGED <<database, mode, ready, failed, checkpoint, cursor, refresher>>

(* A reload fails.  Before "running" the exception ends the process, which *)
(* is Crash.                                                               *)
SyncLoadFails(w) ==
    /\ mode[w] = "running"
    /\ at[w] # 0
    /\ Discard(w, "sync", Stages[at[w]])
    /\ ReleaseAfter(w, Stages[at[w]])
    /\ at' = [at EXCEPT ![w] = 0]
    /\ ready' = [ready EXCEPT ![w] = FALSE]
    /\ failed' = [failed EXCEPT ![w] = TRUE]
    /\ UNCHANGED <<database, mode, checkpoint, cursor, refresher>>

(* The event reader raises. *)
SyncListFails(w) ==
    /\ mode[w] = "running"
    /\ at[w] = 0
    /\ faults < MaxFaults
    /\ faults' = faults + 1
    /\ ready' = [ready EXCEPT ![w] = FALSE]
    /\ failed' = [failed EXCEPT ![w] = TRUE]
    /\ UNCHANGED <<database, mode, checkpoint, cursor, at, projections, refresher>>

-----------------------------------------------------------------------------
(* The discovery task: NativeCapabilityChangeMonitor.apply_and_notify loads *)
(* the snapshot, applies the discovered catalog and loads it again.         *)

RefreshBegin(w) ==
    /\ mode[w] = "running"
    /\ refresher[w] = "idle"
    /\ Acquire(w, "refresh")
    /\ refresher' = [refresher EXCEPT ![w] = "before"]
    /\ UNCHANGED <<database, sync, buffer, loaded, view, faults>>

RefreshRead(w) ==
    /\ refresher[w] \in {"before", "after"}
    /\ Read(w, "refresh", Downstream)
    /\ UNCHANGED <<database, sync, refresher, faults>>

RefreshLoaded(w) ==
    /\ refresher[w] = "before"
    /\ Publish(w, "refresh", Downstream)
    /\ refresher' = [refresher EXCEPT ![w] = "change"]
    /\ UNCHANGED <<database, sync, monitor, faults>>

RefreshChange(w, S) ==
    /\ refresher[w] = "change"
    /\ S # {}
    /\ Append1(S)
    /\ refresher' = [refresher EXCEPT ![w] = "after"]
    /\ UNCHANGED <<sync, projections, faults>>

RefreshEnd(w) ==
    /\ refresher[w] = "after"
    /\ Publish(w, "refresh", Downstream)
    /\ Release(w)
    /\ refresher' = [refresher EXCEPT ![w] = "idle"]
    /\ UNCHANGED <<database, sync, faults>>

(* ObsoleteDownstreamCatalogError: the catalog is not applied. *)
RefreshObsolete(w) ==
    /\ refresher[w] = "change"
    /\ Release(w)
    /\ refresher' = [refresher EXCEPT ![w] = "idle"]
    /\ UNCHANGED <<database, sync, buffer, loaded, view, faults>>

(* Any other exception leaves PeriodicDiscoveryRunner.run: no one restarts *)
(* it.                                                                     *)
RefreshRaises(w) ==
    /\ refresher[w] = "change"
    /\ faults < MaxFaults
    /\ faults' = faults + 1
    /\ Release(w)
    /\ refresher' = [refresher EXCEPT ![w] = "dead"]
    /\ UNCHANGED <<database, sync, buffer, loaded, view>>

RefreshLoadFails(w) ==
    /\ refresher[w] \in {"before", "after"}
    /\ Discard(w, "refresh", Downstream)
    /\ Release(w)
    /\ refresher' = [refresher EXCEPT ![w] = "dead"]
    /\ UNCHANGED <<database, sync>>

-----------------------------------------------------------------------------
(* The process dies, or its startup fails: its memory is gone, and the     *)
(* next run has a new consumer id.                                         *)
Crash(w) ==
    /\ mode[w] # "down"
    /\ faults < MaxFaults
    /\ faults' = faults + 1
    /\ mode' = [mode EXCEPT ![w] = "down"]
    /\ ready' = [ready EXCEPT ![w] = FALSE]
    /\ failed' = [failed EXCEPT ![w] = FALSE]
    /\ checkpoint' = [checkpoint EXCEPT ![w] = 0]
    /\ cursor' = [cursor EXCEPT ![w] = 0]
    /\ at' = [at EXCEPT ![w] = 0]
    /\ buffer' = [buffer EXCEPT ![w] = [t \in Task |-> <<>>]]
    /\ loaded' = [loaded EXCEPT ![w] = NoneLoaded]
    /\ view' = [view EXCEPT ![w] = Nothing]
    /\ Release(w)
    /\ refresher' = [refresher EXCEPT ![w] = "idle"]
    /\ UNCHANGED database

Progress(w) ==
    \/ Start(w) \/ FenceRead(w) \/ FenceReached(w) \/ Poll(w) \/ Retry(w)
    \/ Bootstrapped(w) \/ SyncRead(w) \/ SyncPublish(w)
    \/ FinishApply(w) \/ FinishBaseline(w)

RefreshProgress(w) ==
    \/ RefreshRead(w) \/ RefreshLoaded(w) \/ RefreshEnd(w) \/ RefreshObsolete(w)
    \/ \E S \in Transactions : RefreshChange(w, S)

Fault(w) ==
    \/ SyncLoadFails(w) \/ SyncListFails(w) \/ RefreshRaises(w)
    \/ RefreshLoadFails(w) \/ Crash(w)

Next ==
    \/ \E S \in Transactions : Commit(S)
    \/ \E w \in Worker :
         \/ Progress(w) \/ SyncAcquire(w) \/ RefreshBegin(w)
         \/ RefreshProgress(w) \/ Fault(w)

Spec == Init /\ [][Next]_vars

-----------------------------------------------------------------------------
(* Fairness: every coroutine that can run is run by its event loop, and    *)
(* asyncio.Lock wakes its waiters in the order they came.  Nothing makes   *)
(* administrators write, discovery find anything, or faults happen.        *)
Fairness ==
    \A w \in Worker :
        /\ WF_vars(Progress(w))
        /\ SF_vars(SyncAcquire(w))
        /\ WF_vars(RefreshProgress(w))

FairSpec == Spec /\ Fairness

-----------------------------------------------------------------------------
(* Properties *)

Mode == {"down", "fence", "hydrate", "replay", "baseline", "running"}

TypeOK ==
    /\ log \in Seq(SUBSET Store)
    /\ committed \in [Store -> Nat]
    /\ mode \in [Worker -> Mode]
    /\ ready \in [Worker -> BOOLEAN]
    /\ failed \in [Worker -> BOOLEAN]
    /\ checkpoint \in [Worker -> Nat]
    /\ cursor \in [Worker -> Nat]
    /\ at \in [Worker -> 0 .. Len(Stages)]
    /\ buffer \in [Worker -> [Task -> Seq(Nat)]]
    /\ loaded \in [Worker -> [Projection -> BOOLEAN]]
    /\ view \in [Worker -> [Projection -> Seq(Nat)]]
    /\ \A w \in Worker, p \in Projection : Len(view[w][p]) = Len(Reads[p])
    /\ monitor \in [Worker -> {"free"} \cup Task]
    /\ refresher \in [Worker -> {"idle", "before", "change", "after", "dead"}]
    /\ faults \in 0 .. MaxFaults

(* What was read of projection p reflects every event of a stream up to n. *)
Covers(stream, p, versions, n) ==
    \A j \in DOMAIN versions, i \in 1 .. n :
        Reads[p][j] \in stream[i] => versions[j] >= i

(* The checkpoint never passes a change that a loaded projection lacks,    *)
(* whatever is committed during a reload, and whichever of the two tasks   *)
(* loaded the projection.                                                  *)
NoEventLost ==
    \A w \in Worker, p \in Projection :
        loaded[w][p] => Covers(log, p, view[w][p], checkpoint[w])

(* Fail closed: a worker that answers requests has not failed since its    *)
(* last complete reload, and only the discovery task can have taken a      *)
(* projection away from it.                                                *)
ReadyMeansReloaded ==
    \A w \in Worker : ready[w] =>
        ~failed[w] /\ \A p \in Projection \ {Downstream} : loaded[w][p]

(* A ready worker that has nothing left to poll serves the database as it  *)
(* is: no change is hidden from it by the filter on event types.           *)
QuietReadyWorkerIsCurrent ==
    \A w \in Worker :
        ready[w] /\ at[w] = 0 /\ Pending(checkpoint[w]) = {} =>
            \A p \in Projection : loaded[w][p] => Covers(log, p, view[w][p], Len(log))

(* Bootstrap loses nothing that is committed while it loads: what it       *)
(* declares ready is what the database holds at that moment.               *)
BootstrapMissesNothing ==
    [][\A w \in Worker :
         mode[w] = "replay" /\ mode'[w] = "baseline" =>
            \A p \in Projection : loaded'[w][p] /\ Covers(log', p, view'[w][p], Len(log'))]_vars

(* Two reloads of one projection may overlap in time, but the older one    *)
(* never replaces the newer: no store goes back in a running process.      *)
NoRollback ==
    [][\A w \in Worker, p \in Projection :
         loaded[w][p] /\ loaded'[w][p] =>
            \A j \in DOMAIN Reads[p] : view'[w][p][j] >= view[w][p][j]]_vars

(* Every worker ends up ready on the last state of every projection but    *)
(* the shared snapshot, and on the last state of that one if it has it.    *)
EveryChangeIsServed ==
    \A w \in Worker : <>[](
        /\ mode[w] = "running" /\ ready[w]
        /\ \A p \in Projection \ {Downstream} : loaded[w][p]
        /\ \A p \in Projection : loaded[w][p] => Covers(log, p, view[w][p], Len(log)))

-----------------------------------------------------------------------------
(* The inductive invariant behind NoEventLost, ReadyMeansReloaded and      *)
(* NoRollback, by parts.                                                   *)

(* A store is at least as new as every event about it. *)
StreamInv ==
    /\ \A s \in Store : committed[s] <= Len(log)
    /\ \A i \in 1 .. Len(log) : \A s \in log[i] : committed[s] >= i

(* Positions lie in the stream, the checkpoint behind the cursor; the       *)
(* discovery task, and failures that are survived, belong to "running".    *)
PhaseInv(w) ==
    /\ checkpoint[w] <= cursor[w]
    /\ cursor[w] <= Len(log)
    /\ mode[w] \in {"down", "fence"} => at[w] = 0
    /\ mode[w] = "baseline" => at[w] # 0 /\ Stages[at[w]] = Downstream
    /\ mode[w] # "running" => refresher[w] = "idle" /\ ~failed[w]

(* Who holds the monitor's lock. *)
LockInv(w) ==
    /\ monitor[w] = "refresh" <=> refresher[w] \in {"before", "change", "after"}
    /\ monitor[w] = "sync" => at[w] # 0 /\ Stages[at[w]] = Downstream

(* What task t has read of p so far is no older than the p it will replace. *)
Partial(w, t, p) ==
    /\ Len(buffer[w][t]) < Len(Reads[p])
    /\ \A j \in DOMAIN buffer[w][t] :
         /\ view[w][p][j] <= buffer[w][t][j]
         /\ buffer[w][t][j] <= committed[Reads[p][j]]

(* A partial read belongs to a reload in progress.  What the synchronizer   *)
(* has read reflects the batch being applied; what the discovery task has   *)
(* read reflects the checkpoint, and the batch being applied as well if the *)
(* synchronizer has already left the shared projection behind.              *)
BufferInv(w) ==
    /\ buffer[w]["sync"] # <<>> =>
         at[w] # 0 /\ (Stages[at[w]] = Downstream => monitor[w] = "sync")
    /\ buffer[w]["refresh"] # <<>> => refresher[w] \in {"before", "after"}
    /\ Partial(w, "refresh", Downstream)
    /\ Covers(log, Downstream, buffer[w]["refresh"], checkpoint[w])
    /\ (\E q \in 1 .. at[w] - 1 : Stages[q] = Downstream) =>
         Covers(log, Downstream, buffer[w]["refresh"], cursor[w])
    /\ at[w] # 0 =>
         /\ Partial(w, "sync", Stages[at[w]])
         /\ Covers(log, Stages[at[w]], buffer[w]["sync"], cursor[w])

(* The projections reloaded so far reflect the batch being applied.        *)
AppliedInv(w) ==
    mode[w] # "baseline" => \A q \in 1 .. at[w] - 1 :
        /\ Stages[q] # Downstream \/ mode[w] # "running" => loaded[w][Stages[q]]
        /\ loaded[w][Stages[q]] => Covers(log, Stages[q], view[w][Stages[q]], cursor[w])

ViewInv(w) ==
    /\ \A p \in Projection : loaded[w][p] => Covers(log, p, view[w][p], checkpoint[w])
    /\ \A p \in Projection : \A j \in DOMAIN Reads[p] :
         view[w][p][j] <= committed[Reads[p][j]]
    /\ mode[w] \in {"replay", "baseline"} => \A p \in Projection : loaded[w][p]
    /\ ready[w] => ~failed[w] /\ \A p \in Projection \ {Downstream} : loaded[w][p]

WorkerInv(w) ==
    PhaseInv(w) /\ LockInv(w) /\ BufferInv(w) /\ AppliedInv(w) /\ ViewInv(w)

IInv == TypeOK /\ StreamInv /\ \A w \in Worker : WorkerInv(w)

=============================================================================
