---------------------- MODULE RuntimeProjectionProofs ----------------------
(***************************************************************************)
(* Proofs about RuntimeProjection for any number of workers, stores,       *)
(* projections, events and faults: its types, its inductive invariant      *)
(* IInv, and the safety properties that follow from it.                    *)
(***************************************************************************)
EXTENDS RuntimeProjection, TLAPS

LEMMA ProjectionFacts ==
    /\ \A n \in DOMAIN Stages : Stages[n] \in Projection
    /\ \A p \in Projection : \E n \in 1 .. Len(Stages) : Stages[n] = p
    /\ \A p \in Projection : Reads[p] \in Seq(Store) /\ Len(Reads[p]) \in Nat \ {0}
    /\ Len(Stages) \in Nat
    /\ DOMAIN Stages = 1 .. Len(Stages)
    /\ 0 \in 0 .. Len(Stages) /\ 1 \in 0 .. Len(Stages) /\ Len(Stages) \in 1 .. Len(Stages)
<1>1. Stages \in Seq(Projection) /\ Downstream \in Projection
  BY ProjectionAssumption
<1>2. \A p \in Projection : Reads[p] \in Seq(Store) \ {<<>>}
  BY ProjectionAssumption
<1>3. Len(Stages) \in Nat /\ DOMAIN Stages = 1 .. Len(Stages)
  BY <1>1
<1>4. Len(Stages) >= 1
  BY <1>1, <1>3 DEF Projection
<1>5. QED
  BY <1>1, <1>2, <1>3, <1>4 DEF Projection

LEMMA InitType == Init => TypeOK
<1> SUFFICES ASSUME Init PROVE TypeOK
  OBVIOUS
<1>1. \A p \in Projection : NotRead(p) \in Seq(Nat) /\ Len(NotRead(p)) = Len(Reads[p])
  BY ProjectionFacts DEF NotRead
<1>2. QED
  BY <1>1, ProjectionFacts, ProjectionAssumption
  DEF Init, TypeOK, Mode, Task, Nothing, NoneLoaded

LEMMA AppendType ==
    ASSUME TypeOK, NEW S \in Transactions, Append1(S)
    PROVE  log' \in Seq(SUBSET Store) /\ committed' \in [Store -> Nat]
  BY ProjectionAssumption DEF TypeOK, Append1

LEMMA PublishType ==
    ASSUME TypeOK, NEW w \in Worker, NEW t \in Task, NEW p \in Projection, Publish(w, t, p)
    PROVE  /\ buffer' \in [Worker -> [Task -> Seq(Nat)]]
           /\ loaded' \in [Worker -> [Projection -> BOOLEAN]]
           /\ view' \in [Worker -> [Projection -> Seq(Nat)]]
           /\ \A u \in Worker, q \in Projection : Len(view'[u][q]) = Len(Reads[q])
<1> DEFINE new == Append(buffer[w][t], committed[Reads[p][Len(Reads[p])]])
<1>1. Reads[p] \in Seq(Store) /\ Len(Reads[p]) \in Nat \ {0}
  BY ProjectionFacts
<1>2. committed[Reads[p][Len(Reads[p])]] \in Nat
  BY <1>1 DEF TypeOK
<1>3. buffer[w][t] \in Seq(Nat)
  BY DEF TypeOK
<1>4. new \in Seq(Nat) /\ Len(new) = Len(Reads[p])
  BY <1>1, <1>2, <1>3 DEF Publish
<1>5. view' = [view EXCEPT ![w] = [@ EXCEPT ![p] = new]]
  BY DEF Publish
<1> HIDE DEF new
<1>6. view' \in [Worker -> [Projection -> Seq(Nat)]]
  BY <1>4, <1>5 DEF TypeOK
<1>7. ASSUME NEW u \in Worker, NEW q \in Projection
      PROVE  Len(view'[u][q]) = Len(Reads[q])
  <2>1. view'[u][q] = IF u = w /\ q = p THEN new ELSE view[u][q]
    BY <1>5 DEF TypeOK
  <2>2. QED
    BY <2>1, <1>4 DEF TypeOK
<1>8. loaded' \in [Worker -> [Projection -> BOOLEAN]]
  BY DEF TypeOK, Publish
<1>9. <<>> \in Seq(Nat)
  OBVIOUS
<1>10. buffer' \in [Worker -> [Task -> Seq(Nat)]]
  BY <1>9 DEF TypeOK, Publish
<1>11. QED
  BY <1>6, <1>7, <1>8, <1>10

LEMMA ReadType ==
    ASSUME TypeOK, NEW w \in Worker, NEW t \in Task, NEW p \in Projection, Read(w, t, p)
    PROVE  buffer' \in [Worker -> [Task -> Seq(Nat)]]
<1> DEFINE new == Append(buffer[w][t], committed[Reads[p][Len(buffer[w][t]) + 1]])
<1>1. Reads[p] \in Seq(Store) /\ buffer[w][t] \in Seq(Nat)
  BY ProjectionFacts DEF TypeOK
<1>2. committed[Reads[p][Len(buffer[w][t]) + 1]] \in Nat
  BY <1>1 DEF TypeOK, Read
<1>3. new \in Seq(Nat)
  BY <1>1, <1>2
<1>4. buffer' = [buffer EXCEPT ![w] = [@ EXCEPT ![t] = new]]
  BY DEF Read
<1> HIDE DEF new
<1>5. QED
  BY <1>3, <1>4 DEF TypeOK

LEMMA DiscardType ==
    ASSUME TypeOK, NEW w \in Worker, NEW t \in Task, NEW p \in Projection, Discard(w, t, p)
    PROVE  /\ buffer' \in [Worker -> [Task -> Seq(Nat)]]
           /\ loaded' \in [Worker -> [Projection -> BOOLEAN]]
           /\ faults' \in 0 .. MaxFaults
           /\ view' = view
<1>1. <<>> \in Seq(Nat)
  OBVIOUS
<1>2. buffer' \in [Worker -> [Task -> Seq(Nat)]]
  BY <1>1 DEF TypeOK, Discard
<1>3. loaded' \in [Worker -> [Projection -> BOOLEAN]]
  BY DEF TypeOK, Discard
<1>4. QED
  BY <1>2, <1>3, ProjectionAssumption DEF TypeOK, Discard

LEMMA ReleaseType ==
    ASSUME TypeOK, NEW w \in Worker, NEW p, ReleaseAfter(w, p) \/ Release(w)
    PROVE  monitor' \in [Worker -> {"free"} \cup Task]
  BY DEF TypeOK, ReleaseAfter, Release

LEMMA TypeStep == TypeOK /\ [Next]_vars => TypeOK'
<1> SUFFICES ASSUME TypeOK, [Next]_vars PROVE TypeOK'
  OBVIOUS
<1> USE DEF database, sync, projections
<1>1. ASSUME NEW S \in Transactions, Commit(S) PROVE TypeOK'
  BY <1>1, AppendType DEF Commit, TypeOK
<1>2. ASSUME NEW w \in Worker, NEW S \in Transactions, RefreshChange(w, S) PROVE TypeOK'
  BY <1>2, AppendType DEF RefreshChange, TypeOK
<1>3. ASSUME NEW w \in Worker, Start(w) PROVE TypeOK'
  BY <1>3 DEF Start, TypeOK, Mode
<1>4. ASSUME NEW w \in Worker, FenceRead(w) PROVE TypeOK'
  BY <1>4 DEF FenceRead, Pending, TypeOK
<1>5. ASSUME NEW w \in Worker, FenceReached(w) PROVE TypeOK'
  BY <1>5, ProjectionFacts DEF FenceReached, TypeOK, Mode
<1>6. ASSUME NEW w \in Worker, Poll(w) PROVE TypeOK'
  BY <1>6, ProjectionFacts DEF Poll, Pending, TypeOK
<1>7. ASSUME NEW w \in Worker, Retry(w) PROVE TypeOK'
  BY <1>7, ProjectionFacts DEF Retry, TypeOK
<1>8. ASSUME NEW w \in Worker, Bootstrapped(w) PROVE TypeOK'
  BY <1>8, ProjectionFacts DEF Bootstrapped, TypeOK, Mode
<1>9. ASSUME NEW w \in Worker, SyncAcquire(w) PROVE TypeOK'
  BY <1>9 DEF SyncAcquire, Acquire, TypeOK, Task
<1>10. ASSUME NEW w \in Worker, SyncRead(w) PROVE TypeOK'
  <2>1. Stages[at[w]] \in Projection
    BY <1>10, ProjectionFacts DEF SyncRead, TypeOK
  <2>2. QED
    BY <1>10, <2>1, ReadType DEF SyncRead, Read, TypeOK, Task
<1>11. ASSUME NEW w \in Worker, SyncPublish(w) PROVE TypeOK'
  <2>1. Stages[at[w]] \in Projection
    BY <1>11, ProjectionFacts DEF SyncPublish, TypeOK
  <2>2. monitor' \in [Worker -> {"free"} \cup Task]
    BY <1>11, ReleaseType DEF SyncPublish
  <2>3. at' \in [Worker -> 0 .. Len(Stages)]
    BY <1>11, ProjectionFacts DEF SyncPublish, TypeOK
  <2>4. Publish(w, "sync", Stages[at[w]])
    BY <1>11 DEF SyncPublish
  <2>5. QED
    BY <1>11, <2>1, <2>2, <2>3, <2>4, PublishType DEF SyncPublish, TypeOK, Task
<1>12. ASSUME NEW w \in Worker, FinishApply(w) PROVE TypeOK'
  <2>1. Stages[at[w]] \in Projection
    BY <1>12, ProjectionFacts DEF FinishApply
  <2>2. monitor' \in [Worker -> {"free"} \cup Task]
    BY <1>12, ReleaseType DEF FinishApply
  <2>3. /\ at' \in [Worker -> 0 .. Len(Stages)]
        /\ ready' \in [Worker -> BOOLEAN] /\ failed' \in [Worker -> BOOLEAN]
        /\ checkpoint' \in [Worker -> Nat] /\ mode' \in [Worker -> Mode]
    BY <1>12, ProjectionFacts DEF FinishApply, TypeOK, Mode
  <2>4. Publish(w, "sync", Stages[at[w]])
    BY <1>12 DEF FinishApply
  <2>5. QED
    BY <1>12, <2>1, <2>2, <2>3, <2>4, PublishType DEF FinishApply, TypeOK, Task
<1>13. ASSUME NEW w \in Worker, FinishBaseline(w) PROVE TypeOK'
  <2>1. monitor' \in [Worker -> {"free"} \cup Task]
    BY <1>13, ReleaseType DEF FinishBaseline
  <2>2. at' \in [Worker -> 0 .. Len(Stages)] /\ mode' \in [Worker -> Mode]
    BY <1>13, ProjectionFacts DEF FinishBaseline, TypeOK, Mode
  <2>3. Publish(w, "sync", Downstream)
    BY <1>13 DEF FinishBaseline
  <2>4. QED
    BY <1>13, <2>1, <2>2, <2>3, PublishType, ProjectionAssumption
    DEF FinishBaseline, TypeOK, Task
<1>14. ASSUME NEW w \in Worker, SyncLoadFails(w) PROVE TypeOK'
  <2>1. Stages[at[w]] \in Projection
    BY <1>14, ProjectionFacts DEF SyncLoadFails, TypeOK
  <2>2. monitor' \in [Worker -> {"free"} \cup Task]
    BY <1>14, ReleaseType DEF SyncLoadFails
  <2>3. /\ at' \in [Worker -> 0 .. Len(Stages)]
        /\ ready' \in [Worker -> BOOLEAN] /\ failed' \in [Worker -> BOOLEAN]
    BY <1>14, ProjectionFacts DEF SyncLoadFails, TypeOK
  <2>4. Discard(w, "sync", Stages[at[w]])
    BY <1>14 DEF SyncLoadFails
  <2>5. QED
    BY <1>14, <2>1, <2>2, <2>3, <2>4, DiscardType DEF SyncLoadFails, TypeOK, Task
<1>15. ASSUME NEW w \in Worker, SyncListFails(w) PROVE TypeOK'
  BY <1>15, ProjectionAssumption DEF SyncListFails, TypeOK
<1>16. ASSUME NEW w \in Worker, RefreshBegin(w) PROVE TypeOK'
  BY <1>16 DEF RefreshBegin, Acquire, TypeOK, Task
<1>17. ASSUME NEW w \in Worker, RefreshRead(w) PROVE TypeOK'
  BY <1>17, ReadType, ProjectionAssumption DEF RefreshRead, Read, TypeOK, Task
<1>18. ASSUME NEW w \in Worker, RefreshLoaded(w) PROVE TypeOK'
  BY <1>18, PublishType, ProjectionAssumption DEF RefreshLoaded, TypeOK, Task
<1>19. ASSUME NEW w \in Worker, RefreshEnd(w) PROVE TypeOK'
  BY <1>19, PublishType, ProjectionAssumption DEF RefreshEnd, Release, TypeOK, Task
<1>20. ASSUME NEW w \in Worker, RefreshObsolete(w) PROVE TypeOK'
  BY <1>20 DEF RefreshObsolete, Release, TypeOK
<1>21. ASSUME NEW w \in Worker, RefreshRaises(w) PROVE TypeOK'
  BY <1>21, ProjectionAssumption DEF RefreshRaises, Release, TypeOK
<1>22. ASSUME NEW w \in Worker, RefreshLoadFails(w) PROVE TypeOK'
  <2>1. monitor' \in [Worker -> {"free"} \cup Task]
    BY <1>22, ReleaseType DEF RefreshLoadFails
  <2>2. refresher' \in [Worker -> {"idle", "before", "change", "after", "dead"}]
    BY <1>22 DEF RefreshLoadFails, TypeOK
  <2>3. Discard(w, "refresh", Downstream)
    BY <1>22 DEF RefreshLoadFails
  <2>4. QED
    BY <1>22, <2>1, <2>2, <2>3, DiscardType, ProjectionAssumption
    DEF RefreshLoadFails, TypeOK, Task
<1>23. ASSUME NEW w \in Worker, Crash(w) PROVE TypeOK'
  <2>1. \A p \in Projection : NotRead(p) \in Seq(Nat) /\ Len(NotRead(p)) = Len(Reads[p])
    BY ProjectionFacts DEF NotRead
  <2>2. Nothing \in [Projection -> Seq(Nat)] /\ \A p \in Projection : Len(Nothing[p]) = Len(Reads[p])
    BY <2>1 DEF Nothing
  <2>3. /\ view' \in [Worker -> [Projection -> Seq(Nat)]]
        /\ \A u \in Worker, p \in Projection : Len(view'[u][p]) = Len(Reads[p])
    BY <1>23, <2>2 DEF Crash, TypeOK
  <2>4. /\ buffer' \in [Worker -> [Task -> Seq(Nat)]]
        /\ loaded' \in [Worker -> [Projection -> BOOLEAN]]
    BY <1>23 DEF Crash, TypeOK, NoneLoaded
  <2>5. monitor' \in [Worker -> {"free"} \cup Task]
    BY <1>23, ReleaseType DEF Crash
  <2>6. /\ at' \in [Worker -> 0 .. Len(Stages)] /\ faults' \in 0 .. MaxFaults
        /\ refresher' \in [Worker -> {"idle", "before", "change", "after", "dead"}]
    <3>1. MaxFaults \in Nat
      BY ProjectionAssumption
    <3>2. faults' \in 0 .. MaxFaults
      BY <1>23, <3>1 DEF Crash, TypeOK
    <3>3. QED
      BY <1>23, <3>2, ProjectionFacts DEF Crash, TypeOK
  <2>7. /\ mode' \in [Worker -> Mode] /\ ready' \in [Worker -> BOOLEAN]
        /\ failed' \in [Worker -> BOOLEAN] /\ checkpoint' \in [Worker -> Nat]
        /\ cursor' \in [Worker -> Nat]
    BY <1>23 DEF Crash, TypeOK, Mode
  <2>8. QED
    BY <1>23, <2>3, <2>4, <2>5, <2>6, <2>7 DEF Crash, TypeOK
<1>24. CASE UNCHANGED vars
  BY <1>24 DEF vars, TypeOK
<1>25. QED
  BY <1>1, <1>2, <1>3, <1>4, <1>5, <1>6, <1>7, <1>8, <1>9, <1>10, <1>11, <1>12,
     <1>13, <1>14, <1>15, <1>16, <1>17, <1>18, <1>19, <1>20, <1>21, <1>22, <1>23, <1>24
  DEF Next, Progress, RefreshProgress, Fault

(* Every variable keeps its type, for any instance. *)
THEOREM TypeCorrect == Spec => []TypeOK
<1>1. Init => TypeOK
  BY InitType
<1>2. TypeOK /\ [Next]_vars => TypeOK'
  BY TypeStep
<1>3. QED
  BY <1>1, <1>2, PTL DEF Spec

-----------------------------------------------------------------------------
(* Facts about Covers, for any stream. *)

LEMMA CoversEmpty ==
    ASSUME NEW l, NEW p, NEW n PROVE Covers(l, p, <<>>, n)
  BY DEF Covers

LEMMA CoversLess ==
    ASSUME NEW l, NEW p, NEW v, NEW m \in Nat, NEW n \in Nat, n <= m, Covers(l, p, v, m)
    PROVE  Covers(l, p, v, n)
  BY DEF Covers

LEMMA CoversGrow ==
    ASSUME NEW l, NEW m, NEW p, NEW v, NEW n \in Nat,
           \A i \in 1 .. n : m[i] = l[i], Covers(l, p, v, n)
    PROVE  Covers(m, p, v, n)
  BY DEF Covers

(* One more read covers what the reads before it cover. *)
LEMMA CoversAppend ==
    ASSUME TypeOK, StreamInv, NEW p \in Projection, NEW v \in Seq(Nat),
           Len(v) < Len(Reads[p]), NEW n \in Nat, n <= Len(log), Covers(log, p, v, n)
    PROVE  Covers(log, p, Append(v, committed[Reads[p][Len(v) + 1]]), n)
<1> DEFINE c == committed[Reads[p][Len(v) + 1]]
           x == Append(v, c)
<1>1. Reads[p][Len(v) + 1] \in Store
  BY ProjectionFacts
<1>2. SUFFICES ASSUME NEW j \in DOMAIN x, NEW i \in 1 .. n, Reads[p][j] \in log[i]
               PROVE  x[j] >= i
  BY DEF Covers
<1>3. CASE j = Len(v) + 1
  <2>1. x[j] = c
    BY <1>3
  <2>2. i \in 1 .. Len(log)
    BY DEF TypeOK
  <2>3. Reads[p][Len(v) + 1] \in log[i]
    BY <1>2, <1>3
  <2>4. c >= i
    BY <2>2, <2>3 DEF StreamInv
  <2>5. QED
    BY <2>1, <2>4
<1>4. CASE j # Len(v) + 1
  <2>1. DOMAIN v = 1 .. Len(v) /\ DOMAIN x = 1 .. Len(v) + 1 /\ Len(v) \in Nat
    OBVIOUS
  <2>2. j \in 1 .. Len(v)
    BY <1>4, <2>1
  <2>3. x[j] = v[j] /\ j \in DOMAIN v
    BY <2>1, <2>2
  <2>4. QED
    BY <2>3, <1>2 DEF Covers
<1>5. QED
  BY <1>3, <1>4

-----------------------------------------------------------------------------
(* What an action leaves alone.                                            *)

(* The database only grows. *)
Grow ==
    /\ Len(log') >= Len(log)
    /\ \A i \in 1 .. Len(log) : log'[i] = log[i]
    /\ \A s \in Store : committed'[s] >= committed[s]

(* Nothing changes in process u. *)
Same(u) ==
    /\ mode'[u] = mode[u] /\ ready'[u] = ready[u] /\ failed'[u] = failed[u]
    /\ checkpoint'[u] = checkpoint[u] /\ cursor'[u] = cursor[u] /\ at'[u] = at[u]
    /\ buffer'[u] = buffer[u] /\ loaded'[u] = loaded[u] /\ view'[u] = view[u]
    /\ monitor'[u] = monitor[u] /\ refresher'[u] = refresher[u]

LEMMA AppendGrows ==
    ASSUME TypeOK, StreamInv, NEW S \in Transactions, Append1(S)
    PROVE  Grow /\ StreamInv'
<1>1. S \subseteq Store
  BY ProjectionAssumption
<1>2. /\ Len(log') = Len(log) + 1
      /\ log'[Len(log) + 1] = S
      /\ \A i \in 1 .. Len(log) : log'[i] = log[i]
  BY <1>1 DEF Append1, TypeOK
<1>3. \A s \in Store : committed'[s] = IF s \in S THEN Len(log) + 1 ELSE committed[s]
  BY DEF Append1
<1>4. \A s \in Store : committed[s] \in Nat /\ committed[s] <= Len(log)
  BY DEF TypeOK, StreamInv
<1>5. Len(log) \in Nat
  BY DEF TypeOK
<1>6. Grow
  BY <1>2, <1>3, <1>4, <1>5 DEF Grow
<1>7. \A s \in Store : committed'[s] <= Len(log')
  BY <1>2, <1>3, <1>4, <1>5
<1>8. ASSUME NEW i \in 1 .. Len(log'), NEW s \in log'[i] PROVE committed'[s] >= i
  <2>1. CASE i = Len(log) + 1
    BY <2>1, <1>1, <1>2, <1>3, <1>5
  <2>2. CASE i # Len(log) + 1
    <3>1. i \in 1 .. Len(log) /\ s \in log[i]
      BY <2>2, <1>2, <1>5
    <3>2. s \in Store /\ committed[s] >= i
      BY <3>1 DEF StreamInv, TypeOK
    <3>3. QED
      BY <3>1, <3>2, <1>3, <1>4, <1>5
  <2>3. QED
    BY <2>1, <2>2
<1>9. QED
  BY <1>6, <1>7, <1>8 DEF StreamInv

LEMMA UnchangedGrows ==
    ASSUME TypeOK, StreamInv, UNCHANGED database PROVE Grow /\ StreamInv'
  BY DEF database, Grow, TypeOK, StreamInv

LEMMA CoversLater ==
    ASSUME TypeOK, Grow, NEW p, NEW v, NEW n \in Nat, n <= Len(log), Covers(log, p, v, n)
    PROVE  Covers(log', p, v, n)
<1>1. \A i \in 1 .. n : log'[i] = log[i]
  BY DEF Grow, TypeOK
<1>2. QED
  BY <1>1, CoversGrow

LEMMA ViewFacts ==
    ASSUME TypeOK, NEW u \in Worker, NEW p \in Projection, NEW j \in DOMAIN Reads[p]
    PROVE  Reads[p][j] \in Store /\ view[u][p][j] \in Nat
<1>1. Reads[p] \in Seq(Store) /\ view[u][p] \in Seq(Nat) /\ Len(view[u][p]) = Len(Reads[p])
  BY ProjectionFacts DEF TypeOK
<1>2. QED
  BY <1>1

LEMMA PartialFacts ==
    ASSUME TypeOK, NEW u \in Worker, NEW t \in Task, NEW p \in Projection, Partial(u, t, p),
           NEW j \in DOMAIN buffer[u][t]
    PROVE  Reads[p][j] \in Store /\ buffer[u][t][j] \in Nat /\ j \in DOMAIN Reads[p]
<1>1. Reads[p] \in Seq(Store) /\ buffer[u][t] \in Seq(Nat) /\ Len(buffer[u][t]) < Len(Reads[p])
  BY ProjectionFacts DEF TypeOK, Partial
<1>2. QED
  BY <1>1

LEMMA PartialGrows ==
    ASSUME TypeOK, TypeOK', Grow, NEW u \in Worker, NEW p \in Projection, NEW t \in Task,
           Partial(u, t, p), buffer'[u] = buffer[u], view'[u] = view[u]
    PROVE  Partial(u, t, p)'
<1>1. ASSUME NEW j \in DOMAIN buffer[u][t]
      PROVE  buffer[u][t][j] <= committed'[Reads[p][j]]
  <2>1. Reads[p][j] \in Store /\ buffer[u][t][j] \in Nat
    BY PartialFacts
  <2>2. buffer[u][t][j] <= committed[Reads[p][j]]
    BY DEF Partial
  <2>3. /\ committed[Reads[p][j]] \in Nat /\ committed'[Reads[p][j]] \in Nat
        /\ committed'[Reads[p][j]] >= committed[Reads[p][j]]
    BY <2>1 DEF TypeOK, Grow
  <2>4. QED
    BY <2>1, <2>2, <2>3
<1>2. QED
  BY <1>1 DEF Partial

LEMMA RangeGrows ==
    ASSUME TypeOK, TypeOK', Grow, NEW u \in Worker, PhaseInv(u), AppliedInv(u), ViewInv(u),
           mode'[u] = mode[u], ready'[u] = ready[u], failed'[u] = failed[u],
           checkpoint'[u] = checkpoint[u], cursor'[u] = cursor[u], at'[u] = at[u],
           loaded'[u] = loaded[u], view'[u] = view[u]
    PROVE  AppliedInv(u)' /\ ViewInv(u)'
<1>1. /\ checkpoint[u] \in Nat /\ cursor[u] \in Nat /\ Len(log) \in Nat
      /\ checkpoint[u] <= cursor[u] /\ cursor[u] <= Len(log)
  BY DEF PhaseInv, TypeOK
<1>2. AppliedInv(u)'
  BY <1>1, CoversLater DEF AppliedInv
<1>3. \A p \in Projection : loaded[u][p] => Covers(log', p, view[u][p], checkpoint[u])
  BY <1>1, CoversLater DEF ViewInv
<1>4. ASSUME NEW p \in Projection, NEW j \in DOMAIN Reads[p]
      PROVE  view[u][p][j] <= committed'[Reads[p][j]]
  <2>1. Reads[p][j] \in Store /\ view[u][p][j] \in Nat
    BY ViewFacts
  <2>2. view[u][p][j] <= committed[Reads[p][j]]
    BY DEF ViewInv
  <2>3. /\ committed[Reads[p][j]] \in Nat /\ committed'[Reads[p][j]] \in Nat
        /\ committed'[Reads[p][j]] >= committed[Reads[p][j]]
    BY <2>1 DEF TypeOK, Grow
  <2>4. QED
    BY <2>1, <2>2, <2>3
<1>5. QED
  BY <1>2, <1>3, <1>4 DEF ViewInv

(* A step that does not touch process u keeps its invariant. *)
LEMMA Frame ==
    ASSUME TypeOK, TypeOK', Grow, NEW u \in Worker, Same(u), WorkerInv(u)
    PROVE  WorkerInv(u)'
<1> USE DEF Same
<1>1. /\ checkpoint[u] \in Nat /\ cursor[u] \in Nat /\ Len(log) \in Nat
      /\ checkpoint[u] <= cursor[u] /\ cursor[u] <= Len(log)
      /\ Len(log) <= Len(log')
  BY DEF WorkerInv, PhaseInv, TypeOK, Grow
<1>2. PhaseInv(u)' /\ LockInv(u)'
  BY <1>1 DEF WorkerInv, PhaseInv, LockInv
<1>3. BufferInv(u)'
  <2>1. Downstream \in Projection /\ (at[u] # 0 => Stages[at[u]] \in Projection)
    <3>1. at[u] # 0 => at[u] \in DOMAIN Stages
      BY ProjectionFacts DEF TypeOK
    <3>2. QED
      BY <3>1, ProjectionAssumption, ProjectionFacts
  <2>2. Partial(u, "refresh", Downstream)' /\ (at[u] # 0 => Partial(u, "sync", Stages[at[u]])')
    BY <2>1, PartialGrows DEF WorkerInv, BufferInv, Task
  <2>3. Covers(log', Downstream, buffer[u]["refresh"], checkpoint[u])
    BY <1>1, CoversLater DEF WorkerInv, BufferInv
  <2>4. (\E q \in 1 .. at[u] - 1 : Stages[q] = Downstream) =>
           Covers(log', Downstream, buffer[u]["refresh"], cursor[u])
    BY <1>1, CoversLater DEF WorkerInv, BufferInv
  <2>5. at[u] # 0 => Covers(log', Stages[at[u]], buffer[u]["sync"], cursor[u])
    BY <1>1, CoversLater DEF WorkerInv, BufferInv
  <2>6. QED
    BY <2>2, <2>3, <2>4, <2>5 DEF WorkerInv, BufferInv
<1>4. AppliedInv(u)' /\ ViewInv(u)'
  BY RangeGrows DEF WorkerInv
<1>5. QED
  BY <1>2, <1>3, <1>4 DEF WorkerInv

-----------------------------------------------------------------------------
(* What the shared pieces of the actions do, pointwise.                    *)

Bounded(w, p) == \A j \in DOMAIN Reads[p] : view[w][p][j] <= committed[Reads[p][j]]

LEMMA PublishEffect ==
    ASSUME TypeOK, StreamInv, NEW w \in Worker, NEW t \in Task, NEW p \in Projection,
           Partial(w, t, p), Bounded(w, p), Publish(w, t, p)
    PROVE  /\ buffer'[w][t] = <<>>
           /\ \A r \in Task \ {t} : buffer'[w][r] = buffer[w][r]
           /\ loaded'[w][p]
           /\ \A q \in Projection \ {p} : loaded'[w][q] = loaded[w][q] /\ view'[w][q] = view[w][q]
           /\ \A j \in DOMAIN Reads[p] : /\ view[w][p][j] <= view'[w][p][j]
                                         /\ view'[w][p][j] <= committed[Reads[p][j]]
           /\ \A n \in Nat : n <= Len(log) /\ Covers(log, p, buffer[w][t], n)
                               => Covers(log, p, view'[w][p], n)
           /\ \A u \in Worker \ {w} :
                buffer'[u] = buffer[u] /\ loaded'[u] = loaded[u] /\ view'[u] = view[u]
<1> DEFINE b == buffer[w][t]
           c == committed[Reads[p][Len(b) + 1]]
           x == Append(b, c)
<1>1. /\ b \in Seq(Nat) /\ Reads[p] \in Seq(Store) /\ Len(b) + 1 = Len(Reads[p])
      /\ Len(b) \in Nat /\ Len(Reads[p]) \in Nat /\ Len(b) < Len(Reads[p])
  BY ProjectionFacts DEF TypeOK, Publish
<1>2. view'[w][p] = x
  BY <1>1 DEF Publish, TypeOK
<1>3. /\ buffer'[w][t] = <<>> /\ loaded'[w][p]
      /\ \A r \in Task \ {t} : buffer'[w][r] = buffer[w][r]
      /\ \A q \in Projection \ {p} : loaded'[w][q] = loaded[w][q] /\ view'[w][q] = view[w][q]
      /\ \A u \in Worker \ {w} :
           buffer'[u] = buffer[u] /\ loaded'[u] = loaded[u] /\ view'[u] = view[u]
  BY DEF Publish, TypeOK
<1>4. ASSUME NEW j \in DOMAIN Reads[p]
      PROVE  view[w][p][j] <= x[j] /\ x[j] <= committed[Reads[p][j]]
  <2>1. j \in 1 .. Len(b) + 1 /\ committed[Reads[p][j]] \in Nat
    <3>1. j \in 1 .. Len(Reads[p])
      BY <1>1
    <3>2. Reads[p][j] \in Store
      BY <1>1, <3>1
    <3>3. QED
      BY <1>1, <3>1, <3>2 DEF TypeOK
  <2>2. CASE j = Len(b) + 1
    <3>1. x[j] = committed[Reads[p][j]]
      BY <1>1, <2>2
    <3>2. QED
      BY <2>1, <3>1 DEF Bounded
  <2>3. CASE j # Len(b) + 1
    <3>1. j \in DOMAIN b /\ x[j] = b[j]
      BY <1>1, <2>1, <2>3
    <3>2. QED
      BY <3>1 DEF Partial
  <2>4. QED
    BY <2>2, <2>3
<1>5. ASSUME NEW n \in Nat, n <= Len(log), Covers(log, p, b, n)
      PROVE  Covers(log, p, x, n)
  <2>1. b \in Seq(Nat) /\ Len(b) < Len(Reads[p])
    BY <1>1
  <2> HIDE DEF b
  <2>2. QED
    BY <1>5, <2>1, CoversAppend
<1>6. QED
  BY <1>2, <1>3, <1>4, <1>5

LEMMA ReadEffect ==
    ASSUME TypeOK, StreamInv, NEW w \in Worker, NEW t \in Task, NEW p \in Projection,
           Partial(w, t, p), Bounded(w, p), Read(w, t, p), UNCHANGED database
    PROVE  /\ \A r \in Task \ {t} : buffer'[w][r] = buffer[w][r]
           /\ Partial(w, t, p)'
           /\ \A n \in Nat : n <= Len(log) /\ Covers(log, p, buffer[w][t], n)
                               => Covers(log, p, buffer'[w][t], n)
           /\ \A u \in Worker \ {w} : buffer'[u] = buffer[u]
           /\ loaded' = loaded /\ view' = view /\ monitor' = monitor
<1> DEFINE b == buffer[w][t]
           c == committed[Reads[p][Len(b) + 1]]
           x == Append(b, c)
<1>1. /\ b \in Seq(Nat) /\ Reads[p] \in Seq(Store) /\ Len(b) + 1 < Len(Reads[p])
      /\ Len(b) \in Nat /\ Len(Reads[p]) \in Nat
  BY ProjectionFacts DEF TypeOK, Read
<1>2. /\ buffer'[w][t] = x
      /\ \A r \in Task \ {t} : buffer'[w][r] = buffer[w][r]
      /\ \A u \in Worker \ {w} : buffer'[u] = buffer[u]
      /\ loaded' = loaded /\ view' = view /\ monitor' = monitor
  <2>1. buffer' = [buffer EXCEPT ![w] = [@ EXCEPT ![t] = x]]
    BY DEF Read
  <2> HIDE DEF x
  <2>2. buffer \in [Worker -> [Task -> Seq(Nat)]]
    BY DEF TypeOK
  <2>3. loaded' = loaded /\ view' = view /\ monitor' = monitor
    BY DEF Read
  <2>4. QED
    BY <2>1, <2>2, <2>3
<1>3. Len(x) = Len(b) + 1 /\ DOMAIN x = 1 .. Len(b) + 1
  BY <1>1
<1>4. ASSUME NEW j \in DOMAIN x
      PROVE  view[w][p][j] <= x[j] /\ x[j] <= committed[Reads[p][j]]
  <2>1. j \in DOMAIN Reads[p] /\ committed[Reads[p][j]] \in Nat
    <3>1. j \in 1 .. Len(Reads[p])
      BY <1>1, <1>3
    <3>2. j \in DOMAIN Reads[p] /\ Reads[p][j] \in Store
      BY <1>1, <3>1
    <3>3. QED
      BY <3>2 DEF TypeOK
  <2>2. CASE j = Len(b) + 1
    <3>1. x[j] = committed[Reads[p][j]]
      BY <1>1, <2>2
    <3>2. view[w][p][j] <= committed[Reads[p][j]]
      BY <2>1 DEF Bounded
    <3>3. QED
      BY <2>1, <3>1, <3>2
  <2>3. CASE j # Len(b) + 1
    <3>1. j \in DOMAIN b /\ x[j] = b[j]
      BY <1>1, <1>3, <2>3
    <3>2. QED
      BY <3>1 DEF Partial
  <2>4. QED
    BY <2>2, <2>3
<1>5. committed' = committed
  BY DEF database
<1>6. Partial(w, t, p)'
  BY <1>1, <1>2, <1>3, <1>4, <1>5 DEF Partial
<1>7. ASSUME NEW n \in Nat, n <= Len(log), Covers(log, p, b, n)
      PROVE  Covers(log, p, x, n)
  <2>1. b \in Seq(Nat) /\ Len(b) < Len(Reads[p])
    BY <1>1
  <2> HIDE DEF b
  <2>2. QED
    BY <1>7, <2>1, CoversAppend
<1>8. QED
  BY <1>2, <1>6, <1>7

LEMMA DiscardEffect ==
    ASSUME TypeOK, NEW w \in Worker, NEW t \in Task, NEW p \in Projection, Discard(w, t, p)
    PROVE  /\ buffer'[w][t] = <<>>
           /\ \A r \in Task \ {t} : buffer'[w][r] = buffer[w][r]
           /\ loaded'[w][p] => loaded[w][p]
           /\ \A q \in Projection \ {p} : loaded'[w][q] = loaded[w][q]
           /\ \A u \in Worker \ {w} : buffer'[u] = buffer[u] /\ loaded'[u] = loaded[u]
           /\ view' = view
  BY DEF Discard, TypeOK

LEMMA Conclude ==
    ASSUME IInv, TypeOK', Grow, StreamInv', NEW w \in Worker, WorkerInv(w)',
           \A u \in Worker \ {w} : Same(u)
    PROVE  IInv'
<1>1. ASSUME NEW u \in Worker, u # w PROVE WorkerInv(u)'
  BY <1>1, Frame DEF IInv
<1>2. QED
  BY <1>1 DEF IInv

-----------------------------------------------------------------------------
(* Steps between reloads. *)

LEMMA ControlStep ==
    ASSUME IInv, NEW w \in Worker, at[w] = 0, UNCHANGED database,
           buffer'[w] = buffer[w], view'[w] = view[w], monitor'[w] = monitor[w],
           refresher'[w] = refresher[w], checkpoint'[w] = checkpoint[w],
           at'[w] \in 0 .. Len(Stages), at'[w] \in {0, 1} \/ refresher[w] = "idle"
    PROVE  LockInv(w)' /\ BufferInv(w)'
<1>1. /\ buffer[w]["sync"] = <<>> /\ monitor[w] # "sync"
      /\ refresher[w] = "idle" => buffer[w]["refresh"] = <<>>
  BY DEF IInv, WorkerInv, BufferInv, LockInv
<1>2. LockInv(w)'
  BY <1>1 DEF IInv, WorkerInv, LockInv
<1>3. at'[w] # 0 => Partial(w, "sync", Stages[at[w]])'
  <2>1. at'[w] # 0 => Stages[at'[w]] \in Projection /\ Len(Reads[Stages[at'[w]]]) > 0
    BY ProjectionFacts
  <2>2. QED
    BY <2>1, <1>1 DEF Partial
<1>4. Partial(w, "refresh", Downstream)'
  BY DEF IInv, WorkerInv, BufferInv, Partial, database
<1>5. Covers(log', Downstream, buffer'[w]["refresh"], checkpoint'[w])
  BY DEF IInv, WorkerInv, BufferInv, database
<1>6. (\E q \in 1 .. at'[w] - 1 : Stages[q] = Downstream) =>
         Covers(log', Downstream, buffer'[w]["refresh"], cursor'[w])
  BY <1>1, CoversEmpty
<1>7. Covers(log', Stages[at'[w]], buffer'[w]["sync"], cursor'[w])
  BY <1>1, CoversEmpty
<1>8. BufferInv(w)'
  BY <1>1, <1>3, <1>4, <1>5, <1>6, <1>7 DEF IInv, WorkerInv, BufferInv
<1>9. QED
  BY <1>2, <1>8

(* The facts of IInv about one worker that the steps below start from. *)
LEMMA WorkerFacts ==
    ASSUME IInv, NEW w \in Worker
    PROVE  /\ TypeOK /\ StreamInv
           /\ PhaseInv(w) /\ LockInv(w) /\ BufferInv(w) /\ AppliedInv(w) /\ ViewInv(w)
           /\ checkpoint[w] \in Nat /\ cursor[w] \in Nat /\ Len(log) \in Nat
           /\ at[w] \in 0 .. Len(Stages)
  BY DEF IInv, WorkerInv, TypeOK

LEMMA StartStep == ASSUME IInv, TypeOK', NEW w \in Worker, Start(w) PROVE IInv'
<1> USE WorkerFacts
<1>1. /\ UNCHANGED database /\ UNCHANGED projections /\ UNCHANGED refresher
      /\ UNCHANGED <<ready, failed, checkpoint, cursor, at>>
      /\ mode[w] = "down" /\ mode'[w] = "fence"
      /\ \A u \in Worker \ {w} : mode'[u] = mode[u]
  BY DEF Start, TypeOK
<1>2. at[w] = 0
  BY <1>1 DEF PhaseInv
<1>3. LockInv(w)' /\ BufferInv(w)'
  BY <1>1, <1>2, ControlStep DEF projections
<1>4. PhaseInv(w)' /\ AppliedInv(w)' /\ ViewInv(w)'
  BY <1>1, <1>2 DEF PhaseInv, AppliedInv, ViewInv, projections, database
<1>5. Grow /\ StreamInv'
  BY <1>1, UnchangedGrows
<1>6. \A u \in Worker \ {w} : Same(u)
  BY <1>1 DEF Same, projections
<1>7. QED
  BY <1>3, <1>4, <1>5, <1>6, Conclude DEF WorkerInv

LEMMA FenceReadStep == ASSUME IInv, TypeOK', NEW w \in Worker, FenceRead(w) PROVE IInv'
<1> USE WorkerFacts
<1>1. /\ UNCHANGED database /\ UNCHANGED projections /\ UNCHANGED refresher
      /\ UNCHANGED <<mode, ready, failed, checkpoint, at>>
      /\ mode[w] = "fence" /\ cursor'[w] > cursor[w] /\ cursor'[w] <= Len(log)
      /\ \A u \in Worker \ {w} : cursor'[u] = cursor[u]
  BY DEF FenceRead, Pending, TypeOK
<1>2. at[w] = 0
  BY <1>1 DEF PhaseInv
<1>3. LockInv(w)' /\ BufferInv(w)'
  BY <1>1, <1>2, ControlStep DEF projections
<1>4. cursor'[w] \in Nat
  BY DEF TypeOK
<1>5. PhaseInv(w)' /\ AppliedInv(w)' /\ ViewInv(w)'
  BY <1>1, <1>2, <1>4 DEF PhaseInv, AppliedInv, ViewInv, projections, database
<1>6. Grow /\ StreamInv'
  BY <1>1, UnchangedGrows
<1>7. \A u \in Worker \ {w} : Same(u)
  BY <1>1 DEF Same, projections
<1>8. QED
  BY <1>3, <1>5, <1>6, <1>7, Conclude DEF WorkerInv

LEMMA FenceReachedStep == ASSUME IInv, TypeOK', NEW w \in Worker, FenceReached(w) PROVE IInv'
<1> USE WorkerFacts
<1>1. /\ UNCHANGED database /\ UNCHANGED projections /\ UNCHANGED refresher
      /\ UNCHANGED <<ready, failed, checkpoint, cursor>>
      /\ mode[w] = "fence" /\ mode'[w] = "hydrate" /\ at'[w] = 1
      /\ \A u \in Worker \ {w} : mode'[u] = mode[u] /\ at'[u] = at[u]
  BY DEF FenceReached, TypeOK
<1>2. at[w] = 0
  BY <1>1 DEF PhaseInv
<1>3. LockInv(w)' /\ BufferInv(w)'
  BY <1>1, <1>2, ControlStep, ProjectionFacts DEF projections
<1>4. PhaseInv(w)' /\ AppliedInv(w)' /\ ViewInv(w)'
  BY <1>1, <1>2 DEF PhaseInv, AppliedInv, ViewInv, projections, database
<1>5. Grow /\ StreamInv'
  BY <1>1, UnchangedGrows
<1>6. \A u \in Worker \ {w} : Same(u)
  BY <1>1 DEF Same, projections
<1>7. QED
  BY <1>3, <1>4, <1>5, <1>6, Conclude DEF WorkerInv

(* Poll and Retry: a reload starts for a cursor at or past the checkpoint. *)
LEMMA ReloadStartStep ==
    ASSUME IInv, TypeOK', NEW w \in Worker, Poll(w) \/ Retry(w) PROVE IInv'
<1> USE WorkerFacts
<1>1. /\ UNCHANGED database /\ UNCHANGED projections /\ UNCHANGED refresher
      /\ UNCHANGED <<mode, ready, failed, checkpoint>>
      /\ mode[w] \in {"replay", "running"} /\ at[w] = 0 /\ at'[w] = 1
      /\ \A u \in Worker \ {w} : cursor'[u] = cursor[u] /\ at'[u] = at[u]
  BY DEF Poll, Retry, TypeOK
<1>2. checkpoint[w] <= cursor'[w] /\ cursor'[w] <= Len(log)
  BY DEF Poll, Retry, Pending, TypeOK, PhaseInv
<1>3. LockInv(w)' /\ BufferInv(w)'
  BY <1>1, ControlStep, ProjectionFacts DEF projections
<1>4. PhaseInv(w)' /\ AppliedInv(w)' /\ ViewInv(w)'
  BY <1>1, <1>2 DEF PhaseInv, AppliedInv, ViewInv, projections, database
<1>5. Grow /\ StreamInv'
  BY <1>1, UnchangedGrows
<1>6. \A u \in Worker \ {w} : Same(u)
  BY <1>1 DEF Same, projections
<1>7. QED
  BY <1>3, <1>4, <1>5, <1>6, Conclude DEF WorkerInv

LEMMA BootstrappedStep == ASSUME IInv, TypeOK', NEW w \in Worker, Bootstrapped(w) PROVE IInv'
<1> USE WorkerFacts
<1>1. /\ UNCHANGED database /\ UNCHANGED projections /\ UNCHANGED refresher
      /\ UNCHANGED <<failed, checkpoint, cursor>>
      /\ mode[w] = "replay" /\ mode'[w] = "baseline" /\ at[w] = 0 /\ ~failed[w]
      /\ at'[w] \in DOMAIN Stages /\ Stages[at'[w]] = Downstream
      /\ \A u \in Worker \ {w} :
           mode'[u] = mode[u] /\ at'[u] = at[u] /\ ready'[u] = ready[u]
  BY DEF Bootstrapped, TypeOK
<1>2. refresher[w] = "idle" /\ at'[w] \in 1 .. Len(Stages)
  BY <1>1, ProjectionFacts DEF PhaseInv
<1>3. LockInv(w)' /\ BufferInv(w)'
  BY <1>1, <1>2, ControlStep DEF projections
<1>4. PhaseInv(w)' /\ AppliedInv(w)' /\ ViewInv(w)'
  BY <1>1, <1>2 DEF PhaseInv, AppliedInv, ViewInv, projections, database
<1>5. Grow /\ StreamInv'
  BY <1>1, UnchangedGrows
<1>6. \A u \in Worker \ {w} : Same(u)
  BY <1>1 DEF Same, projections
<1>7. QED
  BY <1>3, <1>4, <1>5, <1>6, Conclude DEF WorkerInv

LEMMA SyncListFailsStep == ASSUME IInv, TypeOK', NEW w \in Worker, SyncListFails(w) PROVE IInv'
<1> USE WorkerFacts
<1>1. /\ UNCHANGED database /\ UNCHANGED projections /\ UNCHANGED refresher
      /\ UNCHANGED <<mode, checkpoint, cursor, at>>
      /\ mode[w] = "running" /\ at[w] = 0 /\ ~ready'[w]
      /\ \A u \in Worker \ {w} : ready'[u] = ready[u] /\ failed'[u] = failed[u]
  BY DEF SyncListFails, TypeOK
<1>2. LockInv(w)' /\ BufferInv(w)'
  BY <1>1, ControlStep DEF projections
<1>3. PhaseInv(w)' /\ AppliedInv(w)' /\ ViewInv(w)'
  BY <1>1 DEF PhaseInv, AppliedInv, ViewInv, projections, database
<1>4. Grow /\ StreamInv'
  BY <1>1, UnchangedGrows
<1>5. \A u \in Worker \ {w} : Same(u)
  BY <1>1 DEF Same, projections
<1>6. QED
  BY <1>2, <1>3, <1>4, <1>5, Conclude DEF WorkerInv

-----------------------------------------------------------------------------
(* Steps that take or give back the monitor's lock, or change the stores   *)
(* while holding it.                                                       *)

LEMMA LockStep ==
    ASSUME IInv, TypeOK', NEW w \in Worker,
           SyncAcquire(w) \/ RefreshBegin(w) \/ RefreshObsolete(w) \/ RefreshRaises(w)
    PROVE  IInv'
<1> USE WorkerFacts
<1>1. /\ UNCHANGED database /\ UNCHANGED sync /\ UNCHANGED <<buffer, loaded, view>>
      /\ \A u \in Worker \ {w} : monitor'[u] = monitor[u] /\ refresher'[u] = refresher[u]
  BY DEF SyncAcquire, RefreshBegin, RefreshObsolete, RefreshRaises, Acquire, Release, TypeOK
<1>2. \/ /\ monitor[w] = "free" /\ monitor'[w] = "sync" /\ refresher'[w] = refresher[w]
         /\ at[w] # 0 /\ Stages[at[w]] = Downstream
      \/ /\ monitor[w] = "free" /\ monitor'[w] = "refresh" /\ mode[w] = "running"
         /\ refresher[w] = "idle" /\ refresher'[w] = "before"
      \/ /\ refresher[w] = "change" /\ monitor'[w] = "free"
         /\ refresher'[w] \in {"idle", "dead"}
  BY DEF SyncAcquire, RefreshBegin, RefreshObsolete, RefreshRaises, Acquire, Release, TypeOK
<1>3. PhaseInv(w)' /\ LockInv(w)'
  BY <1>1, <1>2 DEF PhaseInv, LockInv, sync, database
<1>4. BufferInv(w)'
  <2>1. /\ buffer[w]["sync"] # <<>> =>
             at[w] # 0 /\ (Stages[at[w]] = Downstream => monitor'[w] = "sync")
        /\ buffer[w]["refresh"] # <<>> => refresher'[w] \in {"before", "after"}
    BY <1>2 DEF BufferInv, LockInv
  <2>2. \A t \in Task : \A p : Partial(w, t, p)' = Partial(w, t, p)
    BY <1>1 DEF Partial, database
  <2>3. QED
    BY <1>1, <2>1, <2>2 DEF BufferInv, sync, database, Task
<1>5. AppliedInv(w)' /\ ViewInv(w)'
  BY <1>1 DEF AppliedInv, ViewInv, sync, database
<1>6. Grow /\ StreamInv'
  BY <1>1, UnchangedGrows
<1>7. \A u \in Worker \ {w} : Same(u)
  BY <1>1 DEF Same, sync
<1>8. QED
  BY <1>3, <1>4, <1>5, <1>6, <1>7, Conclude DEF WorkerInv

LEMMA CommitStep == ASSUME IInv, TypeOK', NEW S \in Transactions, Commit(S) PROVE IInv'
<1>1. Grow /\ StreamInv'
  BY AppendGrows DEF Commit, IInv
<1>2. \A u \in Worker : Same(u)
  BY DEF Commit, Same, sync, projections
<1>3. \A u \in Worker : WorkerInv(u)'
  BY <1>1, <1>2, Frame DEF IInv
<1>4. QED
  BY <1>1, <1>3 DEF IInv

(* The change under the lock is a commit and a step of the lock's holder;  *)
(* the invariant is kept by each.                                          *)
LEMMA RefreshChangeStep ==
    ASSUME IInv, TypeOK', NEW w \in Worker, NEW S \in Transactions, RefreshChange(w, S)
    PROVE  IInv'
<1> USE WorkerFacts
<1>1. /\ UNCHANGED sync /\ UNCHANGED projections
      /\ refresher[w] = "change" /\ refresher'[w] = "after"
      /\ \A u \in Worker \ {w} : refresher'[u] = refresher[u]
  BY DEF RefreshChange, TypeOK
<1>2. Grow /\ StreamInv'
  BY AppendGrows DEF RefreshChange
<1>3. Len(log) <= Len(log') /\ Len(log') \in Nat
  BY <1>2 DEF Grow, TypeOK
<1>4. PhaseInv(w)' /\ LockInv(w)'
  BY <1>1, <1>3 DEF PhaseInv, LockInv, sync, projections
<1>5. buffer[w]["refresh"] = <<>>
  BY <1>1 DEF BufferInv
<1>6. \A p \in Projection, t \in Task : Partial(w, t, p) => Partial(w, t, p)'
  BY <1>1, <1>2, PartialGrows DEF projections
<1>7. BufferInv(w)'
  <2>1. Partial(w, "refresh", Downstream)' /\ (at[w] # 0 => Partial(w, "sync", Stages[at[w]])')
    <3>1. Downstream \in Projection /\ at' = at
      BY <1>1, ProjectionAssumption DEF sync
    <3>2. at[w] # 0 => Stages[at[w]] \in Projection
      BY ProjectionFacts
    <3>3. QED
      BY <1>6, <3>1, <3>2 DEF BufferInv, Task
  <2>2. \A p, n : Covers(log', p, buffer[w]["refresh"], n)
    BY <1>5, CoversEmpty
  <2>3. at[w] # 0 => Covers(log', Stages[at[w]], buffer[w]["sync"], cursor[w])
    BY <1>2, CoversLater DEF BufferInv, PhaseInv
  <2>4. QED
    BY <1>1, <1>5, <2>1, <2>2, <2>3 DEF BufferInv, sync, projections
<1>8. AppliedInv(w)' /\ ViewInv(w)'
  BY <1>1, <1>2, RangeGrows DEF sync, projections
<1>9. \A u \in Worker \ {w} : Same(u)
  BY <1>1 DEF Same, sync, projections
<1>10. QED
  BY <1>2, <1>4, <1>7, <1>8, <1>9, Conclude DEF WorkerInv

-----------------------------------------------------------------------------
(* Reads. *)

LEMMA SyncReadStep == ASSUME IInv, TypeOK', NEW w \in Worker, SyncRead(w) PROVE IInv'
<1> USE WorkerFacts
<1>0. PICK p \in Projection : p = Stages[at[w]]
  BY ProjectionFacts DEF SyncRead
<1>1. /\ at[w] # 0 /\ Read(w, "sync", p)
      /\ UNCHANGED database /\ UNCHANGED sync /\ UNCHANGED refresher
      /\ "sync" \in Task /\ "refresh" \in Task \ {"sync"}
  BY <1>0 DEF SyncRead, Task
<1>2. Bounded(w, p) /\ Partial(w, "sync", p) /\ Covers(log, p, buffer[w]["sync"], cursor[w])
  BY <1>0, <1>1 DEF ViewInv, BufferInv, Bounded
<1>3. /\ buffer'[w]["refresh"] = buffer[w]["refresh"]
      /\ Partial(w, "sync", p)'
      /\ Covers(log, p, buffer'[w]["sync"], cursor[w])
      /\ \A u \in Worker \ {w} : buffer'[u] = buffer[u]
      /\ loaded' = loaded /\ view' = view /\ monitor' = monitor
  <2>1. cursor[w] <= Len(log)
    BY DEF PhaseInv
  <2>2. \A n \in Nat : n <= Len(log) /\ Covers(log, p, buffer[w]["sync"], n)
           => Covers(log, p, buffer'[w]["sync"], n)
    BY <1>1, <1>2, ReadEffect
  <2>3. QED
    BY <1>1, <1>2, <2>1, <2>2, ReadEffect
<1>4. PhaseInv(w)' /\ LockInv(w)' /\ AppliedInv(w)' /\ ViewInv(w)'
  BY <1>1, <1>3 DEF PhaseInv, LockInv, AppliedInv, ViewInv, sync, database
<1>5. BufferInv(w)'
  <2>1. p = Downstream => monitor[w] = "sync"
    BY <1>1 DEF Read, Mutex
  <2>2. Partial(w, "refresh", Downstream)'
    BY <1>1, <1>3 DEF BufferInv, Partial, database
  <2>3. QED
    BY <1>0, <1>1, <1>3, <2>1, <2>2 DEF BufferInv, sync, database
<1>6. Grow /\ StreamInv'
  BY <1>1, UnchangedGrows
<1>7. \A u \in Worker \ {w} : Same(u)
  BY <1>1, <1>3 DEF Same, sync
<1>8. QED
  BY <1>4, <1>5, <1>6, <1>7, Conclude DEF WorkerInv

LEMMA RefreshReadStep == ASSUME IInv, TypeOK', NEW w \in Worker, RefreshRead(w) PROVE IInv'
<1> USE WorkerFacts
<1>1. /\ Read(w, "refresh", Downstream) /\ refresher[w] \in {"before", "after"}
      /\ UNCHANGED database /\ UNCHANGED sync /\ UNCHANGED refresher
      /\ "refresh" \in Task /\ "sync" \in Task \ {"refresh"} /\ Downstream \in Projection
  BY ProjectionAssumption DEF RefreshRead, Task
<1>2. Bounded(w, Downstream) /\ Partial(w, "refresh", Downstream)
  BY <1>1 DEF ViewInv, BufferInv, Bounded
<1>3. /\ buffer'[w]["sync"] = buffer[w]["sync"]
      /\ Partial(w, "refresh", Downstream)'
      /\ \A n \in Nat : n <= Len(log) /\ Covers(log, Downstream, buffer[w]["refresh"], n)
           => Covers(log, Downstream, buffer'[w]["refresh"], n)
      /\ \A u \in Worker \ {w} : buffer'[u] = buffer[u]
      /\ loaded' = loaded /\ view' = view /\ monitor' = monitor
  BY <1>1, <1>2, ReadEffect
<1>4. PhaseInv(w)' /\ LockInv(w)' /\ AppliedInv(w)' /\ ViewInv(w)'
  BY <1>1, <1>3 DEF PhaseInv, LockInv, AppliedInv, ViewInv, sync, database
<1>5. BufferInv(w)'
  <2>1. /\ Covers(log, Downstream, buffer'[w]["refresh"], checkpoint[w])
        /\ (\E q \in 1 .. at[w] - 1 : Stages[q] = Downstream) =>
             Covers(log, Downstream, buffer'[w]["refresh"], cursor[w])
    BY <1>3 DEF BufferInv, PhaseInv
  <2>2. at[w] # 0 => Partial(w, "sync", Stages[at[w]])'
    BY <1>1, <1>3 DEF BufferInv, Partial, database, sync
  <2>3. QED
    BY <1>1, <1>3, <2>1, <2>2 DEF BufferInv, sync, database
<1>6. Grow /\ StreamInv'
  BY <1>1, UnchangedGrows
<1>7. \A u \in Worker \ {w} : Same(u)
  BY <1>1, <1>3 DEF Same, sync
<1>8. QED
  BY <1>4, <1>5, <1>6, <1>7, Conclude DEF WorkerInv

-----------------------------------------------------------------------------
(* Publications. *)

LEMMA SyncPublishEffect ==
    ASSUME IInv, TypeOK', NEW w \in Worker, NEW p \in Projection,
           at[w] # 0, Stages[at[w]] = p, Publish(w, "sync", p), ReleaseAfter(w, p),
           UNCHANGED database, refresher' = refresher
    PROVE  /\ buffer'[w]["sync"] = <<>> /\ buffer'[w]["refresh"] = buffer[w]["refresh"]
           /\ p = Downstream => buffer[w]["refresh"] = <<>>
           /\ Partial(w, "refresh", Downstream)'
           /\ monitor'[w] # "sync"
           /\ monitor'[w] = "refresh" <=> refresher[w] \in {"before", "change", "after"}
           /\ loaded'[w][p] /\ Covers(log, p, view'[w][p], cursor[w])
           /\ \A q \in Projection \ {p} : loaded'[w][q] = loaded[w][q] /\ view'[w][q] = view[w][q]
           /\ \A q \in Projection : \A j \in DOMAIN Reads[q] :
                view'[w][q][j] <= committed'[Reads[q][j]]
           /\ \A u \in Worker \ {w} : /\ buffer'[u] = buffer[u] /\ loaded'[u] = loaded[u]
                                      /\ view'[u] = view[u] /\ monitor'[u] = monitor[u]
<1> USE WorkerFacts
<1>1. "sync" \in Task /\ "refresh" \in Task \ {"sync"} /\ committed' = committed
  BY DEF Task, database
<1>2. Bounded(w, p) /\ Partial(w, "sync", p) /\ Covers(log, p, buffer[w]["sync"], cursor[w])
  BY DEF ViewInv, BufferInv, Bounded
<1>3. /\ buffer'[w]["sync"] = <<>> /\ buffer'[w]["refresh"] = buffer[w]["refresh"]
      /\ loaded'[w][p]
      /\ \A q \in Projection \ {p} : loaded'[w][q] = loaded[w][q] /\ view'[w][q] = view[w][q]
      /\ \A u \in Worker \ {w} :
           buffer'[u] = buffer[u] /\ loaded'[u] = loaded[u] /\ view'[u] = view[u]
      /\ \A j \in DOMAIN Reads[p] : view'[w][p][j] <= committed[Reads[p][j]]
      /\ \A n \in Nat : n <= Len(log) /\ Covers(log, p, buffer[w]["sync"], n)
                          => Covers(log, p, view'[w][p], n)
  BY <1>1, <1>2, PublishEffect
<1>4. Covers(log, p, view'[w][p], cursor[w])
  BY <1>2, <1>3 DEF PhaseInv
<1>5. p = Downstream => monitor[w] = "sync" /\ buffer[w]["refresh"] = <<>>
  BY DEF Publish, Mutex, LockInv, BufferInv
<1>6. /\ monitor'[w] # "sync"
      /\ monitor'[w] = "refresh" <=> refresher[w] \in {"before", "change", "after"}
      /\ \A u \in Worker \ {w} : monitor'[u] = monitor[u]
  BY <1>5 DEF ReleaseAfter, Release, LockInv, TypeOK
<1>7. Partial(w, "refresh", Downstream)'
  <2>1. CASE p = Downstream
    BY <2>1, <1>3, <1>5, ProjectionFacts DEF Partial
  <2>2. CASE p # Downstream
    <3>1. view'[w][Downstream] = view[w][Downstream]
      BY <2>2, <1>3, ProjectionAssumption
    <3>2. QED
      BY <3>1, <1>1, <1>3 DEF BufferInv, Partial
  <2>3. QED
    BY <2>1, <2>2
<1>8. ASSUME NEW q \in Projection, NEW j \in DOMAIN Reads[q]
      PROVE  view'[w][q][j] <= committed'[Reads[q][j]]
  BY <1>1, <1>3 DEF ViewInv
<1>9. QED
  BY <1>3, <1>4, <1>5, <1>6, <1>7, <1>8

LEMMA SyncPublishStep == ASSUME IInv, TypeOK', NEW w \in Worker, SyncPublish(w) PROVE IInv'
<1> USE WorkerFacts
<1>0. PICK p \in Projection : p = Stages[at[w]]
  BY ProjectionFacts DEF SyncPublish
<1>1. /\ at[w] # 0 /\ at[w] < Len(Stages) /\ at'[w] = at[w] + 1 /\ mode[w] # "baseline"
      /\ Publish(w, "sync", p) /\ ReleaseAfter(w, p)
      /\ UNCHANGED database /\ refresher' = refresher
      /\ UNCHANGED <<mode, ready, failed, checkpoint, cursor>>
      /\ \A u \in Worker \ {w} : at'[u] = at[u]
  BY <1>0 DEF SyncPublish, TypeOK
<1>2. /\ buffer'[w]["sync"] = <<>> /\ buffer'[w]["refresh"] = buffer[w]["refresh"]
      /\ p = Downstream => buffer[w]["refresh"] = <<>>
      /\ Partial(w, "refresh", Downstream)'
      /\ monitor'[w] # "sync"
      /\ monitor'[w] = "refresh" <=> refresher[w] \in {"before", "change", "after"}
      /\ loaded'[w][p] /\ Covers(log, p, view'[w][p], cursor[w])
      /\ \A q \in Projection \ {p} : loaded'[w][q] = loaded[w][q] /\ view'[w][q] = view[w][q]
      /\ \A q \in Projection : \A j \in DOMAIN Reads[q] :
           view'[w][q][j] <= committed'[Reads[q][j]]
      /\ \A u \in Worker \ {w} : /\ buffer'[u] = buffer[u] /\ loaded'[u] = loaded[u]
                                 /\ view'[u] = view[u] /\ monitor'[u] = monitor[u]
  BY <1>0, <1>1, SyncPublishEffect
<1>3. PhaseInv(w)' /\ LockInv(w)'
  BY <1>1, <1>2 DEF PhaseInv, LockInv, database
<1>4. BufferInv(w)'
  <2>1. Partial(w, "sync", Stages[at[w]])'
    <3>1. Stages[at'[w]] \in Projection
      BY <1>1, ProjectionFacts
    <3>2. QED
      BY <3>1, <1>2, ProjectionFacts DEF Partial
  <2>2. \A n : Covers(log', Stages[at'[w]], buffer'[w]["sync"], n)
    BY <1>2, CoversEmpty
  <2>3. Covers(log', Downstream, buffer'[w]["refresh"], checkpoint'[w])
    BY <1>1, <1>2 DEF BufferInv, database
  <2>4. ASSUME NEW q \in 1 .. at'[w] - 1, Stages[q] = Downstream
        PROVE  Covers(log', Downstream, buffer'[w]["refresh"], cursor'[w])
    <3>1. CASE q = at[w]
      BY <3>1, <2>4, <1>0, <1>2, CoversEmpty
    <3>2. CASE q # at[w]
      <4>1. q \in 1 .. at[w] - 1
        BY <3>2, <1>1
      <4>2. QED
        BY <4>1, <2>4, <1>1, <1>2 DEF BufferInv, database
    <3>3. QED
      BY <3>1, <3>2
  <2>5. QED
    BY <1>1, <1>2, <2>1, <2>2, <2>3, <2>4 DEF BufferInv
<1>5. AppliedInv(w)'
  <2>1. SUFFICES ASSUME NEW q \in 1 .. at'[w] - 1
                 PROVE  /\ Stages[q] # Downstream \/ mode[w] # "running" => loaded'[w][Stages[q]]
                        /\ loaded'[w][Stages[q]] =>
                             Covers(log, Stages[q], view'[w][Stages[q]], cursor[w])
    BY <1>1 DEF AppliedInv, database
  <2>2. CASE q = at[w]
    BY <2>2, <1>0, <1>2
  <2>3. CASE q # at[w]
    <3>1. q \in 1 .. at[w] - 1 /\ q \in DOMAIN Stages /\ at[w] \in DOMAIN Stages
      BY <2>3, <1>1, ProjectionFacts
    <3>2. Stages[q] \in Projection \ {p}
      BY <3>1, <2>3, <1>0, ProjectionFacts, ProjectionAssumption
    <3>3. QED
      BY <3>1, <3>2, <1>1, <1>2 DEF AppliedInv
  <2>4. QED
    BY <2>2, <2>3
<1>6. ViewInv(w)'
  <2>1. Covers(log, p, view'[w][p], checkpoint[w])
    BY <1>2, CoversLess DEF PhaseInv
  <2>2. \A q \in Projection : loaded[w][q] => loaded'[w][q]
    BY <1>2
  <2>3. \A q \in Projection : loaded'[w][q] => Covers(log, q, view'[w][q], checkpoint[w])
    BY <1>2, <2>1 DEF ViewInv
  <2>4. QED
    BY <1>1, <1>2, <2>2, <2>3 DEF ViewInv, database
<1>7. Grow /\ StreamInv'
  BY <1>1, UnchangedGrows
<1>8. \A u \in Worker \ {w} : Same(u)
  BY <1>1, <1>2 DEF Same
<1>9. QED
  BY <1>3, <1>4, <1>5, <1>6, <1>7, <1>8, Conclude DEF WorkerInv

(* At the end of reconcile() every projection reflects the batch: the one  *)
(* just published because of its buffer, the earlier ones by AppliedInv.   *)
LEMMA FinishApplyStep == ASSUME IInv, TypeOK', NEW w \in Worker, FinishApply(w) PROVE IInv'
<1> USE WorkerFacts
<1>0. PICK p \in Projection : p = Stages[at[w]]
  BY ProjectionFacts DEF FinishApply
<1>1. /\ at[w] = Len(Stages) /\ at[w] # 0 /\ at'[w] = 0 /\ mode[w] # "baseline"
      /\ Publish(w, "sync", p) /\ ReleaseAfter(w, p)
      /\ UNCHANGED database /\ refresher' = refresher
      /\ ~failed'[w] /\ ready'[w] = (mode[w] = "running")
      /\ checkpoint'[w] = cursor[w] /\ cursor' = cursor
      /\ mode'[w] = IF mode[w] = "hydrate" THEN "replay" ELSE mode[w]
      /\ \A u \in Worker \ {w} :
           /\ at'[u] = at[u] /\ mode'[u] = mode[u] /\ ready'[u] = ready[u]
           /\ failed'[u] = failed[u] /\ checkpoint'[u] = checkpoint[u]
  BY <1>0, ProjectionFacts DEF FinishApply, TypeOK
<1>2. /\ buffer'[w]["sync"] = <<>> /\ buffer'[w]["refresh"] = buffer[w]["refresh"]
      /\ p = Downstream => buffer[w]["refresh"] = <<>>
      /\ Partial(w, "refresh", Downstream)'
      /\ monitor'[w] # "sync"
      /\ monitor'[w] = "refresh" <=> refresher[w] \in {"before", "change", "after"}
      /\ loaded'[w][p] /\ Covers(log, p, view'[w][p], cursor[w])
      /\ \A q \in Projection \ {p} : loaded'[w][q] = loaded[w][q] /\ view'[w][q] = view[w][q]
      /\ \A q \in Projection : \A j \in DOMAIN Reads[q] :
           view'[w][q][j] <= committed'[Reads[q][j]]
      /\ \A u \in Worker \ {w} : /\ buffer'[u] = buffer[u] /\ loaded'[u] = loaded[u]
                                 /\ view'[u] = view[u] /\ monitor'[u] = monitor[u]
  BY <1>0, <1>1, SyncPublishEffect
<1>3. mode[w] \in {"hydrate", "replay", "running"}
  BY <1>1 DEF PhaseInv, TypeOK, Mode
<1>4. PhaseInv(w)' /\ LockInv(w)' /\ AppliedInv(w)'
  BY <1>1, <1>2, <1>3 DEF PhaseInv, LockInv, AppliedInv, database
<1>5. ASSUME NEW q \in Projection
      PROVE  /\ q # Downstream \/ mode[w] # "running" => loaded'[w][q]
             /\ loaded'[w][q] => Covers(log, q, view'[w][q], cursor[w])
  <2>1. CASE q = p
    BY <2>1, <1>2
  <2>2. CASE q # p
    <3>1. PICK n \in 1 .. Len(Stages) : Stages[n] = q
      BY ProjectionFacts
    <3>2. n \in 1 .. at[w] - 1
      BY <3>1, <2>2, <1>0, <1>1, ProjectionFacts
    <3>3. QED
      BY <3>1, <3>2, <2>2, <1>1, <1>2 DEF AppliedInv
  <2>3. QED
    BY <2>1, <2>2
<1>6. BufferInv(w)'
  <2>1. Covers(log', Downstream, buffer'[w]["refresh"], checkpoint'[w])
    <3>1. CASE p = Downstream
      BY <3>1, <1>2, CoversEmpty
    <3>2. CASE p # Downstream
      <4>1. PICK n \in 1 .. Len(Stages) : Stages[n] = Downstream
        BY ProjectionFacts, ProjectionAssumption
      <4>2. n \in 1 .. at[w] - 1
        BY <4>1, <3>2, <1>0, <1>1, ProjectionFacts
      <4>3. QED
        BY <4>1, <4>2, <1>1, <1>2 DEF BufferInv, database
    <3>3. QED
      BY <3>1, <3>2
  <2>2. QED
    BY <1>1, <1>2, <2>1 DEF BufferInv
<1>7. ViewInv(w)'
  BY <1>1, <1>2, <1>3, <1>5 DEF ViewInv, database
<1>8. Grow /\ StreamInv'
  BY <1>1, UnchangedGrows
<1>9. \A u \in Worker \ {w} : Same(u)
  BY <1>1, <1>2 DEF Same
<1>10. QED
  BY <1>4, <1>6, <1>7, <1>8, <1>9, Conclude DEF WorkerInv

LEMMA FinishBaselineStep == ASSUME IInv, TypeOK', NEW w \in Worker, FinishBaseline(w) PROVE IInv'
<1> USE WorkerFacts
<1>1. /\ mode[w] = "baseline" /\ at[w] # 0 /\ Stages[at[w]] = Downstream
      /\ at'[w] = 0 /\ mode'[w] = "running"
      /\ Publish(w, "sync", Downstream) /\ Release(w) /\ Downstream \in Projection
      /\ UNCHANGED database /\ refresher' = refresher
      /\ UNCHANGED <<ready, failed, checkpoint, cursor>>
      /\ \A u \in Worker \ {w} : at'[u] = at[u] /\ mode'[u] = mode[u]
  BY ProjectionAssumption DEF FinishBaseline, PhaseInv, TypeOK
<1>2. ReleaseAfter(w, Downstream)
  BY <1>1 DEF ReleaseAfter
<1>3. /\ buffer'[w]["sync"] = <<>> /\ buffer'[w]["refresh"] = buffer[w]["refresh"]
      /\ buffer[w]["refresh"] = <<>>
      /\ Partial(w, "refresh", Downstream)'
      /\ monitor'[w] # "sync"
      /\ monitor'[w] = "refresh" <=> refresher[w] \in {"before", "change", "after"}
      /\ loaded'[w][Downstream] /\ Covers(log, Downstream, view'[w][Downstream], cursor[w])
      /\ \A q \in Projection \ {Downstream} :
           loaded'[w][q] = loaded[w][q] /\ view'[w][q] = view[w][q]
      /\ \A q \in Projection : \A j \in DOMAIN Reads[q] :
           view'[w][q][j] <= committed'[Reads[q][j]]
      /\ \A u \in Worker \ {w} : /\ buffer'[u] = buffer[u] /\ loaded'[u] = loaded[u]
                                 /\ view'[u] = view[u] /\ monitor'[u] = monitor[u]
  BY <1>1, <1>2, SyncPublishEffect
<1>4. PhaseInv(w)' /\ LockInv(w)' /\ AppliedInv(w)'
  BY <1>1, <1>3 DEF PhaseInv, LockInv, AppliedInv, database
<1>5. BufferInv(w)'
  BY <1>1, <1>3, CoversEmpty DEF BufferInv
<1>6. ViewInv(w)'
  <2>1. Covers(log, Downstream, view'[w][Downstream], checkpoint[w])
    BY <1>3, CoversLess DEF PhaseInv
  <2>2. \A q \in Projection : loaded'[w][q] => Covers(log, q, view'[w][q], checkpoint[w])
    BY <1>3, <2>1 DEF ViewInv
  <2>3. QED
    BY <1>1, <1>3, <2>2 DEF ViewInv, database
<1>7. Grow /\ StreamInv'
  BY <1>1, UnchangedGrows
<1>8. \A u \in Worker \ {w} : Same(u)
  BY <1>1, <1>3 DEF Same
<1>9. QED
  BY <1>4, <1>5, <1>6, <1>7, <1>8, Conclude DEF WorkerInv

(* The discovery task publishes the snapshot: before its change it keeps   *)
(* the lock, after it it gives it back.                                    *)
LEMMA RefreshPublishStep ==
    ASSUME IInv, TypeOK', NEW w \in Worker, RefreshLoaded(w) \/ RefreshEnd(w) PROVE IInv'
<1> USE WorkerFacts
<1>1. /\ Publish(w, "refresh", Downstream) /\ Downstream \in Projection
      /\ refresher[w] \in {"before", "after"}
      /\ UNCHANGED database /\ UNCHANGED sync
      /\ "refresh" \in Task /\ "sync" \in Task \ {"refresh"}
      /\ \/ refresher'[w] = "change" /\ monitor'[w] = monitor[w]
         \/ refresher'[w] = "idle" /\ monitor'[w] = "free"
      /\ \A u \in Worker \ {w} : refresher'[u] = refresher[u] /\ monitor'[u] = monitor[u]
  BY ProjectionAssumption DEF RefreshLoaded, RefreshEnd, Release, TypeOK, Task
<1>2. Bounded(w, Downstream) /\ Partial(w, "refresh", Downstream) /\ monitor[w] = "refresh"
  BY <1>1 DEF ViewInv, BufferInv, Bounded, LockInv
<1>3. /\ buffer'[w]["refresh"] = <<>> /\ buffer'[w]["sync"] = buffer[w]["sync"]
      /\ loaded'[w][Downstream]
      /\ \A q \in Projection \ {Downstream} :
           loaded'[w][q] = loaded[w][q] /\ view'[w][q] = view[w][q]
      /\ \A j \in DOMAIN Reads[Downstream] :
           view'[w][Downstream][j] <= committed[Reads[Downstream][j]]
      /\ \A n \in Nat : n <= Len(log) /\ Covers(log, Downstream, buffer[w]["refresh"], n)
                          => Covers(log, Downstream, view'[w][Downstream], n)
      /\ \A u \in Worker \ {w} :
           buffer'[u] = buffer[u] /\ loaded'[u] = loaded[u] /\ view'[u] = view[u]
  BY <1>1, <1>2, PublishEffect
<1>4. PhaseInv(w)' /\ LockInv(w)'
  BY <1>1, <1>2 DEF PhaseInv, LockInv, sync, database
<1>5. at[w] # 0 /\ Stages[at[w]] = Downstream => buffer[w]["sync"] = <<>>
  BY <1>2 DEF BufferInv
<1>6. BufferInv(w)'
  <2>1. Partial(w, "refresh", Downstream)' /\ \A n : Covers(log', Downstream, buffer'[w]["refresh"], n)
    BY <1>1, <1>3, ProjectionFacts, CoversEmpty DEF Partial
  <2>2. at[w] # 0 => Partial(w, "sync", Stages[at[w]])'
    <3> SUFFICES ASSUME at[w] # 0 PROVE Partial(w, "sync", Stages[at[w]])'
      OBVIOUS
    <3>1. Stages[at[w]] \in Projection /\ at' = at /\ committed' = committed
      BY <1>1, ProjectionFacts DEF sync, database
    <3>2. CASE Stages[at[w]] = Downstream
      BY <3>1, <3>2, <1>3, <1>5, ProjectionFacts DEF Partial
    <3>3. CASE Stages[at[w]] # Downstream
      BY <3>1, <3>3, <1>3 DEF BufferInv, Partial
    <3>4. QED
      BY <3>2, <3>3
  <2>3. QED
    BY <1>1, <1>2, <1>3, <1>5, <2>1, <2>2 DEF BufferInv, sync, database
<1>7. AppliedInv(w)' /\ ViewInv(w)'
  <2>1. Covers(log, Downstream, view'[w][Downstream], checkpoint[w])
    BY <1>3 DEF BufferInv, PhaseInv
  <2>2. \A q \in 1 .. at[w] - 1 : Stages[q] = Downstream
           => Covers(log, Downstream, view'[w][Downstream], cursor[w])
    BY <1>3 DEF BufferInv, PhaseInv
  <2>3. \A q \in 1 .. at[w] - 1 : Stages[q] \in Projection
    BY ProjectionFacts
  <2>4. \A q \in Projection : loaded[w][q] => loaded'[w][q]
    BY <1>3
  <2>5. AppliedInv(w)'
    BY <1>1, <1>3, <2>2, <2>3, <2>4 DEF AppliedInv, sync, database
  <2>6. ViewInv(w)'
    BY <1>1, <1>3, <2>1, <2>4 DEF ViewInv, sync, database
  <2>7. QED
    BY <2>5, <2>6
<1>8. Grow /\ StreamInv'
  BY <1>1, UnchangedGrows
<1>9. \A u \in Worker \ {w} : Same(u)
  BY <1>1, <1>3 DEF Same, sync
<1>10. QED
  BY <1>4, <1>6, <1>7, <1>8, <1>9, Conclude DEF WorkerInv

-----------------------------------------------------------------------------
(* Faults. *)

LEMMA SyncLoadFailsStep == ASSUME IInv, TypeOK', NEW w \in Worker, SyncLoadFails(w) PROVE IInv'
<1> USE WorkerFacts
<1>0. PICK p \in Projection : p = Stages[at[w]]
  BY ProjectionFacts DEF SyncLoadFails
<1>1. /\ at[w] # 0 /\ at'[w] = 0 /\ mode[w] = "running" /\ ~ready'[w]
      /\ Discard(w, "sync", p) /\ ReleaseAfter(w, p)
      /\ UNCHANGED database /\ UNCHANGED <<mode, checkpoint, cursor, refresher>>
      /\ "sync" \in Task /\ "refresh" \in Task \ {"sync"}
      /\ \A u \in Worker \ {w} : at'[u] = at[u] /\ ready'[u] = ready[u] /\ failed'[u] = failed[u]
  BY <1>0 DEF SyncLoadFails, TypeOK, Task
<1>2. /\ buffer'[w]["sync"] = <<>> /\ buffer'[w]["refresh"] = buffer[w]["refresh"]
      /\ \A q \in Projection : loaded'[w][q] => loaded[w][q]
      /\ \A u \in Worker \ {w} : buffer'[u] = buffer[u] /\ loaded'[u] = loaded[u]
      /\ view' = view
  BY <1>1, DiscardEffect
<1>3. /\ monitor'[w] # "sync"
      /\ monitor'[w] = "refresh" <=> refresher[w] \in {"before", "change", "after"}
      /\ \A u \in Worker \ {w} : monitor'[u] = monitor[u]
  <2>1. p = Downstream => monitor[w] = "sync"
    BY <1>1 DEF Discard, Mutex
  <2>2. QED
    BY <1>0, <1>1, <2>1 DEF ReleaseAfter, Release, LockInv, TypeOK
<1>4. PhaseInv(w)' /\ LockInv(w)' /\ AppliedInv(w)' /\ ViewInv(w)'
  <2>1. PhaseInv(w)'
    BY <1>1 DEF PhaseInv, database
  <2>2. LockInv(w)'
    BY <1>1, <1>3 DEF LockInv
  <2>3. AppliedInv(w)'
    BY <1>1 DEF AppliedInv
  <2>4. ViewInv(w)'
    BY <1>1, <1>2 DEF ViewInv, database
  <2>5. QED
    BY <2>1, <2>2, <2>3, <2>4
<1>5. BufferInv(w)'
  <2>1. Partial(w, "refresh", Downstream)'
    BY <1>1, <1>2 DEF BufferInv, Partial, database
  <2>2. Covers(log', Downstream, buffer'[w]["refresh"], checkpoint'[w])
    BY <1>1, <1>2 DEF BufferInv, database
  <2>3. QED
    BY <1>1, <1>2, <2>1, <2>2 DEF BufferInv
<1>6. Grow /\ StreamInv'
  BY <1>1, UnchangedGrows
<1>7. \A u \in Worker \ {w} : Same(u)
  BY <1>1, <1>2, <1>3 DEF Same
<1>8. QED
  BY <1>4, <1>5, <1>6, <1>7, Conclude DEF WorkerInv

LEMMA RefreshLoadFailsStep ==
    ASSUME IInv, TypeOK', NEW w \in Worker, RefreshLoadFails(w) PROVE IInv'
<1> USE WorkerFacts
<1>1. /\ refresher[w] \in {"before", "after"} /\ refresher'[w] = "dead" /\ monitor'[w] = "free"
      /\ Discard(w, "refresh", Downstream) /\ Downstream \in Projection
      /\ UNCHANGED database /\ UNCHANGED sync
      /\ "refresh" \in Task /\ "sync" \in Task \ {"refresh"}
      /\ \A u \in Worker \ {w} : refresher'[u] = refresher[u] /\ monitor'[u] = monitor[u]
  BY ProjectionAssumption DEF RefreshLoadFails, Release, TypeOK, Task
<1>2. /\ buffer'[w]["refresh"] = <<>> /\ buffer'[w]["sync"] = buffer[w]["sync"]
      /\ loaded'[w][Downstream] => loaded[w][Downstream]
      /\ \A q \in Projection \ {Downstream} : loaded'[w][q] = loaded[w][q]
      /\ \A u \in Worker \ {w} : buffer'[u] = buffer[u] /\ loaded'[u] = loaded[u]
      /\ view' = view
  BY <1>1, DiscardEffect
<1>3. mode[w] = "running" /\ monitor[w] = "refresh"
  BY <1>1 DEF PhaseInv, LockInv
<1>4. PhaseInv(w)' /\ LockInv(w)'
  BY <1>1, <1>3 DEF PhaseInv, LockInv, sync, database
<1>5. BufferInv(w)'
  <2>1. Partial(w, "refresh", Downstream)' /\ \A n : Covers(log', Downstream, buffer'[w]["refresh"], n)
    BY <1>1, <1>2, ProjectionFacts, CoversEmpty DEF Partial
  <2>2. at[w] # 0 => Partial(w, "sync", Stages[at[w]])'
    BY <1>1, <1>2 DEF BufferInv, Partial, sync, database
  <2>3. buffer'[w]["sync"] # <<>> => at[w] # 0 /\ Stages[at[w]] # Downstream
    BY <1>2, <1>3 DEF BufferInv
  <2>4. QED
    BY <1>1, <1>2, <2>1, <2>2, <2>3 DEF BufferInv, sync, database
<1>6. AppliedInv(w)' /\ ViewInv(w)'
  <2>1. \A q \in 1 .. at[w] - 1 : Stages[q] \in Projection
    BY ProjectionFacts
  <2>2. /\ mode'[w] = mode[w] /\ at'[w] = at[w] /\ cursor'[w] = cursor[w]
        /\ checkpoint'[w] = checkpoint[w] /\ ready'[w] = ready[w] /\ failed'[w] = failed[w]
        /\ log' = log /\ committed' = committed /\ view' = view
    BY <1>1, <1>2 DEF sync, database
  <2>3. \A q \in Projection : loaded'[w][q] => loaded[w][q]
    BY <1>2
  <2>4. AppliedInv(w)'
    <3>1. SUFFICES ASSUME mode[w] # "baseline", NEW q \in 1 .. at[w] - 1
                   PROVE  /\ Stages[q] # Downstream \/ mode[w] # "running" => loaded'[w][Stages[q]]
                          /\ loaded'[w][Stages[q]] => Covers(log, Stages[q], view[w][Stages[q]], cursor[w])
      BY <2>2 DEF AppliedInv
    <3>2. /\ Stages[q] # Downstream \/ mode[w] # "running" => loaded[w][Stages[q]]
          /\ loaded[w][Stages[q]] => Covers(log, Stages[q], view[w][Stages[q]], cursor[w])
      BY <3>1 DEF AppliedInv
    <3>3. Stages[q] # Downstream => loaded'[w][Stages[q]] = loaded[w][Stages[q]]
      BY <1>2, <2>1
    <3>4. loaded'[w][Stages[q]] => loaded[w][Stages[q]]
      BY <2>1, <2>3
    <3>5. QED
      BY <1>3, <3>2, <3>3, <3>4
  <2>5. ViewInv(w)'
    <3>1. /\ \A p \in Projection : loaded[w][p] => Covers(log, p, view[w][p], checkpoint[w])
          /\ \A p \in Projection : \A j \in DOMAIN Reads[p] :
               view[w][p][j] <= committed[Reads[p][j]]
          /\ ready[w] => ~failed[w] /\ \A p \in Projection \ {Downstream} : loaded[w][p]
      BY DEF ViewInv
    <3>2. ready[w] => ~failed[w] /\ \A p \in Projection \ {Downstream} : loaded'[w][p]
      BY <1>2, <3>1
    <3>3. \A p \in Projection : loaded'[w][p] => Covers(log, p, view[w][p], checkpoint[w])
      BY <2>3, <3>1
    <3>4. QED
      BY <1>3, <2>2, <3>1, <3>2, <3>3 DEF ViewInv
  <2>6. QED
    BY <2>4, <2>5
<1>7. Grow /\ StreamInv'
  BY <1>1, UnchangedGrows
<1>8. \A u \in Worker \ {w} : Same(u)
  BY <1>1, <1>2 DEF Same, sync
<1>9. QED
  BY <1>4, <1>5, <1>6, <1>7, <1>8, Conclude DEF WorkerInv

(* A process without memory satisfies its invariant, over any stream. *)
Empty(w) ==
    /\ mode[w] = "down" /\ ~ready[w] /\ ~failed[w]
    /\ checkpoint[w] = 0 /\ cursor[w] = 0 /\ at[w] = 0
    /\ buffer[w] = [t \in Task |-> <<>>] /\ loaded[w] = NoneLoaded /\ view[w] = Nothing
    /\ monitor[w] = "free" /\ refresher[w] = "idle"

EmptyWorkersAreFine == \A w \in Worker : Empty(w) => WorkerInv(w)

LEMMA EmptyWorker == TypeOK => EmptyWorkersAreFine
<1> SUFFICES ASSUME TypeOK, NEW w \in Worker, Empty(w) PROVE WorkerInv(w)
  BY DEF EmptyWorkersAreFine
<1> USE DEF Empty
<1>1. /\ buffer[w]["sync"] = <<>> /\ buffer[w]["refresh"] = <<>>
      /\ \A p \in Projection : ~loaded[w][p]
      /\ Len(log) \in Nat
  BY DEF Task, NoneLoaded, TypeOK
<1>2. PhaseInv(w) /\ LockInv(w) /\ AppliedInv(w)
  BY <1>1 DEF PhaseInv, LockInv, AppliedInv
<1>3. BufferInv(w)
  <2>1. Partial(w, "refresh", Downstream)
    <3>1. Len(Reads[Downstream]) \in Nat \ {0}
      BY ProjectionFacts, ProjectionAssumption
    <3>2. QED
      BY <1>1, <3>1 DEF Partial
  <2>2. \A n : Covers(log, Downstream, buffer[w]["refresh"], n)
    BY <1>1, CoversEmpty
  <2>3. QED
    BY <1>1, <2>1, <2>2 DEF BufferInv
<1>4. ASSUME NEW p \in Projection, NEW j \in DOMAIN Reads[p]
      PROVE  view[w][p][j] <= committed[Reads[p][j]]
  <2>1. view[w][p][j] = 0
    BY DEF Nothing, NotRead
  <2>2. committed[Reads[p][j]] \in Nat
    BY ViewFacts DEF TypeOK
  <2>3. QED
    BY <2>1, <2>2
<1>5. ViewInv(w)
  BY <1>1, <1>4 DEF ViewInv
<1>6. QED
  BY <1>2, <1>3, <1>5 DEF WorkerInv

LEMMA CrashStep == ASSUME IInv, TypeOK', NEW w \in Worker, Crash(w) PROVE IInv'
<1> USE WorkerFacts
<1>1. Empty(w)' /\ UNCHANGED database
  BY DEF Crash, Release, TypeOK, Empty
<1>2. \A u \in Worker \ {w} : Same(u)
  BY DEF Crash, Release, Same, TypeOK
<1>3. WorkerInv(w)'
  <2>1. TypeOK' => EmptyWorkersAreFine'
    BY EmptyWorker, PTL
  <2>2. QED
    BY <2>1, <1>1 DEF EmptyWorkersAreFine
<1>4. Grow /\ StreamInv'
  BY <1>1, UnchangedGrows
<1>5. QED
  BY <1>2, <1>3, <1>4, Conclude

-----------------------------------------------------------------------------
(* The invariant. *)

LEMMA InitInv == Init => IInv
<1> SUFFICES ASSUME Init PROVE IInv
  OBVIOUS
<1>1. TypeOK
  BY InitType
<1>2. StreamInv
  BY DEF Init, StreamInv
<1>3. \A w \in Worker : Empty(w)
  BY DEF Init, Empty
<1>4. QED
  BY <1>1, <1>2, <1>3, EmptyWorker DEF IInv, EmptyWorkersAreFine

LEMMA StepInv == IInv /\ [Next]_vars => IInv'
<1> SUFFICES ASSUME IInv, [Next]_vars PROVE IInv'
  OBVIOUS
<1>1. TypeOK'
  BY TypeStep DEF IInv
<1>2. ASSUME NEW S \in Transactions, Commit(S) PROVE IInv'
  BY <1>1, <1>2, CommitStep
<1>3. ASSUME NEW w \in Worker, Progress(w) PROVE IInv'
  BY <1>1, <1>3, StartStep, FenceReadStep, FenceReachedStep, ReloadStartStep, BootstrappedStep,
     SyncReadStep, SyncPublishStep, FinishApplyStep, FinishBaselineStep DEF Progress
<1>4. ASSUME NEW w \in Worker, SyncAcquire(w) \/ RefreshBegin(w) PROVE IInv'
  BY <1>1, <1>4, LockStep
<1>5. ASSUME NEW w \in Worker, RefreshProgress(w) PROVE IInv'
  BY <1>1, <1>5, RefreshReadStep, RefreshPublishStep, LockStep, RefreshChangeStep
  DEF RefreshProgress
<1>6. ASSUME NEW w \in Worker, Fault(w) PROVE IInv'
  BY <1>1, <1>6, SyncLoadFailsStep, SyncListFailsStep, LockStep, RefreshLoadFailsStep, CrashStep
  DEF Fault
<1>7. CASE UNCHANGED vars
  <2>1. Grow /\ StreamInv'
    BY <1>7, UnchangedGrows DEF vars, IInv
  <2>2. \A u \in Worker : Same(u)
    BY <1>7 DEF vars, sync, projections, Same
  <2>3. \A u \in Worker : WorkerInv(u)'
    BY <1>1, <2>1, <2>2, Frame DEF IInv
  <2>4. QED
    BY <1>1, <2>1, <2>3 DEF IInv
<1>8. QED
  BY <1>2, <1>3, <1>4, <1>5, <1>6, <1>7 DEF Next

(* The inductive invariant: whatever the workers, stores, projections, the *)
(* batch limit and the number of commits and faults.                       *)
THEOREM Invariance == Spec => []IInv
<1>1. Init => IInv
  BY InitInv
<1>2. IInv /\ [Next]_vars => IInv'
  BY StepInv
<1>3. QED
  BY <1>1, <1>2, PTL DEF Spec

(* The checkpoint never passes a change that a loaded projection lacks     *)
(* (projection.py: the checkpoint is saved after reconcile()).             *)
THEOREM NoEventLostCorrect == Spec => []NoEventLost
<1>1. IInv => NoEventLost
  BY DEF IInv, WorkerInv, ViewInv, NoEventLost
<1>2. QED
  BY <1>1, Invariance, PTL

(* A ready worker has not failed since its last complete reload            *)
(* (projection.py: _apply and _poll_once set the health flags).            *)
THEOREM ReadyMeansReloadedCorrect == Spec => []ReadyMeansReloaded
<1>1. IInv => ReadyMeansReloaded
  BY DEF IInv, WorkerInv, ViewInv, ReadyMeansReloaded
<1>2. QED
  BY <1>1, Invariance, PTL

(* Without delivered events past n, what covers n covers the whole stream. *)
LEMMA CoversQuiet ==
    ASSUME TypeOK, NEW p \in Projection, NEW v \in Seq(Nat), Len(v) = Len(Reads[p]),
           NEW n \in Nat, Pending(n) = {}, Covers(log, p, v, n)
    PROVE  Covers(log, p, v, Len(log))
<1>1. Len(log) \in Nat
  BY DEF TypeOK
<1>2. \A i \in 1 .. Len(log) : i > n => log[i] = {}
  BY <1>1 DEF Pending
<1>3. QED
  BY <1>1, <1>2 DEF Covers

(* A ready worker that has nothing left to poll serves the database as it  *)
(* is, for every set of transactions and every assignment of stores.       *)
THEOREM QuietReadyWorkerIsCurrentCorrect == Spec => []QuietReadyWorkerIsCurrent
<1>1. IInv => QuietReadyWorkerIsCurrent
  <2> SUFFICES ASSUME IInv, NEW w \in Worker, Pending(checkpoint[w]) = {},
                      NEW p \in Projection, loaded[w][p]
               PROVE  Covers(log, p, view[w][p], Len(log))
    BY DEF QuietReadyWorkerIsCurrent
  <2>1. view[w][p] \in Seq(Nat) /\ Len(view[w][p]) = Len(Reads[p]) /\ checkpoint[w] \in Nat
    BY DEF IInv, TypeOK
  <2>2. Covers(log, p, view[w][p], checkpoint[w])
    BY DEF IInv, WorkerInv, ViewInv
  <2>3. QED
    BY <2>1, <2>2, CoversQuiet DEF IInv
<1>2. QED
  BY <1>1, Invariance, PTL

-----------------------------------------------------------------------------
(* The action properties. *)

Onward ==
    \A w \in Worker, p \in Projection :
        loaded[w][p] /\ loaded'[w][p] =>
            \A j \in DOMAIN Reads[p] : view'[w][p][j] >= view[w][p][j]

LEMMA ViewUnchangedOnward == ASSUME TypeOK, view' = view PROVE Onward
  BY ViewFacts DEF Onward

LEMMA PublishOnward ==
    ASSUME IInv, TypeOK', NEW w \in Worker, NEW t \in Task, NEW p \in Projection,
           Partial(w, t, p), Publish(w, t, p)
    PROVE  Onward
<1> USE WorkerFacts
<1>1. Bounded(w, p)
  BY DEF ViewInv, Bounded
<1>2. /\ \A j \in DOMAIN Reads[p] : view[w][p][j] <= view'[w][p][j]
      /\ \A q \in Projection \ {p} : view'[w][q] = view[w][q]
      /\ \A u \in Worker \ {w} : view'[u] = view[u]
  BY <1>1, PublishEffect
<1>3. ASSUME NEW u \in Worker, NEW q \in Projection, NEW j \in DOMAIN Reads[q]
      PROVE  view'[u][q][j] >= view[u][q][j]
  <2>1. view[u][q][j] \in Nat /\ view'[u][q][j] \in Nat
    <3>1. view'[u][q] \in Seq(Nat) /\ Len(view'[u][q]) = Len(Reads[q])
      BY DEF TypeOK
    <3>2. j \in DOMAIN view'[u][q]
      BY <3>1, ProjectionFacts
    <3>3. QED
      BY <3>1, <3>2, ViewFacts
  <2>2. CASE u = w /\ q = p
    BY <2>1, <2>2, <1>2
  <2>3. CASE ~(u = w /\ q = p)
    BY <2>1, <2>3, <1>2
  <2>4. QED
    BY <2>2, <2>3
<1>4. QED
  BY <1>3 DEF Onward

LEMMA StepOnward == IInv /\ IInv' /\ [Next]_vars => Onward
<1> SUFFICES ASSUME IInv, IInv', [Next]_vars PROVE Onward
  OBVIOUS
<1>1. TypeOK /\ TypeOK' /\ "sync" \in Task /\ "refresh" \in Task /\ Downstream \in Projection
  BY ProjectionAssumption DEF IInv, Task
<1>2. ASSUME NEW w \in Worker, SyncPublish(w) \/ FinishApply(w) \/ FinishBaseline(w)
      PROVE  Onward
  <2>1. at[w] # 0 /\ Stages[at[w]] \in Projection
    <3>1. PhaseInv(w) /\ at[w] \in 0 .. Len(Stages)
      BY WorkerFacts
    <3>2. at[w] # 0
      BY <1>2, <3>1, ProjectionFacts DEF SyncPublish, FinishApply, FinishBaseline, PhaseInv
    <3>3. QED
      BY <3>1, <3>2, ProjectionFacts
  <2>2. Publish(w, "sync", Stages[at[w]])
    <3>1. PhaseInv(w)
      BY WorkerFacts
    <3>2. QED
      BY <1>2, <3>1 DEF SyncPublish, FinishApply, FinishBaseline, PhaseInv
  <2>3. Partial(w, "sync", Stages[at[w]])
    BY <2>1, WorkerFacts DEF BufferInv
  <2>4. QED
    BY <1>1, <2>1, <2>2, <2>3, PublishOnward
<1>3. ASSUME NEW w \in Worker, RefreshLoaded(w) \/ RefreshEnd(w) PROVE Onward
  <2>1. Publish(w, "refresh", Downstream) /\ Partial(w, "refresh", Downstream)
    BY <1>3, WorkerFacts DEF RefreshLoaded, RefreshEnd, BufferInv
  <2>2. QED
    BY <1>1, <2>1, PublishOnward
<1>4. ASSUME NEW w \in Worker, Crash(w) PROVE Onward
  <2>1. \A p \in Projection : ~loaded'[w][p]
    BY <1>1, <1>4 DEF Crash, NoneLoaded, TypeOK
  <2>2. \A u \in Worker \ {w} : view'[u] = view[u]
    BY <1>1, <1>4 DEF Crash, TypeOK
  <2>3. QED
    BY <1>1, <2>1, <2>2, ViewFacts DEF Onward
<1>5. ASSUME NEW w \in Worker,
             \/ Start(w) \/ FenceRead(w) \/ FenceReached(w) \/ Poll(w) \/ Retry(w)
             \/ Bootstrapped(w) \/ SyncRead(w) \/ SyncAcquire(w) \/ RefreshBegin(w)
             \/ RefreshRead(w) \/ RefreshObsolete(w)
             \/ SyncLoadFails(w) \/ SyncListFails(w) \/ RefreshRaises(w) \/ RefreshLoadFails(w)
      PROVE  Onward
  <2>1. view' = view
    BY <1>5 DEF Start, FenceRead, FenceReached, Poll, Retry, Bootstrapped, SyncRead, SyncAcquire,
       RefreshBegin, RefreshRead, RefreshObsolete, SyncLoadFails, SyncListFails, RefreshRaises,
       RefreshLoadFails, Read, Discard, projections
  <2>2. QED
    BY <1>1, <2>1, ViewUnchangedOnward
<1>6. ASSUME NEW S \in Transactions, Commit(S) \/ \E w \in Worker : RefreshChange(w, S)
      PROVE  Onward
  BY <1>1, <1>6, ViewUnchangedOnward DEF Commit, RefreshChange, projections
<1>7. CASE UNCHANGED vars
  BY <1>1, <1>7, ViewUnchangedOnward DEF vars, projections
<1>8. QED
  BY <1>2, <1>3, <1>4, <1>5, <1>6, <1>7 DEF Next, Progress, RefreshProgress, Fault

(* The older of two overlapping reloads never replaces the newer: the lock *)
(* of NativeCapabilityChangeMonitor makes the shared snapshot monotone.    *)
THEOREM NoRollbackCorrect == Spec => NoRollback
<1>1. IInv /\ IInv' /\ [Next]_vars => [Onward]_vars
  BY StepOnward
<1>2. QED
  BY <1>1, Invariance, PTL DEF Spec, NoRollback, Onward

LEMMA StepBootstrap ==
    ASSUME IInv, IInv', [Next]_vars, NEW w \in Worker,
           mode[w] = "replay", mode'[w] = "baseline", NEW p \in Projection
    PROVE  loaded'[w][p] /\ Covers(log', p, view'[w][p], Len(log'))
<1>1. Bootstrapped(w)
  <2>1. TypeOK /\ mode' # mode /\ ~UNCHANGED vars
    BY DEF IInv, vars, sync
  <2>2. ASSUME NEW u \in Worker,
               \/ Start(u) \/ FenceReached(u) \/ FinishApply(u)
               \/ FinishBaseline(u) \/ Crash(u)
        PROVE  FALSE
    <3>1. mode'[w] # mode[w] => mode'[w] # "baseline"
      BY <2>1, <2>2
      DEF TypeOK, Start, FenceReached, FinishApply, FinishBaseline, Crash
    <3>2. QED
      BY <3>1
  <2>3. ASSUME NEW u \in Worker, Bootstrapped(u) PROVE u = w
    BY <2>1, <2>3 DEF TypeOK, Bootstrapped
  <2>4. ASSUME NEW u \in Worker,
               \/ FenceRead(u) \/ Poll(u) \/ Retry(u) \/ SyncRead(u) \/ SyncAcquire(u)
               \/ SyncPublish(u) \/ RefreshBegin(u) \/ RefreshProgress(u) \/ SyncLoadFails(u)
               \/ SyncListFails(u) \/ RefreshRaises(u) \/ RefreshLoadFails(u)
        PROVE  FALSE
    BY <2>1, <2>4 DEF FenceRead, Poll, Retry, SyncRead, SyncAcquire, SyncPublish, RefreshBegin,
       RefreshProgress, RefreshRead, RefreshLoaded, RefreshChange, RefreshEnd, RefreshObsolete,
       SyncLoadFails, SyncListFails, RefreshRaises, RefreshLoadFails, sync
  <2>5. ASSUME NEW S \in Transactions, Commit(S) PROVE FALSE
    BY <2>1, <2>5 DEF Commit, sync
  <2>6. QED
    BY <2>1, <2>2, <2>3, <2>4, <2>5 DEF Next, Progress, Fault
<1>2. /\ view' = view /\ loaded' = loaded /\ log' = log /\ Pending(checkpoint[w]) = {}
  BY <1>1 DEF Bootstrapped, projections, database
<1>3. loaded[w][p] /\ Covers(log, p, view[w][p], checkpoint[w])
  BY WorkerFacts DEF ViewInv
<1>4. /\ view[w][p] \in Seq(Nat) /\ Len(view[w][p]) = Len(Reads[p]) /\ checkpoint[w] \in Nat
      /\ TypeOK
  BY DEF IInv, TypeOK
<1>5. Covers(log, p, view[w][p], Len(log))
  BY <1>2, <1>3, <1>4, CoversQuiet
<1>6. QED
  BY <1>2, <1>3, <1>5

(* Bootstrap misses nothing that is committed while it loads               *)
(* (projection.py: bootstrap polls until the stream is exhausted).         *)
THEOREM BootstrapMissesNothingCorrect == Spec => BootstrapMissesNothing
<1> DEFINE Complete ==
      \A w \in Worker :
        mode[w] = "replay" /\ mode'[w] = "baseline" =>
          \A p \in Projection : loaded'[w][p] /\ Covers(log', p, view'[w][p], Len(log'))
<1>1. IInv /\ IInv' /\ [Next]_vars => [Complete]_vars
  BY StepBootstrap
<1>2. QED
  BY <1>1, Invariance, PTL DEF Spec, BootstrapMissesNothing
=============================================================================
