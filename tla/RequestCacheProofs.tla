------------------------- MODULE RequestCacheProofs -------------------------
(***************************************************************************)
(* For any number of tasks, keys, versions and generations: RequestCache   *)
(* keeps its inductive invariant, and implements ReadThrough.              *)
(***************************************************************************)
EXTENDS RequestCache, TLAPS

Action(t) ==
    \/ Lookup(t) \/ LoaderReads(t) \/ LoaderReturns(t) \/ Store(t) \/ Complete(t)
    \/ Resume(t) \/ Abandon(t) \/ Leave(t)
    \/ \E k \in Key : BeginOwn(t, k) \/ BeginWait(t, k)

Outside == \E k \in Key : Change(k)
Invalidation == \E K \in SUBSET Key : Invalidate(K)

LEMMA NextSplits == Next => Outside \/ Invalidation \/ \E t \in Task : Action(t)
<1>1. \A k \in Key : Invalidate({k}) => Invalidation
  BY {} \subseteq Key, \A k \in Key : {k} \in SUBSET Key DEF Invalidation
<1>2. Invalidate(Key) => Invalidation
  BY Key \in SUBSET Key DEF Invalidation
<1>3. QED
  BY <1>1, <1>2 DEF Next, Outside, Action, Progress

-----------------------------------------------------------------------------
(* Types. *)

LEMMA InitInvariant == Init => IInv
<1> SUFFICES ASSUME Init PROVE IInv
  OBVIOUS
<1> USE CacheAssumption
<1>1. TypeOK
  BY DEF Init, TypeOK, Generation, Call, Owning
<1>2. SharedLoads
  BY DEF Init, SharedLoads, Owning, Loading
<1>3. WaitersHaveLeaders
  BY DEF Init, WaitersHaveLeaders
<1>4. PendingInv
  BY DEF Init, PendingInv, Owning
<1>5. FreshInv
  BY DEF Init, FreshInv, Owning
<1>6. QED
  BY <1>1, <1>2, <1>3, <1>4, <1>5 DEF IInv

(* A task that is doing something has a call, which says for which key. *)
LEMMA CallType ==
    ASSUME TypeOK, NEW t \in Task, pc[t] # "idle"
    PROVE  call[t] \in Call /\ KeyOf(t) \in Key /\ call[t].since \in Nat
  BY DEF TypeOK, Call, KeyOf

(* What is counted with natural numbers. *)
LEMMA NatType ==
    ASSUME TypeOK
    PROVE  /\ \A g \in Generation : g \in Nat
           /\ issued \in Nat
           /\ \A k \in Key : source[k] \in Nat /\ valid[k] \in Nat /\ generation[k] \in Nat
           /\ \A k \in Key, g \in Generation : driver[k][g] \in Nat
           /\ \A t \in Task : address[t] \in Nat /\ value[t] \in Nat
<1>1. \A g \in Generation : g \in Nat
  BY CacheAssumption DEF Generation
<1>2. issued \in Nat
  BY CacheAssumption DEF TypeOK
<1>3. QED
  BY <1>1, <1>2 DEF TypeOK

LEMMA BeginType ==
    ASSUME TypeOK, NEW t \in Task, NEW k \in Key, BeginOwn(t, k) \/ BeginWait(t, k)
    PROVE  TypeOK'
<1> USE CacheAssumption
<1>1. [key |-> k, since |-> valid[k]] \in Call /\ [key |-> k, since |-> valid[k]] # None
  BY DEF TypeOK, Call
<1>2. CASE BeginOwn(t, k)
  <2>1. issued' \in 0 .. MaxGenerations /\ generation'[k] \in Generation
        /\ generation' \in [Key -> Generation \cup {0}]
    BY <1>2 DEF BeginOwn, TypeOK, Generation
  <2>2. QED
    BY <1>1, <1>2, <2>1 DEF BeginOwn, TypeOK, Calls, Goes, Owning
<1>3. CASE BeginWait(t, k)
  BY <1>1, <1>3 DEF BeginWait, TypeOK, Calls, Goes, outside, Owning
<1>4. QED
  BY <1>2, <1>3

LEMMA StepType ==
    ASSUME TypeOK, NEW t \in Task,
           Lookup(t) \/ LoaderReads(t) \/ LoaderReturns(t) \/ Store(t)
    PROVE  TypeOK'
<1> USE CallType DEF Goes, outside, Owning
<1>1. CASE Lookup(t)
  <2>1. driver[KeyOf(t)][address[t]] \in Nat
    BY <1>1 DEF Lookup, TypeOK
  <2>2. pc'[t] \in Owning
    BY <1>1 DEF Lookup, TypeOK
  <2>3. QED
    BY <1>1, <2>1, <2>2 DEF Lookup, TypeOK
<1>2. CASE LoaderReads(t)
  BY <1>2 DEF LoaderReads, TypeOK
<1>3. CASE LoaderReturns(t)
  BY <1>3 DEF LoaderReturns, TypeOK
<1>4. CASE Store(t)
  BY <1>4 DEF Store, TypeOK
<1>5. QED
  BY <1>1, <1>2, <1>3, <1>4

LEMMA EndType ==
    ASSUME TypeOK, NEW t \in Task, Complete(t) \/ Abandon(t) \/ Resume(t) \/ Leave(t)
    PROVE  TypeOK'
<1> USE DEF Goes, outside, Owning
<1>1. ASSUME NEW outcome \in {"answered", "failed"}, Settles(t, Waiters(t), outcome),
             pc[t] \in Owning
      PROVE  /\ source' = source /\ valid' = valid /\ issued' = issued /\ driver' = driver
             /\ call' \in [Task -> Call \cup {None}]
             /\ pending' \in [Key -> Task \cup {None}]
             /\ pc' \in [Task -> {"idle", "wait", "answered", "failed"} \cup Owning]
             /\ address' \in [Task -> Generation \cup {0}]
             /\ leader' \in [Task -> Task \cup {None}]
             /\ \A u \in Task : /\ pc'[u] = "idle" <=> call'[u] = None
                                /\ pc'[u] = "wait" <=> leader'[u] # None
                                /\ pc'[u] \in Owning <=> address'[u] # 0
  <2>1. t \notin Waiters(t)
    BY <1>1, CacheAssumption DEF Waiters, TypeOK
  <2>2. \A u \in Waiters(t) : pc[u] = "wait" /\ address[u] = 0 /\ call[u] # None
    BY CacheAssumption DEF Waiters, TypeOK
  <2> DEFINE W == Waiters(t)
  <2> HIDE DEF W
  <2>3. pc' = [u \in Task |-> IF u = t THEN "idle" ELSE IF u \in W THEN outcome ELSE pc[u]]
    BY <1>1 DEF Settles, W
  <2>4. leader' = [u \in Task |-> IF u \in W THEN None ELSE leader[u]]
    BY <1>1 DEF Settles, W
  <2>5. t \notin W /\ \A u \in W : pc[u] = "wait" /\ address[u] = 0 /\ call[u] # None
    BY <2>1, <2>2 DEF W
  <2>6. leader[t] = None
    BY <1>1 DEF TypeOK
  <2>7. /\ source' = source /\ valid' = valid /\ issued' = issued /\ driver' = driver
        /\ pending' \in [Key -> Task \cup {None}]
        /\ call' = [call EXCEPT ![t] = None] /\ address' = [address EXCEPT ![t] = 0]
    BY <1>1 DEF Settles, TypeOK
  <2>8. /\ call' \in [Task -> Call \cup {None}]
        /\ pc' \in [Task -> {"idle", "wait", "answered", "failed"} \cup Owning]
        /\ address' \in [Task -> Generation \cup {0}]
        /\ leader' \in [Task -> Task \cup {None}]
    BY <2>3, <2>4, <2>7 DEF TypeOK
  <2>9. ASSUME NEW u \in Task
        PROVE  /\ pc'[u] = "idle" <=> call'[u] = None
               /\ pc'[u] = "wait" <=> leader'[u] # None
               /\ pc'[u] \in Owning <=> address'[u] # 0
    <3>1. CASE u = t
      BY <2>3, <2>4, <2>5, <2>6, <2>7, <3>1 DEF TypeOK
    <3>2. CASE u \in W
      BY <2>3, <2>4, <2>5, <2>7, <3>2 DEF TypeOK
    <3>3. CASE u # t /\ u \notin W
      BY <2>3, <2>4, <2>7, <3>3 DEF TypeOK
    <3>4. QED
      BY <3>1, <3>2, <3>3
  <2>10. QED
    BY <2>7, <2>8, <2>9
<1>2. CASE Complete(t)
  BY <1>1, <1>2 DEF Complete, Answers, TypeOK
<1>3. CASE Abandon(t)
  BY <1>1, <1>3 DEF Abandon, TypeOK
<1>4. CASE Resume(t)
  BY <1>4 DEF Resume, Returns, TypeOK
<1>5. CASE Leave(t)
  BY <1>5 DEF Leave, Returns, TypeOK
<1>6. QED
  BY <1>2, <1>3, <1>4, <1>5

-----------------------------------------------------------------------------
(* The rest of the invariant, action by action. *)

LEMMA ChangeStep ==
    ASSUME IInv, TypeOK', NEW j \in Key, Change(j)
    PROVE  IInv'
<1> USE CallType, CacheAssumption DEF IInv, Goes, outside, Owning, Loading, KeyOf
<1>1. SharedLoads'
  BY DEF TypeOK, SharedLoads, Change
<1>2. WaitersHaveLeaders'
  BY DEF TypeOK, WaitersHaveLeaders, Change
<1>3. PendingInv'
  BY DEF TypeOK, PendingInv, Change
<1>4. FreshInv'
  BY DEF TypeOK, FreshInv, Change
<1>5. QED
  BY <1>1, <1>2, <1>3, <1>4

LEMMA InvalidateStep ==
    ASSUME IInv, TypeOK', NEW K \in SUBSET Key, Invalidate(K)
    PROVE  IInv'
<1> USE CallType, CacheAssumption DEF IInv, Goes, outside, Owning, Loading, KeyOf
<1>1. SharedLoads'
  BY DEF TypeOK, SharedLoads, Invalidate
<1>2. WaitersHaveLeaders'
  BY DEF TypeOK, WaitersHaveLeaders, Invalidate
<1>3. PendingInv'
  BY DEF TypeOK, PendingInv, Invalidate
<1>4. FreshInv'
  <2>1. /\ source' = source /\ driver' = driver /\ issued' = issued /\ call' = call
        /\ pc' = pc /\ address' = address /\ value' = value
    BY DEF Invalidate
  <2>2. \A k \in Key : \/ valid'[k] = source[k] /\ generation'[k] = 0
                       \/ valid'[k] = valid[k] /\ generation'[k] = generation[k]
    BY DEF Invalidate
  <2>3. \A k \in Key : valid'[k] <= source'[k]
    BY <2>1, <2>2 DEF FreshInv, TypeOK
  <2>4. \A k \in Key, g \in Generation :
            driver'[k][g] # 0 /\ generation'[k] = g => driver'[k][g] >= valid'[k]
    BY <2>1, <2>2 DEF FreshInv, Generation
  <2>5. QED
    BY <2>1, <2>3, <2>4 DEF FreshInv
<1>5. QED
  BY <1>1, <1>2, <1>3, <1>4

LEMMA BeginOwnStep ==
    ASSUME IInv, TypeOK', NEW t \in Task, NEW j \in Key, BeginOwn(t, j)
    PROVE  IInv'
<1> USE CallType, CacheAssumption DEF IInv, Owning, Loading, KeyOf
<1> DEFINE g == generation'[j]
<1>1. /\ pc[t] = "idle" /\ pc'[t] = "lookup" /\ pending[j] = None
      /\ call'[t].key = j /\ call'[t].since = valid[j]
      /\ address'[t] = g /\ pending'[j] = t
      /\ source' = source /\ valid' = valid /\ driver' = driver /\ value' = value
      /\ leader' = leader
  BY DEF BeginOwn, Calls, Goes, TypeOK
<1>2. /\ \A u \in Task \ {t} : pc'[u] = pc[u] /\ call'[u] = call[u] /\ address'[u] = address[u]
      /\ \A k \in Key \ {j} : pending'[k] = pending[k] /\ generation'[k] = generation[k]
  BY DEF BeginOwn, Calls, Goes, TypeOK
<1>3. /\ g \in Generation /\ g # 0 /\ issued <= issued' /\ g <= issued'
      /\ \/ g = generation[j] /\ generation[j] # 0
         \/ g > issued /\ generation[j] = 0
  <2>1. /\ issued \in Nat /\ MaxGenerations \in Nat /\ issued <= MaxGenerations
        /\ generation[j] <= issued /\ generation[j] \in Generation \cup {0}
    BY DEF TypeOK, PendingInv
  <2>2. CASE generation[j] = 0
    <3>1. g = issued + 1 /\ issued' = issued + 1 /\ issued < MaxGenerations
      BY <2>2 DEF BeginOwn, TypeOK
    <3>2. QED
      BY <2>1, <2>2, <3>1 DEF Generation
  <2>3. CASE generation[j] # 0
    <3>1. g = generation[j] /\ issued' = issued
      BY <2>3 DEF BeginOwn, TypeOK
    <3>2. QED
      BY <2>1, <2>3, <3>1 DEF Generation
  <2>4. QED
    BY <2>2, <2>3
<1>4. \A u \in Task : pc[u] \in Owning => KeyOf(u) # j \/ address[u] # g
  <2>1. SUFFICES ASSUME NEW u \in Task, pc[u] \in Owning, KeyOf(u) = j, address[u] = g
                 PROVE  FALSE
    OBVIOUS
  <2>2. address[u] <= issued /\ address[u] \in Nat /\ issued \in Nat
    BY <2>1 DEF PendingInv, TypeOK, Generation
  <2>3. g = generation[j]
    BY <1>3, <2>1, <2>2
  <2>4. pending[j] = u
    BY <2>1, <2>3 DEF PendingInv
  <2>5. QED
    BY <1>1, <2>4
<1>5. driver[j][g] # 0 => driver[j][g] >= valid[j] /\ g = generation[j]
  <2>1. driver[j][g] # 0 => g <= issued
    BY <1>3 DEF FreshInv
  <2>2. driver[j][g] # 0 => g = generation[j]
    <3>1. issued \in Nat /\ g \in Nat
      BY <1>3, NatType
    <3> HIDE DEF g
    <3>2. QED
      BY <1>3, <2>1, <3>1
  <2>3. QED
    BY <1>3, <2>2 DEF FreshInv
<1> HIDE DEF g
<1>6. SharedLoads'
  <2>1. \A u, v \in Task : pc'[u] \in Owning /\ pc'[v] \in Owning /\ u # v =>
           call'[u].key # call'[v].key \/ address'[u] # address'[v]
    BY <1>1, <1>2, <1>4 DEF SharedLoads
  <2>2. \A u \in Task : pc'[u] \in Loading => driver'[call'[u].key][address'[u]] = 0
    BY <1>1, <1>2 DEF SharedLoads
  <2>3. \A k \in Key : generation'[k] # 0 /\ pending'[k] = None => driver'[k][generation'[k]] # 0
    BY <1>1, <1>2 DEF SharedLoads
  <2>4. QED
    BY <2>1, <2>2, <2>3 DEF SharedLoads
<1>7. WaitersHaveLeaders'
  <2>1. \A u \in Task \ {t} : pc[u] = "wait" => leader[u] # t /\ leader[u] \in Task
    BY <1>1 DEF WaitersHaveLeaders
  <2>2. QED
    BY <1>1, <1>2, <2>1 DEF WaitersHaveLeaders
<1>8. PendingInv'
  <2>1. \A k \in Key \ {j} : pending[k] # t
    BY <1>1 DEF PendingInv
  <2>2. ASSUME NEW k \in Key, pending'[k] # None
        PROVE  /\ pc'[pending'[k]] \in Owning /\ call'[pending'[k]].key = k
               /\ generation'[k] # 0 /\ address'[pending'[k]] = generation'[k]
               /\ call'[pending'[k]].since = valid'[k]
    <3>1. CASE k = j
      BY <1>1, <1>3, <3>1 DEF g
    <3>2. CASE k # j
      <4>1. pending'[k] = pending[k] /\ pending[k] \in Task \ {t}
        BY <1>2, <2>1, <2>2, <3>2 DEF TypeOK
      <4>2. QED
        BY <1>1, <1>2, <2>2, <3>2, <4>1 DEF PendingInv
    <3>3. QED
      BY <3>1, <3>2
  <2>3. ASSUME NEW u \in Task, pc'[u] \in Owning
        PROVE  /\ address'[u] <= issued'
               /\ address'[u] = generation'[call'[u].key] => pending'[call'[u].key] = u
    <3>1. CASE u = t
      BY <1>1, <1>3, <3>1 DEF g
    <3>2. CASE u # t
      <4>1. /\ pc[u] \in Owning /\ address'[u] = address[u] /\ call'[u] = call[u]
            /\ address[u] <= issued /\ address[u] \in Nat /\ KeyOf(u) \in Key
        <5>1. pc[u] \in Owning /\ address'[u] = address[u] /\ call'[u] = call[u]
          BY <1>2, <2>3, <3>2
        <5>2. address[u] <= issued /\ address[u] \in Nat
          BY <5>1, NatType DEF PendingInv
        <5>3. KeyOf(u) \in Key
          BY <5>1
        <5>4. QED
          BY <5>1, <5>2, <5>3
      <4>2. issued \in Nat /\ issued' \in Nat
        BY DEF TypeOK
      <4>3. CASE KeyOf(u) = j
        BY <1>3, <1>4, <4>1, <4>2, <4>3 DEF g
      <4>4. CASE KeyOf(u) # j
        BY <1>2, <1>3, <4>1, <4>2, <4>4 DEF PendingInv
      <4>5. QED
        BY <4>3, <4>4
    <3>3. QED
      BY <3>1, <3>2
  <2>4. \A k \in Key : generation'[k] <= issued'
    <3>1. \A k \in Key : generation[k] <= issued /\ generation[k] \in Nat
      BY NatType DEF PendingInv
    <3>2. issued \in Nat /\ issued' \in Nat
      BY DEF TypeOK
    <3>3. QED
      BY <1>2, <1>3, <3>1, <3>2 DEF g
  <2>5. QED
    BY <2>2, <2>3, <2>4 DEF PendingInv
<1>9. FreshInv'
  <2>1. \A k \in Key : valid'[k] <= source'[k]
    BY <1>1 DEF FreshInv
  <2>2. \A k \in Key, h \in Generation :
         /\ driver'[k][h] <= source'[k]
         /\ driver'[k][h] # 0 => h <= issued'
         /\ driver'[k][h] # 0 /\ generation'[k] = h => driver'[k][h] >= valid'[k]
    <3>1. \A h \in Generation : h <= issued => h <= issued'
      BY <1>3 DEF TypeOK, Generation
    <3>2. \A h \in Generation : driver[j][h] # 0 /\ generation'[j] = h => driver[j][h] >= valid[j]
      BY <1>5 DEF g
    <3>3. QED
      BY <1>1, <1>2, <3>1, <3>2 DEF FreshInv
  <2>3. \A u \in Task : pc'[u] # "idle" => call'[u].since <= source'[call'[u].key]
    BY <1>1, <1>2 DEF FreshInv
  <2>4. \A u \in Task : pc'[u] \in Owning =>
         /\ driver'[call'[u].key][address'[u]] # 0 =>
                driver'[call'[u].key][address'[u]] >= call'[u].since
         /\ pc'[u] = "stored" => driver'[call'[u].key][address'[u]] # 0
    BY <1>1, <1>2, <1>5 DEF FreshInv
  <2>5. \A u \in Task : pc'[u] \in {"loaded", "set", "stored", "answered"} =>
         value'[u] \in call'[u].since .. source'[call'[u].key] /\ value'[u] # 0
    BY <1>1, <1>2 DEF FreshInv
  <2>6. QED
    BY <2>1, <2>2, <2>3, <2>4, <2>5 DEF FreshInv
<1>10. QED
  BY <1>6, <1>7, <1>8, <1>9

LEMMA BeginWaitStep ==
    ASSUME IInv, TypeOK', NEW t \in Task, NEW j \in Key, BeginWait(t, j)
    PROVE  IInv'
<1> USE CallType, CacheAssumption DEF IInv, Owning, Loading, KeyOf
<1>1. /\ pc[t] = "idle" /\ pc'[t] = "wait" /\ pending[j] # None
      /\ call'[t].key = j /\ call'[t].since = valid[j] /\ leader'[t] = pending[j]
      /\ source' = source /\ valid' = valid /\ driver' = driver /\ value' = value
      /\ generation' = generation /\ issued' = issued /\ pending' = pending
      /\ address' = address
  BY DEF BeginWait, Calls, Goes, TypeOK
<1>2. \A u \in Task \ {t} : pc'[u] = pc[u] /\ call'[u] = call[u] /\ leader'[u] = leader[u]
  BY DEF BeginWait, Calls, Goes, TypeOK
<1>3. SharedLoads'
  BY <1>1, <1>2 DEF SharedLoads
<1>4. WaitersHaveLeaders'
  <2>1. /\ pending[j] \in Task \ {t} /\ pc[pending[j]] \in Owning
        /\ KeyOf(pending[j]) = j /\ call[pending[j]].since = valid[j]
    BY <1>1 DEF PendingInv, TypeOK
  <2>2. \A u \in Task \ {t} : pc[u] = "wait" => leader[u] # t
    BY <1>1 DEF WaitersHaveLeaders
  <2>3. QED
    BY <1>1, <1>2, <2>1, <2>2 DEF WaitersHaveLeaders
<1>5. PendingInv'
  <2>1. \A k \in Key : pending[k] # t
    BY <1>1 DEF PendingInv
  <2>2. QED
    BY <1>1, <1>2, <2>1 DEF PendingInv, TypeOK
<1>6. FreshInv'
  BY <1>1, <1>2 DEF FreshInv
<1>7. QED
  BY <1>3, <1>4, <1>5, <1>6

LEMMA LookupStep ==
    ASSUME IInv, TypeOK', NEW t \in Task, Lookup(t)
    PROVE  IInv'
<1> USE CallType, CacheAssumption DEF IInv, Goes, outside, Owning, Loading, KeyOf
<1>1. SharedLoads'
  BY DEF TypeOK, SharedLoads, Lookup
<1>2. WaitersHaveLeaders'
  BY DEF TypeOK, WaitersHaveLeaders, Lookup
<1>3. PendingInv'
  BY DEF TypeOK, PendingInv, Lookup
<1>4. FreshInv'
  BY DEF TypeOK, FreshInv, Lookup
<1>5. QED
  BY <1>1, <1>2, <1>3, <1>4

LEMMA LoaderReadsStep ==
    ASSUME IInv, TypeOK', NEW t \in Task, LoaderReads(t)
    PROVE  IInv'
<1> USE CallType, CacheAssumption DEF IInv, Goes, outside, Owning, Loading, KeyOf
<1>1. SharedLoads'
  BY DEF TypeOK, SharedLoads, LoaderReads
<1>2. WaitersHaveLeaders'
  BY DEF TypeOK, WaitersHaveLeaders, LoaderReads
<1>3. PendingInv'
  BY DEF TypeOK, PendingInv, LoaderReads
<1>4. FreshInv'
  BY DEF TypeOK, FreshInv, LoaderReads
<1>5. QED
  BY <1>1, <1>2, <1>3, <1>4

LEMMA LoaderReturnsStep ==
    ASSUME IInv, TypeOK', NEW t \in Task, LoaderReturns(t)
    PROVE  IInv'
<1> USE CallType, CacheAssumption DEF IInv, Goes, outside, Owning, Loading, KeyOf
<1>1. SharedLoads'
  BY DEF TypeOK, SharedLoads, LoaderReturns
<1>2. WaitersHaveLeaders'
  BY DEF TypeOK, WaitersHaveLeaders, LoaderReturns
<1>3. PendingInv'
  BY DEF TypeOK, PendingInv, LoaderReturns
<1>4. FreshInv'
  BY DEF TypeOK, FreshInv, LoaderReturns
<1>5. QED
  BY <1>1, <1>2, <1>3, <1>4

LEMMA StoreStep ==
    ASSUME IInv, TypeOK', NEW t \in Task, Store(t)
    PROVE  IInv'
<1> USE CallType, CacheAssumption DEF IInv, Goes, outside, Owning, Loading, KeyOf
<1> DEFINE j == call[t].key
           h == address[t]
<1>1. SharedLoads'
  BY DEF TypeOK, SharedLoads, Store
<1>2. WaitersHaveLeaders'
  BY DEF TypeOK, WaitersHaveLeaders, Store
<1>3. PendingInv'
  BY DEF TypeOK, PendingInv, Store
<1>4. FreshInv'
  <2>1. /\ pc[t] = "set" /\ pc'[t] = "stored" /\ j \in Key /\ h \in Generation
        /\ \A u \in Task \ {t} : pc'[u] = pc[u]
        /\ source' = source /\ valid' = valid /\ issued' = issued /\ call' = call
        /\ generation' = generation /\ address' = address /\ value' = value
    BY DEF Store, TypeOK
  <2>2. /\ driver'[j][h] = value[t]
        /\ \A k \in Key, g \in Generation : k # j \/ g # h => driver'[k][g] = driver[k][g]
    BY <2>1 DEF Store, TypeOK
  <2>3. /\ value[t] >= call[t].since /\ value[t] <= source[j] /\ value[t] # 0
        /\ value[t] \in Nat /\ h <= issued
    BY <2>1 DEF FreshInv, PendingInv, TypeOK
  <2>4. generation[j] = h => value[t] >= valid[j]
    BY <2>1, <2>3 DEF PendingInv
  <2>5. \A u \in Task \ {t} : pc[u] \in Owning =>
            driver'[call[u].key][address[u]] = driver[call[u].key][address[u]]
    BY <2>1, <2>2 DEF SharedLoads, TypeOK
  <2> HIDE DEF j, h
  <2>6. \A k \in Key, g \in Generation :
         /\ driver'[k][g] <= source'[k]
         /\ driver'[k][g] # 0 => g <= issued'
         /\ driver'[k][g] # 0 /\ generation'[k] = g => driver'[k][g] >= valid'[k]
    BY <2>1, <2>2, <2>3, <2>4 DEF FreshInv
  <2>7. \A u \in Task : pc'[u] \in Owning =>
         /\ driver'[call'[u].key][address'[u]] # 0 =>
                driver'[call'[u].key][address'[u]] >= call'[u].since
         /\ pc'[u] = "stored" => driver'[call'[u].key][address'[u]] # 0
    BY <2>1, <2>2, <2>3, <2>5 DEF FreshInv, j, h
  <2>8. QED
    BY <2>1, <2>6, <2>7 DEF FreshInv
<1>5. QED
  BY <1>1, <1>2, <1>3, <1>4

LEMMA CompleteStep ==
    ASSUME IInv, TypeOK', NEW t \in Task, Complete(t)
    PROVE  IInv'
<1> USE CallType, CacheAssumption DEF IInv, Owning, Loading, KeyOf
<1>1. /\ pc[t] \in Owning /\ pc'[t] = "idle" /\ pending' = [k \in Key |->
             IF k = call[t].key /\ pending[k] = t THEN None ELSE pending[k]]
      /\ source' = source /\ valid' = valid /\ driver' = driver /\ issued' = issued
  BY DEF Complete, Answers, Settles, TypeOK
<1>2. ASSUME NEW u \in Task \ {t}
      PROVE  /\ call'[u] = call[u] /\ address'[u] = address[u]
             /\ \/ pc'[u] = pc[u] /\ leader'[u] = leader[u] /\ value'[u] = value[u]
                \/ /\ pc[u] = "wait" /\ leader[u] = t /\ leader'[u] = None
                   /\ pc'[u] = "answered" /\ value'[u] = value[t]
             /\ pc[u] = "wait" /\ leader[u] = t => pc'[u] # "wait"
  BY <1>1 DEF Complete, Answers, Settles, Waiters, TypeOK
<1>3. generation' = generation /\ (pc[t] = "stored" \/ pending[call[t].key] # t)
  BY DEF Complete, Answers
<1>4. /\ call[t].key \in Key /\ \A k \in Key : pending[k] = t => k = call[t].key
      /\ \A k \in Key : pending'[k] # None => pending'[k] = pending[k] /\ pending[k] # t
  BY <1>1 DEF PendingInv, TypeOK
<1>5. SharedLoads'
  <2>1. \A k \in Key : generation'[k] # 0 /\ pending'[k] = None => driver'[k][generation'[k]] # 0
    <3>1. SUFFICES ASSUME NEW k \in Key, generation[k] # 0, pending'[k] = None
                   PROVE  driver[k][generation[k]] # 0
      BY <1>1, <1>3
    <3>2. CASE pending[k] = None
      BY <3>1, <3>2 DEF SharedLoads
    <3>3. CASE pending[k] = t
      <4>1. k = call[t].key /\ pc[t] = "stored" /\ address[t] = generation[k]
        BY <1>3, <1>4, <3>3 DEF PendingInv
      <4>2. QED
        BY <1>1, <4>1 DEF FreshInv
    <3>4. QED
      BY <1>1, <3>1, <3>2, <3>3
  <2>2. QED
    BY <1>1, <1>2, <2>1 DEF SharedLoads
<1>6. WaitersHaveLeaders'
  BY <1>1, <1>2 DEF WaitersHaveLeaders
<1>7. PendingInv'
  <2>1. \A u \in Task : pc'[u] \in Owning =>
         /\ address'[u] <= issued'
         /\ address'[u] = generation'[call'[u].key] => pending'[call'[u].key] = u
    <3>1. SUFFICES ASSUME NEW u \in Task \ {t}, pc[u] \in Owning
                   PROVE  /\ address[u] <= issued
                          /\ address[u] = generation[call[u].key] => pending'[call[u].key] = u
      BY <1>1, <1>2, <1>3
    <3>2. call[u].key \in Key
      BY <3>1 DEF TypeOK
    <3>3. QED
      BY <1>1, <3>1, <3>2 DEF PendingInv
  <2>2. \A k \in Key : generation'[k] <= issued'
    BY <1>1, <1>3 DEF PendingInv
  <2>3. ASSUME NEW k \in Key, pending'[k] # None
        PROVE  /\ pc'[pending'[k]] \in Owning /\ call'[pending'[k]].key = k
               /\ generation'[k] # 0 /\ address'[pending'[k]] = generation'[k]
               /\ call'[pending'[k]].since = valid'[k]
    <3>1. pending'[k] = pending[k] /\ pending[k] \in Task \ {t}
      BY <1>4, <2>3 DEF TypeOK
    <3>2. pc[pending[k]] \in Owning
      BY <3>1 DEF PendingInv
    <3>3. pc'[pending[k]] = pc[pending[k]]
      BY <1>2, <3>1, <3>2
    <3>4. QED
      BY <1>1, <1>2, <1>3, <3>1, <3>3 DEF PendingInv
  <2>4. QED
    BY <2>1, <2>2, <2>3 DEF PendingInv
<1>8. FreshInv'
  <2>1. \A u \in Task : pc'[u] \in {"loaded", "set", "stored", "answered"} =>
         value'[u] \in call'[u].since .. source'[call'[u].key] /\ value'[u] # 0
    <3>1. SUFFICES ASSUME NEW u \in Task \ {t}, pc'[u] \in {"loaded", "set", "stored", "answered"}
                   PROVE  value'[u] \in call[u].since .. source[call[u].key] /\ value'[u] # 0
      BY <1>1, <1>2
    <3>2. CASE pc'[u] = pc[u] /\ value'[u] = value[u]
      BY <3>1, <3>2 DEF FreshInv
    <3>3. CASE pc[u] = "wait" /\ leader[u] = t /\ value'[u] = value[t]
      <4>1. call[u].key = call[t].key /\ call[u].since = call[t].since
        BY <3>3 DEF WaitersHaveLeaders
      <4>2. pc[t] \in {"loaded", "stored"}
        BY DEF Complete, Answers
      <4>3. QED
        BY <3>3, <4>1, <4>2 DEF FreshInv
    <3>4. QED
      BY <1>2, <3>1, <3>2, <3>3
  <2>2. QED
    BY <1>1, <1>2, <1>3, <2>1 DEF FreshInv
<1>9. QED
  BY <1>5, <1>6, <1>7, <1>8

LEMMA AbandonStep ==
    ASSUME IInv, TypeOK', NEW t \in Task, Abandon(t)
    PROVE  IInv'
<1> USE CallType, CacheAssumption DEF IInv, Owning, Loading, KeyOf
<1>1. /\ pc[t] \in Owning /\ pc'[t] = "idle" /\ pending' = [k \in Key |->
             IF k = call[t].key /\ pending[k] = t THEN None ELSE pending[k]]
      /\ source' = source /\ valid' = valid /\ driver' = driver /\ issued' = issued
  BY DEF Abandon, Settles, TypeOK
<1>2. ASSUME NEW u \in Task \ {t}
      PROVE  /\ call'[u] = call[u] /\ address'[u] = address[u]
             /\ \/ pc'[u] = pc[u] /\ leader'[u] = leader[u] /\ value'[u] = value[u]
                \/ /\ pc[u] = "wait" /\ leader[u] = t /\ leader'[u] = None
                   /\ pc'[u] = "failed"
             /\ pc[u] = "wait" /\ leader[u] = t => pc'[u] # "wait"
  BY <1>1 DEF Abandon, Settles, Waiters, TypeOK
<1>3. /\ \A k \in Key : generation'[k] \in {0, generation[k]}
      /\ \A k \in Key : pending[k] = t => pending'[k] = None /\ generation'[k] = 0
      /\ \A k \in Key : pending[k] # t => pending'[k] = pending[k] /\ generation'[k] = generation[k]
  BY <1>1 DEF Abandon, PendingInv, TypeOK
<1>4. SharedLoads'
  BY <1>1, <1>2, <1>3 DEF SharedLoads
<1>5. WaitersHaveLeaders'
  BY <1>1, <1>2 DEF WaitersHaveLeaders
<1>6. PendingInv'
  <2>1. \A u \in Task : pc'[u] \in Owning =>
         /\ address'[u] <= issued'
         /\ address'[u] = generation'[call'[u].key] => pending'[call'[u].key] = u
    <3>1. SUFFICES ASSUME NEW u \in Task \ {t}, pc[u] \in Owning
                   PROVE  /\ address[u] <= issued
                          /\ address[u] = generation'[call[u].key] => pending'[call[u].key] = u
      BY <1>1, <1>2
    <3>2. address[u] # 0 /\ call[u].key \in Key
      BY <3>1 DEF TypeOK
    <3>3. QED
      BY <1>3, <3>1, <3>2 DEF PendingInv
  <2>2. \A k \in Key : generation'[k] <= issued'
    BY <1>1, <1>3 DEF PendingInv, TypeOK
  <2>3. QED
    BY <1>1, <1>2, <1>3, <2>1, <2>2 DEF PendingInv, TypeOK
<1>7. FreshInv'
  <2>1. \A k \in Key, g \in Generation :
            driver'[k][g] # 0 /\ generation'[k] = g => driver'[k][g] >= valid'[k]
    BY <1>1, <1>3 DEF FreshInv, Generation
  <2>2. QED
    BY <1>1, <1>2, <2>1 DEF FreshInv
<1>8. QED
  BY <1>4, <1>5, <1>6, <1>7

LEMMA ReturnStep ==
    ASSUME IInv, TypeOK', NEW t \in Task, Resume(t) \/ Leave(t)
    PROVE  IInv'
<1> USE CallType, CacheAssumption DEF IInv, Owning, Loading, KeyOf
<1>1. /\ pc[t] \notin Owning /\ pc'[t] = "idle"
      /\ source' = source /\ valid' = valid /\ driver' = driver /\ issued' = issued
      /\ generation' = generation /\ pending' = pending /\ address' = address
  BY DEF Resume, Leave, Returns, Goes, TypeOK
<1>2. \A u \in Task \ {t} : /\ pc'[u] = pc[u] /\ call'[u] = call[u]
                            /\ value'[u] = value[u] /\ leader'[u] = leader[u]
  BY DEF Resume, Leave, Returns, Goes, TypeOK
<1>3. SharedLoads'
  BY <1>1, <1>2 DEF SharedLoads
<1>4. WaitersHaveLeaders'
  <2>1. \A u \in Task \ {t} : pc[u] = "wait" => leader[u] # t
    BY <1>1 DEF WaitersHaveLeaders
  <2>2. QED
    BY <1>1, <1>2, <2>1 DEF WaitersHaveLeaders
<1>5. PendingInv'
  <2>1. \A k \in Key : pending[k] # t
    BY <1>1 DEF PendingInv
  <2>2. QED
    BY <1>1, <1>2, <2>1 DEF PendingInv, TypeOK
<1>6. FreshInv'
  BY <1>1, <1>2 DEF FreshInv
<1>7. QED
  BY <1>3, <1>4, <1>5, <1>6

(* Change and Invalidate touch nothing but these. *)
LEMMA OutsideType ==
    ASSUME TypeOK, (\E k \in Key : Change(k)) \/ \E K \in SUBSET Key : Invalidate(K)
    PROVE  TypeOK'
<1>1. ASSUME NEW k \in Key, Change(k) PROVE TypeOK'
  BY <1>1 DEF Change, TypeOK, Owning
<1>2. ASSUME NEW K \in SUBSET Key, Invalidate(K) PROVE TypeOK'
  BY <1>2 DEF Invalidate, TypeOK, Owning
<1>3. QED
  BY <1>1, <1>2

LEMMA ActionStep ==
    ASSUME IInv, NEW t \in Task, Action(t)
    PROVE  IInv'
<1> USE DEF IInv
<1>1. CASE \E k \in Key : BeginOwn(t, k) \/ BeginWait(t, k)
  BY <1>1, BeginType, BeginOwnStep, BeginWaitStep
<1>2. CASE Lookup(t) \/ LoaderReads(t) \/ LoaderReturns(t) \/ Store(t)
  BY <1>2, StepType, LookupStep, LoaderReadsStep, LoaderReturnsStep, StoreStep
<1>3. CASE Complete(t) \/ Abandon(t) \/ Resume(t) \/ Leave(t)
  BY <1>3, EndType, CompleteStep, AbandonStep, ReturnStep
<1>4. QED
  BY <1>1, <1>2, <1>3 DEF Action

LEMMA StutterStep ==
    ASSUME IInv, UNCHANGED vars
    PROVE  IInv'
<1> USE DEF IInv, vars, outside, Owning, Loading, KeyOf
<1>1. TypeOK'
  BY DEF TypeOK
<1>2. SharedLoads'
  BY DEF SharedLoads
<1>3. WaitersHaveLeaders'
  BY DEF WaitersHaveLeaders
<1>4. PendingInv'
  BY DEF PendingInv
<1>5. FreshInv'
  BY DEF FreshInv
<1>6. QED
  BY <1>1, <1>2, <1>3, <1>4, <1>5

LEMMA InvariantStep ==
    ASSUME IInv, [Next]_vars
    PROVE  IInv'
<1>1. CASE Outside \/ Invalidation
  <2>1. TypeOK'
    BY <1>1, OutsideType DEF IInv, Outside, Invalidation
  <2>2. QED
    BY <1>1, <2>1, ChangeStep, InvalidateStep DEF Outside, Invalidation
<1>2. CASE \E t \in Task : Action(t)
  BY <1>2, ActionStep
<1>3. CASE UNCHANGED vars
  BY <1>3, StutterStep
<1>4. QED
  BY <1>1, <1>2, <1>3, NextSplits

-----------------------------------------------------------------------------
(* Theorems. *)

(* Whatever the tasks, the failures and the invalidations: the pending     *)
(* futures, the generations and the driver agree (RequestCache._load).     *)
THEOREM Invariance == Spec => []IInv
<1>1. Init => IInv
  BY InitInvariant
<1>2. IInv /\ [Next]_vars => IInv'
  BY InvariantStep
<1>3. QED
  BY <1>1, <1>2, PTL DEF Spec

(* Readers of one key share one load, and nothing is stored at an address  *)
(* that is being loaded or that a failed load has left (_load, 66-80).     *)
THEOREM LoadsAreShared == Spec => []SharedLoads
<1>1. IInv => SharedLoads
  BY DEF IInv
<1>2. QED
  BY <1>1, Invariance, PTL

-----------------------------------------------------------------------------
(* The refinement. *)

LEMMA InitRefines == Init => Promise!Init
  BY DEF Init, Promise!Init

LEMMA OutsideRefines ==
    ASSUME Outside \/ Invalidation
    PROVE  Promise!Next
<1>1. ASSUME NEW k \in Key, Change(k) PROVE Promise!Change(k)
  BY <1>1 DEF Change, Promise!Change
<1>2. ASSUME NEW K \in SUBSET Key, Invalidate(K) PROVE Promise!Invalidate(K)
  BY <1>2 DEF Invalidate, Promise!Invalidate
<1>3. QED
  BY <1>1, <1>2 DEF Outside, Invalidation, Promise!Next

LEMMA BeginRefines ==
    ASSUME IInv, NEW t \in Task, NEW k \in Key, BeginOwn(t, k) \/ BeginWait(t, k)
    PROVE  Promise!Begin(t, k)
<1>1. pc[t] = "idle" /\ Calls(t, k) /\ source' = source /\ valid' = valid
  BY DEF BeginOwn, BeginWait
<1>2. call[t] = None
  BY <1>1 DEF IInv, TypeOK
<1>3. QED
  BY <1>1, <1>2 DEF Calls, Promise!Begin

(* Who is answered has received a version that is still good. *)
LEMMA ReturnRefines ==
    ASSUME IInv, NEW t \in Task,
           Complete(t) \/ (Resume(t) /\ pc[t] = "answered")
    PROVE  Promise!Return(t)
<1>1. /\ pc[t] \in {"loaded", "stored", "answered"}
      /\ answer' = [answer EXCEPT ![t] = value[t]] /\ call' = [call EXCEPT ![t] = None]
      /\ source' = source /\ valid' = valid
  BY DEF Complete, Answers, Settles, Resume, Returns
<1>2. call[t] # None
  BY <1>1 DEF IInv, TypeOK
<1>3. value[t] \in call[t].since .. source[call[t].key]
  BY <1>1 DEF IInv, FreshInv, KeyOf
<1>4. QED
  BY <1>1, <1>2, <1>3 DEF Promise!Return

LEMMA FailRefines ==
    ASSUME IInv, NEW t \in Task,
           Abandon(t) \/ Leave(t) \/ (Resume(t) /\ pc[t] # "answered")
    PROVE  Promise!Fail(t)
<1>1. /\ pc[t] # "idle" /\ call' = [call EXCEPT ![t] = None]
      /\ source' = source /\ valid' = valid /\ answer' = answer
  BY DEF Abandon, Settles, Leave, Resume, Returns, Owning
<1>2. call[t] # None
  BY <1>1 DEF IInv, TypeOK
<1>3. QED
  BY <1>1, <1>2 DEF Promise!Fail

LEMMA StepRefines ==
    ASSUME IInv, [Next]_vars
    PROVE  [Promise!Next]_Promise!vars
<1> USE DEF Promise!vars
<1>1. CASE Outside \/ Invalidation
  BY <1>1, OutsideRefines
<1>2. ASSUME NEW t \in Task, Action(t) PROVE [Promise!Next]_Promise!vars
  <2>1. CASE \E k \in Key : BeginOwn(t, k) \/ BeginWait(t, k)
    BY <2>1, BeginRefines DEF Promise!Next
  <2>2. CASE Complete(t) \/ Resume(t) \/ Abandon(t) \/ Leave(t)
    BY <2>2, ReturnRefines, FailRefines DEF Promise!Next
  <2>3. CASE Lookup(t) \/ LoaderReads(t) \/ LoaderReturns(t) \/ Store(t)
    BY <2>3 DEF Lookup, LoaderReads, LoaderReturns, Store, outside
  <2>4. QED
    BY <1>2, <2>1, <2>2, <2>3 DEF Action
<1>3. CASE UNCHANGED vars
  BY <1>3 DEF vars, outside
<1>4. QED
  BY <1>1, <1>2, <1>3, NextSplits

(* A read that begins after an invalidation never returns what was loaded  *)
(* before it, for any number of tasks, keys and loads in flight            *)
(* (ADR-010; RequestCache.get_or_load, invalidate).                        *)
THEOREM Refinement == Spec => ImplementsReadThrough
<1>1. IInv /\ [Next]_vars => [Promise!Next]_Promise!vars
  BY StepRefines
<1>2. QED
  BY <1>1, InitRefines, Invariance, PTL DEF Spec, ImplementsReadThrough, Promise!Spec

=============================================================================
