---------------------------- MODULE ProcessProofs ----------------------------
(***************************************************************************)
(* What lasts as long as a process.  For any number of tasks, owners and   *)
(* connections: its connection pool keeps its inductive invariant, and     *)
(* implements ConnectionLoans.  For any number of listeners: whatever the  *)
(* API process opens lasts as long as it is needed and no longer.          *)
(***************************************************************************)
EXTENDS ConnectionPool, Listeners, FiniteSetTheorems, FunctionTheorems, TLAPS

-----------------------------------------------------------------------------
(* The inductive invariant. *)

OwnSteps ==
    /\ \A t \in Task : at[t] \notin OwnerStep \ {"new"}
    /\ \A o \in Owner : at[o] \notin TaskStep \ {"new"}

\* A connection in hand is nobody else's.
HandsInv ==
    /\ \A p \in Process : holds[p] # None <=> at[p] \in {"using", "resetting", "closing"}
    /\ \A p, q \in Process : holds[p] # None /\ holds[p] = holds[q] => p = q
    /\ \A p \in Process, o \in Owner : holds[p] \notin kept[o]
    /\ \A p \in Process : holds[p] \notin available
    /\ \A o \in Owner : kept[o] \cap available = {}

\* What is open is in a hand, in reserve or kept.
LiveInv == \A c \in Connection :
    c \in live <=> \/ c \in available
                   \/ \E o \in Owner : c \in kept[o]
                   \/ \E p \in Process : holds[p] = c

CleanInv ==
    /\ dirty \subseteq live /\ available \cap dirty = {}
    /\ state = "NEW" => dirty = {}

\* Who has the lifecycle lock, and what that says about the state.
Opening(o) == at[o] \in {"opening", "discarding", "closing"}
OwnersInv ==
    /\ \A o \in Owner : lifecycle = o <=>
            at[o] \in {"opening", "discarding", "closing", "draining", "checking", "clearing"}
    /\ \A o \in Owner : kept[o] # {} => lifecycle = o
    /\ \A o \in Owner : Opening(o) => state = "NEW"
    /\ \A o \in Owner : at[o] \in {"draining", "checking"} => state = "CLOSING" /\ kept[o] = {}
    /\ \A o \in Owner : at[o] = "clearing" =>
            state \in {"CLOSING", "CLOSED"} /\ borrowed = 0 /\ available = {}
    /\ lifecycle = None => state # "CLOSING"
    /\ state = "OPEN" => lifecycle = None
    /\ state \in {"NEW", "CLOSED"} => borrowed = 0 /\ available = {}

Counted == {t \in Task : at[t] \in Reserved}
Coming == {p \in Process : at[p] \in {"opening", "discarding"}}

\* Whoever is opening a connection has room for it.
RoomInv ==
    /\ CapacityIsKept
    /\ borrowed =< Size
    /\ IsFiniteSet(live)
    /\ Cardinality(live) + Cardinality(Coming) =< Size

IInv == TypeOK /\ OwnSteps /\ HandsInv /\ LiveInv /\ CleanInv /\ OwnersInv /\ RoomInv

-----------------------------------------------------------------------------
(* Counting. *)

LEMMA OneMoreOneLess ==
    ASSUME NEW S, IsFiniteSet(S), NEW x
    PROVE  /\ Cardinality(S) \in Nat /\ IsFiniteSet(S \cup {x}) /\ IsFiniteSet(S \ {x})
           /\ Cardinality(S \cup {x}) \in Nat /\ Cardinality(S \ {x}) \in Nat
           /\ x \notin S => Cardinality(S \cup {x}) = Cardinality(S) + 1
           /\ x \in S => /\ Cardinality(S \ {x}) = Cardinality(S) - 1
                          /\ Cardinality(S) > 0
           /\ Cardinality(S \ {x}) =< Cardinality(S)
<1>1. IsFiniteSet(S \cup {x}) /\ IsFiniteSet(S \ {x})
  BY FS_AddElement, FS_RemoveElement
<1>2. /\ Cardinality(S) \in Nat /\ Cardinality(S \cup {x}) \in Nat
      /\ Cardinality(S \ {x}) \in Nat
  BY <1>1, FS_CardinalityType
<1>3. x \notin S => Cardinality(S \cup {x}) = Cardinality(S) + 1
  BY FS_AddElement
<1>4. x \in S => Cardinality(S \ {x}) = Cardinality(S) - 1
  BY FS_RemoveElement
<1>5. x \notin S => Cardinality(S \ {x}) = Cardinality(S)
  <2>1. x \notin S => S \ {x} = S
    OBVIOUS
  <2>2. QED
    BY <2>1
<1>6. QED
  BY <1>1, <1>2, <1>3, <1>4, <1>5

LEMMA Sizes ==
    ASSUME TypeOK, RoomInv
    PROVE  /\ IsFiniteSet(Counted) /\ IsFiniteSet(Coming)
           /\ Cardinality(Coming) \in Nat /\ Cardinality(live) \in Nat
           /\ borrowed = Cardinality(Counted) /\ Size \in Nat \ {0}
<1>1. IsFiniteSet(Process)
  BY PoolAssumption, FS_Union DEF Process
<1>2. IsFiniteSet(Counted) /\ IsFiniteSet(Coming)
  BY <1>1, PoolAssumption, FS_Subset, Counted \subseteq Task, Coming \subseteq Process
     DEF Counted, Coming
<1>3. QED
  BY <1>2, PoolAssumption, FS_CardinalityType DEF RoomInv, CapacityIsKept, Counted

LEMMA SameRoom ==
    ASSUME RoomInv, Counted' = Counted, Coming' = Coming, live' = live, borrowed' = borrowed
    PROVE  RoomInv'
  BY DEF RoomInv, CapacityIsKept, Counted

LEMMA RoomFor ==
    ASSUME borrowed' = Cardinality(Counted'), borrowed' =< Size, IsFiniteSet(live'),
           Cardinality(live') + Cardinality(Coming') =< Size
    PROVE  RoomInv'
  BY DEF RoomInv, CapacityIsKept, Counted

LEMMA RoomForTheSame ==
    ASSUME RoomInv, Counted' = Counted, borrowed' = borrowed, IsFiniteSet(live'),
           Cardinality(live') + Cardinality(Coming') =< Size
    PROVE  RoomInv'
<1>1. borrowed' = Cardinality(Counted') /\ borrowed' =< Size
  BY DEF RoomInv, CapacityIsKept, Counted
<1>2. QED
  BY <1>1, RoomFor

(* Whoever opens the pool is alone with what it has opened. *)
LEMMA OpeningOwner ==
    ASSUME IInv, NEW o \in Owner, at[o] = "opening"
    PROVE  /\ live = kept[o] /\ Coming = {o} /\ Counted = {}
           /\ \A q \in Owner : kept[q] # {} => q = o
<1> USE DEF IInv, Process
<1>1. lifecycle = o /\ state = "NEW" /\ borrowed = 0 /\ available = {}
  BY DEF OwnersInv, Opening
<1>2. Counted = {}
  BY <1>1, Sizes, FS_EmptySet
<1>3. \A q \in Owner : q # o => kept[q] = {} /\ at[q] \notin {"opening", "discarding", "closing"}
  BY <1>1 DEF OwnersInv
<1>4. \A p \in Process : holds[p] = None
  BY <1>2, <1>3, PoolAssumption DEF HandsInv, Counted, Reserved, OwnSteps, TaskStep, OwnerStep
<1>5. Coming = {o}
  BY <1>2, <1>3 DEF Coming, Counted, Reserved
<1>6. live = kept[o]
  BY <1>1, <1>3, <1>4, PoolAssumption DEF LiveInv, TypeOK
<1>7. QED
  BY <1>2, <1>3, <1>5, <1>6

(* With nothing in reserve, every open connection is in a borrower's hand. *)
LEMMA AllInUse ==
    ASSUME IInv, state = "OPEN", available = {}
    PROVE  Cardinality(live) + Cardinality(Coming) =< borrowed
<1> USE DEF IInv, Process
<1> DEFINE Holding == {t \in Task : holds[t] # None}
           hand == [t \in Holding |-> holds[t]]
<1>1. \A o \in Owner : kept[o] = {} /\ at[o] \notin Reserved \ {"returning"}
  BY PoolAssumption DEF OwnersInv, Reserved, OwnSteps, TaskStep
<1>2. hand \in Surjection(Holding, live)
  <2>1. \A t \in Holding : holds[t] \in live
    BY DEF LiveInv, TypeOK
  <2>2. \A c \in live : \E t \in Holding : holds[t] = c
    BY <1>1, PoolAssumption DEF LiveInv, TypeOK, HandsInv, Reserved
  <2>3. QED
    BY <2>1, <2>2, Fun_IsSurj
<1>3. Holding \subseteq Counted /\ Coming \subseteq Counted /\ Holding \cap Coming = {}
  BY <1>1 DEF HandsInv, Counted, Coming, Reserved
<1>4. IsFiniteSet(Holding) /\ Cardinality(live) =< Cardinality(Holding)
  BY <1>2, <1>3, Sizes, FS_Subset, FS_Surjection
<1>5. Cardinality(Holding \cup Coming) = Cardinality(Holding) + Cardinality(Coming)
  <2>1. Cardinality(Holding \cap Coming) = 0
    BY <1>3, FS_EmptySet
  <2>2. IsFiniteSet(Coming) /\ Cardinality(Coming) \in Nat /\ Cardinality(Holding) \in Nat
    BY <1>4, Sizes, FS_CardinalityType
  <2>3. Cardinality(Holding \cup Coming)
          = Cardinality(Holding) + Cardinality(Coming) - Cardinality(Holding \cap Coming)
    BY <1>4, <2>2, FS_Union
  <2>4. QED
    BY <2>1, <2>2, <2>3
<1>6. Cardinality(Holding \cup Coming) =< Cardinality(Counted)
  BY <1>3, Sizes, FS_Subset
<1>7. QED
  BY <1>4, <1>5, <1>6, Sizes, FS_CardinalityType

-----------------------------------------------------------------------------
(* One lemma per action. *)

LEMMA ConnectsKeeps ==
    ASSUME IInv, NEW p \in Process, NEW c \in Connection, Connects(p, c)
    PROVE  IInv'
<1> USE PoolAssumption DEF IInv, Process, pool, driver
<1>1. TypeOK'
  BY DEF Connects, Goes, TypeOK, OwnSteps, TaskStep, OwnerStep, Step
<1>2. OwnSteps'
  BY <1>1 DEF Connects, Goes, TypeOK, OwnSteps, OwnersInv, TaskStep, OwnerStep
<1>3. HandsInv'
  BY <1>1 DEF Connects, Goes, TypeOK, HandsInv, OwnersInv, LiveInv, OwnSteps,
      TaskStep, OwnerStep
<1>4. LiveInv'
  <2>1. CASE p \in Task
    BY <1>1, <2>1 DEF Connects, Goes, TypeOK, LiveInv, HandsInv
  <2>2. CASE p \in Owner /\ Cardinality(kept[p] \cup {c}) < Size
    BY <1>1, <2>2 DEF Connects, TypeOK, LiveInv
  <2>3. CASE p \in Owner /\ ~(Cardinality(kept[p] \cup {c}) < Size)
    <3>1. /\ live' = kept[p] \cup {c} /\ available' = kept[p] \cup {c} /\ holds' = holds
          /\ kept' = [kept EXCEPT ![p] = {}]
      BY <2>3, OpeningOwner DEF Connects
    <3>2. \A q \in Owner : kept'[q] = {}
      BY <2>3, <3>1, OpeningOwner DEF Connects, TypeOK
    <3>3. \A q \in Process : holds[q] \notin kept[p] /\ holds[q] # c
      BY <2>3 DEF HandsInv, LiveInv, Connects
    <3>4. \A q \in Process : holds[q] \in Connection => holds[q] \in live'
      BY <2>3, <3>1, OpeningOwner DEF LiveInv, Connects
    <3>5. QED
      BY <3>1, <3>2, <3>4 DEF LiveInv
  <2>4. QED
    BY <2>1, <2>2, <2>3
<1>5. CleanInv'
  <2>1. dirty' = dirty /\ live' = live \cup {c} /\ c \notin dirty
    BY DEF Connects, CleanInv
  <2>2. CASE available' = available
    BY <2>1, <2>2 DEF CleanInv, Connects
  <2>3. CASE p \in Owner /\ available' = kept[p] \cup {c}
    <3>1. dirty = {}
      BY <2>3 DEF Connects, CleanInv, OwnersInv, Opening
    <3>2. QED
      BY <2>1, <2>3, <3>1 DEF CleanInv
  <2>4. QED
    BY <2>2, <2>3 DEF Connects
<1>6. OwnersInv'
  BY <1>1 DEF Connects, Goes, TypeOK, OwnersInv, OwnSteps, HandsInv, Opening,
      TaskStep, OwnerStep
<1>7. RoomInv'
  <2>1. Cardinality(live') = Cardinality(live) + 1 /\ IsFiniteSet(live')
    BY OneMoreOneLess DEF Connects, RoomInv
  <2>2. Counted' = Counted /\ borrowed' = borrowed
    BY DEF Connects, Goes, Counted, Reserved, TypeOK, OwnSteps, TaskStep, OwnerStep
  <2>3. CASE Coming' = Coming \ {p}
    <3>1. p \in Coming
      BY DEF Connects, Coming
    <3>2. Cardinality(Coming') = Cardinality(Coming) - 1
      BY <2>3, <3>1, Sizes, OneMoreOneLess
    <3>3. Cardinality(live') + Cardinality(Coming') =< Size
      BY <2>1, <3>2, Sizes DEF RoomInv
    <3>4. QED
      BY <2>1, <2>2, <3>3, RoomForTheSame
  <2>4. CASE p \in Owner /\ Cardinality(kept[p] \cup {c}) < Size
    <3>1. live' = kept[p] \cup {c}
      BY <2>4, OpeningOwner DEF Connects
    <3>2. Coming' = {p}
      BY <2>4, OpeningOwner DEF Connects, Coming, TypeOK
    <3>3. Cardinality(Coming') = 1 /\ Cardinality(live') \in Nat /\ Cardinality(live') < Size
      BY <2>1, <2>4, <3>1, <3>2, FS_Singleton, Sizes DEF RoomInv
    <3>4. Cardinality(live') + Cardinality(Coming') =< Size
      BY <3>3, Sizes
    <3>5. QED
      BY <2>1, <2>2, <3>4, RoomForTheSame
  <2>5. QED
    BY <2>3, <2>4 DEF Connects, Goes, Coming, TypeOK
<1>8. QED
  BY <1>1, <1>2, <1>3, <1>4, <1>5, <1>6, <1>7

LEMMA DiscardConnectsKeeps ==
    ASSUME IInv, NEW p \in Process, NEW c \in Connection, DiscardConnects(p, c)
    PROVE  IInv'
<1> USE PoolAssumption DEF IInv, Process, pool, driver
<1>1. TypeOK'
  BY DEF DiscardConnects, Goes, TypeOK, OwnSteps, TaskStep, OwnerStep, Step
<1>2. OwnSteps'
  BY <1>1 DEF DiscardConnects, Goes, TypeOK, OwnSteps, OwnersInv, TaskStep,
      OwnerStep
<1>3. HandsInv'
  BY <1>1 DEF DiscardConnects, Goes, TypeOK, HandsInv, OwnersInv, LiveInv, OwnSteps,
      TaskStep, OwnerStep
<1>4. LiveInv'
  BY <1>1 DEF DiscardConnects, Goes, TypeOK, LiveInv, HandsInv, OwnersInv, OwnSteps,
      TaskStep, OwnerStep
<1>5. CleanInv'
  BY <1>1 DEF DiscardConnects, Goes, TypeOK, CleanInv, HandsInv, LiveInv, OwnersInv
<1>6. OwnersInv'
  BY <1>1 DEF DiscardConnects, Goes, TypeOK, OwnersInv, OwnSteps, HandsInv, Opening,
      TaskStep, OwnerStep
<1>7. RoomInv'
  <2>1. Cardinality(live') = Cardinality(live) + 1 /\ IsFiniteSet(live')
    BY OneMoreOneLess DEF DiscardConnects, RoomInv
  <2>2. Counted' = Counted /\ borrowed' = borrowed
    BY DEF DiscardConnects, Goes, Counted, Reserved, TypeOK
  <2>3. p \in Coming /\ Coming' = Coming \ {p}
    BY DEF DiscardConnects, Goes, Coming, TypeOK
  <2>4. Cardinality(Coming') = Cardinality(Coming) - 1
    BY <2>3, Sizes, OneMoreOneLess
  <2>5. Cardinality(live') + Cardinality(Coming') =< Size
    BY <2>1, <2>4, Sizes DEF RoomInv
  <2>6. QED
    BY <2>1, <2>2, <2>5, RoomForTheSame
<1>8. QED
  BY <1>1, <1>2, <1>3, <1>4, <1>5, <1>6, <1>7

LEMMA ConnectFailsKeeps ==
    ASSUME IInv, NEW p \in Process, ConnectFails(p)
    PROVE  IInv'
<1> USE PoolAssumption DEF IInv, Process, pool, driver
<1>1. TypeOK'
  BY DEF ConnectFails, Fails, Goes, TypeOK, OwnSteps, TaskStep, OwnerStep, Step
<1>2. OwnSteps'
  BY <1>1 DEF ConnectFails, Fails, Goes, TypeOK, OwnSteps, OwnersInv, TaskStep,
      OwnerStep
<1>3. HandsInv'
  BY <1>1 DEF ConnectFails, Fails, Goes, TypeOK, HandsInv, OwnersInv, LiveInv,
      OwnSteps, TaskStep, OwnerStep
<1>4. LiveInv'
  BY <1>1 DEF ConnectFails, Fails, Goes, TypeOK, LiveInv, HandsInv, OwnersInv,
      OwnSteps, TaskStep, OwnerStep
<1>5. CleanInv'
  BY <1>1 DEF ConnectFails, Fails, Goes, TypeOK, CleanInv, HandsInv, LiveInv,
      OwnersInv
<1>6. OwnersInv'
  BY <1>1 DEF ConnectFails, Fails, Goes, TypeOK, OwnersInv, OwnSteps, HandsInv,
      Opening, TaskStep, OwnerStep
<1>7. RoomInv'
  <2>1. Counted' = Counted /\ borrowed' = borrowed /\ live' = live
    BY DEF ConnectFails, Fails, Goes, Counted, Reserved, TypeOK
  <2>2. p \in Coming /\ Coming' = Coming \ {p}
    BY DEF ConnectFails, Fails, Goes, Coming, TypeOK
  <2>3. Cardinality(Coming') = Cardinality(Coming) - 1
    BY <2>2, Sizes, OneMoreOneLess
  <2>4. IsFiniteSet(live') /\ Cardinality(live') + Cardinality(Coming') =< Size
    BY <2>1, <2>3, Sizes DEF RoomInv
  <2>5. QED
    BY <2>1, <2>4, RoomForTheSame
<1>8. QED
  BY <1>1, <1>2, <1>3, <1>4, <1>5, <1>6, <1>7

LEMMA CloseKeeps ==
    ASSUME IInv, NEW p \in Process, Close(p)
    PROVE  IInv'
<1> USE PoolAssumption DEF IInv, Process, pool, driver
<1>1. TypeOK'
  BY DEF Close, Fails, Goes, TypeOK, OwnSteps, TaskStep, OwnerStep, Step
<1>2. OwnSteps'
  BY <1>1 DEF Close, Fails, Goes, TypeOK, OwnSteps, OwnersInv, TaskStep, OwnerStep
<1>3. HandsInv'
  BY <1>1 DEF Close, Fails, Goes, TypeOK, HandsInv, OwnersInv, LiveInv, OwnSteps,
      TaskStep, OwnerStep
<1>4. LiveInv'
  BY <1>1 DEF Close, Fails, Goes, TypeOK, LiveInv, HandsInv, OwnersInv, OwnSteps,
      TaskStep, OwnerStep
<1>5. CleanInv'
  BY <1>1 DEF Close, Fails, Goes, TypeOK, CleanInv, HandsInv, LiveInv, OwnersInv
<1>6. OwnersInv'
  BY <1>1 DEF Close, Fails, Goes, TypeOK, OwnersInv, OwnSteps, HandsInv, Opening,
      TaskStep, OwnerStep
<1>7. RoomInv'
  <2>1. Counted' = Counted /\ Coming' = Coming /\ borrowed' = borrowed
    BY DEF Close, Fails, Goes, Counted, Coming, Reserved, TypeOK
  <2>2. IsFiniteSet(live') /\ Cardinality(live') =< Cardinality(live) /\ Cardinality(live') \in Nat
    <3>1. live' = live \ {holds[p]}
      BY DEF Close
    <3>2. QED
      BY <3>1, OneMoreOneLess DEF RoomInv
  <2>3. Cardinality(live') + Cardinality(Coming') =< Size
    BY <2>1, <2>2, Sizes DEF RoomInv
  <2>4. QED
    BY <2>1, <2>2, <2>3, RoomForTheSame
<1>8. QED
  BY <1>1, <1>2, <1>3, <1>4, <1>5, <1>6, <1>7

LEMMA DiscardKeeps ==
    ASSUME IInv, NEW p \in Process, Discard(p)
    PROVE  IInv'
<1> USE PoolAssumption DEF IInv, Process, pool, driver
<1>1. TypeOK'
  BY DEF Discard, Goes, TypeOK, OwnSteps, TaskStep, OwnerStep, Step
<1>2. OwnSteps'
  BY <1>1 DEF Discard, Goes, TypeOK, OwnSteps, OwnersInv, TaskStep, OwnerStep
<1>3. HandsInv'
  BY <1>1 DEF Discard, Goes, TypeOK, HandsInv, OwnersInv, LiveInv, OwnSteps,
      TaskStep, OwnerStep
<1>4. LiveInv'
  BY <1>1 DEF Discard, Goes, TypeOK, LiveInv, HandsInv, OwnersInv, OwnSteps,
      TaskStep, OwnerStep
<1>5. CleanInv'
  BY <1>1 DEF Discard, Goes, TypeOK, CleanInv, HandsInv, LiveInv, OwnersInv
<1>6. OwnersInv'
  BY <1>1 DEF Discard, Goes, TypeOK, OwnersInv, OwnSteps, HandsInv, Opening,
      TaskStep, OwnerStep
<1>7. RoomInv'
  <2>1. Counted' = Counted /\ Coming' = Coming /\ live' = live /\ borrowed' = borrowed
    BY DEF Discard, Goes, Counted, Coming, Reserved, TypeOK, OwnSteps, TaskStep, OwnerStep, Step
  <2>2. QED
    BY <2>1, SameRoom
<1>8. QED
  BY <1>1, <1>2, <1>3, <1>4, <1>5, <1>6, <1>7

LEMMA AskKeeps ==
    ASSUME IInv, NEW t \in Task, Ask(t)
    PROVE  IInv'
<1> USE PoolAssumption DEF IInv, Process, pool, driver
<1>1. TypeOK'
  BY DEF Ask, Goes, TypeOK, OwnSteps, TaskStep, OwnerStep, Step
<1>2. OwnSteps'
  BY <1>1 DEF Ask, Goes, TypeOK, OwnSteps, OwnersInv, TaskStep, OwnerStep
<1>3. HandsInv'
  BY <1>1 DEF Ask, Goes, TypeOK, HandsInv, OwnersInv, LiveInv, OwnSteps, TaskStep,
      OwnerStep
<1>4. LiveInv'
  BY <1>1 DEF Ask, Goes, TypeOK, LiveInv, HandsInv, OwnersInv, OwnSteps, TaskStep,
      OwnerStep
<1>5. CleanInv'
  BY <1>1 DEF Ask, Goes, TypeOK, CleanInv, HandsInv, LiveInv, OwnersInv
<1>6. OwnersInv'
  BY <1>1 DEF Ask, Goes, TypeOK, OwnersInv, OwnSteps, HandsInv, Opening, TaskStep,
      OwnerStep
<1>7. RoomInv'
  <2>1. Counted' = Counted /\ Coming' = Coming /\ live' = live /\ borrowed' = borrowed
    BY DEF Ask, Goes, Counted, Coming, Reserved, TypeOK, OwnSteps, TaskStep, OwnerStep, Step
  <2>2. QED
    BY <2>1, SameRoom
<1>8. QED
  BY <1>1, <1>2, <1>3, <1>4, <1>5, <1>6, <1>7

LEMMA RefusedKeeps ==
    ASSUME IInv, NEW t \in Task, Refused(t)
    PROVE  IInv'
<1> USE PoolAssumption DEF IInv, Process, pool, driver
<1>1. TypeOK'
  BY DEF Refused, Goes, TypeOK, OwnSteps, TaskStep, OwnerStep, Step
<1>2. OwnSteps'
  BY <1>1 DEF Refused, Goes, TypeOK, OwnSteps, OwnersInv, TaskStep, OwnerStep
<1>3. HandsInv'
  BY <1>1 DEF Refused, Goes, TypeOK, HandsInv, OwnersInv, LiveInv, OwnSteps,
      TaskStep, OwnerStep
<1>4. LiveInv'
  BY <1>1 DEF Refused, Goes, TypeOK, LiveInv, HandsInv, OwnersInv, OwnSteps,
      TaskStep, OwnerStep
<1>5. CleanInv'
  BY <1>1 DEF Refused, Goes, TypeOK, CleanInv, HandsInv, LiveInv, OwnersInv
<1>6. OwnersInv'
  BY <1>1 DEF Refused, Goes, TypeOK, OwnersInv, OwnSteps, HandsInv, Opening,
      TaskStep, OwnerStep
<1>7. RoomInv'
  <2>1. Counted' = Counted /\ Coming' = Coming /\ live' = live /\ borrowed' = borrowed
    BY DEF Refused, Goes, Counted, Coming, Reserved, TypeOK, OwnSteps, TaskStep, OwnerStep, Step
  <2>2. QED
    BY <2>1, SameRoom
<1>8. QED
  BY <1>1, <1>2, <1>3, <1>4, <1>5, <1>6, <1>7

LEMMA WaitKeeps ==
    ASSUME IInv, NEW t \in Task, Wait(t)
    PROVE  IInv'
<1> USE PoolAssumption DEF IInv, Process, pool, driver
<1>1. TypeOK'
  BY DEF Wait, Goes, TypeOK, OwnSteps, TaskStep, OwnerStep, Step
<1>2. OwnSteps'
  BY <1>1 DEF Wait, Goes, TypeOK, OwnSteps, OwnersInv, TaskStep, OwnerStep
<1>3. HandsInv'
  BY <1>1 DEF Wait, Goes, TypeOK, HandsInv, OwnersInv, LiveInv, OwnSteps, TaskStep,
      OwnerStep
<1>4. LiveInv'
  BY <1>1 DEF Wait, Goes, TypeOK, LiveInv, HandsInv, OwnersInv, OwnSteps, TaskStep,
      OwnerStep
<1>5. CleanInv'
  BY <1>1 DEF Wait, Goes, TypeOK, CleanInv, HandsInv, LiveInv, OwnersInv
<1>6. OwnersInv'
  BY <1>1 DEF Wait, Goes, TypeOK, OwnersInv, OwnSteps, HandsInv, Opening, TaskStep,
      OwnerStep
<1>7. RoomInv'
  <2>1. Counted' = Counted /\ Coming' = Coming /\ live' = live /\ borrowed' = borrowed
    BY DEF Wait, Goes, Counted, Coming, Reserved, TypeOK, OwnSteps, TaskStep, OwnerStep, Step
  <2>2. QED
    BY <2>1, SameRoom
<1>8. QED
  BY <1>1, <1>2, <1>3, <1>4, <1>5, <1>6, <1>7

LEMMA GiveUpKeeps ==
    ASSUME IInv, NEW t \in Task, GiveUp(t)
    PROVE  IInv'
<1> USE PoolAssumption DEF IInv, Process, pool, driver
<1>1. TypeOK'
  BY DEF GiveUp, Goes, TypeOK, OwnSteps, TaskStep, OwnerStep, Step
<1>2. OwnSteps'
  BY <1>1 DEF GiveUp, Goes, TypeOK, OwnSteps, OwnersInv, TaskStep, OwnerStep
<1>3. HandsInv'
  BY <1>1 DEF GiveUp, Goes, TypeOK, HandsInv, OwnersInv, LiveInv, OwnSteps,
      TaskStep, OwnerStep
<1>4. LiveInv'
  BY <1>1 DEF GiveUp, Goes, TypeOK, LiveInv, HandsInv, OwnersInv, OwnSteps,
      TaskStep, OwnerStep
<1>5. CleanInv'
  BY <1>1 DEF GiveUp, Goes, TypeOK, CleanInv, HandsInv, LiveInv, OwnersInv
<1>6. OwnersInv'
  BY <1>1 DEF GiveUp, Goes, TypeOK, OwnersInv, OwnSteps, HandsInv, Opening,
      TaskStep, OwnerStep
<1>7. RoomInv'
  <2>1. Counted' = Counted /\ Coming' = Coming /\ live' = live /\ borrowed' = borrowed
    BY DEF GiveUp, Goes, Counted, Coming, Reserved, TypeOK, OwnSteps, TaskStep, OwnerStep, Step
  <2>2. QED
    BY <2>1, SameRoom
<1>8. QED
  BY <1>1, <1>2, <1>3, <1>4, <1>5, <1>6, <1>7

LEMMA LeaveKeeps ==
    ASSUME IInv, NEW t \in Task, Leave(t)
    PROVE  IInv'
<1> USE PoolAssumption DEF IInv, Process, pool, driver
<1>1. TypeOK'
  BY DEF Leave, Goes, TypeOK, OwnSteps, TaskStep, OwnerStep, Step
<1>2. OwnSteps'
  BY <1>1 DEF Leave, Goes, TypeOK, OwnSteps, OwnersInv, TaskStep, OwnerStep
<1>3. HandsInv'
  BY <1>1 DEF Leave, Goes, TypeOK, HandsInv, OwnersInv, LiveInv, OwnSteps, TaskStep,
      OwnerStep
<1>4. LiveInv'
  BY <1>1 DEF Leave, Goes, TypeOK, LiveInv, HandsInv, OwnersInv, OwnSteps, TaskStep,
      OwnerStep
<1>5. CleanInv'
  BY <1>1 DEF Leave, Goes, TypeOK, CleanInv, HandsInv, LiveInv, OwnersInv
<1>6. OwnersInv'
  BY <1>1 DEF Leave, Goes, TypeOK, OwnersInv, OwnSteps, HandsInv, Opening, TaskStep,
      OwnerStep
<1>7. RoomInv'
  <2>1. Counted' = Counted /\ Coming' = Coming /\ live' = live /\ borrowed' = borrowed
    BY DEF Leave, Goes, Counted, Coming, Reserved, TypeOK, OwnSteps, TaskStep, OwnerStep, Step
  <2>2. QED
    BY <2>1, SameRoom
<1>8. QED
  BY <1>1, <1>2, <1>3, <1>4, <1>5, <1>6, <1>7

LEMMA ResetFailsKeeps ==
    ASSUME IInv, NEW t \in Task, ResetFails(t)
    PROVE  IInv'
<1> USE PoolAssumption DEF IInv, Process, pool, driver
<1>1. TypeOK'
  BY DEF ResetFails, Goes, TypeOK, OwnSteps, TaskStep, OwnerStep, Step
<1>2. OwnSteps'
  BY <1>1 DEF ResetFails, Goes, TypeOK, OwnSteps, OwnersInv, TaskStep, OwnerStep
<1>3. HandsInv'
  BY <1>1 DEF ResetFails, Goes, TypeOK, HandsInv, OwnersInv, LiveInv, OwnSteps,
      TaskStep, OwnerStep
<1>4. LiveInv'
  BY <1>1 DEF ResetFails, Goes, TypeOK, LiveInv, HandsInv, OwnersInv, OwnSteps,
      TaskStep, OwnerStep
<1>5. CleanInv'
  BY <1>1 DEF ResetFails, Goes, TypeOK, CleanInv, HandsInv, LiveInv, OwnersInv
<1>6. OwnersInv'
  BY <1>1 DEF ResetFails, Goes, TypeOK, OwnersInv, OwnSteps, HandsInv, Opening,
      TaskStep, OwnerStep
<1>7. RoomInv'
  <2>1. Counted' = Counted /\ Coming' = Coming /\ live' = live /\ borrowed' = borrowed
    BY DEF ResetFails, Goes, Counted, Coming, Reserved, TypeOK, OwnSteps, TaskStep, OwnerStep, Step
  <2>2. QED
    BY <2>1, SameRoom
<1>8. QED
  BY <1>1, <1>2, <1>3, <1>4, <1>5, <1>6, <1>7

LEMMA UseKeeps ==
    ASSUME IInv, NEW t \in Task, Use(t)
    PROVE  IInv'
<1> USE PoolAssumption DEF IInv, Process, pool, driver
<1>1. TypeOK'
  <2>1. holds[t] \in Connection
    BY DEF Use, TypeOK, HandsInv
  <2>2. QED
    BY <2>1 DEF Use, Goes, TypeOK, Step
<1>2. OwnSteps'
  BY <1>1 DEF Use, Goes, TypeOK, OwnSteps, OwnersInv, TaskStep, OwnerStep
<1>3. HandsInv'
  BY <1>1 DEF Use, Goes, TypeOK, HandsInv, OwnersInv, LiveInv, OwnSteps, TaskStep,
      OwnerStep
<1>4. LiveInv'
  BY <1>1 DEF Use, Goes, TypeOK, LiveInv, HandsInv, OwnersInv, OwnSteps, TaskStep,
      OwnerStep
<1>5. CleanInv'
  <2>1. t \in Counted
    BY DEF Use, Counted, Reserved
  <2>2. state # "NEW"
    <3>1. Cardinality(Counted) > 0
      BY <2>1, Sizes, OneMoreOneLess
    <3>2. borrowed # 0
      BY <3>1, Sizes
    <3>3. QED
      BY <3>2 DEF OwnersInv
  <2>3. QED
    BY <1>1, <2>2 DEF Use, Goes, TypeOK, CleanInv, HandsInv, LiveInv, OwnersInv
<1>6. OwnersInv'
  BY <1>1 DEF Use, Goes, TypeOK, OwnersInv, OwnSteps, HandsInv, Opening, TaskStep,
      OwnerStep
<1>7. RoomInv'
  <2>1. Counted' = Counted /\ Coming' = Coming /\ live' = live /\ borrowed' = borrowed
    BY DEF Use, Counted, Coming
  <2>2. QED
    BY <2>1, SameRoom
<1>8. QED
  BY <1>1, <1>2, <1>3, <1>4, <1>5, <1>6, <1>7

LEMMA ResetSucceedsKeeps ==
    ASSUME IInv, NEW t \in Task, ResetSucceeds(t)
    PROVE  IInv'
<1> USE PoolAssumption DEF IInv, Process, pool, driver
<1>1. TypeOK'
  <2>1. holds[t] \in Connection
    BY DEF ResetSucceeds, TypeOK, HandsInv
  <2>2. holds' \in [Process -> Connection \cup {None}]
    BY DEF ResetSucceeds, TypeOK
  <2>3. QED
    <3>1. at' \in [Process -> Step]
      BY DEF ResetSucceeds, Goes, TypeOK, Step, TaskStep
    <3>2. QED
      BY <2>1, <2>2, <3>1 DEF ResetSucceeds, TypeOK
<1>2. OwnSteps'
  BY <1>1 DEF ResetSucceeds, Goes, TypeOK, OwnSteps, OwnersInv, TaskStep, OwnerStep
<1>3. HandsInv'
  BY <1>1 DEF ResetSucceeds, Goes, TypeOK, HandsInv, OwnersInv, LiveInv, OwnSteps,
      TaskStep, OwnerStep
<1>4. LiveInv'
  BY <1>1 DEF ResetSucceeds, Goes, TypeOK, LiveInv, HandsInv, OwnersInv, OwnSteps,
      TaskStep, OwnerStep
<1>5. CleanInv'
  BY <1>1 DEF ResetSucceeds, Goes, TypeOK, CleanInv, HandsInv, LiveInv, OwnersInv
<1>6. OwnersInv'
  <2>1. t \in Counted /\ borrowed # 0
    <3>1. t \in Counted
      BY DEF ResetSucceeds, Counted, Reserved
    <3>2. Cardinality(Counted) > 0
      BY <3>1, Sizes, OneMoreOneLess
    <3>3. QED
      BY <3>1, <3>2, Sizes
  <2>2. QED
    BY <1>1, <2>1 DEF ResetSucceeds, Goes, TypeOK, OwnersInv, Opening
<1>7. RoomInv'
  <2>1. Counted' = Counted /\ Coming' = Coming /\ live' = live /\ borrowed' = borrowed
    BY DEF ResetSucceeds, Goes, Counted, Coming, Reserved, TypeOK, OwnSteps, TaskStep, OwnerStep, Step
  <2>2. QED
    BY <2>1, SameRoom
<1>8. QED
  BY <1>1, <1>2, <1>3, <1>4, <1>5, <1>6, <1>7

LEMMA BorrowKeeps ==
    ASSUME IInv, NEW t \in Task, NEW c \in Connection, Borrow(t, c)
    PROVE  IInv'
<1> USE PoolAssumption DEF IInv, Process, pool, driver
<1>1. TypeOK'
  BY DEF Borrow, MayReserve, Goes, TypeOK, OwnSteps, TaskStep, OwnerStep, Step
<1>2. OwnSteps'
  BY <1>1 DEF Borrow, MayReserve, Goes, TypeOK, OwnSteps, OwnersInv, TaskStep,
      OwnerStep
<1>3. HandsInv'
  BY <1>1 DEF Borrow, MayReserve, Goes, TypeOK, HandsInv, OwnersInv, LiveInv,
      OwnSteps, TaskStep, OwnerStep
<1>4. LiveInv'
  BY <1>1 DEF Borrow, MayReserve, Goes, TypeOK, LiveInv, HandsInv, OwnersInv,
      OwnSteps, TaskStep, OwnerStep
<1>5. CleanInv'
  BY <1>1 DEF Borrow, MayReserve, Goes, TypeOK, CleanInv, HandsInv, LiveInv,
      OwnersInv
<1>6. OwnersInv'
  BY <1>1 DEF Borrow, MayReserve, Goes, TypeOK, OwnersInv, OwnSteps, HandsInv,
      Opening, TaskStep, OwnerStep
<1>7. RoomInv'
  <2>1. Coming' = Coming /\ live' = live
    BY DEF Borrow, MayReserve, Goes, Coming, TypeOK
  <2>2. t \notin Counted /\ Counted' = Counted \cup {t}
    BY DEF Borrow, MayReserve, Goes, Counted, Reserved, TypeOK
  <2>3. Cardinality(Counted') = borrowed'
    BY <2>2, Sizes, OneMoreOneLess DEF Borrow, RoomInv, CapacityIsKept, Counted
  <2>4. borrowed' =< Size
    BY Sizes DEF Borrow, MayReserve, TypeOK
  <2>5. IsFiniteSet(live') /\ Cardinality(live') + Cardinality(Coming') =< Size
    BY <2>1 DEF RoomInv
  <2>6. QED
    BY <2>3, <2>4, <2>5, RoomFor
<1>8. QED
  BY <1>1, <1>2, <1>3, <1>4, <1>5, <1>6, <1>7

LEMMA BorrowNewKeeps ==
    ASSUME IInv, NEW t \in Task, BorrowNew(t)
    PROVE  IInv'
<1> USE PoolAssumption DEF IInv, Process, pool, driver
<1>1. TypeOK'
  BY DEF BorrowNew, MayReserve, Goes, TypeOK, OwnSteps, TaskStep, OwnerStep, Step
<1>2. OwnSteps'
  BY <1>1 DEF BorrowNew, MayReserve, Goes, TypeOK, OwnSteps, OwnersInv, TaskStep,
      OwnerStep
<1>3. HandsInv'
  BY <1>1 DEF BorrowNew, MayReserve, Goes, TypeOK, HandsInv, OwnersInv, LiveInv,
      OwnSteps, TaskStep, OwnerStep
<1>4. LiveInv'
  BY <1>1 DEF BorrowNew, MayReserve, Goes, TypeOK, LiveInv, HandsInv, OwnersInv,
      OwnSteps, TaskStep, OwnerStep
<1>5. CleanInv'
  BY <1>1 DEF BorrowNew, MayReserve, Goes, TypeOK, CleanInv, HandsInv, LiveInv,
      OwnersInv
<1>6. OwnersInv'
  BY <1>1 DEF BorrowNew, MayReserve, Goes, TypeOK, OwnersInv, OwnSteps, HandsInv,
      Opening, TaskStep, OwnerStep
<1>7. RoomInv'
  <2>1. t \notin Coming /\ Coming' = Coming \cup {t} /\ live' = live
    BY DEF BorrowNew, MayReserve, Goes, Coming, TypeOK
  <2>2. t \notin Counted /\ Counted' = Counted \cup {t}
    BY DEF BorrowNew, MayReserve, Goes, Counted, Reserved, TypeOK
  <2>3. Cardinality(Counted') = borrowed' /\ Cardinality(Coming') = Cardinality(Coming) + 1
    BY <2>1, <2>2, Sizes, OneMoreOneLess DEF BorrowNew, RoomInv, CapacityIsKept, Counted
  <2>4. Cardinality(live) + Cardinality(Coming) =< borrowed
    BY AllInUse DEF BorrowNew, MayReserve
  <2>5. borrowed' =< Size /\ borrowed < Size /\ borrowed \in Nat
    BY Sizes DEF BorrowNew, MayReserve, TypeOK
  <2>6. IsFiniteSet(live') /\ Cardinality(live') + Cardinality(Coming') =< Size
    BY <2>1, <2>3, <2>4, <2>5, Sizes DEF RoomInv
  <2>7. QED
    BY <2>3, <2>5, <2>6, RoomFor
<1>8. QED
  BY <1>1, <1>2, <1>3, <1>4, <1>5, <1>6, <1>7

LEMMA ReturnCapacityKeeps ==
    ASSUME IInv, NEW t \in Task, ReturnCapacity(t)
    PROVE  IInv'
<1> USE PoolAssumption DEF IInv, Process, pool, driver
<1>0. \A p \in Process : at'[p] = IF p = t THEN "done"
                               ELSE IF at[p] = "waiting" THEN "asking"
                               ELSE IF at[p] = "draining" THEN "checking" ELSE at[p]
  BY DEF ReturnCapacity, Woken, TypeOK
<1>1. TypeOK'
  <2>1. t \in Counted /\ borrowed # 0
    <3>1. t \in Counted
      BY DEF ReturnCapacity, Counted, Reserved
    <3>2. Cardinality(Counted) > 0
      BY <3>1, Sizes, OneMoreOneLess
    <3>3. QED
      BY <3>1, <3>2, Sizes
  <2>2. at' \in [Process -> Step]
    BY DEF ReturnCapacity, Woken, TypeOK, Step, TaskStep, OwnerStep
  <2>3. QED
    <3>1. borrowed' \in Nat
      BY <2>1 DEF ReturnCapacity, TypeOK
    <3>2. QED
      BY <2>2, <3>1 DEF ReturnCapacity, TypeOK
<1>2. OwnSteps'
  BY <1>0, <1>1 DEF ReturnCapacity, Woken, Goes, TypeOK, OwnSteps, OwnersInv,
      TaskStep, OwnerStep
<1>3. HandsInv'
  BY <1>0, <1>1 DEF ReturnCapacity, Woken, Goes, TypeOK, HandsInv, OwnersInv,
      LiveInv, OwnSteps, TaskStep, OwnerStep
<1>4. LiveInv'
  BY <1>0, <1>1 DEF ReturnCapacity, Woken, Goes, TypeOK, LiveInv, HandsInv,
      OwnersInv, OwnSteps, TaskStep, OwnerStep
<1>5. CleanInv'
  BY <1>0, <1>1 DEF ReturnCapacity, Woken, Goes, TypeOK, CleanInv, HandsInv,
      LiveInv, OwnersInv
<1>6. OwnersInv'
  BY <1>0, <1>1 DEF ReturnCapacity, Woken, Goes, TypeOK, OwnersInv, OwnSteps,
      HandsInv, Opening, TaskStep, OwnerStep
<1>7. RoomInv'
  <2>1. Coming' = Coming /\ live' = live
    BY <1>0 DEF ReturnCapacity, Coming, TypeOK
  <2>2. t \in Counted /\ Counted' = Counted \ {t}
    BY <1>0 DEF ReturnCapacity, Counted, Reserved, TypeOK
  <2>3. Cardinality(Counted') = borrowed'
    BY <2>2, Sizes, OneMoreOneLess DEF ReturnCapacity, RoomInv, CapacityIsKept, Counted
  <2>4. borrowed' =< Size
    BY Sizes DEF ReturnCapacity, RoomInv, TypeOK
  <2>5. IsFiniteSet(live') /\ Cardinality(live') + Cardinality(Coming') =< Size
    BY <2>1 DEF RoomInv
  <2>6. QED
    BY <2>3, <2>4, <2>5, RoomFor
<1>8. QED
  BY <1>1, <1>2, <1>3, <1>4, <1>5, <1>6, <1>7

LEMMA CallKeeps ==
    ASSUME IInv, NEW o \in Owner, NEW what \in {"initializing", "stopping"}, Call(o, what)
    PROVE  IInv'
<1> USE PoolAssumption DEF IInv, Process, pool, driver
<1>1. TypeOK'
  BY DEF Call, Goes, TypeOK, OwnSteps, TaskStep, OwnerStep, Step
<1>2. OwnSteps'
  BY <1>1 DEF Call, Goes, TypeOK, OwnSteps, OwnersInv, TaskStep, OwnerStep
<1>3. HandsInv'
  BY <1>1 DEF Call, Goes, TypeOK, HandsInv, OwnersInv, LiveInv, OwnSteps, TaskStep,
      OwnerStep
<1>4. LiveInv'
  BY <1>1 DEF Call, Goes, TypeOK, LiveInv, HandsInv, OwnersInv, OwnSteps, TaskStep,
      OwnerStep
<1>5. CleanInv'
  BY <1>1 DEF Call, Goes, TypeOK, CleanInv, HandsInv, LiveInv, OwnersInv
<1>6. OwnersInv'
  BY <1>1 DEF Call, Goes, TypeOK, OwnersInv, OwnSteps, HandsInv, Opening, TaskStep,
      OwnerStep
<1>7. RoomInv'
  <2>1. Counted' = Counted /\ Coming' = Coming /\ live' = live /\ borrowed' = borrowed
    BY DEF Call, Goes, Counted, Coming, Reserved, TypeOK, OwnSteps, TaskStep, OwnerStep, Step
  <2>2. QED
    BY <2>1, SameRoom
<1>8. QED
  BY <1>1, <1>2, <1>3, <1>4, <1>5, <1>6, <1>7

LEMMA ForsakeKeeps ==
    ASSUME IInv, NEW o \in Owner, Forsake(o)
    PROVE  IInv'
<1> USE PoolAssumption DEF IInv, Process, pool, driver
<1>1. TypeOK'
  BY DEF Forsake, Goes, TypeOK, OwnSteps, TaskStep, OwnerStep, Step
<1>2. OwnSteps'
  BY <1>1 DEF Forsake, Goes, TypeOK, OwnSteps, OwnersInv, TaskStep, OwnerStep
<1>3. HandsInv'
  BY <1>1 DEF Forsake, Goes, TypeOK, HandsInv, OwnersInv, LiveInv, OwnSteps,
      TaskStep, OwnerStep
<1>4. LiveInv'
  BY <1>1 DEF Forsake, Goes, TypeOK, LiveInv, HandsInv, OwnersInv, OwnSteps,
      TaskStep, OwnerStep
<1>5. CleanInv'
  BY <1>1 DEF Forsake, Goes, TypeOK, CleanInv, HandsInv, LiveInv, OwnersInv
<1>6. OwnersInv'
  BY <1>1 DEF Forsake, Goes, TypeOK, OwnersInv, OwnSteps, HandsInv, Opening,
      TaskStep, OwnerStep
<1>7. RoomInv'
  <2>1. Counted' = Counted /\ Coming' = Coming /\ live' = live /\ borrowed' = borrowed
    BY DEF Forsake, Goes, Counted, Coming, Reserved, TypeOK, OwnSteps, TaskStep, OwnerStep, Step
  <2>2. QED
    BY <2>1, SameRoom
<1>8. QED
  BY <1>1, <1>2, <1>3, <1>4, <1>5, <1>6, <1>7

LEMMA InitializeKeeps ==
    ASSUME IInv, NEW o \in Owner, Initialize(o)
    PROVE  IInv'
<1> USE PoolAssumption DEF IInv, Process, pool, driver
<1>1. TypeOK'
  BY DEF Initialize, Goes, TypeOK, OwnSteps, TaskStep, OwnerStep, Step
<1>2. OwnSteps'
  BY <1>1 DEF Initialize, Goes, TypeOK, OwnSteps, OwnersInv, TaskStep, OwnerStep
<1>3. HandsInv'
  BY <1>1 DEF Initialize, Goes, TypeOK, HandsInv, OwnersInv, LiveInv, OwnSteps,
      TaskStep, OwnerStep
<1>4. LiveInv'
  BY <1>1 DEF Initialize, Goes, TypeOK, LiveInv, HandsInv, OwnersInv, OwnSteps,
      TaskStep, OwnerStep
<1>5. CleanInv'
  BY <1>1 DEF Initialize, Goes, TypeOK, CleanInv, HandsInv, LiveInv, OwnersInv
<1>6. OwnersInv'
  BY <1>1 DEF Initialize, Goes, TypeOK, OwnersInv, OwnSteps, HandsInv, Opening,
      TaskStep, OwnerStep
<1>7. RoomInv'
  <2>1. Counted' = Counted /\ borrowed' = borrowed /\ live' = live
    BY DEF Initialize, Goes, Counted, Reserved, TypeOK
  <2>2. CASE state # "NEW"
    <3>1. Coming' = Coming
      BY <2>2 DEF Initialize, Goes, Coming, TypeOK
    <3>2. QED
      BY <2>1, <3>1, SameRoom
  <2>3. CASE state = "NEW"
    <3>1. Counted = {}
      BY <2>3, Sizes, FS_EmptySet DEF OwnersInv, RoomInv, CapacityIsKept, Counted
    <3>2. Coming' = {o}
      BY <2>3, <3>1 DEF Initialize, Goes, Coming, Counted, Reserved, OwnersInv, TypeOK
    <3>3. live = {}
      <4>1. available = {} /\ \A q \in Owner : kept[q] = {} /\ at[q] \notin {"opening", "discarding", "closing"}
        BY <2>3 DEF Initialize, OwnersInv, TypeOK
      <4>2. \A q \in Process : holds[q] = None
        BY <3>1, <4>1 DEF HandsInv, OwnSteps, Counted, Reserved, TaskStep
      <4>3. QED
        BY <4>1, <4>2 DEF LiveInv, TypeOK
    <3>4. Cardinality(live') = 0 /\ Cardinality(Coming') = 1 /\ IsFiniteSet(live')
      BY <2>1, <3>2, <3>3, FS_EmptySet, FS_Singleton
    <3>5. Cardinality(live') + Cardinality(Coming') =< Size
      BY <3>4, Sizes
    <3>6. QED
      BY <2>1, <3>4, <3>5, RoomForTheSame
  <2>4. QED
    BY <2>2, <2>3
<1>8. QED
  BY <1>1, <1>2, <1>3, <1>4, <1>5, <1>6, <1>7

LEMMA StopKeeps ==
    ASSUME IInv, NEW o \in Owner, Stop(o)
    PROVE  IInv'
<1> USE PoolAssumption DEF IInv, Process, pool, driver
<1>0. /\ at' \in [Process -> Step] /\ \A o1 \in Owner : at[o1] \notin {"draining", "checking"}
      /\ \A p \in Process : p # o => at'[p] = IF at[p] = "waiting" /\ state # "CLOSED"
                                               THEN "asking" ELSE at[p]
      /\ at'[o] = IF state = "CLOSED" THEN "done"
                  ELSE IF borrowed = 0 THEN "clearing" ELSE "draining"
  <2>1. \A q \in Owner : at[q] \notin {"draining", "checking"}
    BY DEF Stop, OwnersInv, TypeOK
  <2>2. \A q \in Task : at[q] # "draining"
    BY DEF OwnSteps, OwnerStep
  <2>3. CASE state = "CLOSED"
    BY <2>1, <2>3 DEF Stop, Goes, TypeOK, Step
  <2>4. CASE state # "CLOSED"
    <3>1. Woken(at) = [q \in Process |-> IF at[q] = "waiting" THEN "asking" ELSE at[q]]
      BY <2>1, <2>2 DEF Woken
    <3>2. at' = [Woken(at) EXCEPT ![o] = IF borrowed = 0 THEN "clearing" ELSE "draining"]
      BY <2>4 DEF Stop, Drain
    <3>3. Woken(at) \in [Process -> Step]
      BY <3>1 DEF TypeOK, Step, TaskStep
    <3>4. QED
      BY <2>1, <2>4, <3>1, <3>2, <3>3 DEF Step, OwnerStep
  <2>5. QED
    BY <2>3, <2>4
<1>1. TypeOK'
  BY <1>0 DEF Stop, Drain, Goes, TypeOK, OwnSteps, TaskStep, OwnerStep, Step
<1>2. OwnSteps'
  BY <1>0, <1>1 DEF Stop, Drain, Goes, TypeOK, OwnSteps, OwnersInv, TaskStep,
      OwnerStep
<1>3. HandsInv'
  BY <1>0, <1>1 DEF Stop, Drain, Goes, TypeOK, HandsInv, OwnersInv, LiveInv,
      OwnSteps, TaskStep, OwnerStep
<1>4. LiveInv'
  BY <1>0, <1>1 DEF Stop, Drain, Goes, TypeOK, LiveInv, HandsInv, OwnersInv,
      OwnSteps, TaskStep, OwnerStep
<1>5. CleanInv'
  BY <1>0, <1>1 DEF Stop, Drain, Goes, TypeOK, CleanInv, HandsInv, LiveInv,
      OwnersInv
<1>6. OwnersInv'
  BY <1>0, <1>1 DEF Stop, Drain, Goes, TypeOK, OwnersInv, OwnSteps, HandsInv,
      Opening, TaskStep, OwnerStep
<1>7. RoomInv'
  <2>1. Counted' = Counted /\ Coming' = Coming /\ live' = live /\ borrowed' = borrowed
    BY <1>0 DEF Stop, Goes, Drain, Counted, Coming, Reserved, TypeOK
  <2>2. QED
    BY <2>1, SameRoom
<1>8. QED
  BY <1>1, <1>2, <1>3, <1>4, <1>5, <1>6, <1>7

LEMMA CheckDrainedKeeps ==
    ASSUME IInv, NEW o \in Owner, CheckDrained(o)
    PROVE  IInv'
<1> USE PoolAssumption DEF IInv, Process, pool, driver
<1>1. TypeOK'
  BY DEF CheckDrained, Drain, Goes, TypeOK, OwnSteps, TaskStep, OwnerStep, Step
<1>2. OwnSteps'
  BY <1>1 DEF CheckDrained, Drain, Goes, TypeOK, OwnSteps, OwnersInv, TaskStep,
      OwnerStep
<1>3. HandsInv'
  BY <1>1 DEF CheckDrained, Drain, Goes, TypeOK, HandsInv, OwnersInv, LiveInv,
      OwnSteps, TaskStep, OwnerStep
<1>4. LiveInv'
  BY <1>1 DEF CheckDrained, Drain, Goes, TypeOK, LiveInv, HandsInv, OwnersInv,
      OwnSteps, TaskStep, OwnerStep
<1>5. CleanInv'
  BY <1>1 DEF CheckDrained, Drain, Goes, TypeOK, CleanInv, HandsInv, LiveInv,
      OwnersInv
<1>6. OwnersInv'
  BY <1>1 DEF CheckDrained, Drain, Goes, TypeOK, OwnersInv, OwnSteps, HandsInv,
      Opening, TaskStep, OwnerStep
<1>7. RoomInv'
  <2>1. Counted' = Counted /\ Coming' = Coming /\ live' = live /\ borrowed' = borrowed
    BY DEF CheckDrained, Goes, Counted, Coming, Reserved, TypeOK, OwnSteps, TaskStep, OwnerStep, Step, Drain
  <2>2. QED
    BY <2>1, SameRoom
<1>8. QED
  BY <1>1, <1>2, <1>3, <1>4, <1>5, <1>6, <1>7

LEMMA CloseKeptKeeps ==
    ASSUME IInv, NEW o \in Owner, NEW c \in Connection, CloseKept(o, c)
    PROVE  IInv'
<1> USE PoolAssumption DEF IInv, Process, pool, driver
<1>1. TypeOK'
  BY DEF CloseKept, Goes, TypeOK, OwnSteps, TaskStep, OwnerStep, Step
<1>2. OwnSteps'
  BY <1>1 DEF CloseKept, Goes, TypeOK, OwnSteps, OwnersInv, TaskStep, OwnerStep
<1>3. HandsInv'
  BY <1>1 DEF CloseKept, Goes, TypeOK, HandsInv, OwnersInv, LiveInv, OwnSteps,
      TaskStep, OwnerStep
<1>4. LiveInv'
  BY <1>1 DEF CloseKept, Goes, TypeOK, LiveInv, HandsInv, OwnersInv, OwnSteps,
      TaskStep, OwnerStep
<1>5. CleanInv'
  BY <1>1 DEF CloseKept, Goes, TypeOK, CleanInv, HandsInv, LiveInv, OwnersInv
<1>6. OwnersInv'
  BY <1>1 DEF CloseKept, Goes, TypeOK, OwnersInv, OwnSteps, HandsInv, Opening,
      TaskStep, OwnerStep
<1>7. RoomInv'
  <2>1. Counted' = Counted /\ Coming' = Coming /\ borrowed' = borrowed
    BY DEF CloseKept, Counted, Coming
  <2>2. IsFiniteSet(live') /\ Cardinality(live') =< Cardinality(live) /\ Cardinality(live') \in Nat
    <3>1. live' = live \ {c}
      BY DEF CloseKept
    <3>2. QED
      BY <3>1, OneMoreOneLess DEF RoomInv
  <2>3. Cardinality(live') + Cardinality(Coming') =< Size
    BY <2>1, <2>2, Sizes DEF RoomInv
  <2>4. QED
    BY <2>1, <2>2, <2>3, RoomForTheSame
<1>8. QED
  BY <1>1, <1>2, <1>3, <1>4, <1>5, <1>6, <1>7

LEMMA ClearedKeeps ==
    ASSUME IInv, NEW o \in Owner, Cleared(o)
    PROVE  IInv'
<1> USE PoolAssumption DEF IInv, Process, pool, driver
<1>1. TypeOK'
  BY DEF Cleared, Goes, TypeOK, OwnSteps, TaskStep, OwnerStep, Step
<1>2. OwnSteps'
  BY <1>1 DEF Cleared, Goes, TypeOK, OwnSteps, OwnersInv, TaskStep, OwnerStep
<1>3. HandsInv'
  BY <1>1 DEF Cleared, Goes, TypeOK, HandsInv, OwnersInv, LiveInv, OwnSteps,
      TaskStep, OwnerStep
<1>4. LiveInv'
  BY <1>1 DEF Cleared, Goes, TypeOK, LiveInv, HandsInv, OwnersInv, OwnSteps,
      TaskStep, OwnerStep
<1>5. CleanInv'
  BY <1>1 DEF Cleared, Goes, TypeOK, CleanInv, HandsInv, LiveInv, OwnersInv
<1>6. OwnersInv'
  BY <1>1 DEF Cleared, Goes, TypeOK, OwnersInv, OwnSteps, HandsInv, Opening,
      TaskStep, OwnerStep
<1>7. RoomInv'
  <2>1. Counted' = Counted /\ Coming' = Coming /\ live' = live /\ borrowed' = borrowed
    BY DEF Cleared, Goes, Counted, Coming, Reserved, TypeOK, OwnSteps, TaskStep, OwnerStep, Step
  <2>2. QED
    BY <2>1, SameRoom
<1>8. QED
  BY <1>1, <1>2, <1>3, <1>4, <1>5, <1>6, <1>7

-----------------------------------------------------------------------------
(* The invariant. *)

LEMMA InitInvariant == Init => IInv
<1> SUFFICES ASSUME Init PROVE IInv
  OBVIOUS
<1> USE PoolAssumption DEF Init, Process
<1>1. TypeOK
  BY DEF TypeOK, Step, TaskStep
<1>2. OwnSteps /\ HandsInv /\ LiveInv /\ CleanInv /\ OwnersInv
  BY DEF OwnSteps, HandsInv, LiveInv, CleanInv, OwnersInv, Opening, TaskStep, OwnerStep
<1>3. Counted = {} /\ Coming = {}
  BY DEF Counted, Coming, Reserved
<1>4. RoomInv
  <2>1. Cardinality(live) = 0 /\ Cardinality(Coming) = 0 /\ Cardinality(Counted) = 0
    BY <1>3, FS_EmptySet
  <2>2. IsFiniteSet(live)
    BY FS_EmptySet
  <2>3. QED
    BY <2>1, <2>2 DEF RoomInv, CapacityIsKept, Counted
<1>5. QED
  BY <1>1, <1>2, <1>4 DEF IInv

LEMMA OpensKeeps ==
    ASSUME IInv, NEW p \in Process, Opens(p)
    PROVE  IInv'
  BY ConnectsKeeps, DiscardConnectsKeeps, ConnectFailsKeeps, CloseKeeps DEF Opens

LEMMA BorrowsKeeps ==
    ASSUME IInv, NEW t \in Task, Borrows(t)
    PROVE  IInv'
  BY OpensKeeps, RefusedKeeps, WaitKeeps, BorrowKeeps, BorrowNewKeeps, LeaveKeeps,
     ResetSucceedsKeeps, ResetFailsKeeps, ReturnCapacityKeeps DEF Borrows, Process

LEMMA OwnsKeeps ==
    ASSUME IInv, NEW o \in Owner, Owns(o)
    PROVE  IInv'
  BY OpensKeeps, InitializeKeeps, StopKeeps, CheckDrainedKeeps, CloseKeptKeeps, ClearedKeeps
     DEF Owns, Process

LEMMA CallsKeeps ==
    ASSUME IInv, Calls
    PROVE  IInv'
  BY AskKeeps, UseKeeps, GiveUpKeeps, DiscardKeeps, ForsakeKeeps, CallKeeps DEF Calls

LEMMA Stutters == IInv /\ UNCHANGED vars => IInv'
<1> SUFFICES ASSUME IInv, UNCHANGED vars PROVE IInv'
  OBVIOUS
<1> USE DEF IInv, vars, pool, driver
<1>1. Counted' = Counted /\ Coming' = Coming
  BY DEF Counted, Coming
<1>2. RoomInv'
  BY <1>1, SameRoom
<1>3. (TypeOK /\ OwnSteps /\ HandsInv /\ LiveInv /\ CleanInv /\ OwnersInv)'
  BY DEF TypeOK, OwnSteps, HandsInv, LiveInv, CleanInv, OwnersInv, Opening
<1>4. QED
  BY <1>2, <1>3

(* The pool's accounts, its open connections and its owners agree in every *)
(* state, for any number of tasks, owners and connections (pool.py).       *)
THEOREM Invariance == Spec => []IInv
<1>1. IInv /\ [Next]_vars => IInv'
  BY BorrowsKeeps, OwnsKeeps, CallsKeeps, Stutters DEF Next
<1>2. QED
  BY <1>1, InitInvariant, PTL DEF Spec

(* The capacity is always that of the tasks with a reservation, and no     *)
(* borrower finds another one's transaction open, however many are         *)
(* cancelled and whatever fails (get_connection, _release).                *)
THEOREM PoolInvariance == Spec => []PoolInv
<1>1. IInv => CapacityIsKept
  BY DEF IInv, RoomInv
<1>2. IInv => AvailableIsClean
  BY DEF IInv, CleanInv, AvailableIsClean
<1>3. IInv => PoolInv
  BY <1>1, <1>2 DEF IInv, PoolInv
<1>4. QED
  BY <1>3, Invariance, PTL

-----------------------------------------------------------------------------
(* The refinement. *)

LEMMA SameLent ==
    ASSUME \A t \in Task : /\ at'[t] = "using" <=> at[t] = "using"
                           /\ at[t] = "using" => holds'[t] = holds[t]
    PROVE  LentTo' = LentTo
  BY DEF LentTo

LEMMA SamePhase ==
    ASSUME state' = state, lifecycle' = lifecycle,
           \A o \in Owner : at'[o] \in {"discarding", "closing"} <=> at[o] \in {"discarding", "closing"}
    PROVE  Phase' = Phase
<1>1. (\E o \in Owner : at'[o] \in {"discarding", "closing"})
        <=> \E o \in Owner : at[o] \in {"discarding", "closing"}
  OBVIOUS
<1>2. QED
  BY <1>1 DEF Phase

(* The pool is open, or closing, while a task has a reservation. *)
LEMMA ReservedPhase ==
    ASSUME IInv, NEW t \in Task, at[t] \in Reserved
    PROVE  Phase \in {"open", "closing"} /\ state \in {"OPEN", "CLOSING"}
<1>1. Cardinality(Counted) > 0
  BY Sizes, OneMoreOneLess DEF Counted, IInv
<1>2. borrowed # 0
  BY <1>1, Sizes DEF IInv
<1>3. state \in {"OPEN", "CLOSING"}
  BY <1>2 DEF IInv, TypeOK, OwnersInv
<1>4. QED
  BY <1>3 DEF Phase

(* What a task is to use is lent to nobody. *)
LEMMA Unlent ==
    ASSUME IInv, NEW c \in Connection, \A t \in Task : at[t] = "using" => holds[t] # c
    PROVE  c \notin Loans!Lent
  BY PoolAssumption DEF Loans!Lent, LentTo

(* FiniteSets is the same in both modules. *)
LEMMA SameCardinality == \A S : Loans!Cardinality(S) = Cardinality(S)
  BY DEF Loans!Cardinality, Cardinality

LEMMA InitRefines == Init => Loans!Init
<1> SUFFICES ASSUME Init PROVE Loans!Init
  OBVIOUS
<1> USE DEF Init, Process
<1>1. Phase = "new"
  BY DEF Phase
<1>2. LentTo = [t \in Task |-> None]
  BY DEF LentTo
<1>3. QED
  BY <1>1, <1>2 DEF Loans!Init

LEMMA LendRefines ==
    ASSUME IInv, NEW t \in Task, NEW c \in Connection, Borrow(t, c) \/ Connects(t, c)
    PROVE  Loans!Lend(t, c)
<1> USE PoolAssumption DEF IInv, Process, pool, driver
<1>1. /\ live' = live \cup {c} /\ at[t] # "using" /\ state' = state /\ lifecycle' = lifecycle
      /\ at' = [at EXCEPT ![t] = "using"] /\ holds' = [holds EXCEPT ![t] = c]
  <2>1. CASE Borrow(t, c)
    <3>1. live = live \cup {c}
      BY <2>1 DEF Borrow, LiveInv
    <3>2. QED
      BY <2>1, <3>1 DEF Borrow, MayReserve, Goes
  <2>2. CASE Connects(t, c)
    BY <2>2 DEF Connects, Goes
  <2>3. QED
    BY <2>1, <2>2
<1>2. Phase \in {"open", "closing"}
  <2>1. CASE Borrow(t, c)
    BY <2>1 DEF Borrow, MayReserve, Phase
  <2>2. CASE Connects(t, c)
    BY <2>2, ReservedPhase DEF Connects, Reserved
  <2>3. QED
    BY <2>1, <2>2
<1>3. c \notin Loans!Lent /\ LentTo[t] = None
  BY <1>1, Unlent DEF Borrow, Connects, HandsInv, LiveInv, LentTo
<1>4. Cardinality(live') =< Size
  <2>1. IInv'
    BY BorrowKeeps, ConnectsKeeps
  <2>2. Cardinality(live)' \in Nat /\ Cardinality(Coming)' \in Nat
    <3>1. IsFiniteSet(Process)
      BY FS_Union
    <3>2. IsFiniteSet(Coming')
      BY <3>1, FS_Subset, Coming' \subseteq Process DEF Coming
    <3>3. QED
      BY <2>1, <3>2, FS_CardinalityType DEF RoomInv
  <2>3. QED
    BY <2>1, <2>2, PoolAssumption DEF RoomInv
<1>5. LentTo' = [LentTo EXCEPT ![t] = c]
  BY <1>1 DEF LentTo, TypeOK
<1>6. Phase' = Phase
  BY <1>1, SamePhase DEF TypeOK
<1>7. QED
  <2>1. live' = live \cup {c}
    BY <1>1
  <2>2. QED
    BY SameCardinality, <2>1, <1>2, <1>3, <1>4, <1>5, <1>6 DEF Loans!Lend

LEMMA OpensRefines ==
    ASSUME IInv, NEW p \in Process, Opens(p)
    PROVE  [Loans!Next]_Loans!vars
<1> USE PoolAssumption DEF IInv, Process, pool, driver
<1>1. ASSUME NEW c \in Connection, Connects(p, c)
      PROVE  [Loans!Next]_Loans!vars
  <2>1. CASE p \in Task
    BY <1>1, <2>1, LendRefines DEF Loans!Next
  <2>2. CASE p \in Owner
    <3>1. /\ state = "NEW" /\ c \notin live /\ live' = live \cup {c} /\ lifecycle = p
          /\ live = kept[p]
      BY <1>1, <2>2, OpeningOwner DEF Connects, OwnersInv, Opening
    <3>2. \A o \in Owner : at[o] \notin {"discarding", "closing"}
      BY <1>1, <3>1 DEF Connects, OwnersInv
    <3>3. Phase = "new"
      BY <3>1, <3>2 DEF Phase
    <3>4. LentTo' = LentTo
      BY <1>1, <2>2, SameLent DEF Connects, Goes, TypeOK
    <3>5. Cardinality(live') =< Size /\ Cardinality(live') \in Nat
      <4>1. IInv'
        BY <1>1, ConnectsKeeps
      <4>2. IsFiniteSet(Process)
        BY FS_Union
      <4>3. IsFiniteSet(Coming')
        BY <4>2, FS_Subset, Coming' \subseteq Process DEF Coming
      <4>4. Cardinality(live') \in Nat /\ Cardinality(Coming') \in Nat
        BY <4>1, <4>3, FS_CardinalityType DEF RoomInv
      <4>5. QED
        BY <4>1, <4>4 DEF RoomInv
    <3>6. CASE Cardinality(kept[p] \cup {c}) < Size
      <4>1. Phase' = Phase
        BY <1>1, <2>2, <3>6, SamePhase DEF Connects
      <4>2. Loans!Open(c)
        BY <3>1, <3>3, <3>4, <3>5, <4>1, SameCardinality DEF Loans!Open
      <4>3. QED
        BY <4>2 DEF Loans!Next
    <3>7. CASE ~(Cardinality(kept[p] \cup {c}) < Size)
      <4>1. Phase' = "open"
        BY <1>1, <2>2, <3>7 DEF Connects, Phase
      <4>2. Cardinality(live') = Size
        BY <3>1, <3>5, <3>7
      <4>3. Loans!Start(c)
        BY <3>1, <3>3, <3>4, <4>1, <4>2, SameCardinality DEF Loans!Start
      <4>4. QED
        BY <4>3 DEF Loans!Next
    <3>8. QED
      BY <3>6, <3>7
  <2>3. QED
    BY <2>1, <2>2
<1>2. ASSUME NEW c \in Connection, DiscardConnects(p, c)
      PROVE  [Loans!Next]_Loans!vars
  <2>1. Phase # "closed"
    <3>1. CASE p \in Task
      BY <1>2, <3>1, ReservedPhase DEF DiscardConnects, Reserved
    <3>2. CASE p \in Owner
      BY <1>2, <3>2 DEF DiscardConnects, OwnersInv, Opening, Phase
    <3>3. QED
      BY <3>1, <3>2
  <2>2. Phase' = Phase
    BY <1>2, SamePhase DEF DiscardConnects, Goes, TypeOK
  <2>3. LentTo' = LentTo
    BY <1>2, SameLent DEF DiscardConnects, Goes, TypeOK
  <2>4. Cardinality(live') =< Size
    <3>1. p \in Coming
      BY <1>2 DEF DiscardConnects, Coming
    <3>2. Cardinality(Coming) > 0 /\ Cardinality(live') = Cardinality(live) + 1
      BY <1>2, <3>1, Sizes, OneMoreOneLess DEF DiscardConnects, RoomInv
    <3>3. QED
      BY <3>2, Sizes DEF RoomInv
  <2>5. Loans!Open(c)
    BY <1>2, <2>1, <2>2, <2>3, <2>4, SameCardinality DEF DiscardConnects, Loans!Open
  <2>6. QED
    BY <2>5 DEF Loans!Next
<1>3. ASSUME ConnectFails(p)
      PROVE  [Loans!Next]_Loans!vars
  <2>1. LentTo' = LentTo /\ live' = live
    BY <1>3, SameLent DEF ConnectFails, Fails, Goes, TypeOK, TaskStep
  <2>2. CASE p \in Task
    BY <1>3, <2>1, <2>2, SamePhase DEF ConnectFails, Fails, Goes, TypeOK, Loans!vars
  <2>3. CASE p \in Owner
    <3>1. state = "NEW" /\ lifecycle = p /\ state' = "CLOSED" /\ lifecycle' = p
      BY <1>3, <2>3 DEF ConnectFails, Fails, OwnersInv, Opening
    <3>2. Phase \in {"new", "closing"} /\ Phase' = "closing"
      BY <2>3, <3>1 DEF Phase
    <3>3. QED
      BY <2>1, <3>2 DEF Loans!Next, Loans!Stop, Loans!vars
  <2>4. QED
    BY <2>2, <2>3
<1>4. ASSUME Close(p)
      PROVE  [Loans!Next]_Loans!vars
  <2>1. holds[p] \in live /\ holds[p] \in Connection
    BY <1>4 DEF Close, HandsInv, LiveInv, TypeOK
  <2>2. \A t \in Task : at[t] = "using" => holds[t] # holds[p]
    BY <1>4, <2>1 DEF Close, HandsInv
  <2>3. holds[p] \notin Loans!Lent
    BY <2>1, <2>2, Unlent
  <2>4. LentTo' = LentTo
    BY <1>4, SameLent DEF Close, Fails, Goes, TypeOK, TaskStep
  <2>5. Phase' = Phase
    <3>1. CASE p \in Task
      BY <1>4, <3>1, SamePhase DEF Close, Fails, Goes, TypeOK
    <3>2. CASE p \in Owner
      BY <1>4, <3>2 DEF Close, Fails, OwnersInv, Opening, Phase
    <3>3. QED
      BY <3>1, <3>2
  <2>6. Loans!Close(holds[p])
    BY <1>4, <2>1, <2>3, <2>4, <2>5 DEF Close, Loans!Close
  <2>7. QED
    BY <2>1, <2>6 DEF Loans!Next
<1>5. QED
  BY <1>1, <1>2, <1>3, <1>4 DEF Opens

LEMMA BorrowsRefines ==
    ASSUME IInv, NEW t \in Task, Borrows(t)
    PROVE  [Loans!Next]_Loans!vars
<1> USE PoolAssumption DEF IInv, Process, pool, driver
<1>1. CASE Opens(t)
  BY <1>1, OpensRefines
<1>2. CASE \E c \in Connection : Borrow(t, c)
  BY <1>2, LendRefines DEF Loans!Next
<1>3. CASE Leave(t)
  <2>1. LentTo[t] # None /\ LentTo' = [LentTo EXCEPT ![t] = None]
    BY <1>3 DEF Leave, Goes, LentTo, HandsInv, TypeOK
  <2>2. Phase' = Phase /\ live' = live
    BY <1>3, SamePhase DEF Leave, Goes, TypeOK
  <2>3. QED
    BY <2>1, <2>2 DEF Loans!Next, Loans!Return
<1>4. CASE Refused(t) \/ Wait(t) \/ BorrowNew(t) \/ ResetSucceeds(t) \/ ResetFails(t)
  <2>1. Phase' = Phase /\ live' = live
    BY <1>4, SamePhase
       DEF Refused, Wait, BorrowNew, MayReserve, ResetSucceeds, ResetFails, Goes, TypeOK
  <2>2. LentTo' = LentTo
    BY <1>4, SameLent
       DEF Refused, Wait, BorrowNew, MayReserve, ResetSucceeds, ResetFails, Goes, TypeOK
  <2>3. QED
    BY <2>1, <2>2 DEF Loans!vars
<1>5. CASE ReturnCapacity(t)
  <2>1. \A p \in Process : at'[p] = IF p = t THEN "done"
                                 ELSE IF at[p] = "waiting" THEN "asking"
                                 ELSE IF at[p] = "draining" THEN "checking" ELSE at[p]
    BY <1>5 DEF ReturnCapacity, Woken, TypeOK
  <2>2. Phase' = Phase /\ live' = live
    BY <1>5, <2>1, SamePhase DEF ReturnCapacity
  <2>3. LentTo' = LentTo
    BY <1>5, <2>1, SameLent DEF ReturnCapacity
  <2>4. QED
    BY <2>2, <2>3 DEF Loans!vars
<1>6. QED
  BY <1>1, <1>2, <1>3, <1>4, <1>5 DEF Borrows

LEMMA OwnsRefines ==
    ASSUME IInv, NEW o \in Owner, Owns(o)
    PROVE  [Loans!Next]_Loans!vars
<1> USE PoolAssumption DEF IInv, Process, pool, driver
<1>1. CASE Opens(o)
  BY <1>1, OpensRefines
<1>2. CASE Initialize(o)
  <2>1. LentTo' = LentTo /\ live' = live
    BY <1>2, SameLent DEF Initialize, Goes, TypeOK
  <2>2. Phase' = Phase
    <3>1. state' = state /\ \A q \in Owner : at'[q] \in {"discarding", "closing"}
                                               <=> at[q] \in {"discarding", "closing"}
      BY <1>2 DEF Initialize, Goes, TypeOK
    <3>2. state = "CLOSED" => lifecycle' = lifecycle
      BY <1>2 DEF Initialize
    <3>3. (\E q \in Owner : at'[q] \in {"discarding", "closing"})
            <=> \E q \in Owner : at[q] \in {"discarding", "closing"}
      BY <3>1
    <3>4. QED
      BY <3>1, <3>2, <3>3 DEF Phase, TypeOK
  <2>3. QED
    BY <2>1, <2>2 DEF Loans!vars
<1>3. CASE Stop(o)
  <2>1. /\ live' = live /\ holds' = holds
        /\ \A t \in Task : at'[t] = "using" <=> at[t] = "using"
        /\ \A q \in Owner : at[q] \notin {"discarding", "closing", "draining"}
    BY <1>3 DEF Stop, Drain, Goes, Woken, TypeOK, OwnersInv
  <2>2. LentTo' = LentTo
    BY <2>1, SameLent
  <2>3. CASE state = "CLOSED"
    <3>1. Phase' = Phase
      BY <1>3, <2>3, SamePhase DEF Stop, Goes, TypeOK
    <3>2. QED
      BY <2>1, <2>2, <3>1 DEF Loans!vars
  <2>4. CASE state # "CLOSED"
    <3>1. state \in {"NEW", "OPEN"} /\ state' = "CLOSING"
      BY <1>3, <2>4 DEF Stop, OwnersInv, TypeOK
    <3>2. Phase \in {"new", "open"} /\ Phase' = "closing"
      BY <2>1, <3>1 DEF Phase
    <3>3. QED
      BY <2>1, <2>2, <3>2 DEF Loans!Next, Loans!Stop
  <2>5. QED
    BY <2>3, <2>4
<1>4. CASE CheckDrained(o)
  <2>1. LentTo' = LentTo /\ live' = live
    BY <1>4, SameLent DEF CheckDrained, Drain, TypeOK
  <2>2. Phase' = Phase
    BY <1>4, SamePhase DEF CheckDrained, Drain, TypeOK
  <2>3. QED
    BY <2>1, <2>2 DEF Loans!vars
<1>5. ASSUME NEW c \in Connection, CloseKept(o, c)
      PROVE  [Loans!Next]_Loans!vars
  <2>1. c \in live /\ live' = live \ {c} /\ LentTo' = LentTo
    BY <1>5, SameLent DEF CloseKept, LiveInv
  <2>2. Phase' = Phase
    BY <1>5, SamePhase DEF CloseKept
  <2>3. c \notin Loans!Lent
    BY <1>5, Unlent DEF CloseKept, HandsInv
  <2>4. QED
    BY <2>1, <2>2, <2>3 DEF Loans!Next, Loans!Close
<1>6. CASE Cleared(o)
  <2>1. /\ state \in {"CLOSING", "CLOSED"} /\ lifecycle = o /\ borrowed = 0 /\ available = {}
        /\ state' = "CLOSED" /\ lifecycle' = None /\ live' = live
    BY <1>6 DEF Cleared, OwnersInv
  <2>2. Phase = "closing" /\ Phase' = "closed"
    BY <2>1 DEF Phase
  <2>3. LentTo' = LentTo
    BY <1>6, SameLent DEF Cleared, Goes, TypeOK
  <2>4. live = {}
    <3>1. Counted = {}
      BY <2>1, Sizes, FS_EmptySet
    <3>2. \A q \in Owner : kept[q] = {} /\ at[q] \notin {"discarding", "closing"}
      BY <1>6, <2>1 DEF Cleared, OwnersInv, Opening
    <3>3. \A p \in Process : holds[p] = None
      BY <3>1, <3>2 DEF HandsInv, OwnSteps, Counted, Reserved, TaskStep
    <3>4. QED
      BY <2>1, <3>2, <3>3 DEF LiveInv, TypeOK
  <2>5. QED
    BY <2>1, <2>2, <2>3, <2>4 DEF Loans!Next, Loans!Stopped
<1>7. QED
  BY <1>1, <1>2, <1>3, <1>4, <1>5, <1>6 DEF Owns

LEMMA CallsRefines ==
    ASSUME IInv, Calls
    PROVE  [Loans!Next]_Loans!vars
<1> USE PoolAssumption DEF IInv, Process, pool, driver
<1>1. ASSUME NEW t \in Task, Ask(t) \/ Use(t) \/ GiveUp(t)
      PROVE  [Loans!Next]_Loans!vars
  <2>1. Phase' = Phase /\ live' = live
    BY <1>1, SamePhase DEF Ask, Use, GiveUp, Goes, TypeOK
  <2>2. LentTo' = LentTo
    BY <1>1, SameLent DEF Ask, Use, GiveUp, Goes, TypeOK
  <2>3. QED
    BY <2>1, <2>2 DEF Loans!vars
<1>2. ASSUME NEW p \in Process, Discard(p)
      PROVE  [Loans!Next]_Loans!vars
  <2>1. LentTo' = LentTo /\ live' = live
    BY <1>2, SameLent DEF Discard, Goes, TypeOK
  <2>2. CASE p \in Task
    <3>1. Phase' = Phase
      BY <1>2, <2>2, SamePhase DEF Discard, Goes, TypeOK
    <3>2. QED
      BY <2>1, <3>1 DEF Loans!vars
  <2>3. CASE p \in Owner
    <3>1. state = "NEW" /\ lifecycle = p /\ state' = state /\ at'[p] = "discarding"
      BY <1>2, <2>3 DEF Discard, Goes, OwnersInv, Opening, TypeOK
    <3>2. \A q \in Owner : at[q] \notin {"discarding", "closing"}
      BY <1>2, <3>1 DEF Discard, OwnersInv
    <3>3. Phase = "new" /\ Phase' = "closing"
      BY <2>3, <3>1, <3>2 DEF Phase
    <3>4. QED
      BY <2>1, <3>3 DEF Loans!Next, Loans!Stop
  <2>4. QED
    BY <2>2, <2>3
<1>3. ASSUME NEW o \in Owner,
             Forsake(o) \/ \E what \in {"initializing", "stopping"} : Call(o, what)
      PROVE  [Loans!Next]_Loans!vars
  <2>1. Phase' = Phase /\ live' = live
    BY <1>3, SamePhase DEF Forsake, Call, Goes, TypeOK
  <2>2. LentTo' = LentTo
    BY <1>3, SameLent DEF Forsake, Call, Goes, TypeOK
  <2>3. QED
    BY <2>1, <2>2 DEF Loans!vars
<1>4. QED
  BY <1>1, <1>2, <1>3 DEF Calls

(* The pool implements ConnectionLoans: there are never more connections   *)
(* than its size, each is lent to one borrower at a time, and a pool that  *)
(* has closed has none left (ConnectionPool).                              *)
THEOREM Refinement == Spec => ImplementsLoans
<1>1. IInv /\ UNCHANGED vars => UNCHANGED Loans!vars
  BY DEF vars, pool, driver, Loans!vars, Phase, LentTo
<1>2. IInv /\ [Next]_vars => [Loans!Next]_Loans!vars
  BY <1>1, BorrowsRefines, OwnsRefines, CallsRefines DEF Next
<1>3. QED
  BY <1>2, InitRefines, Invariance, PTL DEF Spec, ImplementsLoans, Loans!Spec

-----------------------------------------------------------------------------
(* The listeners: their inductive invariant. *)

Holding == {"starting", "serving", "finishing", "draining", "clearing"}
Before == {"new", "prepared"}
After == {"leaving", "closing", "done"}

Running == \E l \in Listener : server[l] # "none"

\* Nothing takes care of what the start-up has entered, or enters.
StackIsLeft == "close" \in behind \/ "startup" \in behind

\* What the host has opened and closed at each of its steps.
HostInv ==
    /\ host \in {"prepared", "leaving"} \cup Holding => runtime = "ready"
    /\ host = "done" => runtime = "closed"
    /\ socket = IF host \in Holding \/ "close" \in behind THEN Listener ELSE {}
    /\ \A l \in Listener : lifespan[l] = "left" => host \in After
    /\ host \in {"closing", "done"} => StackIsLeft \/ \A l \in Listener : lifespan[l] # "in"
    /\ host \in After \cup {"clearing"} =>
            behind # {} \/ \A l \in Listener : server[l] \in Ended \cup {"none"}
    /\ host \in After => behind # {} \/ busy = {}

\* When something can have been left behind.
BehindInv ==
    /\ behind # {} => host \in After \cup {"draining", "clearing"}
    /\ "close" \in behind => host \in {"closing", "done"}

\* How far the start-up has come.
StartupInv ==
    /\ host \in Before => startup = "none"
    /\ Starts => host \in {"starting", "finishing"} \/ StackIsLeft
    /\ startup = "none" => \A l \in Listener : lifespan[l] = "out"
    /\ startup \in {"none", "entering"} => upto = 1 /\ ~Running
    /\ \A l \in Listener : lifespan[l] = "entering" =>
            startup = "entering" /\ \A k \in Listener : k < l => lifespan[k] \in {"in", "left"}
    /\ startup = "awaiting" /\ host = "starting" =>
            \A k \in Listener : k < upto => server[k] \in {"listening"} \cup Ended

\* The servers run within all the lifespans, the requests within the servers.
ServersInv ==
    /\ Running => \A l \in Listener : server[l] # "none"
    /\ Running /\ host \in Holding => \A l \in Listener : lifespan[l] = "in"
    /\ busy # {} => Running

\* Who has asked for what.
AskedInv ==
    /\ shutdown /\ host \in Before \cup {"starting", "serving"} => asked
    /\ host \notin Before \cup {"starting", "serving"} => shutdown
    /\ result = "ok" => asked

ProcessIInv == HostTypeOK /\ HostInv /\ BehindInv /\ StartupInv /\ ServersInv /\ AskedInv

LEMMA PrepareStep ==
    ASSUME ProcessIInv, Prepare
    PROVE  ProcessIInv'
<1> USE ListenersAssumption DEF ProcessIInv, Prepare, tasks, resources, history, Result
<1>1. HostTypeOK'
  BY DEF HostTypeOK, Listener, Hosts, Startups, Servers, Ended, Starts, StartupInv, Parts
<1>2. HostInv'
  BY DEF HostTypeOK, HostInv, BehindInv, StackIsLeft, StartupInv, ServersInv, Holding, Before, After, Starts, Running, Ended
<1>3. StartupInv'
  BY DEF HostTypeOK, HostInv, BehindInv, StackIsLeft, StartupInv, ServersInv, Holding, Before, After, Starts, Running, Ended, Dead, Listener
<1>4. ServersInv'
  BY DEF HostTypeOK, HostInv, BehindInv, StackIsLeft, StartupInv, ServersInv, Holding, Before, After, Starts, Running, Ended, Listener
<1>5. AskedInv'
  BY DEF HostTypeOK, AskedInv, BehindInv, StackIsLeft, StartupInv, Before, After, Holding, Ended, Dead, Hosts, Starts
<1>6. BehindInv'
  BY DEF HostTypeOK, BehindInv, Before, After, Holding
<1> QED
  BY <1>1, <1>2, <1>3, <1>4, <1>5, <1>6

LEMMA BindStep ==
    ASSUME ProcessIInv, Bind
    PROVE  ProcessIInv'
<1> USE ListenersAssumption DEF ProcessIInv, Bind, tasks, resources, history, Result
<1>1. HostTypeOK'
  BY DEF HostTypeOK, Listener, Hosts, Startups, Servers, Ended, Starts, StartupInv, Parts
<1>2. HostInv'
  BY DEF HostTypeOK, HostInv, BehindInv, StackIsLeft, StartupInv, ServersInv, Holding, Before, After, Starts, Running, Ended
<1>3. StartupInv'
  BY DEF HostTypeOK, HostInv, BehindInv, StackIsLeft, StartupInv, ServersInv, Holding, Before, After, Starts, Running, Ended, Dead, Listener
<1>4. ServersInv'
  BY DEF HostTypeOK, HostInv, BehindInv, StackIsLeft, StartupInv, ServersInv, Holding, Before, After, Starts, Running, Ended, Listener
<1>5. AskedInv'
  BY DEF HostTypeOK, AskedInv, BehindInv, StackIsLeft, StartupInv, Before, After, Holding, Ended, Dead, Hosts, Starts
<1>6. BehindInv'
  BY DEF HostTypeOK, BehindInv, Before, After, Holding
<1> QED
  BY <1>1, <1>2, <1>3, <1>4, <1>5, <1>6

LEMMA DoNotBindStep ==
    ASSUME ProcessIInv, DoNotBind
    PROVE  ProcessIInv'
<1> USE ListenersAssumption DEF ProcessIInv, DoNotBind, tasks, resources, history, Result
<1>1. HostTypeOK'
  BY DEF HostTypeOK, Listener, Hosts, Startups, Servers, Ended, Starts, StartupInv, Parts
<1>2. HostInv'
  BY DEF HostTypeOK, HostInv, BehindInv, StackIsLeft, StartupInv, ServersInv, Holding, Before, After, Starts, Running, Ended
<1>3. StartupInv'
  BY DEF HostTypeOK, HostInv, BehindInv, StackIsLeft, StartupInv, ServersInv, Holding, Before, After, Starts, Running, Ended, Dead, Listener
<1>4. ServersInv'
  BY DEF HostTypeOK, HostInv, BehindInv, StackIsLeft, StartupInv, ServersInv, Holding, Before, After, Starts, Running, Ended, Listener
<1>5. AskedInv'
  BY DEF HostTypeOK, AskedInv, BehindInv, StackIsLeft, StartupInv, Before, After, Holding, Ended, Dead, Hosts, Starts
<1>6. BehindInv'
  BY DEF HostTypeOK, BehindInv, Before, After, Holding
<1> QED
  BY <1>1, <1>2, <1>3, <1>4, <1>5, <1>6

LEMMA StartedStep ==
    ASSUME ProcessIInv, Started
    PROVE  ProcessIInv'
<1> USE ListenersAssumption DEF ProcessIInv, Started, tasks, resources, history
<1>1. HostTypeOK'
  BY DEF HostTypeOK, Listener, Hosts, Startups, Servers, Ended, Starts, StartupInv, Parts
<1>2. HostInv'
  BY DEF HostTypeOK, HostInv, BehindInv, StackIsLeft, StartupInv, ServersInv, Holding, Before, After, Starts, Running, Ended
<1>3. StartupInv'
  BY DEF HostTypeOK, HostInv, BehindInv, StackIsLeft, StartupInv, ServersInv, Holding, Before, After, Starts, Running, Ended, Dead, Listener
<1>4. ServersInv'
  BY DEF HostTypeOK, HostInv, BehindInv, StackIsLeft, StartupInv, ServersInv, Holding, Before, After, Starts, Running, Ended, Listener
<1>5. AskedInv'
  BY DEF HostTypeOK, AskedInv, BehindInv, StackIsLeft, StartupInv, Before, After, Holding, Ended, Dead, Hosts, Starts
<1>6. BehindInv'
  BY DEF HostTypeOK, BehindInv, Before, After, Holding
<1> QED
  BY <1>1, <1>2, <1>3, <1>4, <1>5, <1>6

LEMMA StopStartingStep ==
    ASSUME ProcessIInv, StopStarting
    PROVE  ProcessIInv'
<1> USE ListenersAssumption DEF ProcessIInv, StopStarting, tasks, resources, history, Finish, Result, Starts
<1>1. HostTypeOK'
  BY DEF HostTypeOK, Listener, Hosts, Startups, Servers, Ended, Starts, StartupInv, Parts
<1>2. HostInv'
  BY DEF HostTypeOK, HostInv, BehindInv, StackIsLeft, StartupInv, ServersInv, Holding, Before, After, Starts, Running, Ended
<1>3. StartupInv'
  BY DEF HostTypeOK, HostInv, BehindInv, StackIsLeft, StartupInv, ServersInv, Holding, Before, After, Starts, Running, Ended, Dead, Listener
<1>4. ServersInv'
  BY DEF HostTypeOK, HostInv, BehindInv, StackIsLeft, StartupInv, ServersInv, Holding, Before, After, Starts, Running, Ended, Listener
<1>5. AskedInv'
  BY DEF HostTypeOK, AskedInv, BehindInv, StackIsLeft, StartupInv, Before, After, Holding, Ended, Dead, Hosts, Starts
<1>6. BehindInv'
  BY DEF HostTypeOK, BehindInv, Before, After, Holding
<1> QED
  BY <1>1, <1>2, <1>3, <1>4, <1>5, <1>6

LEMMA StopServingStep ==
    ASSUME ProcessIInv, StopServing
    PROVE  ProcessIInv'
<1> USE ListenersAssumption DEF ProcessIInv, StopServing, tasks, resources, history, Finish, Result
<1>1. HostTypeOK'
  BY DEF HostTypeOK, Listener, Hosts, Startups, Servers, Ended, Starts, StartupInv, Parts
<1>2. HostInv'
  BY DEF HostTypeOK, HostInv, BehindInv, StackIsLeft, StartupInv, ServersInv, Holding, Before, After, Starts, Running, Ended
<1>3. StartupInv'
  BY DEF HostTypeOK, HostInv, BehindInv, StackIsLeft, StartupInv, ServersInv, Holding, Before, After, Starts, Running, Ended, Dead, Listener
<1>4. ServersInv'
  BY DEF HostTypeOK, HostInv, BehindInv, StackIsLeft, StartupInv, ServersInv, Holding, Before, After, Starts, Running, Ended, Listener
<1>5. AskedInv'
  BY DEF HostTypeOK, AskedInv, BehindInv, StackIsLeft, StartupInv, Before, After, Holding, Ended, Dead, Hosts, Starts
<1>6. BehindInv'
  BY DEF HostTypeOK, BehindInv, Before, After, Holding
<1> QED
  BY <1>1, <1>2, <1>3, <1>4, <1>5, <1>6

LEMMA FinishStartupStep ==
    ASSUME ProcessIInv, FinishStartup
    PROVE  ProcessIInv'
<1> USE ListenersAssumption DEF ProcessIInv, FinishStartup, tasks, resources, history, Result
<1>1. HostTypeOK'
  BY DEF HostTypeOK, Listener, Hosts, Startups, Servers, Ended, Starts, StartupInv, Parts
<1>2. HostInv'
  BY DEF HostTypeOK, HostInv, BehindInv, StackIsLeft, StartupInv, ServersInv, Holding, Before, After, Starts, Running, Ended
<1>3. StartupInv'
  BY DEF HostTypeOK, HostInv, BehindInv, StackIsLeft, StartupInv, ServersInv, Holding, Before, After, Starts, Running, Ended, Dead, Listener
<1>4. ServersInv'
  BY DEF HostTypeOK, HostInv, BehindInv, StackIsLeft, StartupInv, ServersInv, Holding, Before, After, Starts, Running, Ended, Listener
<1>5. AskedInv'
  BY DEF HostTypeOK, AskedInv, BehindInv, StackIsLeft, StartupInv, Before, After, Holding, Ended, Dead, Hosts, Starts
<1>6. BehindInv'
  BY DEF HostTypeOK, BehindInv, Before, After, Holding
<1> QED
  BY <1>1, <1>2, <1>3, <1>4, <1>5, <1>6

LEMMA DrainedStep ==
    ASSUME ProcessIInv, Drained
    PROVE  ProcessIInv'
<1> USE ListenersAssumption DEF ProcessIInv, Drained, tasks, resources, history, Result
<1>1. HostTypeOK'
  BY DEF HostTypeOK, Listener, Hosts, Startups, Servers, Ended, Starts, StartupInv, Parts
<1>2. HostInv'
  BY DEF HostTypeOK, HostInv, BehindInv, StackIsLeft, StartupInv, ServersInv, Holding, Before, After, Starts, Running, Ended
<1>3. StartupInv'
  BY DEF HostTypeOK, HostInv, BehindInv, StackIsLeft, StartupInv, ServersInv, Holding, Before, After, Starts, Running, Ended, Dead, Listener
<1>4. ServersInv'
  BY DEF HostTypeOK, HostInv, BehindInv, StackIsLeft, StartupInv, ServersInv, Holding, Before, After, Starts, Running, Ended, Listener
<1>5. AskedInv'
  BY DEF HostTypeOK, AskedInv, BehindInv, StackIsLeft, StartupInv, Before, After, Holding, Ended, Dead, Hosts, Starts
<1>6. BehindInv'
  BY DEF HostTypeOK, BehindInv, Before, After, Holding
<1> QED
  BY <1>1, <1>2, <1>3, <1>4, <1>5, <1>6

LEMMA ClearStep ==
    ASSUME ProcessIInv, Clear
    PROVE  ProcessIInv'
<1> USE ListenersAssumption DEF ProcessIInv, Clear, tasks, resources, history, Result
<1>1. HostTypeOK'
  BY DEF HostTypeOK, Listener, Hosts, Startups, Servers, Ended, Starts, StartupInv, Parts
<1>2. HostInv'
  BY DEF HostTypeOK, HostInv, BehindInv, StackIsLeft, StartupInv, ServersInv, Holding, Before, After, Starts, Running, Ended
<1>3. StartupInv'
  BY DEF HostTypeOK, HostInv, BehindInv, StackIsLeft, StartupInv, ServersInv, Holding, Before, After, Starts, Running, Ended, Dead, Listener
<1>4. ServersInv'
  BY DEF HostTypeOK, HostInv, BehindInv, StackIsLeft, StartupInv, ServersInv, Holding, Before, After, Starts, Running, Ended, Listener
<1>5. AskedInv'
  BY DEF HostTypeOK, AskedInv, BehindInv, StackIsLeft, StartupInv, Before, After, Holding, Ended, Dead, Hosts, Starts
<1>6. BehindInv'
  BY DEF HostTypeOK, BehindInv, Before, After, Holding
<1> QED
  BY <1>1, <1>2, <1>3, <1>4, <1>5, <1>6

LEMMA LeftStep ==
    ASSUME ProcessIInv, Left
    PROVE  ProcessIInv'
<1> USE ListenersAssumption DEF ProcessIInv, Left, tasks, resources, history, Inside
<1>1. HostTypeOK'
  BY DEF HostTypeOK, Listener, Hosts, Startups, Servers, Ended, Starts, StartupInv, Parts
<1>2. HostInv'
  BY DEF HostTypeOK, HostInv, BehindInv, StackIsLeft, StartupInv, ServersInv, Holding, Before, After, Starts, Running, Ended
<1>3. StartupInv'
  BY DEF HostTypeOK, HostInv, BehindInv, StackIsLeft, StartupInv, ServersInv, Holding, Before, After, Starts, Running, Ended, Dead, Listener
<1>4. ServersInv'
  BY DEF HostTypeOK, HostInv, BehindInv, StackIsLeft, StartupInv, ServersInv, Holding, Before, After, Starts, Running, Ended, Listener
<1>5. AskedInv'
  BY DEF HostTypeOK, AskedInv, BehindInv, StackIsLeft, StartupInv, Before, After, Holding, Ended, Dead, Hosts, Starts
<1>6. BehindInv'
  BY DEF HostTypeOK, BehindInv, Before, After, Holding
<1> QED
  BY <1>1, <1>2, <1>3, <1>4, <1>5, <1>6

LEMMA ShutdownStep ==
    ASSUME ProcessIInv, Shutdown
    PROVE  ProcessIInv'
<1> USE ListenersAssumption DEF ProcessIInv, Shutdown, tasks, resources, history, Result
<1>1. HostTypeOK'
  BY DEF HostTypeOK, Listener, Hosts, Startups, Servers, Ended, Starts, StartupInv, Parts
<1>2. HostInv'
  BY DEF HostTypeOK, HostInv, BehindInv, StackIsLeft, StartupInv, ServersInv, Holding, Before, After, Starts, Running, Ended
<1>3. StartupInv'
  BY DEF HostTypeOK, HostInv, BehindInv, StackIsLeft, StartupInv, ServersInv, Holding, Before, After, Starts, Running, Ended, Dead, Listener
<1>4. ServersInv'
  BY DEF HostTypeOK, HostInv, BehindInv, StackIsLeft, StartupInv, ServersInv, Holding, Before, After, Starts, Running, Ended, Listener
<1>5. AskedInv'
  BY DEF HostTypeOK, AskedInv, BehindInv, StackIsLeft, StartupInv, Before, After, Holding, Ended, Dead, Hosts, Starts
<1>6. BehindInv'
  BY DEF HostTypeOK, BehindInv, Before, After, Holding
<1> QED
  BY <1>1, <1>2, <1>3, <1>4, <1>5, <1>6

LEMMA AwaitNextStep ==
    ASSUME ProcessIInv, AwaitNext
    PROVE  ProcessIInv'
<1> USE ListenersAssumption DEF ProcessIInv, AwaitNext, tasks, resources, history, MayGoOn
<1>1. HostTypeOK'
  <2>1. upto' \in Listener /\ startup' \in Startups
    BY DEF HostTypeOK, Listener, Startups
  <2>2. {shutdown, ready, asked, shielded}' \subseteq BOOLEAN
    BY Zenon DEF HostTypeOK
  <2> QED
    BY <2>1, <2>2 DEF HostTypeOK
<1>2. HostInv'
  BY DEF HostTypeOK, HostInv, BehindInv, StackIsLeft, StartupInv, ServersInv, Holding, Before, After, Starts, Running, Ended
<1>3. StartupInv'
  BY DEF HostTypeOK, HostInv, BehindInv, StackIsLeft, StartupInv, ServersInv, Holding, Before, After, Starts, Running, Ended, Dead, Listener
<1>4. ServersInv'
  BY DEF HostTypeOK, HostInv, BehindInv, StackIsLeft, StartupInv, ServersInv, Holding, Before, After, Starts, Running, Ended, Listener
<1>5. AskedInv'
  BY DEF HostTypeOK, AskedInv, BehindInv, StackIsLeft, StartupInv, Before, After, Holding, Ended, Dead, Hosts, Starts
<1>6. BehindInv'
  BY DEF HostTypeOK, BehindInv, Before, After, Holding
<1> QED
  BY <1>1, <1>2, <1>3, <1>4, <1>5, <1>6

LEMMA StartupFailsStep ==
    ASSUME ProcessIInv, StartupFails
    PROVE  ProcessIInv'
<1> USE ListenersAssumption DEF ProcessIInv, StartupFails, tasks, resources, history, Abandoned
<1>1. HostTypeOK'
  BY DEF HostTypeOK, Listener, Hosts, Startups, Servers, Ended, Starts, StartupInv, Parts
<1>2. HostInv'
  BY DEF HostTypeOK, HostInv, BehindInv, StackIsLeft, StartupInv, ServersInv, Holding, Before, After, Starts, Running, Ended
<1>3. StartupInv'
  BY DEF HostTypeOK, HostInv, BehindInv, StackIsLeft, StartupInv, ServersInv, Holding, Before, After, Starts, Running, Ended, Dead, Listener
<1>4. ServersInv'
  BY DEF HostTypeOK, HostInv, BehindInv, StackIsLeft, StartupInv, ServersInv, Holding, Before, After, Starts, Running, Ended, Listener
<1>5. AskedInv'
  BY DEF HostTypeOK, AskedInv, BehindInv, StackIsLeft, StartupInv, Before, After, Holding, Ended, Dead, Hosts, Starts
<1>6. BehindInv'
  BY DEF HostTypeOK, BehindInv, Before, After, Holding
<1> QED
  BY <1>1, <1>2, <1>3, <1>4, <1>5, <1>6

LEMMA StartupCancelledStep ==
    ASSUME ProcessIInv, StartupCancelled
    PROVE  ProcessIInv'
<1> USE ListenersAssumption DEF ProcessIInv, StartupCancelled, tasks, resources, history, Abandoned
<1>1. HostTypeOK'
  BY DEF HostTypeOK, Listener, Hosts, Startups, Servers, Ended, Starts, StartupInv, Parts
<1>2. HostInv'
  BY DEF HostTypeOK, HostInv, BehindInv, StackIsLeft, StartupInv, ServersInv, Holding, Before, After, Starts, Running, Ended
<1>3. StartupInv'
  BY DEF HostTypeOK, HostInv, BehindInv, StackIsLeft, StartupInv, ServersInv, Holding, Before, After, Starts, Running, Ended, Dead, Listener
<1>4. ServersInv'
  BY DEF HostTypeOK, HostInv, BehindInv, StackIsLeft, StartupInv, ServersInv, Holding, Before, After, Starts, Running, Ended, Listener
<1>5. AskedInv'
  BY DEF HostTypeOK, AskedInv, BehindInv, StackIsLeft, StartupInv, Before, After, Holding, Ended, Dead, Hosts, Starts
<1>6. BehindInv'
  BY DEF HostTypeOK, BehindInv, Before, After, Holding
<1> QED
  BY <1>1, <1>2, <1>3, <1>4, <1>5, <1>6

LEMMA SignalStep ==
    ASSUME ProcessIInv, Signal
    PROVE  ProcessIInv'
<1> USE ListenersAssumption DEF ProcessIInv, Signal, tasks, resources, history
<1>1. HostTypeOK'
  BY DEF HostTypeOK, Listener, Hosts, Startups, Servers, Ended, Starts, StartupInv, Parts
<1>2. HostInv'
  BY DEF HostTypeOK, HostInv, BehindInv, StackIsLeft, StartupInv, ServersInv, Holding, Before, After, Starts, Running, Ended
<1>3. StartupInv'
  BY DEF HostTypeOK, HostInv, BehindInv, StackIsLeft, StartupInv, ServersInv, Holding, Before, After, Starts, Running, Ended, Dead, Listener
<1>4. ServersInv'
  BY DEF HostTypeOK, HostInv, BehindInv, StackIsLeft, StartupInv, ServersInv, Holding, Before, After, Starts, Running, Ended, Listener
<1>5. AskedInv'
  BY DEF HostTypeOK, AskedInv, BehindInv, StackIsLeft, StartupInv, Before, After, Holding, Ended, Dead, Hosts, Starts
<1>6. BehindInv'
  BY DEF HostTypeOK, BehindInv, Before, After, Holding
<1> QED
  BY <1>1, <1>2, <1>3, <1>4, <1>5, <1>6

LEMMA CancelStep ==
    ASSUME ProcessIInv, Cancel
    PROVE  ProcessIInv'
<1> USE ListenersAssumption DEF ProcessIInv, Cancel, tasks, resources, history, Finish, Result
<1>1. HostTypeOK'
  BY DEF HostTypeOK, Listener, Hosts, Startups, Servers, Ended, Starts, StartupInv, Parts
<1>2. HostInv'
  BY DEF HostTypeOK, HostInv, BehindInv, StackIsLeft, StartupInv, ServersInv, Holding, Before, After, Starts, Running, Ended
<1>3. StartupInv'
  BY DEF HostTypeOK, HostInv, BehindInv, StackIsLeft, StartupInv, ServersInv, Holding, Before, After, Starts, Running, Ended, Dead, Listener
<1>4. ServersInv'
  BY DEF HostTypeOK, HostInv, BehindInv, StackIsLeft, StartupInv, ServersInv, Holding, Before, After, Starts, Running, Ended, Listener
<1>5. AskedInv'
  BY DEF HostTypeOK, AskedInv, BehindInv, StackIsLeft, StartupInv, Before, After, Holding, Ended, Dead, Hosts, Starts
<1>6. BehindInv'
  BY DEF HostTypeOK, BehindInv, Before, After, Holding
<1> QED
  BY <1>1, <1>2, <1>3, <1>4, <1>5, <1>6

LEMMA LeaveLifespanStep ==
    ASSUME ProcessIInv, NEW l \in Listener, LeaveLifespan(l)
    PROVE  ProcessIInv'
<1> USE ListenersAssumption DEF ProcessIInv, LeaveLifespan, tasks, resources, history, Inside, Result
<1>1. HostTypeOK'
  BY DEF HostTypeOK, Listener, Hosts, Startups, Servers, Ended, Starts, StartupInv, Parts
<1>2. HostInv'
  BY DEF HostTypeOK, HostInv, BehindInv, StackIsLeft, StartupInv, ServersInv, Holding, Before, After, Starts, Running, Ended
<1>3. StartupInv'
  BY DEF HostTypeOK, HostInv, BehindInv, StackIsLeft, StartupInv, ServersInv, Holding, Before, After, Starts, Running, Ended, Dead, Listener
<1>4. ServersInv'
  BY DEF HostTypeOK, HostInv, BehindInv, StackIsLeft, StartupInv, ServersInv, Holding, Before, After, Starts, Running, Ended, Listener
<1>5. AskedInv'
  BY DEF HostTypeOK, AskedInv, BehindInv, StackIsLeft, StartupInv, Before, After, Holding, Ended, Dead, Hosts, Starts
<1>6. BehindInv'
  BY DEF HostTypeOK, BehindInv, Before, After, Holding
<1> QED
  BY <1>1, <1>2, <1>3, <1>4, <1>5, <1>6

LEMMA EnterStep ==
    ASSUME ProcessIInv, NEW l \in Listener, Enter(l)
    PROVE  ProcessIInv'
<1> USE ListenersAssumption DEF ProcessIInv, Enter, tasks, resources, history
<1>1. HostTypeOK'
  BY DEF HostTypeOK, Listener, Hosts, Startups, Servers, Ended, Starts, StartupInv, Parts
<1>2. HostInv'
  BY DEF HostTypeOK, HostInv, BehindInv, StackIsLeft, StartupInv, ServersInv, Holding, Before, After, Starts, Running, Ended
<1>3. StartupInv'
  BY DEF HostTypeOK, HostInv, BehindInv, StackIsLeft, StartupInv, ServersInv, Holding, Before, After, Starts, Running, Ended, Dead, Listener
<1>4. ServersInv'
  BY DEF HostTypeOK, HostInv, BehindInv, StackIsLeft, StartupInv, ServersInv, Holding, Before, After, Starts, Running, Ended, Listener
<1>5. AskedInv'
  BY DEF HostTypeOK, AskedInv, BehindInv, StackIsLeft, StartupInv, Before, After, Holding, Ended, Dead, Hosts, Starts
<1>6. BehindInv'
  BY DEF HostTypeOK, BehindInv, Before, After, Holding
<1> QED
  BY <1>1, <1>2, <1>3, <1>4, <1>5, <1>6

LEMMA EnteredStep ==
    ASSUME ProcessIInv, NEW l \in Listener, Entered(l)
    PROVE  ProcessIInv'
<1> USE ListenersAssumption DEF ProcessIInv, Entered, tasks, resources, history
<1>1. HostTypeOK'
  BY DEF HostTypeOK, Listener, Hosts, Startups, Servers, Ended, Starts, StartupInv, Parts
<1>2. HostInv'
  BY DEF HostTypeOK, HostInv, BehindInv, StackIsLeft, StartupInv, ServersInv, Holding, Before, After, Starts, Running, Ended
<1>3. StartupInv'
  BY DEF HostTypeOK, HostInv, BehindInv, StackIsLeft, StartupInv, ServersInv, Holding, Before, After, Starts, Running, Ended, Dead, Listener
<1>4. ServersInv'
  BY DEF HostTypeOK, HostInv, BehindInv, StackIsLeft, StartupInv, ServersInv, Holding, Before, After, Starts, Running, Ended, Listener
<1>5. AskedInv'
  BY DEF HostTypeOK, AskedInv, BehindInv, StackIsLeft, StartupInv, Before, After, Holding, Ended, Dead, Hosts, Starts
<1>6. BehindInv'
  BY DEF HostTypeOK, BehindInv, Before, After, Holding
<1> QED
  BY <1>1, <1>2, <1>3, <1>4, <1>5, <1>6

LEMMA ListensStep ==
    ASSUME ProcessIInv, NEW l \in Listener, Listens(l)
    PROVE  ProcessIInv'
<1> USE ListenersAssumption DEF ProcessIInv, Listens, tasks, resources, history, ServerGoes
<1>1. HostTypeOK'
  BY DEF HostTypeOK, Listener, Hosts, Startups, Servers, Ended, Starts, StartupInv, Parts
<1>2. HostInv'
  BY DEF HostTypeOK, HostInv, BehindInv, StackIsLeft, StartupInv, ServersInv, Holding, Before, After, Starts, Running, Ended
<1>3. StartupInv'
  BY DEF HostTypeOK, HostInv, BehindInv, StackIsLeft, StartupInv, ServersInv, Holding, Before, After, Starts, Running, Ended, Dead, Listener
<1>4. ServersInv'
  BY DEF HostTypeOK, HostInv, BehindInv, StackIsLeft, StartupInv, ServersInv, Holding, Before, After, Starts, Running, Ended, Listener
<1>5. AskedInv'
  BY DEF HostTypeOK, AskedInv, BehindInv, StackIsLeft, StartupInv, Before, After, Holding, Ended, Dead, Hosts, Starts
<1>6. BehindInv'
  BY DEF HostTypeOK, BehindInv, Before, After, Holding
<1> QED
  BY <1>1, <1>2, <1>3, <1>4, <1>5, <1>6

LEMMA DiesStep ==
    ASSUME ProcessIInv, NEW l \in Listener, Dies(l)
    PROVE  ProcessIInv'
<1> USE ListenersAssumption DEF ProcessIInv, Dies, tasks, resources, history, ServerGoes
<1>1. HostTypeOK'
  BY DEF HostTypeOK, Listener, Hosts, Startups, Servers, Ended, Starts, StartupInv, Parts
<1>2. HostInv'
  BY DEF HostTypeOK, HostInv, BehindInv, StackIsLeft, StartupInv, ServersInv, Holding, Before, After, Starts, Running, Ended
<1>3. StartupInv'
  BY DEF HostTypeOK, HostInv, BehindInv, StackIsLeft, StartupInv, ServersInv, Holding, Before, After, Starts, Running, Ended, Dead, Listener
<1>4. ServersInv'
  BY DEF HostTypeOK, HostInv, BehindInv, StackIsLeft, StartupInv, ServersInv, Holding, Before, After, Starts, Running, Ended, Listener
<1>5. AskedInv'
  BY DEF HostTypeOK, AskedInv, BehindInv, StackIsLeft, StartupInv, Before, After, Holding, Ended, Dead, Hosts, Starts
<1>6. BehindInv'
  BY DEF HostTypeOK, BehindInv, Before, After, Holding
<1> QED
  BY <1>1, <1>2, <1>3, <1>4, <1>5, <1>6

LEMMA ExitsStep ==
    ASSUME ProcessIInv, NEW l \in Listener, Exits(l)
    PROVE  ProcessIInv'
<1> USE ListenersAssumption DEF ProcessIInv, Exits, Told, tasks, resources, history, ServerGoes
<1>1. HostTypeOK'
  BY DEF HostTypeOK, Listener, Hosts, Startups, Servers, Ended, Starts, StartupInv, Parts
<1>2. HostInv'
  BY DEF HostTypeOK, HostInv, BehindInv, StackIsLeft, StartupInv, ServersInv, Holding, Before, After, Starts, Running, Ended
<1>3. StartupInv'
  BY DEF HostTypeOK, HostInv, BehindInv, StackIsLeft, StartupInv, ServersInv, Holding, Before, After, Starts, Running, Ended, Dead, Listener
<1>4. ServersInv'
  BY DEF HostTypeOK, HostInv, BehindInv, StackIsLeft, StartupInv, ServersInv, Holding, Before, After, Starts, Running, Ended, Listener
<1>5. AskedInv'
  BY DEF HostTypeOK, AskedInv, BehindInv, StackIsLeft, StartupInv, Before, After, Holding, Ended, Dead, Hosts, Starts
<1>6. BehindInv'
  BY DEF HostTypeOK, BehindInv, Before, After, Holding
<1> QED
  BY <1>1, <1>2, <1>3, <1>4, <1>5, <1>6

LEMMA AcceptsStep ==
    ASSUME ProcessIInv, NEW l \in Listener, Accepts(l)
    PROVE  ProcessIInv'
<1> USE ListenersAssumption DEF ProcessIInv, Accepts, tasks, resources, history
<1>1. HostTypeOK'
  BY DEF HostTypeOK, Listener, Hosts, Startups, Servers, Ended, Starts, StartupInv, Parts
<1>2. HostInv'
  BY DEF HostTypeOK, HostInv, BehindInv, StackIsLeft, StartupInv, ServersInv, Holding, Before, After, Starts, Running, Ended
<1>3. StartupInv'
  BY DEF HostTypeOK, HostInv, BehindInv, StackIsLeft, StartupInv, ServersInv, Holding, Before, After, Starts, Running, Ended, Dead, Listener
<1>4. ServersInv'
  BY DEF HostTypeOK, HostInv, BehindInv, StackIsLeft, StartupInv, ServersInv, Holding, Before, After, Starts, Running, Ended, Listener
<1>5. AskedInv'
  BY DEF HostTypeOK, AskedInv, BehindInv, StackIsLeft, StartupInv, Before, After, Holding, Ended, Dead, Hosts, Starts
<1>6. BehindInv'
  BY DEF HostTypeOK, BehindInv, Before, After, Holding
<1> QED
  BY <1>1, <1>2, <1>3, <1>4, <1>5, <1>6

LEMMA AnswersStep ==
    ASSUME ProcessIInv, NEW l \in Listener, Answers(l)
    PROVE  ProcessIInv'
<1> USE ListenersAssumption DEF ProcessIInv, Answers, tasks, resources, history
<1>1. HostTypeOK'
  BY DEF HostTypeOK, Listener, Hosts, Startups, Servers, Ended, Starts, StartupInv, Parts
<1>2. HostInv'
  BY DEF HostTypeOK, HostInv, BehindInv, StackIsLeft, StartupInv, ServersInv, Holding, Before, After, Starts, Running, Ended
<1>3. StartupInv'
  BY DEF HostTypeOK, HostInv, BehindInv, StackIsLeft, StartupInv, ServersInv, Holding, Before, After, Starts, Running, Ended, Dead, Listener
<1>4. ServersInv'
  BY DEF HostTypeOK, HostInv, BehindInv, StackIsLeft, StartupInv, ServersInv, Holding, Before, After, Starts, Running, Ended, Listener
<1>5. AskedInv'
  BY DEF HostTypeOK, AskedInv, BehindInv, StackIsLeft, StartupInv, Before, After, Holding, Ended, Dead, Hosts, Starts
<1>6. BehindInv'
  BY DEF HostTypeOK, BehindInv, Before, After, Holding
<1> QED
  BY <1>1, <1>2, <1>3, <1>4, <1>5, <1>6

-----------------------------------------------------------------------------
(* The theorems about the listeners. *)

LEMMA ProcessIInvHolds == HostSpec => []ProcessIInv
<1>1. HostInit => ProcessIInv
  <2> SUFFICES ASSUME HostInit PROVE ProcessIInv
    OBVIOUS
  <2> USE ListenersAssumption DEF HostInit
  <2>1. HostTypeOK
    <3>1. {shutdown, ready, asked, shielded} \subseteq BOOLEAN
      OBVIOUS
    <3>2. 1 \in Listener
      BY DEF Listener
    <3> QED
      BY <3>1, <3>2 DEF HostTypeOK, Hosts, Startups, Servers
  <2>2. HostInv /\ AskedInv
    BY DEF HostInv, AskedInv, Holding, Before, After, StackIsLeft
  <2>3. StartupInv /\ ServersInv
    BY DEF StartupInv, ServersInv, Starts, Running
  <2>4. BehindInv
    BY DEF BehindInv
  <2> QED
    BY <2>1, <2>2, <2>3, <2>4 DEF ProcessIInv
<1>2. ProcessIInv /\ [HostNext]_hostVars => ProcessIInv'
  <2> SUFFICES ASSUME ProcessIInv, [HostNext]_hostVars PROVE ProcessIInv'
    OBVIOUS
  <2>1. CASE UNCHANGED hostVars
    BY <2>1 DEF hostVars, tasks, resources, history, ProcessIInv, HostTypeOK, HostInv, BehindInv, StackIsLeft,
       StartupInv, ServersInv, AskedInv, Running, Starts
  <2>2. CASE Hosting
    BY <2>2, PrepareStep, BindStep, DoNotBindStep, StartedStep, StopStartingStep, StopServingStep,
       FinishStartupStep, DrainedStep, ClearStep, LeaveLifespanStep, LeftStep, ShutdownStep DEF Hosting
  <2>3. CASE Starting
    BY <2>3, EnterStep, EnteredStep, AwaitNextStep, StartupFailsStep, StartupCancelledStep DEF Starting
  <2>4. CASE Serving
    BY <2>4, ListensStep, DiesStep, ExitsStep, AcceptsStep, AnswersStep DEF Serving
  <2>5. CASE Signal \/ Cancel
    BY <2>5, SignalStep, CancelStep
  <2> QED
    BY <2>1, <2>2, <2>3, <2>4, <2>5 DEF HostNext
<1> QED
  BY <1>1, <1>2, PTL DEF HostSpec

LEMMA ListenersInvFollows == ProcessIInv => ListenersInv
<1> SUFFICES ASSUME ProcessIInv PROVE ListenersInv
  OBVIOUS
<1> USE DEF ProcessIInv, HostTypeOK
<1>1. RequestsAreServedWithin
  <2> SUFFICES ASSUME behind = {}, NEW l \in busy
               PROVE  runtime = "ready" /\ socket = Listener /\ \A k \in Listener : lifespan[k] = "in"
    BY Zenon DEF RequestsAreServedWithin
  <2>1. Running /\ host \notin After
    BY DEF ServersInv, HostInv
  <2>2. host \in Holding
    BY <2>1 DEF StartupInv, Hosts, Before, After, Holding
  <2> QED
    BY <2>1, <2>2 DEF HostInv, ServersInv
<1>2. NothingIsLeft
  BY DEF NothingIsLeft, HostInv, StartupInv, StackIsLeft, Inside, After, Holding, Starts
<1>3. EndsQuietlyOnlyWhenAsked
  BY DEF EndsQuietlyOnlyWhenAsked, AskedInv
<1> QED
  BY <1>1, <1>2, <1>3 DEF ListenersInv

\* What is opened lasts as long as it is needed and no longer, for any number of
\* listeners, whatever fails or is late and whenever the host is cancelled, but for
\* what the host has then left behind (serve_listeners, serve_api).
THEOREM ListenersInvariance == HostSpec => []ListenersInv
BY ProcessIInvHolds, ListenersInvFollows, PTL

\* When readiness begins to be answered, all servers listen (_ListenerHost.start).
THEOREM ReadyMeansListeningCorrect == HostSpec => ReadyMeansListening
<1>1. ProcessIInv /\ [HostNext]_hostVars =>
        [~Answered /\ Answered' =>
            host = "starting" /\ \A l \in Listener : server[l] = "listening"]_hostVars
  <2> SUFFICES ASSUME ProcessIInv, HostNext, ~Answered, Answered'
               PROVE  host = "starting" /\ \A l \in Listener : server[l] = "listening"
    OBVIOUS
  <2>1. AwaitNext
    <3>1. ASSUME ready' = ready, shutdown' = shutdown PROVE FALSE
      BY <3>1, Zenon DEF Answered
    <3>2. ASSUME ready' = FALSE \/ shutdown' = TRUE PROVE FALSE
      BY <3>2, Zenon DEF Answered
    <3>3. ASSUME Hosting PROVE FALSE
      BY <3>1, <3>2, <3>3 DEF Hosting, Prepare, Bind, DoNotBind, Started, StopStarting, StopServing, Finish,
         FinishStartup, Drained, Clear, LeaveLifespan, Left, Shutdown
    <3>4. ASSUME Starting, ~AwaitNext PROVE FALSE
      BY <3>1, <3>4 DEF Starting, Enter, Entered, StartupFails, StartupCancelled
    <3>5. ASSUME Serving PROVE FALSE
      BY <3>1, <3>5 DEF Serving, Listens, Dies, Exits, Accepts, Answers, ServerGoes
    <3>6. ASSUME Signal \/ Cancel PROVE FALSE
      BY <3>1, <3>2, <3>6 DEF Signal, Cancel, Finish
    <3> QED
      BY <3>3, <3>4, <3>5, <3>6 DEF HostNext
  <2>2. ~(upto < N)
    BY <2>1, Zenon DEF AwaitNext, Answered
  <2>3. startup = "awaiting" /\ host = "starting" /\ MayGoOn /\ upto = N
    <3>1. startup = "awaiting" /\ MayGoOn /\ upto = N
      BY <2>1, <2>2, ListenersAssumption DEF AwaitNext, ProcessIInv, HostTypeOK, Listener
    <3>2. shutdown # TRUE
      BY <2>1, Zenon DEF AwaitNext, Answered
    <3>3. host = "starting"
      BY <3>1, <3>2 DEF ProcessIInv, AskedInv, StartupInv, BehindInv, StackIsLeft, Starts, Before, After
    <3> QED
      BY <3>1, <3>3
  <2> QED
    BY <2>3, ListenersAssumption DEF MayGoOn, Dead, ProcessIInv, HostTypeOK, StartupInv, Listener
<1> QED
  BY <1>1, ProcessIInvHolds, PTL DEF HostSpec, ReadyMeansListening
=============================================================================
