---------------------- MODULE PersonalConnectionsProofs ----------------------
(***************************************************************************)
(* The safety properties of PersonalConnections, for any number of users   *)
(* and flows.                                                              *)
(***************************************************************************)
EXTENDS PersonalConnections, TLAPS

-----------------------------------------------------------------------------
(* The inductive invariant.                                                *)

(* A credential is named after the revision that installed it. *)
ConnectionInv(u) == connection[u].credential =< connection[u].revision

(* The discovery row is the projection of the others. *)
DiscoveryInv(u) ==
    discovery[u] = Projected(connection[u], refresh[u], rejection[u])

(* An attempt belongs to a revision that has been; one that is going on    *)
(* under the present revision has not been taken back.                     *)
AttemptInv(u) ==
    /\ withdrawn[u] =< reserved[u]
    /\ attempt[u] # None =>
        /\ attempt[u].id =< reserved[u]
        /\ attempt[u].revision =< connection[u].revision
        /\ LiveAttempt(u) /\ attempt[u].revision = connection[u].revision =>
              attempt[u].id > withdrawn[u]

(* A refresh and an authorization exclude each other. *)
RecoveryInv(u) ==
    ~(/\ UnexpiredAttempt(u) /\ Recovering(u) /\ ~refresh[u].late
      /\ refresh[u].status \in {"preparing", "exchanging"})

(* Nothing of the user is left without a connector. *)
RemainsInv(u) == ~defined =>
    /\ connection[u] = Missing
    /\ attempt[u] = None /\ refresh[u] = None /\ rejection[u] = None
    /\ discovery[u] = None /\ observation[u] = None

(* What was observed under the present revision is of this authorization. *)
ObservationInv(u) == observation[u] # None =>
    /\ observation[u].revision =< connection[u].revision
    /\ observation[u].revision = connection[u].revision =>
          connection[u].credential # 0 /\ observation[u].configuration = configuration

(* The token of a connection has not left unanswered, or its claim         *)
(* remembers that; the token of a later authorization is a later one.      *)
SentInv(u) == defined =>
    /\ \A c \in sent[u] : c =< connection[u].revision
    /\ connection[u].token =< connection[u].revision
    /\ connection[u].token \in sent[u] /\ connection[u].credential # 0 =>
          Matches(refresh[u], connection[u]) /\ refresh[u].status # "preparing"

UserInv(u) ==
    /\ ConnectionInv(u) /\ DiscoveryInv(u) /\ AttemptInv(u) /\ SentInv(u)
    /\ RecoveryInv(u) /\ RemainsInv(u) /\ ObservationInv(u)

IInv == TypeOK /\ \A u \in User : UserInv(u)

-----------------------------------------------------------------------------
(* Types.                                                                  *)

(* What a flow carries, by the step that it is at. *)
LEMMA Flows ==
    ASSUME TypeOK, NEW f \in Flow
    PROVE  /\ flow[f] \in Steps
           /\ flow[f].step \in {"preparing", "exchanging"} =>
                 flow[f].user \in User /\ flow[f].id \in Nat \ {0}
           /\ flow[f].step \in {"reserved", "refreshing"} => flow[f].user \in User
           /\ flow[f].step = "listing" =>
                 /\ flow[f].user \in User
                 /\ flow[f].revision \in Nat /\ flow[f].configuration \in Nat
                 /\ flow[f].inventory \in Nat
  BY DEF TypeOK, Steps

(* The rows of a user. *)
LEMMA RowsOf ==
    ASSUME TypeOK, NEW u \in User
    PROVE  /\ connection[u] \in Connection
           /\ connection[u].enabled \in BOOLEAN /\ connection[u].credential \in Nat
           /\ connection[u].revision \in Nat /\ connection[u].token \in Nat
           /\ attempt[u] \in Attempt \cup {None} /\ refresh[u] \in RefreshClaim \cup {None}
           /\ rejection[u] \in Nat \cup {None}
           /\ discovery[u] \in Availability \cup {None}
           /\ observation[u] \in Observation \cup {None}
           /\ reserved[u] \in Nat /\ inventories[u] \in Nat
           /\ sent[u] \in SUBSET Nat /\ withdrawn[u] \in Nat
           /\ configuration \in Nat
  BY DEF TypeOK, Connection

LEMMA AttemptFields ==
    ASSUME TypeOK, NEW u \in User, attempt[u] # None
    PROVE  /\ attempt[u] \in Attempt
           /\ attempt[u].id \in Nat \ {0} /\ attempt[u].status \in Live \cup Terminal
           /\ attempt[u].revision \in Nat /\ attempt[u].configuration \in Nat
           /\ attempt[u].claim \in Flow \cup {None} /\ attempt[u].late \in BOOLEAN
  <1>1. attempt[u] \in Attempt  BY DEF TypeOK
  <1> QED  BY <1>1 DEF Attempt

LEMMA RefreshFields ==
    ASSUME TypeOK, NEW u \in User, refresh[u] # None
    PROVE  /\ refresh[u] \in RefreshClaim
           /\ refresh[u].claim \in Flow
           /\ refresh[u].status \in {"preparing", "exchanging", "refresh_denied",
                                     "refresh_uncertain"}
           /\ refresh[u].credential \in Nat /\ refresh[u].revision \in Nat
           /\ refresh[u].configuration \in Nat /\ refresh[u].late \in BOOLEAN
  <1>1. refresh[u] \in RefreshClaim  BY DEF TypeOK
  <1> QED  BY <1>1 DEF RefreshClaim

LEMMA ProjectedType ==
    ASSUME NEW conn \in Connection, NEW claim \in RefreshClaim \cup {None},
           NEW rejected, configuration \in Nat
    PROVE  Projected(conn, claim, rejected) \in Availability \cup {None}
  <1>1. conn.revision \in Nat  BY DEF Connection
  <1>2. (IF ~Matches(claim, conn) THEN "available"
         ELSE IF claim.status = "preparing" THEN "preparing" ELSE "blocked")
           \in {"available", "preparing", "blocked"}
    OBVIOUS
  <1>3. (Matches(claim, conn) /\ claim.status = "preparing" /\ claim.late) \in BOOLEAN
    OBVIOUS
  <1> QED  BY <1>1, <1>2, <1>3 DEF Projected, Availability

(* With a usable credential there is a row. *)
LEMMA ProjectedRow ==
    ASSUME NEW conn \in Connection, NEW claim \in RefreshClaim \cup {None},
           NEW rejected, configuration \in Nat,
           Authorized(conn), rejected # conn.credential
    PROVE  Projected(conn, claim, rejected) # None
  <1>1. Projected(conn, claim, rejected) =
            [revision |-> conn.revision, configuration |-> configuration,
             refresh |-> IF ~Matches(claim, conn) THEN "available"
                         ELSE IF claim.status = "preparing" THEN "preparing" ELSE "blocked",
             late |-> Matches(claim, conn) /\ claim.status = "preparing" /\ claim.late]
    BY DEF Projected
  <1>2. Projected(conn, claim, rejected) \in Availability
    <2>1. conn.revision \in Nat  BY DEF Connection
    <2>2. (IF ~Matches(claim, conn) THEN "available"
           ELSE IF claim.status = "preparing" THEN "preparing" ELSE "blocked")
             \in {"available", "preparing", "blocked"}
      OBVIOUS
    <2>3. (Matches(claim, conn) /\ claim.status = "preparing" /\ claim.late) \in BOOLEAN
      OBVIOUS
    <2> QED  BY <1>1, <2>1, <2>2, <2>3 DEF Availability
  <1> QED  BY <1>2, PersonalAssumption

(* A changed connection, attempt or claim still is one. *)
LEMMA ConnectionChanges ==
    ASSUME NEW conn \in Connection, NEW b \in BOOLEAN,
           NEW n \in Nat, NEW k \in Nat, NEW m \in Nat
    PROVE  /\ [conn EXCEPT !.enabled = b, !.revision = m] \in Connection
           /\ [conn EXCEPT !.credential = n, !.token = k, !.revision = m] \in Connection
           /\ [conn EXCEPT !.enabled = b] \in Connection
  BY DEF Connection

LEMMA AttemptChanges ==
    ASSUME NEW a \in Attempt, NEW status \in Live \cup Terminal,
           NEW f \in Flow, NEW b \in BOOLEAN
    PROVE  /\ [a EXCEPT !.status = status] \in Attempt
           /\ [a EXCEPT !.status = status, !.claim = f] \in Attempt
           /\ [a EXCEPT !.late = b] \in Attempt
  BY DEF Attempt

LEMMA ClaimChanges ==
    ASSUME NEW c \in RefreshClaim, NEW b \in BOOLEAN,
           NEW status \in {"preparing", "exchanging", "refresh_denied",
                           "refresh_uncertain"}
    PROVE  /\ [c EXCEPT !.status = status] \in RefreshClaim
           /\ [c EXCEPT !.late = b] \in RefreshClaim
  BY DEF RefreshClaim

LEMMA RevokedType ==
    ASSUME TypeOK, NEW u \in User
    PROVE  Revoked(u) \in Connection
  <1>1. connection[u] \in Connection /\ connection[u].revision + 1 \in Nat  BY RowsOf
  <1>2. 0 \in Nat /\ FALSE \in BOOLEAN  OBVIOUS
  <1>3. [connection[u] EXCEPT !.credential = 0, !.token = 0,
                              !.revision = connection[u].revision + 1] \in Connection
    BY <1>1, <1>2, ConnectionChanges
  <1> QED  BY <1>1, <1>3 DEF Revoked

LEMMA UpdateDiscoveryType ==
    ASSUME TypeOK, NEW u \in User, NEW conn \in Connection,
           NEW claim \in RefreshClaim \cup {None}, NEW rejected,
           UpdateDiscovery(u, conn, claim, rejected)
    PROVE  discovery' \in [User -> Availability \cup {None}]
  <1>1. Projected(conn, claim, rejected) \in Availability \cup {None}
    BY RowsOf, ProjectedType
  <1> QED  BY <1>1 DEF UpdateDiscovery, TypeOK

LEMMA InstallType ==
    ASSUME TypeOK, NEW u \in User, NEW token \in Nat, Install(u, token)
    PROVE  /\ connection' \in [User -> Connection]
           /\ refresh' \in [User -> RefreshClaim \cup {None}]
           /\ rejection' \in [User -> Nat \cup {None}]
           /\ discovery' \in [User -> Availability \cup {None}]
  <1> DEFINE conn == [connection[u] EXCEPT !.credential = connection[u].revision + 1,
                                           !.token = token,
                                           !.revision = connection[u].revision + 1]
  <1>1. connection[u] \in Connection /\ connection[u].revision + 1 \in Nat  BY RowsOf
  <1>2. conn \in Connection
    <2>1. FALSE \in BOOLEAN  OBVIOUS
    <2> QED  BY <1>1, <2>1, ConnectionChanges
  <1>3. connection' = [connection EXCEPT ![u] = conn] /\ UpdateDiscovery(u, conn, None, None)
    BY DEF Install
  <1> HIDE DEF conn
  <1>4. discovery' \in [User -> Availability \cup {None}]
    BY <1>2, <1>3, UpdateDiscoveryType
  <1> QED  BY <1>2, <1>3, <1>4 DEF Install, TypeOK

LEMMA SettleType ==
    ASSUME TypeOK, NEW u \in User, NEW claim \in RefreshClaim \cup {None},
           Settle(u, claim)
    PROVE  /\ refresh' \in [User -> RefreshClaim \cup {None}]
           /\ discovery' \in [User -> Availability \cup {None}]
  <1>1. connection[u] \in Connection  BY RowsOf
  <1>2. discovery' \in [User -> Availability \cup {None}]
    BY <1>1, UpdateDiscoveryType DEF Settle
  <1> QED  BY <1>2 DEF Settle, TypeOK

LEMMA TypeInit == ASSUME Init PROVE TypeOK
  <1>1. Missing \in Connection  BY DEF Missing, Connection
  <1>2. Idle \in Steps  BY DEF Idle, Steps
  <1> QED  BY <1>1, <1>2 DEF Init, TypeOK

LEMMA TypeAdministers == ASSUME TypeOK, Administers PROVE TypeOK'
  <1>1. CASE \E b \in BOOLEAN : Offer(b)
    BY <1>1 DEF Offer, TypeOK, rows, counters, history
  <1>2. CASE ReplaceConfiguration
    <2>1. \A u \in User : Revoked(u) \in Connection  BY RevokedType
    <2> QED  BY <1>2, <2>1 DEF ReplaceConfiguration, TypeOK, counters
  <1>3. CASE DeleteConnector
    <2>1. Missing \in Connection  BY DEF Missing, Connection
    <2> QED  BY <1>3, <2>1 DEF DeleteConnector, TypeOK, counters, history
  <1> QED  BY <1>1, <1>2, <1>3 DEF Administers

LEMMA TypeSetEnabled ==
    ASSUME TypeOK, NEW u \in User, NEW b \in BOOLEAN, SetEnabled(u, b)
    PROVE  TypeOK'
  <1> DEFINE conn == [connection[u] EXCEPT !.enabled = b,
                                           !.revision = connection[u].revision + 1]
  <1>1. conn \in Connection
    <2>1. /\ connection[u] \in Connection /\ connection[u].revision + 1 \in Nat
          /\ 0 \in Nat
      BY RowsOf
    <2> QED  BY <2>1, ConnectionChanges
  <1>2. /\ connection' = [connection EXCEPT ![u] = conn]
        /\ UpdateDiscovery(u, conn, refresh[u], rejection[u])
    BY DEF SetEnabled
  <1> HIDE DEF conn
  <1>3. discovery' \in [User -> Availability \cup {None}]
    BY <1>1, <1>2, RowsOf, UpdateDiscoveryType
  <1> QED  BY <1>1, <1>2, <1>3 DEF SetEnabled, TypeOK, connector, counters

LEMMA TypeDisconnect ==
    ASSUME TypeOK, NEW u \in User, Disconnect(u)
    PROVE  TypeOK'
  <1> DEFINE conn == [Revoked(u) EXCEPT !.enabled = FALSE]
  <1>1. conn \in Connection
    <2>1. Revoked(u) \in Connection  BY RevokedType
    <2>2. 0 \in Nat /\ FALSE \in BOOLEAN  OBVIOUS
    <2> QED  BY <2>1, <2>2, ConnectionChanges
  <1>2. /\ connection' = [connection EXCEPT ![u] = conn]
        /\ UpdateDiscovery(u, conn, None, None)
    BY DEF Disconnect
  <1> HIDE DEF conn
  <1>3. discovery' \in [User -> Availability \cup {None}]
    BY <1>1, <1>2, UpdateDiscoveryType
  <1> QED  BY <1>1, <1>2, <1>3 DEF Disconnect, TypeOK, connector, counters

(* Where an attempt goes. *)
LEMMA BecomesType ==
    ASSUME TypeOK, NEW u \in User, attempt[u] # None,
           NEW status \in Live \cup Terminal
    PROVE  [attempt EXCEPT ![u].status = status] \in [User -> Attempt \cup {None}]
  <1>1. [attempt[u] EXCEPT !.status = status] \in Attempt
    BY AttemptFields DEF Attempt
  <1> QED  BY <1>1 DEF TypeOK

LEMMA TypeChooses ==
    ASSUME TypeOK, NEW u \in User, Chooses(u) PROVE TypeOK'
  <1>1. CASE \E b \in BOOLEAN : SetEnabled(u, b)  BY <1>1, TypeSetEnabled
  <1>2. CASE Disconnect(u)  BY <1>2, TypeDisconnect
  <1>3. CASE Cancel(u)
    <2>1. attempt' \in [User -> Attempt \cup {None}]
      BY <1>3, BecomesType DEF Cancel, Becomes, LiveAttempt, Terminal
    <2>2. attempt[u].id \in Nat  BY <1>3, AttemptFields DEF Cancel, LiveAttempt
    <2> QED  BY <1>3, <2>1, <2>2 DEF Cancel, TypeOK, connector, counters
  <1>4. CASE NoteExpiry(u)
    <2>1. attempt' \in [User -> Attempt \cup {None}]
      BY <1>4, BecomesType DEF NoteExpiry, Becomes, LiveAttempt, Terminal
    <2> QED  BY <1>4, <2>1 DEF NoteExpiry, TypeOK, connector, counters, history
  <1> QED  BY <1>1, <1>2, <1>3, <1>4 DEF Chooses

LEMMA TypePasses ==
    ASSUME TypeOK, NEW u \in User, Passes(u) PROVE TypeOK'
  <1>1. CASE AttemptExpires(u)
    <2>1. attempt[u] \in Attempt
      BY <1>1, AttemptFields DEF AttemptExpires, LiveAttempt
    <2>2. [attempt[u] EXCEPT !.late = TRUE] \in Attempt  BY <2>1 DEF Attempt
    <2> QED  BY <1>1, <2>2 DEF AttemptExpires, TypeOK, connector, counters, history
  <1>2. CASE DeadlinePasses(u)
    <2>1. refresh[u] \in RefreshClaim  BY <1>2, RefreshFields DEF DeadlinePasses
    <2>2. [refresh[u] EXCEPT !.late = TRUE] \in RefreshClaim  BY <2>1 DEF RefreshClaim
    <2>3. refresh' \in [User -> RefreshClaim \cup {None}]
      BY <1>2, <2>2 DEF DeadlinePasses, TypeOK
    <2>4. discovery[u] # None =>
             [discovery[u] EXCEPT !.late = TRUE] \in Availability
      BY DEF TypeOK, Availability
    <2>5. discovery' \in [User -> Availability \cup {None}]
      BY <1>2, <2>4 DEF DeadlinePasses, TypeOK
    <2> QED  BY <1>2, <2>3, <2>5 DEF DeadlinePasses, TypeOK, connector, counters, history
  <1> QED  BY <1>1, <1>2 DEF Passes

LEMMA TypeBegins ==
    ASSUME TypeOK, NEW f \in Flow, NEW u \in User, Begins(f, u) PROVE TypeOK'
  <1>1. CASE Start(f, u)
    <2> DEFINE a == [id |-> reserved[u] + 1, status |-> "preparing",
                     revision |-> connection[u].revision,
                     configuration |-> configuration,
                     claim |-> None, late |-> FALSE]
               w == [step |-> "preparing", user |-> u, id |-> reserved[u] + 1]
    <2>1. a \in Attempt  BY RowsOf DEF Attempt, Live
    <2>2. w \in Steps  BY RowsOf DEF Steps
    <2>3. /\ attempt' = [attempt EXCEPT ![u] = a]
          /\ flow' = [flow EXCEPT ![f] = w]
      BY <1>1 DEF Start, Goes
    <2> HIDE DEF a, w
    <2>4. reserved' \in [User -> Nat]  BY <1>1, RowsOf DEF Start, TypeOK
    <2>5. attempt' \in [User -> Attempt \cup {None}]  BY <2>1, <2>3 DEF TypeOK
    <2>6. flow' \in [Flow -> Steps]  BY <2>2, <2>3 DEF TypeOK
    <2> QED
      BY <1>1, <2>4, <2>5, <2>6 DEF Start, TypeOK, connector, history
  <1>2. CASE Claim(f, u)
    <2> DEFINE w == [step |-> "exchanging", user |-> u, id |-> attempt[u].id]
    <2>1. attempt[u] # None  BY <1>2 DEF Claim, Proceeds, UnexpiredAttempt, LiveAttempt
    <2>2. w \in Steps  BY <2>1, AttemptFields DEF Steps
    <2>3. [attempt[u] EXCEPT !.status = "exchanging", !.claim = f] \in Attempt
      BY <2>1, AttemptFields DEF Attempt, Live
    <2>4. attempt' \in [User -> Attempt \cup {None}]
      BY <1>2, <2>3 DEF Claim, TypeOK
    <2>5. flow' = [flow EXCEPT ![f] = w]  BY <1>2 DEF Claim, Goes
    <2> HIDE DEF w
    <2> QED  BY <1>2, <2>2, <2>4, <2>5 DEF Claim, TypeOK, connector, counters, history
  <1>3. CASE ReserveRefresh(f, u)
    <2> DEFINE c == [claim |-> f, status |-> "preparing",
                     credential |-> connection[u].credential,
                     revision |-> connection[u].revision,
                     configuration |-> configuration, late |-> FALSE]
    <2>1. c \in RefreshClaim  BY RowsOf DEF RefreshClaim
    <2>2. /\ refresh' = [refresh EXCEPT ![u] = c]
          /\ UpdateDiscovery(u, connection[u], c, rejection[u])
      BY <1>3 DEF ReserveRefresh
    <2> HIDE DEF c
    <2>3. discovery' \in [User -> Availability \cup {None}]
      BY <2>1, <2>2, RowsOf, UpdateDiscoveryType
    <2>4. [step |-> "reserved", user |-> u] \in Steps  BY DEF Steps
    <2> QED
      BY <1>3, <2>1, <2>2, <2>3, <2>4
      DEF ReserveRefresh, Goes, TypeOK, connector, counters, history
  <1>4. CASE Resolve(f, u)
    <2>1. Inventory(u) \in Nat  BY DEF Inventory, TypeOK, Observation
    <2>2. [step |-> "listing", user |-> u, revision |-> connection[u].revision,
           configuration |-> configuration, inventory |-> Inventory(u)] \in Steps
      BY <2>1, RowsOf DEF Steps
    <2> QED
      BY <1>4, <2>2 DEF Resolve, Goes, TypeOK, connector, rows, counters, history
  <1> QED  BY <1>1, <1>2, <1>3, <1>4 DEF Begins

LEMMA TypeGoesOn ==
    ASSUME TypeOK, NEW f \in Flow, GoesOn(f) PROVE TypeOK'
  <1> DEFINE u == flow[f].user
  <1>0. flow \in [Flow -> Steps] /\ [flow EXCEPT ![f] = Idle] \in [Flow -> Steps]
    BY DEF TypeOK, Idle, Steps
  <1>1. CASE Publish(f)
    <2>1. u \in User /\ attempt[u] # None  BY <1>1, Flows DEF Publish, Owns
    <2>2. attempt' \in [User -> Attempt \cup {None}]
      BY <1>1, <2>1, BecomesType DEF Publish, Becomes, Live
    <2> QED  BY <1>0, <1>1, <2>2 DEF Publish, Goes, TypeOK, connector, counters, history
  <1>2. CASE Complete(f)
    <2>1. u \in User /\ attempt[u] # None  BY <1>2, Flows DEF Complete, Claimed, Owns
    <2>2. attempt' \in [User -> Attempt \cup {None}]
      BY <1>2, <2>1, BecomesType DEF Complete, Becomes, Terminal
    <2>3. Install(u, NewToken(u)) /\ NewToken(u) \in Nat
      BY <1>2, <2>1, RowsOf DEF Complete, NewToken
    <2> QED
      BY <1>0, <1>2, <2>1, <2>2, <2>3, InstallType
      DEF Complete, Goes, TypeOK, connector, counters, history
  <1>3. CASE Fails(f)
    <2>1. u \in User  BY <1>3, Flows DEF Fails
    <2>2. attempt' \in [User -> Attempt \cup {None}]
      <3>1. \/ attempt' = attempt
            \/ attempt[u] # None /\ attempt' = [attempt EXCEPT ![u].status = "expired"]
            \/ attempt[u] # None /\ attempt' = [attempt EXCEPT ![u].status = "failed"]
        BY <1>3 DEF Fails, Owns
      <3>2. attempt \in [User -> Attempt \cup {None}]  BY DEF TypeOK
      <3>3. "expired" \in Live \cup Terminal /\ "failed" \in Live \cup Terminal
        BY DEF Terminal
      <3>4. attempt[u] # None =>
               /\ [attempt EXCEPT ![u].status = "expired"] \in [User -> Attempt \cup {None}]
               /\ [attempt EXCEPT ![u].status = "failed"] \in [User -> Attempt \cup {None}]
        BY <2>1, <3>3, BecomesType
      <3> QED  BY <3>1, <3>2, <3>4
    <2> QED  BY <1>0, <1>3, <2>2 DEF Fails, Goes, TypeOK, connector, counters, history
  <1>4. CASE Exchange(f)
    <2>1. u \in User /\ refresh[u] # None  BY <1>4, Flows DEF Exchange, Holds
    <2>2. [refresh[u] EXCEPT !.status = "exchanging"] \in RefreshClaim
      BY <2>1, RefreshFields DEF RefreshClaim
    <2>3. Settle(u, [refresh[u] EXCEPT !.status = "exchanging"])  BY <1>4 DEF Exchange
    <2>4. sent' \in [User -> SUBSET Nat]
      BY <1>4, <2>1, RowsOf DEF Exchange, TypeOK
    <2>5. [flow EXCEPT ![f] = [step |-> "refreshing", user |-> u]] \in [Flow -> Steps]
      BY <1>0, <2>1 DEF Steps
    <2> QED
      BY <1>4, <2>1, <2>2, <2>3, <2>4, <2>5, SettleType
      DEF Exchange, Goes, TypeOK, connector, counters
  <1>5. CASE Release(f)
    <2>1. u \in User  BY <1>5, Flows DEF Release
    <2>2. /\ refresh' \in [User -> RefreshClaim \cup {None}]
          /\ discovery' \in [User -> Availability \cup {None}]
      BY <1>5, <2>1, SettleType DEF Release, TypeOK
    <2> QED  BY <1>0, <1>5, <2>2 DEF Release, Goes, TypeOK, connector, counters, history
  <1>6. CASE CompleteRefresh(f)
    <2>1. u \in User  BY <1>6, Flows DEF CompleteRefresh
    <2>2. PICK token \in {NewToken(u), connection[u].token} :
            Install(u, token) /\ sent' = [sent EXCEPT ![u] = @ \ {token}]
      BY <1>6 DEF CompleteRefresh
    <2>3. token \in Nat  BY <2>1, <2>2, RowsOf DEF NewToken
    <2>4. sent' \in [User -> SUBSET Nat]  BY <2>2 DEF TypeOK
    <2> QED
      BY <1>0, <1>6, <2>1, <2>2, <2>3, <2>4, InstallType
      DEF CompleteRefresh, Goes, TypeOK, connector, counters
  <1>7. CASE \E reason \in {"refresh_denied", "refresh_uncertain"} : FailRefresh(f, reason)
    <2>0. PICK reason \in {"refresh_denied", "refresh_uncertain"} : FailRefresh(f, reason)
      BY <1>7
    <2>1. u \in User  BY <2>0, Flows DEF FailRefresh
    <2>2. refresh[u] # None => [refresh[u] EXCEPT !.status = reason] \in RefreshClaim
      BY <2>1, RefreshFields DEF RefreshClaim
    <2>3. /\ refresh' \in [User -> RefreshClaim \cup {None}]
          /\ discovery' \in [User -> Availability \cup {None}]
      <3>1. \/ UNCHANGED <<refresh, discovery>>
            \/ refresh[u] # None /\ Settle(u, [refresh[u] EXCEPT !.status = reason])
        BY <2>0 DEF FailRefresh, Holds
      <3> QED  BY <2>1, <2>2, <3>1, SettleType DEF TypeOK
    <2> QED  BY <1>0, <2>0, <2>3 DEF FailRefresh, Goes, TypeOK, connector, counters, history
  <1>8. CASE SaveObservation(f)
    <2>1. /\ u \in User
          /\ flow[f].revision \in Nat /\ flow[f].configuration \in Nat
          /\ inventories[u] \in Nat
      BY <1>8, Flows, RowsOf DEF SaveObservation
    <2>2. [revision |-> flow[f].revision, configuration |-> flow[f].configuration,
           inventory |-> inventories[u] + 1] \in Observation
      BY <2>1 DEF Observation
    <2> QED
      BY <1>0, <1>8, <2>1, <2>2 DEF SaveObservation, Goes, TypeOK, connector, history
  <1>9. CASE Reject(f)
    <2>1. u \in User  BY <1>9, Flows DEF Reject
    <2>2. /\ rejection' \in [User -> Nat \cup {None}]
          /\ discovery' \in [User -> Availability \cup {None}]
      BY <1>9, <2>1, RowsOf, UpdateDiscoveryType DEF Reject, TypeOK
    <2> QED  BY <1>0, <1>9, <2>2 DEF Reject, Goes, TypeOK, connector, counters, history
  <1>10. CASE Dies(f)
    BY <1>0, <1>10 DEF Dies, Goes, TypeOK, connector, rows, counters, history
  <1> QED
    BY <1>1, <1>2, <1>3, <1>4, <1>5, <1>6, <1>7, <1>8, <1>9, <1>10 DEF GoesOn

LEMMA TypeNext == ASSUME TypeOK, [Next]_vars PROVE TypeOK'
  <1>1. CASE UNCHANGED vars
    BY <1>1 DEF vars, TypeOK, connector, rows, counters, history
  <1>2. CASE Next
    BY <1>2, TypeAdministers, TypeChooses, TypePasses, TypeBegins, TypeGoesOn DEF Next
  <1> QED  BY <1>1, <1>2

-----------------------------------------------------------------------------
(* What a step leaves alone.                                               *)

(* A user whose rows stay keeps her invariant. *)
LEMMA Frame ==
    ASSUME NEW u \in User, UserInv(u), UNCHANGED <<defined, configuration>>,
           connection'[u] = connection[u], attempt'[u] = attempt[u],
           refresh'[u] = refresh[u], rejection'[u] = rejection[u],
           discovery'[u] = discovery[u], observation'[u] = observation[u],
           reserved'[u] = reserved[u], sent'[u] = sent[u], withdrawn'[u] = withdrawn[u]
    PROVE  UserInv(u)'
  <1>1. ConnectionInv(u)'  BY DEF UserInv, ConnectionInv
  <1>2. DiscoveryInv(u)'  BY DEF UserInv, DiscoveryInv, Projected, Matches, Authorized
  <1>3. AttemptInv(u)'  BY DEF UserInv, AttemptInv, LiveAttempt
  <1>4. SentInv(u)'  BY DEF UserInv, SentInv, Matches
  <1>5. RecoveryInv(u)'
    BY DEF UserInv, RecoveryInv, UnexpiredAttempt, LiveAttempt, Recovering, Matches
  <1>6. RemainsInv(u)'  BY DEF UserInv, RemainsInv
  <1>7. ObservationInv(u)'  BY DEF UserInv, ObservationInv
  <1> QED  BY <1>1, <1>2, <1>3, <1>4, <1>5, <1>6, <1>7 DEF UserInv

(* If no row changes but one user's, then only her invariant is to be shown. *)
LEMMA OneUser ==
    ASSUME IInv, NEW u \in User, TypeOK', UserInv(u)',
           UNCHANGED <<defined, configuration>>,
           \A v \in User \ {u} :
              /\ connection'[v] = connection[v] /\ attempt'[v] = attempt[v]
              /\ refresh'[v] = refresh[v] /\ rejection'[v] = rejection[v]
              /\ discovery'[v] = discovery[v] /\ observation'[v] = observation[v]
              /\ reserved'[v] = reserved[v]
              /\ sent'[v] = sent[v] /\ withdrawn'[v] = withdrawn[v]
    PROVE  IInv'
  <1>1. ASSUME NEW v \in User, v # u PROVE UserInv(v)'
    BY <1>1, Frame DEF IInv
  <1> QED  BY <1>1 DEF IInv

(* If no row changes at all, every user keeps hers. *)
LEMMA NoUser ==
    ASSUME IInv, TypeOK', UNCHANGED <<defined, configuration, rows, reserved, history>>
    PROVE  IInv'
  <1>1. ASSUME NEW v \in User PROVE UserInv(v)'
    BY Frame DEF IInv, rows, history
  <1> QED  BY <1>1 DEF IInv

(* The projection, when the row has been updated with what the others became. *)
LEMMA Updated ==
    ASSUME TypeOK, NEW u \in User, NEW conn, NEW claim, NEW rejected,
           UpdateDiscovery(u, conn, claim, rejected),
           configuration' = configuration, connection'[u] = conn,
           refresh'[u] = claim, rejection'[u] = rejected
    PROVE  DiscoveryInv(u)'
  BY DEF UpdateDiscovery, DiscoveryInv, Projected, TypeOK, Matches, Authorized

-----------------------------------------------------------------------------
(* The administrator.                                                      *)

LEMMA OfferStep ==
    ASSUME IInv, TypeOK', NEW b \in BOOLEAN, Offer(b) PROVE IInv'
  BY NoUser DEF Offer, counters

LEMMA RevokedFields ==
    ASSUME TypeOK, NEW u \in User
    PROVE  /\ connection[u].revision = 0 => Revoked(u) = connection[u]
           /\ connection[u].revision # 0 =>
                 /\ Revoked(u).enabled = connection[u].enabled
                 /\ Revoked(u).credential = 0 /\ Revoked(u).token = 0
                 /\ Revoked(u).revision = connection[u].revision + 1
  BY DEF Revoked, TypeOK, Connection

LEMMA ReplaceStep ==
    ASSUME IInv, TypeOK', ReplaceConfiguration PROVE IInv'
  <1> SUFFICES ASSUME NEW u \in User PROVE UserInv(u)'
    BY DEF IInv
  <1>1. /\ defined /\ UNCHANGED <<defined, refresh, rejection, observation, sent, reserved>>
        /\ connection'[u] = Revoked(u) /\ attempt'[u] = None /\ discovery'[u] = None
        /\ withdrawn'[u] = reserved[u]
    BY DEF ReplaceConfiguration, counters
  <1>2. UserInv(u) /\ TypeOK  BY DEF IInv
  <1>3. /\ connection'[u].credential = 0 /\ connection'[u].revision \in Nat
        /\ connection'[u].token =< connection'[u].revision
        /\ connection[u].revision # 0 =>
              connection'[u].revision = connection[u].revision + 1
        /\ connection[u].revision = 0 => connection'[u].revision = 0
        /\ connection[u].revision = 0 => connection[u].credential = 0
        /\ connection[u].revision \in Nat
    BY <1>1, <1>2, RowsOf, RevokedFields DEF UserInv, ConnectionInv, SentInv
  <1>4. ConnectionInv(u)'  BY <1>3 DEF ConnectionInv
  <1>5. DiscoveryInv(u)'  BY <1>1, <1>3 DEF DiscoveryInv, Projected, Authorized
  <1>6. AttemptInv(u)'  BY <1>1, <1>2, RowsOf DEF AttemptInv
  <1>7. SentInv(u)'
    <2>1. \A c \in sent[u] : c \in Nat /\ c =< connection[u].revision
      BY <1>1, <1>2, RowsOf DEF UserInv, SentInv
    <2> QED  BY <1>1, <1>3, <2>1 DEF SentInv
  <1>8. RecoveryInv(u)'  BY <1>1 DEF RecoveryInv, UnexpiredAttempt, LiveAttempt
  <1>9. RemainsInv(u)'  BY <1>1 DEF RemainsInv
  <1>10. ObservationInv(u)'
    <2>1. observation[u] # None => observation[u].revision \in Nat
      BY <1>2 DEF TypeOK, Observation
    <2> QED  BY <1>1, <1>2, <1>3, <2>1 DEF UserInv, ObservationInv
  <1> QED  BY <1>4, <1>5, <1>6, <1>7, <1>8, <1>9, <1>10 DEF UserInv

LEMMA DeleteStep ==
    ASSUME IInv, TypeOK', DeleteConnector PROVE IInv'
  <1> SUFFICES ASSUME NEW u \in User PROVE UserInv(u)'
    BY DEF IInv
  <1>1. /\ defined' = FALSE /\ connection'[u] = Missing
        /\ attempt'[u] = None /\ refresh'[u] = None /\ rejection'[u] = None
        /\ discovery'[u] = None /\ observation'[u] = None
        /\ UNCHANGED <<reserved, withdrawn>>
    BY DEF DeleteConnector, counters, history
  <1>2. ConnectionInv(u)'  BY <1>1 DEF ConnectionInv, Missing
  <1>3. DiscoveryInv(u)'  BY <1>1 DEF DiscoveryInv, Projected, Authorized, Missing
  <1>4. AttemptInv(u)'  BY <1>1 DEF IInv, UserInv, AttemptInv
  <1>5. SentInv(u)'  BY <1>1 DEF SentInv
  <1>6. RecoveryInv(u)'  BY <1>1 DEF RecoveryInv, UnexpiredAttempt, LiveAttempt
  <1>7. RemainsInv(u)'  BY <1>1 DEF RemainsInv
  <1>8. ObservationInv(u)'  BY <1>1 DEF ObservationInv
  <1> QED  BY <1>2, <1>3, <1>4, <1>5, <1>6, <1>7, <1>8 DEF UserInv

-----------------------------------------------------------------------------
(* The user's switches.                                                    *)

LEMMA SetEnabledStep ==
    ASSUME IInv, TypeOK', NEW u \in User, NEW b \in BOOLEAN, SetEnabled(u, b)
    PROVE  IInv'
  <1> DEFINE conn == [connection[u] EXCEPT !.enabled = b,
                                           !.revision = connection[u].revision + 1]
  <1>1. /\ defined /\ UNCHANGED <<defined, configuration, attempt, refresh, rejection,
                                  observation, reserved, sent>>
        /\ connection' = [connection EXCEPT ![u] = conn]
        /\ UpdateDiscovery(u, conn, refresh[u], rejection[u])
        /\ \/ withdrawn' = withdrawn
           \/ withdrawn' = [withdrawn EXCEPT ![u] = reserved[u]]
    BY DEF SetEnabled, Bound, connector, counters
  <1>2. UserInv(u) /\ TypeOK  BY DEF IInv
  <1>3. /\ conn.enabled = b /\ conn.credential = connection[u].credential
        /\ conn.revision = connection[u].revision + 1 /\ conn.token = connection[u].token
        /\ connection[u].revision \in Nat /\ connection[u].credential \in Nat
        /\ connection[u].token \in Nat
    BY <1>2, RowsOf DEF Connection
  <1> HIDE DEF conn
  <1>4. connection'[u] = conn  BY <1>1, <1>2 DEF TypeOK
  <1>5. withdrawn'[u] \in {withdrawn[u], reserved[u]}  BY <1>1, <1>2 DEF TypeOK
  <1>6. ConnectionInv(u)'  BY <1>2, <1>3, <1>4 DEF UserInv, ConnectionInv
  <1>7. DiscoveryInv(u)'  BY <1>1, <1>2, <1>4, Updated
  <1>8. AttemptInv(u)'
    BY <1>1, <1>2, <1>3, <1>4, <1>5, RowsOf, AttemptFields DEF UserInv, AttemptInv
  <1>9. SentInv(u)'
    <2>1. \A c \in sent[u] : c \in Nat /\ c =< connection[u].revision
      BY <1>1, <1>2, RowsOf DEF UserInv, SentInv
    <2> QED  BY <1>1, <1>2, <1>3, <1>4, <2>1 DEF UserInv, SentInv, Matches
  <1>10. RecoveryInv(u)'
    BY <1>1, <1>2, <1>3, <1>4
    DEF UserInv, RecoveryInv, UnexpiredAttempt, LiveAttempt, Recovering, Matches
  <1>11. RemainsInv(u)'  BY <1>1 DEF RemainsInv
  <1>12. ObservationInv(u)'
    <2>1. observation[u] # None => observation[u].revision \in Nat
      BY <1>2 DEF TypeOK, Observation
    <2> QED  BY <1>1, <1>2, <1>3, <1>4, <2>1 DEF UserInv, ObservationInv
  <1>13. UserInv(u)'
    BY <1>6, <1>7, <1>8, <1>9, <1>10, <1>11, <1>12 DEF UserInv
  <1>14. \A v \in User \ {u} :
            /\ connection'[v] = connection[v] /\ discovery'[v] = discovery[v]
            /\ withdrawn'[v] = withdrawn[v]
    BY <1>1, <1>2 DEF UpdateDiscovery, TypeOK
  <1> QED  BY <1>1, <1>13, <1>14, OneUser

LEMMA DisconnectStep ==
    ASSUME IInv, TypeOK', NEW u \in User, Disconnect(u)
    PROVE  IInv'
  <1> DEFINE conn == [Revoked(u) EXCEPT !.enabled = FALSE]
  <1>1. /\ defined /\ UNCHANGED <<defined, configuration, attempt, observation, reserved,
                                  sent>>
        /\ connection' = [connection EXCEPT ![u] = conn]
        /\ UpdateDiscovery(u, conn, None, None)
        /\ refresh' = [refresh EXCEPT ![u] = None]
        /\ rejection' = [rejection EXCEPT ![u] = None]
        /\ withdrawn' = [withdrawn EXCEPT ![u] = reserved[u]]
        /\ connection[u].revision # 0
    BY DEF Disconnect, Bound, connector, counters
  <1>2. UserInv(u) /\ TypeOK  BY DEF IInv
  <1>3. /\ conn.credential = 0 /\ conn.token = 0
        /\ conn.revision = connection[u].revision + 1
        /\ connection[u].revision \in Nat
    BY <1>1, <1>2, RowsOf, RevokedFields, RevokedType DEF Connection
  <1> HIDE DEF conn
  <1>4. /\ connection'[u] = conn /\ refresh'[u] = None /\ rejection'[u] = None
        /\ withdrawn'[u] = reserved[u]
    BY <1>1, <1>2 DEF TypeOK
  <1>6. ConnectionInv(u)'  BY <1>2, <1>3, <1>4 DEF UserInv, ConnectionInv
  <1>7. DiscoveryInv(u)'  BY <1>1, <1>2, <1>4, Updated
  <1>8. AttemptInv(u)'
    BY <1>1, <1>2, <1>3, <1>4, RowsOf, AttemptFields DEF UserInv, AttemptInv
  <1>9. SentInv(u)'
    <2>1. \A c \in sent[u] : c \in Nat /\ c =< connection[u].revision
      BY <1>1, <1>2, RowsOf DEF UserInv, SentInv
    <2> QED  BY <1>1, <1>2, <1>3, <1>4, <2>1 DEF UserInv, SentInv, Matches
  <1>10. RecoveryInv(u)'  BY <1>4 DEF RecoveryInv, Recovering, Matches
  <1>11. RemainsInv(u)'  BY <1>1 DEF RemainsInv
  <1>12. ObservationInv(u)'
    <2>1. observation[u] # None => observation[u].revision \in Nat
      BY <1>2 DEF TypeOK, Observation
    <2> QED  BY <1>1, <1>2, <1>3, <1>4, <2>1 DEF UserInv, ObservationInv
  <1>13. UserInv(u)'
    BY <1>6, <1>7, <1>8, <1>9, <1>10, <1>11, <1>12 DEF UserInv
  <1>14. \A v \in User \ {u} :
            /\ connection'[v] = connection[v] /\ discovery'[v] = discovery[v]
            /\ withdrawn'[v] = withdrawn[v]
            /\ refresh'[v] = refresh[v] /\ rejection'[v] = rejection[v]
    BY <1>1, <1>2 DEF UpdateDiscovery, TypeOK
  <1> QED  BY <1>1, <1>13, <1>14, OneUser

-----------------------------------------------------------------------------
(* Authorizing.                                                            *)

(* An attempt goes on, grows late or ends. *)
LEMMA AttemptMoves ==
    ASSUME IInv, TypeOK', NEW u \in User, NEW a,
           attempt[u] # None, attempt' = [attempt EXCEPT ![u] = a],
           a.id = attempt[u].id, a.revision = attempt[u].revision,
           a.status \in Live => LiveAttempt(u),
           a.status \in Live /\ ~a.late => UnexpiredAttempt(u),
           \/ withdrawn' = withdrawn
           \/ a.status \notin Live /\ withdrawn' = [withdrawn EXCEPT ![u] = a.id],
           UNCHANGED <<defined, configuration, connection, refresh, rejection, discovery,
                       observation, reserved, sent>>
    PROVE  IInv'
  <1>1. UserInv(u) /\ TypeOK  BY DEF IInv
  <1>2. attempt'[u] = a  BY <1>1 DEF TypeOK
  <1>3. \/ withdrawn'[u] = withdrawn[u]
        \/ a.status \notin Live /\ withdrawn'[u] = a.id
    BY <1>1 DEF TypeOK
  <1>4. defined  BY <1>1 DEF UserInv, RemainsInv
  <1>5. ConnectionInv(u)'  BY <1>1 DEF UserInv, ConnectionInv
  <1>6. DiscoveryInv(u)'
    BY <1>1 DEF UserInv, DiscoveryInv, Projected, Matches, Authorized
  <1>7. AttemptInv(u)'  BY <1>1, <1>2, <1>3 DEF UserInv, AttemptInv, LiveAttempt
  <1>8. SentInv(u)'  BY <1>1 DEF UserInv, SentInv, Matches
  <1>9. RecoveryInv(u)'
    BY <1>1, <1>2 DEF UserInv, RecoveryInv, UnexpiredAttempt, LiveAttempt, Recovering, Matches
  <1>10. RemainsInv(u)'  BY <1>4 DEF RemainsInv
  <1>11. ObservationInv(u)'  BY <1>1 DEF UserInv, ObservationInv
  <1>12. UserInv(u)'
    BY <1>5, <1>6, <1>7, <1>8, <1>9, <1>10, <1>11 DEF UserInv
  <1>13. \A v \in User \ {u} :
            attempt'[v] = attempt[v] /\ withdrawn'[v] = withdrawn[v]
    BY <1>1 DEF TypeOK
  <1> QED  BY <1>12, <1>13, OneUser

(* The same, for the one that only gets another status. *)
LEMMA StatusMoves ==
    ASSUME IInv, TypeOK', NEW u \in User, NEW status,
           attempt[u] # None, attempt' = [attempt EXCEPT ![u].status = status],
           status \in Live => LiveAttempt(u),
           \/ withdrawn' = withdrawn
           \/ status \notin Live /\ withdrawn' = [withdrawn EXCEPT ![u] = attempt[u].id],
           UNCHANGED <<defined, configuration, connection, refresh, rejection, discovery,
                       observation, reserved, sent>>
    PROVE  IInv'
  <1> DEFINE a == [attempt[u] EXCEPT !.status = status]
  <1>1. attempt' = [attempt EXCEPT ![u] = a]  OBVIOUS
  <1>2. /\ a.status = status /\ a.id = attempt[u].id
        /\ a.revision = attempt[u].revision /\ a.late = attempt[u].late
    BY AttemptFields DEF IInv, Attempt
  <1> HIDE DEF a
  <1>3. a.status \in Live /\ ~a.late => UnexpiredAttempt(u)
    BY <1>2 DEF UnexpiredAttempt
  <1> QED  BY <1>1, <1>2, <1>3, AttemptMoves

LEMMA StartStep ==
    ASSUME IInv, TypeOK', NEW f \in Flow, NEW u \in User, Start(f, u)
    PROVE  IInv'
  <1> DEFINE a == [id |-> reserved[u] + 1, status |-> "preparing",
                   revision |-> connection[u].revision,
                   configuration |-> configuration, claim |-> None, late |-> FALSE]
  <1>1. /\ UNCHANGED <<defined, configuration, connection, refresh, rejection, discovery,
                       observation, sent, withdrawn>>
        /\ attempt' = [attempt EXCEPT ![u] = a]
        /\ reserved' = [reserved EXCEPT ![u] = reserved[u] + 1]
        /\ defined /\ Reserves(u)
    BY DEF Start, Eligible, connector, history
  <1>2. UserInv(u) /\ TypeOK  BY DEF IInv
  <1>3. /\ attempt'[u] = a /\ reserved'[u] = reserved[u] + 1
        /\ reserved[u] \in Nat /\ withdrawn[u] \in Nat /\ connection[u].revision \in Nat
    BY <1>1, <1>2, RowsOf DEF TypeOK
  <1>4. a.id = reserved[u] + 1 /\ a.revision = connection[u].revision
    OBVIOUS
  <1> HIDE DEF a
  <1>5. ConnectionInv(u)'  BY <1>1, <1>2 DEF UserInv, ConnectionInv
  <1>6. DiscoveryInv(u)'
    BY <1>1, <1>2 DEF UserInv, DiscoveryInv, Projected, Matches, Authorized
  <1>7. AttemptInv(u)'  BY <1>1, <1>2, <1>3, <1>4 DEF UserInv, AttemptInv
  <1>8. SentInv(u)'  BY <1>1, <1>2 DEF UserInv, SentInv, Matches
  <1>9. RecoveryInv(u)'  BY <1>1 DEF Reserves, RecoveryInv, Recovering, Matches
  <1>10. RemainsInv(u)'  BY <1>1 DEF RemainsInv
  <1>11. ObservationInv(u)'  BY <1>1, <1>2 DEF UserInv, ObservationInv
  <1>12. UserInv(u)'
    BY <1>5, <1>6, <1>7, <1>8, <1>9, <1>10, <1>11 DEF UserInv
  <1>13. \A v \in User \ {u} :
            attempt'[v] = attempt[v] /\ reserved'[v] = reserved[v]
    BY <1>1, <1>2 DEF TypeOK
  <1> QED  BY <1>1, <1>12, <1>13, OneUser

LEMMA PublishStep ==
    ASSUME IInv, TypeOK', NEW f \in Flow, Publish(f) PROVE IInv'
  <1>1. flow[f].user \in User  BY Flows DEF Publish, IInv
  <1>2. LiveAttempt(flow[f].user) /\ attempt[flow[f].user] # None
    BY DEF Publish, Proceeds, UnexpiredAttempt, LiveAttempt
  <1> QED
    BY <1>1, <1>2, StatusMoves DEF Publish, Becomes, connector, counters, history

LEMMA ClaimStep ==
    ASSUME IInv, TypeOK', NEW f \in Flow, NEW u \in User, Claim(f, u)
    PROVE  IInv'
  <1> DEFINE a == [attempt[u] EXCEPT !.status = "exchanging", !.claim = f]
  <1>1. attempt[u] # None /\ LiveAttempt(u) /\ UnexpiredAttempt(u)
    BY DEF Claim, Proceeds, UnexpiredAttempt, LiveAttempt
  <1>2. attempt' = [attempt EXCEPT ![u] = a]  BY DEF Claim
  <1>3. a.id = attempt[u].id /\ a.revision = attempt[u].revision
    BY <1>1, AttemptFields DEF IInv, Attempt
  <1> HIDE DEF a
  <1> QED
    BY <1>1, <1>2, <1>3, AttemptMoves DEF Claim, connector, counters, history

LEMMA FailsStep ==
    ASSUME IInv, TypeOK', NEW f \in Flow, Fails(f) PROVE IInv'
  <1> DEFINE u == flow[f].user
  <1>1. u \in User  BY Flows DEF Fails, IInv
  <1>2. UNCHANGED <<defined, configuration, connection, refresh, rejection, discovery,
                    observation, reserved, sent, withdrawn>>
    BY DEF Fails, connector, counters, history
  <1>3. \/ attempt' = attempt
        \/ attempt[u] # None /\ attempt' = [attempt EXCEPT ![u].status = "expired"]
        \/ attempt[u] # None /\ attempt' = [attempt EXCEPT ![u].status = "failed"]
    BY DEF Fails, Owns
  <1>4. "expired" \notin Live /\ "failed" \notin Live  BY DEF Live
  <1>5. CASE attempt' = attempt
    BY <1>2, <1>5, NoUser DEF rows, history
  <1>6. CASE attempt[u] # None /\ attempt' = [attempt EXCEPT ![u].status = "expired"]
    BY <1>1, <1>2, <1>4, <1>6, StatusMoves
  <1>7. CASE attempt[u] # None /\ attempt' = [attempt EXCEPT ![u].status = "failed"]
    BY <1>1, <1>2, <1>4, <1>7, StatusMoves
  <1> QED  BY <1>3, <1>5, <1>6, <1>7

LEMMA CancelStep ==
    ASSUME IInv, TypeOK', NEW u \in User, Cancel(u) PROVE IInv'
  <1>1. attempt[u] # None  BY DEF Cancel, LiveAttempt
  <1>2. PICK status \in {"expired", "cancelled"} :
           attempt' = [attempt EXCEPT ![u].status = status]
    BY DEF Cancel, Becomes
  <1>3. status \notin Live  BY DEF Live
  <1> QED
    BY <1>1, <1>2, <1>3, StatusMoves DEF Cancel, connector, counters

LEMMA NoteExpiryStep ==
    ASSUME IInv, TypeOK', NEW u \in User, NoteExpiry(u) PROVE IInv'
  <1>1. attempt[u] # None  BY DEF NoteExpiry, LiveAttempt
  <1>2. "expired" \notin Live  BY DEF Live
  <1> QED
    BY <1>1, <1>2, StatusMoves DEF NoteExpiry, Becomes, connector, counters, history

LEMMA AttemptExpiresStep ==
    ASSUME IInv, TypeOK', NEW u \in User, AttemptExpires(u) PROVE IInv'
  <1> DEFINE a == [attempt[u] EXCEPT !.late = TRUE]
  <1>1. attempt[u] # None /\ LiveAttempt(u)  BY DEF AttemptExpires, LiveAttempt
  <1>2. attempt' = [attempt EXCEPT ![u] = a]  BY DEF AttemptExpires
  <1>3. a.id = attempt[u].id /\ a.revision = attempt[u].revision /\ a.late
    BY <1>1, AttemptFields DEF IInv, Attempt
  <1> HIDE DEF a
  <1> QED
    BY <1>1, <1>2, <1>3, AttemptMoves DEF AttemptExpires, connector, counters, history

(* A new authorization: whatever was kept of the old one is behind it. *)
LEMMA InstallUser ==
    ASSUME IInv, NEW u \in User, defined, NEW token \in Nat, Install(u, token),
           token =< connection[u].revision + 1,
           sent'[u] \subseteq sent[u], token \notin sent'[u],
           UNCHANGED <<defined, configuration, observation, reserved, withdrawn>>,
           attempt'[u] # None =>
              /\ attempt[u] # None
              /\ attempt'[u].id = attempt[u].id
              /\ attempt'[u].revision = attempt[u].revision
    PROVE  UserInv(u)'
  <1> DEFINE conn == [connection[u] EXCEPT !.credential = connection[u].revision + 1,
                                           !.token = token,
                                           !.revision = connection[u].revision + 1]
  <1>1. /\ connection' = [connection EXCEPT ![u] = conn]
        /\ UpdateDiscovery(u, conn, None, None)
        /\ refresh' = [refresh EXCEPT ![u] = None]
        /\ rejection' = [rejection EXCEPT ![u] = None]
    BY DEF Install
  <1>2. UserInv(u) /\ TypeOK  BY DEF IInv
  <1>3. /\ conn.credential = connection[u].revision + 1 /\ conn.token = token
        /\ conn.revision = connection[u].revision + 1
        /\ connection[u].revision \in Nat
    BY <1>2, RowsOf DEF Connection
  <1> HIDE DEF conn
  <1>4. connection'[u] = conn /\ refresh'[u] = None /\ rejection'[u] = None
    BY <1>1, <1>2 DEF TypeOK
  <1>6. ConnectionInv(u)'  BY <1>3, <1>4 DEF ConnectionInv
  <1>7. DiscoveryInv(u)'  BY <1>1, <1>2, <1>4, Updated
  <1>8. AttemptInv(u)'
    BY <1>2, <1>3, <1>4, RowsOf, AttemptFields DEF UserInv, AttemptInv
  <1>9. SentInv(u)'
    <2>1. \A c \in sent[u] : c \in Nat /\ c =< connection[u].revision
      BY <1>2, RowsOf DEF UserInv, SentInv
    <2> QED  BY <1>3, <1>4, <2>1 DEF SentInv
  <1>10. RecoveryInv(u)'  BY <1>4 DEF RecoveryInv, Recovering, Matches
  <1>11. RemainsInv(u)'  BY DEF RemainsInv
  <1>12. ObservationInv(u)'
    <2>1. observation[u] # None => observation[u].revision \in Nat
      BY <1>2 DEF TypeOK, Observation
    <2> QED  BY <1>2, <1>3, <1>4, <2>1 DEF UserInv, ObservationInv
  <1> QED
    BY <1>6, <1>7, <1>8, <1>9, <1>10, <1>11, <1>12 DEF UserInv

LEMMA InstallOthers ==
    ASSUME TypeOK, NEW u \in User, NEW token, Install(u, token)
    PROVE  \A v \in User \ {u} :
              /\ connection'[v] = connection[v] /\ discovery'[v] = discovery[v]
              /\ refresh'[v] = refresh[v] /\ rejection'[v] = rejection[v]
  BY DEF Install, UpdateDiscovery, TypeOK

LEMMA CompleteStep ==
    ASSUME IInv, TypeOK', NEW f \in Flow, Complete(f) PROVE IInv'
  <1>0. flow[f].user \in User  BY Flows DEF IInv, Complete
  <1> PICK u \in User : u = flow[f].user  BY <1>0
  <1>1. /\ Install(u, NewToken(u)) /\ defined /\ attempt[u] # None
        /\ UNCHANGED <<defined, configuration, observation, reserved, sent, withdrawn>>
        /\ attempt' = [attempt EXCEPT ![u].status = "completed"]
    BY DEF Complete, Claimed, Owns, Proceeds, Eligible, Becomes, connector, counters,
        history
  <1>2. /\ attempt'[u].id = attempt[u].id /\ attempt'[u].revision = attempt[u].revision
        /\ \A v \in User \ {u} : attempt'[v] = attempt[v]
    BY <1>1, AttemptFields DEF IInv, TypeOK, Attempt
  <1>3. UserInv(u)'
    <2>1. /\ NewToken(u) \in Nat /\ NewToken(u) = connection[u].revision + 1
          /\ connection[u].revision \in Nat
      BY RowsOf DEF IInv, NewToken
    <2>2. \A c \in sent[u] : c \in Nat /\ c =< connection[u].revision
      BY <1>1, RowsOf DEF IInv, UserInv, SentInv
    <2>3. NewToken(u) \notin sent'[u] /\ sent'[u] = sent[u]  BY <1>1, <2>1, <2>2
    <2> QED  BY <1>1, <1>2, <2>1, <2>3, InstallUser
  <1> QED  BY <1>1, <1>2, <1>3, InstallOthers, OneUser DEF IInv

-----------------------------------------------------------------------------
(* Refreshing.                                                             *)

(* A claim is made, goes on, or is given up: the connection stays.         *)
(* Whoever makes one has excluded an authorization; the token that has     *)
(* left is remembered by a claim that is past its preparation.             *)
LEMMA ClaimMoves ==
    ASSUME IInv, TypeOK', NEW u \in User, NEW claim, defined,
           refresh' = [refresh EXCEPT ![u] = claim],
           UpdateDiscovery(u, connection[u], claim, rejection[u]),
           claim # None /\ claim.status \in {"preparing", "exchanging"} =>
              ~UnexpiredAttempt(u),
           sent'[u] \subseteq sent[u] \cup {connection[u].token},
           \A v \in User \ {u} : sent'[v] = sent[v],
           connection[u].token \in sent'[u] /\ connection[u].credential # 0 =>
              Matches(claim, connection[u]) /\ claim.status # "preparing",
           UNCHANGED <<defined, configuration, connection, attempt, rejection,
                       observation, reserved, withdrawn>>
    PROVE  IInv'
  <1>1. UserInv(u) /\ TypeOK  BY DEF IInv
  <1>2. refresh'[u] = claim  BY <1>1 DEF TypeOK
  <1>4. ConnectionInv(u)'  BY <1>1 DEF UserInv, ConnectionInv
  <1>5. DiscoveryInv(u)'  BY <1>1, <1>2, Updated
  <1>6. AttemptInv(u)'  BY <1>1 DEF UserInv, AttemptInv, LiveAttempt
  <1>7. SentInv(u)'
    BY <1>1, <1>2 DEF UserInv, ConnectionInv, SentInv, Matches
  <1>8. RecoveryInv(u)'
    BY <1>2 DEF RecoveryInv, UnexpiredAttempt, LiveAttempt, Recovering, Matches
  <1>9. RemainsInv(u)'  BY DEF RemainsInv
  <1>10. ObservationInv(u)'  BY <1>1 DEF UserInv, ObservationInv
  <1>11. UserInv(u)'
    BY <1>4, <1>5, <1>6, <1>7, <1>8, <1>9, <1>10 DEF UserInv
  <1>12. \A v \in User \ {u} :
            refresh'[v] = refresh[v] /\ discovery'[v] = discovery[v]
    BY <1>1 DEF UpdateDiscovery, TypeOK
  <1> QED  BY <1>11, <1>12, OneUser

LEMMA ReserveRefreshStep ==
    ASSUME IInv, TypeOK', NEW f \in Flow, NEW u \in User, ReserveRefresh(f, u)
    PROVE  IInv'
  <1> DEFINE claim == [claim |-> f, status |-> "preparing",
                       credential |-> connection[u].credential,
                       revision |-> connection[u].revision,
                       configuration |-> configuration, late |-> FALSE]
  <1>1. /\ refresh' = [refresh EXCEPT ![u] = claim]
        /\ UpdateDiscovery(u, connection[u], claim, rejection[u])
        /\ UNCHANGED <<defined, configuration, connection, attempt, rejection,
                       observation, reserved, withdrawn, sent>>
        /\ defined /\ ~Recovering(u) /\ ~UnexpiredAttempt(u)
    BY DEF ReserveRefresh, Capturable, Replaceable, connector, counters, history
  <1> HIDE DEF claim
  <1>3. ~(connection[u].token \in sent'[u] /\ connection[u].credential # 0)
    BY <1>1 DEF IInv, UserInv, SentInv, Recovering
  <1> QED  BY <1>1, <1>3, ClaimMoves

LEMMA ExchangeStep ==
    ASSUME IInv, TypeOK', NEW f \in Flow, Exchange(f) PROVE IInv'
  <1>0. flow[f].user \in User  BY Flows DEF IInv, Exchange
  <1> PICK u \in User : u = flow[f].user  BY <1>0
  <1> DEFINE claim == [refresh[u] EXCEPT !.status = "exchanging"]
  <1>1. /\ refresh' = [refresh EXCEPT ![u] = claim]
        /\ UpdateDiscovery(u, connection[u], claim, rejection[u])
        /\ sent' = [sent EXCEPT ![u] = @ \cup {connection[u].token}]
        /\ UNCHANGED <<defined, configuration, connection, attempt, rejection,
                       observation, reserved, withdrawn>>
        /\ refresh[u] # None /\ refresh[u].status = "preparing" /\ ~refresh[u].late
        /\ defined /\ connection[u].credential # 0
        /\ refresh[u].credential = connection[u].credential
    BY DEF Exchange, Settle, Holds, StillCaptured, Capturable, Authorized, connector,
           counters
  <1>2. claim \in RefreshClaim /\ claim.status = "exchanging"
        /\ claim.credential = refresh[u].credential
    BY <1>1, RefreshFields DEF IInv, RefreshClaim
  <1> HIDE DEF claim
  <1>3. ~UnexpiredAttempt(u)
    BY <1>1 DEF IInv, UserInv, RecoveryInv, Recovering, Matches
  <1>4. Matches(claim, connection[u]) /\ claim.status # "preparing"
    BY <1>1, <1>2, PersonalAssumption DEF Matches
  <1>5. /\ sent'[u] \subseteq sent[u] \cup {connection[u].token}
        /\ \A v \in User \ {u} : sent'[v] = sent[v]
    BY <1>1 DEF IInv, TypeOK
  <1> QED  BY <1>1, <1>3, <1>4, <1>5, ClaimMoves

LEMMA ReleaseStep ==
    ASSUME IInv, TypeOK', NEW f \in Flow, Release(f) PROVE IInv'
  <1>0. flow[f].user \in User  BY Flows DEF IInv, Release
  <1> PICK u \in User : u = flow[f].user  BY <1>0
  <1>1. UNCHANGED <<defined, configuration, connection, attempt, rejection,
                    observation, reserved, withdrawn, sent>>
    BY DEF Release, connector, counters, history
  <1>2. CASE ~Holds(f, "preparing")
    BY <1>1, <1>2, NoUser DEF Release, rows, history
  <1>3. CASE Holds(f, "preparing")
    <2>1. /\ refresh' = [refresh EXCEPT ![u] = None]
          /\ UpdateDiscovery(u, connection[u], None, rejection[u])
          /\ refresh[u] # None /\ refresh[u].status = "preparing"
      BY <1>3 DEF Release, Settle, Holds
    <2>2. defined  BY <2>1 DEF IInv, UserInv, RemainsInv
    <2>3. ~(connection[u].token \in sent'[u] /\ connection[u].credential # 0)
      BY <1>1, <2>1, <2>2 DEF IInv, UserInv, SentInv
    <2> QED  BY <1>1, <2>1, <2>2, <2>3, ClaimMoves
  <1> QED  BY <1>2, <1>3

LEMMA CompleteRefreshStep ==
    ASSUME IInv, TypeOK', NEW f \in Flow, CompleteRefresh(f) PROVE IInv'
  <1>0. flow[f].user \in User  BY Flows DEF IInv, CompleteRefresh
  <1> PICK u \in User : u = flow[f].user  BY <1>0
  <1>1. PICK token \in {NewToken(u), connection[u].token} :
            Install(u, token) /\ sent' = [sent EXCEPT ![u] = @ \ {token}]
    BY DEF CompleteRefresh
  <1>2. /\ defined
        /\ UNCHANGED <<defined, configuration, attempt, observation, reserved, withdrawn>>
    BY DEF CompleteRefresh, StillCaptured, Capturable, connector, counters
  <1>3. token \in Nat /\ token =< connection[u].revision + 1
    BY <1>2, RowsOf DEF IInv, UserInv, SentInv, NewToken
  <1>4. /\ sent'[u] \subseteq sent[u] /\ token \notin sent'[u]
        /\ \A v \in User \ {u} : sent'[v] = sent[v]
    BY <1>1 DEF IInv, TypeOK
  <1>5. UserInv(u)'  BY <1>1, <1>2, <1>3, <1>4, InstallUser
  <1> QED  BY <1>1, <1>2, <1>4, <1>5, InstallOthers, OneUser DEF IInv

LEMMA FailRefreshStep ==
    ASSUME IInv, TypeOK', NEW f \in Flow,
           NEW reason \in {"refresh_denied", "refresh_uncertain"},
           FailRefresh(f, reason)
    PROVE  IInv'
  <1>0. flow[f].user \in User  BY Flows DEF IInv, FailRefresh
  <1> PICK u \in User : u = flow[f].user  BY <1>0
  <1> DEFINE claim == [refresh[u] EXCEPT !.status = reason]
  <1>1. UNCHANGED <<defined, configuration, connection, attempt, rejection,
                    observation, reserved, withdrawn, sent>>
    BY DEF FailRefresh, connector, counters, history
  <1>2. \/ UNCHANGED <<refresh, discovery>>
        \/ /\ refresh[u] # None /\ Matches(refresh[u], connection[u])
           /\ refresh' = [refresh EXCEPT ![u] = claim]
           /\ UpdateDiscovery(u, connection[u], claim, rejection[u])
    BY DEF FailRefresh, Settle, Holds
  <1>3. refresh[u] # None => /\ claim \in RefreshClaim /\ claim.status = reason
                             /\ claim.credential = refresh[u].credential
    BY RefreshFields DEF IInv, RefreshClaim
  <1> HIDE DEF claim
  <1>4. CASE UNCHANGED <<refresh, discovery>>
    BY <1>1, <1>4, NoUser DEF rows, history
  <1>5. CASE /\ refresh[u] # None /\ Matches(refresh[u], connection[u])
             /\ refresh' = [refresh EXCEPT ![u] = claim]
             /\ UpdateDiscovery(u, connection[u], claim, rejection[u])
    <2>1. defined  BY <1>5 DEF IInv, UserInv, RemainsInv
    <2>2. Matches(claim, connection[u]) /\ claim.status # "preparing"
      BY <1>3, <1>5, PersonalAssumption DEF Matches
    <2>3. claim.status \notin {"preparing", "exchanging"}  BY <1>3, <1>5
    <2> QED  BY <1>1, <1>5, <2>1, <2>2, <2>3, ClaimMoves
  <1> QED  BY <1>2, <1>4, <1>5

LEMMA LateRow ==
    ASSUME NEW d, NEW r, NEW c, NEW x,
           d = [revision |-> r, configuration |-> c, refresh |-> "preparing", late |-> x]
    PROVE  [d EXCEPT !.late = TRUE]
              = [revision |-> r, configuration |-> c, refresh |-> "preparing", late |-> TRUE]
  <1>1. ASSUME NEW y
        PROVE  [d EXCEPT !.late = y]
                  = [revision |-> r, configuration |-> c, refresh |-> "preparing", late |-> y]
    OBVIOUS
  <1> QED  BY <1>1, Zenon

(* The deadline passes in the claim and in the row that shows it. *)
LEMMA DeadlinePassesStep ==
    ASSUME IInv, TypeOK', NEW u \in User, DeadlinePasses(u) PROVE IInv'
  <1> DEFINE claim == [refresh[u] EXCEPT !.late = TRUE]
  <1>1. /\ UNCHANGED <<defined, configuration, connection, attempt, rejection,
                       observation, reserved, withdrawn, sent>>
        /\ refresh' = [refresh EXCEPT ![u] = claim]
        /\ refresh[u] # None /\ ~refresh[u].late
    BY DEF DeadlinePasses, connector, counters, history
  <1>2. UserInv(u) /\ TypeOK  BY DEF IInv
  <1>3. /\ claim \in RefreshClaim /\ claim.status = refresh[u].status /\ claim.late
        /\ claim.credential = refresh[u].credential
    BY <1>1, <1>2, RefreshFields DEF RefreshClaim
  <1> HIDE DEF claim
  <1>4. refresh'[u] = claim /\ claim # None
    BY <1>1, <1>2, <1>3, PersonalAssumption DEF TypeOK
  <1>5. discovery'[u] =
           IF discovery[u] # None /\ discovery[u].refresh = "preparing"
             THEN [discovery[u] EXCEPT !.late = TRUE] ELSE discovery[u]
    BY <1>2 DEF DeadlinePasses, TypeOK
  <1>6. defined  BY <1>1, <1>2 DEF UserInv, RemainsInv
  <1>7. ConnectionInv(u)'  BY <1>1, <1>2 DEF UserInv, ConnectionInv
  <1>8. DiscoveryInv(u)'
    <2>1. discovery[u] = Projected(connection[u], refresh[u], rejection[u])
      BY <1>2 DEF UserInv, DiscoveryInv
    <2>2. Matches(claim, connection[u]) <=> Matches(refresh[u], connection[u])
      BY <1>1, <1>3, <1>4 DEF Matches
    <2>3. CASE ~Authorized(connection[u]) \/ rejection[u] = connection[u].credential
      BY <1>1, <1>4, <1>5, <2>1, <2>3 DEF DiscoveryInv, Projected
    <2>4. CASE ~(~Authorized(connection[u]) \/ rejection[u] = connection[u].credential)
      <3>1. /\ discovery[u] # None
            /\ discovery[u] =
                 [revision |-> connection[u].revision, configuration |-> configuration,
                  refresh |-> IF ~Matches(refresh[u], connection[u]) THEN "available"
                              ELSE IF refresh[u].status = "preparing" THEN "preparing"
                              ELSE "blocked",
                  late |-> Matches(refresh[u], connection[u])
                              /\ refresh[u].status = "preparing" /\ refresh[u].late]
        <4>1. discovery[u] # None
          BY <1>1, <1>2, <2>1, <2>4, RowsOf, ProjectedRow
        <4> QED  BY <2>1, <2>4, <4>1 DEF Projected
      <3>2. Projected(connection[u], claim, rejection[u]) =
                 [revision |-> connection[u].revision, configuration |-> configuration,
                  refresh |-> IF ~Matches(refresh[u], connection[u]) THEN "available"
                              ELSE IF refresh[u].status = "preparing" THEN "preparing"
                              ELSE "blocked",
                  late |-> Matches(refresh[u], connection[u])
                              /\ refresh[u].status = "preparing" /\ claim.late]
        BY <1>3, <2>2, <2>4 DEF Projected
      <3>3. discovery'[u] = Projected(connection[u], claim, rejection[u])
        <4>1. CASE Matches(refresh[u], connection[u]) /\ refresh[u].status = "preparing"
          <5>1. discovery[u] =
                   [revision |-> connection[u].revision, configuration |-> configuration,
                    refresh |-> "preparing", late |-> refresh[u].late]
            <6>1. (Matches(refresh[u], connection[u])
                     /\ refresh[u].status = "preparing" /\ refresh[u].late) = refresh[u].late
              BY <1>1, <1>2, <4>1, RefreshFields
            <6> QED  BY <3>1, <4>1, <6>1
          <5>2. Projected(connection[u], claim, rejection[u]) =
                   [revision |-> connection[u].revision, configuration |-> configuration,
                    refresh |-> "preparing", late |-> TRUE]
            <6>1. (Matches(refresh[u], connection[u])
                     /\ refresh[u].status = "preparing" /\ claim.late) = TRUE
              BY <1>3, <4>1
            <6> QED  BY <3>2, <4>1, <6>1
          <5>3. discovery'[u] = [discovery[u] EXCEPT !.late = TRUE]
            <6>1. discovery[u].refresh = "preparing"  BY <5>1
            <6>2. discovery[u] # None  BY <3>1
            <6> QED  BY <1>5, <6>1, <6>2, Zenon
          <5>4. [discovery[u] EXCEPT !.late = TRUE] =
                   [revision |-> connection[u].revision, configuration |-> configuration,
                    refresh |-> "preparing", late |-> TRUE]
            BY <5>1, LateRow
          <5> QED  BY <5>2, <5>3, <5>4
        <4>2. CASE ~(Matches(refresh[u], connection[u]) /\ refresh[u].status = "preparing")
          BY <1>5, <3>1, <3>2, <4>2
        <4> QED  BY <4>1, <4>2
      <3> QED
        BY <1>1, <1>4, <3>3 DEF DiscoveryInv, Projected, Matches, Authorized
    <2> QED  BY <2>3, <2>4
  <1>9. AttemptInv(u)'  BY <1>1, <1>2 DEF UserInv, AttemptInv, LiveAttempt
  <1>10. SentInv(u)'  BY <1>1, <1>2, <1>3, <1>4 DEF UserInv, SentInv, Matches
  <1>11. RecoveryInv(u)'  BY <1>3, <1>4 DEF RecoveryInv
  <1>12. RemainsInv(u)'  BY <1>1, <1>6 DEF RemainsInv
  <1>13. ObservationInv(u)'  BY <1>1, <1>2 DEF UserInv, ObservationInv
  <1>14. UserInv(u)'
    BY <1>7, <1>8, <1>9, <1>10, <1>11, <1>12, <1>13 DEF UserInv
  <1>15. \A v \in User \ {u} :
            refresh'[v] = refresh[v] /\ discovery'[v] = discovery[v]
    BY <1>1, <1>2 DEF DeadlinePasses, TypeOK
  <1> QED  BY <1>1, <1>14, <1>15, OneUser

-----------------------------------------------------------------------------
(* Using the connector.                                                    *)

LEMMA ResolveStep ==
    ASSUME IInv, TypeOK', NEW f \in Flow, NEW u \in User, Resolve(f, u)
    PROVE  IInv'
  BY NoUser DEF Resolve, connector, counters

LEMMA DiesStep ==
    ASSUME IInv, TypeOK', NEW f \in Flow, Dies(f) PROVE IInv'
  BY NoUser DEF Dies, connector, counters

LEMMA SaveObservationStep ==
    ASSUME IInv, TypeOK', NEW f \in Flow, SaveObservation(f) PROVE IInv'
  <1>0. flow[f].user \in User  BY Flows DEF IInv, SaveObservation
  <1> PICK u \in User : u = flow[f].user  BY <1>0
  <1> DEFINE o == [revision |-> flow[f].revision, configuration |-> flow[f].configuration,
                   inventory |-> inventories[u] + 1]
  <1>1. /\ UNCHANGED <<defined, configuration, connection, attempt, refresh, rejection,
                       discovery, reserved, sent, withdrawn>>
        /\ observation' = [observation EXCEPT ![u] = o]
        /\ defined /\ connection[u].credential # 0
        /\ connection[u].revision = flow[f].revision
        /\ configuration = flow[f].configuration
    BY DEF SaveObservation, Fits, Target, Usable, Authorized, connector, history
  <1>2. o.revision = connection[u].revision /\ o.configuration = configuration
    BY <1>1
  <1> HIDE DEF o
  <1>3. UserInv(u) /\ TypeOK  BY DEF IInv
  <1>4. observation'[u] = o /\ connection[u].revision \in Nat
    BY <1>1, <1>3, RowsOf DEF TypeOK
  <1>5. ConnectionInv(u)'  BY <1>1, <1>3 DEF UserInv, ConnectionInv
  <1>6. DiscoveryInv(u)'
    BY <1>1, <1>3 DEF UserInv, DiscoveryInv, Projected, Matches, Authorized
  <1>7. AttemptInv(u)'  BY <1>1, <1>3 DEF UserInv, AttemptInv, LiveAttempt
  <1>8. SentInv(u)'  BY <1>1, <1>3 DEF UserInv, SentInv, Matches
  <1>9. RecoveryInv(u)'
    BY <1>1, <1>3 DEF UserInv, RecoveryInv, UnexpiredAttempt, LiveAttempt, Recovering, Matches
  <1>10. RemainsInv(u)'  BY <1>1 DEF RemainsInv
  <1>11. ObservationInv(u)'  BY <1>1, <1>2, <1>4 DEF ObservationInv
  <1>12. UserInv(u)'
    BY <1>5, <1>6, <1>7, <1>8, <1>9, <1>10, <1>11 DEF UserInv
  <1>13. \A v \in User \ {u} : observation'[v] = observation[v]
    BY <1>1, <1>3 DEF TypeOK
  <1> QED  BY <1>1, <1>12, <1>13, OneUser

LEMMA RejectStep ==
    ASSUME IInv, TypeOK', NEW f \in Flow, Reject(f) PROVE IInv'
  <1>0. flow[f].user \in User  BY Flows DEF IInv, Reject
  <1> PICK u \in User : u = flow[f].user  BY <1>0
  <1>1. UNCHANGED <<defined, configuration, connection, attempt, refresh, observation,
                    reserved, sent, withdrawn>>
    BY DEF Reject, connector, counters, history
  <1>2. \/ UNCHANGED <<rejection, discovery>>
        \/ /\ defined
           /\ rejection' = [rejection EXCEPT ![u] = connection[u].credential]
           /\ UpdateDiscovery(u, connection[u], refresh[u], connection[u].credential)
    BY DEF Reject
  <1>3. CASE UNCHANGED <<rejection, discovery>>
    BY <1>1, <1>3, NoUser DEF rows, history
  <1>4. CASE /\ defined
             /\ rejection' = [rejection EXCEPT ![u] = connection[u].credential]
             /\ UpdateDiscovery(u, connection[u], refresh[u], connection[u].credential)
    <2>1. UserInv(u) /\ TypeOK  BY DEF IInv
    <2>2. rejection'[u] = connection[u].credential  BY <1>4, <2>1 DEF TypeOK
    <2>3. ConnectionInv(u)'  BY <1>1, <2>1 DEF UserInv, ConnectionInv
    <2>4. DiscoveryInv(u)'  BY <1>1, <1>4, <2>1, <2>2, Updated
    <2>5. AttemptInv(u)'  BY <1>1, <2>1 DEF UserInv, AttemptInv, LiveAttempt
    <2>6. SentInv(u)'  BY <1>1, <2>1 DEF UserInv, SentInv, Matches
    <2>7. RecoveryInv(u)'
      BY <1>1, <2>1
      DEF UserInv, RecoveryInv, UnexpiredAttempt, LiveAttempt, Recovering, Matches
    <2>8. RemainsInv(u)'  BY <1>1, <1>4 DEF RemainsInv
    <2>9. ObservationInv(u)'  BY <1>1, <2>1 DEF UserInv, ObservationInv
    <2>10. UserInv(u)'
      BY <2>3, <2>4, <2>5, <2>6, <2>7, <2>8, <2>9 DEF UserInv
    <2>11. \A v \in User \ {u} :
              rejection'[v] = rejection[v] /\ discovery'[v] = discovery[v]
      BY <1>4, <2>1 DEF UpdateDiscovery, TypeOK
    <2> QED  BY <1>1, <2>10, <2>11, OneUser
  <1> QED  BY <1>2, <1>3, <1>4

-----------------------------------------------------------------------------
(* The invariant.                                                          *)

LEMMA IInvInit == ASSUME Init PROVE IInv
  <1> SUFFICES ASSUME NEW u \in User PROVE UserInv(u)
    BY TypeInit DEF IInv
  <1>1. /\ defined /\ connection[u] = Missing /\ attempt[u] = None /\ refresh[u] = None
        /\ rejection[u] = None /\ discovery[u] = None /\ observation[u] = None
        /\ reserved[u] = 0 /\ sent[u] = {} /\ withdrawn[u] = 0
    BY DEF Init
  <1> QED
    BY <1>1
    DEF UserInv, ConnectionInv, DiscoveryInv, Projected, Authorized, Missing, AttemptInv,
        SentInv, RecoveryInv, UnexpiredAttempt, LiveAttempt, RemainsInv, ObservationInv

LEMMA IInvNext == ASSUME IInv, [Next]_vars PROVE IInv'
  <1>0. TypeOK'  BY TypeNext DEF IInv
  <1>1. CASE UNCHANGED vars
    BY <1>0, <1>1, NoUser DEF vars, connector, counters
  <1>2. CASE Administers
    BY <1>0, <1>2, OfferStep, ReplaceStep, DeleteStep DEF Administers
  <1>3. CASE \E u \in User : Chooses(u) \/ Passes(u)
    BY <1>0, <1>3, SetEnabledStep, DisconnectStep, CancelStep, NoteExpiryStep,
       AttemptExpiresStep, DeadlinePassesStep
    DEF Chooses, Passes
  <1>4. CASE \E f \in Flow, u \in User : Begins(f, u)
    BY <1>0, <1>4, StartStep, ClaimStep, ReserveRefreshStep, ResolveStep DEF Begins
  <1>5. CASE \E f \in Flow : GoesOn(f)
    BY <1>0, <1>5, PublishStep, CompleteStep, FailsStep, ExchangeStep, ReleaseStep,
       CompleteRefreshStep, FailRefreshStep, SaveObservationStep, RejectStep, DiesStep
    DEF GoesOn
  <1> QED  BY <1>1, <1>2, <1>3, <1>4, <1>5 DEF Next

(* The inductive invariant holds in every reachable state. *)
THEOREM Invariance == Spec => []IInv
  <1>1. Init => IInv  BY IInvInit
  <1>2. IInv /\ [Next]_vars => IInv'  BY IInvNext
  <1> QED  BY <1>1, <1>2, PTL DEF Spec

(* A refresh and an authorization of one connection exclude each other, by  *)
(* looking at each other's rows (the two reserves), and nothing of a user   *)
(* is left, or comes back, when the connector is deleted (_delete).         *)
THEOREM PersonalInvariance == Spec => []PersonalInv
  <1>1. IInv => PersonalInv
    <2> SUFFICES ASSUME IInv PROVE PersonalInv
      OBVIOUS
    <2>1. OneRecoveryAtATime
      BY DEF IInv, UserInv, RecoveryInv, OneRecoveryAtATime
    <2>2. NothingIsLeft
      BY DEF IInv, UserInv, RemainsInv, NothingIsLeft
    <2> QED  BY <2>1, <2>2 DEF IInv, PersonalInv
  <1> QED  BY <1>1, Invariance, PTL

-----------------------------------------------------------------------------
(* What a listing shows.                                                   *)

LEMMA ListedWhenUsable ==
    ASSUME IInv, NEW u \in User
    PROVE  /\ Listed(u) <=> Usable(u)
           /\ Listed(u) => /\ discovery[u].revision = connection[u].revision
                           /\ discovery[u].configuration = configuration
  <1>1. UserInv(u) /\ TypeOK  BY DEF IInv
  <1>2. discovery[u] = Projected(connection[u], refresh[u], rejection[u])
    BY <1>1 DEF UserInv, DiscoveryInv
  <1>3. CASE ~Authorized(connection[u]) \/ Rejected(u)
    BY <1>2, <1>3 DEF Projected, Rejected, Listed, Usable
  <1>4. CASE ~(~Authorized(connection[u]) \/ Rejected(u))
    <2> DEFINE made == Matches(refresh[u], connection[u])
    <2>1. discovery[u] # None
      BY <1>1, <1>2, <1>4, RowsOf, ProjectedRow DEF Rejected
    <2>2. defined
      BY <1>1, <1>4 DEF UserInv, RemainsInv, Missing, Authorized
    <2>3. discovery[u] =
             [revision |-> connection[u].revision, configuration |-> configuration,
              refresh |-> IF ~made THEN "available"
                          ELSE IF refresh[u].status = "preparing" THEN "preparing"
                          ELSE "blocked",
              late |-> made /\ refresh[u].status = "preparing" /\ refresh[u].late]
      BY <1>2, <1>4 DEF Projected, Rejected
    <2>4. /\ discovery[u].revision = connection[u].revision
          /\ discovery[u].configuration = configuration
      BY <2>3
    <2>5. /\ ~made => discovery[u].refresh = "available"
          /\ made /\ refresh[u].status = "preparing" =>
                discovery[u].refresh = "preparing"
          /\ made /\ refresh[u].status # "preparing" =>
                discovery[u].refresh = "blocked"
      BY <2>3
    <2>6. discovery[u].late
             = (made /\ refresh[u].status = "preparing" /\ refresh[u].late)
      BY <2>3
    <2>7. Usable(u) <=> ~(made /\ ~(refresh[u].status = "preparing" /\ refresh[u].late))
      BY <1>4, <2>2, Zenon DEF Usable, Recovering
    <2> HIDE DEF made
    <2>8. CASE ~made
      BY <2>1, <2>4, <2>5, <2>7, <2>8 DEF Listed
    <2>9. CASE made /\ refresh[u].status = "preparing"
      <3>1. discovery[u].late <=> refresh[u].late  BY <2>6, <2>9
      <3>2. Listed(u) <=> discovery[u].late
        BY <2>1, <2>5, <2>9 DEF Listed
      <3> QED  BY <2>4, <2>7, <2>9, <3>1, <3>2
    <2>10. CASE made /\ refresh[u].status # "preparing"
      BY <2>1, <2>4, <2>5, <2>7, <2>10 DEF Listed
    <2> QED  BY <2>8, <2>9, <2>10
  <1> QED  BY <1>3, <1>4

(* A listing shows the tools that a call would be let through for, with     *)
(* what was observed under this very authorization                          *)
(* (PersonalToolDiscoveryStore.read and load_personal_runtime_target).      *)
THEOREM ListingIsTrueAlways == Spec => []ListingIsTrue
  <1>1. IInv => ListingIsTrue
    <2> SUFFICES ASSUME IInv PROVE ListingIsTrue
      OBVIOUS
    <2>1. ListedIsUsable  BY ListedWhenUsable DEF ListedIsUsable
    <2>2. ObservationsAreOwn
      BY DEF IInv, UserInv, ObservationInv, ObservationsAreOwn
    <2> QED  BY <2>1, <2>2 DEF ListingIsTrue
  <1> QED  BY <1>1, Invariance, PTL

-----------------------------------------------------------------------------
(* What a step never does.                                                 *)

(* Only Exchange sends a flow from its claim to the provider. *)
LEMMA SendsByExchange ==
    ASSUME TypeOK, Next, NEW f \in Flow,
           flow[f].step = "reserved", flow'[f].step = "refreshing"
    PROVE  Exchange(f)
  <1>1. flow \in [Flow -> Steps] /\ flow'[f] # flow[f]  BY DEF TypeOK
  <1>2. ASSUME NEW g \in Flow, NEW where, Goes(g, where), g # f \/ where.step # "refreshing"
        PROVE  FALSE
    BY <1>1, <1>2 DEF Goes
  <1>3. ~UNCHANGED flow  BY <1>1
  <1>4. ~Administers
    BY <1>3 DEF Administers, Offer, ReplaceConfiguration, DeleteConnector
  <1>5. ~ \E u \in User : Chooses(u) \/ Passes(u)
    BY <1>3 DEF Chooses, Passes, SetEnabled, Disconnect, Cancel, NoteExpiry,
       AttemptExpires, DeadlinePasses
  <1>6. ASSUME NEW g \in Flow, NEW u \in User, Begins(g, u) PROVE FALSE
    BY <1>1, <1>6 DEF Begins, Start, Claim, ReserveRefresh, Resolve, Goes
  <1>7. ASSUME NEW g \in Flow, GoesOn(g) PROVE g = f /\ Exchange(g)
    BY <1>1, <1>7
    DEF GoesOn, Publish, Complete, Fails, Exchange, Release, CompleteRefresh, FailRefresh,
        SaveObservation, Reject, Dies, Goes, Idle
  <1> QED  BY <1>4, <1>5, <1>6, <1>7 DEF Next

(* A refresh token that has gone to the provider goes there again only when *)
(* an answer has left it valid, though answers get lost, deadlines pass and *)
(* processes die: its claim stays in the row until another credential       *)
(* replaces the one it was made for (EncryptedPersonalRefreshStore).        *)
THEOREM TokensAreNotResentCorrect == Spec => TokensAreNotResent
  <1>1. ASSUME IInv, Next, NEW f \in Flow,
               flow[f].step = "reserved", flow'[f].step = "refreshing"
        PROVE  connection[flow[f].user].token \notin sent[flow[f].user]
    <2>1. Exchange(f)  BY <1>1, SendsByExchange DEF IInv
    <2>2. flow[f].user \in User  BY <1>1, Flows DEF IInv
    <2> PICK u \in User : u = flow[f].user  BY <2>2
    <2>3. /\ refresh[u].status = "preparing"
          /\ defined /\ connection[u].credential # 0
      BY <2>1 DEF Exchange, Holds, StillCaptured, Capturable, Authorized
    <2> QED  BY <1>1, <2>3 DEF IInv, UserInv, SentInv
  <1>2. IInv /\ [Next]_vars =>
           [\A f \in Flow : flow[f].step = "reserved" /\ flow'[f].step = "refreshing" =>
               connection[flow[f].user].token \notin sent[flow[f].user]]_vars
    BY <1>1
  <1> QED  BY <1>2, Invariance, PTL DEF Spec, TokensAreNotResent

(* Only Complete completes an attempt. *)
LEMMA CompletesByComplete ==
    ASSUME TypeOK, Next, NEW u \in User, attempt'[u] # None,
           attempt'[u].status = "completed", attempt'[u] # attempt[u]
    PROVE  \E f \in Flow : Complete(f) /\ flow[f].user = u
  <1>0. /\ attempt \in [User -> Attempt \cup {None}]
        /\ attempt' # attempt
    BY DEF TypeOK
  <1>1. ASSUME NEW v \in User, NEW status, status # "completed", attempt[v] # None,
               attempt' = [attempt EXCEPT ![v].status = status]
        PROVE  FALSE
    <2>1. CASE v = u
      <3>1. attempt'[u].status = status
        BY <1>0, <1>1, <2>1, AttemptFields DEF Attempt
      <3> QED  BY <1>1, <3>1
    <2>2. CASE v # u  BY <1>0, <1>1, <2>2
    <2> QED  BY <2>1, <2>2
  <1>2. ASSUME Administers PROVE FALSE
    BY <1>0, <1>2 DEF Administers, Offer, ReplaceConfiguration, DeleteConnector, rows
  <1>3. ASSUME NEW v \in User, Chooses(v) PROVE FALSE
    <2>1. CASE \/ \E b \in BOOLEAN : SetEnabled(v, b)
               \/ Disconnect(v)
      BY <1>0, <2>1 DEF SetEnabled, Disconnect
    <2>2. CASE Cancel(v)
      <3>1. PICK status \in {"expired", "cancelled"} :
               attempt' = [attempt EXCEPT ![v].status = status]
        BY <2>2 DEF Cancel, Becomes
      <3> QED  BY <1>1, <2>2, <3>1 DEF Cancel, LiveAttempt
    <2>3. CASE NoteExpiry(v)
      BY <1>1, <2>3 DEF NoteExpiry, LiveAttempt, Becomes
    <2> QED  BY <1>3, <2>1, <2>2, <2>3 DEF Chooses
  <1>4. ASSUME NEW v \in User, Passes(v) PROVE FALSE
    <2>1. CASE AttemptExpires(v)
      <3>1. attempt[v] # None /\ attempt[v].status \in Live
        BY <2>1 DEF AttemptExpires, LiveAttempt
      <3>2. attempt'[v].status = attempt[v].status
        BY <1>0, <2>1, <3>1, AttemptFields DEF AttemptExpires, Attempt
      <3>3. v # u => attempt'[u] = attempt[u]
        BY <1>0, <2>1 DEF AttemptExpires
      <3> QED  BY <3>1, <3>2, <3>3 DEF Live
    <2>2. CASE DeadlinePasses(v)  BY <1>0, <2>2 DEF DeadlinePasses
    <2> QED  BY <1>4, <2>1, <2>2 DEF Passes
  <1>5. ASSUME NEW f \in Flow, NEW v \in User, Begins(f, v) PROVE FALSE
    <2>1. CASE Start(f, v)  BY <1>0, <2>1 DEF Start
    <2>2. CASE Claim(f, v)
      <3>1. attempt[v] # None
        BY <2>2 DEF Claim, Proceeds, UnexpiredAttempt, LiveAttempt
      <3>2. attempt'[v].status = "exchanging"
        BY <1>0, <2>2, <3>1, AttemptFields DEF Claim, Attempt
      <3>3. v # u => attempt'[u] = attempt[u]
        BY <1>0, <2>2 DEF Claim
      <3> QED  BY <3>2, <3>3
    <2>3. CASE ReserveRefresh(f, v) \/ Resolve(f, v)
      BY <1>0, <2>3 DEF ReserveRefresh, Resolve, rows
    <2> QED  BY <1>5, <2>1, <2>2, <2>3 DEF Begins
  <1>6. ASSUME NEW f \in Flow, GoesOn(f) PROVE Complete(f) /\ flow[f].user = u
    <2>1. CASE Publish(f)
      <3>1. flow[f].user \in User  BY <2>1, Flows DEF Publish
      <3> QED
        BY <1>1, <2>1, <3>1 DEF Publish, Owns, Becomes
    <2>2. CASE Complete(f)
      <3>1. flow[f].user \in User  BY <2>2, Flows DEF Complete
      <3>2. flow[f].user # u => attempt'[u] = attempt[u]
        BY <1>0, <2>2, <3>1 DEF Complete, Becomes
      <3> QED  BY <2>2, <3>2
    <2>3. CASE Fails(f)
      <3>1. flow[f].user \in User  BY <2>3, Flows DEF Fails
      <3>2. \/ attempt' = attempt
            \/ /\ attempt[flow[f].user] # None
               /\ attempt' = [attempt EXCEPT ![flow[f].user].status = "expired"]
            \/ /\ attempt[flow[f].user] # None
               /\ attempt' = [attempt EXCEPT ![flow[f].user].status = "failed"]
        BY <2>3 DEF Fails, Owns
      <3>3. "expired" # "completed" /\ "failed" # "completed"  OBVIOUS
      <3> QED  BY <1>0, <1>1, <3>1, <3>2, <3>3
    <2>4. CASE Exchange(f) \/ Release(f) \/ CompleteRefresh(f)
      BY <1>0, <2>4 DEF Exchange, Release, CompleteRefresh
    <2>5. CASE \E reason \in {"refresh_denied", "refresh_uncertain"} : FailRefresh(f, reason)
      BY <1>0, <2>5 DEF FailRefresh
    <2>6. CASE SaveObservation(f) \/ Reject(f) \/ Dies(f)
      BY <1>0, <2>6 DEF SaveObservation, Reject, Dies, rows
    <2> QED  BY <1>6, <2>1, <2>2, <2>3, <2>4, <2>5, <2>6 DEF GoesOn
  <1> QED  BY <1>2, <1>3, <1>4, <1>5, <1>6 DEF Next

(* Once an authorization has been taken back it installs no token, however  *)
(* late its callback or the provider's answer                               *)
(* (EncryptedPersonalOAuthAttemptStore).                                    *)
THEOREM WithdrawnAttemptsCorrect == Spec => WithdrawnAttemptsInstallNothing
  <1>1. ASSUME IInv, Next, NEW u \in User, attempt'[u] # None,
               attempt'[u].status = "completed", attempt'[u] # attempt[u]
        PROVE  attempt'[u].id > withdrawn[u]
    <2>1. PICK f \in Flow : Complete(f) /\ flow[f].user = u
      BY <1>1, CompletesByComplete DEF IInv
    <2>2. /\ attempt[u] # None /\ LiveAttempt(u)
          /\ attempt[u].revision = connection[u].revision
          /\ attempt' = [attempt EXCEPT ![u].status = "completed"]
      BY <2>1
      DEF Complete, Proceeds, UnexpiredAttempt, LiveAttempt, Eligible, Becomes
    <2>3. attempt'[u].id = attempt[u].id
      BY <1>1, <2>2, AttemptFields DEF IInv, TypeOK, Attempt
    <2>4. attempt[u].id > withdrawn[u]
      BY <1>1, <2>2 DEF IInv, UserInv, AttemptInv
    <2> QED  BY <2>3, <2>4
  <1>2. IInv /\ [Next]_vars =>
           [\A u \in User :
              attempt'[u] # None /\ attempt'[u].status = "completed"
                 /\ attempt'[u] # attempt[u] => attempt'[u].id > withdrawn[u]]_vars
    BY <1>1
  <1> QED  BY <1>2, Invariance, PTL DEF Spec, WithdrawnAttemptsInstallNothing

=============================================================================
