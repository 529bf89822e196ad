------------------------ MODULE PersonalConnections ------------------------
(***************************************************************************)
(* The personal connections of a downstream MCP connector                  *)
(* (core/connectors/downstream_mcp: personal_connections, personal_tools,  *)
(* stores/personal_...).  Each user enables the connector for herself,     *)
(* authorizes it at an OAuth provider, and lets its tokens be refreshed;   *)
(* what the provider lets her see is observed and then listed to her       *)
(* clients.  Rows change in serialized write transactions; the provider is *)
(* called between them, without one, by a flow: one call of a service.     *)
(*                                                                         *)
(* Time is whatever passes: `late' says that the expiry of an attempt or   *)
(* the deadline of a refresh claim is behind the clock that transactions   *)
(* compare it with.  A uuid that orders or compares rows is a counter.     *)
(***************************************************************************)
EXTENDS Integers, FiniteSets

CONSTANTS
    User,
    Flow,              \* calls that may be going on at a time
    None,
    MaxRevision,       \* bound: revisions of a connection
    MaxAttempts,       \* bound: authorizations begun by a user
    MaxConfigurations, \* bound: OAuth configurations of the connector
    MaxInventories     \* bound: observations of a user's tools

Live == {"preparing", "pending", "exchanging"}
Terminal == {"completed", "cancelled", "failed", "expired"}

\* A missing connection has revision 0; an Unauthorized one credential 0 and no
\* refresh token.  A credential may have the refresh token of the one before it.
Connection == [enabled : BOOLEAN, credential : Nat, token : Nat, revision : Nat]
Missing == [enabled |-> FALSE, credential |-> 0, token |-> 0, revision |-> 0]

\* PreparingAttempt, PendingAttempt, ExchangingAttempt, TerminalAttempt.
Attempt == [id : Nat \ {0}, status : Live \cup Terminal, revision : Nat,
            configuration : Nat, claim : Flow \cup {None}, late : BOOLEAN]

\* PersonalRefreshClaim, with what it captures.
RefreshClaim == [claim : Flow,
            status : {"preparing", "exchanging", "refresh_denied", "refresh_uncertain"},
            credential : Nat, revision : Nat, configuration : Nat, late : BOOLEAN]

\* AvailableDiscovery, with its copy of the claim's deadline.
Availability == [revision : Nat, configuration : Nat,
                 refresh : {"available", "preparing", "blocked"}, late : BOOLEAN]

\* PersonalToolObservation.
Observation == [revision : Nat, configuration : Nat, inventory : Nat \ {0}]

ASSUME PersonalAssumption ==
    /\ None \notin Flow \cup Nat
    /\ None \notin Attempt \cup RefreshClaim \cup Availability \cup Observation
    /\ {MaxRevision, MaxAttempts, MaxConfigurations, MaxInventories} \subseteq Nat

\* Where a flow is, waiting for the provider, the server or a transaction.
Idle == [step |-> "idle"]
Steps == [step : {"idle"}]
    \cup [step : {"preparing", "exchanging"}, user : User, id : Nat \ {0}]
    \cup [step : {"reserved", "refreshing"}, user : User]
    \cup [step : {"listing"}, user : User, revision : Nat, configuration : Nat,
          inventory : Nat]

VARIABLES
    defined,        \* is there still a connector with personal authorization?
    offered,        \* is it published and granted to the users' groups?
    configuration,  \* revision of its OAuth configuration
    connection, attempt, refresh, rejection, discovery, observation, \* rows, by user
    flow,
    reserved,       \* number of attempts so far, by user
    inventories,    \* number of observations so far, by user
    sent,           \* history: refresh tokens that may have gone to the provider,
                    \* but for those that it has left valid in an answer
    withdrawn       \* history: the last attempt that the user has taken back

connector == <<defined, offered, configuration>>
rows == <<connection, attempt, refresh, rejection, discovery, observation>>
counters == <<reserved, inventories>>
history == <<sent, withdrawn>>
vars == <<connector, rows, flow, counters, history>>

Init ==
    /\ defined = TRUE /\ offered = TRUE /\ configuration = 1
    /\ connection = [u \in User |-> Missing]
    /\ attempt = [u \in User |-> None]
    /\ refresh = [u \in User |-> None]
    /\ rejection = [u \in User |-> None]
    /\ discovery = [u \in User |-> None]
    /\ observation = [u \in User |-> None]
    /\ flow = [f \in Flow |-> Idle]
    /\ reserved = [u \in User |-> 0]
    /\ inventories = [u \in User |-> 0]
    /\ sent = [u \in User |-> {}]
    /\ withdrawn = [u \in User |-> 0]

---------------------------------------------------------------------------
(* What the rows of a user say.                                            *)

Authorized(conn) == conn.enabled /\ conn.credential # 0
Rejected(u) == rejection[u] = connection[u].credential

\* A claim for the credential that the connection still has.
Matches(claim, conn) == claim # None /\ conn.credential # 0
    /\ claim.credential = conn.credential

\* matching_refresh: a claim that was given up before the exchange is none.
Recovering(u) == Matches(refresh[u], connection[u])
    /\ ~(refresh[u].status = "preparing" /\ refresh[u].late)

LiveAttempt(u) == attempt[u] # None /\ attempt[u].status \in Live
UnexpiredAttempt(u) == LiveAttempt(u) /\ ~attempt[u].late

\* Mutant: it is enough that the connector is enabled again.
EligibleAgain(u, revision, conf) ==
    defined /\ offered /\ configuration = conf /\ connection[u].enabled

\* _eligible, for what was read when the connection had this revision.
Eligible(u, revision, conf) ==
    /\ defined /\ offered /\ configuration = conf
    /\ connection[u].enabled /\ connection[u].revision = revision

\* _capture: may the credential be refreshed at all?
Capturable(u) == defined /\ offered /\ Authorized(connection[u]) /\ ~Rejected(u)

\* _revalidate: is what the claim captured still so?
StillCaptured(u) ==
    /\ ~refresh[u].late /\ Capturable(u)
    /\ refresh[u].revision = connection[u].revision
    /\ refresh[u].credential = connection[u].credential
    /\ refresh[u].configuration = configuration

\* load_personal_runtime_target.
Usable(u) == defined /\ Authorized(connection[u]) /\ ~Recovering(u) /\ ~Rejected(u)
Target(u, revision, conf) == Usable(u) /\ offered
    /\ connection[u].revision = revision /\ configuration = conf

\* _project: what the discovery row has to say of these rows.
Projected(conn, claim, rejected) ==
    IF ~Authorized(conn) \/ rejected = conn.credential THEN None
    ELSE [revision |-> conn.revision, configuration |-> configuration,
          refresh |-> IF ~Matches(claim, conn) THEN "available"
                      ELSE IF claim.status = "preparing" THEN "preparing" ELSE "blocked",
          late |-> Matches(claim, conn) /\ claim.status = "preparing" /\ claim.late]

\* update_personal_discovery: None stands for UnavailableDiscovery, and for no row.
UpdateDiscovery(u, conn, claim, rejected) ==
    discovery' = [discovery EXCEPT ![u] = Projected(conn, claim, rejected)]

---------------------------------------------------------------------------
(* The administrator.                                                      *)

\* Publication and group permissions change elsewhere.
Offer(b) ==
    /\ defined /\ offered # b
    /\ offered' = b
    /\ UNCHANGED <<defined, configuration, rows, flow, counters, history>>

\* The credential goes, the choice to use the connector stays.
Revoked(u) == IF connection[u].revision = 0 THEN connection[u]
    ELSE [connection[u] EXCEPT !.credential = 0, !.token = 0, !.revision = @ + 1]

\* EncryptedPersonalOAuthConfigurationStore.replace: claims and rejections stay.
ReplaceConfiguration ==
    /\ defined /\ configuration < MaxConfigurations
    /\ \A u \in User : connection[u].revision < MaxRevision
    /\ configuration' = configuration + 1
    /\ attempt' = [u \in User |-> None]
    /\ connection' = [u \in User |-> Revoked(u)]
    /\ discovery' = [u \in User |-> None]
    /\ withdrawn' = reserved
    /\ UNCHANGED <<defined, offered, refresh, rejection, observation,
                   flow, counters, sent>>

DeleteConnector ==
    /\ defined
    /\ defined' = FALSE
    /\ connection' = [u \in User |-> Missing]
    /\ attempt' = [u \in User |-> None]
    /\ refresh' = [u \in User |-> None]
    /\ rejection' = [u \in User |-> None]
    /\ discovery' = [u \in User |-> None]
    /\ observation' = [u \in User |-> None]
    /\ UNCHANGED <<offered, configuration, flow, counters, history>>

---------------------------------------------------------------------------
(* The user's own switches.  Whether she may see the connector is asked    *)
(* before the transaction; that it is defined is asked in it.              *)

\* _validate_target.
Bound == defined

SetEnabled(u, b) ==
    /\ Bound /\ connection[u].enabled # b /\ connection[u].revision < MaxRevision
    /\ LET conn == [connection[u] EXCEPT !.enabled = b, !.revision = @ + 1] IN
        /\ connection' = [connection EXCEPT ![u] = conn]
        /\ UpdateDiscovery(u, conn, refresh[u], rejection[u])
    /\ withdrawn' = IF b THEN withdrawn ELSE [withdrawn EXCEPT ![u] = reserved[u]]
    /\ UNCHANGED <<connector, attempt, refresh, rejection, observation, flow,
                   counters, sent>>

Disconnect(u) ==
    /\ Bound /\ connection[u].revision \in 1..MaxRevision - 1
    /\ LET conn == [Revoked(u) EXCEPT !.enabled = FALSE] IN
        /\ connection' = [connection EXCEPT ![u] = conn]
        /\ UpdateDiscovery(u, conn, None, None)
    /\ refresh' = [refresh EXCEPT ![u] = None]
    /\ rejection' = [rejection EXCEPT ![u] = None]
    /\ withdrawn' = [withdrawn EXCEPT ![u] = reserved[u]]
    /\ UNCHANGED <<connector, attempt, observation, flow, counters, sent>>

---------------------------------------------------------------------------
(* Authorizing: reserve, prepare at the provider, publish; the provider    *)
(* calls back: claim, exchange the code, complete.                         *)

Goes(f, where) == flow' = [flow EXCEPT ![f] = where]

\* Mutant: refreshes are not looked at.
ReservesBlindly(u) == ~UnexpiredAttempt(u)

\* Mutant: an expired attempt still stands in the way.
ReservesOnce(u) == ~LiveAttempt(u) /\ ~Recovering(u)

\* What reserve asks of the rows before it replaces the attempt.
Reserves(u) == ~UnexpiredAttempt(u)
    /\ ~(Recovering(u) /\ refresh[u].status \in {"preparing", "exchanging"} /\ ~refresh[u].late)

\* What start() reads before is compared again by _eligible in reserve.
Start(f, u) ==
    /\ flow[f] = Idle /\ reserved[u] < MaxAttempts
    /\ Eligible(u, connection[u].revision, configuration) /\ Reserves(u)
    /\ reserved' = [reserved EXCEPT ![u] = @ + 1]
    /\ attempt' = [attempt EXCEPT ![u] =
            [id |-> reserved[u] + 1, status |-> "preparing",
             revision |-> connection[u].revision, configuration |-> configuration,
             claim |-> None, late |-> FALSE]]
    /\ Goes(f, [step |-> "preparing", user |-> u, id |-> reserved[u] + 1])
    /\ UNCHANGED <<connector, connection, refresh, rejection, discovery, observation,
                   inventories, history>>

Becomes(u, status) == attempt' = [attempt EXCEPT ![u].status = status]

\* The attempt is still the flow's own, in this state, unexpired and eligible.
Proceeds(u, status) ==
    /\ UnexpiredAttempt(u) /\ attempt[u].status = status
    /\ Eligible(u, attempt[u].revision, attempt[u].configuration)
Owns(f) == attempt[flow[f].user] # None /\ attempt[flow[f].user].id = flow[f].id

Publish(f) ==
    /\ flow[f].step = "preparing" /\ Owns(f) /\ Proceeds(flow[f].user, "preparing")
    /\ Becomes(flow[f].user, "pending")
    /\ Goes(f, Idle)
    /\ UNCHANGED <<connector, connection, refresh, rejection, discovery, observation,
                   counters, history>>

\* The callback carries the attempt's state; it may come twice.
Claim(f, u) ==
    /\ flow[f] = Idle /\ Proceeds(u, "pending")
    /\ attempt' = [attempt EXCEPT ![u].status = "exchanging", ![u].claim = f]
    /\ Goes(f, [step |-> "exchanging", user |-> u, id |-> attempt[u].id])
    /\ UNCHANGED <<connector, connection, refresh, rejection, discovery, observation,
                   counters, history>>

\* The token that comes with an authorization of its own.
NewToken(u) == connection[u].revision + 1

\* A new authorization, from wherever: it ends refresh and rejection.
Install(u, token) ==
    LET conn == [connection[u] EXCEPT !.credential = connection[u].revision + 1,
                                      !.token = token, !.revision = @ + 1] IN
    /\ connection[u].revision < MaxRevision
    /\ connection' = [connection EXCEPT ![u] = conn]
    /\ refresh' = [refresh EXCEPT ![u] = None]
    /\ rejection' = [rejection EXCEPT ![u] = None]
    /\ UpdateDiscovery(u, conn, None, None)

Claimed(f) == Owns(f) /\ attempt[flow[f].user].status = "exchanging"
    /\ attempt[flow[f].user].claim = f

Complete(f) ==
    /\ flow[f].step = "exchanging" /\ Claimed(f) /\ Proceeds(flow[f].user, "exchanging")
    /\ Install(flow[f].user, NewToken(flow[f].user))
    /\ Becomes(flow[f].user, "completed")
    /\ Goes(f, Idle)
    /\ UNCHANGED <<connector, observation, counters, history>>

\* A refusal, or a failure of the provider, ends in the shielded
\* abort_preparation or fail, which first notes an expiry.
Fails(f) ==
    LET u == flow[f].user IN
    /\ flow[f].step \in {"preparing", "exchanging"}
    /\ attempt' = IF Owns(f) /\ LiveAttempt(u) /\ attempt[u].late
                    THEN [attempt EXCEPT ![u].status = "expired"]
                  ELSE IF Owns(f) /\ (\/ attempt[u].status = "preparing" /\ flow[f].step = "preparing"
                                      \/ Claimed(f) /\ flow[f].step = "exchanging")
                    THEN [attempt EXCEPT ![u].status = "failed"]
                  ELSE attempt
    /\ Goes(f, Idle)
    /\ UNCHANGED <<connector, connection, refresh, rejection, discovery, observation,
                   counters, history>>

Cancel(u) ==
    /\ LiveAttempt(u)
    /\ Becomes(u, IF attempt[u].late THEN "expired" ELSE "cancelled")
    /\ withdrawn' = [withdrawn EXCEPT ![u] = attempt[u].id]
    /\ UNCHANGED <<connector, connection, refresh, rejection, discovery, observation,
                   flow, counters, sent>>

\* get, and publish, claim or complete when they come too late.
NoteExpiry(u) ==
    /\ LiveAttempt(u) /\ attempt[u].late
    /\ Becomes(u, "expired")
    /\ UNCHANGED <<connector, connection, refresh, rejection, discovery, observation,
                   flow, counters, history>>

---------------------------------------------------------------------------
(* Refreshing: reserve, exchange, ask the provider, complete or fail.      *)

\* Mutant: a claim past its deadline may be replaced, whatever became of it.
RetakesClaim(u) == Matches(refresh[u], connection[u]) => refresh[u].late

\* May a claim be made in spite of the one there is?
Replaceable(u) == ~Recovering(u)

ReserveRefresh(f, u) ==
    /\ flow[f] = Idle
    /\ Capturable(u) /\ Replaceable(u) /\ ~UnexpiredAttempt(u)
    /\ LET claim == [claim |-> f, status |-> "preparing",
                     credential |-> connection[u].credential,
                     revision |-> connection[u].revision,
                     configuration |-> configuration, late |-> FALSE] IN
        /\ refresh' = [refresh EXCEPT ![u] = claim]
        /\ UpdateDiscovery(u, connection[u], claim, rejection[u])
    /\ Goes(f, [step |-> "reserved", user |-> u])
    /\ UNCHANGED <<connector, connection, attempt, rejection, observation, counters,
                   history>>

Holds(f, status) == refresh[flow[f].user] # None
    /\ refresh[flow[f].user].claim = f /\ refresh[flow[f].user].status = status

\* Mutant: the claim is saved or cleared without the projection.
SettleQuietly(u, claim) ==
    refresh' = [refresh EXCEPT ![u] = claim] /\ UNCHANGED discovery

Settle(u, claim) ==
    /\ refresh' = [refresh EXCEPT ![u] = claim]
    /\ UpdateDiscovery(u, connection[u], claim, rejection[u])

\* From here on the refresh token may be on its way to the provider.
Exchange(f) ==
    LET u == flow[f].user IN
    /\ flow[f].step = "reserved" /\ Holds(f, "preparing") /\ StillCaptured(u)
    /\ Settle(u, [refresh[u] EXCEPT !.status = "exchanging"])
    /\ sent' = [sent EXCEPT ![u] = @ \cup {connection[u].token}]
    /\ Goes(f, [step |-> "refreshing", user |-> u])
    /\ UNCHANGED <<connector, connection, attempt, rejection, observation, counters,
                   withdrawn>>

Release(f) ==
    LET u == flow[f].user IN
    /\ flow[f].step = "reserved"
    /\ IF Holds(f, "preparing") THEN Settle(u, None) ELSE UNCHANGED <<refresh, discovery>>
    /\ Goes(f, Idle)
    /\ UNCHANGED <<connector, connection, attempt, rejection, observation, counters,
                   history>>

\* An answer without a refresh token leaves the old one valid.
CompleteRefresh(f) ==
    LET u == flow[f].user IN
    /\ flow[f].step = "refreshing" /\ Holds(f, "exchanging") /\ StillCaptured(u)
    /\ \E token \in {NewToken(u), connection[u].token} :
         /\ Install(u, token)
         /\ sent' = [sent EXCEPT ![u] = @ \ {token}]
    /\ Goes(f, Idle)
    /\ UNCHANGED <<connector, attempt, observation, counters, withdrawn>>

\* fail, and complete when it refuses the new grant: the old token is spent.
FailRefresh(f, reason) ==
    LET u == flow[f].user IN
    /\ flow[f].step = "refreshing"
    /\ IF Holds(f, "exchanging") /\ Matches(refresh[u], connection[u])
        THEN Settle(u, [refresh[u] EXCEPT !.status = reason])
        ELSE UNCHANGED <<refresh, discovery>>
    /\ Goes(f, Idle)
    /\ UNCHANGED <<connector, connection, attempt, rejection, observation, counters,
                   history>>

---------------------------------------------------------------------------
(* Using: a call or a discovery resolves its target, talks to the server,  *)
(* and then saves what it has listed or reports a rejected token.          *)

Inventory(u) == IF observation[u] = None THEN 0 ELSE observation[u].inventory

Resolve(f, u) ==
    /\ flow[f] = Idle /\ Usable(u) /\ offered
    /\ Goes(f, [step |-> "listing", user |-> u, revision |-> connection[u].revision,
                configuration |-> configuration, inventory |-> Inventory(u)])
    /\ UNCHANGED <<connector, rows, counters, history>>

\* The target, and the inventory it would replace, are still those it began with.
Fits(f) ==
    /\ Target(flow[f].user, flow[f].revision, flow[f].configuration)
    /\ Inventory(flow[f].user) = flow[f].inventory

SaveObservation(f) ==
    LET u == flow[f].user IN
    /\ flow[f].step = "listing" /\ inventories[u] < MaxInventories
    /\ Fits(f)
    /\ observation' = [observation EXCEPT ![u] = [revision |-> flow[f].revision,
            configuration |-> flow[f].configuration, inventory |-> inventories[u] + 1]]
    /\ inventories' = [inventories EXCEPT ![u] = @ + 1]
    /\ Goes(f, Idle)
    /\ UNCHANGED <<connector, connection, attempt, refresh, rejection, discovery,
                   reserved, history>>

\* record_rejection: only of the credential that was used.
Reject(f) ==
    LET u == flow[f].user IN
    /\ flow[f].step = "listing"
    /\ IF defined /\ connection[u].credential # 0 /\ ~Rejected(u)
            /\ connection[u].revision = flow[f].revision
        THEN /\ rejection' = [rejection EXCEPT ![u] = connection[u].credential]
             /\ UpdateDiscovery(u, connection[u], refresh[u], connection[u].credential)
        ELSE UNCHANGED <<rejection, discovery>>
    /\ Goes(f, Idle)
    /\ UNCHANGED <<connector, connection, attempt, refresh, observation, counters,
                   history>>

\* The process dies, a cleanup runs into its timeout, or a read just ends.
Dies(f) ==
    /\ flow[f] # Idle
    /\ Goes(f, Idle)
    /\ UNCHANGED <<connector, rows, counters, history>>

---------------------------------------------------------------------------
(* Time.                                                                   *)

AttemptExpires(u) ==
    /\ LiveAttempt(u) /\ ~attempt[u].late
    /\ attempt' = [attempt EXCEPT ![u].late = TRUE]
    /\ UNCHANGED <<connector, connection, refresh, rejection, discovery, observation,
                   flow, counters, history>>

\* The discovery row holds the same deadline.
DeadlinePasses(u) ==
    /\ refresh[u] # None /\ ~refresh[u].late
    /\ refresh' = [refresh EXCEPT ![u].late = TRUE]
    /\ discovery' = IF discovery[u] # None /\ discovery[u].refresh = "preparing"
                    THEN [discovery EXCEPT ![u].late = TRUE] ELSE discovery
    /\ UNCHANGED <<connector, connection, attempt, rejection, observation, flow,
                   counters, history>>

Administers ==
    \/ \E b \in BOOLEAN : Offer(b)
    \/ ReplaceConfiguration
    \/ DeleteConnector

Chooses(u) ==
    \/ \E b \in BOOLEAN : SetEnabled(u, b)
    \/ Disconnect(u)
    \/ Cancel(u)
    \/ NoteExpiry(u)

Begins(f, u) ==
    \/ Start(f, u)
    \/ Claim(f, u)
    \/ ReserveRefresh(f, u)
    \/ Resolve(f, u)

GoesOn(f) ==
    \/ Publish(f) \/ Complete(f) \/ Fails(f)
    \/ Exchange(f) \/ Release(f) \/ CompleteRefresh(f)
    \/ \E reason \in {"refresh_denied", "refresh_uncertain"} : FailRefresh(f, reason)
    \/ SaveObservation(f) \/ Reject(f)
    \/ Dies(f)

Passes(u) == AttemptExpires(u) \/ DeadlinePasses(u)

Next ==
    \/ Administers
    \/ \E u \in User : Chooses(u) \/ Passes(u)
    \/ \E f \in Flow, u \in User : Begins(f, u)
    \/ \E f \in Flow : GoesOn(f)

Spec == Init /\ [][Next]_vars

\* Clocks go on; nobody has to do anything.
FairSpec == Spec /\ \A u \in User : WF_vars(Passes(u))

---------------------------------------------------------------------------
(* Properties.                                                             *)

TypeOK ==
    /\ defined \in BOOLEAN /\ offered \in BOOLEAN /\ configuration \in Nat
    /\ connection \in [User -> Connection]
    /\ attempt \in [User -> Attempt \cup {None}]
    /\ refresh \in [User -> RefreshClaim \cup {None}]
    /\ rejection \in [User -> Nat \cup {None}]
    /\ discovery \in [User -> Availability \cup {None}]
    /\ observation \in [User -> Observation \cup {None}]
    /\ flow \in [Flow -> Steps]
    /\ reserved \in [User -> Nat] /\ inventories \in [User -> Nat]
    /\ sent \in [User -> SUBSET Nat] /\ withdrawn \in [User -> Nat]

\* A refresh token that has gone to the provider goes there again only when an
\* answer has come and left it valid, though answers get lost, deadlines pass and
\* processes die: most providers revoke the whole grant when a token that they
\* have replaced turns up again (EncryptedPersonalRefreshStore).
TokensAreNotResent == [][\A f \in Flow :
    flow[f].step = "reserved" /\ flow'[f].step = "refreshing" =>
        connection[flow[f].user].token \notin sent[flow[f].user]]_vars

\* Once a user has cancelled an authorization, disabled or disconnected the
\* connector, or the administrator has replaced its configuration, no earlier
\* authorization installs a token, however late its callback or the answer of
\* the provider (EncryptedPersonalOAuthAttemptStore).
WithdrawnAttemptsInstallNothing == [][\A u \in User :
    attempt'[u] # None /\ attempt'[u].status = "completed" /\ attempt'[u] # attempt[u]
        => attempt'[u].id > withdrawn[u]]_vars

\* A refresh and a new authorization of one connection exclude each other,
\* each by looking at the other's rows (the two reserves).
OneRecoveryAtATime == \A u \in User :
    ~(/\ UnexpiredAttempt(u) /\ Recovering(u) /\ ~refresh[u].late
      /\ refresh[u].status \in {"preparing", "exchanging"})

\* The discovery row is kept so that listing needs no credentials: the tools
\* it shows are those that a call would be let through for, at any moment
\* (PersonalToolDiscoveryStore.read and load_personal_runtime_target).
Listed(u) == discovery[u] # None /\
    \/ discovery[u].refresh = "available"
    \/ discovery[u].refresh = "preparing" /\ discovery[u].late
ListedIsUsable == \A u \in User :
    /\ Listed(u) <=> Usable(u)
    /\ Listed(u) => /\ discovery[u].revision = connection[u].revision
                    /\ discovery[u].configuration = configuration

\* What was observed under one authorization is not shown under another: an
\* observation carries the revision of a connection that had been authorized,
\* and as long as that is current, so is its configuration.
ObservationsAreOwn == \A u \in User : observation[u] # None =>
    /\ observation[u].revision =< connection[u].revision
    /\ observation[u].revision = connection[u].revision =>
        connection[u].credential # 0 /\ observation[u].configuration = configuration

\* Nothing of a user stays behind, or comes back, when the connector is
\* deleted (_delete of the aggregate, and all that was going on then).
NothingIsLeft == ~defined => \A u \in User :
    /\ connection[u] = Missing
    /\ {attempt[u], refresh[u], rejection[u], discovery[u], observation[u]} = {None}

\* What the rows of one user say of each other, and of the connector.
PersonalInv == TypeOK /\ OneRecoveryAtATime /\ NothingIsLeft

\* What a listing shows is true: it can be called, and was seen under this
\* very authorization.
ListingIsTrue == ListedIsUsable /\ ObservationsAreOwn

\* A flow that died in the middle does not keep a user from authorizing again:
\* whatever stands in the way of a new attempt goes away by itself.
NoLockout == \A u \in User : []<>(Reserves(u))
=============================================================================
