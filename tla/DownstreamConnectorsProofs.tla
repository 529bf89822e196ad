--------------------- MODULE DownstreamConnectorsProofs ---------------------
(***************************************************************************)
(* Proofs about DownstreamConnectors for any number of connectors, workers *)
(* and requests in flight, servers, tools and names: its types first, then *)
(* its safety.  For that every step is put into one of a few kinds by what *)
(* it does to the rows of one connector, and each invariant is kept by     *)
(* each kind.                                                              *)
(***************************************************************************)
EXTENDS DownstreamConnectors, TLAPS

(* A row that is there is not Missing. *)
LEMMA Present ==
    /\ \A d \in Definition : d # Missing
    /\ \A t \in Credential : t # Missing
    /\ \A k \in Catalog : k # Missing
    /\ \A m \in Admission : m # Missing
    /\ \A q \in InFlight : q # Missing
BY ConnectorsAssumption

(* The credentials of one kind are credentials. *)
LEMMA CredentialsOfAKind ==
    /\ \A f \in Configuration : Auth[f] \in AuthKind /\ Token[Auth[f]] \subseteq Credential
    /\ Token["none"] \subseteq Credential
    /\ Token["static"] \subseteq Credential
    /\ Token["oauth"] \subseteq Credential
BY ConnectorsAssumption DEF Credential, AuthKind

(* What a request in flight holds, by what it does next. *)
LEMMA RequestTypes ==
    ASSUME TypeOK, NEW r \in Request
    PROVE  /\ Doing(r, "prefix") \/ Doing(r, "resolve") => request[r] \in EditRequest
           /\ Doing(r, "probe") => request[r] \in ProbeRequest
           /\ Doing(r, "discover") => request[r] \in DiscoverRequest
           /\ Doing(r, "check") \/ Doing(r, "toggle") => request[r] \in ToggleRequest
           /\ Doing(r, "delete") \/ Doing(r, "grant") => request[r] \in PlainRequest
<1>1. request[r] \in Optional(InFlight)
  BY DEF TypeOK
<1>2. \A q \in EditRequest : q.op \in {"prefix", "resolve"}
  BY DEF EditRequest
<1>3. \A q \in ProbeRequest : q.op = "probe"
  BY DEF ProbeRequest
<1>4. \A q \in DiscoverRequest : q.op = "discover"
  BY DEF DiscoverRequest
<1>5. \A q \in ToggleRequest : q.op \in {"check", "toggle"}
  BY DEF ToggleRequest
<1>6. \A q \in PlainRequest : q.op \in {"delete", "grant"}
  BY DEF PlainRequest
<1>7. QED
  BY <1>1, <1>2, <1>3, <1>4, <1>5, <1>6 DEF Doing, Optional, InFlight

(* An admission is what the rows of an admissible connector say. *)
LEMMA AdmissionTypes ==
    ASSUME TypeOK, NEW c \in Connector, Admissible(c)
    PROVE  AdmissionOf(c) \in Admission
BY DEF TypeOK, Admissible, AdmissionOf, Admission, Optional

(* A catalogue found by a probe of an admission. *)
LEMMA FoundTypes ==
    ASSUME NEW adm \in Admission, NEW tools \in SUBSET Tool
    PROVE  Found(adm, tools) \in Catalog
BY DEF Admission, Found, Catalog, Definition

LEMMA InitType == Init => TypeOK
BY DEF Init, TypeOK, Optional

-----------------------------------------------------------------------------
(* Type correctness, by the kind of step.                                  *)

LEMMA BeginType ==
    ASSUME TypeOK, NEW r \in Request, NEW c \in Connector, Begin(r, c)
    PROVE  TypeOK'
<1>1. ASSUME NEW q \in InFlight, request' = [request EXCEPT ![r] = q],
             UNCHANGED <<rows, generation, granted, events, discovery>>
      PROVE  TypeOK'
  BY <1>1 DEF TypeOK, rows, discovery, Optional
<1>2. CASE PatchBegin(r, c)
  <2>1. PICK p \in Prefix, op \in {"prefix", "resolve"} :
          Begins(r, "patch", EditOf(op, c, [definition[c] EXCEPT !.prefix = p], Missing, FALSE))
    BY <1>2 DEF PatchBegin
  <2>2. definition[c] \in Definition
    BY <1>2 DEF PatchBegin, TypeOK, Optional
  <2>3. [definition[c] EXCEPT !.prefix = p] \in Definition
    BY <2>2 DEF Definition
  <2>4. EditOf(op, c, [definition[c] EXCEPT !.prefix = p], Missing, FALSE) \in EditRequest
    BY <2>3 DEF EditOf, EditRequest, Optional
  <2>5. QED
    BY <1>1, <1>2, <2>1, <2>4 DEF PatchBegin, Begins, InFlight
<1>3. CASE PutBegin(r, c)
  <2>1. PICK f \in Configuration : \E token \in Optional(IF Auth[f] = "static" THEN Token["static"] ELSE {}) :
          Begins(r, "put", EditOf("resolve", c, [definition[c] EXCEPT !.conf = f],
                                  token, f # definition[c].conf \/ token # Missing))
    BY <1>3 DEF PutBegin
  <2>2. PICK token \in Optional(Credential) :
          Begins(r, "put", EditOf("resolve", c, [definition[c] EXCEPT !.conf = f],
                                  token, f # definition[c].conf \/ token # Missing))
    BY <2>1, CredentialsOfAKind DEF Optional
  <2>3. definition[c] \in Definition
    BY <1>3 DEF PutBegin, TypeOK, Optional
  <2>4. [definition[c] EXCEPT !.conf = f] \in Definition
    BY <2>3 DEF Definition
  <2>5. EditOf("resolve", c, [definition[c] EXCEPT !.conf = f],
               token, f # definition[c].conf \/ token # Missing) \in EditRequest
    BY <2>4 DEF EditOf, EditRequest
  <2>6. QED
    BY <1>1, <1>3, <2>2, <2>5 DEF PutBegin, Begins, InFlight
<1>4. CASE ReauthorizeBegin(r, c)
  <2>1. PICK token \in Credential :
          Begins(r, "reauthorize", EditOf("probe", c, definition[c], token, FALSE))
    BY <1>4, CredentialsOfAKind DEF ReauthorizeBegin
  <2>2. definition[c] \in Definition
    BY <1>4 DEF ReauthorizeBegin, TypeOK, Optional
  <2>3. EditOf("probe", c, definition[c], token, FALSE) \in ProbeRequest
    BY <2>2 DEF EditOf, ProbeRequest
  <2>4. QED
    BY <1>1, <1>4, <2>1, <2>3 DEF ReauthorizeBegin, Begins, InFlight
<1>5. CASE DiscoverBegin(r, c)
  <2>1. AdmissionOf(c) \in Admission
    BY <1>5, AdmissionTypes DEF DiscoverBegin
  <2>2. [op |-> "discover", connector |-> c, admission |-> AdmissionOf(c)] \in DiscoverRequest
    BY <2>1 DEF DiscoverRequest
  <2>3. QED
    BY <1>1, <1>5, <2>2 DEF DiscoverBegin, Begins, InFlight
<1>6. CASE ToggleBegin(r, c)
  <2>1. PICK t \in ToolsOf(catalog, c), enable \in BOOLEAN :
          Begins(r, "toggle", [op |-> "check", connector |-> c, tool |-> t,
                               enable |-> enable, announce |-> FALSE])
    BY <1>6 DEF ToggleBegin
  <2>2. t \in Tool
    BY <2>1 DEF ToolsOf, TypeOK, Optional, Catalog
  <2>3. [op |-> "check", connector |-> c, tool |-> t, enable |-> enable,
         announce |-> FALSE] \in ToggleRequest
    BY <2>2 DEF ToggleRequest
  <2>4. QED
    BY <1>1, <1>6, <2>1, <2>3 DEF ToggleBegin, Begins, InFlight
<1>7. CASE DeleteBegin(r, c)
  <2>1. [op |-> "delete", connector |-> c] \in PlainRequest
    BY DEF PlainRequest
  <2>2. QED
    BY <1>1, <1>7, <2>1 DEF DeleteBegin, Begins, InFlight
<1>8. CASE GrantBegin(r, c)
  <2>1. [op |-> "grant", connector |-> c] \in PlainRequest
    BY DEF PlainRequest
  <2>2. QED
    BY <1>1, <1>8, <2>1 DEF GrantBegin, Begins, InFlight
<1>9. QED
  BY <1>2, <1>3, <1>4, <1>5, <1>6, <1>7, <1>8 DEF Begin

LEMMA InstallType ==
    ASSUME TypeOK, NEW c \in Connector, NEW def \in Definition, NEW token \in Credential,
           NEW tools \in SUBSET Tool, Install(c, def, token, tools)
    PROVE  /\ definition' \in [Connector -> Optional(Definition)]
           /\ credential' \in [Connector -> Optional(Credential)]
           /\ catalog' \in [Connector -> Optional(Catalog)]
           /\ health' \in [Connector -> {"none", "healthy", "unhealthy"}]
<1>1. [tools |-> tools, server |-> def.conf] \in Catalog
  BY DEF Catalog, Definition
<1>2. QED
  BY <1>1 DEF TypeOK, Install, Optional

LEMMA ApplyType ==
    ASSUME TypeOK, NEW c \in Connector, NEW adm, NEW cat \in Optional(Catalog),
           NEW h \in {"none", "healthy", "unhealthy"}, ApplyDiscovery(c, adm, cat, h)
    PROVE  /\ definition' \in [Connector -> Optional(Definition)]
           /\ credential' \in [Connector -> Optional(Credential)]
           /\ catalog' \in [Connector -> Optional(Catalog)]
           /\ health' \in [Connector -> {"none", "healthy", "unhealthy"}]
           /\ published' \subseteq Connector
           /\ generation' \in [Connector -> Nat]
           /\ granted' \subseteq Connector
           /\ events' \in Nat
<1>1. generation[c] + 1 \in Nat
  BY DEF TypeOK
<1>2. QED
  BY <1>1 DEF TypeOK, ApplyDiscovery, Advance, Announce

LEMMA ContinueType ==
    ASSUME TypeOK, NEW r \in Request, Continue(r)
    PROVE  TypeOK'
<1>1. ASSUME Ends(r)
      PROVE  request' \in [Request -> Optional(InFlight)]
  BY <1>1 DEF Ends, TypeOK, Optional
<1>2. ASSUME NEW q \in InFlight, Continues(r, q)
      PROVE  request' \in [Request -> Optional(InFlight)]
  BY <1>2 DEF Continues, TypeOK, Optional
<1>3. CASE EditResolve(r)
  <2> DEFINE q == request[r]
  <2>1. q \in EditRequest
    BY <1>3, RequestTypes DEF EditResolve
  <2>2. PICK token \in Credential :
          Continues(r, [q EXCEPT !.op = "probe", !.token = token])
    BY <1>3, <2>1, CredentialsOfAKind, Present DEF EditResolve, EditRequest, Optional, Definition
  <2>3. [q EXCEPT !.op = "probe", !.token = token] \in ProbeRequest
    BY <2>1 DEF EditRequest, ProbeRequest
  <2>4. request' \in [Request -> Optional(InFlight)]
    BY <1>2, <2>2, <2>3 DEF InFlight
  <2>5. QED
    BY <1>3, <2>4 DEF EditResolve, TypeOK, rows, discovery
<1>4. CASE EditWritePrefix(r)
  <2>1. request[r] \in EditRequest
    BY <1>4, RequestTypes DEF EditWritePrefix
  <2>2. request[r].connector \in Connector /\ request[r].wanted \in Definition
    BY <2>1 DEF EditRequest
  <2>3. definition' \in [Connector -> Optional(Definition)] /\ generation' \in [Connector -> Nat]
    BY <1>4, <2>2 DEF EditWritePrefix, TypeOK, Optional, Advance
  <2>4. events' \in Nat
    BY <1>4 DEF EditWritePrefix, Announce, TypeOK
  <2>5. QED
    BY <1>1, <1>4, <2>3, <2>4 DEF EditWritePrefix, TypeOK, discovery
<1>5. CASE EditWrite(r)
  <2> DEFINE q == request[r]
  <2>1. q \in ProbeRequest
    BY <1>5, RequestTypes DEF EditWrite
  <2>2. q.connector \in Connector /\ q.wanted \in Definition /\ q.token \in Credential
    BY <2>1 DEF ProbeRequest
  <2>3. PICK tools \in SUBSET Tool, token \in Credential :
          /\ Install(q.connector, q.wanted, token, tools)
          /\ IF q.changed THEN Keep(q.connector, tools) ELSE UNCHANGED active
    BY <1>5, <2>2, CredentialsOfAKind DEF EditWrite
  <2>4. active' \in [Connector -> SUBSET Tool]
    BY <2>3 DEF Keep, TypeOK
  <2>5. generation' \in [Connector -> Nat] /\ events' \in Nat /\ published' \subseteq Connector
    <3>1. Advance(q.connector, 2) /\ Announce
      BY <1>5 DEF EditWrite
    <3>2. generation' \in [Connector -> Nat] /\ events' \in Nat
      BY <2>2, <3>1 DEF Advance, Announce, TypeOK
    <3>3. published' \in {published, published \ {q.connector}}
      BY <1>5 DEF EditWrite
    <3>4. QED
      BY <3>2, <3>3 DEF TypeOK
  <2>6. QED
    BY <1>1, <1>5, <2>2, <2>3, <2>4, <2>5, InstallType DEF EditWrite, TypeOK, discovery
<1>6. CASE DiscoverSucceeds(r)
  <2> DEFINE q == request[r]
  <2>1. q \in DiscoverRequest
    BY <1>6, RequestTypes DEF DiscoverSucceeds
  <2>2. q.connector \in Connector /\ q.admission \in Admission
    BY <2>1 DEF DiscoverRequest
  <2>3. PICK tools \in SUBSET Tool :
          /\ ApplyDiscovery(q.connector, q.admission, Found(q.admission, tools), "healthy")
          /\ Keep(q.connector, tools)
    BY <1>6 DEF DiscoverSucceeds
  <2>4. Found(q.admission, tools) \in Optional(Catalog)
    BY <2>2, FoundTypes DEF Optional
  <2>5. active' \in [Connector -> SUBSET Tool]
    BY <2>3 DEF Keep, TypeOK
  <2>6. QED
    BY <1>1, <1>6, <2>2, <2>3, <2>4, <2>5, ApplyType DEF DiscoverSucceeds, TypeOK, discovery
<1>7. CASE DiscoverFails(r)
  <2>1. request[r].connector \in Connector
    BY <1>7, RequestTypes DEF DiscoverFails, DiscoverRequest
  <2>2. Missing \in Optional(Catalog)
    BY DEF Optional
  <2>3. /\ ApplyDiscovery(request[r].connector, request[r].admission, Missing, "unhealthy")
        /\ Ends(r) /\ UNCHANGED <<active, discovery>>
    BY <1>7 DEF DiscoverFails
  <2>4. QED
    BY <1>1, <2>1, <2>2, <2>3, ApplyType DEF TypeOK, discovery
<1>8. CASE ToggleCheck(r)
  <2>1. request[r] \in ToggleRequest
    BY <1>8, RequestTypes DEF ToggleCheck
  <2>2. \A b \in BOOLEAN :
          [request[r] EXCEPT !.op = "toggle", !.announce = b] \in ToggleRequest
    BY <2>1 DEF ToggleRequest
  <2>3. PICK b \in BOOLEAN :
          Continues(r, [request[r] EXCEPT !.op = "toggle", !.announce = b])
    <3>1. (request[r].connector \in published) \in BOOLEAN
      OBVIOUS
    <3>2. Continues(r, [request[r] EXCEPT !.op = "toggle",
                                          !.announce = request[r].connector \in published])
      BY <1>8, Zenon DEF ToggleCheck
    <3>3. QED
      BY <3>1, <3>2, Zenon
  <2>4. request' \in [Request -> Optional(InFlight)]
    BY <1>2, <2>2, <2>3 DEF InFlight
  <2>5. QED
    BY <1>8, <2>4 DEF ToggleCheck, TypeOK, rows, discovery
<1>9. CASE ToggleWrite(r)
  <2>1. request[r].connector \in Connector /\ request[r].tool \in Tool
    BY <1>9, RequestTypes DEF ToggleWrite, ToggleRequest
  <2>2. active' \in [Connector -> SUBSET Tool] /\ events' \in Nat
    BY <1>9, <2>1 DEF ToggleWrite, TypeOK, Announce
  <2>3. QED
    BY <1>1, <1>9, <2>2 DEF ToggleWrite, TypeOK, discovery
<1>10. CASE DeleteWrite(r)
  <2>1. request[r].connector \in Connector
    BY <1>10, RequestTypes DEF DeleteWrite, PlainRequest
  <2>2. /\ generation' \in [Connector -> Nat] /\ events' \in Nat
        /\ active' \in [Connector -> SUBSET Tool]
    BY <1>10, <2>1 DEF DeleteWrite, TypeOK, Announce, Advance, Keep
  <2>3. QED
    BY <1>1, <1>10, <2>1, <2>2 DEF DeleteWrite, TypeOK, Optional, discovery
<1>11. CASE GrantWrite(r)
  <2>1. request[r].connector \in Connector
    BY <1>11, RequestTypes DEF GrantWrite, PlainRequest
  <2>2. QED
    BY <1>1, <1>11, <2>1 DEF GrantWrite, TypeOK, Announce, rows, discovery
<1>12. CASE RequestFails(r)
  BY <1>1, <1>12 DEF RequestFails, TypeOK, rows, discovery
<1>13. QED
  BY <1>3, <1>4, <1>5, <1>6, <1>7, <1>8, <1>9, <1>10, <1>11, <1>12 DEF Continue

LEMMA AtOnceType ==
    ASSUME TypeOK, NEW c \in Connector, AtOnce(c)
    PROVE  TypeOK'
<1>1. CASE Create(c)
  <2>1. PICK def \in Definition, tools \in SUBSET Tool, token \in Credential :
          Install(c, def, token, tools) /\ Keep(c, tools)
    BY <1>1, CredentialsOfAKind DEF Create, Definition
  <2>2. /\ generation' \in [Connector -> Nat] /\ events' \in Nat
        /\ active' \in [Connector -> SUBSET Tool]
    BY <1>1, <2>1 DEF Create, TypeOK, Announce, Advance, Keep
  <2>3. QED
    BY <1>1, <2>1, <2>2, InstallType DEF Create, TypeOK, discovery
<1>2. CASE Publish(c)
  BY <1>2 DEF Publish, TypeOK, Announce, discovery
<1>3. CASE Unpublish(c)
  BY <1>3 DEF Unpublish, TypeOK, Announce, discovery
<1>4. CASE Revoke(c)
  BY <1>4 DEF Revoke, TypeOK, Announce, rows, discovery
<1>5. CASE Rotate(c)
  <2>1. credential' \in [Connector -> Optional(Credential)] /\ generation' \in [Connector -> Nat]
    BY <1>5, CredentialsOfAKind DEF Rotate, TypeOK, Optional, Advance
  <2>2. QED
    BY <1>5, <2>1 DEF Rotate, TypeOK, discovery
<1>6. QED
  BY <1>1, <1>2, <1>3, <1>4, <1>5 DEF AtOnce

LEMMA RefreshType ==
    ASSUME TypeOK, NEW w \in Worker, NEW c \in Connector, Refresh(w, c)
    PROVE  TypeOK'
<1> DEFINE StageType ==
      /\ stage' \in [Worker -> [Connector -> {"idle", "listed", "read", "probing"}]]
      /\ admission' \in [Worker -> [Connector -> Optional(Admission)]]
      /\ \A v \in Worker, d \in Connector :
            stage'[v][d] = "probing" <=> admission'[v][d] # Missing
<1>1. ASSUME Moves(w, c, "idle"), admission' = [admission EXCEPT ![w][c] = Missing]
      PROVE  StageType
  BY <1>1 DEF Moves, TypeOK, Optional
<1>2. CASE Execute(w, c)
  <2>1. StageType
    BY <1>2 DEF Execute, Moves, TypeOK
  <2>2. QED
    BY <1>2, <2>1 DEF Execute, TypeOK, rows
<1>3. CASE Admit(w, c)
  <2>1. AdmissionOf(c) \in Admission /\ AdmissionOf(c) # Missing
    BY <1>3, AdmissionTypes, Present DEF Admit
  <2>2. StageType
    BY <1>3, <2>1 DEF Admit, Moves, TypeOK, Optional
  <2>3. QED
    BY <1>3, <2>2 DEF Admit, TypeOK, rows
<1>4. CASE AdmitUnavailable(w, c)
  <2>1. StageType
    BY <1>1, <1>4 DEF AdmitUnavailable, Stops
  <2>2. QED
    BY <1>4, <2>1 DEF AdmitUnavailable, Stops, TypeOK, rows
<1>5. CASE RefreshSucceeds(w, c)
  <2>1. PICK tools \in SUBSET Tool :
          /\ ApplyDiscovery(c, admission[w][c], Found(admission[w][c], tools), "healthy")
          /\ Keep(c, tools)
    BY <1>5 DEF RefreshSucceeds
  <2>2. admission[w][c] \in Admission
    BY <1>5 DEF RefreshSucceeds, TypeOK, Optional
  <2>3. Found(admission[w][c], tools) \in Optional(Catalog)
    BY <2>2, FoundTypes DEF Optional
  <2>4. active' \in [Connector -> SUBSET Tool]
    BY <2>1 DEF Keep, TypeOK
  <2>5. StageType
    BY <1>1, <1>5 DEF RefreshSucceeds, RefreshOver
  <2>6. QED
    BY <1>5, <2>1, <2>3, <2>4, <2>5, ApplyType DEF RefreshSucceeds, RefreshOver, TypeOK
<1>6. CASE RefreshFails(w, c)
  <2>1. catalog[c] \in Optional(Catalog)
    BY DEF TypeOK
  <2>2. StageType
    BY <1>1, <1>6 DEF RefreshFails, RefreshOver
  <2>3. QED
    BY <1>6, <2>1, <2>2, ApplyType DEF RefreshFails, RefreshOver, TypeOK
<1>7. CASE RefreshObsolete(w, c)
  <2>1. StageType
    BY <1>1, <1>7 DEF RefreshObsolete, RefreshOver
  <2>2. QED
    BY <1>7, <2>1 DEF RefreshObsolete, RefreshOver, TypeOK, rows
<1>8. CASE RefreshConflicts(w, c)
  <2>1. StageType
    BY <1>1, <1>8 DEF RefreshConflicts, Stops
  <2>2. QED
    BY <1>8, <2>1 DEF RefreshConflicts, Stops, TypeOK, rows
<1>9. QED
  BY <1>2, <1>3, <1>4, <1>5, <1>6, <1>7, <1>8 DEF Refresh

LEMMA CycleType ==
    ASSUME TypeOK, NEW w \in Worker, CycleStart(w) \/ Restart(w)
    PROVE  TypeOK'
<1>1. CASE CycleStart(w)
  <2>1. PICK due \in SUBSET { c \in Connector : definition[c] # Missing } \ {{}} :
          stage' = [stage EXCEPT ![w] = [c \in Connector |->
                      IF c \in due THEN "listed" ELSE "idle"]]
    BY <1>1 DEF CycleStart
  <2>2. \A v \in Worker, c \in Connector :
          stage'[v][c] = "probing" <=> admission[v][c] # Missing
    BY <1>1, <2>1 DEF CycleStart, TypeOK
  <2>3. QED
    BY <1>1, <2>1, <2>2 DEF CycleStart, TypeOK, rows
<1>2. CASE Restart(w)
  <2>1. /\ stage' \in [Worker -> [Connector -> {"idle", "listed", "read", "probing"}]]
        /\ admission' \in [Worker -> [Connector -> Optional(Admission)]]
        /\ \A v \in Worker, c \in Connector :
              stage'[v][c] = "probing" <=> admission'[v][c] # Missing
    BY <1>2 DEF Restart, TypeOK, Optional
  <2>2. QED
    BY <1>2, <2>1 DEF Restart, TypeOK, rows
<1>3. QED
  BY <1>1, <1>2

LEMMA NextType == TypeOK /\ [Next]_vars => TypeOK'
<1> SUFFICES ASSUME TypeOK, [Next]_vars
             PROVE  TypeOK'
  OBVIOUS
<1>1. CASE Next
  BY <1>1, BeginType, ContinueType, AtOnceType, RefreshType, CycleType DEF Next
<1>2. CASE UNCHANGED vars
  BY <1>2 DEF vars, rows, discovery, TypeOK
<1>3. QED
  BY <1>1, <1>2

(* Every row, request and admission has its type in every reachable state: *)
(* a request never probes without a credential of the right kind, and a    *)
(* discovery task never applies a result without an admission.             *)
THEOREM TypeCorrect == Spec => []TypeOK
BY InitType, NextType, PTL DEF Spec

-----------------------------------------------------------------------------
aggregate == <<definition, credential, catalog, health, published>>

Quiet == UNCHANGED <<aggregate, generation>>

Installed(c) ==
    /\ \E def \in Definition, token \in Credential, tools \in SUBSET Tool :
          Install(c, def, token, tools)
    /\ published' \in {published, published \ {c}}
    /\ UniqueNames(published', definition', catalog')
    /\ Advance(c, 2)

Renamed(c) ==
    /\ \E def \in Definition : definition' = [definition EXCEPT ![c] = def]
    /\ UNCHANGED <<credential, catalog, health, published>>
    /\ UniqueNames(published', definition', catalog')
    /\ Advance(c, 1)

Applied(c) ==
    /\ Admissible(c)
    /\ \E cat \in Optional(Catalog), h \in {"healthy", "unhealthy"} :
          /\ cat = Missing => h = "unhealthy"
          /\ catalog' = [catalog EXCEPT ![c] = cat]
          /\ health' = [health EXCEPT ![c] = h]
    /\ UNCHANGED <<definition, credential, published>>
    /\ UniqueNames(published', definition', catalog')
    /\ Advance(c, 1)

Shown(c) ==
    /\ definition[c] # Missing /\ catalog[c] # Missing
    /\ published' = published \cup {c}
    /\ UNCHANGED <<definition, credential, catalog, health, generation>>
    /\ UniqueNames(published', definition', catalog')

Hidden(c) ==
    /\ published' = published \ {c}
    /\ UNCHANGED <<definition, credential, catalog, health, generation>>

Erased(c) ==
    /\ definition' = [definition EXCEPT ![c] = Missing]
    /\ credential' = [credential EXCEPT ![c] = Missing]
    /\ catalog' = [catalog EXCEPT ![c] = Missing]
    /\ health' = [health EXCEPT ![c] = "none"]
    /\ published' = published \ {c}
    /\ Advance(c, 1)

Rotated(c) ==
    /\ credential[c] # Missing
    /\ \E token \in Credential : credential' = [credential EXCEPT ![c] = token]
    /\ UNCHANGED <<definition, catalog, health, published>>
    /\ Advance(c, 1)

Kind(c) ==
    \/ Installed(c) \/ Renamed(c) \/ Applied(c) \/ Shown(c)
    \/ Hidden(c) \/ Erased(c) \/ Rotated(c)

-----------------------------------------------------------------------------
(* Fewer connectors with the same definitions and catalogues have no more  *)
(* names.                                                                  *)
LEMMA UniqueSubset ==
    ASSUME NEW P \in SUBSET Connector, NEW Q \in SUBSET P,
           NEW d1, NEW d2, NEW k1, NEW k2,
           \A c \in Q : d1[c] = d2[c] /\ k1[c] = k2[c],
           UniqueNames(P, d1, k1)
    PROVE  UniqueNames(Q, d2, k2)
<1>1. \A i \in Identities(Q, d2, k2) :
        i \in Identities(P, d1, k1) /\ NameOf(i, d2) = NameOf(i, d1)
  BY DEF Identities, NameOf, ToolsOf
<1>2. QED
  BY <1>1 DEF UniqueNames

(* Where names were validated after the step, they are unique after it. *)
LEMMA ApplyKind ==
    ASSUME TypeOK, NEW c \in Connector, NEW adm, NEW cat \in Optional(Catalog),
           NEW h \in {"healthy", "unhealthy"}, cat = Missing => h = "unhealthy",
           ApplyDiscovery(c, adm, cat, h)
    PROVE  Applied(c)
BY DEF ApplyDiscovery, Current, Applied

LEMMA ContinueKind ==
    ASSUME IInv, NEW r \in Request, Continue(r)
    PROVE  Quiet \/ \E c \in Connector : Kind(c)
<1>1. TypeOK
  BY DEF IInv
<1>2. CASE EditWritePrefix(r)
  <2>1. request[r].connector \in Connector /\ request[r].wanted \in Definition
    BY <1>1, <1>2, RequestTypes DEF EditWritePrefix, EditRequest
  <2>2. Renamed(request[r].connector)
    BY <1>2, <2>1 DEF EditWritePrefix, Renamed
  <2>3. QED
    BY <2>1, <2>2 DEF Kind
<1>3. CASE EditWrite(r)
  <2> DEFINE q == request[r]
  <2>1. q.connector \in Connector /\ q.wanted \in Definition /\ q.token \in Credential
    BY <1>1, <1>3, RequestTypes DEF EditWrite, ProbeRequest
  <2>2. \E tools \in SUBSET Tool, token \in Credential :
          Install(q.connector, q.wanted, token, tools)
    BY <1>3, <2>1, CredentialsOfAKind DEF EditWrite
  <2>3. /\ published' \in {published, published \ {q.connector}}
        /\ UniqueNames(published', definition', catalog')
        /\ Advance(q.connector, 2)
    BY <1>3 DEF EditWrite
  <2>4. Installed(q.connector)
    BY <2>1, <2>2, <2>3 DEF Installed
  <2>5. QED
    BY <2>1, <2>4 DEF Kind
<1>4. CASE DiscoverSucceeds(r)
  <2>1. request[r].connector \in Connector /\ request[r].admission \in Admission
    BY <1>1, <1>4, RequestTypes DEF DiscoverSucceeds, DiscoverRequest
  <2>2. PICK tools \in SUBSET Tool :
          ApplyDiscovery(request[r].connector, request[r].admission,
                         Found(request[r].admission, tools), "healthy")
    BY <1>4 DEF DiscoverSucceeds
  <2>3. Found(request[r].admission, tools) \in Catalog
    BY <2>1, FoundTypes
  <2>4. Applied(request[r].connector)
    BY <1>1, <2>1, <2>2, <2>3, ApplyKind, Present DEF Optional
  <2>5. QED
    BY <2>1, <2>4 DEF Kind
<1>5. CASE DiscoverFails(r)
  <2>1. request[r].connector \in Connector
    BY <1>1, <1>5, RequestTypes DEF DiscoverFails, DiscoverRequest
  <2>2. ApplyDiscovery(request[r].connector, request[r].admission, Missing, "unhealthy")
    BY <1>5 DEF DiscoverFails
  <2>3. Applied(request[r].connector)
    BY <1>1, <2>1, <2>2, ApplyKind DEF Optional
  <2>4. QED
    BY <2>1, <2>3 DEF Kind
<1>6. CASE DeleteWrite(r)
  <2>1. request[r].connector \in Connector
    BY <1>1, <1>6, RequestTypes DEF DeleteWrite, PlainRequest
  <2>2. Erased(request[r].connector)
    BY <1>6 DEF DeleteWrite, Erased
  <2>3. QED
    BY <2>1, <2>2 DEF Kind
<1>7. CASE EditResolve(r) \/ ToggleCheck(r) \/ ToggleWrite(r) \/ GrantWrite(r) \/ RequestFails(r)
  BY <1>7 DEF EditResolve, ToggleCheck, ToggleWrite, GrantWrite, RequestFails,
              Quiet, aggregate, rows
<1>8. QED
  BY <1>2, <1>3, <1>4, <1>5, <1>6, <1>7 DEF Continue

LEMMA AtOnceKind ==
    ASSUME IInv, NEW c \in Connector, AtOnce(c)
    PROVE  Quiet \/ Kind(c)
<1>1. CASE Create(c)
  <2>1. PICK def \in Definition, token \in Credential, tools \in SUBSET Tool :
          Install(c, def, token, tools)
    BY <1>1, CredentialsOfAKind DEF Create, Definition
  <2>2. c \notin published /\ published' = published /\ published \subseteq Connector
    BY <1>1 DEF Create, IInv, NothingOfADeletedConnectorRemains, TypeOK
  <2>3. \A d \in published : definition[d] = definition'[d] /\ catalog[d] = catalog'[d]
    BY <2>1, <2>2 DEF Install, IInv, TypeOK
  <2>4. UniqueNames(published', definition', catalog')
    BY <2>2, <2>3, UniqueSubset DEF IInv, PublishedNamesAreUnique
  <2>5. Installed(c)
    BY <1>1, <2>1, <2>2, <2>4 DEF Create, Installed
  <2>6. QED
    BY <2>5 DEF Kind
<1>2. CASE Publish(c)
  <2>1. catalog[c] # Missing
    BY <1>2 DEF Publish, ToolsOf
  <2>2. Shown(c)
    BY <1>2, <2>1 DEF Publish, Shown
  <2>3. QED
    BY <2>2 DEF Kind
<1>3. CASE Unpublish(c)
  BY <1>3 DEF Unpublish, Hidden, Kind
<1>4. CASE Revoke(c)
  BY <1>4 DEF Revoke, Quiet, aggregate, rows
<1>5. CASE Rotate(c)
  <2>1. credential[c] # Missing
    BY <1>5, CredentialsOfAKind, Present DEF Rotate
  <2>2. Rotated(c)
    BY <1>5, <2>1, CredentialsOfAKind DEF Rotate, Rotated
  <2>3. QED
    BY <2>2 DEF Kind
<1>6. QED
  BY <1>1, <1>2, <1>3, <1>4, <1>5 DEF AtOnce

LEMMA RefreshKind ==
    ASSUME IInv, NEW w \in Worker, NEW c \in Connector, Refresh(w, c)
    PROVE  Quiet \/ Kind(c)
<1>1. TypeOK
  BY DEF IInv
<1>2. CASE RefreshSucceeds(w, c)
  <2>1. admission[w][c] \in Admission
    BY <1>1, <1>2 DEF RefreshSucceeds, TypeOK, Optional
  <2>2. PICK tools \in SUBSET Tool :
          ApplyDiscovery(c, admission[w][c], Found(admission[w][c], tools), "healthy")
    BY <1>2 DEF RefreshSucceeds
  <2>3. Found(admission[w][c], tools) \in Catalog
    BY <2>1, FoundTypes
  <2>4. QED
    BY <1>1, <2>2, <2>3, ApplyKind, Present DEF Optional, Kind
<1>3. CASE RefreshFails(w, c)
  <2>1. catalog[c] \in Optional(Catalog)
    BY <1>1 DEF TypeOK
  <2>2. QED
    BY <1>1, <1>3, <2>1, ApplyKind DEF RefreshFails, Kind
<1>4. CASE \/ Execute(w, c) \/ Admit(w, c) \/ AdmitUnavailable(w, c)
           \/ RefreshObsolete(w, c) \/ RefreshConflicts(w, c)
  BY <1>4 DEF Execute, Admit, AdmitUnavailable, RefreshObsolete, RefreshConflicts,
              Stops, Quiet, aggregate, rows
<1>5. QED
  BY <1>2, <1>3, <1>4 DEF Refresh

LEMMA NextKind ==
    ASSUME IInv, [Next]_vars
    PROVE  Quiet \/ \E c \in Connector : Kind(c)
<1>1. CASE \E r \in Request, c \in Connector : Begin(r, c)
  BY <1>1 DEF Begin, PatchBegin, PutBegin, ReauthorizeBegin, DiscoverBegin, ToggleBegin,
              DeleteBegin, GrantBegin, Quiet, aggregate, rows
<1>2. CASE \E w \in Worker : CycleStart(w) \/ Restart(w)
  BY <1>2 DEF CycleStart, Restart, Quiet, aggregate, rows
<1>3. CASE UNCHANGED vars
  BY <1>3 DEF vars, Quiet, aggregate, rows
<1>4. QED
  BY <1>1, <1>2, <1>3, ContinueKind, AtOnceKind, RefreshKind DEF Next

-----------------------------------------------------------------------------
(* The invariants on the rows, kind by kind.                               *)

LEMMA RowsKept ==
    ASSUME IInv, NEW c \in Connector, Kind(c)
    PROVE  /\ CatalogNeedsCredential'
           /\ NothingOfADeletedConnectorRemains'
           /\ PublishedConnectorsAreUsable'
           /\ PublishedNamesAreUnique'
<1> USE Present DEF IInv, TypeOK, CatalogNeedsCredential, NothingOfADeletedConnectorRemains,
                    PublishedConnectorsAreUsable
<1>1. CASE Installed(c)
  <2>1. PICK def \in Definition, token \in Credential, tools \in SUBSET Tool :
          Install(c, def, token, tools)
    BY <1>1 DEF Installed
  <2>2. def # Missing /\ token # Missing
    OBVIOUS
  <2>3. [tools |-> tools, server |-> def.conf] # Missing
    <3>1. [tools |-> tools, server |-> def.conf] \in Catalog
      BY DEF Catalog, Definition
    <3>2. QED
      BY <3>1
  <2>4. /\ definition'[c] # Missing /\ credential'[c] # Missing /\ catalog'[c] # Missing
        /\ \A d \in Connector \ {c} :
              /\ definition'[d] = definition[d] /\ credential'[d] = credential[d]
              /\ catalog'[d] = catalog[d] /\ health'[d] = health[d]
    BY <2>1, <2>2, <2>3 DEF Install
  <2>5. \A d \in published' : d \in published
    BY <1>1 DEF Installed
  <2>6. CatalogNeedsCredential' /\ NothingOfADeletedConnectorRemains'
    BY <2>4, <2>5
  <2>7. PublishedConnectorsAreUsable'
    BY <2>4, <2>5
  <2>8. QED
    BY <1>1, <2>6, <2>7 DEF Installed, PublishedNamesAreUnique
<1>2. CASE Renamed(c)
  BY <1>2 DEF Renamed, PublishedNamesAreUnique
<1>3. CASE Applied(c)
  BY <1>3 DEF Applied, Admissible, PublishedNamesAreUnique
<1>4. CASE Shown(c)
  BY <1>4 DEF Shown, PublishedNamesAreUnique
<1>5. CASE Hidden(c)
  <2>1. PublishedNamesAreUnique'
    BY <1>5, UniqueSubset DEF Hidden, PublishedNamesAreUnique
  <2>2. QED
    BY <1>5, <2>1 DEF Hidden
<1>6. CASE Erased(c)
  <2>1. PublishedNamesAreUnique'
    <3>1. published' \subseteq published /\ published \subseteq Connector /\ c \notin published'
      BY <1>6 DEF Erased
    <3>2. \A d \in published' : definition[d] = definition'[d] /\ catalog[d] = catalog'[d]
      BY <1>6, <3>1 DEF Erased
    <3>3. QED
      BY <3>1, <3>2, UniqueSubset DEF PublishedNamesAreUnique
  <2>2. QED
    BY <1>6, <2>1 DEF Erased
<1>7. CASE Rotated(c)
  <2>1. PublishedNamesAreUnique'
    BY <1>7 DEF Rotated, PublishedNamesAreUnique
  <2>2. QED
    BY <1>7, <2>1 DEF Rotated
<1>8. QED
  BY <1>1, <1>2, <1>3, <1>4, <1>5, <1>6, <1>7 DEF Kind

LEMMA QuietKept ==
    ASSUME IInv, Quiet
    PROVE  /\ CatalogNeedsCredential'
           /\ NothingOfADeletedConnectorRemains'
           /\ PublishedConnectorsAreUsable'
           /\ PublishedNamesAreUnique'
BY DEF IInv, Quiet, aggregate, CatalogNeedsCredential, NothingOfADeletedConnectorRemains,
       PublishedConnectorsAreUsable, PublishedNamesAreUnique

-----------------------------------------------------------------------------
(* The fence.                                                              *)

(* A generation never goes back, and while it stands still, so do the rows *)
(* that an admission has read.                                             *)
LEMMA GenerationMoves ==
    ASSUME IInv, [Next]_vars, NEW d \in Connector
    PROVE  /\ generation'[d] >= generation[d]
           /\ generation'[d] = generation[d] => AdmissionOf(d)' = AdmissionOf(d)
<1>1. generation \in [Connector -> Nat]
  BY DEF IInv, TypeOK
<1>2. CASE Quiet
  BY <1>1, <1>2 DEF Quiet, aggregate, AdmissionOf
<1>3. ASSUME NEW c \in Connector, Kind(c)
      PROVE  /\ generation'[d] >= generation[d]
             /\ generation'[d] = generation[d] => AdmissionOf(d)' = AdmissionOf(d)
  <2> USE <1>1 DEF IInv, TypeOK, AdmissionOf, Advance
  <2>1. CASE Installed(c)
    BY <2>1 DEF Installed, Install
  <2>2. CASE Renamed(c)
    BY <2>2 DEF Renamed
  <2>3. CASE Applied(c)
    BY <2>3 DEF Applied
  <2>4. CASE Shown(c) \/ Hidden(c)
    BY <2>4 DEF Shown, Hidden
  <2>5. CASE Erased(c)
    BY <2>5 DEF Erased
  <2>6. CASE Rotated(c)
    BY <2>6 DEF Rotated
  <2>7. QED
    BY <1>3, <2>1, <2>2, <2>3, <2>4, <2>5, <2>6 DEF Kind
<1>4. QED
  BY <1>2, <1>3, NextKind

LEMMA FenceMoves ==
    ASSUME IInv, [Next]_vars, NEW c \in Connector, NEW adm \in Admission, Fences(c, adm)
    PROVE  Fences(c, adm)'
<1>1. /\ generation[c] \in Nat /\ generation'[c] \in Nat /\ adm.generation \in Nat
  BY NextType DEF IInv, TypeOK, Admission
<1>2. /\ generation'[c] >= generation[c]
      /\ generation'[c] = generation[c] => AdmissionOf(c)' = AdmissionOf(c)
  BY GenerationMoves
<1>3. QED
  BY <1>1, <1>2 DEF Fences

(* What has just been read is current. *)
LEMMA NewFence ==
    ASSUME TypeOK, NEW c \in Connector
    PROVE  Fences(c, AdmissionOf(c))
BY DEF TypeOK, Fences, AdmissionOf

LEMMA RequestFencesKept ==
    ASSUME IInv, [Next]_vars, NEW r \in Request, Doing(r, "discover")'
    PROVE  Fences(request[r].connector, request[r].admission)'
<1> USE DEF Doing
<1>1. TypeOK /\ TypeOK'
  BY NextType DEF IInv
<1>2. CASE request'[r] = request[r]
  <2>1. Doing(r, "discover")
    BY <1>2
  <2>2. request[r].connector \in Connector /\ request[r].admission \in Admission
    BY <1>1, <2>1, RequestTypes DEF DiscoverRequest
  <2>3. Fences(request[r].connector, request[r].admission)
    BY <2>1 DEF IInv, GenerationFencesEverything
  <2>4. QED
    BY <1>2, <2>2, <2>3, FenceMoves DEF Fences, AdmissionOf
<1>3. CASE \E c \in Connector :
        /\ request'[r].connector = c /\ request'[r].admission = AdmissionOf(c)
        /\ Quiet
  BY <1>1, <1>3, NewFence DEF Fences, AdmissionOf, Quiet, aggregate
<1>4. request'[r] # request[r] =>
        \E c \in Connector :
          /\ request'[r].connector = c /\ request'[r].admission = AdmissionOf(c)
          /\ Quiet
  <2>1. ASSUME NEW s \in Request, NEW c \in Connector, Begin(s, c), request'[r] # request[r]
        PROVE  DiscoverBegin(r, c)
    <3>1. request \in [Request -> Optional(InFlight)]
      BY <1>1 DEF TypeOK
    <3>2. CASE DiscoverBegin(s, c)
      BY <2>1, <3>1, <3>2 DEF DiscoverBegin, Begins
    <3>3. CASE PatchBegin(s, c)
      BY <2>1, <3>1, <3>3 DEF PatchBegin, Begins, EditOf
    <3>4. CASE PutBegin(s, c)
      BY <2>1, <3>1, <3>4 DEF PutBegin, Begins, EditOf
    <3>5. CASE ReauthorizeBegin(s, c)
      BY <2>1, <3>1, <3>5 DEF ReauthorizeBegin, Begins, EditOf
    <3>6. CASE ToggleBegin(s, c)
      BY <2>1, <3>1, <3>6 DEF ToggleBegin, Begins
    <3>7. CASE DeleteBegin(s, c)
      BY <2>1, <3>1, <3>7 DEF DeleteBegin, Begins
    <3>8. CASE GrantBegin(s, c)
      BY <2>1, <3>1, <3>8 DEF GrantBegin, Begins
    <3>9. QED
      BY <2>1, <3>2, <3>3, <3>4, <3>5, <3>6, <3>7, <3>8 DEF Begin
  <2>2. ASSUME NEW c \in Connector, DiscoverBegin(r, c)
        PROVE  /\ request'[r].connector = c /\ request'[r].admission = AdmissionOf(c)
               /\ Quiet
    BY <1>1, <2>2 DEF DiscoverBegin, Begins, TypeOK, Quiet, aggregate, rows
  <2>3. ASSUME NEW s \in Request, Continue(s)
        PROVE  request'[r] = request[r]
    <3>1. request \in [Request -> Optional(InFlight)]
      BY <1>1 DEF TypeOK
    <3>2. CASE EditResolve(s)
      BY <3>1, <3>2, RequestTypes, <1>1 DEF EditResolve, Continues, EditRequest
    <3>3. CASE ToggleCheck(s)
      BY <3>1, <3>3, RequestTypes, <1>1 DEF ToggleCheck, Continues, ToggleRequest
    <3>4. CASE Ends(s)
      BY <3>1, <3>4 DEF Ends
    <3>5. QED
      BY <2>3, <3>2, <3>3, <3>4 DEF Continue, EditWritePrefix, EditWrite, DiscoverSucceeds,
            DiscoverFails, ToggleWrite, DeleteWrite, GrantWrite, RequestFails
  <2>4. ASSUME NEW c \in Connector, AtOnce(c)
        PROVE  request'[r] = request[r]
    BY <2>4 DEF AtOnce, Create, Publish, Unpublish, Revoke, Rotate
  <2>5. ASSUME NEW w \in Worker, NEW c \in Connector, Refresh(w, c)
        PROVE  request'[r] = request[r]
    BY <2>5 DEF Refresh, Execute, Admit, AdmitUnavailable, Stops, RefreshSucceeds,
          RefreshFails, RefreshObsolete, RefreshConflicts, RefreshOver
  <2>6. ASSUME NEW w \in Worker, CycleStart(w) \/ Restart(w)
        PROVE  request'[r] = request[r]
    BY <2>6 DEF CycleStart, Restart
  <2>7. QED
    BY <2>1, <2>2, <2>3, <2>4, <2>5, <2>6 DEF Next, vars
<1>5. QED
  BY <1>2, <1>3, <1>4

LEMMA TaskFencesKept ==
    ASSUME IInv, [Next]_vars, NEW w \in Worker, NEW c \in Connector, stage'[w][c] = "probing"
    PROVE  Fences(c, admission[w][c])'
<1>1. TypeOK /\ TypeOK'
  BY NextType DEF IInv
<1>2. CASE stage[w][c] = "probing" /\ admission'[w][c] = admission[w][c]
  <2>1. admission[w][c] \in Admission
    BY <1>1, <1>2 DEF TypeOK, Optional
  <2>2. Fences(c, admission[w][c])
    BY <1>2 DEF IInv, GenerationFencesEverything
  <2>3. QED
    BY <1>2, <2>1, <2>2, FenceMoves DEF Fences, AdmissionOf
<1>3. CASE Admit(w, c)
  <2>1. admission'[w][c] = AdmissionOf(c)
    BY <1>1, <1>3 DEF Admit, TypeOK
  <2>2. QED
    BY <1>1, <1>3, <2>1, NewFence DEF Admit, Fences, AdmissionOf, rows
<1>4. ~Admit(w, c) => stage[w][c] = "probing" /\ admission'[w][c] = admission[w][c]
  <2> SUFFICES ASSUME ~Admit(w, c)
               PROVE  stage[w][c] = "probing" /\ admission'[w][c] = admission[w][c]
    OBVIOUS
  <2>1. ASSUME UNCHANGED <<stage, admission>>
        PROVE  stage[w][c] = "probing" /\ admission'[w][c] = admission[w][c]
    BY <2>1
  <2>2. ASSUME NEW v \in Worker, NEW d \in Connector, NEW s \in {"idle", "read"}, Moves(v, d, s),
               admission' \in {admission, [admission EXCEPT ![v][d] = Missing]}
        PROVE  stage[w][c] = "probing" /\ admission'[w][c] = admission[w][c]
    BY <1>1, <2>2 DEF Moves, TypeOK
  <2>3. ASSUME NEW v \in Worker, NEW d \in Connector, Refresh(v, d)
        PROVE  stage[w][c] = "probing" /\ admission'[w][c] = admission[w][c]
    <3>1. CASE Execute(v, d)
      BY <2>2, <3>1 DEF Execute
    <3>2. CASE Admit(v, d)
      <4>1. v # w \/ d # c
        <5>1. v = w /\ d = c => Admit(w, c)
          BY <3>2
        <5>2. QED
          BY <5>1
      <4>2. /\ stage' = [stage EXCEPT ![v][d] = "probing"]
            /\ admission' = [admission EXCEPT ![v][d] = AdmissionOf(d)]
        BY <3>2 DEF Admit, Moves
      <4>3. stage'[w][c] = stage[w][c] /\ admission'[w][c] = admission[w][c]
        BY <1>1, <4>1, <4>2 DEF TypeOK
      <4>4. QED
        BY <4>3
    <3>3. CASE AdmitUnavailable(v, d) \/ RefreshConflicts(v, d)
      BY <2>2, <3>3 DEF AdmitUnavailable, RefreshConflicts, Stops
    <3>4. CASE RefreshSucceeds(v, d) \/ RefreshFails(v, d) \/ RefreshObsolete(v, d)
      BY <2>2, <3>4 DEF RefreshSucceeds, RefreshFails, RefreshObsolete, RefreshOver
    <3>5. QED
      BY <2>3, <3>1, <3>2, <3>3, <3>4 DEF Refresh
  <2>4. ASSUME NEW v \in Worker, CycleStart(v) \/ Restart(v)
        PROVE  stage[w][c] = "probing" /\ admission'[w][c] = admission[w][c]
    <3>1. CASE CycleStart(v)
      <4>1. PICK due \in SUBSET Connector :
               stage' = [stage EXCEPT ![v] = [d \in Connector |->
                           IF d \in due THEN "listed" ELSE "idle"]]
        BY <3>1 DEF CycleStart
      <4>2. stage'[v][c] # "probing"
        <5>1. stage'[v] = [d \in Connector |-> IF d \in due THEN "listed" ELSE "idle"]
          BY <1>1, <4>1 DEF TypeOK
        <5>2. QED
          BY <5>1
      <4>3. w # v
        BY <4>2
      <4>4. stage'[w] = stage[w]
        BY <1>1, <4>1, <4>3 DEF TypeOK
      <4>5. QED
        BY <3>1, <4>4 DEF CycleStart
    <3>2. CASE Restart(v)
      BY <1>1, <3>2 DEF Restart, TypeOK
    <3>3. QED
      BY <2>4, <3>1, <3>2
  <2>5. ASSUME NEW r \in Request, NEW d \in Connector, Begin(r, d)
        PROVE  UNCHANGED <<stage, admission>>
    BY <2>5 DEF Begin, PatchBegin, PutBegin, ReauthorizeBegin, DiscoverBegin, ToggleBegin,
          DeleteBegin, GrantBegin, discovery
  <2>6. ASSUME NEW r \in Request, Continue(r)
        PROVE  UNCHANGED <<stage, admission>>
    BY <2>6 DEF Continue, EditResolve, EditWritePrefix, EditWrite, DiscoverSucceeds,
          DiscoverFails, ToggleCheck, ToggleWrite, DeleteWrite, GrantWrite, RequestFails,
          discovery
  <2>7. ASSUME NEW d \in Connector, AtOnce(d)
        PROVE  UNCHANGED <<stage, admission>>
    BY <2>7 DEF AtOnce, Create, Publish, Unpublish, Revoke, Rotate, discovery
  <2>8. QED
    BY <2>1, <2>3, <2>4, <2>5, <2>6, <2>7 DEF Next, vars, discovery
<1>5. QED
  BY <1>2, <1>3, <1>4

-----------------------------------------------------------------------------
LEMMA InitIInv == Init => IInv
<1> SUFFICES ASSUME Init PROVE IInv
  OBVIOUS
<1>1. /\ CatalogNeedsCredential /\ NothingOfADeletedConnectorRemains
      /\ PublishedConnectorsAreUsable
  BY DEF Init, CatalogNeedsCredential, NothingOfADeletedConnectorRemains,
         PublishedConnectorsAreUsable
<1>2. PublishedNamesAreUnique
  BY DEF Init, PublishedNamesAreUnique, UniqueNames, Identities
<1>3. GenerationFencesEverything
  BY DEF Init, GenerationFencesEverything, Doing
<1>4. QED
  BY <1>1, <1>2, <1>3, InitType DEF IInv

LEMMA NextIInv == IInv /\ [Next]_vars => IInv'
<1> SUFFICES ASSUME IInv, [Next]_vars
             PROVE  IInv'
  OBVIOUS
<1>1. TypeOK'
  BY NextType DEF IInv
<1>2. /\ CatalogNeedsCredential' /\ NothingOfADeletedConnectorRemains'
      /\ PublishedConnectorsAreUsable' /\ PublishedNamesAreUnique'
  BY NextKind, RowsKept, QuietKept
<1>3. GenerationFencesEverything'
  BY RequestFencesKept, TaskFencesKept DEF GenerationFencesEverything
<1>4. QED
  BY <1>1, <1>2, <1>3 DEF IInv

(* The conjunction of the invariants holds in every reachable state. *)
THEOREM Invariance == Spec => []IInv
BY InitIInv, NextIInv, PTL DEF Spec

(* However edits, discoveries, publications and deletions of any number of *)
(* connectors overlap, the public names served from the database are       *)
(* distinct from one another and from the native ones.                     *)
THEOREM PublishedNamesAreUniqueCorrect == Spec => []PublishedNamesAreUnique
<1>1. IInv => PublishedNamesAreUnique
  BY DEF IInv
<1>2. QED
  BY <1>1, Invariance, PTL

(* A published connector can always be called, or is known to be ill; a    *)
(* deleted connector leaves no credential, catalogue, health or            *)
(* publication, and no discovery or token refresh brings one back; and the *)
(* generation of a connector is the same as an admission's only if         *)
(* everything the admission read is: a comparison of the generations would *)
(* decide as well as the comparison of the whole admission does.           *)
THEOREM ConnectorsInvariance == Spec => []ConnectorsInv
<1>1. IInv => ConnectorsInv
  BY DEF IInv, ConnectorsInv
<1>2. QED
  BY <1>1, Invariance, PTL

-----------------------------------------------------------------------------
(* What a step may never do.                                               *)

(* A step appends an event, or leaves what is offered alone. *)
LEMMA AnnouncedSteps ==
    ASSUME Next
    PROVE  Announce \/ UNCHANGED <<definition, catalog, published>>
<1>1. CASE \E r \in Request, c \in Connector : Begin(r, c)
  BY <1>1 DEF Begin, PatchBegin, PutBegin, ReauthorizeBegin, DiscoverBegin, ToggleBegin,
              DeleteBegin, GrantBegin, rows
<1>2. CASE \E r \in Request : Continue(r)
  BY <1>2 DEF Continue, EditResolve, EditWritePrefix, EditWrite, DiscoverSucceeds,
              DiscoverFails, ToggleCheck, ToggleWrite, DeleteWrite, GrantWrite,
              RequestFails, ApplyDiscovery, rows
<1>3. CASE \E c \in Connector : AtOnce(c)
  BY <1>3 DEF AtOnce, Create, Publish, Unpublish, Revoke, Rotate, rows
<1>4. CASE \E w \in Worker, c \in Connector : Refresh(w, c)
  BY <1>4 DEF Refresh, Execute, Admit, AdmitUnavailable, RefreshSucceeds, RefreshFails,
              RefreshObsolete, RefreshConflicts, Stops, ApplyDiscovery, rows
<1>5. CASE \E w \in Worker : CycleStart(w) \/ Restart(w)
  BY <1>5 DEF CycleStart, Restart, rows
<1>6. QED
  BY <1>1, <1>2, <1>3, <1>4, <1>5 DEF Next

(* Whatever changes the set of connectors, a definition, a catalogue or a  *)
(* publication appends an event in the same transaction.                   *)
THEOREM CatalogueChangesAreAnnouncedCorrect == Spec => CatalogueChangesAreAnnounced
<1>1. ASSUME TypeOK, [Next]_vars,
             <<definition', catalog', published'>> # <<definition, catalog, published>>
      PROVE  events' > events
  <2>1. ~ UNCHANGED vars
    BY <1>1 DEF vars, rows
  <2>2. Announce
    BY <1>1, <2>1, AnnouncedSteps
  <2>3. QED
    BY <1>1, <2>2 DEF Announce, TypeOK
<1>2. TypeOK /\ [Next]_vars =>
        [<<definition', catalog', published'>> # <<definition, catalog, published>> =>
           events' > events]_vars
  BY <1>1
<1>3. QED
  BY <1>2, TypeCorrect, PTL DEF Spec, CatalogueChangesAreAnnounced

(* The catalogue that is written is that of the server of the definition   *)
(* it is written with, and the tools that are given up are not in it.      *)
Matched(c) ==
    /\ definition'[c] # Missing
    /\ catalog'[c].server = definition'[c].conf

Fitting(c) ==
    /\ health'[c] = "healthy"
    /\ \A t \in active[c] \ active'[c] : t \notin ToolsOf(catalog', c)

LEMMA InstallsMatching ==
    ASSUME TypeOK, NEW c \in Connector, NEW def \in Definition, NEW token \in Credential,
           NEW tools \in SUBSET Tool, Install(c, def, token, tools),
           Keep(c, tools) \/ UNCHANGED active
    PROVE  /\ Matched(c)
           /\ \A d \in Connector \ {c} : catalog'[d] = catalog[d] /\ active'[d] = active[d]
           /\ active'[c] = active[c] \/ Fitting(c)
<1> DEFINE cat == [tools |-> tools, server |-> def.conf]
<1>1. cat \in Catalog /\ cat.tools = tools /\ cat.server = def.conf
  BY DEF Catalog, Definition
<1>2. catalog' = [catalog EXCEPT ![c] = cat]
  BY DEF Install
<1> HIDE DEF cat
<1>3. /\ catalog'[c] = cat /\ definition'[c] = def /\ health'[c] = "healthy"
      /\ \A d \in Connector \ {c} : catalog'[d] = catalog[d]
  BY <1>2 DEF Install, TypeOK
<1>4. def # Missing /\ cat # Missing
  BY <1>1, Present
<1>5. CASE Keep(c, tools)
  <2>1. /\ active'[c] = active[c] \cap tools
        /\ \A d \in Connector \ {c} : active'[d] = active[d]
    BY <1>5 DEF Keep, TypeOK
  <2>2. ToolsOf(catalog', c) = tools
    BY <1>1, <1>3, <1>4 DEF ToolsOf
  <2>3. QED
    BY <1>1, <1>3, <1>4, <2>1, <2>2 DEF Matched, Fitting
<1>6. CASE UNCHANGED active
  BY <1>1, <1>3, <1>4, <1>6 DEF Matched
<1>7. QED
  BY <1>5, <1>6

(* A discovery is applied if the connector is still the one it was asked   *)
(* for.                                                                    *)
LEMMA AppliesMatching ==
    ASSUME TypeOK, NEW c \in Connector, NEW adm \in Admission, NEW tools \in SUBSET Tool,
           ApplyDiscovery(c, adm, Found(adm, tools), "healthy"), Keep(c, tools)
    PROVE  /\ Matched(c) /\ Fitting(c)
           /\ \A d \in Connector \ {c} : catalog'[d] = catalog[d] /\ active'[d] = active[d]
<1>1. /\ definition[c] # Missing /\ definition' = definition
      /\ AdmissionOf(c) = adm
      /\ catalog' = [catalog EXCEPT ![c] = Found(adm, tools)]
      /\ health' = [health EXCEPT ![c] = "healthy"]
  BY DEF ApplyDiscovery, Current, Admissible
<1>2. adm.definition = definition[c]
  BY <1>1 DEF AdmissionOf
<1>3. Found(adm, tools).tools = tools /\ Found(adm, tools).server = definition[c].conf
  BY <1>2 DEF Found
<1>4. /\ catalog'[c] = Found(adm, tools) /\ health'[c] = "healthy"
      /\ \A d \in Connector \ {c} : catalog'[d] = catalog[d]
  BY <1>1 DEF TypeOK
<1>5. /\ active'[c] = active[c] \cap tools
      /\ \A d \in Connector \ {c} : active'[d] = active[d]
  BY DEF Keep, TypeOK
<1>6. Found(adm, tools) # Missing
  BY FoundTypes, Present
<1>7. ToolsOf(catalog', c) = tools
  BY <1>3, <1>4, <1>6 DEF ToolsOf
<1>8. QED
  BY <1>1, <1>3, <1>4, <1>5, <1>7 DEF Matched, Fitting

(* What a step may do to a catalogue and to the choices of tools. *)
Proper(c) ==
    /\ catalog'[c] \in {catalog[c], Missing} \/ Matched(c)
    /\ \/ active'[c] = active[c] \/ Fitting(c)
       \/ generation'[c] = generation[c] \/ definition'[c] = Missing

LEMMA ProperSteps ==
    ASSUME TypeOK, Next, NEW d \in Connector
    PROVE  Proper(d)
<1>1. ASSUME UNCHANGED <<catalog, active>> PROVE Proper(d)
  BY <1>1 DEF Proper
<1>2. ASSUME UNCHANGED <<catalog, generation>> PROVE Proper(d)
  BY <1>2 DEF Proper
<1>3. ASSUME NEW c \in Connector, NEW def \in Definition, NEW token \in Credential,
             NEW tools \in SUBSET Tool, Install(c, def, token, tools),
             Keep(c, tools) \/ UNCHANGED active
      PROVE  Proper(d)
  BY <1>3, InstallsMatching DEF Proper
<1>4. ASSUME NEW c \in Connector, NEW adm \in Admission, NEW tools \in SUBSET Tool,
             ApplyDiscovery(c, adm, Found(adm, tools), "healthy"), Keep(c, tools)
      PROVE  Proper(d)
  BY <1>4, AppliesMatching DEF Proper
<1>5. CASE \E r \in Request, c \in Connector : Begin(r, c)
  BY <1>1, <1>5 DEF Begin, PatchBegin, PutBegin, ReauthorizeBegin, DiscoverBegin,
                    ToggleBegin, DeleteBegin, GrantBegin, rows
<1>6. ASSUME NEW r \in Request, EditWrite(r) PROVE Proper(d)
  <2> DEFINE q == request[r]
  <2>1. q.connector \in Connector /\ q.wanted \in Definition /\ q.token \in Credential
    BY <1>6, RequestTypes DEF EditWrite, ProbeRequest
  <2>2. PICK tools \in SUBSET Tool, token \in Credential :
          /\ Install(q.connector, q.wanted, token, tools)
          /\ IF q.changed THEN Keep(q.connector, tools) ELSE UNCHANGED active
    BY <1>6, <2>1, CredentialsOfAKind DEF EditWrite
  <2>3. QED
    BY <1>3, <2>1, <2>2
<1>7. ASSUME NEW r \in Request, DiscoverSucceeds(r) PROVE Proper(d)
  <2>1. request[r].connector \in Connector /\ request[r].admission \in Admission
    BY <1>7, RequestTypes DEF DiscoverSucceeds, DiscoverRequest
  <2>2. PICK tools \in SUBSET Tool :
          /\ ApplyDiscovery(request[r].connector, request[r].admission,
                            Found(request[r].admission, tools), "healthy")
          /\ Keep(request[r].connector, tools)
    BY <1>7 DEF DiscoverSucceeds
  <2>3. QED
    BY <1>4, <2>1, <2>2
<1>8. ASSUME NEW r \in Request, DiscoverFails(r) PROVE Proper(d)
  <2>1. request[r].connector \in Connector
    BY <1>8, RequestTypes DEF DiscoverFails, DiscoverRequest
  <2>2. catalog' = [catalog EXCEPT ![request[r].connector] = Missing] /\ active' = active
    BY <1>8 DEF DiscoverFails, ApplyDiscovery
  <2>3. catalog'[d] \in {catalog[d], Missing}
    BY <2>1, <2>2 DEF TypeOK
  <2>4. QED
    BY <2>2, <2>3 DEF Proper
<1>9. ASSUME NEW r \in Request, DeleteWrite(r) PROVE Proper(d)
  <2>1. request[r].connector \in Connector
    BY <1>9, RequestTypes DEF DeleteWrite, PlainRequest
  <2> PICK c \in Connector : c = request[r].connector
    BY <2>1
  <2>2. /\ catalog' = [catalog EXCEPT ![c] = Missing]
        /\ definition' = [definition EXCEPT ![c] = Missing]
        /\ Keep(c, {})
    BY <1>9 DEF DeleteWrite
  <2>3. /\ catalog'[d] \in {catalog[d], Missing}
        /\ d # c => active'[d] = active[d]
        /\ d = c => definition'[d] = Missing
    BY <2>2 DEF Keep, TypeOK
  <2>4. QED
    BY <2>3 DEF Proper
<1>10. ASSUME NEW r \in Request,
              \/ EditResolve(r) \/ EditWritePrefix(r) \/ ToggleCheck(r) \/ ToggleWrite(r)
              \/ GrantWrite(r) \/ RequestFails(r)
       PROVE  Proper(d)
  BY <1>1, <1>2, <1>10 DEF EditResolve, EditWritePrefix, ToggleCheck, ToggleWrite,
                           GrantWrite, RequestFails, rows
<1>11. CASE \E r \in Request : Continue(r)
  BY <1>6, <1>7, <1>8, <1>9, <1>10, <1>11 DEF Continue
<1>12. ASSUME NEW c \in Connector, Create(c) PROVE Proper(d)
  <2>1. PICK def \in Definition, tools \in SUBSET Tool, token \in Credential :
          Install(c, def, token, tools) /\ Keep(c, tools)
    BY <1>12, CredentialsOfAKind DEF Create, Definition
  <2>2. QED
    BY <1>3, <2>1
<1>13. CASE \E c \in Connector : AtOnce(c)
  BY <1>1, <1>12, <1>13 DEF AtOnce, Publish, Unpublish, Revoke, Rotate, rows
<1>14. ASSUME NEW w \in Worker, NEW c \in Connector, RefreshSucceeds(w, c) PROVE Proper(d)
  <2>1. admission[w][c] \in Admission
    BY <1>14 DEF RefreshSucceeds, TypeOK, Optional
  <2>2. PICK tools \in SUBSET Tool :
          /\ ApplyDiscovery(c, admission[w][c], Found(admission[w][c], tools), "healthy")
          /\ Keep(c, tools)
    BY <1>14 DEF RefreshSucceeds
  <2>3. QED
    BY <1>4, <2>1, <2>2
<1>15. ASSUME NEW w \in Worker, NEW c \in Connector, RefreshFails(w, c) PROVE Proper(d)
  <2>1. catalog' = [catalog EXCEPT ![c] = catalog[c]] /\ active' = active
    BY <1>15 DEF RefreshFails, ApplyDiscovery
  <2>2. catalog' = catalog
    BY <2>1 DEF TypeOK
  <2>3. QED
    BY <1>1, <2>1, <2>2
<1>16. CASE \E w \in Worker, c \in Connector : Refresh(w, c)
  BY <1>1, <1>14, <1>15, <1>16
  DEF Refresh, Execute, Admit, AdmitUnavailable, RefreshObsolete, RefreshConflicts,
      Stops, rows
<1>17. CASE \E w \in Worker : CycleStart(w) \/ Restart(w)
  BY <1>1, <1>17 DEF CycleStart, Restart, rows
<1>18. QED
  BY <1>5, <1>11, <1>13, <1>16, <1>17 DEF Next

(* A discovery that was overtaken by an edit leaves no trace: a catalogue   *)
(* is only ever replaced by what was found at the server of the definition *)
(* it is then stored with (apply_discovery, replace).                      *)
THEOREM CatalogsMatchCorrect == Spec => CatalogComesFromCurrentConfiguration
<1>1. TypeOK /\ [Next]_vars =>
        [\A c \in Connector : catalog'[c] \notin {catalog[c], Missing} =>
           /\ definition'[c] # Missing
           /\ catalog'[c].server = definition'[c].conf]_vars
  BY ProperSteps DEF Proper, Matched
<1>2. QED
  BY <1>1, TypeCorrect, PTL DEF Spec, CatalogComesFromCurrentConfiguration

(* What an edit or a discovery removes from the choices of tools are tools  *)
(* that a successful probe did not find (_reconcile_activation).            *)
THEOREM ToolChoicesCorrect == Spec => ToolChoicesSurviveFailedDiscovery
<1>1. TypeOK /\ [Next]_vars =>
        [\A c \in Connector :
           generation'[c] # generation[c] /\ definition'[c] # Missing =>
             \A t \in active[c] \ active'[c] :
               health'[c] = "healthy" /\ t \notin ToolsOf(catalog', c)]_vars
  BY ProperSteps DEF Proper, Fitting
<1>2. QED
  BY <1>1, TypeCorrect, PTL DEF Spec, ToolChoicesSurviveFailedDiscovery

=============================================================================
