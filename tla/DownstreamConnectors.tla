------------------------ MODULE DownstreamConnectors ------------------------
(***************************************************************************)
(* The shared downstream MCP connectors, as the database holds them, and   *)
(* everything that changes them concurrently: administrators' requests and *)
(* the discovery tasks of the MCP workers                                  *)
(* (core/connectors/downstream_mcp, mcp/connectors/downstream_mcp).        *)
(*                                                                         *)
(* A connector is an aggregate of rows: definition, credential, tool       *)
(* catalogue, health, publication, tool activations, and a discovery       *)
(* generation.  A request or a discovery reads some of them, talks to the  *)
(* downstream server without a transaction, and writes in a serialized     *)
(* transaction later on.  What makes a late write harmless, or not, is     *)
(* what this module is about.                                              *)
(*                                                                         *)
(* A server's identity (endpoint, authentication, headers) is a            *)
(* Configuration; of a definition's other fields only the tool name prefix *)
(* is kept, of a catalogue only its tools.                                 *)
(***************************************************************************)
EXTENDS Integers, FiniteSets

CONSTANTS
    Connector, Worker,
    Request,        \* slots for requests in flight
    Operations,     \* the kinds of request made in this instance
    Configuration,
    Auth,           \* Auth[f]: the authentication of configuration f
    Token,          \* Token[a]: the credentials of authentication kind a
    Prefix, Tool,
    PublicName,     \* PublicName[p, t]: the mangled name of tool t under p
    Native,         \* public names taken by the native connectors' tools
    Missing,        \* no row, no request, no admission
    MaxConcurrency, \* discoveries at a time per worker
    MaxEvents,      \* bound: events appended
    MaxGeneration   \* bound: generations of a connector by token rotation

AuthKind == {"none", "static", "oauth"}
Credential == UNION { Token[a] : a \in AuthKind }
Definition == [conf : Configuration, prefix : Prefix]
Catalog == [tools : SUBSET Tool, server : Configuration]
Admission == [definition : Definition, credential : Credential,
              catalog : Catalog \cup {Missing}, generation : Nat]
Optional(S) == S \cup {Missing}

AllOperations ==
    {"create", "patch", "put", "reauthorize", "discover", "toggle",
     "publish", "unpublish", "delete", "grant"}

EditRequest ==
    [op : {"prefix", "resolve"}, connector : Connector, wanted : Definition,
     token : Optional(Credential), changed : BOOLEAN]
ProbeRequest ==
    [op : {"probe"}, connector : Connector, wanted : Definition,
     token : Credential, changed : BOOLEAN]
DiscoverRequest == [op : {"discover"}, connector : Connector, admission : Admission]
ToggleRequest ==
    [op : {"check", "toggle"}, connector : Connector, tool : Tool,
     enable : BOOLEAN, announce : BOOLEAN]
PlainRequest == [op : {"delete", "grant"}, connector : Connector]

InFlight ==
    EditRequest \cup ProbeRequest \cup DiscoverRequest \cup ToggleRequest \cup PlainRequest

ASSUME ConnectorsAssumption ==
    /\ Operations \subseteq AllOperations
    /\ Auth \in [Configuration -> AuthKind]
    /\ DOMAIN Token = AuthKind
    /\ Missing \notin Definition \cup Credential \cup Catalog \cup Admission
    /\ Missing \notin InFlight
    /\ MaxConcurrency \in Nat \ {0}
    /\ MaxEvents \in Nat /\ MaxGeneration \in Nat

VARIABLES
    definition, credential, catalog, health,
    published,      \* connectors whose publication row says published
    active,         \* active[c]: tools with an enabled activation row
    generation,     \* 0 when there is no row; the row is never deleted
    granted,        \* connectors that some group's permissions name
    events,         \* length of the durable event stream
    request,        \* request[r]: what request r has read, and does next
    running,        \* running[w]: the periodic discovery task is alive
    stage,          \* stage[w][c]: the refresh of c in w's current cycle
    admission       \* admission[w][c]: what that refresh probes

rows == <<definition, credential, catalog, health, published, active>>
discovery == <<running, stage, admission>>
vars == <<rows, generation, granted, events, request, discovery>>

-----------------------------------------------------------------------------
(* Public tool names: PublicToolNameValidator.validate_unique.             *)

ToolsOf(cat, c) == IF cat[c] = Missing THEN {} ELSE cat[c].tools

(* What find_many over the definitions collects: the tools of the          *)
(* connectors of P that have a definition and a catalogue.                 *)
Identities(P, def, cat) ==
    { i \in P \X Tool : def[i[1]] # Missing /\ i[2] \in ToolsOf(cat, i[1]) }

NameOf(i, def) == PublicName[def[i[1]].prefix, i[2]]

UniqueNames(P, def, cat) ==
    \A i \in Identities(P, def, cat) :
        /\ NameOf(i, def) \notin Native
        /\ \A j \in Identities(P, def, cat) :
              NameOf(i, def) = NameOf(j, def) => i = j

-----------------------------------------------------------------------------
(* Parts of transactions.                                                  *)

Init ==
    /\ definition = [c \in Connector |-> Missing]
    /\ credential = [c \in Connector |-> Missing]
    /\ catalog = [c \in Connector |-> Missing]
    /\ health = [c \in Connector |-> "none"]
    /\ published = {}
    /\ active = [c \in Connector |-> {}]
    /\ generation = [c \in Connector |-> 0]
    /\ granted = {}
    /\ events = 0
    /\ request = [r \in Request |-> Missing]
    /\ running = [w \in Worker |-> TRUE]
    /\ stage = [w \in Worker |-> [c \in Connector |-> "idle"]]
    /\ admission = [w \in Worker |-> [c \in Connector |-> Missing]]

Announce == events < MaxEvents /\ events' = events + 1
Advance(c, n) == generation' = [generation EXCEPT ![c] = @ + n]

(* A request that starts, moves on to another step, or ends. *)
Begins(r, kind, q) ==
    /\ kind \in Operations
    /\ request[r] = Missing
    /\ request' = [request EXCEPT ![r] = q]
Continues(r, q) == request' = [request EXCEPT ![r] = q]
Ends(r) == request' = [request EXCEPT ![r] = Missing]
Doing(r, op) == request[r] # Missing /\ request[r].op = op

(* The definition, the credential and the catalogue that a probe has       *)
(* confirmed (the first four steps of _replace).                           *)
Install(c, def, token, tools) ==
    /\ definition' = [definition EXCEPT ![c] = def]
    /\ credential' = [credential EXCEPT ![c] = token]
    /\ catalog' = [catalog EXCEPT ![c] = [tools |-> tools, server |-> def.conf]]
    /\ health' = [health EXCEPT ![c] = "healthy"]

Keep(c, tools) == active' = [active EXCEPT ![c] = @ \cap tools]

Admissible(c) == definition[c] # Missing /\ credential[c] # Missing
AdmissionOf(c) == [definition |-> definition[c], credential |-> credential[c],
                   catalog |-> catalog[c], generation |-> generation[c]]

\* Mutant: a probe is obsolete only when its connector is gone.
CurrentIfDefined(c, adm) == Admissible(c)

Current(c, adm) == Admissible(c) /\ AdmissionOf(c) = adm

(* apply_discovery: the catalogue becomes cat, the health h. *)
ApplyDiscovery(c, adm, cat, h) ==
    /\ Current(c, adm)
    /\ catalog' = [catalog EXCEPT ![c] = cat]
    /\ UniqueNames(published, definition, catalog')
    /\ health' = [health EXCEPT ![c] = h]
    /\ Advance(c, 1)
    /\ Announce
    /\ UNCHANGED <<definition, credential, published, granted>>

Found(adm, tools) == [tools |-> tools, server |-> adm.definition.conf]

-----------------------------------------------------------------------------
(* Administrators.  Create and the edits probe the server first; what they *)
(* find there is the catalogue they write.                                 *)

(* The identity is fresh, so that the probe before the transaction reads   *)
(* nothing that another request could change.                              *)
Create(c) ==
    /\ "create" \in Operations
    /\ definition[c] = Missing /\ generation[c] = 0
    /\ \E def \in Definition, tools \in SUBSET Tool :
         \E token \in Token[Auth[def.conf]] :
            /\ Install(c, def, token, tools)
            /\ Keep(c, tools)
    /\ Advance(c, 2)
    /\ Announce
    /\ UNCHANGED <<published, granted, request, discovery>>

EditOf(op, c, wanted, token, changed) ==
    [op |-> op, connector |-> c, wanted |-> wanted, token |-> token,
     changed |-> changed]

(* patch_connector: metadata, with the prefix among it.  If the prefix is  *)
(* all that changes there is no probe.                                     *)
PatchBegin(r, c) ==
    /\ definition[c] # Missing
    /\ \E p \in Prefix, op \in {"prefix", "resolve"} :
         /\ op = "prefix" => p # definition[c].prefix
         /\ Begins(r, "patch", EditOf(op, c, [definition[c] EXCEPT !.prefix = p],
                                      Missing, FALSE))
    /\ UNCHANGED <<rows, generation, granted, events, discovery>>

(* put_configuration: another server or credential; never OAuth. *)
PutBegin(r, c) ==
    /\ definition[c] # Missing
    /\ \E f \in { g \in Configuration : Auth[g] # "oauth" } :
         \E token \in Optional(IF Auth[f] = "static" THEN Token["static"] ELSE {}) :
            /\ token = Missing => Auth[f] \in {"none", Auth[definition[c].conf]}
            /\ Begins(r, "put", EditOf("resolve", c, [definition[c] EXCEPT !.conf = f],
                                       token, f # definition[c].conf \/ token # Missing))
    /\ UNCHANGED <<rows, generation, granted, events, discovery>>

(* _resolve_credential: the given token, or the stored one if it is of the *)
(* kind the wanted configuration needs.                                    *)
EditResolve(r) ==
    /\ Doing(r, "resolve")
    /\ LET q == request[r]
           kind == Auth[q.wanted.conf]
           usable == CASE kind = "none" -> Token["none"]
                       [] q.token # Missing -> {q.token}
                       [] OTHER -> Token[kind] \cap {credential[q.connector]}
       IN  \E token \in usable :
             Continues(r, [q EXCEPT !.op = "probe", !.token = token])
    /\ UNCHANGED <<rows, generation, granted, events, discovery>>

(* reauthorize: the authorization an administrator has just been granted.  *)
ReauthorizeBegin(r, c) ==
    /\ definition[c] # Missing
    /\ Auth[definition[c].conf] = "oauth"
    /\ \E token \in Token["oauth"] :
         Begins(r, "reauthorize", EditOf("probe", c, definition[c], token, FALSE))
    /\ UNCHANGED <<rows, generation, granted, events, discovery>>

\* Mutant: the prefix was validated when the request came in.
EditWritePrefixUnvalidated(r) ==
    /\ Doing(r, "prefix")
    /\ LET q == request[r] IN
         /\ definition' = [definition EXCEPT ![q.connector] = q.wanted]
         /\ Advance(q.connector, 1)
    /\ Announce
    /\ Ends(r)
    /\ UNCHANGED <<credential, catalog, health, published, active, granted, discovery>>

\* Mutant: renaming tools is not worth an event.
EditWritePrefixQuietly(r) ==
    /\ Doing(r, "prefix")
    /\ LET q == request[r] IN
         /\ definition' = [definition EXCEPT ![q.connector] = q.wanted]
         /\ Advance(q.connector, 1)
    /\ UniqueNames(published, definition', catalog)
    /\ Ends(r)
    /\ UNCHANGED <<credential, catalog, health, published, active, granted, events,
                   discovery>>

(* update_published_prefix: the definition read by the request, with the   *)
(* new prefix, replaces the definition.                                    *)
EditWritePrefix(r) ==
    /\ Doing(r, "prefix")
    /\ LET q == request[r] IN
         /\ definition' = [definition EXCEPT ![q.connector] = q.wanted]
         /\ Advance(q.connector, 1)
    /\ UniqueNames(published, definition', catalog)
    /\ Announce
    /\ Ends(r)
    /\ UNCHANGED <<credential, catalog, health, published, active, granted, discovery>>

(* replace: the probe has succeeded, and may have refreshed an OAuth       *)
(* authorization.  A changed configuration withdraws the connector and     *)
(* forgets the choices for tools that are gone.                            *)
EditWrite(r) ==
    /\ Doing(r, "probe")
    /\ LET q == request[r]
           c == q.connector
           refreshed == IF Auth[q.wanted.conf] = "oauth" THEN Token["oauth"] ELSE {q.token}
       IN  /\ \E tools \in SUBSET Tool, token \in refreshed :
                /\ Install(c, q.wanted, token, tools)
                /\ IF q.changed THEN Keep(c, tools) ELSE UNCHANGED active
           /\ published' = IF q.changed THEN published \ {c} ELSE published
           /\ UniqueNames(published', definition', catalog')
           /\ Advance(c, 2)
    /\ Announce
    /\ Ends(r)
    /\ UNCHANGED <<granted, discovery>>

(* refresh: an administrator asks for a discovery. *)
DiscoverBegin(r, c) ==
    /\ Admissible(c)
    /\ Begins(r, "discover", [op |-> "discover", connector |-> c,
                              admission |-> AdmissionOf(c)])
    /\ UNCHANGED <<rows, generation, granted, events, discovery>>

DiscoverSucceeds(r) ==
    /\ Doing(r, "discover")
    /\ LET q == request[r] IN
         \E tools \in SUBSET Tool :
            /\ ApplyDiscovery(q.connector, q.admission, Found(q.admission, tools), "healthy")
            /\ Keep(q.connector, tools)
    /\ Ends(r)
    /\ UNCHANGED discovery

\* Mutant: what a failed discovery found, nothing, is reconciled too.
DiscoverFailsToNothing(r) ==
    /\ Doing(r, "discover")
    /\ LET q == request[r] IN
         /\ ApplyDiscovery(q.connector, q.admission, Missing, "unhealthy")
         /\ Keep(q.connector, {})
    /\ Ends(r)
    /\ UNCHANGED discovery

DiscoverFails(r) ==
    /\ Doing(r, "discover")
    /\ LET q == request[r] IN
         ApplyDiscovery(q.connector, q.admission, Missing, "unhealthy")
    /\ Ends(r)
    /\ UNCHANGED <<active, discovery>>

(* set_tool_activations reads the catalogue, ... *)
ToggleBegin(r, c) ==
    /\ \E t \in ToolsOf(catalog, c), enable \in BOOLEAN :
         Begins(r, "toggle", [op |-> "check", connector |-> c, tool |-> t,
                              enable |-> enable, announce |-> FALSE])
    /\ UNCHANGED <<rows, generation, granted, events, discovery>>

(* ... asks whether the change is to be announced, ... *)
ToggleCheck(r) ==
    /\ Doing(r, "check")
    /\ Continues(r, [request[r] EXCEPT !.op = "toggle",
                                       !.announce = request[r].connector \in published])
    /\ UNCHANGED <<rows, generation, granted, events, discovery>>

(* ... and writes the row. *)
ToggleWrite(r) ==
    /\ Doing(r, "toggle")
    /\ LET q == request[r]
           c == q.connector
           tools == IF q.enable THEN active[c] \cup {q.tool} ELSE active[c] \ {q.tool}
       IN  /\ active' = [active EXCEPT ![c] = tools]
           /\ IF q.announce /\ tools # active[c] THEN Announce ELSE UNCHANGED events
    /\ Ends(r)
    /\ UNCHANGED <<definition, credential, catalog, health, published, generation,
                   granted, discovery>>

Publish(c) ==
    /\ "publish" \in Operations
    /\ definition[c] # Missing
    /\ c \notin published
    /\ ToolsOf(catalog, c) # {}
    /\ UniqueNames(published \cup {c}, definition, catalog)
    /\ published' = published \cup {c}
    /\ Announce
    /\ UNCHANGED <<definition, credential, catalog, health, active, generation, granted,
                   request, discovery>>

(* The check before the transaction only spares a superfluous one. *)
Unpublish(c) ==
    /\ "unpublish" \in Operations
    /\ c \in published
    /\ published' = published \ {c}
    /\ Announce
    /\ UNCHANGED <<definition, credential, catalog, health, active, generation, granted,
                   request, discovery>>

(* DownstreamConnectorDeleter: refused while a group's permissions name    *)
(* the connector.                                                          *)
DeleteBegin(r, c) ==
    /\ definition[c] # Missing
    /\ c \notin granted
    /\ Begins(r, "delete", [op |-> "delete", connector |-> c])
    /\ UNCHANGED <<rows, generation, granted, events, discovery>>

DeleteWrite(r) ==
    /\ Doing(r, "delete")
    /\ LET c == request[r].connector IN
         /\ definition' = [definition EXCEPT ![c] = Missing]
         /\ credential' = [credential EXCEPT ![c] = Missing]
         /\ catalog' = [catalog EXCEPT ![c] = Missing]
         /\ health' = [health EXCEPT ![c] = "none"]
         /\ published' = published \ {c}
         /\ Keep(c, {})
         /\ Advance(c, 1)
    /\ Announce
    /\ Ends(r)
    /\ UNCHANGED <<granted, discovery>>

(* GroupPermissionManagementService: has_connector, then the write. *)
GrantBegin(r, c) ==
    /\ ToolsOf(catalog, c) # {}
    /\ Begins(r, "grant", [op |-> "grant", connector |-> c])
    /\ UNCHANGED <<rows, generation, granted, events, discovery>>

GrantWrite(r) ==
    /\ Doing(r, "grant")
    /\ granted' = granted \cup {request[r].connector}
    /\ IF granted' # granted THEN Announce ELSE UNCHANGED events
    /\ Ends(r)
    /\ UNCHANGED <<rows, generation, discovery>>

Revoke(c) ==
    /\ c \in granted
    /\ granted' = granted \ {c}
    /\ Announce
    /\ UNCHANGED <<rows, generation, request, discovery>>

(* A probe fails, a discovery has become obsolete, a name conflicts, the   *)
(* caller goes away: the request ends without an effect.                   *)
RequestFails(r) ==
    /\ request[r] # Missing
    /\ Ends(r)
    /\ UNCHANGED <<rows, generation, granted, events, discovery>>

-----------------------------------------------------------------------------
(* The OAuth client of any process refreshes the stored authorization, by  *)
(* compare-and-set.                                                        *)

\* Mutant: save_credential writes the row only.
RotateUnnoticed(c) ==
    /\ credential[c] \in Token["oauth"]
    /\ generation[c] < MaxGeneration
    /\ \E token \in Token["oauth"] : credential' = [credential EXCEPT ![c] = token]
    /\ UNCHANGED <<definition, catalog, health, published, active, generation, granted,
                   events, request, discovery>>

Rotate(c) ==
    /\ credential[c] \in Token["oauth"]
    /\ generation[c] < MaxGeneration
    /\ \E token \in Token["oauth"] : credential' = [credential EXCEPT ![c] = token]
    /\ Advance(c, 1)
    /\ UNCHANGED <<definition, catalog, health, published, active, granted, events,
                   request, discovery>>

-----------------------------------------------------------------------------
(* The periodic discovery task of a worker.                                *)

Moves(w, c, s) == stage' = [stage EXCEPT ![w][c] = s]
Busy(w) == { c \in Connector : stage[w][c] \in {"read", "probing"} }

(* ConfiguredConnectorRefresher.refresh lists the definitions and gathers  *)
(* a refresh for each one that is due; the next cycle waits for all.       *)
CycleStart(w) ==
    /\ running[w]
    /\ \A c \in Connector : stage[w][c] = "idle"
    /\ \E due \in SUBSET { c \in Connector : definition[c] # Missing } \ {{}} :
         stage' = [stage EXCEPT ![w] = [c \in Connector |->
                     IF c \in due THEN "listed" ELSE "idle"]]
    /\ UNCHANGED <<rows, generation, granted, events, request, running, admission>>

(* ConnectorDiscoveryExecutor.execute, within the semaphore. *)
Execute(w, c) ==
    /\ stage[w][c] = "listed"
    /\ Cardinality(Busy(w)) < MaxConcurrency
    /\ Moves(w, c, IF Admissible(c) THEN "read" ELSE "idle")
    /\ UNCHANGED <<rows, generation, granted, events, request, running, admission>>

(* DefinitionBoundDiscovery.discover. *)
Admit(w, c) ==
    /\ stage[w][c] = "read"
    /\ Admissible(c)
    /\ Moves(w, c, "probing")
    /\ admission' = [admission EXCEPT ![w][c] = AdmissionOf(c)]
    /\ UNCHANGED <<rows, generation, granted, events, request, running>>

(* A refresh raises: gather, and with it the periodic task, ends.  The     *)
(* other refreshes of the cycle go on.                                     *)
Stops(w, c) ==
    /\ running' = [running EXCEPT ![w] = FALSE]
    /\ Moves(w, c, "idle")
    /\ admission' = [admission EXCEPT ![w][c] = Missing]
    /\ UNCHANGED <<rows, generation, granted, events, request>>

AdmitUnavailable(w, c) ==
    /\ stage[w][c] = "read"
    /\ ~Admissible(c)
    /\ Stops(w, c)

RefreshOver(w, c) ==
    /\ Moves(w, c, "idle")
    /\ admission' = [admission EXCEPT ![w][c] = Missing]
    /\ UNCHANGED <<request, running>>

RefreshSucceeds(w, c) ==
    /\ stage[w][c] = "probing"
    /\ \E tools \in SUBSET Tool :
         /\ ApplyDiscovery(c, admission[w][c], Found(admission[w][c], tools), "healthy")
         /\ Keep(c, tools)
    /\ RefreshOver(w, c)

(* record_failure: the catalogue of a server that is away is kept. *)
RefreshFails(w, c) ==
    /\ stage[w][c] = "probing"
    /\ ApplyDiscovery(c, admission[w][c], catalog[c], "unhealthy")
    /\ RefreshOver(w, c)
    /\ UNCHANGED active

RefreshObsolete(w, c) ==
    /\ stage[w][c] = "probing"
    /\ ~Current(c, admission[w][c])
    /\ RefreshOver(w, c)
    /\ UNCHANGED <<rows, generation, granted, events>>

RefreshConflicts(w, c) ==
    /\ stage[w][c] = "probing"
    /\ Current(c, admission[w][c])
    /\ \E tools \in SUBSET Tool :
         ~UniqueNames(published, definition,
                      [catalog EXCEPT ![c] = Found(admission[w][c], tools)])
    /\ Stops(w, c)

Restart(w) ==
    /\ running' = [running EXCEPT ![w] = TRUE]
    /\ stage' = [stage EXCEPT ![w] = [c \in Connector |-> "idle"]]
    /\ admission' = [admission EXCEPT ![w] = [c \in Connector |-> Missing]]
    /\ UNCHANGED <<rows, generation, granted, events, request>>

-----------------------------------------------------------------------------
Begin(r, c) ==
    \/ PatchBegin(r, c) \/ PutBegin(r, c) \/ ReauthorizeBegin(r, c)
    \/ DiscoverBegin(r, c) \/ ToggleBegin(r, c) \/ DeleteBegin(r, c) \/ GrantBegin(r, c)

Continue(r) ==
    \/ EditResolve(r) \/ EditWritePrefix(r) \/ EditWrite(r)
    \/ DiscoverSucceeds(r) \/ DiscoverFails(r)
    \/ ToggleCheck(r) \/ ToggleWrite(r)
    \/ DeleteWrite(r) \/ GrantWrite(r) \/ RequestFails(r)

AtOnce(c) == Create(c) \/ Publish(c) \/ Unpublish(c) \/ Revoke(c) \/ Rotate(c)

Refresh(w, c) ==
    \/ Execute(w, c) \/ Admit(w, c) \/ AdmitUnavailable(w, c)
    \/ RefreshSucceeds(w, c) \/ RefreshFails(w, c)
    \/ RefreshObsolete(w, c) \/ RefreshConflicts(w, c)

Next ==
    \/ \E r \in Request, c \in Connector : Begin(r, c)
    \/ \E r \in Request : Continue(r)
    \/ \E c \in Connector : AtOnce(c)
    \/ \E w \in Worker, c \in Connector : Refresh(w, c)
    \/ \E w \in Worker : CycleStart(w) \/ Restart(w)

Spec == Init /\ [][Next]_vars

-----------------------------------------------------------------------------
(* Properties.                                                             *)

(* Types.  A request is left with a usable credential before it probes, a  *)
(* discovery task holds an admission just while it probes.                 *)
TypeOK ==
    /\ definition \in [Connector -> Optional(Definition)]
    /\ credential \in [Connector -> Optional(Credential)]
    /\ catalog \in [Connector -> Optional(Catalog)]
    /\ health \in [Connector -> {"none", "healthy", "unhealthy"}]
    /\ published \subseteq Connector
    /\ active \in [Connector -> SUBSET Tool]
    /\ generation \in [Connector -> Nat]
    /\ granted \subseteq Connector
    /\ events \in Nat
    /\ request \in [Request -> Optional(InFlight)]
    /\ running \in [Worker -> BOOLEAN]
    /\ stage \in [Worker -> [Connector -> {"idle", "listed", "read", "probing"}]]
    /\ admission \in [Worker -> [Connector -> Optional(Admission)]]
    /\ \A w \in Worker, c \in Connector :
          stage[w][c] = "probing" <=> admission[w][c] # Missing

(* Whatever is edited, discovered and published at the same time, no two   *)
(* tools of published connectors, and no such tool and a native one, ever  *)
(* have the same public name.  Each transaction validates the rows it      *)
(* leaves behind, not the ones its request has read.                       *)
PublishedNamesAreUnique == UniqueNames(published, definition, catalog)

(* A published connector has a definition and a credential to call its     *)
(* server with, and if it lost its catalogue it is known to be unhealthy:  *)
(* publishing needs a catalogue, a catalogue comes with a credential, and  *)
(* only a failed discovery takes it away.                                  *)
PublishedConnectorsAreUsable ==
    \A c \in published :
        /\ definition[c] # Missing /\ credential[c] # Missing
        /\ catalog[c] = Missing => health[c] = "unhealthy"

(* Deletion removes every row that could serve or contact the server, and  *)
(* no refresh or late discovery result puts one back.                      *)
NothingOfADeletedConnectorRemains ==
    \A c \in Connector : definition[c] = Missing =>
        /\ credential[c] = Missing /\ catalog[c] = Missing
        /\ health[c] = "none" /\ c \notin published

(* A catalogue is only ever replaced by what was found at the server of    *)
(* the definition it is then stored with: a discovery that was overtaken   *)
(* by an edit leaves no trace.                                             *)
CatalogComesFromCurrentConfiguration ==
    [][\A c \in Connector : catalog'[c] \notin {catalog[c], Missing} =>
          /\ definition'[c] # Missing
          /\ catalog'[c].server = definition'[c].conf]_vars

Fences(c, adm) ==
    /\ adm.generation <= generation[c]
    /\ adm.generation = generation[c] => AdmissionOf(c) = adm

(* The generation alone tells whether an admission is still current: every *)
(* transaction that touches what a probe depends on advances it, and no    *)
(* deletion sets it back.                                                  *)
GenerationFencesEverything ==
    /\ \A r \in Request : Doing(r, "discover") =>
          Fences(request[r].connector, request[r].admission)
    /\ \A w \in Worker, c \in Connector :
          stage[w][c] = "probing" => Fences(c, admission[w][c])

(* What the rows of a connector say of one another, and of the probes that *)
(* are on their way.                                                       *)
ConnectorsInv ==
    /\ PublishedConnectorsAreUsable
    /\ NothingOfADeletedConnectorRemains
    /\ GenerationFencesEverything

(* What was found was found with a credential. *)
CatalogNeedsCredential ==
    \A c \in Connector : catalog[c] # Missing => definition[c] # Missing /\ credential[c] # Missing

(* The conjunction of the invariants, which every step keeps: a connector  *)
(* is published from a catalogue, so that PublishedConnectorsAreUsable     *)
(* rests on CatalogNeedsCredential; a new definition collides with nothing *)
(* because it is not published, which NothingOfADeletedConnectorRemains    *)
(* says of the identity it takes.                                          *)
IInv ==
    /\ TypeOK
    /\ CatalogNeedsCredential
    /\ NothingOfADeletedConnectorRemains
    /\ PublishedConnectorsAreUsable
    /\ PublishedNamesAreUnique
    /\ GenerationFencesEverything

(* "A failed discovery is not an authoritative empty tool catalog": what   *)
(* an edit or a discovery removes from the administrator's tool choices    *)
(* are tools that a successful probe did not find, or a deleted connector's*)
ToolChoicesSurviveFailedDiscovery ==
    [][\A c \in Connector :
          generation'[c] # generation[c] /\ definition'[c] # Missing =>
             \A t \in active[c] \ active'[c] :
                health'[c] = "healthy" /\ t \notin ToolsOf(catalog', c)]_vars

(* Whatever changes the set of connectors, a definition, a catalogue or a  *)
(* publication appends an event in the same transaction.                   *)
CatalogueChangesAreAnnounced ==
    [][<<definition', catalog', published'>> # <<definition, catalog, published>> =>
          events' > events]_vars

(* What the code does not keep. *)

(* "Deleted identities retain generation tombstones so an older probe      *)
(* cannot recreate their state" (tool-runtime.md).                         *)
DeletedIdentityStaysDeleted ==
    [][\A c \in Connector : definition[c] = Missing /\ generation[c] > 0 =>
          definition'[c] = Missing]_vars
=============================================================================
