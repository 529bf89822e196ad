--------------------------- MODULE OpenApiConnectors ---------------------------
(***************************************************************************)
(* Connectors made from an OpenAPI document (core/connectors/openapi,      *)
(* rest/connectors/openapi): they are created, get a catalogue of          *)
(* operations by importing a document, are published, their operations     *)
(* switched on and granted, and the operations called.                     *)
(*                                                                         *)
(* Every request is a sequence of short transactions; each step below is   *)
(* one of them, and other requests come in between.  Publication,          *)
(* activations and grants are the tables that all connectors share: unlike *)
(* a downstream connector an OpenAPI one leaves them, and its catalogue,   *)
(* behind when it is deleted.                                              *)
(*                                                                         *)
(* Left out are the bearer token, the description override and the         *)
(* invocation policies: rows that no step below reads together with        *)
(* these.  The permissions are those of one group.                         *)
(***************************************************************************)
EXTENDS Naturals, Sequences

CONSTANTS
    Connector,   \* identities that may be given out
    Operation,
    Document,    \* a document stands for the operations it has
    Request,     \* requests that may be going on at a time
    Whole,       \* the permission for all operations of a connector
    Missing      \* no catalogue

ASSUME OpenApiAssumption ==
    /\ Document \subseteq SUBSET Operation
    /\ Whole \notin Operation
    /\ Missing \notin Document

Target == Operation \cup {Whole}

---------------------------------------------------------------------------
(* What the requests do, transaction by transaction.                       *)

\* A failed setup or creation goes on with the steps of a deletion.
CreateSteps == <<"describe">>
DeleteSteps == <<"defined", "remove">>

\* The route asks for the connector, and so does the service; the catalogue
\* so far takes two reads, header and rows.
ImportSteps == <<"defined", "defined", "header", "rows", "guard", "replace">>
SetupSteps == <<"defined", "header", "rows", "guard", "replace", "configure", "defined">>

\* list_operation_tools: the summaries, and each operation once more.
ToggleSteps == <<"header", "row", "header", "row", "activate">>

PublishSteps == <<"defined", "catalogue", "unpublished", "publish">>
UnpublishSteps == <<"defined", "published", "unpublish">>

\* An operation is resolved with its connector; a connector needs operations.
GrantSteps == <<"header", "row", "defined", "permit">>
GrantAllSteps == <<"defined", "operations", "permit">>

\* Mutant: an operation with a row is ready, whatever has become of its
\* connector.
CallStepsUnready == <<"published", "active", "header", "row",
                      "permitted", "header", "row", "catalogue", "send">>

\* Availability and readiness, the permission, the operation once more, and
\* the server.
CallSteps == <<"published", "active", "header", "row", "defined",
               "permitted", "header", "row", "catalogue", "send">>

Steps == [create |-> CreateSteps, setup |-> SetupSteps, import |-> ImportSteps,
          delete |-> DeleteSteps, toggle |-> ToggleSteps, publish |-> PublishSteps,
          unpublish |-> UnpublishSteps, grant |-> GrantSteps, grantAll |-> GrantAllSteps,
          withdraw |-> <<"permit">>, call |-> CallSteps]

Op == DOMAIN Steps

\* current: is the header that was last read still that of the catalogue?
\* Every import gives its catalogue an identity of its own.
Running == [op : Op, at : Nat, connector : Connector, document : SUBSET Operation,
            target : Target, on : BOOLEAN, current : BOOLEAN, previous : SUBSET Operation]

Idle == [op |-> "idle"]

VARIABLES
    used,        \* identities given out
    defined,     \* connectors with a definition
    catalog,     \* operations of the current catalogue, or Missing
    published,
    active,      \* operations that are switched on
    granted,     \* operations, or Whole, granted to the group
    request,
    seen,        \* history: what has been true at some time of a call
    kept         \* history: what has been listed and granted throughout an import

definitions == <<used, defined>>
choices == <<published, active, granted>>
store == <<definitions, catalog, choices>>
history == <<seen, kept>>
vars == <<store, request, history>>

Init ==
    /\ used = {} /\ defined = {}
    /\ catalog = [c \in Connector |-> Missing]
    /\ published = {}
    /\ active = [c \in Connector |-> {}]
    /\ granted = [c \in Connector |-> {}]
    /\ request = [r \in Request |-> Idle]
    /\ seen = [r \in Request |-> {}]
    /\ kept = [r \in Request |-> {}]

---------------------------------------------------------------------------
(* The course of a request.                                                *)

StepOf(q) == Steps[q.op][q.at]
Goes(r, step) == request[r] # Idle /\ StepOf(request[r]) = step

Advanced(q) == IF q.at < Len(Steps[q.op]) THEN [q EXCEPT !.at = @ + 1] ELSE Idle

\* What a creation or a setup has made is deleted again.
Refused(q) == IF q.op \in {"create", "setup"} THEN [q EXCEPT !.op = "delete", !.at = 1] ELSE Idle

Advances(r) == request' = [request EXCEPT ![r] = Advanced(@)]

Start(r, q) == request[r] = Idle /\ request' = [request EXCEPT ![r] = q]

NewRequest(op, c) == [op |-> op, at |-> 1, connector |-> c, document |-> {}, target |-> Whole,
                      on |-> FALSE, current |-> FALSE, previous |-> {}]

---------------------------------------------------------------------------
(* The requests arrive.  Creation and setup begin with the definition of a *)
(* new connector; all others name one that has been made at some time.     *)

Defines(r, q) == q.connector \notin used
    /\ Start(r, q)
    /\ used' = used \cup {q.connector} /\ defined' = defined \cup {q.connector}
    /\ UNCHANGED <<catalog, choices>>

Asks(r, q) == q.connector \in used /\ Start(r, q) /\ UNCHANGED store

Create(r) == \E c \in Connector : Defines(r, NewRequest("create", c))

\* What can be refused has been before the connector is defined.
Setup(r) == \E c \in Connector, d \in Document :
    Defines(r, [NewRequest("setup", c) EXCEPT !.document = d])

AskForImport(r) == \E c \in Connector, d \in Document :
    Asks(r, [NewRequest("import", c) EXCEPT !.document = d])

AskForActivation(r) == \E c \in Connector, x \in Operation, on \in BOOLEAN :
    Asks(r, [NewRequest("toggle", c) EXCEPT !.target = x, !.on = on])

AskForPublication(r) == \E c \in Connector, op \in {"publish", "unpublish"} :
    Asks(r, NewRequest(op, c))

AskForDeletion(r) == \E c \in Connector : Asks(r, NewRequest("delete", c))

\* A permission is added to those of the group (on), or put in their place.
AskForGrant(r) == \E c \in Connector, x \in Target, on \in BOOLEAN :
    Asks(r, [NewRequest(IF x = Whole THEN "grantAll" ELSE "grant", c)
                 EXCEPT !.target = x, !.on = on])

AskForWithdrawal(r) == \E c \in Connector, x \in Target :
    Asks(r, [NewRequest("withdraw", c) EXCEPT !.target = x])

Call(r) == \E c \in Connector, x \in Operation :
    Asks(r, [NewRequest("call", c) EXCEPT !.target = x])

---------------------------------------------------------------------------
(* Reads.                                                                  *)

Listed(c) == IF catalog[c] = Missing THEN {} ELSE catalog[c]

\* The row is that of the header's catalogue, or none.
FindsRow(q) == q.current /\ q.target \in Listed(q.connector)

Permitted(q) == {q.target, Whole} \cap granted[q.connector] # {}

\* Mutant: the difference the other way round.
AllowsAdding(q) == (q.document \ q.previous) \cap granted[q.connector] = {}

\* An import may not remove what is granted.
Allows(q) == (q.previous \ q.document) \cap granted[q.connector] = {}

Passes(q) ==
    \/ StepOf(q) \in {"describe", "configure", "send"}
    \/ StepOf(q) = "defined" /\ q.connector \in defined
    \/ StepOf(q) = "row" /\ FindsRow(q)
    \/ StepOf(q) = "catalogue" /\ catalog[q.connector] # Missing
    \/ StepOf(q) = "operations" /\ Listed(q.connector) # {}
    \/ StepOf(q) = "published" /\ q.connector \in published
    \/ StepOf(q) = "unpublished" /\ q.connector \notin published
    \/ StepOf(q) = "active" /\ q.target \in active[q.connector]
    \/ StepOf(q) = "permitted" /\ Permitted(q)
    \/ StepOf(q) = "guard" /\ Allows(q)

Checks == {"describe", "configure", "send", "defined", "row", "catalogue", "operations",
           "published", "unpublished", "active", "permitted", "guard"}

Look(r) ==
    /\ request[r] # Idle /\ StepOf(request[r]) \in Checks
    /\ request' = [request EXCEPT ![r] = IF Passes(@) THEN Advanced(@) ELSE Refused(@)]
    /\ UNCHANGED store

ReadHeader(r) ==
    /\ Goes(r, "header")
    /\ request' = [request EXCEPT ![r] =
            [Advanced(@) EXCEPT !.current = catalog[request[r].connector] # Missing]]
    /\ UNCHANGED store

\* read_current_catalog: None if there was no header, or if another catalogue
\* has taken its place; None is a catalogue without operations.
ReadRows(r) ==
    /\ Goes(r, "rows")
    /\ request' = [request EXCEPT ![r] = [Advanced(@) EXCEPT !.previous =
            IF request[r].current THEN Listed(request[r].connector) ELSE {}]]
    /\ UNCHANGED store

---------------------------------------------------------------------------
(* Writes.                                                                 *)

\* The definition is written as it was read; operations that have gone lose
\* their activation; headers that others have read are no longer current.
Replace(r) == LET q == request[r] c == q.connector IN
    /\ Goes(r, "replace")
    /\ defined' = defined \cup {c}
    /\ catalog' = [catalog EXCEPT ![c] = q.document]
    /\ active' = [active EXCEPT ![c] = @ \cap q.document]
    /\ request' = [x \in Request |->
            IF x = r THEN Advanced(q)
            ELSE IF request[x] # Idle /\ request[x].connector = c
            THEN [request[x] EXCEPT !.current = FALSE]
            ELSE request[x]]
    /\ UNCHANGED <<used, published, granted>>

Activate(r) == LET q == request[r] c == q.connector IN
    /\ Goes(r, "activate")
    /\ active' = [active EXCEPT ![c] = IF q.on THEN @ \cup {q.target} ELSE @ \ {q.target}]
    /\ Advances(r)
    /\ UNCHANGED <<definitions, catalog, published, granted>>

Publish(r) ==
    /\ Goes(r, "publish")
    /\ published' = published \cup {request[r].connector}
    /\ Advances(r)
    /\ UNCHANGED <<definitions, catalog, active, granted>>

Unpublish(r) ==
    /\ Goes(r, "unpublish")
    /\ published' = published \ {request[r].connector}
    /\ Advances(r)
    /\ UNCHANGED <<definitions, catalog, active, granted>>

Permissions(q, now) ==
    IF q.op = "withdraw" THEN now \ {q.target}
    ELSE IF q.on THEN now \cup {q.target} ELSE {q.target}

Permit(r) ==
    /\ Goes(r, "permit")
    /\ granted' = [granted EXCEPT ![request[r].connector] = Permissions(request[r], @)]
    /\ Advances(r)
    /\ UNCHANGED <<definitions, catalog, published, active>>

\* Only the definition goes.
Remove(r) ==
    /\ Goes(r, "remove")
    /\ defined' = defined \ {request[r].connector}
    /\ Advances(r)
    /\ UNCHANGED <<used, catalog, choices>>

---------------------------------------------------------------------------

\* The database fails: creation and setup clean up.
Fails(r) ==
    /\ request[r].op \in {"create", "setup"}
    /\ request' = [request EXCEPT ![r] = Refused(@)]
    /\ UNCHANGED store

\* Any other failure, a cancellation, and the end of the process.
Dies(r) ==
    /\ request[r] # Idle
    /\ request' = [request EXCEPT ![r] = Idle]
    /\ UNCHANGED store

Reads(r) == Look(r) \/ ReadHeader(r) \/ ReadRows(r)
Writes(r) == Replace(r) \/ Activate(r) \/ Publish(r) \/ Unpublish(r) \/ Permit(r) \/ Remove(r)
Arrives(r) ==
    \/ Create(r) \/ Setup(r) \/ Call(r)
    \/ AskForImport(r) \/ AskForDeletion(r) \/ AskForPublication(r)
    \/ AskForActivation(r) \/ AskForGrant(r) \/ AskForWithdrawal(r)

Acts(r) == Arrives(r) \/ Reads(r) \/ Writes(r) \/ Fails(r) \/ Dies(r)

---------------------------------------------------------------------------
(* History.                                                                *)

Facts == {"published", "active", "row", "defined", "permitted"}

\* What the checks of a call look for, as it is now.
Holding(q) == {fact \in Facts :
    \/ fact = "published" /\ q.connector \in published
    \/ fact = "active" /\ q.target \in active[q.connector]
    \/ fact = "row" /\ q.target \in Listed(q.connector)
    \/ fact = "defined" /\ q.connector \in defined
    \/ fact = "permitted" /\ Permitted(q)}

\* What an import must not drop, as it is now.
Needed(q) == Listed(q.connector) \cap granted[q.connector]

Imports(q) == q.op \in {"setup", "import"}

\* Another import has replaced the catalogue whose header was read.
Overtaken(r) == Goes(r, "rows") /\ request[r].current /\ ~request'[r].current

Watch ==
    /\ seen' = [r \in Request |-> IF request'[r].op = "call"
                                  THEN seen[r] \cup Holding(request[r])' ELSE {}]
    /\ kept' = [r \in Request |->
            IF ~Imports(request'[r]) \/ (request[r] # Idle /\ Overtaken(r)) THEN {}
            ELSE IF request[r] = Idle THEN Needed(request[r])'
            ELSE kept[r] \cap Needed(request[r])']

Next == (\E r \in Request : Acts(r)) /\ Watch

Spec == Init /\ [][Next]_vars

---------------------------------------------------------------------------
(* Properties.                                                             *)

TypeOK ==
    /\ used \subseteq Connector /\ defined \subseteq used
    /\ catalog \in [Connector -> Document \cup {Missing}]
    /\ published \subseteq used
    /\ active \in [Connector -> SUBSET Operation]
    /\ granted \in [Connector -> SUBSET Target]
    /\ request \in [Request -> Running \cup {Idle}]
    /\ \A r \in Request : request[r] # Idle =>
            /\ request[r].connector \in used
            /\ request[r].at \in 1..Len(Steps[request[r].op])
            /\ Imports(request[r]) => request[r].document \in Document
            /\ request[r].op \in {"toggle", "call"} => request[r].target \in Operation
    /\ seen \in [Request -> SUBSET Facts]
    /\ kept \in [Request -> SUBSET Operation]

\* A connector is published with a catalogue, or not at all, though the two
\* are looked at and written in different transactions.
PublishedHaveCatalogue == \A c \in published : catalog[c] # Missing

\* A call is sent only if, at some time since it began, the connector was
\* published and defined, the operation was in its current catalogue and
\* switched on, and the group had the permission: nothing older than the call
\* opens the way, and of what a deletion leaves behind nothing does.
CallsAreAllowed == \A r \in Request : Goes(r, "send") => seen[r] = Facts

\* The invariant of the connectors.
OpenApiInv == TypeOK /\ PublishedHaveCatalogue /\ CallsAreAllowed

\* "Active permission grants prevent removing OpenAPI operations"
\* (core/connectors/openapi/errors.py): an import that is about to write keeps
\* every operation that has been listed and granted since the import began,
\* unless another import came between its two reads of the catalogue
\* (Overtaken): then it has taken the catalogue for missing.
ImportsKeepWhatIsGranted == \A r \in Request :
    Goes(r, "replace") => kept[r] \subseteq request[r].document
===========================================================================
