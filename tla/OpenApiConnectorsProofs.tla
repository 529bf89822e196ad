------------------------ MODULE OpenApiConnectorsProofs ------------------------
(***************************************************************************)
(* Proofs about OpenApiConnectors, for any number of connectors, requests, *)
(* operations and documents.                                               *)
(***************************************************************************)
EXTENDS OpenApiConnectors, Integers, TLAPS

---------------------------------------------------------------------------
(* The sequences of steps.                                                 *)

\* The operations and their steps.
LEMMA Sequences ==
    /\ Op = {"create", "setup", "import", "delete", "toggle", "publish", "unpublish",
             "grant", "grantAll", "withdraw", "call"}
    /\ Steps.create = CreateSteps /\ Steps.setup = SetupSteps /\ Steps.import = ImportSteps
    /\ Steps.delete = DeleteSteps /\ Steps.toggle = ToggleSteps
    /\ Steps.publish = PublishSteps /\ Steps.unpublish = UnpublishSteps
    /\ Steps.grant = GrantSteps /\ Steps.grantAll = GrantAllSteps
    /\ Steps.withdraw = <<"permit">> /\ Steps.call = CallSteps
BY DEF Op, Steps

\* Every operation has a step to begin with.
LEMMA Lengths == \A op \in Op : Len(Steps[op]) \in Nat \ {0}
BY Sequences DEF CreateSteps, DeleteSteps, ImportSteps, SetupSteps, ToggleSteps,
    PublishSteps, UnpublishSteps, GrantSteps, GrantAllSteps, CallSteps

\* What comes before and after the steps of an import.
LEMMA ImportOrder == \A op \in {"setup", "import"} : \A i \in 1..Len(Steps[op]) :
    /\ Steps[op][i] = "rows" => i > 1 /\ Steps[op][i - 1] = "header"
    /\ Steps[op][i] = "guard" => i > 1 /\ Steps[op][i - 1] = "rows"
    /\ Steps[op][i] = "replace" => i > 1 /\ Steps[op][i - 1] = "guard"
<1>1. \A i \in 1..7 :
    /\ SetupSteps[i] = "rows" => i > 1 /\ SetupSteps[i - 1] = "header"
    /\ SetupSteps[i] = "guard" => i > 1 /\ SetupSteps[i - 1] = "rows"
    /\ SetupSteps[i] = "replace" => i > 1 /\ SetupSteps[i - 1] = "guard"
  BY DEF SetupSteps
<1>2. \A i \in 1..6 :
    /\ ImportSteps[i] = "rows" => i > 1 /\ ImportSteps[i - 1] = "header"
    /\ ImportSteps[i] = "guard" => i > 1 /\ ImportSteps[i - 1] = "rows"
    /\ ImportSteps[i] = "replace" => i > 1 /\ ImportSteps[i - 1] = "guard"
  BY DEF ImportSteps
<1>3. Len(SetupSteps) = 7 /\ Len(ImportSteps) = 6
  BY DEF SetupSteps, ImportSteps
<1>4. QED
  BY <1>1, <1>2, <1>3, Sequences

\* Where the steps are that matter: only imports replace a catalogue, and a
\* header is followed by a step.
Placed(op, steps) == \A i \in 1..Len(steps) :
    /\ steps[i] \in {"rows", "guard", "replace"} => op \in {"setup", "import"}
    /\ steps[i] = "send" => op = "call" /\ i = 10
    /\ steps[i] = "publish" => op = "publish" /\ i = 4
    /\ steps[i] = "activate" => op = "toggle"
    /\ steps[i] \in {"header", "rows"} => i < Len(steps)

\* The steps are where they are said to be.
LEMMA Places == \A op \in Op : Placed(op, Steps[op])
<1>1. Placed("create", CreateSteps)
  BY DEF Placed, CreateSteps
<1>2. Placed("setup", SetupSteps)
  BY DEF Placed, SetupSteps
<1>3. Placed("import", ImportSteps)
  BY DEF Placed, ImportSteps
<1>4. Placed("delete", DeleteSteps)
  BY DEF Placed, DeleteSteps
<1>5. Placed("toggle", ToggleSteps)
  BY DEF Placed, ToggleSteps
<1>6. Placed("publish", PublishSteps)
  BY DEF Placed, PublishSteps
<1>7. Placed("unpublish", UnpublishSteps)
  BY DEF Placed, UnpublishSteps
<1>8. Placed("grant", GrantSteps)
  BY DEF Placed, GrantSteps
<1>9. Placed("grantAll", GrantAllSteps)
  BY DEF Placed, GrantAllSteps
<1>10. Placed("withdraw", <<"permit">>)
  BY DEF Placed
<1>11. Placed("call", CallSteps)
  <2>1. \A i \in 1..10 : CallSteps[i] \notin {"rows", "guard", "replace", "publish", "activate"}
    BY DEF CallSteps
  <2>2. \A i \in 1..10 : CallSteps[i] = "send" => i = 10
    BY DEF CallSteps
  <2>3. \A i \in 1..10 : CallSteps[i] = "header" => i < 10
    BY DEF CallSteps
  <2>4. Len(CallSteps) = 10
    BY DEF CallSteps
  <2>5. QED
    BY <2>1, <2>2, <2>3, <2>4 DEF Placed
<1>12. QED
  BY <1>1, <1>2, <1>3, <1>4, <1>5, <1>6, <1>7, <1>8, <1>9, <1>10, <1>11, Sequences

---------------------------------------------------------------------------
(* The inductive invariant.                                                *)

\* What the steps of a call that are over have looked for, has been.
Looked(r) == request[r].op = "call" =>
    \A i \in 1..(request[r].at - 1) : CallSteps[i] \in Facts => CallSteps[i] \in seen[r]

\* A publication has seen a catalogue.
Prepared(r) == request[r].op = "publish" /\ request[r].at > 2 =>
    catalog[request[r].connector] # Missing

\* What an import must keep is listed and granted; it is in what the import
\* has read, and the guard leaves it in the document.
Keeps(r) ==
    /\ kept[r] # {} => Imports(request[r]) /\ kept[r] \subseteq Needed(request[r])
    /\ Goes(r, "rows") /\ ~request[r].current => kept[r] = {}
    /\ Goes(r, "guard") => kept[r] \subseteq request[r].previous
    /\ Goes(r, "replace") => kept[r] \subseteq request[r].document

IInv ==
    /\ TypeOK
    /\ PublishedHaveCatalogue
    /\ \A r \in Request : Looked(r) /\ Prepared(r) /\ Keeps(r)

\* There is nothing to begin with.
LEMMA InitInv == Init => IInv
BY OpenApiAssumption DEF Init, IInv, TypeOK, PublishedHaveCatalogue, Looked, Prepared, Keeps, Idle, Goes

---------------------------------------------------------------------------
(* What a step does to a request, whatever it is.                          *)

Begins(r) ==
    /\ request[r] = Idle /\ request'[r] \in Running
    /\ request'[r].at = 1 /\ request'[r].connector \in used'
    /\ Imports(request'[r]) => request'[r].document \in Document
    /\ request'[r].op \in {"toggle", "call"} => request'[r].target \in Operation

Undoes(r) ==
    /\ request[r] # Idle
    /\ request'[r] = [request[r] EXCEPT !.op = "delete", !.at = 1]

\* Another request has replaced the catalogue.
Ages(r) ==
    /\ request[r] # Idle
    /\ request'[r] = [request[r] EXCEPT !.current = FALSE]

Moves(r) == LET q == request[r] p == request'[r] IN
    /\ q # Idle /\ q.at < Len(Steps[q.op])
    /\ p = [q EXCEPT !.at = @ + 1, !.current = p.current, !.previous = p.previous]
    /\ p.current \in BOOLEAN /\ p.previous \in SUBSET Operation
    /\ StepOf(q) \in Checks => Passes(q) /\ UNCHANGED store /\ p.previous = q.previous
    /\ StepOf(q) = "header" => /\ UNCHANGED store
                              /\ p.current = (catalog[q.connector] # Missing)
    /\ StepOf(q) = "rows" =>
        /\ UNCHANGED store
        /\ p.previous = IF q.current THEN Listed(q.connector) ELSE {}

Course(r) == \/ request'[r] \in {request[r], Idle}
             \/ Begins(r) \/ Undoes(r) \/ Ages(r) \/ Moves(r)

\* A request is idle or it is not.
LEMMA Idleness ==
    ASSUME TypeOK, NEW r \in Request
    PROVE  /\ request[r] # Idle <=> request[r] \in Running
           /\ request[r] # Idle => request[r].op \in Op
           /\ request[r] = Idle => request[r].op \notin Op
<1>1. "idle" \notin Op
  BY Sequences
<1>2. QED
  BY <1>1 DEF TypeOK, Running, Idle

\* How a request goes on.
LEMMA Advancing ==
    ASSUME TypeOK, NEW r \in Request, request[r] # Idle
    PROVE  LET q == request[r] p == Advanced(q) IN
           \/ p = Idle
           \/ q.at < Len(Steps[q.op]) /\ p = [q EXCEPT !.at = @ + 1]
BY DEF Advanced

\* A new request has its name to itself.
LEMMA ArrivalCourse ==
    ASSUME TypeOK, NEW r \in Request, Arrives(r)
    PROVE  /\ Begins(r)
           /\ \A x \in Request \ {r} : request'[x] = request[x]
<1> DEFINE Fits(q) == /\ q \in Running /\ q.at = 1
                      /\ Imports(q) => q.document \in Document
                      /\ q.op \in {"toggle", "call"} => q.target \in Operation
<1>1. ASSUME NEW q, Fits(q), Defines(r, q)
      PROVE  Begins(r) /\ \A x \in Request \ {r} : request'[x] = request[x]
  BY <1>1 DEF Defines, Start, Begins, TypeOK
<1>2. ASSUME NEW q, Fits(q), Asks(r, q)
      PROVE  Begins(r) /\ \A x \in Request \ {r} : request'[x] = request[x]
  BY <1>2 DEF Asks, Start, Begins, TypeOK, store, definitions
<1>3. ASSUME NEW op \in Op \ {"setup", "import"}, NEW c \in Connector, NEW x \in Target,
             NEW on \in BOOLEAN, op \in {"toggle", "call"} => x \in Operation
      PROVE  /\ Fits([NewRequest(op, c) EXCEPT !.target = x, !.on = on])
             /\ Fits([NewRequest(op, c) EXCEPT !.target = x])
  BY <1>3 DEF NewRequest, Running, Imports, Target
<1>15. ASSUME NEW op \in Op \ {"setup", "import", "toggle", "call"}, NEW c \in Connector
       PROVE  Fits(NewRequest(op, c))
  BY <1>15 DEF NewRequest, Running, Imports, Target
<1>4. ASSUME NEW op \in {"setup", "import"}, NEW c \in Connector, NEW d \in Document
      PROVE  Fits([NewRequest(op, c) EXCEPT !.document = d])
  BY <1>4, Sequences, OpenApiAssumption DEF NewRequest, Running, Imports, Target
<1> HIDE DEF Fits
<1>5. CASE Create(r)
  BY <1>1, <1>15, <1>5, Sequences DEF Create
<1>6. CASE Setup(r)
  BY <1>1, <1>4, <1>6 DEF Setup
<1>7. CASE Call(r)
  BY <1>2, <1>3, <1>7, Sequences DEF Call, Target
<1>8. CASE AskForImport(r)
  BY <1>2, <1>4, <1>8 DEF AskForImport
<1>9. CASE AskForDeletion(r)
  BY <1>2, <1>15, <1>9, Sequences DEF AskForDeletion
<1>10. CASE AskForPublication(r)
  BY <1>2, <1>15, <1>10, Sequences DEF AskForPublication
<1>11. CASE AskForActivation(r)
  BY <1>2, <1>3, <1>11, Sequences DEF AskForActivation, Target
<1>12. CASE AskForGrant(r)
  BY <1>2, <1>3, <1>12, Sequences DEF AskForGrant
<1>13. CASE AskForWithdrawal(r)
  BY <1>2, <1>3, <1>13, Sequences DEF AskForWithdrawal
<1>14. QED
  BY <1>5, <1>6, <1>7, <1>8, <1>9, <1>10, <1>11, <1>12, <1>13 DEF Arrives

\* Steps that concern one request.
LEMMA ReadCourse ==
    ASSUME TypeOK, NEW r \in Request, Reads(r)
    PROVE  /\ request[r] # Idle /\ UNCHANGED store
           /\ request'[r] = Idle \/ Undoes(r) \/ Moves(r)
           /\ \A x \in Request \ {r} : request'[x] = request[x]
<1> USE DEF Goes
<1>1. request[r] # Idle /\ request[r] \in Running /\ StepOf(request[r]) = Steps[request[r].op][request[r].at]
  BY Idleness DEF Reads, Look, ReadHeader, ReadRows, StepOf
<1>2. CASE Look(r)
  <2>1. request' = [request EXCEPT ![r] = IF Passes(@) THEN Advanced(@) ELSE Refused(@)]
        /\ UNCHANGED store /\ StepOf(request[r]) \in Checks
    BY <1>2 DEF Look
  <2>2. CASE Passes(request[r])
    <3>1. request'[r] = Advanced(request[r])
      BY <2>1, <2>2 DEF TypeOK
    <3>2. CASE request'[r] # Idle
      <4>1. request[r].at < Len(Steps[request[r].op]) /\ request'[r] = [request[r] EXCEPT !.at = @ + 1]
        BY <3>1, <3>2, <1>1, Advancing
      <4>2. StepOf(request[r]) \notin {"header", "rows"}
        BY <2>1 DEF Checks
      <4>3. Moves(r)
        BY <4>1, <4>2, <2>1, <2>2, <1>1 DEF Moves, Running
      <4>4. QED
        BY <4>3, <2>1, <1>1 DEF TypeOK
    <3>3. QED
      BY <3>2, <2>1, <1>1 DEF TypeOK
  <2>3. CASE ~Passes(request[r])
    BY <2>1, <2>3, <1>1 DEF Refused, Undoes, TypeOK
  <2>4. QED
    BY <2>2, <2>3
<1>3. CASE ReadHeader(r) \/ ReadRows(r)
  <2>1. request[r].at < Len(Steps[request[r].op])
    BY <1>1, <1>3, Places, Idleness DEF ReadHeader, ReadRows, Placed, TypeOK, StepOf
  <2>2. Advanced(request[r]) = [request[r] EXCEPT !.at = @ + 1]
    BY <2>1 DEF Advanced
  <2>3. CASE ReadHeader(r)
    <3>1. request'[r] = [request[r] EXCEPT !.at = @ + 1, !.current = catalog[request[r].connector] # Missing]
      BY <2>2, <2>3, <1>1 DEF ReadHeader, TypeOK, Running
    <3>2. StepOf(request[r]) = "header" /\ UNCHANGED store
      BY <2>3 DEF ReadHeader
    <3>3. Moves(r)
      BY <3>1, <3>2, <2>1, <1>1 DEF Moves, Running, Checks
    <3>4. QED
      BY <3>3, <3>2, <2>3, <1>1 DEF ReadHeader, TypeOK
  <2>4. CASE ReadRows(r)
    <3>1. request'[r] = [request[r] EXCEPT !.at = @ + 1, !.previous =
                            IF request[r].current THEN Listed(request[r].connector) ELSE {}]
      BY <2>2, <2>4, <1>1 DEF ReadRows, TypeOK, Running
    <3>2. StepOf(request[r]) = "rows" /\ UNCHANGED store
      BY <2>4 DEF ReadRows
    <3>3. Listed(request[r].connector) \in SUBSET Operation
      BY <1>1, OpenApiAssumption DEF Listed, TypeOK, Running
    <3>4. Moves(r)
      BY <3>1, <3>2, <3>3, <2>1, <1>1 DEF Moves, Running, Checks
    <3>5. QED
      BY <3>4, <3>2, <2>4, <1>1 DEF ReadRows, TypeOK
  <2>5. QED
    BY <2>3, <2>4, <1>3
<1>4. QED
  BY <1>2, <1>3 DEF Reads

\* A write ends its request or goes on; a replacement ages what others have
\* read.
LEMMA WriteCourse ==
    ASSUME TypeOK, NEW r \in Request, Writes(r)
    PROVE  /\ request[r] # Idle
           /\ request'[r] = Idle \/ Moves(r)
           /\ \A x \in Request \ {r} : request'[x] = request[x] \/ Ages(x)
<1> DEFINE Does == {"replace", "activate", "publish", "unpublish", "permit", "remove"}
<1>1. request[r] # Idle /\ StepOf(request[r]) \in Does
  BY DEF Writes, Replace, Activate, Publish, Unpublish, Permit, Remove, Goes
<1>2. request'[r] = Advanced(request[r])
  BY DEF Writes, Replace, Activate, Publish, Unpublish, Permit, Remove, Advances, TypeOK
<1>3. \A x \in Request \ {r} : request'[x] = request[x] \/ Ages(x)
  BY DEF Writes, Replace, Activate, Publish, Unpublish, Permit, Remove, Advances, TypeOK, Ages
<1>4. CASE request'[r] # Idle
  <2>1. request[r].at < Len(Steps[request[r].op]) /\ request'[r] = [request[r] EXCEPT !.at = @ + 1]
    BY <1>1, <1>2, <1>4, Advancing
  <2>2. StepOf(request[r]) \notin Checks \cup {"header", "rows"}
    BY <1>1 DEF Checks
  <2>3. request[r] \in Running
    BY <1>1, Idleness
  <2>4. Moves(r)
    BY <2>1, <2>2, <2>3, <1>1 DEF Moves, Running
  <2>5. QED
    BY <2>4, <1>1, <1>3
<1>5. QED
  BY <1>1, <1>3, <1>4

\* A failure ends its request, or makes a deletion of it.
LEMMA FailureCourse ==
    ASSUME TypeOK, NEW r \in Request, Fails(r) \/ Dies(r)
    PROVE  /\ UNCHANGED store
           /\ request'[r] = Idle \/ Undoes(r)
           /\ \A x \in Request \ {r} : request'[x] = request[x]
BY Idleness, Sequences DEF Fails, Dies, Refused, Undoes, TypeOK

\* Every request takes one of its courses, whoever acts.
LEMMA Courses ==
    ASSUME TypeOK, Next
    PROVE  \A x \in Request : Course(x)
<1>1. PICK r \in Request : Acts(r)
  BY DEF Next
<1>2. CASE Arrives(r)
  BY <1>2, ArrivalCourse DEF Course
<1>3. CASE Reads(r)
  BY <1>3, ReadCourse DEF Course
<1>4. CASE Writes(r)
  BY <1>4, WriteCourse DEF Course
<1>5. CASE Fails(r) \/ Dies(r)
  BY <1>5, FailureCourse DEF Course
<1>6. QED
  BY <1>1, <1>2, <1>3, <1>4, <1>5 DEF Acts

---------------------------------------------------------------------------
(* What a step does to the store.                                          *)

\* Identities and catalogues stay, and only a publication publishes.
LEMMA StoreStep ==
    ASSUME TypeOK, Next
    PROVE  /\ used \subseteq used' /\ used' \subseteq Connector
           /\ defined' \subseteq used' /\ published' \subseteq used'
           /\ catalog' \in [Connector -> Document \cup {Missing}]
           /\ active' \in [Connector -> SUBSET Operation]
           /\ granted' \in [Connector -> SUBSET Target]
           /\ \A c \in Connector : catalog[c] # Missing => catalog'[c] # Missing
           /\ \A c \in published' \ published :
                \E r \in Request : Goes(r, "publish") /\ request[r].connector = c
<1>1. PICK r \in Request : Acts(r)
  BY DEF Next
<1>2. CASE Create(r) \/ Setup(r)
  BY <1>2 DEF Create, Setup, Defines, TypeOK, choices, NewRequest
<1>3. CASE UNCHANGED store
  BY <1>3 DEF store, definitions, choices, TypeOK
<1>4. CASE Replace(r)
  <2>1. request[r] \in Running /\ request[r].connector \in used /\ Imports(request[r])
    BY <1>4, Idleness, Places DEF Replace, Goes, TypeOK, StepOf, Placed, Imports
  <2>2. request[r].document \in Document /\ request[r].connector \in Connector
    BY <2>1, Idleness DEF TypeOK, Running
  <2>3. QED
    BY <1>4, <2>1, <2>2, OpenApiAssumption DEF Replace, TypeOK, definitions
<1>5. CASE Activate(r) \/ Publish(r) \/ Unpublish(r) \/ Permit(r) \/ Remove(r)
  <2>1. request[r] \in Running /\ request[r].connector \in used
    BY <1>5, Idleness DEF Activate, Publish, Unpublish, Permit, Remove, Goes, TypeOK
  <2>2. CASE Activate(r)
    <3>1. request[r].target \in Operation
      BY <2>1, <2>2, Places, Idleness DEF Activate, Goes, StepOf, Placed, TypeOK
    <3>2. QED
      BY <2>1, <2>2, <3>1 DEF Activate, TypeOK, definitions, Running, Target
  <2>3. CASE Publish(r)
    BY <2>1, <2>3 DEF Publish, TypeOK, definitions, Running
  <2>4. CASE Unpublish(r)
    BY <2>1, <2>4 DEF Unpublish, TypeOK, definitions, Running
  <2>5. CASE Permit(r)
    BY <2>1, <2>5 DEF Permit, Permissions, TypeOK, definitions, Running, Target
  <2>6. CASE Remove(r)
    BY <2>1, <2>6 DEF Remove, TypeOK, choices, Running
  <2>7. QED
    BY <1>5, <2>2, <2>3, <2>4, <2>5, <2>6
<1>6. Arrives(r) => Create(r) \/ Setup(r) \/ UNCHANGED store
  BY DEF Arrives, Asks, AskForImport, AskForDeletion, AskForPublication, AskForActivation,
         AskForGrant, AskForWithdrawal, Call
<1>7. QED
  BY <1>1, <1>2, <1>3, <1>4, <1>5, <1>6, ReadCourse, FailureCourse DEF Acts, Writes

\* A request is there for every name.
LEMMA RequestsStay ==
    ASSUME TypeOK, Next
    PROVE  request' = [x \in Request |-> request'[x]]
<1>1. PICK r \in Request : Acts(r)
  BY DEF Next
<1>2. request = [x \in Request |-> request[x]]
  BY DEF TypeOK
<1>3. CASE Arrives(r)
  BY <1>2, <1>3 DEF Arrives, Create, Setup, Call, AskForImport, AskForDeletion, AskForPublication,
      AskForActivation, AskForGrant, AskForWithdrawal, Asks, Defines, Start
<1>4. CASE Reads(r)
  BY <1>2, <1>4 DEF Reads, Look, ReadHeader, ReadRows
<1>5. CASE Writes(r)
  BY <1>2, <1>5 DEF Writes, Replace, Activate, Publish, Unpublish, Permit, Remove, Advances
<1>6. CASE Fails(r) \/ Dies(r)
  BY <1>2, <1>6 DEF Fails, Dies
<1>7. QED
  BY <1>1, <1>3, <1>4, <1>5, <1>6 DEF Acts

\* A request stays of its type when its fields do.
LEMMA Altered ==
    ASSUME NEW q \in Running
    PROVE  /\ [q EXCEPT !.op = "delete", !.at = 1] \in Running
           /\ \A at \in Nat, current \in BOOLEAN, previous \in SUBSET Operation :
                [q EXCEPT !.at = at, !.current = current, !.previous = previous] \in Running
BY Sequences DEF Running

\* A step keeps the types.
LEMMA TypeStep ==
    ASSUME TypeOK, Next
    PROVE  TypeOK'
<1>1. \A r \in Request : Course(r)
  BY Courses
<1>2. ASSUME NEW r \in Request
      PROVE  /\ request'[r] \in Running \cup {Idle}
             /\ request'[r] # Idle =>
                 /\ request'[r].connector \in used'
                 /\ request'[r].at \in 1..Len(Steps[request'[r].op])
                 /\ Imports(request'[r]) => request'[r].document \in Document
                 /\ request'[r].op \in {"toggle", "call"} => request'[r].target \in Operation
  <2>1. used \subseteq used'
    BY StoreStep
  <2>2. CASE request[r] = Idle
    <3>1. request'[r] = Idle \/ Begins(r)
      BY <1>1, <2>2 DEF Course, Undoes, Ages, Moves
    <3>2. QED
      BY <3>1, Lengths DEF Begins, Running
  <2>3. CASE request[r] # Idle
    <3>1. /\ request[r] \in Running /\ request[r].connector \in used
          /\ request[r].at \in 1..Len(Steps[request[r].op])
          /\ Imports(request[r]) => request[r].document \in Document
          /\ request[r].op \in {"toggle", "call"} => request[r].target \in Operation
      BY <2>3, Idleness DEF TypeOK
    <3>2. Len(Steps[request[r].op]) \in Nat /\ Len(Steps["delete"]) = 2
      BY <3>1, Lengths, Sequences DEF Running, DeleteSteps
    <3>3. CASE Undoes(r)
      <4>1. /\ request'[r].op = "delete" /\ request'[r].at = 1
            /\ request'[r].connector = request[r].connector
        BY <3>1, <3>3 DEF Undoes, Running
      <4>2. request'[r] \in Running
        BY <3>1, <3>3, Altered DEF Undoes
      <4>3. QED
        BY <4>1, <4>2, <2>1, <3>1, <3>2 DEF Imports
    <3>4. CASE Ages(r)
      BY <2>1, <3>1, <3>4 DEF Ages, Running, Imports
    <3>5. CASE Moves(r)
      <4>1. /\ request[r].at < Len(Steps[request[r].op])
            /\ request'[r] = [request[r] EXCEPT !.at = @ + 1, !.current = request'[r].current,
                                                !.previous = request'[r].previous]
            /\ request'[r].current \in BOOLEAN /\ request'[r].previous \in SUBSET Operation
        BY <3>5 DEF Moves
      <4>2. /\ request'[r].op = request[r].op /\ request'[r].at = request[r].at + 1
            /\ request'[r].connector = request[r].connector
            /\ request'[r].document = request[r].document
            /\ request'[r].target = request[r].target
        BY <3>1, <4>1 DEF Running
      <4>3. request'[r] \in Running
        <5>1. request[r].at + 1 \in Nat
          BY <3>1 DEF Running
        <5>2. request[r] \in Running /\ request'[r].current \in BOOLEAN
              /\ request'[r].previous \in SUBSET Operation
          BY <3>1, <4>1
        <5>3. [request[r] EXCEPT !.at = request[r].at + 1, !.current = request'[r].current,
                                 !.previous = request'[r].previous] \in Running
          BY <5>1, <5>2, Altered
        <5>4. QED
          BY <4>1, <5>3
      <4>4. request'[r].at \in 1..Len(Steps[request'[r].op])
        BY <3>1, <3>2, <4>1, <4>2
      <4>5. QED
        BY <2>1, <3>1, <4>2, <4>3, <4>4 DEF Imports
    <3>6. QED
      BY <1>1, <2>1, <2>3, <3>1, <3>3, <3>4, <3>5 DEF Course, Begins
  <2>4. QED
    BY <2>2, <2>3
<1>3. request' \in [Request -> Running \cup {Idle}]
  BY <1>2, RequestsStay
<1>4. ASSUME NEW r \in Request
      PROVE  /\ seen'[r] \in SUBSET Facts
             /\ kept'[r] \in SUBSET Operation
  <2>1. seen[r] \subseteq Facts /\ kept[r] \subseteq Operation
    BY DEF TypeOK
  <2>2. Holding(request[r])' \subseteq Facts
    BY DEF Holding
  <2>3. request'[r] # Idle => Needed(request[r])' \subseteq Operation
    BY <1>2, StoreStep, OpenApiAssumption DEF Needed, Listed, Running
  <2>4. Imports(request'[r]) => request'[r] # Idle
    BY DEF Imports, Idle
  <2>5. QED
    BY <2>1, <2>2, <2>3, <2>4 DEF Next, Watch
<1>5. seen' \in [Request -> SUBSET Facts] /\ kept' \in [Request -> SUBSET Operation]
  BY <1>4 DEF Next, Watch
<1>6. QED
  BY <1>2, <1>3, <1>5, StoreStep DEF TypeOK

---------------------------------------------------------------------------
(* The invariant is kept.                                                  *)

\* A request that moves stays the same request.
LEMMA MovedFields ==
    ASSUME TypeOK, NEW r \in Request, Moves(r)
    PROVE  /\ request'[r].op = request[r].op /\ request'[r].at = request[r].at + 1
           /\ request'[r].connector = request[r].connector
           /\ request'[r].document = request[r].document
           /\ request'[r].target = request[r].target
           /\ request[r].op \in Op /\ request[r].at \in Nat \ {0}
           /\ request[r].at < Len(Steps[request[r].op])
           /\ request'[r] # Idle
<1>1. request[r] \in Running /\ request[r] # Idle /\ request[r].at \in 1..Len(Steps[request[r].op])
  BY Idleness DEF Moves, TypeOK
<1>2. /\ request[r].at < Len(Steps[request[r].op])
      /\ request'[r] = [request[r] EXCEPT !.at = @ + 1, !.current = request'[r].current,
                                          !.previous = request'[r].previous]
  BY DEF Moves
<1>3. /\ request'[r].op = request[r].op /\ request'[r].at = request[r].at + 1
      /\ request'[r].connector = request[r].connector
      /\ request'[r].document = request[r].document
      /\ request'[r].target = request[r].target
  BY <1>1, <1>2 DEF Running
<1>4. request[r].op \in Op /\ request[r].at \in Nat \ {0}
  BY <1>1 DEF Running
<1>5. request'[r] # Idle
  BY <1>3, <1>4, Sequences DEF Idle
<1>6. QED
  BY <1>2, <1>3, <1>4, <1>5

\* A publication writes when it has seen the catalogue.
LEMMA PublishedStep ==
    ASSUME IInv, Next
    PROVE  PublishedHaveCatalogue'
<1>1. ASSUME NEW c \in published'
      PROVE  catalog'[c] # Missing
  <2>1. c \in Connector
    BY StoreStep DEF IInv
  <2>2. CASE c \in published
    BY <2>1, <2>2, StoreStep DEF IInv, PublishedHaveCatalogue
  <2>3. CASE c \notin published
    <3>1. PICK r \in Request : Goes(r, "publish") /\ request[r].connector = c
      BY <2>3, StoreStep DEF IInv
    <3>2. request[r].op \in Op /\ request[r].at \in 1..Len(Steps[request[r].op])
      BY <3>1, Idleness DEF IInv, TypeOK, Goes
    <3>3. request[r].op = "publish" /\ request[r].at = 4
      BY <3>1, <3>2, Places DEF Goes, StepOf, Placed
    <3>4. catalog[c] # Missing
      BY <3>1, <3>3 DEF IInv, Prepared
    <3>5. QED
      BY <2>1, <3>4, StoreStep DEF IInv
  <2>4. QED
    BY <2>2, <2>3
<1>2. QED
  BY <1>1 DEF PublishedHaveCatalogue

\* A request that does not move is where it was; only its header may age.
LEMMA SameFields ==
    ASSUME TypeOK, NEW r \in Request, request'[r] = request[r] \/ Ages(r)
    PROVE  /\ request'[r].op = request[r].op
           /\ request[r] # Idle =>
                /\ request'[r] # Idle /\ request'[r].at = request[r].at
                /\ request'[r].connector = request[r].connector
                /\ request'[r].document = request[r].document
                /\ request'[r].previous = request[r].previous
                /\ request'[r].current => request[r].current
<1>1. CASE request'[r] = request[r]
  BY <1>1
<1>2. CASE Ages(r)
  <2>1. request[r] \in Running
    BY <1>2, Idleness DEF Ages
  <2>2. /\ request'[r].op = request[r].op /\ request'[r].at = request[r].at
        /\ request'[r].connector = request[r].connector
        /\ request'[r].document = request[r].document
        /\ request'[r].previous = request[r].previous
        /\ request'[r].current = FALSE
    BY <1>2, <2>1 DEF Ages, Running
  <2>3. request'[r] # Idle
    BY <2>1, <2>2, Sequences DEF Running, Idle
  <2>4. QED
    BY <2>2, <2>3
<1>3. QED
  BY <1>1, <1>2

\* A publication goes past its second step when there is a catalogue.
LEMMA PreparedStep ==
    ASSUME IInv, Next, NEW r \in Request
    PROVE  Prepared(r)'
<1>1. TypeOK /\ Course(r) /\ Prepared(r)
  BY Courses DEF IInv
<1>2. SUFFICES ASSUME request'[r].op = "publish", request'[r].at > 2
               PROVE  catalog'[request'[r].connector] # Missing
  BY DEF Prepared
<1>3. request'[r] # Idle
  BY <1>2 DEF Idle
<1>4. \A c \in Connector : catalog[c] # Missing => catalog'[c] # Missing
  BY <1>1, StoreStep
<1>5. request[r] # Idle => request[r].connector \in Connector
  BY <1>1, Idleness DEF Running
<1>6. CASE request'[r] = request[r] \/ Ages(r)
  BY <1>1, <1>2, <1>3, <1>4, <1>5, <1>6, SameFields DEF Prepared, Ages
<1>7. CASE Moves(r)
  <2>1. /\ request[r].op = "publish" /\ request[r].at + 1 > 2 /\ request[r].at \in Nat
        /\ request'[r].connector = request[r].connector /\ request[r] # Idle
    BY <1>1, <1>2, <1>7, MovedFields DEF Moves
  <2>2. CASE request[r].at > 2
    BY <1>1, <1>4, <1>5, <2>1, <2>2 DEF Prepared
  <2>3. CASE request[r].at = 2
    <3>1. StepOf(request[r]) = "catalogue"
      BY <2>1, <2>3, Sequences DEF StepOf, PublishSteps
    <3>2. Passes(request[r])
      BY <1>7, <3>1 DEF Moves, Checks
    <3>3. catalog[request[r].connector] # Missing
      BY <3>1, <3>2 DEF Passes
    <3>4. QED
      BY <1>4, <1>5, <2>1, <3>3
  <2>4. QED
    BY <2>1, <2>2, <2>3
<1>8. CASE Begins(r)
  BY <1>2, <1>8 DEF Begins
<1>9. CASE Undoes(r)
  <2>1. request[r] \in Running
    BY <1>1, <1>9, Idleness DEF Undoes
  <2>2. request'[r].op = "delete"
    BY <1>9, <2>1 DEF Undoes, Running
  <2>3. QED
    BY <1>2, <2>2
<1>10. QED
  BY <1>1, <1>3, <1>6, <1>7, <1>8, <1>9 DEF Course

\* What the histories remember.
LEMMA WatchStep ==
    ASSUME Next, NEW r \in Request
    PROVE  /\ request'[r].op = "call" =>
                seen[r] \subseteq seen'[r] /\ Holding(request[r])' \subseteq seen'[r]
           /\ kept'[r] # {} =>
                /\ Imports(request'[r]) /\ kept'[r] \subseteq Needed(request[r])'
                /\ request[r] # Idle => kept'[r] \subseteq kept[r] /\ ~Overtaken(r)
BY DEF Next, Watch

\* A check that a call has passed goes into its history.
LEMMA LookedStep ==
    ASSUME IInv, Next, NEW r \in Request
    PROVE  Looked(r)'
<1>1. TypeOK /\ Course(r) /\ Looked(r)
  BY Courses DEF IInv
<1>2. SUFFICES ASSUME request'[r].op = "call", NEW i \in 1..(request'[r].at - 1),
                      CallSteps[i] \in Facts
               PROVE  CallSteps[i] \in seen'[r]
  BY DEF Looked
<1>3. request'[r] # Idle
  BY <1>2 DEF Idle
<1>4. seen[r] \subseteq seen'[r] /\ Holding(request[r])' \subseteq seen'[r]
  BY <1>2, WatchStep
<1>5. CASE request'[r] = request[r] \/ Ages(r)
  <2>1. request[r].op = "call" /\ request[r] # Idle
    BY <1>1, <1>2, <1>3, <1>5, SameFields DEF Ages
  <2>2. request'[r].at = request[r].at
    BY <1>1, <1>5, <2>1, SameFields
  <2>3. QED
    BY <1>1, <1>2, <1>4, <2>1, <2>2 DEF Looked
<1>6. CASE Moves(r)
  <2>1. /\ request[r].op = "call" /\ request'[r].at = request[r].at + 1 /\ request[r].at \in Nat \ {0}
        /\ request'[r].connector = request[r].connector /\ request'[r].target = request[r].target
    BY <1>1, <1>2, <1>6, MovedFields
  <2>2. CASE i < request[r].at
    BY <1>1, <1>2, <1>4, <2>1, <2>2 DEF Looked
  <2>3. CASE i = request[r].at
    <3>1. StepOf(request[r]) = CallSteps[i]
      BY <2>1, <2>3, Sequences DEF StepOf
    <3>2. Passes(request[r]) /\ UNCHANGED store
      BY <1>2, <1>6, <3>1 DEF Moves, Checks, Facts
    <3>3. CallSteps[i] \in Holding(request[r])
      BY <1>2, <3>1, <3>2 DEF Passes, FindsRow, Holding, Facts
    <3>4. Holding(request[r])' = Holding(request[r])
      BY <2>1, <3>2 DEF Holding, Permitted, Listed, store, definitions, choices
    <3>5. QED
      BY <1>4, <3>3, <3>4
  <2>4. i \in Int /\ i <= request[r].at
    BY <1>2, <2>1
  <2>5. QED
    BY <2>1, <2>2, <2>3, <2>4
<1>7. CASE Begins(r)
  BY <1>2, <1>7 DEF Begins
<1>8. CASE Undoes(r)
  <2>1. request[r] \in Running
    BY <1>1, <1>8, Idleness DEF Undoes
  <2>2. request'[r].op = "delete"
    BY <1>8, <2>1 DEF Undoes, Running
  <2>3. QED
    BY <1>2, <2>2
<1>9. QED
  BY <1>1, <1>3, <1>5, <1>6, <1>7, <1>8 DEF Course

\* Reading the catalogue and passing the guard bring what must be kept into
\* the document.
LEMMA KeepsStep ==
    ASSUME IInv, Next, NEW r \in Request
    PROVE  Keeps(r)'
<1>1. TypeOK /\ Course(r) /\ Keeps(r)
  BY Courses DEF IInv
<1>2. CASE kept'[r] = {}
  BY <1>2 DEF Keeps
<1>3. CASE kept'[r] # {}
  <2>1. /\ Imports(request'[r]) /\ kept'[r] \subseteq Needed(request[r])'
        /\ request[r] # Idle => kept'[r] \subseteq kept[r] /\ ~Overtaken(r)
    BY <1>3, WatchStep
  <2>2. request'[r] # Idle /\ request'[r].op \in {"setup", "import"}
    BY <2>1 DEF Imports, Idle
  <2>3. SUFFICES /\ ~(Goes(r, "rows")' /\ ~request'[r].current)
                 /\ Goes(r, "guard")' => kept'[r] \subseteq request'[r].previous
                 /\ Goes(r, "replace")' => kept'[r] \subseteq request'[r].document
    BY <2>1 DEF Keeps
  <2>4. CASE request'[r] = request[r] \/ Ages(r)
    <3>1. /\ request[r] # Idle /\ request'[r].op = request[r].op /\ request'[r].at = request[r].at
          /\ request'[r].document = request[r].document
          /\ request'[r].previous = request[r].previous
      BY <1>1, <2>2, <2>4, SameFields DEF Ages
    <3>2. \A step : Goes(r, step)' <=> Goes(r, step)
      BY <2>2, <3>1 DEF Goes, StepOf
    <3>3. kept'[r] \subseteq kept[r] /\ ~Overtaken(r) /\ kept[r] # {}
      BY <1>3, <2>1, <3>1
    <3>4. ~(Goes(r, "rows") /\ ~request[r].current) /\ ~(Goes(r, "rows") /\ request[r].current /\ ~request'[r].current)
      BY <1>1, <3>3 DEF Keeps, Overtaken
    <3>5. QED
      BY <1>1, <3>1, <3>2, <3>3, <3>4 DEF Keeps
  <2>5. CASE Moves(r)
    <3> DEFINE op == request[r].op
               i == request'[r].at
    <3>1. /\ request'[r].op = op /\ i = request[r].at + 1 /\ request[r].at \in Nat \ {0}
          /\ request'[r].connector = request[r].connector
          /\ request'[r].document = request[r].document
          /\ op \in Op /\ request[r].at < Len(Steps[op]) /\ request[r] # Idle
      BY <1>1, <2>5, MovedFields DEF Moves
    <3>2. i \in 1..Len(Steps[op]) /\ i - 1 = request[r].at
      BY <3>1, Lengths
    <3>3. \A step : Goes(r, step)' => Steps[op][i] = step
      BY <3>1 DEF Goes, StepOf
    <3>4. /\ Goes(r, "rows")' => StepOf(request[r]) = "header"
          /\ Goes(r, "guard")' => StepOf(request[r]) = "rows"
          /\ Goes(r, "replace")' => StepOf(request[r]) = "guard"
      <4>1. /\ Steps[op][i] = "rows" => Steps[op][i - 1] = "header"
            /\ Steps[op][i] = "guard" => Steps[op][i - 1] = "rows"
            /\ Steps[op][i] = "replace" => Steps[op][i - 1] = "guard"
        <5>1. op \in {"setup", "import"}
          BY <2>2, <3>1
        <5>2. i \in 1..Len(Steps[op])
          BY <3>2
        <5> HIDE DEF op, i
        <5>3. QED
          BY <5>1, <5>2, ImportOrder
      <4>2. Steps[op][i - 1] = StepOf(request[r])
        BY <3>2 DEF StepOf
      <4>3. QED
        BY <3>3, <4>1, <4>2
    <3>5. kept'[r] \subseteq kept[r] /\ kept[r] # {}
      BY <1>3, <2>1, <3>1
    <3>6. UNCHANGED store => Needed(request[r])' = Needed(request[r])
      BY <3>1 DEF Needed, Listed, store, definitions, choices
    <3>7. ASSUME Goes(r, "rows")', ~request'[r].current
          PROVE  FALSE
      <4>1. UNCHANGED store /\ catalog[request[r].connector] = Missing
        BY <2>5, <3>4, <3>7 DEF Moves
      <4>2. Needed(request[r]) = {}
        BY <4>1 DEF Needed, Listed
      <4>3. QED
        BY <1>3, <2>1, <3>6, <4>1, <4>2
    <3>8. ASSUME Goes(r, "guard")'
          PROVE  kept'[r] \subseteq request'[r].previous
      <4>1. /\ StepOf(request[r]) = "rows" /\ UNCHANGED store
            /\ request'[r].previous = IF request[r].current THEN Listed(request[r].connector) ELSE {}
        BY <2>5, <3>4, <3>8 DEF Moves
      <4>2. request[r].current
        BY <1>1, <3>1, <3>5, <4>1 DEF Keeps, Goes
      <4>3. kept'[r] \subseteq Needed(request[r])
        BY <2>1, <3>6, <4>1
      <4>4. QED
        BY <4>1, <4>2, <4>3 DEF Needed
    <3>9. ASSUME Goes(r, "replace")'
          PROVE  kept'[r] \subseteq request'[r].document
      <4>1. StepOf(request[r]) = "guard"
        BY <3>4, <3>9
      <4>2. Passes(request[r]) /\ UNCHANGED store
        BY <2>5, <4>1 DEF Moves, Checks
      <4>3. Allows(request[r])
        BY <4>1, <4>2 DEF Passes
      <4>4. kept[r] \subseteq request[r].previous
        BY <1>1, <3>1, <4>1 DEF Keeps, Goes
      <4>5. kept'[r] \subseteq granted[request[r].connector]
        BY <2>1, <3>6, <4>2 DEF Needed
      <4>6. QED
        BY <3>1, <3>5, <4>3, <4>4, <4>5 DEF Allows
    <3>10. QED
      BY <3>7, <3>8, <3>9
  <2>6. CASE Begins(r)
    <3>1. request'[r].at = 1 /\ 1 \in 1..Len(Steps[request'[r].op])
      BY <2>2, <2>6, Lengths, Sequences DEF Begins
    <3>2. Steps[request'[r].op][1] \notin {"rows", "guard", "replace"}
      BY <2>2, <3>1, ImportOrder
    <3>3. QED
      BY <3>1, <3>2 DEF Goes, StepOf
  <2>7. CASE Undoes(r)
    <3>1. request[r] \in Running
      BY <1>1, <2>7, Idleness DEF Undoes
    <3>2. request'[r].op = "delete"
      BY <2>7, <3>1 DEF Undoes, Running
    <3>3. QED
      BY <2>2, <3>2
  <2>8. QED
    BY <1>1, <2>2, <2>4, <2>5, <2>6, <2>7 DEF Course
<1>4. QED
  BY <1>2, <1>3

\* Every step of the system keeps the invariant.
LEMMA InvStep == IInv /\ [Next]_vars => IInv'
<1>1. ASSUME IInv, Next
      PROVE  IInv'
  <2>1. TypeOK'
    BY <1>1, TypeStep DEF IInv
  <2>2. PublishedHaveCatalogue'
    BY <1>1, PublishedStep
  <2>3. \A r \in Request : Looked(r)' /\ Prepared(r)' /\ Keeps(r)'
    BY <1>1, LookedStep, PreparedStep, KeepsStep
  <2>4. QED
    BY <2>1, <2>2, <2>3 DEF IInv
<1>2. ASSUME IInv, UNCHANGED vars
      PROVE  IInv'
  <2>1. /\ UNCHANGED <<used, defined, catalog, published, active, granted>>
        /\ UNCHANGED <<request, seen, kept>>
    BY <1>2 DEF vars, store, definitions, choices, history
  <2>2. TypeOK' /\ PublishedHaveCatalogue'
    BY <1>2, <2>1 DEF IInv, TypeOK, PublishedHaveCatalogue
  <2>3. \A r \in Request : Looked(r)' /\ Prepared(r)' /\ Keeps(r)'
    BY <1>2, <2>1 DEF IInv, Looked, Prepared, Keeps, Goes, StepOf, Needed, Listed
  <2>4. QED
    BY <2>2, <2>3 DEF IInv
<1>3. QED
  BY <1>1, <1>2

---------------------------------------------------------------------------
(* Safety.                                                                 *)

\* A call that is about to be sent has passed all checks.
LEMMA SentCallsHavePassed == IInv => CallsAreAllowed
<1>1. SUFFICES ASSUME IInv, NEW r \in Request, Goes(r, "send")
               PROVE  seen[r] = Facts
  BY DEF CallsAreAllowed
<1>2. request[r].op \in Op /\ request[r].at \in 1..Len(Steps[request[r].op])
  BY <1>1, Idleness DEF IInv, TypeOK, Goes
<1>3. request[r].op = "call" /\ request[r].at = 10
  BY <1>1, <1>2, Places DEF Goes, StepOf, Placed
<1>4. \A i \in 1..9 : CallSteps[i] \in Facts => CallSteps[i] \in seen[r]
  BY <1>1, <1>3 DEF IInv, Looked
<1>5. /\ CallSteps[1] = "published" /\ CallSteps[2] = "active" /\ CallSteps[4] = "row"
      /\ CallSteps[5] = "defined" /\ CallSteps[6] = "permitted"
  BY DEF CallSteps
<1>6. /\ "published" \in seen[r] /\ "active" \in seen[r] /\ "row" \in seen[r]
      /\ "defined" \in seen[r] /\ "permitted" \in seen[r]
  BY <1>4, <1>5 DEF Facts
<1>7. seen[r] \subseteq Facts
  BY <1>1 DEF IInv, TypeOK
<1>8. QED
  BY <1>6, <1>7 DEF Facts

\* The inductive invariant holds always.
THEOREM Invariance == Spec => []IInv
BY InitInv, InvStep, PTL DEF Spec

\* What is sent has been allowed, and what is published has a catalogue,
\* whatever the requests of others do in between.
THEOREM OpenApiInvariance == Spec => []OpenApiInv
<1>1. IInv => OpenApiInv
  BY SentCallsHavePassed DEF IInv, OpenApiInv
<1>2. QED
  BY <1>1, Invariance, PTL

\* No import writes away what has been granted while it was under way.
THEOREM ImportsKeepCorrect == Spec => []ImportsKeepWhatIsGranted
<1>1. IInv => ImportsKeepWhatIsGranted
  BY DEF IInv, Keeps, ImportsKeepWhatIsGranted
<1>2. QED
  BY <1>1, Invariance, PTL

===========================================================================
