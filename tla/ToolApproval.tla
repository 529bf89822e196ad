----------------------------- MODULE ToolApproval -----------------------------
(***************************************************************************)
(* Asking before acting.  An administrator sets which tools of a connector *)
(* are run directly and which only after the user has agreed               *)
(* (core/invocation, core/administrator/connector_configuration); a call   *)
(* of a tool, or of filesystem_delete_file, is stopped with a question,    *)
(* and goes on when the client comes back with the answer                  *)
(* (mcp/connectors/native/approval..., mcp/filesystem/approval...).        *)
(*                                                                         *)
(* A modern client gets the question as a sealed state that it returns:    *)
(* what the server has to remember is only which states it has taken.  Two *)
(* workers may be handed the same one at the same time.  A legacy client   *)
(* is asked within the call.                                               *)
(***************************************************************************)
EXTENDS Integers, Sequences, FiniteSets

CONSTANTS
    Tool, File, Caller, Argument,
    Call,              \* executions that may be going on at a time
    Admin,             \* administrators with the configuration before them
    None,
    MaxPolicy,         \* bound: revisions of a tool's policy
    MaxAsked,          \* bound: questions with a sealed state
    MaxEdits           \* bound: revisions of a file

\* ConnectorInvocationPolicyRow; None is a tool without a row.
Policy == [mode : {"direct", "ask"}, revision : Nat \ {0}]

ASSUME ApprovalAssumption ==
    /\ Tool \cap File = {}
    /\ None \notin {"direct", "ask"} \cup Policy
    /\ {MaxPolicy, MaxAsked, MaxEdits} \subseteq Nat

\* ConnectorInvocation, and DeleteFileCommand with its expected_revision.
ToolCommand == [on : Tool, by : Caller, with : Argument]
FileCommand == [on : File, by : Caller, with : 1..MaxEdits]
Command == ToolCommand \cup FileCommand

\* What ApprovalStateCodec and FileDeletionApprovalStateCodec seal; the nonce
\* is the question's number.
Question == [command : Command, revision : Nat, late : BOOLEAN]

\* Where an execution is; question 0 is a call that brings no answer.
Idle == [step |-> "idle"]
Execution == {Idle} \cup [step : {"checking", "eliciting", "consuming", "cleared"},
    command : Command, modern : BOOLEAN, question : Nat, answer : BOOLEAN,
    direct : BOOLEAN]  \* history: was the policy direct since the call began?

\* What an administrator has read: revisions to expect, and modes (history).
Seen == [policies : [Tool -> Nat], modes : [Tool -> {"direct", "ask"}]]

VARIABLES
    exists,       \* is the connector still there?
    policy,       \* row of each tool, or None
    active,       \* tools that admission lets through
    file,         \* revision of each file, 0 when it is deleted
    asked,        \* the questions with a sealed state, by nonce
    consumed,     \* connector_approval_nonces
    call, admin,
    ran,          \* history: how often something ran with a question's answer
    before,       \* history: questions from before the connector was last deleted
    void          \* history: later ones, asked before a change of the policy

configuration == <<exists, policy, active>>
history == <<ran, before, void>>
vars == <<configuration, file, asked, consumed, call, admin, history>>

Init ==
    /\ exists = TRUE
    /\ policy = [t \in Tool |-> None]
    /\ active = Tool
    /\ file = [f \in File |-> 1]
    /\ asked = <<>> /\ consumed = {}
    /\ call = [c \in Call |-> Idle]
    /\ admin = [a \in Admin |-> None]
    /\ ran = [n \in 1..MaxAsked |-> 0]
    /\ before = 0 /\ void = {}

---------------------------------------------------------------------------
(* Policies.                                                               *)

Mode(t) == IF policy[t] = None THEN "direct" ELSE policy[t].mode
Revision(t) == IF policy[t] = None THEN 0 ELSE policy[t].revision

\* The administrator reads the configuration, each tool's row by itself and
\* never a mode without its revision; a page may stay open for long, and what
\* it sends may come twice.
Read(a) ==
    /\ exists
    /\ admin' = [admin EXCEPT ![a] = [policies |-> [t \in Tool |-> Revision(t)],
                                           modes |-> [t \in Tool |-> Mode(t)]]]
    /\ UNCHANGED <<configuration, file, asked, consumed, call, history>>

\* Mutant: who has seen no row expects nothing.
ConflictsOfRows(a, wanted) == \E t \in Tool :
    wanted[t] # None /\ admin[a].policies[t] \notin {0, Revision(t)}

\* _policy_conflicts: all are looked for before anything is written.
Conflicts(a, wanted) == \E t \in Tool :
    wanted[t] # None /\ admin[a].policies[t] # Revision(t)

\* _apply_missing_policy_update and _apply_persisted_policy_update.
Updated(t, mode, expected) ==
    IF mode = None \/ mode = Mode(t) THEN policy[t]
    ELSE [mode |-> mode, revision |-> expected + 1]

\* History of a change of policies.
Voided(next) == {n \in before + 1 .. Len(asked) : asked[n].command.on \in Tool
                   /\ next[asked[n].command.on] # policy[asked[n].command.on]}
Changes(next) ==
    /\ policy' = next
    /\ call' = [c \in Call |->
            IF call[c] = Idle \/ call[c].command.on \notin Tool THEN call[c]
            ELSE [call[c] EXCEPT !.direct = @ \/ next[call[c].command.on] = None
                                              \/ next[call[c].command.on].mode = "direct"]]

\* upsert, and the batch of SetConnectorToolConfiguration: modes and
\* activations of some tools, all or nothing.  A request may also set the
\* connector's description, which has a revision of its own; `outdated' says
\* that it does, and that this has changed.  That the connector exists is asked
\* before the transaction, when it may already be gone: rows are then written
\* that belong to no connector.
Upsert(a, wanted, turned, outdated) ==
    /\ admin[a] # None
    /\ IF outdated \/ Conflicts(a, wanted)
        THEN UNCHANGED <<configuration, call, history>>
        ELSE /\ \A t \in Tool : Updated(t, wanted[t], admin[a].policies[t]) # policy[t]
                    => Revision(t) < MaxPolicy
             /\ LET next == [t \in Tool |-> Updated(t, wanted[t], admin[a].policies[t])] IN
                    Changes(next) /\ void' = void \cup Voided(next)
             /\ active' = {t \in Tool : IF turned[t] = None THEN t \in active
                                        ELSE exists /\ turned[t] = "enabled"}
             /\ UNCHANGED <<exists, ran, before>>
    /\ UNCHANGED <<file, asked, consumed, admin>>

\* Its policies go with the connector; their revisions begin at 1 again.
DeleteConnector ==
    /\ exists
    /\ exists' = FALSE /\ active' = {}
    /\ Changes([t \in Tool |-> None])
    /\ before' = Len(asked) /\ void' = {}
    /\ UNCHANGED <<file, asked, consumed, admin, ran>>

\* An edit, or a refresh of an imported catalog, that was begun before the
\* deletion brings it back under the same identifier; what has been switched on
\* by then has rows of its own.
ConnectorReturns ==
    /\ ~exists
    /\ exists' = TRUE /\ active' \in SUBSET Tool
    /\ UNCHANGED <<policy, file, asked, consumed, call, admin, history>>

---------------------------------------------------------------------------
(* Calls.                                                                  *)

Goes(c, where) == call' = [call EXCEPT ![c] = where]
On(c) == call[c].command.on

Begin(c, command, modern, question, answer) ==
    /\ call[c] = Idle
    /\ IF question = 0 THEN ~answer ELSE modern
    /\ Goes(c, [step |-> "checking", command |-> command, modern |-> modern,
                question |-> question, answer |-> answer,
                direct |-> command.on \in Tool /\ Mode(command.on) = "direct"])
    /\ UNCHANGED <<configuration, file, asked, consumed, admin, history>>

\* Does anything have to be asked, and is there something to be asked about?
Direct(c) == On(c) \in Tool /\ Mode(On(c)) = "direct"
Stale(c) == On(c) \in File /\ file[On(c)] # call[c].command.with
Asks(c) == call[c].step = "checking" /\ ~Direct(c) /\ ~Stale(c)
PolicyRevision(c) == IF On(c) \in Tool THEN Revision(On(c)) ELSE 0

LetThrough(c) ==
    /\ call[c].step = "checking" /\ Direct(c)
    /\ Goes(c, [call[c] EXCEPT !.step = "cleared", !.question = 0])
    /\ UNCHANGED <<configuration, file, asked, consumed, admin, history>>

Mint(c) ==
    /\ Asks(c) /\ call[c].modern /\ call[c].question = 0
    /\ Len(asked) < MaxAsked
    /\ asked' = Append(asked, [command |-> call[c].command,
                               revision |-> PolicyRevision(c), late |-> FALSE])
    /\ Goes(c, Idle)
    /\ UNCHANGED <<configuration, file, consumed, admin, history>>

\* Mutant: the state says that something was asked, not what.
VerifiedForAny(c) ==
    LET question == asked[call[c].question] IN
    question.revision = PolicyRevision(c) /\ ~question.late

\* Mutant: that the tool is asked about is enough, whatever has been changed.
VerifiedUnderAny(c) ==
    /\ asked[call[c].question].command = call[c].command
    /\ ~asked[call[c].question].late

\* ApprovalStateCodec.verify, FileDeletionApprovalStateCodec.verify.
Verified(c) ==
    LET question == asked[call[c].question] IN
    /\ question.command = call[c].command
    /\ question.revision = PolicyRevision(c)
    /\ ~question.late

Verify(c) ==
    /\ Asks(c) /\ call[c].question # 0 /\ call[c].answer /\ Verified(c)
    /\ Goes(c, [call[c] EXCEPT !.step = "consuming"])
    /\ UNCHANGED <<configuration, file, asked, consumed, admin, history>>

Refuse(c) ==
    /\ call[c].step = "checking"
    /\ \/ Stale(c)
       \/ Asks(c) /\ call[c].question # 0 /\ (~call[c].answer \/ ~Verified(c))
    /\ Goes(c, Idle)
    /\ UNCHANGED <<configuration, file, asked, consumed, admin, history>>

\* Mutant: looking and inserting are two transactions.
ConsumableAgain(c) == TRUE

\* Does the insert find the nonce's row missing?
Consumable(c) == call[c].question \notin consumed

Consume(c) ==
    /\ call[c].step = "consuming"
    /\ IF Consumable(c)
        THEN /\ consumed' = consumed \cup {call[c].question}
             /\ Goes(c, [call[c] EXCEPT !.step = "cleared"])
        ELSE Goes(c, Idle) /\ UNCHANGED consumed
    /\ UNCHANGED <<configuration, file, asked, admin, history>>

\* context.elicit: the call waits for as long as the user takes.
Elicit(c) ==
    /\ Asks(c) /\ ~call[c].modern
    /\ Goes(c, [call[c] EXCEPT !.step = "eliciting"])
    /\ UNCHANGED <<configuration, file, asked, consumed, admin, history>>

Answered(c, answer) ==
    /\ call[c].step = "eliciting"
    /\ Goes(c, IF answer THEN [call[c] EXCEPT !.step = "cleared", !.answer = TRUE] ELSE Idle)
    /\ UNCHANGED <<configuration, file, asked, consumed, admin, history>>

Counted(c) == ran' = IF call[c].question = 0 THEN ran
                     ELSE [ran EXCEPT ![call[c].question] = @ + 1]

\* admit_execution comes after the approval, right before the operation.
RunTool(c) ==
    /\ call[c].step = "cleared" /\ On(c) \in Tool
    /\ IF On(c) \in active THEN Counted(c) ELSE UNCHANGED ran
    /\ Goes(c, Idle)
    /\ UNCHANGED <<configuration, file, asked, consumed, admin, before, void>>

\* Mutant: the revision was compared before the question.
StillThere(c) == file[On(c)] # 0

\* delete_file compares the revision again, in its transaction.
StillExpected(c) == file[On(c)] = call[c].command.with

DeleteFile(c) ==
    /\ call[c].step = "cleared" /\ On(c) \in File
    /\ IF StillExpected(c)
        THEN file' = [file EXCEPT ![On(c)] = 0] /\ Counted(c)
        ELSE UNCHANGED <<file, ran>>
    /\ Goes(c, Idle)
    /\ UNCHANGED <<configuration, asked, consumed, admin, before, void>>

\* The worker dies, or the client gives up.
Dies(c) ==
    /\ call[c] # Idle
    /\ Goes(c, Idle)
    /\ UNCHANGED <<configuration, file, asked, consumed, admin, history>>

---------------------------------------------------------------------------
(* What goes on meanwhile.                                                 *)

\* Somebody renames the file or puts a new version.
Edit(f) ==
    /\ file[f] \in 1..MaxEdits - 1
    /\ file' = [file EXCEPT ![f] = @ + 1]
    /\ UNCHANGED <<configuration, asked, consumed, call, admin, history>>

Expires(n) ==
    /\ n \in 1..Len(asked) /\ ~asked[n].late
    /\ asked' = [asked EXCEPT ![n].late = TRUE]
    /\ UNCHANGED <<configuration, file, consumed, call, admin, history>>

Calls(c) ==
    \/ \E command \in Command, modern \in BOOLEAN, answer \in BOOLEAN,
          question \in 0..Len(asked) : Begin(c, command, modern, question, answer)
    \/ LetThrough(c) \/ Mint(c) \/ Verify(c) \/ Refuse(c) \/ Consume(c)
    \/ Elicit(c) \/ \E answer \in BOOLEAN : Answered(c, answer)
    \/ RunTool(c) \/ DeleteFile(c) \/ Dies(c)

Modes == [Tool -> {None, "direct", "ask"}]
Switches == [Tool -> {None, "enabled", "disabled"}]

Administers(a) ==
    \/ Read(a)
    \/ \E wanted \in Modes, turned \in Switches, outdated \in BOOLEAN :
          Upsert(a, wanted, turned, outdated)

Next ==
    \/ \E c \in Call : Calls(c)
    \/ \E a \in Admin : Administers(a)
    \/ DeleteConnector \/ ConnectorReturns
    \/ \E f \in File : Edit(f)
    \/ \E n \in 1..MaxAsked : Expires(n)

Spec == Init /\ [][Next]_vars

---------------------------------------------------------------------------
(* Properties.                                                             *)

TypeOK ==
    /\ exists \in BOOLEAN /\ active \subseteq Tool
    /\ policy \in [Tool -> Policy \cup {None}]
    /\ file \in [File -> Nat]
    /\ asked \in Seq(Question) /\ Len(asked) =< MaxAsked
    /\ consumed \subseteq 1..Len(asked)
    /\ before \in 0..Len(asked) /\ void \subseteq before + 1 .. Len(asked)
    /\ call \in [Call -> Execution]
    /\ \A c \in Call : call[c] # Idle => call[c].question \in 0..Len(asked)
    /\ admin \in [Admin -> Seen \cup {None}]
    /\ ran \in [1..MaxAsked -> Nat]

\* An answer lets one execution through, however often the client sends it and
\* whatever workers get it (DatabaseApprovalNonceStore.consume): counted are
\* what has run with it and what is about to.
About(n) == {c \in Call : call[c].step = "cleared" /\ call[c].question = n}
AnswersLetOneThrough == \A n \in 1..MaxAsked :
    /\ \A c, d \in About(n) : c = d
    /\ About(n) # {} => ran[n] = 0
    /\ ran[n] =< 1

\* What is cleared was either direct at some moment since the call began, or
\* agreed to: by the user of this call, for these very arguments or this version
\* of the file (the two approval policies).
NothingRunsUnasked == \A c \in Call : call[c].step = "cleared" =>
    \/ call[c].direct
    \/ call[c].answer /\ ~call[c].modern
    \/ /\ call[c].answer /\ call[c].question # 0
       /\ asked[call[c].question].command = call[c].command

\* Everything that is let through has been agreed to, and once.
ApprovalInv == TypeOK /\ AnswersLetOneThrough /\ NothingRunsUnasked

\* From the moment that an administrator changes the policy of a tool, back and
\* forth though it may be, no answer to an earlier question is accepted: between
\* two deletions of a connector no revision of its policies comes again
\* (policy_revision in the sealed state).  One accepted just before may still let
\* its call through, and a deletion begins the revisions anew.
OldAnswersAreVoid == [][\A c \in Call :
    call[c].step = "checking" /\ call'[c].step = "consuming"
        => call[c].question \notin void]_vars

\* The file that goes is the version that its user was asked about, though the
\* question may have been open for minutes (delete_file).
FilesGoAsShown == [][\A f \in File : file[f] # 0 /\ file'[f] = 0 => \E c \in Call :
    /\ call[c].step = "cleared" /\ call[c].answer
    /\ call[c].command.on = f /\ call[c].command.with = file[f]]_vars

\* No administrator changes a policy that is not in the mode she had before her,
\* though it may have been changed, or be that of a connector which was deleted
\* and has come back since: a revision is compared, and in every life of a
\* connector it says the mode (compare_and_set_invocation_policies).
PoliciesChangeAsSeen == [][\A t \in Tool :
    policy'[t] # policy[t] => \A a \in Admin :
        (\E wanted \in Modes, turned \in Switches : Upsert(a, wanted, turned, FALSE))
            => admin[a].modes[t] = Mode(t)]_vars
=============================================================================
