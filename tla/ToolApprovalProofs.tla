------------------------- MODULE ToolApprovalProofs -------------------------
(***************************************************************************)
(* The properties of ToolApproval for any number of tools, files, callers, *)
(* arguments, executions and administrators.                               *)
(***************************************************************************)
EXTENDS ToolApproval, TLAPS

-----------------------------------------------------------------------------
(* The inductive invariant.                                                *)

(* What the steps of an execution have established, when qs are the        *)
(* questions, done the consumed ones, and rows the policies.               *)
ExecutionOK(e, qs, done, rows) ==
    /\ ~e.modern => e.question = 0
    /\ e.step = "eliciting" => ~e.modern
    /\ e.step = "consuming" =>
          e.answer /\ e.question # 0 /\ qs[e.question].command = e.command
    /\ e.step = "cleared" /\ e.question # 0 => e.question \in done
    /\ e.step = "cleared" =>
          \/ e.direct
          \/ e.answer /\ ~e.modern
          \/ e.answer /\ e.question # 0 /\ qs[e.question].command = e.command
    /\ e.direct => e.command.on \in Tool
    /\ /\ e.command.on \in Tool
       /\ rows[e.command.on] = None \/ rows[e.command.on].mode = "direct"
       => e.direct

CallsInv ==
    \A c \in Call : call[c] # Idle => ExecutionOK(call[c], asked, consumed, policy)

(* What has run with an answer has consumed it.                            *)
RanInv == \A n \in 1..MaxAsked : ran[n] # 0 => n \in consumed

(* Revisions only grow between two deletions: nobody has been asked under  *)
(* a later one, and who was asked before a change, under an earlier.       *)
QuestionsInv ==
    /\ \A n \in before + 1 .. Len(asked) : asked[n].command.on \in Tool =>
          asked[n].revision =< Revision(asked[n].command.on)
    /\ \A n \in void : /\ asked[n].command.on \in Tool
                       /\ asked[n].revision < Revision(asked[n].command.on)

(* A tool without a row is direct, its first row says ask, and each change  *)
(* after that turns the mode: so that a revision says the mode, whenever    *)
(* and in whatever life of the connector an administrator has read it.      *)
ModeAt(revision) == IF revision % 2 = 1 THEN "ask" ELSE "direct"
SeenInv ==
    /\ \A t \in Tool : Mode(t) = ModeAt(Revision(t))
    /\ \A a \in Admin, t \in Tool : admin[a] # None =>
          admin[a].modes[t] = ModeAt(admin[a].policies[t])

IInv == /\ TypeOK /\ CallsInv
        /\ RanInv /\ AnswersLetOneThrough
        /\ QuestionsInv /\ SeenInv

-----------------------------------------------------------------------------
(* Types.                                                                  *)

(* Of what an execution that is going on is made. *)
LEMMA Running ==
    ASSUME TypeOK, NEW c \in Call, call[c].step # "idle"
    PROVE  /\ call[c] # Idle
           /\ call[c] \in Execution \ {Idle}
           /\ call[c].step \in {"checking", "eliciting", "consuming", "cleared"}
           /\ call[c].command \in Command
           /\ call[c].modern \in BOOLEAN /\ call[c].answer \in BOOLEAN
           /\ call[c].direct \in BOOLEAN
           /\ call[c].question \in 0..Len(asked)
  BY DEF TypeOK, Execution, Idle

(* Who is not going on is Idle. *)
LEMMA NotRunning ==
    ASSUME TypeOK, NEW c \in Call, call[c] # Idle PROVE call[c].step # "idle"
  BY DEF TypeOK, Execution, Idle

(* A tool and a file are different things. *)
LEMMA Commands ==
    ASSUME NEW command \in Command
    PROVE  /\ command.on \in Tool <=> command \in ToolCommand
           /\ command.on \in File <=> command.on \notin Tool
           /\ command.on \in File => command.with \in 1..MaxEdits
  BY ApprovalAssumption DEF Command, ToolCommand, FileCommand

(* Questions are asked about commands, under revisions. *)
LEMMA Questions ==
    ASSUME TypeOK, NEW n \in 1..Len(asked)
    PROVE  /\ asked[n] \in Question
           /\ asked[n].command \in Command /\ asked[n].revision \in Nat
           /\ asked[n].late \in BOOLEAN
<1>1. asked \in Seq(Question) /\ n \in 1..Len(asked)
  BY DEF TypeOK
<1>2. asked[n] \in Question
  BY <1>1
<1> QED
  BY <1>2 DEF Question

LEMMA Policies ==
    ASSUME TypeOK, NEW t \in Tool
    PROVE  /\ Mode(t) \in {"direct", "ask"} /\ Revision(t) \in Nat
           /\ policy[t] # None => Revision(t) >= 1
  BY DEF TypeOK, Policy, Mode, Revision

(* A command is about a tool or a file, so that its revision is a number. *)
LEMMA RevisionOfCall ==
    ASSUME TypeOK, NEW c \in Call PROVE PolicyRevision(c) \in Nat
  BY Policies DEF PolicyRevision

(* An execution that stops, or goes on to its next step, is an execution. *)
LEMMA NextSteps ==
    ASSUME TypeOK, NEW c \in Call, call[c].step # "idle",
           NEW s \in {"checking", "eliciting", "consuming", "cleared"}
    PROVE  /\ [call[c] EXCEPT !.step = s] \in Execution
           /\ [call[c] EXCEPT !.step = s, !.question = 0] \in Execution
           /\ [call[c] EXCEPT !.step = s, !.answer = TRUE] \in Execution
           /\ Idle \in Execution
<1> DEFINE Busy == [step : {"checking", "eliciting", "consuming", "cleared"},
                    command : Command, modern : BOOLEAN, question : Nat,
                    answer : BOOLEAN, direct : BOOLEAN]
<1>1. call[c] \in Busy
  BY DEF TypeOK, Execution, Idle
<1>2. /\ [call[c] EXCEPT !.step = s] \in Busy
      /\ [call[c] EXCEPT !.step = s, !.question = 0] \in Busy
      /\ [call[c] EXCEPT !.step = s, !.answer = TRUE] \in Busy
  BY <1>1
<1> QED
  BY <1>2 DEF Execution

(* An execution moves, and nothing else that has a type but what is asked, *)
(* consumed, counted, and in the files.                                    *)
LEMMA TypeOfMove ==
    ASSUME TypeOK, NEW c \in Call, NEW e \in Execution, Goes(c, e),
           e # Idle => e.question \in 0..Len(asked),
           UNCHANGED <<configuration, admin, before, void>>,
           file' \in [File -> Nat],
           asked' \in Seq(Question), Len(asked) =< Len(asked'), Len(asked') =< MaxAsked,
           consumed' \subseteq 1..Len(asked),
           ran' \in [1..MaxAsked -> Nat]
    PROVE  TypeOK'
<1>1. Len(asked) \in Nat /\ Len(asked') \in Nat
  BY DEF TypeOK
<1>2. call' \in [Call -> Execution]
  BY DEF TypeOK, Goes
<1>3. \A d \in Call : call'[d] # Idle => call'[d].question \in 0..Len(asked')
  BY <1>1 DEF TypeOK, Goes
<1> QED
  BY <1>1, <1>2, <1>3 DEF TypeOK, configuration

(* ... and nothing but the execution. *)
LEMMA TypeOfMoveAlone ==
    ASSUME TypeOK, NEW c \in Call, NEW e \in Execution, Goes(c, e),
           e # Idle => e.question \in 0..Len(asked),
           UNCHANGED <<configuration, file, asked, consumed, admin, history>>
    PROVE  TypeOK'
<1>1. /\ file' \in [File -> Nat] /\ asked' \in Seq(Question)
      /\ Len(asked) =< Len(asked') /\ Len(asked') =< MaxAsked
      /\ consumed' \subseteq 1..Len(asked) /\ ran' \in [1..MaxAsked -> Nat]
      /\ UNCHANGED <<configuration, admin, before, void>>
  BY DEF TypeOK, history
<1> QED
  BY <1>1, TypeOfMove

(* A change of the policies, whichever. *)
LEMMA TypeOfChange ==
    ASSUME TypeOK, NEW next \in [Tool -> Policy \cup {None}], Changes(next)
    PROVE  /\ policy' \in [Tool -> Policy \cup {None}]
           /\ call' \in [Call -> Execution]
           /\ \A c \in Call : call'[c] # Idle => call'[c].question \in 0..Len(asked)
<1>1. policy' \in [Tool -> Policy \cup {None}]
  BY DEF TypeOK, Changes
<1>2. ASSUME NEW c \in Call
      PROVE  /\ call'[c] \in Execution
             /\ call'[c] # Idle => call'[c].question \in 0..Len(asked)
  <2>1. CASE call[c] = Idle \/ call[c].command.on \notin Tool
    BY <2>1 DEF TypeOK, Changes
  <2>2. CASE ~(call[c] = Idle \/ call[c].command.on \notin Tool)
    <3> DEFINE Busy == [step : {"checking", "eliciting", "consuming", "cleared"},
                        command : Command, modern : BOOLEAN, question : Nat,
                        answer : BOOLEAN, direct : BOOLEAN]
               d == \/ call[c].direct \/ next[call[c].command.on] = None
                    \/ next[call[c].command.on].mode = "direct"
    <3>1. call[c] \in Busy /\ call[c].question \in 0..Len(asked)
      BY <2>2 DEF TypeOK, Execution
    <3>2. call'[c] = [call[c] EXCEPT !.direct = d]
      BY <2>2 DEF Changes
    <3>3. d \in BOOLEAN
      OBVIOUS
    <3>4. [call[c] EXCEPT !.direct = d] \in Busy
      BY <3>1, <3>3
    <3> QED
      BY <3>1, <3>2, <3>4 DEF Execution
  <2> QED
    BY <2>1, <2>2
<1>3. call' = [c \in Call |-> call'[c]]
  BY DEF Changes
<1> QED
  BY <1>1, <1>2, <1>3

LEMMA TypeInvariant == TypeOK /\ CallsInv /\ [Next]_vars => TypeOK'
<1> SUFFICES ASSUME TypeOK, CallsInv, [Next]_vars PROVE TypeOK'
  OBVIOUS
<1>1. ASSUME NEW c \in Call, NEW command \in Command, NEW modern \in BOOLEAN,
             NEW answer \in BOOLEAN, NEW question \in 0..Len(asked),
             Begin(c, command, modern, question, answer)
      PROVE  TypeOK'
  <2> DEFINE e == [step |-> "checking", command |-> command, modern |-> modern,
                   question |-> question, answer |-> answer,
                   direct |-> command.on \in Tool /\ Mode(command.on) = "direct"]
  <2>1. e \in Execution /\ e.question \in 0..Len(asked)
    BY DEF Execution
  <2> QED
    BY <1>1, <2>1, TypeOfMoveAlone DEF Begin
<1>2. ASSUME NEW c \in Call, LetThrough(c) PROVE TypeOK'
  <2>1. call[c].step # "idle"
    BY <1>2 DEF LetThrough
  <2>2. [call[c] EXCEPT !.step = "cleared", !.question = 0] \in Execution
    BY <2>1, NextSteps
  <2>3. [call[c] EXCEPT !.step = "cleared", !.question = 0].question \in 0..Len(asked)
    BY <2>1, Running DEF TypeOK, Execution, Idle
  <2> QED
    BY <1>2, <2>2, <2>3, TypeOfMoveAlone DEF LetThrough
<1>3. ASSUME NEW c \in Call, Mint(c) PROVE TypeOK'
  <2>1. call[c].step # "idle"
    BY <1>3 DEF Mint, Asks
  <2> DEFINE q == [command |-> call[c].command, revision |-> PolicyRevision(c), late |-> FALSE]
  <2>2. q \in Question
    BY <2>1, Running, RevisionOfCall DEF Question
  <2>3. asked' \in Seq(Question) /\ Len(asked) =< Len(asked') /\ Len(asked') =< MaxAsked
    BY <1>3, <2>2, ApprovalAssumption DEF Mint, TypeOK
  <2>4. /\ file' \in [File -> Nat] /\ consumed' \subseteq 1..Len(asked)
        /\ ran' \in [1..MaxAsked -> Nat] /\ UNCHANGED <<configuration, admin, before, void>>
        /\ Idle \in Execution
    BY <1>3 DEF Mint, TypeOK, history, Execution
  <2> QED
    BY <1>3, <2>3, <2>4, TypeOfMove DEF Mint
<1>4. ASSUME NEW c \in Call, Verify(c) \/ Elicit(c) PROVE TypeOK'
  <2>1. call[c].step # "idle"
    BY <1>4 DEF Verify, Elicit, Asks
  <2>2. PICK s \in {"consuming", "eliciting"} : Goes(c, [call[c] EXCEPT !.step = s])
    BY <1>4 DEF Verify, Elicit
  <2>3. [call[c] EXCEPT !.step = s] \in Execution
    BY <2>1, NextSteps
  <2>4. [call[c] EXCEPT !.step = s].question \in 0..Len(asked)
    BY <2>1, Running DEF TypeOK, Execution, Idle
  <2> QED
    BY <1>4, <2>2, <2>3, <2>4, TypeOfMoveAlone DEF Verify, Elicit
<1>5. ASSUME NEW c \in Call, Refuse(c) \/ Dies(c) PROVE TypeOK'
  <2>1. Idle \in Execution
    BY DEF Execution
  <2> QED
    BY <1>5, <2>1, TypeOfMoveAlone DEF Refuse, Dies
<1>6. ASSUME NEW c \in Call, Consume(c) PROVE TypeOK'
  <2>1. call[c].step # "idle"
    BY <1>6 DEF Consume
  <2>2. PICK e \in {Idle, [call[c] EXCEPT !.step = "cleared"]} : Goes(c, e)
    BY <1>6 DEF Consume
  <2>3. e \in Execution
    BY <2>1, NextSteps
  <2>4. e # Idle => e.question \in 0..Len(asked)
    <3>1. [call[c] EXCEPT !.step = "cleared"].question = call[c].question
      BY <2>1 DEF TypeOK, Execution, Idle
    <3> QED
      BY <3>1, <2>1, Running
  <2>5. call[c].question \in 1..Len(asked)
    BY <1>6, <2>1, Running DEF CallsInv, ExecutionOK, Consume, TypeOK
  <2>6. consumed' \subseteq 1..Len(asked)
    BY <1>6, <2>5 DEF Consume, TypeOK
  <2>7. /\ file' \in [File -> Nat] /\ asked' \in Seq(Question)
        /\ Len(asked) =< Len(asked') /\ Len(asked') =< MaxAsked
        /\ ran' \in [1..MaxAsked -> Nat] /\ UNCHANGED <<configuration, admin, before, void>>
    BY <1>6 DEF Consume, TypeOK, history
  <2> QED
    BY <2>2, <2>3, <2>4, <2>6, <2>7, TypeOfMove
<1>7. ASSUME NEW c \in Call, NEW answer \in BOOLEAN, Answered(c, answer) PROVE TypeOK'
  <2>1. call[c].step # "idle"
    BY <1>7 DEF Answered
  <2>2. PICK e \in {Idle, [call[c] EXCEPT !.step = "cleared", !.answer = TRUE]} : Goes(c, e)
    BY <1>7 DEF Answered
  <2>3. e \in Execution
    BY <2>1, NextSteps
  <2>4. e # Idle => e.question \in 0..Len(asked)
    <3>1. [call[c] EXCEPT !.step = "cleared", !.answer = TRUE].question = call[c].question
      BY <2>1 DEF TypeOK, Execution, Idle
    <3> QED
      BY <3>1, <2>1, Running
  <2> QED
    BY <1>7, <2>2, <2>3, <2>4, TypeOfMoveAlone DEF Answered
<1>8. ASSUME NEW c \in Call, RunTool(c) \/ DeleteFile(c) PROVE TypeOK'
  <2>1. call[c].step # "idle"
    BY <1>8 DEF RunTool, DeleteFile
  <2>2. ran' \in [1..MaxAsked -> Nat]
    BY <1>8, <2>1, Running DEF RunTool, DeleteFile, Counted, TypeOK
  <2>3. file' \in [File -> Nat]
    <3>1. UNCHANGED file \/ \E f : file' = [file EXCEPT ![f] = 0]
      BY <1>8 DEF RunTool, DeleteFile
    <3>2. file \in [File -> Nat] /\ 0 \in Nat
      BY DEF TypeOK
    <3> QED
      BY <3>1, <3>2
  <2>4. UNCHANGED <<configuration, asked, consumed, admin, before, void>> /\ Goes(c, Idle)
    BY <1>8 DEF RunTool, DeleteFile
  <2>5. /\ asked' \in Seq(Question) /\ Len(asked) =< Len(asked') /\ Len(asked') =< MaxAsked
        /\ consumed' \subseteq 1..Len(asked) /\ Idle \in Execution
    BY <2>4 DEF TypeOK, Execution
  <2> QED
    BY <2>2, <2>3, <2>4, <2>5, TypeOfMove
<1>9. ASSUME NEW f \in File, Edit(f) PROVE TypeOK'
  BY <1>9 DEF Edit, TypeOK, configuration, history
<1>10. ASSUME NEW n \in 1..MaxAsked, Expires(n) PROVE TypeOK'
  <2>1. n \in 1..Len(asked) /\ asked \in Seq(Question) /\ asked[n] \in Question
    BY <1>10, Questions DEF Expires, TypeOK
  <2>2. [asked[n] EXCEPT !.late = TRUE] \in Question
    BY <2>1 DEF Question
  <2>3. asked' \in Seq(Question) /\ Len(asked') = Len(asked)
    BY <1>10, <2>1, <2>2 DEF Expires
  <2> QED
    BY <1>10, <2>3 DEF Expires, TypeOK, configuration, history
<1>11. ASSUME NEW a \in Admin, Read(a) PROVE TypeOK'
  <2>1. [policies |-> [t \in Tool |-> Revision(t)], modes |-> [t \in Tool |-> Mode(t)]] \in Seen
    BY Policies DEF Seen
  <2> QED
    BY <1>11, <2>1 DEF Read, TypeOK, configuration, history
<1>12. ASSUME NEW a \in Admin, NEW wanted \in Modes, NEW turned \in Switches,
              NEW outdated \in BOOLEAN, Upsert(a, wanted, turned, outdated)
       PROVE  TypeOK'
  <2>1. CASE UNCHANGED <<configuration, call, history>>
    BY <1>12, <2>1 DEF Upsert, TypeOK, configuration, history
  <2>2. CASE ~UNCHANGED <<configuration, call, history>>
    <3> DEFINE next == [t \in Tool |-> Updated(t, wanted[t], admin[a].policies[t])]
    <3>1. next \in [Tool -> Policy \cup {None}]
      BY <1>12 DEF Upsert, TypeOK, Seen, Updated, Policy, Modes
    <3>2. Changes(next) /\ void' = void \cup Voided(next)
      BY <1>12, <2>2 DEF Upsert
    <3>3. /\ active' \subseteq Tool
          /\ UNCHANGED <<exists, file, asked, consumed, admin, ran, before>>
      BY <1>12, <2>2 DEF Upsert
    <3> HIDE DEF next
    <3>4. void' \subseteq before + 1 .. Len(asked)
      BY <3>2 DEF TypeOK, Voided
    <3> QED
      BY <3>1, <3>2, <3>3, <3>4, TypeOfChange DEF TypeOK
  <2> QED
    BY <2>1, <2>2
<1>13. ASSUME DeleteConnector PROVE TypeOK'
  <2>1. [t \in Tool |-> None] \in [Tool -> Policy \cup {None}]
    OBVIOUS
  <2>2. Len(asked) \in Nat /\ Len(asked) \in 0..Len(asked)
    BY DEF TypeOK
  <2> QED
    BY <1>13, <2>1, <2>2, TypeOfChange DEF DeleteConnector, TypeOK
<1>14. CASE ConnectorReturns \/ UNCHANGED vars
  BY <1>14 DEF ConnectorReturns, TypeOK, vars, configuration, history
<1> QED
  BY <1>1, <1>2, <1>3, <1>4, <1>5, <1>6, <1>7, <1>8, <1>9, <1>10, <1>11, <1>12, <1>13, <1>14
     DEF Next, Calls, Administers

-----------------------------------------------------------------------------
(* Executions.                                                             *)

(* An execution is fine as long as nobody changes a policy.                *)
LEMMA FineStaysFine ==
    ASSUME TypeOK, NEW e \in Execution, e # Idle, e.question \in 0..Len(asked),
           ExecutionOK(e, asked, consumed, policy),
           UNCHANGED policy, consumed \subseteq consumed',
           \A n \in 1..Len(asked) : asked'[n].command = asked[n].command
    PROVE  ExecutionOK(e, asked', consumed', policy')
<1>1. e.question # 0 => asked'[e.question].command = asked[e.question].command
  BY DEF TypeOK
<1> QED
  BY <1>1 DEF ExecutionOK, Mode

LEMMA MoveIsFine ==
    ASSUME TypeOK, CallsInv, NEW c \in Call, NEW e \in Execution, Goes(c, e),
           e # Idle => ExecutionOK(e, asked', consumed', policy'),
           UNCHANGED policy, consumed \subseteq consumed',
           \A n \in 1..Len(asked) : asked'[n].command = asked[n].command
    PROVE  CallsInv'
<1> SUFFICES ASSUME NEW d \in Call, call'[d] # Idle
             PROVE  ExecutionOK(call'[d], asked', consumed', policy')
  BY DEF CallsInv
<1>1. CASE d = c
  BY <1>1 DEF Goes, TypeOK
<1>2. CASE d # c
  <2>1. call'[d] = call[d]
    BY <1>2 DEF Goes, TypeOK
  <2>2. /\ call[d] \in Execution /\ call[d] # Idle /\ call[d].question \in 0..Len(asked)
        /\ ExecutionOK(call[d], asked, consumed, policy)
    BY <2>1 DEF TypeOK, CallsInv
  <2> QED
    BY <2>1, <2>2, FineStaysFine
<1> QED
  BY <1>1, <1>2

(* When policies change, an execution remembers that one has been direct.  *)
LEMMA ChangeIsFine ==
    ASSUME TypeOK, CallsInv, NEW next \in [Tool -> Policy \cup {None}], Changes(next),
           UNCHANGED <<asked, consumed>>
    PROVE  CallsInv'
<1> SUFFICES ASSUME NEW c \in Call, call'[c] # Idle
             PROVE  ExecutionOK(call'[c], asked', consumed', policy')
  BY DEF CallsInv
<1>1. CASE call[c] = Idle \/ call[c].command.on \notin Tool
  <2>1. call'[c] = call[c] /\ call[c] # Idle /\ call[c].command.on \notin Tool
    BY <1>1 DEF Changes
  <2>2. ExecutionOK(call[c], asked, consumed, policy)
    BY <2>1 DEF CallsInv
  <2> QED
    BY <2>1, <2>2 DEF ExecutionOK
<1>2. CASE call[c] # Idle /\ call[c].command.on \in Tool
  <2> DEFINE d == \/ call[c].direct \/ next[call[c].command.on] = None
                  \/ next[call[c].command.on].mode = "direct"
  <2>1. call'[c] = [call[c] EXCEPT !.direct = d]
    BY <1>2 DEF Changes
  <2>2. /\ call'[c].modern = call[c].modern /\ call'[c].question = call[c].question
        /\ call'[c].step = call[c].step /\ call'[c].answer = call[c].answer
        /\ call'[c].command = call[c].command /\ call'[c].direct = d
    BY <1>2, <2>1, NotRunning, Running DEF TypeOK, Execution
  <2>3. ExecutionOK(call[c], asked, consumed, policy)
    BY <1>2 DEF CallsInv
  <2>4. policy'[call[c].command.on] = None \/ policy'[call[c].command.on].mode = "direct" => d
    BY <1>2 DEF Changes
  <2> QED
    BY <1>2, <2>2, <2>3, <2>4 DEF ExecutionOK
<1> QED
  BY <1>1, <1>2

LEMMA CallsInvariant == TypeOK /\ CallsInv /\ [Next]_vars => CallsInv'
<1> SUFFICES ASSUME TypeOK, CallsInv, [Next]_vars PROVE CallsInv'
  OBVIOUS
<1> USE DEF configuration, history
<1>a. ASSUME NEW c \in Call, call[c].step # "idle"
      PROVE  /\ call[c] \in Execution /\ ExecutionOK(call[c], asked, consumed, policy)
             /\ \A s : /\ [call[c] EXCEPT !.step = s].step = s
                       /\ [call[c] EXCEPT !.step = s].command = call[c].command
                       /\ [call[c] EXCEPT !.step = s].modern = call[c].modern
                       /\ [call[c] EXCEPT !.step = s].question = call[c].question
                       /\ [call[c] EXCEPT !.step = s].answer = call[c].answer
                       /\ [call[c] EXCEPT !.step = s].direct = call[c].direct
  BY <1>a, Running DEF CallsInv, Execution, Idle
<1>1. ASSUME NEW c \in Call, NEW command \in Command, NEW modern \in BOOLEAN,
             NEW answer \in BOOLEAN, NEW question \in 0..Len(asked),
             Begin(c, command, modern, question, answer)
      PROVE  CallsInv'
  <2> DEFINE e == [step |-> "checking", command |-> command, modern |-> modern,
                   question |-> question, answer |-> answer,
                   direct |-> command.on \in Tool /\ Mode(command.on) = "direct"]
  <2>1. e \in Execution
    BY DEF Execution
  <2>2. ExecutionOK(e, asked', consumed', policy')
    BY <1>1 DEF ExecutionOK, Begin, Mode
  <2> HIDE DEF e
  <2> QED
    BY <1>1, <2>1, <2>2, MoveIsFine DEF Begin, e
<1>2. ASSUME NEW c \in Call, LetThrough(c) PROVE CallsInv'
  <2> DEFINE e == [call[c] EXCEPT !.step = "cleared", !.question = 0]
  <2>1. call[c].step # "idle"
    BY <1>2 DEF LetThrough
  <2>2. e \in Execution
    BY <2>1, NextSteps
  <2>3. /\ e.step = "cleared" /\ e.question = 0 /\ e.command = call[c].command
        /\ e.direct = call[c].direct /\ e.modern = call[c].modern
    BY <2>1, Running DEF Execution, Idle
  <2>4. call[c].direct
    BY <1>2, <1>a, <2>1 DEF LetThrough, Direct, On, Mode, ExecutionOK
  <2>5. ExecutionOK(e, asked', consumed', policy')
    BY <1>2, <1>a, <2>1, <2>3, <2>4 DEF ExecutionOK, LetThrough, Mode
  <2> HIDE DEF e
  <2> QED
    BY <1>2, <2>2, <2>5, MoveIsFine DEF LetThrough, e
<1>3. ASSUME NEW c \in Call, Verify(c) PROVE CallsInv'
  <2> DEFINE e == [call[c] EXCEPT !.step = "consuming"]
  <2>1. call[c].step # "idle"
    BY <1>3 DEF Verify, Asks
  <2>2. e \in Execution
    BY <2>1, NextSteps
  <2>3. ExecutionOK(e, asked', consumed', policy')
    BY <1>3, <1>a, <2>1 DEF ExecutionOK, Verify, Verified, Mode
  <2> HIDE DEF e
  <2> QED
    BY <1>3, <2>2, <2>3, MoveIsFine DEF Verify, e
<1>4. ASSUME NEW c \in Call, Elicit(c) PROVE CallsInv'
  <2> DEFINE e == [call[c] EXCEPT !.step = "eliciting"]
  <2>1. call[c].step # "idle"
    BY <1>4 DEF Elicit, Asks
  <2>2. e \in Execution
    BY <2>1, NextSteps
  <2>3. ExecutionOK(e, asked', consumed', policy')
    BY <1>4, <1>a, <2>1 DEF ExecutionOK, Elicit, Mode
  <2> HIDE DEF e
  <2> QED
    BY <1>4, <2>2, <2>3, MoveIsFine DEF Elicit, e
<1>5. ASSUME NEW c \in Call, NEW answer \in BOOLEAN, Answered(c, answer) PROVE CallsInv'
  <2> DEFINE e == [call[c] EXCEPT !.step = "cleared", !.answer = TRUE]
  <2>1. call[c].step # "idle" /\ Idle \in Execution
    BY <1>5 DEF Answered, Execution
  <2>2. e \in Execution
    BY <2>1, NextSteps
  <2>3. /\ e.step = "cleared" /\ e.answer /\ e.command = call[c].command
        /\ e.direct = call[c].direct /\ e.modern = call[c].modern
        /\ e.question = call[c].question
    BY <2>1, Running DEF Execution, Idle
  <2>4. ExecutionOK(e, asked', consumed', policy')
    BY <1>5, <1>a, <2>1, <2>3 DEF ExecutionOK, Answered, Mode
  <2> HIDE DEF e
  <2> QED
    BY <1>5, <2>1, <2>2, <2>4, MoveIsFine DEF Answered, e
<1>6. ASSUME NEW c \in Call, Consume(c) PROVE CallsInv'
  <2> DEFINE e == [call[c] EXCEPT !.step = "cleared"]
  <2>1. call[c].step # "idle" /\ Idle \in Execution
    BY <1>6 DEF Consume, Execution
  <2>2. e \in Execution
    BY <2>1, NextSteps
  <2>3. CASE Consumable(c)
    <3>1. ExecutionOK(e, asked', consumed', policy')
      BY <1>6, <1>a, <2>1, <2>3 DEF ExecutionOK, Consume, Mode
    <3> HIDE DEF e
    <3> QED
      BY <1>6, <2>2, <2>3, <3>1, MoveIsFine DEF Consume, e
  <2>4. CASE ~Consumable(c)
    BY <1>6, <2>1, <2>4, MoveIsFine DEF Consume
  <2> QED
    BY <2>3, <2>4
<1>7. ASSUME NEW c \in Call, Mint(c) PROVE CallsInv'
  <2>1. \A n \in 1..Len(asked) : asked'[n] = asked[n]
    BY <1>7 DEF Mint, TypeOK
  <2>2. Idle \in Execution
    BY DEF Execution
  <2> QED
    BY <1>7, <2>1, <2>2, MoveIsFine DEF Mint
<1>8. ASSUME NEW c \in Call, Refuse(c) \/ RunTool(c) \/ DeleteFile(c) \/ Dies(c) PROVE CallsInv'
  <2>1. UNCHANGED <<policy, asked, consumed>> /\ Goes(c, Idle)
    BY <1>8 DEF Refuse, RunTool, DeleteFile, Dies
  <2>2. Idle \in Execution
    BY DEF Execution
  <2> QED
    BY <2>1, <2>2, MoveIsFine
<1>9. ASSUME UNCHANGED <<policy, consumed, call>>,
             \A n \in 1..Len(asked) : asked'[n].command = asked[n].command
      PROVE  CallsInv'
  BY <1>9, FineStaysFine DEF CallsInv, TypeOK
<1>10. ASSUME NEW n \in 1..MaxAsked, Expires(n) PROVE CallsInv'
  <2>1. asked[n].command = [asked[n] EXCEPT !.late = TRUE].command
    BY <1>10, Questions DEF Expires, Question
  <2>2. \A m \in 1..Len(asked) : asked'[m].command = asked[m].command
    BY <1>10, <2>1 DEF Expires, TypeOK
  <2> QED
    BY <1>9, <1>10, <2>2 DEF Expires
<1>11. ASSUME NEW a \in Admin, NEW wanted \in Modes, NEW turned \in Switches,
              NEW outdated \in BOOLEAN, Upsert(a, wanted, turned, outdated)
       PROVE  CallsInv'
  <2>1. CASE UNCHANGED <<configuration, call, history>>
    BY <1>9, <1>11, <2>1 DEF Upsert
  <2>2. CASE ~UNCHANGED <<configuration, call, history>>
    <3> DEFINE next == [t \in Tool |-> Updated(t, wanted[t], admin[a].policies[t])]
    <3>1. next \in [Tool -> Policy \cup {None}]
      BY <1>11 DEF Upsert, TypeOK, Seen, Updated, Policy, Modes
    <3>2. Changes(next) /\ UNCHANGED <<asked, consumed>>
      BY <1>11, <2>2 DEF Upsert
    <3> HIDE DEF next
    <3> QED
      BY <3>1, <3>2, ChangeIsFine
  <2> QED
    BY <2>1, <2>2
<1>12. ASSUME DeleteConnector PROVE CallsInv'
  <2>1. [t \in Tool |-> None] \in [Tool -> Policy \cup {None}]
    OBVIOUS
  <2> QED
    BY <1>12, <2>1, ChangeIsFine DEF DeleteConnector
<1>13. CASE \/ \E a \in Admin : Read(a)
            \/ \E f \in File : Edit(f)
            \/ ConnectorReturns
            \/ UNCHANGED vars
  BY <1>9, <1>13 DEF Read, Edit, ConnectorReturns, vars
<1> QED
  BY <1>1, <1>2, <1>3, <1>4, <1>5, <1>6, <1>7, <1>8, <1>10, <1>11, <1>12, <1>13
     DEF Next, Calls, Administers

-----------------------------------------------------------------------------
(* Answers.                                                                *)

(* Only an execution that consumes an answer is cleared with it, and only  *)
(* one that is cleared runs.                                               *)
LEMMA AnswersInvariant ==
    ASSUME TypeOK, CallsInv, RanInv, AnswersLetOneThrough, [Next]_vars
    PROVE  RanInv' /\ AnswersLetOneThrough'
<1> USE DEF configuration, history
<1>a. MaxAsked \in Nat
  BY ApprovalAssumption
<1>1. ASSUME UNCHANGED <<consumed, ran>>,
             \A d \in Call : call'[d].step = "cleared" /\ call'[d].question # 0 =>
                call[d].step = "cleared" /\ call[d].question = call'[d].question
      PROVE  RanInv' /\ AnswersLetOneThrough'
  <2>1. \A n \in 1..MaxAsked : About(n)' \subseteq About(n)
    BY <1>1 DEF About
  <2> QED
    BY <1>1, <2>1 DEF RanInv, AnswersLetOneThrough
<1>2. ASSUME NEW c \in Call, NEW e, Goes(c, e), e.step = "cleared" => e.question = 0,
             UNCHANGED <<consumed, ran>>
      PROVE  RanInv' /\ AnswersLetOneThrough'
  BY <1>1, <1>2 DEF Goes, TypeOK
<1>3. ASSUME NEW c \in Call, NEW command \in Command, NEW modern \in BOOLEAN,
             NEW answer \in BOOLEAN, NEW question \in 0..Len(asked),
             Begin(c, command, modern, question, answer)
      PROVE  RanInv' /\ AnswersLetOneThrough'
  <2> DEFINE e == [step |-> "checking", command |-> command, modern |-> modern,
                   question |-> question, answer |-> answer,
                   direct |-> command.on \in Tool /\ Mode(command.on) = "direct"]
  <2>1. e.step # "cleared"
    OBVIOUS
  <2>2. Goes(c, e) /\ UNCHANGED <<consumed, ran>>
    BY <1>3 DEF Begin
  <2> HIDE DEF e
  <2> QED
    BY <1>2, <2>1, <2>2
<1>4. ASSUME NEW c \in Call,
             LetThrough(c) \/ Verify(c) \/ Elicit(c)
      PROVE  RanInv' /\ AnswersLetOneThrough'
  <2>1. call[c].step # "idle" /\ UNCHANGED <<consumed, ran>>
    BY <1>4 DEF LetThrough, Verify, Elicit, Asks
  <2>2. PICK e : Goes(c, e) /\ e \in {[call[c] EXCEPT !.step = "cleared", !.question = 0],
             [call[c] EXCEPT !.step = "consuming"], [call[c] EXCEPT !.step = "eliciting"]}
    BY <1>4 DEF LetThrough, Verify, Elicit
  <2>3. e.step = "cleared" => e.question = 0
    BY <2>1, <2>2, Running DEF Execution, Idle
  <2> QED
    BY <1>2, <2>1, <2>2, <2>3
<1>5. ASSUME NEW c \in Call, NEW answer \in BOOLEAN, Answered(c, answer)
      PROVE  RanInv' /\ AnswersLetOneThrough'
  <2>1. call[c].step = "eliciting" /\ UNCHANGED <<consumed, ran>>
    BY <1>5 DEF Answered
  <2>2. call[c].question = 0
    BY <2>1, Running DEF CallsInv, ExecutionOK
  <2>3. PICK e : Goes(c, e) /\ e \in {[call[c] EXCEPT !.step = "cleared", !.answer = TRUE], Idle}
    BY <1>5 DEF Answered
  <2>4. [call[c] EXCEPT !.step = "cleared", !.answer = TRUE].question = call[c].question
    BY <2>1, Running DEF Execution, Idle
  <2>5. CASE e = Idle
    BY <1>2, <2>1, <2>3, <2>5 DEF Idle
  <2>6. CASE e = [call[c] EXCEPT !.step = "cleared", !.answer = TRUE]
    <3>1. e.question = 0
      BY <2>2, <2>4, <2>6
    <3> QED
      BY <1>2, <2>1, <2>3, <3>1
  <2> QED
    BY <2>3, <2>5, <2>6
<1>6. ASSUME NEW c \in Call, Consume(c) PROVE RanInv' /\ AnswersLetOneThrough'
  <2> DEFINE m == call[c].question
  <2>1. call[c].step = "consuming" /\ m \in 1..MaxAsked
    BY <1>6, <1>a, Running DEF Consume, CallsInv, ExecutionOK, TypeOK
  <2>2. CASE Consumable(c)
    <3>1. /\ m \notin consumed /\ consumed' = consumed \cup {m} /\ ran' = ran
          /\ call' = [call EXCEPT ![c].step = "cleared"]
      BY <1>6, <2>2 DEF Consume, Consumable, Goes
    <3>2. /\ call'[c].step = "cleared" /\ call'[c].question = m
          /\ \A d \in Call \ {c} : call'[d] = call[d]
      BY <3>1, <2>1, Running DEF TypeOK, Execution, Idle
    <3>3. About(m) = {} /\ ran[m] = 0
      BY <2>1, <3>1, NotRunning DEF About, RanInv, CallsInv, ExecutionOK, Idle
    <3>4. About(m)' = {c} /\ \A n \in 1..MaxAsked \ {m} : About(n)' = About(n)
      BY <2>1, <3>2, <3>3 DEF About
    <3> QED
      BY <2>1, <3>1, <3>3, <3>4 DEF RanInv, AnswersLetOneThrough
  <2>3. CASE ~Consumable(c)
    <3>1. Goes(c, Idle) /\ UNCHANGED <<consumed, ran>>
      BY <1>6, <2>3 DEF Consume
    <3> QED
      BY <1>2, <3>1 DEF Idle
  <2> QED
    BY <2>2, <2>3
<1>7. ASSUME NEW c \in Call, Mint(c) \/ Refuse(c) \/ Dies(c)
      PROVE  RanInv' /\ AnswersLetOneThrough'
  <2>1. Goes(c, Idle) /\ UNCHANGED <<consumed, ran>>
    BY <1>7 DEF Mint, Refuse, Dies
  <2> QED
    BY <1>2, <2>1 DEF Idle
<1>8. ASSUME NEW c \in Call, RunTool(c) \/ DeleteFile(c)
      PROVE  RanInv' /\ AnswersLetOneThrough'
  <2>0. PICK m : m = call[c].question
    OBVIOUS
  <2>1. /\ call[c].step = "cleared" /\ Goes(c, Idle) /\ UNCHANGED consumed
        /\ UNCHANGED ran \/ Counted(c)
    BY <1>8 DEF RunTool, DeleteFile
  <2>2. CASE UNCHANGED ran \/ m = 0
    BY <1>2, <2>0, <2>1, <2>2 DEF Idle, Counted
  <2>3. CASE m # 0 /\ ran' = [ran EXCEPT ![m] = @ + 1]
    <3>1. m \in 1..MaxAsked /\ m \in consumed
      BY <1>a, <2>0, <2>1, <2>3, Running DEF CallsInv, ExecutionOK, TypeOK
    <3>2. c \in About(m) /\ ran[m] = 0 /\ ran'[m] = 1
      BY <2>0, <2>1, <2>3, <3>1 DEF About, AnswersLetOneThrough, TypeOK
    <3>3. call'[c] = Idle /\ \A d \in Call \ {c} : call'[d] = call[d]
      BY <2>1 DEF Goes, TypeOK
    <3>4. \A n \in 1..MaxAsked : About(n)' \subseteq About(n) \ {c}
      BY <3>3 DEF About, Idle
    <3>5. About(m)' = {}
      BY <3>1, <3>2, <3>4 DEF AnswersLetOneThrough
    <3>6. \A n \in 1..MaxAsked \ {m} : ran'[n] = ran[n]
      BY <2>3 DEF TypeOK
    <3>7. RanInv'
      BY <2>1, <3>1, <3>6 DEF RanInv
    <3>8. ASSUME NEW n \in 1..MaxAsked
          PROVE  /\ \A b, d \in About(n)' : b = d
                 /\ About(n)' # {} => ran'[n] = 0
                 /\ ran'[n] =< 1
      BY <3>1, <3>2, <3>4, <3>5, <3>6 DEF AnswersLetOneThrough
    <3> QED
      BY <3>7, <3>8 DEF AnswersLetOneThrough
  <2> QED
    BY <2>0, <2>1, <2>2, <2>3 DEF Counted
<1>9. ASSUME NEW next, Changes(next), UNCHANGED <<consumed, ran>>
      PROVE  RanInv' /\ AnswersLetOneThrough'
  <2>1. ASSUME NEW d \in Call
        PROVE  call'[d].step = call[d].step /\ call'[d].question = call[d].question
    BY <1>9, NotRunning, Running DEF Changes, Execution
  <2> QED
    BY <1>1, <1>9, <2>1
<1>10. CASE \/ \E a \in Admin : Read(a)
            \/ \E f \in File : Edit(f)
            \/ \E n \in 1..MaxAsked : Expires(n)
            \/ ConnectorReturns
            \/ UNCHANGED vars
  BY <1>1, <1>10 DEF Read, Edit, Expires, ConnectorReturns, vars
<1>11. ASSUME NEW a \in Admin, NEW wanted \in Modes, NEW turned \in Switches,
              NEW outdated \in BOOLEAN, Upsert(a, wanted, turned, outdated)
       PROVE  RanInv' /\ AnswersLetOneThrough'
  BY <1>1, <1>9, <1>11 DEF Upsert
<1>12. CASE DeleteConnector
  BY <1>9, <1>12 DEF DeleteConnector
<1> QED
  BY <1>3, <1>4, <1>5, <1>6, <1>7, <1>8, <1>10, <1>11, <1>12 DEF Next, Calls, Administers

-----------------------------------------------------------------------------
(* Revisions.                                                              *)

(* Policies stay, or go with the connector, or change by an update under   *)
(* the revisions that its author has read.                                 *)
LEMMA PolicySteps ==
    ASSUME TypeOK, [Next]_vars
    PROVE  \/ UNCHANGED <<policy, before, void>>
           \/ /\ before' = Len(asked) /\ void' = {} /\ policy' = [t \in Tool |-> None]
              /\ UNCHANGED <<asked, admin>>
           \/ \E a \in Admin, wanted \in Modes :
                /\ admin[a] # None /\ ~Conflicts(a, wanted)
                /\ policy' = [t \in Tool |-> Updated(t, wanted[t], admin[a].policies[t])]
                /\ void' = void \cup Voided(policy')
                /\ UNCHANGED <<before, asked, admin>>
<1> USE DEF configuration, history
<1>1. ASSUME NEW a \in Admin, NEW wanted \in Modes, NEW turned \in Switches,
             NEW outdated \in BOOLEAN, Upsert(a, wanted, turned, outdated)
      PROVE  \/ UNCHANGED <<policy, before, void>>
             \/ /\ admin[a] # None /\ ~Conflicts(a, wanted)
                /\ policy' = [t \in Tool |-> Updated(t, wanted[t], admin[a].policies[t])]
                /\ void' = void \cup Voided(policy')
                /\ UNCHANGED <<before, asked, admin>>
  BY <1>1 DEF Upsert, Changes
<1>2. CASE DeleteConnector
  BY <1>2 DEF DeleteConnector, Changes
<1>3. CASE \/ UNCHANGED vars \/ ConnectorReturns
           \/ \E c \in Call : Calls(c)
           \/ \E a \in Admin : Read(a)
           \/ \E f \in File : Edit(f)
           \/ \E n \in 1..MaxAsked : Expires(n)
  BY <1>3 DEF vars, ConnectorReturns, Calls, Begin, LetThrough, Mint, Verify, Refuse, Consume,
     Elicit, Answered, RunTool, DeleteFile, Dies, Read, Edit, Expires
<1> QED
  BY <1>1, <1>2, <1>3 DEF Next, Administers

(* An update without a conflict gives a tool its next revision. *)
LEMMA NextRevision ==
    ASSUME TypeOK, NEW a \in Admin, NEW wanted \in Modes, admin[a] # None, ~Conflicts(a, wanted),
           NEW t \in Tool,
           policy'[t] = Updated(t, wanted[t], admin[a].policies[t])
    PROVE  \/ policy'[t] = policy[t]
           \/ /\ Revision(t)' = Revision(t) + 1
              /\ Mode(t)' \in {"direct", "ask"} \ {Mode(t)}
<1>1. CASE wanted[t] = None \/ wanted[t] = Mode(t)
  BY <1>1 DEF Updated
<1>2. CASE ~(wanted[t] = None \/ wanted[t] = Mode(t))
  <2>1. policy'[t] = [mode |-> wanted[t], revision |-> Revision(t) + 1]
    BY <1>2 DEF Updated, Conflicts
  <2>2. policy'[t] # None
    BY <1>2, <2>1, Policies, ApprovalAssumption DEF Policy, Modes
  <2>3. wanted[t] \in {"direct", "ask"} \ {Mode(t)}
    BY <1>2 DEF Modes
  <2> QED
    BY <2>1, <2>2, <2>3 DEF Revision, Mode
<1> QED
  BY <1>1, <1>2

(* Revisions never go back, and stay only with their policies, unless the  *)
(* connector is deleted.                                                   *)
LEMMA RevisionsGrow ==
    ASSUME TypeOK, [Next]_vars
    PROVE  \/ before' = Len(asked) /\ void' = {} /\ UNCHANGED asked
           \/ /\ UNCHANGED before
              /\ \A t \in Tool :
                    \/ policy'[t] = policy[t] /\ Revision(t)' = Revision(t)
                    \/ Revision(t)' = Revision(t) + 1
<1>1. CASE UNCHANGED <<policy, before, void>>
  BY <1>1 DEF Revision
<1>2. ASSUME NEW a \in Admin, NEW wanted \in Modes, admin[a] # None, ~Conflicts(a, wanted),
             policy' = [u \in Tool |-> Updated(u, wanted[u], admin[a].policies[u])],
             UNCHANGED before, NEW t \in Tool
      PROVE  \/ policy'[t] = policy[t] /\ Revision(t)' = Revision(t)
             \/ Revision(t)' = Revision(t) + 1
  <2>1. policy'[t] = Updated(t, wanted[t], admin[a].policies[t])
    BY <1>2
  <2>2. policy'[t] = policy[t] \/ Revision(t)' = Revision(t) + 1
    BY <1>2, <2>1, NextRevision
  <2> QED
    BY <2>2 DEF Revision
<1> QED
  BY <1>1, <1>2, PolicySteps

LEMMA Asking ==
    ASSUME TypeOK, [Next]_vars
    PROVE  /\ Len(asked) \in Nat /\ Len(asked') \in Nat /\ Len(asked) =< Len(asked')
           /\ \A n \in 1..Len(asked) : /\ asked'[n].command = asked[n].command
                                       /\ asked'[n].revision = asked[n].revision
           /\ \A n \in Len(asked) + 1 .. Len(asked') : \E c \in Call :
                /\ asked'[n].command = call[c].command /\ call[c].step = "checking"
                /\ asked'[n].revision = PolicyRevision(c)
                /\ UNCHANGED <<policy, before, void>>
<1>0. Len(asked) \in Nat
  BY DEF TypeOK
<1>1. CASE UNCHANGED asked
  BY <1>0, <1>1
<1>2. ASSUME NEW c \in Call, Mint(c)
      PROVE  /\ Len(asked') = Len(asked) + 1
             /\ \A n \in 1..Len(asked) : asked'[n] = asked[n]
             /\ asked'[Len(asked) + 1].command = call[c].command
             /\ asked'[Len(asked) + 1].revision = PolicyRevision(c)
             /\ call[c].step = "checking" /\ UNCHANGED <<policy, before, void>>
  <2> DEFINE q == [command |-> call[c].command, revision |-> PolicyRevision(c), late |-> FALSE]
  <2>1. asked' = Append(asked, q) /\ call[c].step = "checking" /\ UNCHANGED <<policy, before, void>>
    BY <1>2 DEF Mint, Asks, configuration, history
  <2>2. q.command = call[c].command /\ q.revision = PolicyRevision(c)
    OBVIOUS
  <2> HIDE DEF q
  <2> QED
    BY <2>1, <2>2 DEF TypeOK
<1>3. ASSUME NEW n \in 1..MaxAsked, Expires(n)
      PROVE  /\ Len(asked') = Len(asked)
             /\ \A m \in 1..Len(asked) : /\ asked'[m].command = asked[m].command
                                         /\ asked'[m].revision = asked[m].revision
  <2>1. /\ [asked[n] EXCEPT !.late = TRUE].command = asked[n].command
        /\ [asked[n] EXCEPT !.late = TRUE].revision = asked[n].revision
    BY <1>3, Questions DEF Expires, Question
  <2> QED
    BY <1>3, <2>1 DEF Expires, TypeOK
<1>4. \/ UNCHANGED asked
      \/ \E c \in Call : Mint(c)
      \/ \E n \in 1..MaxAsked : Expires(n)
  BY DEF Next, Calls, Administers, vars, Begin, LetThrough, Verify, Refuse, Consume, Elicit,
         Answered, RunTool, DeleteFile, Dies, Read, Upsert, DeleteConnector,
         ConnectorReturns, Edit
<1>5. CASE \E c \in Call : Mint(c)
  <2>1. PICK c \in Call : Mint(c)
    BY <1>5
  <2>2. \A n \in Len(asked) + 1 .. Len(asked') : n = Len(asked) + 1
    BY <1>0, <1>2, <2>1
  <2> QED
    BY <1>0, <1>2, <2>1, <2>2
<1>6. CASE \E n \in 1..MaxAsked : Expires(n)
  BY <1>0, <1>3, <1>6
<1> QED
  BY <1>1, <1>4, <1>5, <1>6

LEMMA QuestionsInvariant ==
    ASSUME TypeOK, QuestionsInv, [Next]_vars PROVE QuestionsInv'
<1>0. Len(asked) \in Nat /\ before \in 0..Len(asked) /\ void \subseteq before + 1 .. Len(asked)
  BY DEF TypeOK
<1>1. CASE before' = Len(asked) /\ void' = {} /\ UNCHANGED asked
  BY <1>0, <1>1 DEF QuestionsInv
<1>2. CASE UNCHANGED before /\ \A t \in Tool :
              \/ policy'[t] = policy[t] /\ Revision(t)' = Revision(t)
              \/ Revision(t)' = Revision(t) + 1
  <2>1. ASSUME NEW n \in 1..Len(asked), asked[n].command.on \in Tool
        PROVE  /\ asked'[n].command.on = asked[n].command.on
               /\ asked[n].revision \in Nat /\ asked'[n].revision = asked[n].revision
               /\ Revision(asked[n].command.on) \in Nat
               /\ \/ /\ policy'[asked[n].command.on] = policy[asked[n].command.on]
                     /\ Revision(asked[n].command.on)' = Revision(asked[n].command.on)
                  \/ Revision(asked[n].command.on)' = Revision(asked[n].command.on) + 1
    <3>1. /\ asked'[n].command = asked[n].command /\ asked'[n].revision = asked[n].revision
          /\ asked[n].revision \in Nat
      BY Asking, Questions
    <3>2. Revision(asked[n].command.on)' =
             IF policy'[asked[n].command.on] = None THEN 0
             ELSE policy'[asked[n].command.on].revision
      BY <3>1 DEF Revision
    <3> QED
      BY <1>2, <2>1, <3>1, <3>2, Policies DEF Revision
  <2>2. ASSUME NEW n \in before' + 1 .. Len(asked'), asked'[n].command.on \in Tool
        PROVE  asked'[n].revision =< Revision(asked[n].command.on)'
    <3>1. CASE n \in 1..Len(asked)
      BY <1>0, <1>2, <2>1, <2>2, <3>1, Asking DEF QuestionsInv
    <3>2. CASE n \notin 1..Len(asked)
      <4>1. n \in Len(asked) + 1 .. Len(asked')
        BY <1>0, <1>2, <2>2, <3>2, Asking
      <4>2. PICK c \in Call : /\ asked'[n].command = call[c].command
                              /\ asked'[n].revision = PolicyRevision(c) /\ UNCHANGED policy
        BY <4>1, Asking
      <4> QED
        BY <2>2, <4>2, Policies DEF PolicyRevision, On, Revision
    <3> QED
      BY <3>1, <3>2
  <2>3. ASSUME NEW n \in void'
        PROVE  /\ asked'[n].command.on \in Tool
               /\ asked'[n].revision < Revision(asked[n].command.on)'
    <3>1. CASE n \in void
      <4>1. n \in 1..Len(asked) /\ asked[n].command.on \in Tool
            /\ asked[n].revision < Revision(asked[n].command.on)
        BY <1>0, <3>1 DEF QuestionsInv
      <4> QED
        BY <2>1, <4>1
    <3>2. CASE n \notin void
      <4>1. n \in Voided(policy')
        BY <2>3, <3>2, PolicySteps
      <4>2. /\ n \in before + 1 .. Len(asked) /\ n \in 1..Len(asked)
            /\ asked[n].command.on \in Tool
            /\ policy'[asked[n].command.on] # policy[asked[n].command.on]
        BY <1>0, <4>1 DEF Voided
      <4>3. asked[n].revision =< Revision(asked[n].command.on)
        BY <4>2 DEF QuestionsInv
      <4> QED
        BY <2>1, <4>2, <4>3
    <3> QED
      BY <3>1, <3>2
  <2> QED
    BY <2>2, <2>3 DEF QuestionsInv
<1> QED
  BY <1>1, <1>2, RevisionsGrow

(* The first revision asks, and the next one turns the mode. *)
LEMMA ModesTurn ==
    ASSUME NEW n \in Nat
    PROVE  /\ ModeAt(0) = "direct"
           /\ ModeAt(n) \in {"direct", "ask"}
           /\ ModeAt(n + 1) \in {"direct", "ask"} \ {ModeAt(n)}
  BY DEF ModeAt

(* What is read is true, and every change turns the mode.                  *)
LEMMA SeenInvariant ==
    ASSUME TypeOK, SeenInv, [Next]_vars PROVE SeenInv'
<1>1. ASSUME NEW t \in Tool PROVE Mode(t)' = ModeAt(Revision(t))'
  <2>0. Mode(t) = ModeAt(Revision(t)) /\ Revision(t) \in Nat
    BY Policies DEF SeenInv
  <2>1. CASE policy'[t] = policy[t]
    BY <2>0, <2>1 DEF Mode, Revision, ModeAt
  <2>2. CASE policy' = [u \in Tool |-> None]
    BY <2>2 DEF Mode, Revision, ModeAt
  <2>3. ASSUME NEW a \in Admin, NEW wanted \in Modes, admin[a] # None, ~Conflicts(a, wanted),
               policy' = [u \in Tool |-> Updated(u, wanted[u], admin[a].policies[u])]
        PROVE  Mode(t)' = ModeAt(Revision(t))'
    <3>1. policy'[t] = Updated(t, wanted[t], admin[a].policies[t])
      BY <2>3
    <3>2. \/ policy'[t] = policy[t]
          \/ /\ Revision(t)' = Revision(t) + 1
             /\ Mode(t)' \in {"direct", "ask"} \ {Mode(t)}
      BY <2>3, <3>1, NextRevision
    <3> QED
      BY <2>0, <2>1, <3>2, ModesTurn DEF ModeAt
  <2> QED
    BY <2>1, <2>2, <2>3, PolicySteps
<1>2. ASSUME NEW a \in Admin, NEW t \in Tool, admin'[a] # None
      PROVE  admin'[a].modes[t] = ModeAt(admin'[a].policies[t])
  <2>1. UNCHANGED admin \/ \E b \in Admin : Read(b)
    BY DEF Next, Calls, Administers, vars, Begin, LetThrough, Mint, Verify, Refuse, Consume,
       Elicit, Answered, RunTool, DeleteFile, Dies, Upsert, DeleteConnector,
       ConnectorReturns, Edit, Expires
  <2>2. CASE admin'[a] = admin[a]
    BY <1>2, <2>2 DEF SeenInv
  <2>3. CASE admin'[a] # admin[a]
    <3>1. admin'[a] = [policies |-> [u \in Tool |-> Revision(u)],
                       modes |-> [u \in Tool |-> Mode(u)]]
      BY <2>1, <2>3 DEF Read, TypeOK
    <3> QED
      BY <3>1 DEF SeenInv
  <2> QED
    BY <2>2, <2>3
<1> QED
  BY <1>1, <1>2 DEF SeenInv

-----------------------------------------------------------------------------
(* Theorems.                                                               *)

LEMMA InitIInv == Init => IInv
<1> SUFFICES ASSUME Init PROVE IInv
  OBVIOUS
<1>1. TypeOK
  <2>1. Idle \in Execution /\ <<>> \in Seq(Question) /\ Len(<<>>) = 0 /\ MaxAsked \in Nat
    BY ApprovalAssumption DEF Execution
  <2> QED
    BY <2>1 DEF Init, TypeOK
<1>2. CallsInv /\ RanInv /\ AnswersLetOneThrough
  BY ApprovalAssumption DEF Init, CallsInv, RanInv, AnswersLetOneThrough, About, Idle
<1>3. QuestionsInv /\ SeenInv
  BY DEF Init, QuestionsInv, SeenInv, Mode, Revision, ModeAt
<1> QED
  BY <1>1, <1>2, <1>3 DEF IInv

LEMMA NextIInv == IInv /\ [Next]_vars => IInv'
  BY TypeInvariant, CallsInvariant, AnswersInvariant, QuestionsInvariant, SeenInvariant DEF IInv

(* The inductive invariant: what the steps of an execution have shown, that *)
(* what has run with an answer has consumed it, that no revision of a       *)
(* policy that somebody has been asked under comes again before a deletion, *)
(* and that a revision says the mode.                                       *)
THEOREM Invariance == Spec => []IInv
  BY InitIInv, NextIInv, PTL DEF Spec

(* Everything that is let through was direct since the call began or has    *)
(* been agreed to, and an answer lets one execution through, however often  *)
(* it is sent and to however many workers (the two approval policies,       *)
(* DatabaseApprovalNonceStore.consume).                                     *)
THEOREM ApprovalInvariance == Spec => []ApprovalInv
<1>1. IInv => NothingRunsUnasked
  <2> SUFFICES ASSUME IInv, NEW c \in Call, call[c].step = "cleared"
               PROVE  \/ call[c].direct
                      \/ call[c].answer /\ ~call[c].modern
                      \/ /\ call[c].answer /\ call[c].question # 0
                         /\ asked[call[c].question].command = call[c].command
    BY DEF NothingRunsUnasked
  <2> QED
    BY Running DEF IInv, CallsInv, ExecutionOK
<1>2. IInv => ApprovalInv
  BY <1>1 DEF IInv, ApprovalInv
<1> QED
  BY <1>2, Invariance, PTL

(* Who goes on to consume an answer has just had it verified. *)
LEMMA OnlyVerified ==
    ASSUME TypeOK, [Next]_vars, NEW c \in Call,
           call[c].step = "checking", call'[c].step = "consuming"
    PROVE  Verify(c)
<1>1. ASSUME NEW d \in Call, NEW e, Goes(d, e), e.step # "consuming" PROVE FALSE
  BY <1>1 DEF Goes, TypeOK
<1>2. ASSUME NEW d \in Call, Calls(d) PROVE Verify(d)
  <2>1. ASSUME NEW command, NEW modern, NEW answer, NEW question,
               Begin(d, command, modern, question, answer)
        PROVE  FALSE
    <3>1. PICK e : Goes(d, e) /\ e.step = "checking"
      BY <2>1 DEF Begin
    <3> QED
      BY <1>1, <3>1
  <2>2. ASSUME \/ LetThrough(d) \/ Elicit(d) \/ Consume(d)
               \/ \E answer \in BOOLEAN : Answered(d, answer)
        PROVE  FALSE
    <3>1. call[d].step # "idle"
      BY <2>2 DEF LetThrough, Elicit, Consume, Answered, Asks
    <3>2. PICK e : Goes(d, e) /\ e \in {[call[d] EXCEPT !.step = "cleared", !.question = 0],
               [call[d] EXCEPT !.step = "eliciting"], [call[d] EXCEPT !.step = "cleared"],
               [call[d] EXCEPT !.step = "cleared", !.answer = TRUE], Idle}
      BY <2>2 DEF LetThrough, Elicit, Consume, Answered
    <3>3. /\ [call[d] EXCEPT !.step = "cleared", !.question = 0].step = "cleared"
          /\ [call[d] EXCEPT !.step = "eliciting"].step = "eliciting"
          /\ [call[d] EXCEPT !.step = "cleared"].step = "cleared"
          /\ [call[d] EXCEPT !.step = "cleared", !.answer = TRUE].step = "cleared"
      BY <3>1, Running DEF Execution, Idle
    <3>4. Idle.step # "consuming"
      BY DEF Idle
    <3>5. e.step # "consuming"
      BY <3>2, <3>3, <3>4, Zenon
    <3> QED
      BY <1>1, <3>2, <3>5
  <2>3. ASSUME Mint(d) \/ Refuse(d) \/ RunTool(d) \/ DeleteFile(d) \/ Dies(d) PROVE FALSE
    BY <1>1, <2>3 DEF Mint, Refuse, RunTool, DeleteFile, Dies, Idle
  <2> QED
    BY <1>2, <2>1, <2>2, <2>3 DEF Calls
<1>3. ASSUME NEW d \in Call, Verify(d) PROVE d = c
  BY <1>3 DEF Verify, Goes, TypeOK
<1>4. ASSUME NEW next, Changes(next) PROVE FALSE
  BY <1>4, NotRunning, Running DEF Changes, Execution
<1>5. UNCHANGED call \/ (\E next : Changes(next)) \/ (\E d \in Call : Calls(d))
  BY DEF Next, Administers, vars, Read, Upsert, DeleteConnector, ConnectorReturns, Edit,
     Expires
<1> QED
  BY <1>2, <1>3, <1>4, <1>5

(* From a change of a tool's policy on, no answer to an earlier question of *)
(* the connector's present life is accepted, back and forth though the      *)
(* policy may be changed (policy_revision in the sealed state).             *)
THEOREM OldAnswersAreVoidCorrect == Spec => OldAnswersAreVoid
<1>1. ASSUME IInv, [Next]_vars
      PROVE  \A c \in Call : call[c].step = "checking" /\ call'[c].step = "consuming"
                => call[c].question \notin void
  <2> SUFFICES ASSUME NEW c \in Call, call[c].step = "checking",
                      call'[c].step = "consuming", call[c].question \in void
               PROVE  FALSE
    OBVIOUS
  <2>1. Verify(c)
    BY <1>1, OnlyVerified DEF IInv
  <2>2. call[c].question \in 1..Len(asked)
    <3>1. /\ asked \in Seq(Question) /\ before \in 0..Len(asked)
          /\ void \subseteq before + 1 .. Len(asked)
      BY <1>1 DEF IInv, TypeOK
    <3>2. before + 1 .. Len(asked) \subseteq 1..Len(asked)
      BY <3>1
    <3> QED
      BY <3>1, <3>2
  <2> DEFINE q == asked[call[c].question]
  <2>3. q.command = call[c].command /\ q.revision = PolicyRevision(c)
    BY <2>1 DEF Verify, Verified
  <2>4. q.command.on \in Tool /\ q.revision < Revision(q.command.on)
    BY <1>1 DEF IInv, QuestionsInv
  <2>5. q.revision \in Nat
    BY <1>1, <2>2, Questions DEF IInv
  <2> QED
    BY <2>3, <2>4, <2>5 DEF PolicyRevision, On
<1>2. IInv /\ [Next]_vars =>
        [\A c \in Call : call[c].step = "checking" /\ call'[c].step = "consuming"
            => call[c].question \notin void]_vars
  BY <1>1
<1> QED
  BY <1>2, Invariance, PTL DEF OldAnswersAreVoid, Spec

(* A file that goes is in the version that its user was shown when she     *)
(* agreed, though the question may have been open for long.                *)
THEOREM FilesGoAsShownCorrect == Spec => FilesGoAsShown
<1>1. ASSUME IInv, [Next]_vars
      PROVE  \A f \in File : file[f] # 0 /\ file'[f] = 0 => \E c \in Call :
                /\ call[c].step = "cleared" /\ call[c].answer
                /\ call[c].command.on = f /\ call[c].command.with = file[f]
  <2> SUFFICES ASSUME NEW f \in File, file[f] # 0, file'[f] = 0
               PROVE  \E c \in Call :
                        /\ call[c].step = "cleared" /\ call[c].answer
                        /\ call[c].command.on = f /\ call[c].command.with = file[f]
    OBVIOUS
  <2>1. TypeOK /\ CallsInv /\ file[f] \in Nat
    BY <1>1 DEF IInv, TypeOK
  <2>2. UNCHANGED file \/ (\E g \in File : Edit(g)) \/ \E c \in Call : DeleteFile(c)
    BY <1>1 DEF Next, Calls, Administers, vars, Begin, LetThrough, Mint, Verify, Refuse,
       Consume, Elicit, Answered, RunTool, Dies, Read, Upsert, DeleteConnector,
       ConnectorReturns, Expires
  <2>3. ASSUME NEW g \in File, Edit(g) PROVE FALSE
    BY <2>1, <2>3 DEF Edit, TypeOK
  <2>4. PICK c \in Call : DeleteFile(c)
    BY <2>2, <2>3
  <2>5. /\ call[c].step = "cleared" /\ On(c) = f
        /\ file[f] = call[c].command.with
    BY <2>1, <2>4 DEF DeleteFile, StillExpected, TypeOK
  <2>6. call[c].command.on \notin Tool
    BY <2>5, ApprovalAssumption DEF On
  <2>7. call[c].answer
    BY <2>1, <2>5, <2>6, NotRunning, Running DEF CallsInv, ExecutionOK
  <2> QED
    BY <2>5, <2>7 DEF On
<1>2. IInv /\ [Next]_vars =>
        [\A f \in File : file[f] # 0 /\ file'[f] = 0 => \E c \in Call :
            /\ call[c].step = "cleared" /\ call[c].answer
            /\ call[c].command.on = f /\ call[c].command.with = file[f]]_vars
  BY <1>1
<1> QED
  BY <1>2, Invariance, PTL DEF FilesGoAsShown, Spec

(* No administrator changes a policy that is not in the mode she has seen, *)
(* though it may have changed, or its connector been deleted and come back *)
(* since (compare_and_set_invocation_policies).                            *)
THEOREM PoliciesChangeAsSeenCorrect == Spec => PoliciesChangeAsSeen
<1>1. ASSUME IInv, NEW t \in Tool, policy'[t] # policy[t],
             NEW a \in Admin, NEW wanted \in Modes, NEW turned \in Switches,
             Upsert(a, wanted, turned, FALSE)
      PROVE  admin[a].modes[t] = Mode(t)
  <2>1. /\ ~Conflicts(a, wanted) /\ admin[a] # None
        /\ Changes([u \in Tool |-> Updated(u, wanted[u], admin[a].policies[u])])
    BY <1>1 DEF Upsert, configuration
  <2>2. policy'[t] = Updated(t, wanted[t], admin[a].policies[t])
    BY <2>1 DEF Changes
  <2>3. admin[a].policies[t] = Revision(t)
    BY <1>1, <2>1, <2>2 DEF Updated, Conflicts
  <2> QED
    BY <1>1, <2>1, <2>3 DEF IInv, SeenInv
<1>2. IInv /\ [Next]_vars =>
        [\A t \in Tool :
            policy'[t] # policy[t] => \A a \in Admin :
                (\E wanted \in Modes, turned \in Switches : Upsert(a, wanted, turned, FALSE))
                    => admin[a].modes[t] = Mode(t)]_vars
  BY <1>1
<1> QED
  BY <1>2, Invariance, PTL DEF PoliciesChangeAsSeen, Spec
=============================================================================
