------------------------------ MODULE Controller ------------------------------
(***************************************************************************)
(* ResearchController: the loop that owns a Run, the turns of the parent   *)
(* (scientific) agent, its work requests, user records, pauses, answers,   *)
(* and the death of the owner at any saved point.                          *)
(***************************************************************************)
EXTENDS Scheduler

Init ==
  /\ status = "running" /\ unconfirmed = FALSE /\ expired = FALSE /\ used = 0
  /\ workStatus = [w \in Works |-> "absent"] /\ outcomes = {} /\ compiled = 0
  /\ taskCount = 0 /\ workOf = [t \in Tasks |-> NoWork]
  /\ taskStatus = [t \in Tasks |-> "absent"] /\ attempts = [t \in Tasks |-> 0]
  /\ attemptStatus = [s \in Slots |-> "absent"] /\ reported = {}
  /\ results = [s \in Slots |-> "none"] /\ received = {}
  /\ question = "none" /\ questionTask = NoTask /\ childQuestions = {}
  /\ inbox = <<>> /\ consumed = 0 /\ deliveredInputs = 0 /\ noticed = 0
  /\ attention = FALSE /\ sciResult = NoSciResult
  /\ at = "advance" /\ goal = "none" /\ current = NoSlot /\ token = FALSE
  /\ crashes = 0

-----------------------------------------------------------------------------
(* _advance. *)

AdvanceReturns ==
  /\ at = "advance" /\ status \in RunTerminal
  /\ UNCHANGED durable
  /\ Return

\* Mutant: an interrupt is consumed like a text.
AdvanceConsumesAll ==
  /\ at = "advance" /\ status \notin RunTerminal
  /\ ConsumeControls
  /\ UNCHANGED <<runVars, workVars, taskVars, attemptVars, questionVars, sciResult>>
  /\ \/ (status = "paused" \/ unconfirmed) /\ Return
     \/ status = "running" /\ ~unconfirmed /\ Continue("recover")

\* Every pending record is consumed and saved before anything else is decided.
AdvanceConsumes ==
  /\ at = "advance" /\ status \notin RunTerminal
  /\ ConsumeControls
  /\ UNCHANGED <<runVars, workVars, taskVars, attemptVars, questionVars, sciResult>>
  /\ \/ PendingInterrupt /\ Continue("pausing")
     \/ ~PendingInterrupt /\ (status = "paused" \/ unconfirmed) /\ Return
     \/ ~PendingInterrupt /\ status = "running" /\ ~unconfirmed /\ Continue("recover")

\* A Run out of time or calls fails; a turn already received comes first of
\* the calls, but not of the time.
AdvanceFails ==
  /\ at = "checks"
  /\ expired \/ (sciResult.kind = "none" /\ Exhausted)
  /\ FailRun
  /\ UNCHANGED <<unconfirmed, expired, used, workVars, taskVars, attemptVars,
                 questionVars, controlVars, parentVars>>
  /\ Return

ResumeTurn ==
  /\ at = "checks" /\ ~expired /\ sciResult.kind # "none"
  /\ UNCHANGED durable
  /\ Continue("turn")

MayInvoke == at = "checks" /\ ~expired /\ ~Exhausted /\ sciResult.kind = "none"
DrivenWorks == {w \in LiveWorks : ~attention}

\* Mutant: the turn is not charged.
InvokeScientificFree ==
  /\ MayInvoke /\ DrivenWorks = {}
  /\ outcomes' = outcomes \union (ActiveWorks \ LiveWorks)
  /\ UNCHANGED <<runVars, workStatus, compiled, taskVars, attemptVars, questionVars,
                 controlVars, parentVars>>
  /\ Continue("scientific")

\* The outcome of failed work is handed off with the request of the turn.
InvokeScientific ==
  /\ MayInvoke /\ DrivenWorks = {}
  /\ outcomes' = outcomes \union (ActiveWorks \ LiveWorks)
  /\ used' = used + 1
  /\ UNCHANGED <<status, unconfirmed, expired, workStatus, compiled, taskVars,
                 attemptVars, questionVars, controlVars, parentVars>>
  /\ Continue("scientific")

-----------------------------------------------------------------------------
(* _execute_work_request. *)

SetWork(w, to) == workStatus' = [workStatus EXCEPT ![w] = to]

DriveExecuting ==
  /\ MayInvoke
  /\ \E w \in DrivenWorks : workStatus[w] = "executing"
  /\ UNCHANGED durable
  /\ Continue("schedule")

\* A previous owner accepted the tasks but died before saying so.
DriveAccepted ==
  /\ MayInvoke
  /\ \E w \in DrivenWorks : workStatus[w] = "compiling" /\ TasksOf(w) # {}
  /\ UNCHANGED durable
  /\ Continue("accepted")

FailWork(w) ==
  /\ SetWork(w, "failed")
  /\ compiled' = 0
  /\ UNCHANGED <<unconfirmed, expired, used, outcomes, taskVars, attemptVars,
                 questionVars, controlVars, parentVars>>

\* Mutant: the tasks already accepted for the work are not looked for.
NeedsCompilationAgain(w) == MayInvoke /\ workStatus[w] \in {"requested", "compiling"}

NeedsCompilation(w) ==
  MayInvoke /\ (workStatus[w] = "requested" \/ (workStatus[w] = "compiling" /\ TasksOf(w) = {}))

NoTaskSlots ==
  \E w \in DrivenWorks :
    /\ NeedsCompilation(w) /\ taskCount >= MaxTasks
    /\ FailWork(w)
    /\ UNCHANGED status
    /\ Continue("advance")

\* The routing call is charged before it is made; a saved proposal needs none.
StartCompilation ==
  \E w \in DrivenWorks :
    /\ NeedsCompilation(w) /\ taskCount < MaxTasks
    /\ SetWork(w, "compiling")
    /\ used' = IF compiled = 0 THEN used + 1 ELSE used
    /\ UNCHANGED <<status, unconfirmed, expired, outcomes, compiled, taskVars,
                   attemptVars, questionVars, controlVars, parentVars>>
    /\ Continue(IF compiled = 0 THEN "compile" ELSE "accept")

Compile ==
  /\ at = "compile" /\ ~token
  /\ compiled' \in 1..(MaxTasks - taskCount)
  /\ UNCHANGED <<runVars, workStatus, outcomes, taskVars, attemptVars, questionVars,
                 controlVars, parentVars>>
  /\ Continue("accept")

CompileCancelled ==
  /\ at = "compile" /\ token
  /\ UNCHANGED durable
  /\ Continue("pausing")

\* Routing failed, or the proposal was refused: the work fails, the Run goes on.
WorkRejected ==
  /\ at \in {"compile", "accept"}
  /\ \E w \in LiveWorks : FailWork(w)
  /\ UNCHANGED status
  /\ Continue("advance")

\* A correction needs a second call.
CompileExhausted ==
  /\ at = "compile" /\ (Exhausted \/ expired)
  /\ \E w \in LiveWorks : FailWork(w)
  /\ FailRun
  /\ Continue("advance")

\* accept_proposal or apply_patch.  The evaluation of a patch has nothing to
\* block: a new task depends on tasks of the same patch only.
AcceptTasks ==
  /\ at = "accept" /\ taskCount + compiled <= MaxTasks
  /\ LET new == (taskCount + 1)..(taskCount + compiled)
     IN  \E w \in LiveWorks :
           /\ workOf' = [t \in Tasks |-> IF t \in new THEN w ELSE workOf[t]]
           /\ taskStatus' = [t \in Tasks |-> IF t \in new THEN "pending" ELSE taskStatus[t]]
           /\ taskCount' = taskCount + compiled
  /\ UNCHANGED <<runVars, workVars, attempts, attemptVars, questionVars, controlVars,
                 parentVars>>
  /\ Continue("accepted")

StartExecution ==
  /\ at = "accepted"
  /\ \E w \in LiveWorks : SetWork(w, "executing")
  /\ compiled' = 0
  /\ UNCHANGED <<runVars, outcomes, taskVars, attemptVars, questionVars, controlVars,
                 parentVars>>
  /\ Continue("schedule")

-----------------------------------------------------------------------------
(* The scientific agent.  Its tools refuse new work while some is live, and *)
(* a reply or question about a task that is not.                            *)

LiveTasks == {t \in Tasks : workOf[t] \in LiveWorks /\ taskStatus[t] \in TaskLive}

TurnKinds ==
  {"completed", "failed"}
    \union (IF LiveWorks = {} THEN {"requestWork"} ELSE {"abandon"})
    \union (IF PendingInput THEN {"yielded"} ELSE {})
    \union (IF token THEN {"interrupted"} ELSE {})

Questions == {SciResult("ask", t, FALSE, FALSE) : t \in childQuestions \union {NoTask}}
Replies == {SciResult("reply", t, a, r) : t \in LiveTasks \union {NoTask},
                                          a \in BOOLEAN, r \in BOOLEAN}
Turns == {SciResult(k, NoTask, FALSE, FALSE) : k \in TurnKinds} \union Questions \union Replies

WellFormed(r) ==
  /\ r.answers => r.task \in childQuestions
  /\ r.kind = "requestWork" => \E w \in Works : workStatus[w] = "absent"

\* The result is saved before it is judged.
ScientificReturns ==
  /\ at = "scientific"
  /\ \E r \in Turns : WellFormed(r) /\ sciResult' = r
  /\ UNCHANGED <<runVars, workVars, taskVars, attemptVars, questionVars, controlVars,
                 attention>>
  /\ Continue("turn")

ScientificCancelled ==
  /\ at = "scientific" /\ token
  /\ UNCHANGED durable
  /\ Continue("pausing")

-----------------------------------------------------------------------------
(* _apply_turn. *)

Consume(ws) == [w \in Works |-> IF ws[w] = "stable" THEN "consumed" ELSE ws[w]]

\* What every turn that is not deferred, yielded or failed leaves behind.
CommitTurn ==
  /\ sciResult' = NoSciResult
  /\ deliveredInputs' = sciResult.inputs
  /\ UNCHANGED <<inbox, consumed, noticed>>

\* A record that arrived while the agent was finishing defers the completion.
DeferCompletion ==
  /\ at = "turn" /\ sciResult.kind = "completed" /\ PendingControls # {}
  /\ ConsumeControls
  /\ UNCHANGED <<runVars, workVars, taskVars, attemptVars, questionVars, sciResult>>
  /\ GoTo("defer", IF PendingInterrupt THEN "pause" ELSE "none", NoSlot)

ValidateCompletion ==
  /\ at = "turn" /\ sciResult.kind = "completed" /\ PendingControls = {}
  /\ UNCHANGED durable
  /\ Continue("settle")

\* The publication lock is held from here until the result is committed.
DeferUnderFence ==
  /\ at = "settle" /\ PendingControls # {}
  /\ ConsumeControls
  /\ workStatus' = Consume(workStatus)
  /\ UNCHANGED <<runVars, outcomes, compiled, taskVars, attemptVars, questionVars, sciResult>>
  /\ GoTo("fencedDefer", IF PendingInterrupt THEN "pause" ELSE "none", NoSlot)

\* Mutant: the deferred completion is kept.
FinishDeferKeeping ==
  /\ at \in {"defer", "fencedDefer"}
  /\ attention' = TRUE
  /\ UNCHANGED <<runVars, workVars, taskVars, attemptVars, questionVars, controlVars,
                 sciResult>>
  /\ Continue(IF goal = "pause" THEN "pausing" ELSE "advance")

FinishDefer ==
  /\ at \in {"defer", "fencedDefer"}
  /\ sciResult' = NoSciResult
  /\ attention' = TRUE
  /\ UNCHANGED <<runVars, workVars, taskVars, attemptVars, questionVars, controlVars>>
  /\ Continue(IF goal = "pause" THEN "pausing" ELSE "advance")

\* ScientificCompletionValidator, as far as the control state goes.
ControlActive ==
  \/ question # "none" \/ childQuestions # {}
  \/ \E w \in Works : workStatus[w] \in WorkLive
  \/ \E t \in Tasks : taskStatus[t] \in TaskLive

\* Mutant: the records published since the gate are not looked at again.
CompleteRunUnfenced ==
  /\ at = "settle" /\ ~ControlActive
  /\ status' = "completed"
  /\ workStatus' = Consume(workStatus)
  /\ attention' = FALSE
  /\ CommitTurn
  /\ UNCHANGED <<unconfirmed, expired, used, outcomes, compiled, taskVars, attemptVars,
                 questionVars>>
  /\ Return

CompleteRun ==
  /\ at = "settle" /\ PendingControls = {} /\ ~ControlActive
  /\ status' = "completed"
  /\ workStatus' = Consume(workStatus)
  /\ attention' = FALSE
  /\ CommitTurn
  /\ UNCHANGED <<unconfirmed, expired, used, outcomes, compiled, taskVars, attemptVars,
                 questionVars>>
  /\ Return

\* The opinion may be refused for what it says, too.
RejectCompletion ==
  /\ at = "settle" /\ PendingControls = {}
  /\ FailRun
  /\ UNCHANGED <<unconfirmed, expired, used, workVars, taskVars, attemptVars,
                 questionVars, controlVars, parentVars>>
  /\ Return

\* Mutant: the work the parent has seen is not consumed.
RequestWorkBeside ==
  /\ at = "turn" /\ sciResult.kind = "requestWork"
  /\ LET w == Min({v \in Works : workStatus[v] = "absent"})
     IN  workStatus' = [workStatus EXCEPT ![w] = "requested"]
  /\ attention' = FALSE
  /\ CommitTurn
  /\ UNCHANGED <<runVars, outcomes, compiled, taskVars, attemptVars, questionVars>>
  /\ Continue("advance")

RequestWork ==
  /\ at = "turn" /\ sciResult.kind = "requestWork"
  /\ LET w == Min({v \in Works : workStatus[v] = "absent"})
     IN  workStatus' = [Consume(workStatus) EXCEPT ![w] = "requested"]
  /\ attention' = FALSE
  /\ CommitTurn
  /\ UNCHANGED <<runVars, outcomes, compiled, taskVars, attemptVars, questionVars>>
  /\ Continue("advance")

\* The target must still be a live child; a question answered, still asked.
ReplyApplies ==
  /\ sciResult.task # NoTask => sciResult.task \in LiveTasks
  /\ sciResult.answers => sciResult.task \in childQuestions

\* Mutant: questions still open do not bring the parent back.
ReplyOnce ==
  /\ at = "turn" /\ sciResult.kind = "reply" /\ ReplyApplies
  /\ childQuestions' = IF sciResult.answers THEN childQuestions \ {sciResult.task}
                       ELSE childQuestions
  /\ taskStatus' = [t \in Tasks |->
       IF /\ sciResult.resume /\ workOf[t] \in LiveWorks
          /\ taskStatus[t] = "needs_user_input" /\ t \notin childQuestions'
          /\ ~(question = "approval" /\ questionTask = t)
       THEN "pending" ELSE taskStatus[t]]
  /\ workStatus' = Consume(workStatus)
  /\ attention' = ~sciResult.resume
  /\ CommitTurn
  /\ UNCHANGED <<runVars, outcomes, compiled, taskCount, workOf, attempts, attemptVars,
                 question, questionTask>>
  /\ Continue("advance")

Reply ==
  /\ at = "turn" /\ sciResult.kind = "reply" /\ ReplyApplies
  /\ childQuestions' = IF sciResult.answers THEN childQuestions \ {sciResult.task}
                       ELSE childQuestions
  /\ taskStatus' = [t \in Tasks |->
       IF /\ sciResult.resume /\ workOf[t] \in LiveWorks
          /\ taskStatus[t] = "needs_user_input" /\ t \notin childQuestions'
          /\ ~(question = "approval" /\ questionTask = t)
       THEN "pending" ELSE taskStatus[t]]
  /\ workStatus' = Consume(workStatus)
  /\ attention' = (~sciResult.resume \/ childQuestions' # {})
  /\ CommitTurn
  /\ UNCHANGED <<runVars, outcomes, compiled, taskCount, workOf, attempts, attemptVars,
                 question, questionTask>>
  /\ Continue("advance")

Abandon ==
  /\ at = "turn" /\ sciResult.kind = "abandon" /\ LiveWorks # {}
  /\ UNCHANGED durable
  /\ GoTo("cancelling", "abandon", NoSlot)

\* A question to the user stops the Run until it is answered.
AskUser ==
  /\ at = "turn" /\ sciResult.kind = "ask"
  /\ question' = "root" /\ questionTask' = sciResult.task
  /\ status' = "paused"
  /\ workStatus' = Consume(workStatus)
  /\ CommitTurn
  /\ UNCHANGED <<unconfirmed, expired, used, outcomes, compiled, taskVars, attemptVars,
                 childQuestions, attention>>
  /\ Return

\* Yielding or being interrupted delivers nothing.
YieldTurn ==
  /\ at = "turn" /\ sciResult.kind \in {"yielded", "interrupted"}
  /\ sciResult' = NoSciResult
  /\ workStatus' = Consume(workStatus)
  /\ UNCHANGED <<runVars, outcomes, compiled, taskVars, attemptVars, questionVars,
                 controlVars, attention>>
  /\ Continue(IF sciResult.kind = "interrupted" THEN "pausing" ELSE "advance")

FailTurn ==
  /\ at = "turn"
  /\ \/ sciResult.kind = "failed"
     \/ sciResult.kind = "reply" /\ ~ReplyApplies
     \/ sciResult.kind = "abandon" /\ LiveWorks = {}
  /\ FailRun
  /\ UNCHANGED <<unconfirmed, expired, used, workVars, taskVars, attemptVars,
                 questionVars, controlVars, parentVars>>
  /\ Return

-----------------------------------------------------------------------------
(* _pause_interrupted and _cancel_work. *)

PauseConsumes ==
  /\ at = "pausing"
  /\ ConsumeControls
  /\ UNCHANGED <<runVars, workVars, taskVars, attemptVars, questionVars, sciResult>>
  /\ GoTo("cancelling", "pause", NoSlot)

OpenTasks == {t \in LiveTasks : attempts[t] > 0 /\ attemptStatus[LastSlot(t)] \in AttemptOpen}

\* Every open Attempt is cancelled and saved, with the tasks before it, and
\* its report registered before the next.
CancelAttempt ==
  /\ at = "cancelling" /\ OpenTasks # {}
  /\ LET t == Min(OpenTasks)
     IN  /\ taskStatus' = [u \in Tasks |-> IF u \in LiveTasks /\ u <= t THEN "cancelled"
                                           ELSE taskStatus[u]]
         /\ attemptStatus' = [attemptStatus EXCEPT ![LastSlot(t)] = "cancelled"]
         /\ GoTo("report", goal, LastSlot(t))
  /\ UNCHANGED <<runVars, workVars, taskCount, workOf, attempts, reported, results,
                 received, questionVars, controlVars, parentVars>>

\* Mutant: the interpreter asks for no report.
UndeliverableNever == FALSE

\* The outcome of cancelled work lists every Attempt with its report.
Undeliverable ==
  \E t \in Tasks, n \in 1..MaxAttempts :
    workOf[t] \in LiveWorks /\ attemptStatus[<<t, n>>] # "absent" /\ <<t, n>> \notin reported

\* Its questions end with the work, and a question to the user that escalated one.
CancelWork ==
  LET tasks == {t \in Tasks : workOf[t] \in LiveWorks}
      moot == \/ question = "root" /\ questionTask \in tasks \intersect childQuestions
              \/ question = "approval" /\ questionTask \in tasks
  IN  /\ taskStatus' = [t \in Tasks |-> IF t \in LiveTasks THEN "cancelled" ELSE taskStatus[t]]
      /\ workStatus' = [w \in Works |-> IF w \in LiveWorks THEN "cancelled" ELSE workStatus[w]]
      /\ outcomes' = outcomes \union LiveWorks
      /\ compiled' = IF LiveWorks = {} THEN compiled ELSE 0
      /\ childQuestions' = childQuestions \ tasks
      /\ question' = IF moot THEN "none" ELSE question
      /\ questionTask' = IF moot THEN NoTask ELSE questionTask
      /\ attention' = (attention \/ LiveWorks # {})
      /\ UNCHANGED <<taskCount, workOf, attempts, attemptVars, unconfirmed, expired, used>>

CancelledAll == at = "cancelling" /\ OpenTasks = {} /\ ~Undeliverable

FinishPause ==
  /\ CancelledAll /\ goal = "pause"
  /\ CancelWork
  /\ status' = "paused"
  /\ noticed' = consumed
  /\ UNCHANGED <<inbox, consumed, deliveredInputs, sciResult>>
  /\ Return

FinishAbandon ==
  /\ CancelledAll /\ goal = "abandon"
  /\ CancelWork
  /\ CommitTurn
  /\ UNCHANGED status
  /\ Continue("advance")

\* The interpreter refuses an Attempt without its report, and the pause with it.
CancelRaises ==
  /\ at = "cancelling" /\ OpenTasks = {} /\ Undeliverable
  /\ status' = IF goal = "abandon" THEN "failed" ELSE status
  /\ UNCHANGED <<unconfirmed, expired, used, workVars, taskVars, attemptVars,
                 questionVars, controlVars, parentVars>>
  /\ Return

-----------------------------------------------------------------------------
(* The user and the environment.  Answer and Resume take the owner lock, so *)
(* they run only when the Run has no owner; Submit takes the inbox's.       *)

Submit ==
  /\ status \notin RunTerminal /\ at # "fencedDefer"
  /\ Len(inbox) < MaxControls
  /\ \E k \in ControlKinds : inbox' = Append(inbox, k)
  /\ UNCHANGED <<runVars, workVars, taskVars, attemptVars, questionVars, consumed,
                 deliveredInputs, noticed, parentVars, ownerVars, crashes>>

Answer ==
  /\ at = "idle" /\ question # "none"
  /\ question = "approval" => taskStatus[questionTask] = "needs_user_input"
  /\ taskStatus' = IF question = "approval"
                   THEN [taskStatus EXCEPT ![questionTask] = "pending"] ELSE taskStatus
  /\ question' = "none" /\ questionTask' = NoTask
  /\ status' = "running"
  /\ UNCHANGED <<unconfirmed, expired, used, workVars, taskCount, workOf, attempts,
                 attemptVars, childQuestions, controlVars, parentVars>>
  /\ Continue("advance")

\* Mutant: a Run that ended is resumed.
ResumeEnded ==
  /\ at = "idle"
  /\ ConsumeControls
  /\ \/ PendingInterrupt /\ UNCHANGED status /\ Continue("pausing")
     \/ ~PendingInterrupt /\ question # "none" /\ UNCHANGED status /\ Return
     \/ ~PendingInterrupt /\ question = "none" /\ status' = "running" /\ Continue("advance")
  /\ UNCHANGED <<unconfirmed, expired, used, workVars, taskVars, attemptVars,
                 questionVars, sciResult>>

\* What was consumed stays so when the pending question refuses the resume.
Resume ==
  /\ at = "idle" /\ status \notin RunTerminal
  /\ ConsumeControls
  /\ \/ PendingInterrupt /\ UNCHANGED status /\ Continue("pausing")
     \/ ~PendingInterrupt /\ question # "none" /\ UNCHANGED status /\ Return
     \/ ~PendingInterrupt /\ question = "none" /\ status' = "running" /\ Continue("advance")
  /\ UNCHANGED <<unconfirmed, expired, used, workVars, taskVars, attemptVars,
                 questionVars, sciResult>>

\* The watcher thread sets the token when it sees an interrupt record.
Watch ==
  /\ at # "idle" /\ ~token /\ PendingInterrupt
  /\ token' = TRUE
  /\ UNCHANGED <<durable, at, goal, current, crashes>>

\* The Run clock stands still while the Run is paused.
Expire ==
  /\ status = "running" /\ ~expired
  /\ expired' = TRUE
  /\ UNCHANGED <<status, unconfirmed, used, workVars, taskVars, attemptVars,
                 questionVars, controlVars, parentVars, ownerVars, crashes>>

Crash ==
  /\ at # "idle" /\ crashes < MaxCrashes
  /\ crashes' = crashes + 1
  /\ at' = "idle" /\ goal' = "none" /\ current' = NoSlot /\ token' = FALSE
  /\ UNCHANGED durable

-----------------------------------------------------------------------------
OwnerStep ==
  \/ AdvanceReturns \/ AdvanceConsumes \/ AdvanceFails \/ ResumeTurn \/ InvokeScientific
  \/ DriveExecuting \/ DriveAccepted \/ NoTaskSlots \/ StartCompilation
  \/ Compile \/ CompileCancelled \/ WorkRejected \/ CompileExhausted
  \/ AcceptTasks \/ StartExecution
  \/ ScientificReturns \/ ScientificCancelled
  \/ DeferCompletion \/ ValidateCompletion \/ DeferUnderFence \/ FinishDefer
  \/ CompleteRun \/ RejectCompletion
  \/ RequestWork \/ Reply \/ Abandon \/ AskUser \/ YieldTurn \/ FailTurn
  \/ PauseConsumes \/ CancelAttempt \/ FinishPause \/ FinishAbandon \/ CancelRaises
  \/ SchedulerStep

Environment == Submit \/ Answer \/ Resume \/ Watch \/ Expire \/ Crash

Next == OwnerStep \/ Environment
Spec == Init /\ [][Next]_vars
=============================================================================
