------------------------------ MODULE Scheduler ------------------------------
(***************************************************************************)
(* WorkflowScheduler: dispatching ready tasks, receiving their results in  *)
(* several saves, registering the report of every ended Attempt, and       *)
(* finishing what a previous owner left half received.  A step ends where  *)
(* the code saves the Run, since the owner may die there.                  *)
(***************************************************************************)
EXTENDS RunState

-----------------------------------------------------------------------------
(* run_until_stable and execute_task. *)

\* Mutant: the calls that are left are not looked at.
MayNotDispatchUncounted == status # "running" \/ attention \/ expired

MayNotDispatch == status # "running" \/ attention \/ Exhausted \/ expired

\* Control goes back to the controller, which pauses when the token is set.
BackToController ==
  Continue(IF status' = "paused" /\ token THEN "pausing" ELSE "advance")

ScheduleReturns ==
  /\ at = "schedule" /\ MayNotDispatch
  /\ UNCHANGED durable
  /\ BackToController

ScheduleCancelled ==
  /\ at = "schedule" /\ ~MayNotDispatch /\ token
  /\ UNCHANGED durable
  /\ Continue("pausing")

ScheduleSettles ==
  /\ at = "schedule" /\ ~MayNotDispatch /\ ~token /\ ReadyTasks = {}
  /\ EvaluateRun
  /\ UNCHANGED <<unconfirmed, expired, used, compiled, taskCount, workOf, attempts,
                 attemptVars, questionVars, controlVars, parentVars>>
  /\ BackToController

\* An Attempt that waits for an answer goes on; otherwise a new one starts.
Resumes(t) == attempts[t] > 0 /\ attemptStatus[LastSlot(t)] = "needs_user_input"

StartAttempt ==
  /\ at = "schedule" /\ ~MayNotDispatch /\ ~token /\ ReadyTasks # {}
  /\ LET t == Min(ReadyTasks)
         n == IF Resumes(t) THEN attempts[t] ELSE attempts[t] + 1
     IN  /\ n <= MaxAttempts
         /\ attempts' = [attempts EXCEPT ![t] = n]
         /\ attemptStatus' = [attemptStatus EXCEPT ![<<t, n>>] = "running"]
         /\ taskStatus' = [taskStatus EXCEPT ![t] = "running"]
         /\ GoTo("dispatch", "dispatch", <<t, n>>)
  /\ UNCHANGED <<runVars, workVars, taskCount, workOf, reported, results, received,
                 questionVars, controlVars, parentVars>>

\* The request cannot be built; the report of the refused Attempt follows.
RejectRequest ==
  /\ at = "dispatch"
  /\ attemptStatus' = [attemptStatus EXCEPT ![current] = "failed"]
  /\ taskStatus' = [taskStatus EXCEPT ![current[1]] = "failed"]
  /\ GoTo("report", "dispatch", current)
  /\ UNCHANGED <<runVars, workVars, taskCount, workOf, attempts, reported, results,
                 received, questionVars, controlVars, parentVars>>

\* agent_started is saved, and the call charged before the model answers.
DispatchAgent ==
  /\ at = "dispatch" /\ ~token
  /\ used' = used + 1
  /\ GoTo("agent", "dispatch", current)
  /\ UNCHANGED <<status, unconfirmed, expired, workVars, taskVars, attemptVars,
                 questionVars, controlVars, parentVars>>

DispatchCancelled ==
  /\ at = "dispatch" /\ token
  /\ UNCHANGED durable
  /\ Continue("pausing")

-----------------------------------------------------------------------------
(* The task Agent. *)

\* An Agent yields to an input it finds at a model boundary, and is
\* interrupted only through the token.
AgentMayAnswer(r) ==
  /\ r = "yielded" => PendingInput
  /\ r \in {"interrupted", "unstopped"} => token

\* The result is saved before any of it is applied.
AgentReturns ==
  \E r \in TaskResults :
    /\ at = "agent" /\ AgentMayAnswer(r)
    /\ results' = [results EXCEPT ![current] = r]
    /\ received' = received \ {current}
    /\ GoTo("received", "dispatch", current)
    /\ UNCHANGED <<runVars, workVars, taskVars, attemptStatus, reported, questionVars,
                   controlVars, parentVars>>

\* Cancellation raised outside the Agent's own loop reaches the controller.
AgentCancelled ==
  /\ at = "agent" /\ token
  /\ UNCHANGED durable
  /\ Continue("pausing")

AgentUnstopped ==
  /\ at = "agent" /\ token
  /\ FailRun
  /\ unconfirmed' = TRUE
  /\ UNCHANGED <<expired, used, workVars, taskVars, attemptVars, questionVars,
                 controlVars, parentVars>>
  /\ Return

-----------------------------------------------------------------------------
(* _apply_module_result: receive, report, acknowledge, evaluate. *)

\* Mutant: a failure worth another Attempt is not mapped.
AttemptStatusForUnmapped(r) ==
  CASE r \in {"yielded", "interrupted", "question", "approval"} -> "needs_user_input"
    [] OTHER -> r

AttemptStatusFor(r) ==
  CASE r \in {"yielded", "interrupted", "question", "approval"} -> "needs_user_input"
    [] r \in {"failed", "retryable"} -> "failed"
    [] OTHER -> r

\* Mutant: one Attempt too many.
TaskStatusForOneMore(r, n) ==
  CASE r \in {"yielded", "interrupted", "question", "approval"} -> "needs_user_input"
    [] r = "completed" -> "completed"
    [] r = "retryable" /\ n <= MaxAttempts -> "pending"
    [] OTHER -> "failed"

TaskStatusFor(r, n) ==
  CASE r \in {"yielded", "interrupted", "question", "approval"} -> "needs_user_input"
    [] r = "completed" -> "completed"
    [] r = "retryable" /\ n < MaxAttempts -> "pending"
    [] OTHER -> "failed"

\* A control is received once; the key it leaves makes a second pass skip it.
ReceiveControl(slot, r) ==
  LET fresh == r \in {"question", "approval"} /\ slot \notin received
      t == slot[1]
  IN  /\ received' = IF fresh THEN received \union {slot} ELSE received
      /\ childQuestions' = IF fresh /\ r = "question" THEN childQuestions \union {t}
                           ELSE childQuestions
      /\ question' = IF fresh /\ r = "approval" THEN "approval" ELSE question
      /\ questionTask' = IF fresh /\ r = "approval" THEN t ELSE questionTask
      /\ attention' = CASE r = "yielded" -> TRUE
                        [] r = "interrupted" -> FALSE
                        [] fresh /\ r = "question" -> TRUE
                        [] OTHER -> attention

ApplyResult(slot, caller) ==
  LET r == results[slot]
      ended == AttemptStatusFor(r) \notin AttemptOpen
  IN  /\ attemptStatus' = [attemptStatus EXCEPT ![slot] = AttemptStatusFor(r)]
      /\ taskStatus' = [taskStatus EXCEPT ![slot[1]] = TaskStatusFor(r, slot[2])]
      /\ status' = IF r = "interrupted" THEN "paused" ELSE status
      /\ ReceiveControl(slot, r)
      /\ GoTo(IF ended THEN "report" ELSE "finish", caller, slot)
      /\ UNCHANGED <<unconfirmed, expired, used, workVars, taskCount, workOf, attempts,
                     reported, results, controlVars, sciResult>>

ReceiveResult ==
  /\ at = "received"
  /\ ApplyResult(current, "dispatch")

RegisterReport ==
  /\ at = "report"
  /\ reported' = reported \union {current}
  /\ GoTo("ack", goal, current)
  /\ UNCHANGED <<runVars, workVars, taskVars, attemptStatus, results, received,
                 questionVars, controlVars, parentVars>>

\* The report is bound, so the saved result is dropped.
AcknowledgeResult ==
  /\ at = "ack"
  /\ results' = [results EXCEPT ![current] = "none"]
  /\ CASE goal \in {"dispatch", "reapply"} -> GoTo("finish", goal, current)
       [] goal = "recover" -> GoTo("recover", goal, NoSlot)
       [] OTHER -> GoTo("cancelling", goal, NoSlot)
  /\ UNCHANGED <<runVars, workVars, taskVars, attemptStatus, reported, received,
                 questionVars, controlVars, parentVars>>

\* Mutant: an unconfirmed stop is a failure like any other.
FinishResultUnasked ==
  /\ at = "finish"
  /\ results' = [results EXCEPT ![current] = "none"]
  /\ IF goal = "reapply" THEN GoTo("recover", goal, NoSlot) ELSE Continue("schedule")
  /\ \/ /\ results[current] = "interrupted"
        /\ UNCHANGED <<status, taskStatus, workStatus, outcomes>>
     \/ results[current] # "interrupted" /\ EvaluateRun
  /\ UNCHANGED <<unconfirmed, expired, used, compiled, taskCount, workOf, attempts,
                 attemptStatus, reported, received, questionVars, controlVars, parentVars>>

\* The result still held in memory decides how the Run goes on.  A stop nobody
\* confirmed ends the Run; an interrupted one leaves it paused.
FinishResult ==
  /\ at = "finish"
  /\ results' = [results EXCEPT ![current] = "none"]
  /\ IF goal = "reapply" THEN GoTo("recover", goal, NoSlot) ELSE Continue("schedule")
  /\ \/ /\ attemptStatus[current] = "unstopped"
        /\ FailRun
        /\ unconfirmed' = TRUE
        /\ UNCHANGED <<taskStatus, workStatus, outcomes>>
     \/ /\ results[current] = "interrupted"
        /\ UNCHANGED <<status, unconfirmed, taskStatus, workStatus, outcomes>>
     \/ /\ attemptStatus[current] # "unstopped" /\ results[current] # "interrupted"
        /\ EvaluateRun
        /\ UNCHANGED unconfirmed
  /\ UNCHANGED <<expired, used, compiled, taskCount, workOf, attempts, attemptStatus,
                 reported, received, questionVars, controlVars, parentVars>>

-----------------------------------------------------------------------------
(* _recover_interrupted_attempts_in_place: task by task, in workflow order, *)
(* first what its Attempts left, then an Attempt that never got a result.   *)

HalfReceived(slot) == results[slot] # "none"
Unreported(slot) ==
  attemptStatus[slot] \notin AttemptOpen \union {"absent"} /\ slot \notin reported
LeftOver(t) ==
  {n \in 1..attempts[t] : HalfReceived(<<t, n>>) \/ Unreported(<<t, n>>)}
LeftTasks == {t \in Tasks : LeftOver(t) # {} \/ taskStatus[t] = "running"}

\* Attempt.validate_outcome: an Attempt that ended keeps its error and time, so
\* a result that would leave it waiting makes it invalid.
ReopensEnded(slot) ==
  /\ attemptStatus[slot] \notin AttemptOpen
  /\ AttemptStatusFor(results[slot]) \in AttemptOpen

NextTask == Min(LeftTasks)
NextLeftOver == <<NextTask, Min(LeftOver(NextTask))>>
RecoversAttempt == at = "recover" /\ LeftTasks # {} /\ LeftOver(NextTask) # {}

\* Mutant: a saved result is applied whether or not its report is bound.
RecoverResultAgain ==
  /\ RecoversAttempt /\ HalfReceived(NextLeftOver)
  /\ ~ReopensEnded(NextLeftOver)
  /\ ApplyResult(NextLeftOver, "reapply")

RecoverResult ==
  /\ RecoversAttempt /\ HalfReceived(NextLeftOver) /\ NextLeftOver \notin reported
  /\ ~ReopensEnded(NextLeftOver)
  /\ ApplyResult(NextLeftOver, "reapply")

\* The contract refuses to save it: the call fails and nothing has changed.
RecoverRaises ==
  /\ RecoversAttempt /\ HalfReceived(NextLeftOver) /\ NextLeftOver \notin reported
  /\ ReopensEnded(NextLeftOver)
  /\ UNCHANGED durable
  /\ Return

RecoverAcknowledgement ==
  /\ RecoversAttempt /\ HalfReceived(NextLeftOver) /\ NextLeftOver \in reported
  /\ UNCHANGED durable
  /\ GoTo("ack", "recover", NextLeftOver)

RecoverReport ==
  /\ RecoversAttempt /\ ~HalfReceived(NextLeftOver)
  /\ UNCHANGED durable
  /\ GoTo("report", "recover", NextLeftOver)

\* Mutant: the task is tried again beside its lost Attempt.
RecoverLostAttemptBeside ==
  /\ at = "recover" /\ LeftTasks # {} /\ LeftOver(NextTask) = {}
  /\ taskStatus' = [taskStatus EXCEPT ![NextTask] =
                      TaskStatusFor("retryable", attempts[NextTask])]
  /\ GoTo("report", "recover", LastSlot(NextTask))
  /\ UNCHANGED <<runVars, workVars, taskCount, workOf, attempts, attemptVars,
                 questionVars, controlVars, parentVars>>

\* The task was running and no result was saved: the Attempt is lost, and the
\* task tried again while it has Attempts left.
RecoverLostAttempt ==
  /\ at = "recover" /\ LeftTasks # {} /\ LeftOver(NextTask) = {}
  /\ attemptStatus' = [attemptStatus EXCEPT ![LastSlot(NextTask)] = "failed"]
  /\ taskStatus' = [taskStatus EXCEPT ![NextTask] =
                      TaskStatusFor("retryable", attempts[NextTask])]
  /\ GoTo("report", "recover", LastSlot(NextTask))
  /\ UNCHANGED <<runVars, workVars, taskCount, workOf, attempts, reported, results,
                 received, questionVars, controlVars, parentVars>>

\* Having changed anything, the owner evaluates the Run and starts over.
RecoverEnds ==
  /\ at = "recover" /\ LeftTasks = {} /\ goal # "none"
  /\ EvaluateRun
  /\ Continue("advance")
  /\ UNCHANGED <<unconfirmed, expired, used, compiled, taskCount, workOf, attempts,
                 attemptVars, questionVars, controlVars, parentVars>>

NothingToRecover ==
  /\ at = "recover" /\ LeftTasks = {} /\ goal = "none"
  /\ UNCHANGED durable
  /\ Continue("checks")

SchedulerStep ==
  \/ ScheduleReturns \/ ScheduleCancelled \/ ScheduleSettles \/ StartAttempt
  \/ RejectRequest \/ DispatchAgent \/ DispatchCancelled
  \/ AgentReturns \/ AgentCancelled \/ AgentUnstopped
  \/ ReceiveResult \/ RegisterReport \/ AcknowledgeResult \/ FinishResult
  \/ RecoverResult \/ RecoverRaises \/ RecoverAcknowledgement \/ RecoverReport
  \/ RecoverLostAttempt \/ RecoverEnds \/ NothingToRecover
=============================================================================
