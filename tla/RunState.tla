------------------------------ MODULE RunState ------------------------------
(***************************************************************************)
(* The persisted Research Run of the orchestrator, the inbox of user       *)
(* records kept beside it, and the volatile position of the process that   *)
(* owns the Run.  Scheduler and Controller give the actions.               *)
(*                                                                         *)
(* A variable of the first groups is a field of ResearchRun as the last    *)
(* store.save left it; at, goal, current and token belong to the owner and *)
(* are lost when it stops.  Times, texts, sessions and artifacts are left  *)
(* out; what a module answered is one of a few kinds.                      *)
(***************************************************************************)
EXTENDS Naturals, Sequences, FiniteSets, FiniteSetsExt

CONSTANTS
  MaxTasks,      \* execution_limits.max_tasks
  DependsOn,     \* depends_on of each task, when both are in one work request
  MaxAttempts,   \* execution_limits.max_attempts_per_task
  MaxCalls,      \* budget.max_llm_calls; one invocation charges one call
  MaxWorks,      \* bound: work requests the scientific agent makes
  ControlKinds,  \* bound: kinds of record the user submits
  MaxControls,   \* bound: records the user submits
  MaxCrashes     \* bound: times the owner process dies

Tasks == 1..MaxTasks
Works == 1..MaxWorks
Slots == Tasks \X (1..MaxAttempts)   \* a task and the number of an Attempt
NoTask == 0
NoWork == 0
NoSlot == <<0, 0>>
AllControlKinds == {"input", "interrupt", "interruptText"}

ASSUME TasksAssumption == MaxTasks \in Nat \ {0} /\ DependsOn \in [Tasks -> SUBSET Tasks]
ASSUME AttemptsAssumption == MaxAttempts \in Nat \ {0}
ASSUME CallsAssumption == MaxCalls \in Nat
ASSUME WorksAssumption == MaxWorks \in Nat \ {0}
ASSUME ControlsAssumption == MaxControls \in Nat /\ ControlKinds \subseteq AllControlKinds
ASSUME CrashesAssumption == MaxCrashes \in Nat

VARIABLES
  status,         \* RunStatus
  unconfirmed,    \* terminal_error.details["stop_confirmed"] is False
  expired,        \* remaining_timeout_seconds() is zero
  used,           \* usage.used
  workStatus,     \* WorkRequestStatus of each work request
  outcomes,       \* the work requests whose outcome is set
  compiled,       \* pending_compilation: how many tasks it adds, 0 when None
  taskCount,      \* len(workflow.tasks)
  workOf,         \* task.work_request_id
  taskStatus,     \* TaskStatus
  attempts,       \* len(task.attempts)
  attemptStatus,  \* AttemptStatus; unstopped is failed with an unconfirmed stop
  reported,       \* the Attempts whose report_artifact_id is set
  results,        \* pending_module_results of the Attempts
  received,       \* the Attempts whose pending result's control was received
  question,       \* pending_question: none, the root session's, or an approval
  questionTask,   \* its task_id, or the task of the child question it escalates
  childQuestions, \* the tasks with an entry in child_questions
  inbox,          \* the control records published so far, in order
  consumed,       \* how many of them are in consumed_control_ids
  deliveredInputs,\* how many of them are in delivered_input_ids
  noticed,        \* history: how many a user_interrupted notice accounts for
  attention,      \* parent_attention
  sciResult,      \* pending_module_results["scientific"]
  at,             \* program point of the owner, idle when nobody owns the Run
  goal,           \* the caller the running subroutine returns to
  current,        \* the Attempt being dispatched, received or reported
  token,          \* the CancellationToken is set
  crashes         \* how many times the owner died

runVars == <<status, unconfirmed, expired, used>>
workVars == <<workStatus, outcomes, compiled>>
taskVars == <<taskCount, workOf, taskStatus, attempts>>
attemptVars == <<attemptStatus, reported, results, received>>
questionVars == <<question, questionTask, childQuestions>>
controlVars == <<inbox, consumed, deliveredInputs, noticed>>
parentVars == <<attention, sciResult>>
ownerVars == <<at, goal, current, token>>
durable == <<runVars, workVars, taskVars, attemptVars, questionVars, controlVars,
             parentVars>>
vars == <<durable, ownerVars, crashes>>

-----------------------------------------------------------------------------
(* Statuses and results. *)

RunStatuses == {"running", "paused", "completed", "failed"}
RunTerminal == {"completed", "failed"}

WorkLive == {"requested", "compiling", "executing"}
WorkActive == WorkLive \union {"stable"}
WorkStatuses == {"absent", "consumed", "failed", "cancelled"} \union WorkActive

TaskLive == {"pending", "running", "needs_user_input"}
TaskLost == {"failed", "blocked", "cancelled"}
TaskStatuses == {"absent", "completed"} \union TaskLive \union TaskLost

AttemptOpen == {"running", "needs_user_input"}
AttemptStatuses == {"absent", "completed", "failed", "unstopped", "cancelled"}
                     \union AttemptOpen

TaskResults == {"completed", "failed", "retryable", "question", "approval",
                "yielded", "interrupted", "unstopped"}
ParentResults == {"completed", "requestWork", "reply", "abandon", "ask", "yielded",
                  "interrupted", "failed"}

\* What the scientific agent answered: the records its request carried, and
\* for a reply its target, whether it answers that task's question, and
\* resume_work; for a question to the user, the child task it is about.
SciResults ==
  [kind : ParentResults \union {"none"}, inputs : 0..MaxControls,
   task : 0..MaxTasks, answers : BOOLEAN, resume : BOOLEAN]
SciResult(kind, task, answers, resume) ==
  [kind |-> kind, inputs |-> consumed, task |-> task, answers |-> answers,
   resume |-> resume]
NoSciResult == [kind |-> "none", inputs |-> 0, task |-> NoTask, answers |-> FALSE,
                resume |-> FALSE]

Points == {"idle", "advance", "recover", "checks", "compile", "accept", "accepted",
           "schedule", "dispatch", "agent", "received", "report", "ack", "finish",
           "scientific", "turn", "settle", "defer", "fencedDefer", "pausing",
           "cancelling"}
Goals == {"none", "dispatch", "reapply", "recover", "pause", "abandon"}

-----------------------------------------------------------------------------
(* Reading the Run. *)

LastSlot(t) == <<t, attempts[t]>>
TasksOf(w) == {t \in Tasks : workOf[t] = w}

\* A proposal's dependencies stay inside the proposal.
Dependencies(t) == {d \in DependsOn[t] : workOf[d] = workOf[t]}

LiveWorks == {w \in Works : workStatus[w] \in WorkLive}
ActiveWorks == {w \in Works : \/ workStatus[w] \in WorkActive
                              \/ workStatus[w] = "failed" /\ w \notin outcomes}

\* Mutant: a dependency need only have ended.
ReadyTasksAfterEnd == {t \in Tasks : /\ taskStatus[t] = "pending"
                                     /\ \A d \in Dependencies(t) : taskStatus[d] # "running"}

ReadyTasks == {t \in Tasks : /\ taskStatus[t] = "pending"
                             /\ \A d \in Dependencies(t) : taskStatus[d] = "completed"}

HasText(kind) == kind \in {"input", "interruptText"}
IsInterrupt(kind) == kind \in {"interrupt", "interruptText"}

PendingControls == (consumed + 1)..Len(inbox)
PendingText == \E i \in PendingControls : HasText(inbox[i])
PendingInterrupt == \E i \in PendingControls : IsInterrupt(inbox[i])
PendingInput == \E i \in PendingControls : inbox[i] = "input"

Exhausted == used >= MaxCalls

-----------------------------------------------------------------------------
(* Shared updates. *)

GoTo(point, caller, slot) ==
  /\ at' = point /\ goal' = caller /\ current' = slot
  /\ UNCHANGED <<token, crashes>>

Continue(point) == GoTo(point, "none", NoSlot)

\* The owner leaves its execution context and gives up the Run.
Return ==
  /\ at' = "idle" /\ goal' = "none" /\ current' = NoSlot /\ token' = FALSE
  /\ UNCHANGED crashes

\* Mutant: the records are marked consumed, and the parent is due no turn.
ConsumeControlsUnheard ==
  /\ consumed' = Len(inbox)
  /\ UNCHANGED <<inbox, deliveredInputs, noticed, attention>>

\* Business text goes to the parent, which must then be given a turn.
ConsumeControls ==
  /\ consumed' = Len(inbox)
  /\ attention' = (attention \/ PendingText)
  /\ UNCHANGED <<inbox, deliveredInputs, noticed>>

FailRun == status' = "failed"

\* The least set of pending tasks that a lost task makes impossible.
Doomed ==
  LET Closed(B) == \A t \in Tasks :
        (taskStatus[t] = "pending"
           /\ \E d \in Dependencies(t) : taskStatus[d] \in TaskLost \/ d \in B) => t \in B
  IN  {t \in Tasks : \A B \in SUBSET Tasks : Closed(B) => t \in B}

Blocked == [t \in Tasks |-> IF t \in Doomed THEN "blocked" ELSE taskStatus[t]]

\* The executing work all of whose tasks ended, once the doomed are blocked.
SettledWorks ==
  {w \in Works : /\ workStatus[w] = "executing"
                 /\ TasksOf(w) # {}
                 /\ \A t \in TasksOf(w) : Blocked[t] \in {"completed", "failed", "blocked"}}

EvaluateRun ==
  \/ /\ question # "none"
     /\ status' = "paused"
     /\ UNCHANGED <<taskStatus, workStatus, outcomes>>
  \/ /\ question = "none"
     /\ status' = "running"
     /\ taskStatus' = Blocked
     /\ workStatus' = [w \in Works |-> IF w \in SettledWorks THEN "stable" ELSE workStatus[w]]
     /\ outcomes' = outcomes \union SettledWorks
=============================================================================
