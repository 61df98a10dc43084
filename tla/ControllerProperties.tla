------------------------ MODULE ControllerProperties ------------------------
(***************************************************************************)
(* What the persisted Run promises, whatever the order of turns, results,  *)
(* user records and saves.                                                 *)
(***************************************************************************)
EXTENDS Controller

RunTypeOK ==
  status \in RunStatuses /\ unconfirmed \in BOOLEAN /\ expired \in BOOLEAN /\ used \in Nat

WorkTypeOK ==
  workStatus \in [Works -> WorkStatuses] /\ outcomes \subseteq Works /\ compiled \in Nat

TaskTypeOK ==
  /\ taskCount \in Nat /\ workOf \in [Tasks -> 0..MaxWorks]
  /\ taskStatus \in [Tasks -> TaskStatuses] /\ attempts \in [Tasks -> 0..MaxAttempts]

AttemptTypeOK ==
  /\ attemptStatus \in [Slots -> AttemptStatuses] /\ reported \subseteq Slots
  /\ results \in [Slots -> TaskResults \union {"none"}] /\ received \subseteq Slots

QuestionTypeOK ==
  /\ question \in {"none", "root", "approval"} /\ questionTask \in 0..MaxTasks
  /\ childQuestions \subseteq Tasks

ControlTypeOK ==
  /\ inbox \in Seq(ControlKinds) /\ Len(inbox) <= MaxControls
  /\ consumed \in 0..Len(inbox) /\ noticed \in 0..Len(inbox)
  /\ deliveredInputs \in 0..MaxControls

ParentTypeOK == attention \in BOOLEAN /\ sciResult \in SciResults

OwnerTypeOK ==
  /\ at \in Points /\ goal \in Goals /\ current \in Slots \union {NoSlot}
  /\ token \in BOOLEAN /\ crashes \in 0..MaxCrashes

\* Every variable keeps to the values its field may hold.
TypeOK ==
  /\ RunTypeOK /\ WorkTypeOK /\ TaskTypeOK /\ AttemptTypeOK
  /\ QuestionTypeOK /\ ControlTypeOK /\ ParentTypeOK /\ OwnerTypeOK

-----------------------------------------------------------------------------
(* Invariants. *)

\* ResearchRun.validate_active_work_requests: no turn adds work beside work.
AtMostOneActiveWork ==
  \A v, w \in Works :
    workStatus[v] \in WorkActive /\ workStatus[w] \in WorkActive => v = w

\* No invocation begins once the Run's calls are spent.
BudgetRespected == used <= MaxCalls

\* A compiled proposal is accepted once, and still fits the Run's task slots
\* then, whichever owner accepts what an earlier one compiled and saved.
ProposalAcceptedOnce ==
  at = "accept" =>
    taskCount + compiled <= MaxTasks /\ \A w \in LiveWorks : TasksOf(w) = {}

\* A task is attempted only when every task it depends on has completed.
DependenciesHold ==
  \A t \in Tasks : attempts[t] > 0 =>
    \A d \in Dependencies(t) : taskStatus[d] = "completed"

\* One owner runs one Agent: recovery ends the lost Attempt before another runs.
OneRunningAttempt ==
  \A s1, s2 \in Slots :
    attemptStatus[s1] = "running" /\ attemptStatus[s2] = "running" => s1 = s2

\* execute_task never meets the errors it raises: a task found ready resumes
\* its waiting Attempt or has Attempts left.
ReadyTasksCanStart ==
  at = "schedule" => \A t \in ReadyTasks : Resumes(t) \/ attempts[t] < MaxAttempts

\* The tasks of a Run are attempted in the order of their dependencies, one at a
\* time, and never in a state from which the dispatcher would raise, whatever was
\* recovered, retried, answered or compiled in between.
TasksInOrder == DependenciesHold /\ OneRunningAttempt /\ ReadyTasksCanStart

\* Work handed to the parent is over: the interpreter finds every Attempt
\* ended and reported, and nothing is left to recover into it.
SettledWorkReported ==
  \A t \in Tasks :
    workOf[t] # NoWork /\ workStatus[workOf[t]] \in {"stable", "consumed", "cancelled"} =>
      /\ taskStatus[t] \notin TaskLive
      /\ \A n \in 1..attempts[t] : /\ attemptStatus[<<t, n>>] \notin AttemptOpen
                                   /\ <<t, n>> \in reported

\* A completed Run has nothing left to do and strands no record of the user:
\* the settlement fence and the completion gate work together.
CompletedRunSettled ==
  status = "completed" =>
    /\ consumed = Len(inbox)
    /\ question = "none" /\ childQuestions = {}
    /\ \A w \in Works : workStatus[w] \notin WorkActive
    /\ \A t \in Tasks : taskStatus[t] \notin TaskLive
    /\ \A s \in Slots : results[s] = "none"

\* A completed Run has given a turn to every text the user sent it.
CompletedRunInformed ==
  status = "completed" =>
    \A i \in 1..consumed : HasText(inbox[i]) => i <= deliveredInputs

\* A task that waits always has somebody to answer it: the user, for an
\* approval, or the parent, who is due a turn, when the owner decides whose turn
\* it is.
WaitingTaskHasResponder ==
  at = "checks" =>
    \A t \in Tasks : taskStatus[t] = "needs_user_input" =>
      \/ attention
      \/ question = "approval" /\ questionTask = t

\* An operation that may still run is a failure, never a pause: a paused Run is
\* one whose processes have stopped.
UnstoppedOperation ==
  unconfirmed \/ \E s \in Slots : attemptStatus[s] = "unstopped"
UnconfirmedStopNeverPaused == UnstoppedOperation => status # "paused"

-----------------------------------------------------------------------------
(* What a step may never do. *)

Dispatches ==
  \E s \in Slots : attemptStatus[s] # "running" /\ attemptStatus'[s] = "running"

\* A terminal Run stays what it is.
TerminalIsFinal == [][(status \in RunTerminal) => status' = status]_vars

TextsDelivered == \A i \in 1..consumed : HasText(inbox[i]) => i <= deliveredInputs
InterruptsNoticed == \A i \in 1..consumed : IsInterrupt(inbox[i]) => i <= noticed

\* No Attempt starts past what the user said, in the life of one owner: not before
\* the parent has seen every text consumed so far, not between the consumption of
\* an interrupt and its pause, and not beside an operation that may still run.
DispatchAllowed ==
  [][Dispatches => TextsDelivered /\ InterruptsNoticed /\ ~UnstoppedOperation]_vars

\* An interrupt stops the whole chain of the Run (ARCHITECTURE.md:143): no Attempt
\* starts between the consumption of an interrupt and its pause, over a restart too.
NoDispatchPastInterrupt == [][Dispatches => InterruptsNoticed]_vars

\* The report binding is the final receiving decision: an Attempt received a
\* second time after it keeps its outcome and its report.
ReportedAttemptFinal ==
  [][\A s \in reported : attemptStatus'[s] = attemptStatus[s] /\ s \in reported']_vars

-----------------------------------------------------------------------------
(* Progress. *)

\* The owner's own steps are taken: it runs to the end of its call, and every
\* call it makes is bounded by the Run's execution budget.
FairSpec == Spec /\ WF_vars(OwnerStep)

\* A call to the controller returns: no sequence of turns, tasks and records
\* keeps it going round without spending the Run's calls.
OwnerReturns == (at # "idle") ~> (at = "idle")
=============================================================================
