--------------------------- MODULE ControllerProofs ---------------------------
(***************************************************************************)
(* Safety of the Controller, proved for every value of the constants.      *)
(* Each section strengthens an invariant of ControllerProperties until     *)
(* every step preserves it: the types, the budget, the active work, the    *)
(* tasks and their Attempts, the completed Run, and the reports.           *)
(***************************************************************************)
EXTENDS ControllerProperties, WellFoundedInduction, TLAPS

\* The least element of a set of numbers, found along the order of Nat.
LEMMA MinInSet ==
  ASSUME NEW S \in SUBSET Nat, S # {}
  PROVE  Min(S) \in S /\ \A x \in S : Min(S) <= x
<1>1. \E m \in S : \A x \in S : ~(<<x, m>> \in OpToRel(<, Nat))
  BY NatLessThanWellFounded, WFMin
<1>2. PICK m \in S : \A x \in S : ~(<<x, m>> \in OpToRel(<, Nat))
  BY <1>1
<1>3. \A x \in S : ~(x < m)
  BY <1>2 DEF OpToRel
<1>4. \A x \in S : m <= x
  BY <1>3
<1>5. QED
  BY <1>4 DEF Min

-----------------------------------------------------------------------------
(* Type correctness.  The typing of a step needs to know where the owner is: *)
(* the Attempt it handles exists and, once received, has a result to apply.  *)

HandlesAttempt == {"dispatch", "agent", "received", "report", "ack", "finish"}

PointOK ==
  /\ at \in HandlesAttempt => current \in Slots
  /\ at = "received" => results[current] # "none"

StartedOK == \A t \in Tasks : taskStatus[t] = "running" => attempts[t] > 0

TypeInv == TypeOK /\ PointOK /\ StartedOK

\* The reset of pending_module_results["scientific"] is a value of that field.
LEMMA NoSciResultTyped == NoSciResult \in SciResults
  BY TasksAssumption, ControlsAssumption DEF SciResults, NoSciResult, NoTask

\* A created Run is well typed.
LEMMA InitTyped == Init => TypeInv
<1> SUFFICES ASSUME Init PROVE TypeInv
  OBVIOUS
<1> USE DEF Init
<1>1. RunTypeOK
  BY DEF RunTypeOK, RunStatuses
<1>2. WorkTypeOK
  BY DEF WorkTypeOK, WorkStatuses
<1>3. TaskTypeOK /\ StartedOK
  BY WorksAssumption, AttemptsAssumption DEF TaskTypeOK, TaskStatuses, NoWork, StartedOK
<1>4. AttemptTypeOK
  BY DEF AttemptTypeOK, AttemptStatuses
<1>5. QuestionTypeOK
  BY TasksAssumption DEF QuestionTypeOK, NoTask
<1>6. ControlTypeOK
  BY ControlsAssumption DEF ControlTypeOK
<1>7. ParentTypeOK
  BY NoSciResultTyped DEF ParentTypeOK
<1>8. OwnerTypeOK
  <2>1. at = "advance" /\ goal = "none" /\ current = NoSlot /\ token = FALSE /\ crashes = 0
    OBVIOUS
  <2>2. 0 \in 0..MaxCrashes
    BY CrashesAssumption
  <2>3. at \in Points /\ goal \in Goals
    BY <2>1 DEF Points, Goals
  <2>4. QED
    BY <2>1, <2>2, <2>3 DEF OwnerTypeOK
<1>9. PointOK
  BY DEF PointOK, HandlesAttempt
<1>10. QED
  BY <1>1, <1>2, <1>3, <1>4, <1>5, <1>6, <1>7, <1>8, <1>9 DEF TypeInv, TypeOK

-----------------------------------------------------------------------------
(* What the shared updates leave well typed. *)

\* A group of fields that a step leaves alone stays well typed.
LEMMA FrameTyped ==
  ASSUME TypeInv
  PROVE  /\ UNCHANGED runVars => RunTypeOK'
         /\ UNCHANGED workVars => WorkTypeOK'
         /\ UNCHANGED taskVars => TaskTypeOK' /\ StartedOK'
         /\ UNCHANGED attemptVars => AttemptTypeOK'
         /\ UNCHANGED questionVars => QuestionTypeOK'
         /\ UNCHANGED controlVars => ControlTypeOK'
         /\ UNCHANGED parentVars => ParentTypeOK'
<1>1. UNCHANGED runVars => RunTypeOK'
  BY DEF TypeInv, TypeOK, RunTypeOK, runVars
<1>2. UNCHANGED workVars => WorkTypeOK'
  BY DEF TypeInv, TypeOK, WorkTypeOK, workVars
<1>3. UNCHANGED taskVars => TaskTypeOK' /\ StartedOK'
  BY DEF TypeInv, TypeOK, TaskTypeOK, StartedOK, taskVars
<1>4. UNCHANGED attemptVars => AttemptTypeOK'
  BY DEF TypeInv, TypeOK, AttemptTypeOK, attemptVars
<1>5. UNCHANGED questionVars => QuestionTypeOK'
  BY DEF TypeInv, TypeOK, QuestionTypeOK, questionVars
<1>6. UNCHANGED controlVars => ControlTypeOK'
  BY DEF TypeInv, TypeOK, ControlTypeOK, controlVars
<1>7. UNCHANGED parentVars => ParentTypeOK'
  BY DEF TypeInv, TypeOK, ParentTypeOK, parentVars
<1>8. QED
  BY <1>1, <1>2, <1>3, <1>4, <1>5, <1>6, <1>7

\* Moving to a saved point, with an Attempt where the point handles one.
LEMMA GoToTyped ==
  ASSUME TypeInv, NEW p \in Points \ {"received"}, NEW g \in Goals,
         NEW s \in Slots \union {NoSlot}, p \in HandlesAttempt => s \in Slots,
         GoTo(p, g, s)
  PROVE  OwnerTypeOK' /\ PointOK'
  BY DEF GoTo, TypeInv, TypeOK, OwnerTypeOK, PointOK

\* Moving to a point that handles no Attempt.
LEMMA ContinueTyped ==
  ASSUME TypeInv, NEW p \in Points \ HandlesAttempt, Continue(p)
  PROVE  OwnerTypeOK' /\ PointOK'
<1>1. p # "received" /\ "none" \in Goals
  BY DEF HandlesAttempt, Goals
<1>2. QED
  BY <1>1, GoToTyped DEF Continue

\* The end of a call of the controller.
LEMMA ReturnTyped ==
  ASSUME TypeInv, Return
  PROVE  OwnerTypeOK' /\ PointOK'
<1>1. "idle" \in Points \ HandlesAttempt /\ "none" \in Goals /\ "idle" # "received"
  BY DEF HandlesAttempt, Goals, Points
<1>2. OwnerTypeOK'
  BY <1>1 DEF Return, TypeInv, TypeOK, OwnerTypeOK
<1>3. QED
  BY <1>1, <1>2 DEF Return, PointOK

\* _fail_run leaves the Run's own fields typed.
LEMMA FailRunTyped ==
  ASSUME TypeInv, FailRun, UNCHANGED <<unconfirmed, expired, used>>
  PROVE  RunTypeOK'
  BY DEF FailRun, TypeInv, TypeOK, RunTypeOK, RunStatuses

\* _evaluate_run leaves the Run, its works and its tasks typed.
LEMMA EvaluateRunTyped ==
  ASSUME TypeInv, EvaluateRun,
         UNCHANGED <<expired, used, compiled, taskCount, workOf, attempts>>
  PROVE  /\ UNCHANGED unconfirmed => RunTypeOK'
         /\ WorkTypeOK' /\ TaskTypeOK' /\ StartedOK'
<1>1. UNCHANGED unconfirmed => RunTypeOK'
  BY DEF EvaluateRun, TypeInv, TypeOK, RunTypeOK, RunStatuses
<1>2. WorkTypeOK'
  BY DEF EvaluateRun, TypeInv, TypeOK, WorkTypeOK, WorkStatuses, WorkActive, SettledWorks
<1>3. TaskTypeOK' /\ StartedOK'
  BY DEF EvaluateRun, TypeInv, TypeOK, TaskTypeOK, StartedOK, TaskStatuses, TaskLost, Blocked
<1>4. QED
  BY <1>1, <1>2, <1>3

\* _consume_controls leaves the inbox's counters and the parent typed.
LEMMA ConsumeControlsTyped ==
  ASSUME TypeInv, ConsumeControls
  PROVE  /\ ControlTypeOK' /\ attention' \in BOOLEAN
         /\ UNCHANGED sciResult => ParentTypeOK'
<1>1. ControlTypeOK'
  BY DEF ConsumeControls, TypeInv, TypeOK, ControlTypeOK
<1>2. attention' \in BOOLEAN
  BY DEF ConsumeControls
<1>3. QED
  BY <1>1, <1>2 DEF TypeInv, TypeOK, ParentTypeOK

\* What _apply_turn commits with every accepted turn is typed.
LEMMA CommitTurnTyped ==
  ASSUME TypeInv, CommitTurn
  PROVE  ControlTypeOK' /\ sciResult' \in SciResults
<1>1. sciResult.inputs \in 0..MaxControls
  BY DEF TypeInv, TypeOK, ParentTypeOK, SciResults
<1>2. ControlTypeOK'
  BY <1>1 DEF CommitTurn, TypeInv, TypeOK, ControlTypeOK
<1>3. QED
  BY <1>2, NoSciResultTyped DEF CommitTurn

-----------------------------------------------------------------------------
(* The Attempts and works a step speaks of exist. *)

\* A slot is a task and a number.
LEMMA SlotTyped ==
  ASSUME NEW s \in Slots
  PROVE  s[1] \in Tasks /\ s[2] \in 1..MaxAttempts /\ s = <<s[1], s[2]>>
  BY DEF Slots

\* At a point that handles an Attempt, the Attempt exists.
LEMMA CurrentTyped ==
  ASSUME TypeInv, at \in HandlesAttempt
  PROVE  current \in Slots /\ current[1] \in Tasks
  BY SlotTyped DEF TypeInv, PointOK

\* A task that was attempted has a last Attempt.
LEMMA LastSlotTyped ==
  ASSUME TypeInv, NEW t \in Tasks, attempts[t] > 0
  PROVE  LastSlot(t) \in Slots
  BY AttemptsAssumption DEF TypeInv, TypeOK, TaskTypeOK, LastSlot, Slots

\* Tasks are numbers, so workflow order has a least element.
LEMMA TasksNat == Tasks \subseteq Nat
  BY TasksAssumption DEF Tasks

\* The task recovery looks at next is one it has to look at.
LEMMA NextTaskTyped ==
  ASSUME LeftTasks # {}
  PROVE  NextTask \in LeftTasks /\ NextTask \in Tasks
  BY MinInSet, TasksNat DEF NextTask, LeftTasks

\* The Attempt recovery handles next exists and was left half received or unreported.
LEMMA NextLeftOverTyped ==
  ASSUME TypeInv, RecoversAttempt
  PROVE  /\ NextLeftOver \in Slots
         /\ HalfReceived(NextLeftOver) \/ Unreported(NextLeftOver)
<1>1. NextTask \in Tasks
  BY NextTaskTyped DEF RecoversAttempt
<1>2. LeftOver(NextTask) # {} /\ LeftOver(NextTask) \in SUBSET Nat
  BY <1>1 DEF RecoversAttempt, LeftOver
<1>3. Min(LeftOver(NextTask)) \in LeftOver(NextTask)
  BY <1>2, MinInSet
<1>4. attempts[NextTask] \in 0..MaxAttempts
  BY <1>1 DEF TypeInv, TypeOK, TaskTypeOK
<1>5. Min(LeftOver(NextTask)) \in 1..MaxAttempts
  BY <1>3, <1>4, AttemptsAssumption DEF LeftOver
<1>6. QED
  BY <1>1, <1>3, <1>5 DEF NextLeftOver, LeftOver, Slots

\* Consuming stable work yields statuses.
LEMMA ConsumeTyped ==
  ASSUME NEW ws \in [Works -> WorkStatuses]
  PROVE  Consume(ws) \in [Works -> WorkStatuses]
  BY DEF Consume, WorkStatuses

\* A transition of one live work yields statuses.
LEMMA SetWorkTyped ==
  ASSUME TypeInv, NEW w \in LiveWorks, NEW to \in WorkStatuses, SetWork(w, to)
  PROVE  workStatus' \in [Works -> WorkStatuses]
  BY DEF LiveWorks, SetWork, TypeInv, TypeOK, WorkTypeOK

\* Failing a work leaves the works typed.
LEMMA FailWorkTyped ==
  ASSUME TypeInv, NEW w \in LiveWorks, FailWork(w)
  PROVE  WorkTypeOK'
<1>1. "failed" \in WorkStatuses
  BY DEF WorkStatuses
<1>2. workStatus' \in [Works -> WorkStatuses]
  BY <1>1, SetWorkTyped DEF FailWork
<1>3. QED
  BY <1>2 DEF FailWork, TypeInv, TypeOK, WorkTypeOK

\* The fields of the saved scientific result.
LEMMA SciResultTyped ==
  ASSUME TypeInv
  PROVE  /\ sciResult.task \in 0..MaxTasks /\ sciResult.inputs \in 0..MaxControls
         /\ sciResult.kind \in ParentResults \union {"none"}
  BY DEF TypeInv, TypeOK, ParentTypeOK, SciResults

\* Every result a task Agent returns maps to an Attempt status.
LEMMA AttemptStatusForTyped ==
  ASSUME NEW r \in TaskResults
  PROVE  AttemptStatusFor(r) \in AttemptStatuses
  BY DEF TaskResults, AttemptStatusFor, AttemptStatuses, AttemptOpen

\* Every result a task Agent returns ends the running of its task.
LEMMA TaskStatusForTyped ==
  ASSUME NEW r \in TaskResults, NEW n
  PROVE  TaskStatusFor(r, n) \in TaskStatuses /\ TaskStatusFor(r, n) # "running"
  BY DEF TaskResults, TaskStatusFor, TaskStatuses, TaskLive, TaskLost

\* Whatever the scientific agent answers can be saved.
LEMMA TurnsTyped ==
  ASSUME TypeInv
  PROVE  Turns \subseteq SciResults
<1>1. consumed \in 0..MaxControls
  BY ControlsAssumption DEF TypeInv, TypeOK, ControlTypeOK
<1>2. \A k \in ParentResults, t \in 0..MaxTasks, a, b \in BOOLEAN :
         SciResult(k, t, a, b) \in SciResults
  BY <1>1 DEF SciResult, SciResults
<1>3. NoTask \in 0..MaxTasks /\ childQuestions \subseteq 0..MaxTasks /\ LiveTasks \subseteq 0..MaxTasks
  BY TasksAssumption DEF TypeInv, TypeOK, QuestionTypeOK, NoTask, LiveTasks, Tasks
<1>4. TurnKinds \subseteq ParentResults
  BY DEF TurnKinds, ParentResults
<1>5. {SciResult(k, NoTask, FALSE, FALSE) : k \in TurnKinds} \subseteq SciResults
  BY <1>2, <1>3, <1>4
<1>6. Questions \subseteq SciResults
  BY <1>2, <1>3 DEF Questions, ParentResults
<1>7. Replies \subseteq SciResults
  BY <1>2, <1>3 DEF Replies, ParentResults
<1>8. QED
  BY <1>5, <1>6, <1>7 DEF Turns

\* A result that was saved can be received whatever it says.
LEMMA ApplyResultTyped ==
  ASSUME TypeInv, NEW slot \in Slots, results[slot] # "none",
         NEW caller \in Goals, ApplyResult(slot, caller)
  PROVE  TypeInv'
<1> DEFINE r == results[slot]
<1>1. r \in TaskResults /\ slot[1] \in Tasks
  BY SlotTyped DEF TypeInv, TypeOK, AttemptTypeOK
<1>2. RunTypeOK'
  BY DEF ApplyResult, TypeInv, TypeOK, RunTypeOK, RunStatuses
<1>3. TaskTypeOK' /\ StartedOK'
  BY <1>1, TaskStatusForTyped DEF ApplyResult, TypeInv, TypeOK, TaskTypeOK, StartedOK
<1>4. received' \subseteq Slots
  BY DEF ApplyResult, ReceiveControl, TypeInv, TypeOK, AttemptTypeOK
<1>5. AttemptTypeOK'
  BY <1>1, <1>4, AttemptStatusForTyped DEF ApplyResult, TypeInv, TypeOK, AttemptTypeOK
<1>6. QuestionTypeOK'
  <2>1. slot[1] \in 0..MaxTasks
    BY <1>1 DEF Tasks
  <2>2. childQuestions' \subseteq Tasks
    BY <1>1 DEF ApplyResult, ReceiveControl, TypeInv, TypeOK, QuestionTypeOK
  <2>3. questionTask' \in 0..MaxTasks
    BY <2>1 DEF ApplyResult, ReceiveControl, TypeInv, TypeOK, QuestionTypeOK
  <2>4. question' \in {"none", "root", "approval"}
    BY DEF ApplyResult, ReceiveControl, TypeInv, TypeOK, QuestionTypeOK
  <2>5. QED
    BY <2>2, <2>3, <2>4 DEF QuestionTypeOK
<1>7. ParentTypeOK'
  BY DEF ApplyResult, ReceiveControl, TypeInv, TypeOK, ParentTypeOK
<1>8. OwnerTypeOK' /\ PointOK'
  <2>1. CASE AttemptStatusFor(r) \notin AttemptOpen
    BY <2>1, GoToTyped DEF ApplyResult, Points, HandlesAttempt
  <2>2. CASE AttemptStatusFor(r) \in AttemptOpen
    BY <2>2, GoToTyped DEF ApplyResult, Points, HandlesAttempt
  <2>3. QED
    BY <2>1, <2>2
<1>9. QED
  BY <1>2, <1>3, <1>5, <1>6, <1>7, <1>8, FrameTyped DEF ApplyResult, TypeInv, TypeOK

\* _cancel_work leaves what it rewrites typed.
LEMMA CancelWorkTyped ==
  ASSUME TypeInv, CancelWork
  PROVE  /\ WorkTypeOK' /\ TaskTypeOK' /\ StartedOK' /\ AttemptTypeOK'
         /\ QuestionTypeOK' /\ attention' \in BOOLEAN
         /\ UNCHANGED status => RunTypeOK'
<1>1. WorkTypeOK'
  BY DEF CancelWork, LiveWorks, TypeInv, TypeOK, WorkTypeOK, WorkStatuses
<1>2. TaskTypeOK' /\ StartedOK'
  BY DEF CancelWork, TypeInv, TypeOK, TaskTypeOK, TaskStatuses, TaskLost, StartedOK
<1>3. childQuestions' \subseteq Tasks /\ question' \in {"none", "root", "approval"}
  BY DEF CancelWork, TypeInv, TypeOK, QuestionTypeOK
<1>4. questionTask' \in 0..MaxTasks
  BY TasksAssumption DEF CancelWork, TypeInv, TypeOK, QuestionTypeOK, NoTask
<1>5. QuestionTypeOK'
  BY <1>3, <1>4 DEF QuestionTypeOK
<1>6. attention' \in BOOLEAN
  BY DEF CancelWork
<1>7. AttemptTypeOK'
  BY FrameTyped DEF CancelWork
<1>8. UNCHANGED status => RunTypeOK'
  BY DEF CancelWork, TypeInv, TypeOK, RunTypeOK
<1>9. QED
  BY <1>1, <1>2, <1>5, <1>6, <1>7, <1>8

\* Every step of the scheduler and of recovery keeps the typing.
LEMMA SchedulerStepTyped ==
  ASSUME TypeInv, SchedulerStep
  PROVE  TypeInv'
<1>1. CASE ScheduleReturns
  <2>1. OwnerTypeOK' /\ PointOK'
    BY <1>1, ContinueTyped DEF ScheduleReturns, BackToController, TypeInv, PointOK, Points, Goals, HandlesAttempt
  <2>2. QED
    BY <1>1, <2>1, FrameTyped DEF ScheduleReturns, durable, TypeInv, TypeOK
<1>2. CASE ScheduleCancelled
  <2>1. OwnerTypeOK' /\ PointOK'
    BY <1>2, ContinueTyped DEF ScheduleCancelled, TypeInv, PointOK, Points, Goals, HandlesAttempt
  <2>2. QED
    BY <1>2, <2>1, FrameTyped DEF ScheduleCancelled, durable, TypeInv, TypeOK
<1>3. CASE ScheduleSettles
  <2>1. RunTypeOK'
    BY <1>3, EvaluateRunTyped DEF ScheduleSettles, TypeInv, TypeOK, RunTypeOK, RunStatuses
  <2>2. WorkTypeOK'
    BY <1>3, EvaluateRunTyped DEF ScheduleSettles, TypeInv, TypeOK, WorkTypeOK, WorkStatuses, WorkActive, WorkLive
  <2>3. TaskTypeOK' /\ StartedOK'
    BY <1>3, EvaluateRunTyped DEF ScheduleSettles, TypeInv, TypeOK, TaskTypeOK, StartedOK, TaskStatuses
  <2>4. OwnerTypeOK' /\ PointOK'
    BY <1>3, ContinueTyped DEF ScheduleSettles, BackToController, TypeInv, PointOK, Points, Goals, HandlesAttempt
  <2>5. QED
    BY <1>3, <2>1, <2>2, <2>3, <2>4, FrameTyped DEF ScheduleSettles, TypeInv, TypeOK
<1>4. CASE StartAttempt
  <2> DEFINE t == Min(ReadyTasks)
             n == IF Resumes(t) THEN attempts[t] ELSE attempts[t] + 1
  <2>1. t \in Tasks
    BY <1>4, MinInSet, TasksNat DEF StartAttempt, ReadyTasks
  <2>2. n \in 1..MaxAttempts
    BY <1>4, <2>1, AttemptsAssumption DEF StartAttempt, Resumes, TypeInv, TypeOK, TaskTypeOK
  <2>3. <<t, n>> \in Slots
    BY <2>1, <2>2 DEF Slots
  <2>4. /\ attempts' = [attempts EXCEPT ![t] = n]
        /\ taskStatus' = [taskStatus EXCEPT ![t] = "running"]
        /\ attemptStatus' = [attemptStatus EXCEPT ![<<t, n>>] = "running"]
        /\ GoTo("dispatch", "dispatch", <<t, n>>)
        /\ UNCHANGED <<taskCount, workOf, reported, results, received>>
    BY <1>4 DEF StartAttempt
  <2> HIDE DEF t, n
  <2>5. TaskTypeOK' /\ StartedOK'
    BY <2>1, <2>2, <2>4
    DEF TypeInv, TypeOK, TaskTypeOK, StartedOK, TaskStatuses, TaskLive
  <2>6. AttemptTypeOK'
    BY <2>3, <2>4
    DEF TypeInv, TypeOK, AttemptTypeOK, AttemptStatuses, AttemptOpen
  <2>7. OwnerTypeOK' /\ PointOK'
    BY <2>3, <2>4, GoToTyped DEF Points, Goals, HandlesAttempt
  <2>8. QED
    BY <1>4, <2>5, <2>6, <2>7, FrameTyped DEF StartAttempt, TypeInv, TypeOK
<1>5. CASE RejectRequest
  <2>0. current \in Slots /\ current[1] \in Tasks
    BY <1>5, CurrentTyped DEF RejectRequest, HandlesAttempt
  <2>1. TaskTypeOK' /\ StartedOK'
    BY <1>5, <2>0 DEF RejectRequest, TypeInv, TypeOK, TaskTypeOK, StartedOK, TaskStatuses, TaskLost
  <2>2. AttemptTypeOK'
    BY <1>5, <2>0 DEF RejectRequest, TypeInv, TypeOK, AttemptTypeOK, AttemptStatuses, AttemptOpen
  <2>3. OwnerTypeOK' /\ PointOK'
    BY <1>5, <2>0, GoToTyped DEF RejectRequest, TypeInv, PointOK, Points, Goals, HandlesAttempt
  <2>4. QED
    BY <1>5, <2>0, <2>1, <2>2, <2>3, FrameTyped DEF RejectRequest, TypeInv, TypeOK
<1>6. CASE DispatchAgent
  <2>1. RunTypeOK'
    BY <1>6 DEF DispatchAgent, TypeInv, TypeOK, RunTypeOK, RunStatuses
  <2>2. OwnerTypeOK' /\ PointOK'
    BY <1>6, GoToTyped DEF DispatchAgent, TypeInv, PointOK, Points, Goals, HandlesAttempt
  <2>3. QED
    BY <1>6, <2>1, <2>2, FrameTyped DEF DispatchAgent, TypeInv, TypeOK
<1>7. CASE DispatchCancelled
  <2>1. OwnerTypeOK' /\ PointOK'
    BY <1>7, ContinueTyped DEF DispatchCancelled, TypeInv, PointOK, Points, Goals, HandlesAttempt
  <2>2. QED
    BY <1>7, <2>1, FrameTyped DEF DispatchCancelled, durable, TypeInv, TypeOK
<1>8. CASE AgentReturns
  <2>0. current \in Slots /\ current[1] \in Tasks
    BY <1>8, CurrentTyped DEF AgentReturns, HandlesAttempt
  <2>1. PICK r \in TaskResults : /\ results' = [results EXCEPT ![current] = r]
                                /\ received' = received \ {current}
    BY <1>8 DEF AgentReturns
  <2>2. AttemptTypeOK'
    BY <1>8, <2>0, <2>1 DEF AgentReturns, TypeInv, TypeOK, AttemptTypeOK
  <2>3. results'[current] # "none"
    BY <2>0, <2>1 DEF TaskResults, TypeInv, TypeOK, AttemptTypeOK
  <2>4. at' = "received" /\ goal' = "dispatch" /\ UNCHANGED <<current, token, crashes>>
    BY <1>8 DEF AgentReturns, GoTo
  <2>5. OwnerTypeOK'
    BY <2>4 DEF TypeInv, TypeOK, OwnerTypeOK, Points, Goals
  <2>6. PointOK'
    BY <2>0, <2>3, <2>4 DEF PointOK
  <2>7. QED
    BY <1>8, <2>2, <2>5, <2>6, FrameTyped DEF AgentReturns, TypeInv, TypeOK
<1>9. CASE AgentCancelled
  <2>1. OwnerTypeOK' /\ PointOK'
    BY <1>9, ContinueTyped DEF AgentCancelled, TypeInv, PointOK, Points, Goals, HandlesAttempt
  <2>2. QED
    BY <1>9, <2>1, FrameTyped DEF AgentCancelled, durable, TypeInv, TypeOK
<1>10. CASE AgentUnstopped
  <2>1. RunTypeOK'
    BY <1>10 DEF AgentUnstopped, FailRun, TypeInv, TypeOK, RunTypeOK, RunStatuses
  <2>2. OwnerTypeOK' /\ PointOK'
    BY <1>10, ReturnTyped DEF AgentUnstopped
  <2>3. QED
    BY <1>10, <2>1, <2>2, FrameTyped DEF AgentUnstopped, TypeInv, TypeOK
<1>11. CASE ReceiveResult
  <2>1. current \in Slots /\ results[current] # "none" /\ "dispatch" \in Goals
    BY <1>11 DEF ReceiveResult, TypeInv, PointOK, HandlesAttempt, Goals
  <2>2. QED
    BY <1>11, <2>1, ApplyResultTyped DEF ReceiveResult
<1>12. CASE RegisterReport
  <2>0. current \in Slots /\ current[1] \in Tasks
    BY <1>12, CurrentTyped DEF RegisterReport, HandlesAttempt
  <2>1. AttemptTypeOK'
    BY <1>12, <2>0 DEF RegisterReport, TypeInv, TypeOK, AttemptTypeOK
  <2>2. goal \in Goals
    BY DEF TypeInv, TypeOK, OwnerTypeOK
  <2>3. OwnerTypeOK' /\ PointOK'
    BY <1>12, <2>0, <2>2, GoToTyped DEF RegisterReport, Points, HandlesAttempt
  <2>4. QED
    BY <1>12, <2>1, <2>3, FrameTyped DEF RegisterReport, TypeInv, TypeOK
<1>13. CASE AcknowledgeResult
  <2>0. current \in Slots /\ current[1] \in Tasks
    BY <1>13, CurrentTyped DEF AcknowledgeResult, HandlesAttempt
  <2>1. AttemptTypeOK'
    BY <1>13, <2>0 DEF AcknowledgeResult, TypeInv, TypeOK, AttemptTypeOK
  <2>2. goal \in Goals
    BY DEF TypeInv, TypeOK, OwnerTypeOK
  <2>3. \/ GoTo("finish", goal, current)
        \/ GoTo("recover", goal, NoSlot)
        \/ GoTo("cancelling", goal, NoSlot)
    BY <1>13 DEF AcknowledgeResult
  <2>4. OwnerTypeOK' /\ PointOK'
    BY <2>0, <2>2, <2>3, GoToTyped DEF Points, HandlesAttempt
  <2>5. QED
    BY <1>13, <2>1, <2>4, FrameTyped DEF AcknowledgeResult, TypeInv, TypeOK
<1>14. CASE FinishResult
  <2>0. current \in Slots /\ current[1] \in Tasks
    BY <1>14, CurrentTyped DEF FinishResult, HandlesAttempt
  <2>1. RunTypeOK' /\ WorkTypeOK' /\ TaskTypeOK' /\ StartedOK'
    <3>1. CASE EvaluateRun /\ UNCHANGED unconfirmed
      BY <1>14, <3>1, EvaluateRunTyped DEF FinishResult
    <3>2. CASE UNCHANGED <<status, unconfirmed, taskStatus, workStatus, outcomes>>
      BY <1>14, <3>2, FrameTyped DEF FinishResult, runVars, workVars, taskVars
    <3>3. CASE FailRun /\ unconfirmed' = TRUE /\ UNCHANGED <<taskStatus, workStatus, outcomes>>
      <4>1. RunTypeOK'
        BY <1>14, <3>3 DEF FinishResult, FailRun, TypeInv, TypeOK, RunTypeOK, RunStatuses
      <4>2. QED
        BY <1>14, <3>3, <4>1, FrameTyped DEF FinishResult, workVars, taskVars
    <3>4. QED
      BY <1>14, <3>1, <3>2, <3>3 DEF FinishResult
  <2>2. AttemptTypeOK'
    BY <1>14, <2>0 DEF FinishResult, TypeInv, TypeOK, AttemptTypeOK
  <2>3. OwnerTypeOK' /\ PointOK'
    <3>1. CASE goal = "reapply"
      BY <1>14, <3>1, GoToTyped DEF FinishResult, Points, Goals, HandlesAttempt
    <3>2. CASE goal # "reapply"
      BY <1>14, <3>2, ContinueTyped DEF FinishResult, Points, HandlesAttempt
    <3>3. QED
      BY <3>1, <3>2
  <2>4. QED
    BY <1>14, <2>1, <2>2, <2>3, FrameTyped DEF FinishResult, TypeInv, TypeOK
<1>15. CASE RecoverResult
  <2>1. NextLeftOver \in Slots /\ results[NextLeftOver] # "none" /\ "reapply" \in Goals
    BY <1>15, NextLeftOverTyped DEF RecoverResult, HalfReceived, Goals
  <2>2. QED
    BY <1>15, <2>1, ApplyResultTyped DEF RecoverResult
<1>16. CASE RecoverRaises
  <2>1. OwnerTypeOK' /\ PointOK'
    BY <1>16, ReturnTyped DEF RecoverRaises, TypeInv, PointOK, Points, Goals, HandlesAttempt
  <2>2. QED
    BY <1>16, <2>1, FrameTyped DEF RecoverRaises, durable, TypeInv, TypeOK
<1>17. CASE RecoverAcknowledgement
  <2>1. NextLeftOver \in Slots
    BY <1>17, NextLeftOverTyped DEF RecoverAcknowledgement
  <2>2. OwnerTypeOK' /\ PointOK'
    BY <1>17, <2>1, GoToTyped DEF RecoverAcknowledgement, Points, Goals, HandlesAttempt
  <2>3. QED
    BY <1>17, <2>2, FrameTyped DEF RecoverAcknowledgement, durable, TypeInv, TypeOK
<1>18. CASE RecoverReport
  <2>1. NextLeftOver \in Slots
    BY <1>18, NextLeftOverTyped DEF RecoverReport
  <2>2. OwnerTypeOK' /\ PointOK'
    BY <1>18, <2>1, GoToTyped DEF RecoverReport, Points, Goals, HandlesAttempt
  <2>3. QED
    BY <1>18, <2>2, FrameTyped DEF RecoverReport, durable, TypeInv, TypeOK
<1>19. CASE RecoverLostAttempt
  <2>1. NextTask \in Tasks /\ taskStatus[NextTask] = "running"
    BY <1>19, NextTaskTyped DEF RecoverLostAttempt, LeftTasks
  <2>2. LastSlot(NextTask) \in Slots
    BY <2>1, LastSlotTyped DEF TypeInv, StartedOK
  <2>3. "retryable" \in TaskResults
    BY DEF TaskResults
  <2>4. TaskTypeOK' /\ StartedOK'
    BY <1>19, <2>1, <2>3, TaskStatusForTyped
    DEF RecoverLostAttempt, TypeInv, TypeOK, TaskTypeOK, StartedOK
  <2>5. AttemptTypeOK'
    BY <1>19, <2>2 DEF RecoverLostAttempt, TypeInv, TypeOK, AttemptTypeOK, AttemptStatuses
  <2>6. OwnerTypeOK' /\ PointOK'
    BY <1>19, <2>2, GoToTyped DEF RecoverLostAttempt, Points, Goals, HandlesAttempt
  <2>7. QED
    BY <1>19, <2>4, <2>5, <2>6, FrameTyped DEF RecoverLostAttempt, TypeInv, TypeOK
<1>20. CASE RecoverEnds
  <2>1. RunTypeOK'
    BY <1>20, EvaluateRunTyped DEF RecoverEnds, TypeInv, TypeOK, RunTypeOK, RunStatuses
  <2>2. WorkTypeOK'
    BY <1>20, EvaluateRunTyped DEF RecoverEnds, TypeInv, TypeOK, WorkTypeOK, WorkStatuses, WorkActive, WorkLive
  <2>3. TaskTypeOK' /\ StartedOK'
    BY <1>20, EvaluateRunTyped DEF RecoverEnds, TypeInv, TypeOK, TaskTypeOK, StartedOK, TaskStatuses
  <2>4. OwnerTypeOK' /\ PointOK'
    BY <1>20, ContinueTyped DEF RecoverEnds, TypeInv, PointOK, Points, Goals, HandlesAttempt
  <2>5. QED
    BY <1>20, <2>1, <2>2, <2>3, <2>4, FrameTyped DEF RecoverEnds, TypeInv, TypeOK
<1>21. CASE NothingToRecover
  <2>1. OwnerTypeOK' /\ PointOK'
    BY <1>21, ContinueTyped DEF NothingToRecover, TypeInv, PointOK, Points, Goals, HandlesAttempt
  <2>2. QED
    BY <1>21, <2>1, FrameTyped DEF NothingToRecover, durable, TypeInv, TypeOK
<1>22. QED
  BY <1>1, <1>2, <1>3, <1>4, <1>5, <1>6, <1>7, <1>8, <1>9, <1>10, <1>11, <1>12, <1>13, <1>14, <1>15, <1>16, <1>17, <1>18, <1>19, <1>20, <1>21 DEF SchedulerStep

\* Every step of the owner keeps the typing.
LEMMA OwnerStepTyped ==
  ASSUME TypeInv, OwnerStep
  PROVE  TypeInv'
<1>1. CASE AdvanceReturns
  <2>1. OwnerTypeOK' /\ PointOK'
    BY <1>1, ReturnTyped DEF AdvanceReturns, TypeInv, PointOK, Points, Goals, HandlesAttempt
  <2>2. QED
    BY <1>1, <2>1, FrameTyped DEF AdvanceReturns, durable, TypeInv, TypeOK
<1>2. CASE AdvanceConsumes
  <2>1. ControlTypeOK'
    BY <1>2, ConsumeControlsTyped DEF AdvanceConsumes, TypeInv, TypeOK, ControlTypeOK
  <2>2. ParentTypeOK'
    BY <1>2, ConsumeControlsTyped DEF AdvanceConsumes, TypeInv, TypeOK, ParentTypeOK
  <2>3. OwnerTypeOK' /\ PointOK'
    BY <1>2, ReturnTyped, ContinueTyped DEF AdvanceConsumes, TypeInv, PointOK, Points, Goals, HandlesAttempt
  <2>4. QED
    BY <1>2, <2>1, <2>2, <2>3, FrameTyped DEF AdvanceConsumes, TypeInv, TypeOK
<1>3. CASE AdvanceFails
  <2>1. RunTypeOK'
    BY <1>3, FailRunTyped DEF AdvanceFails, TypeInv, TypeOK, RunTypeOK, RunStatuses
  <2>2. OwnerTypeOK' /\ PointOK'
    BY <1>3, ReturnTyped DEF AdvanceFails, TypeInv, PointOK, Points, Goals, HandlesAttempt
  <2>3. QED
    BY <1>3, <2>1, <2>2, FrameTyped DEF AdvanceFails, TypeInv, TypeOK
<1>4. CASE ResumeTurn
  <2>1. OwnerTypeOK' /\ PointOK'
    BY <1>4, ContinueTyped DEF ResumeTurn, TypeInv, PointOK, Points, Goals, HandlesAttempt
  <2>2. QED
    BY <1>4, <2>1, FrameTyped DEF ResumeTurn, durable, TypeInv, TypeOK
<1>5. CASE InvokeScientific
  <2>1. RunTypeOK'
    BY <1>5 DEF InvokeScientific, TypeInv, TypeOK, RunTypeOK, RunStatuses
  <2>2. WorkTypeOK'
    BY <1>5 DEF InvokeScientific, TypeInv, TypeOK, WorkTypeOK, WorkStatuses, ActiveWorks
  <2>3. OwnerTypeOK' /\ PointOK'
    BY <1>5, ContinueTyped DEF InvokeScientific, TypeInv, PointOK, Points, Goals, HandlesAttempt
  <2>4. QED
    BY <1>5, <2>1, <2>2, <2>3, FrameTyped DEF InvokeScientific, TypeInv, TypeOK
<1>6. CASE DriveExecuting
  <2>1. OwnerTypeOK' /\ PointOK'
    BY <1>6, ContinueTyped DEF DriveExecuting, TypeInv, PointOK, Points, Goals, HandlesAttempt
  <2>2. QED
    BY <1>6, <2>1, FrameTyped DEF DriveExecuting, durable, TypeInv, TypeOK
<1>7. CASE DriveAccepted
  <2>1. OwnerTypeOK' /\ PointOK'
    BY <1>7, ContinueTyped DEF DriveAccepted, TypeInv, PointOK, Points, Goals, HandlesAttempt
  <2>2. QED
    BY <1>7, <2>1, FrameTyped DEF DriveAccepted, durable, TypeInv, TypeOK
<1>8. CASE NoTaskSlots
  <2>1. RunTypeOK'
    BY <1>8 DEF NoTaskSlots, FailWork, SetWork, TypeInv, TypeOK, RunTypeOK, RunStatuses
  <2>2. WorkTypeOK'
    BY <1>8, FailWorkTyped DEF NoTaskSlots, DrivenWorks, NeedsCompilation
  <2>3. OwnerTypeOK' /\ PointOK'
    BY <1>8, ContinueTyped DEF NoTaskSlots, TypeInv, PointOK, Points, Goals, HandlesAttempt
  <2>4. QED
    BY <1>8, <2>1, <2>2, <2>3, FrameTyped DEF NoTaskSlots, FailWork, TypeInv, TypeOK
<1>9. CASE StartCompilation
  <2>1. RunTypeOK'
    BY <1>9 DEF StartCompilation, SetWork, TypeInv, TypeOK, RunTypeOK, RunStatuses
  <2>2. WorkTypeOK'
    BY <1>9 DEF StartCompilation, SetWork, TypeInv, TypeOK, WorkTypeOK, WorkStatuses, WorkActive, WorkLive
  <2>3. OwnerTypeOK' /\ PointOK'
    BY <1>9, ContinueTyped DEF StartCompilation, TypeInv, PointOK, Points, Goals, HandlesAttempt
  <2>4. QED
    BY <1>9, <2>1, <2>2, <2>3, FrameTyped DEF StartCompilation, TypeInv, TypeOK
<1>10. CASE Compile
  <2>1. WorkTypeOK'
    BY <1>10 DEF Compile, TypeInv, TypeOK, WorkTypeOK, WorkStatuses, WorkActive, WorkLive
  <2>2. OwnerTypeOK' /\ PointOK'
    BY <1>10, ContinueTyped DEF Compile, TypeInv, PointOK, Points, Goals, HandlesAttempt
  <2>3. QED
    BY <1>10, <2>1, <2>2, FrameTyped DEF Compile, TypeInv, TypeOK
<1>11. CASE CompileCancelled
  <2>1. OwnerTypeOK' /\ PointOK'
    BY <1>11, ContinueTyped DEF CompileCancelled, TypeInv, PointOK, Points, Goals, HandlesAttempt
  <2>2. QED
    BY <1>11, <2>1, FrameTyped DEF CompileCancelled, durable, TypeInv, TypeOK
<1>12. CASE WorkRejected
  <2>1. RunTypeOK'
    BY <1>12 DEF WorkRejected, FailWork, SetWork, TypeInv, TypeOK, RunTypeOK, RunStatuses
  <2>2. WorkTypeOK'
    BY <1>12, FailWorkTyped DEF WorkRejected
  <2>3. OwnerTypeOK' /\ PointOK'
    BY <1>12, ContinueTyped DEF WorkRejected, TypeInv, PointOK, Points, Goals, HandlesAttempt
  <2>4. QED
    BY <1>12, <2>1, <2>2, <2>3, FrameTyped DEF WorkRejected, FailWork, TypeInv, TypeOK
<1>13. CASE CompileExhausted
  <2>1. RunTypeOK'
    BY <1>13, FailRunTyped DEF CompileExhausted, FailWork, SetWork, TypeInv, TypeOK, RunTypeOK, RunStatuses
  <2>2. WorkTypeOK'
    BY <1>13, FailWorkTyped DEF CompileExhausted
  <2>3. OwnerTypeOK' /\ PointOK'
    BY <1>13, ContinueTyped DEF CompileExhausted, TypeInv, PointOK, Points, Goals, HandlesAttempt
  <2>4. QED
    BY <1>13, <2>1, <2>2, <2>3, FrameTyped DEF CompileExhausted, FailWork, TypeInv, TypeOK
<1>14. CASE AcceptTasks
  <2>1. PICK w \in LiveWorks :
          workOf' = [t \in Tasks |-> IF t \in (taskCount + 1)..(taskCount + compiled) THEN w
                                     ELSE workOf[t]]
    BY <1>14 DEF AcceptTasks
  <2>2. w \in 0..MaxWorks
    BY WorksAssumption DEF LiveWorks, Works
  <2>3. workOf' \in [Tasks -> 0..MaxWorks]
    BY <2>1, <2>2 DEF TypeInv, TypeOK, TaskTypeOK
  <2>4. taskCount' \in Nat /\ attempts' = attempts
    BY <1>14 DEF AcceptTasks, TypeInv, TypeOK, TaskTypeOK, WorkTypeOK
  <2>5. /\ taskStatus' \in [Tasks -> TaskStatuses]
        /\ \A t \in Tasks : taskStatus'[t] = "running" => taskStatus[t] = "running"
    BY <1>14 DEF AcceptTasks, TypeInv, TypeOK, TaskTypeOK, TaskStatuses, TaskLive
  <2>6. TaskTypeOK' /\ StartedOK'
    BY <2>3, <2>4, <2>5 DEF TypeInv, TypeOK, TaskTypeOK, StartedOK
  <2>7. OwnerTypeOK' /\ PointOK'
    BY <1>14, ContinueTyped DEF AcceptTasks, Points, HandlesAttempt
  <2>8. QED
    BY <1>14, <2>6, <2>7, FrameTyped DEF AcceptTasks, TypeInv, TypeOK
<1>15. CASE StartExecution
  <2>1. WorkTypeOK'
    BY <1>15 DEF StartExecution, SetWork, TypeInv, TypeOK, WorkTypeOK, WorkStatuses, WorkActive, WorkLive
  <2>2. OwnerTypeOK' /\ PointOK'
    BY <1>15, ContinueTyped DEF StartExecution, TypeInv, PointOK, Points, Goals, HandlesAttempt
  <2>3. QED
    BY <1>15, <2>1, <2>2, FrameTyped DEF StartExecution, TypeInv, TypeOK
<1>16. CASE ScientificReturns
  <2>1. ParentTypeOK'
    BY <1>16, TurnsTyped DEF ScientificReturns, TypeInv, TypeOK, ParentTypeOK
  <2>2. OwnerTypeOK' /\ PointOK'
    BY <1>16, ContinueTyped DEF ScientificReturns, TypeInv, PointOK, Points, Goals, HandlesAttempt
  <2>3. QED
    BY <1>16, <2>1, <2>2, FrameTyped DEF ScientificReturns, TypeInv, TypeOK
<1>17. CASE ScientificCancelled
  <2>1. OwnerTypeOK' /\ PointOK'
    BY <1>17, ContinueTyped DEF ScientificCancelled, TypeInv, PointOK, Points, Goals, HandlesAttempt
  <2>2. QED
    BY <1>17, <2>1, FrameTyped DEF ScientificCancelled, durable, TypeInv, TypeOK
<1>18. CASE DeferCompletion
  <2>1. ControlTypeOK'
    BY <1>18, ConsumeControlsTyped DEF DeferCompletion, TypeInv, TypeOK, ControlTypeOK
  <2>2. ParentTypeOK'
    BY <1>18, ConsumeControlsTyped DEF DeferCompletion, TypeInv, TypeOK, ParentTypeOK
  <2>3. OwnerTypeOK' /\ PointOK'
    BY <1>18, GoToTyped DEF DeferCompletion, TypeInv, PointOK, Points, Goals, HandlesAttempt
  <2>4. QED
    BY <1>18, <2>1, <2>2, <2>3, FrameTyped DEF DeferCompletion, TypeInv, TypeOK
<1>19. CASE ValidateCompletion
  <2>1. OwnerTypeOK' /\ PointOK'
    BY <1>19, ContinueTyped DEF ValidateCompletion, TypeInv, PointOK, Points, Goals, HandlesAttempt
  <2>2. QED
    BY <1>19, <2>1, FrameTyped DEF ValidateCompletion, durable, TypeInv, TypeOK
<1>20. CASE DeferUnderFence
  <2>1. WorkTypeOK'
    BY <1>20, ConsumeTyped DEF DeferUnderFence, TypeInv, TypeOK, WorkTypeOK
  <2>2. ControlTypeOK'
    BY <1>20, ConsumeControlsTyped DEF DeferUnderFence, TypeInv, TypeOK, ControlTypeOK
  <2>3. ParentTypeOK'
    BY <1>20, ConsumeControlsTyped DEF DeferUnderFence, TypeInv, TypeOK, ParentTypeOK
  <2>4. OwnerTypeOK' /\ PointOK'
    BY <1>20, GoToTyped DEF DeferUnderFence, TypeInv, PointOK, Points, Goals, HandlesAttempt
  <2>5. QED
    BY <1>20, <2>1, <2>2, <2>3, <2>4, FrameTyped DEF DeferUnderFence, TypeInv, TypeOK
<1>21. CASE FinishDefer
  <2>1. ParentTypeOK'
    BY <1>21, NoSciResultTyped DEF FinishDefer, TypeInv, TypeOK, ParentTypeOK
  <2>2. OwnerTypeOK' /\ PointOK'
    BY <1>21, ContinueTyped DEF FinishDefer, TypeInv, PointOK, Points, Goals, HandlesAttempt
  <2>3. QED
    BY <1>21, <2>1, <2>2, FrameTyped DEF FinishDefer, TypeInv, TypeOK
<1>22. CASE CompleteRun
  <2>1. RunTypeOK'
    BY <1>22 DEF CompleteRun, TypeInv, TypeOK, RunTypeOK, RunStatuses
  <2>2. WorkTypeOK'
    BY <1>22, ConsumeTyped DEF CompleteRun, TypeInv, TypeOK, WorkTypeOK
  <2>3. ControlTypeOK'
    BY <1>22, CommitTurnTyped DEF CompleteRun, TypeInv, TypeOK, ControlTypeOK
  <2>4. ParentTypeOK'
    BY <1>22, CommitTurnTyped DEF CompleteRun, TypeInv, TypeOK, ParentTypeOK
  <2>5. OwnerTypeOK' /\ PointOK'
    BY <1>22, ReturnTyped DEF CompleteRun, TypeInv, PointOK, Points, Goals, HandlesAttempt
  <2>6. QED
    BY <1>22, <2>1, <2>2, <2>3, <2>4, <2>5, FrameTyped DEF CompleteRun, TypeInv, TypeOK
<1>23. CASE RejectCompletion
  <2>1. RunTypeOK'
    BY <1>23, FailRunTyped DEF RejectCompletion, TypeInv, TypeOK, RunTypeOK, RunStatuses
  <2>2. OwnerTypeOK' /\ PointOK'
    BY <1>23, ReturnTyped DEF RejectCompletion, TypeInv, PointOK, Points, Goals, HandlesAttempt
  <2>3. QED
    BY <1>23, <2>1, <2>2, FrameTyped DEF RejectCompletion, TypeInv, TypeOK
<1>24. CASE RequestWork
  <2>1. WorkTypeOK'
    BY <1>24, ConsumeTyped DEF RequestWork, TypeInv, TypeOK, WorkTypeOK, WorkStatuses, WorkActive, WorkLive
  <2>2. ControlTypeOK'
    BY <1>24, CommitTurnTyped DEF RequestWork, TypeInv, TypeOK, ControlTypeOK
  <2>3. ParentTypeOK'
    BY <1>24, CommitTurnTyped DEF RequestWork, TypeInv, TypeOK, ParentTypeOK
  <2>4. OwnerTypeOK' /\ PointOK'
    BY <1>24, ContinueTyped DEF RequestWork, TypeInv, PointOK, Points, Goals, HandlesAttempt
  <2>5. QED
    BY <1>24, <2>1, <2>2, <2>3, <2>4, FrameTyped DEF RequestWork, TypeInv, TypeOK
<1>25. CASE Reply
  <2>1. WorkTypeOK'
    BY <1>25, ConsumeTyped DEF Reply, TypeInv, TypeOK, WorkTypeOK
  <2>2. TaskTypeOK' /\ StartedOK'
    BY <1>25 DEF Reply, TypeInv, TypeOK, TaskTypeOK, StartedOK, TaskStatuses, TaskLive
  <2>3. QuestionTypeOK'
    BY <1>25 DEF Reply, TypeInv, TypeOK, QuestionTypeOK
  <2>4. ControlTypeOK'
    BY <1>25, CommitTurnTyped DEF Reply, TypeInv, TypeOK, ControlTypeOK
  <2>5. ParentTypeOK'
    BY <1>25, CommitTurnTyped DEF Reply, TypeInv, TypeOK, ParentTypeOK
  <2>6. OwnerTypeOK' /\ PointOK'
    BY <1>25, ContinueTyped DEF Reply, TypeInv, PointOK, Points, Goals, HandlesAttempt
  <2>7. QED
    BY <1>25, <2>1, <2>2, <2>3, <2>4, <2>5, <2>6, FrameTyped DEF Reply, TypeInv, TypeOK
<1>26. CASE Abandon
  <2>1. OwnerTypeOK' /\ PointOK'
    BY <1>26, GoToTyped DEF Abandon, TypeInv, PointOK, Points, Goals, HandlesAttempt
  <2>2. QED
    BY <1>26, <2>1, FrameTyped DEF Abandon, durable, TypeInv, TypeOK
<1>27. CASE AskUser
  <2>1. RunTypeOK'
    BY <1>27 DEF AskUser, TypeInv, TypeOK, RunTypeOK, RunStatuses
  <2>2. WorkTypeOK'
    BY <1>27, ConsumeTyped DEF AskUser, TypeInv, TypeOK, WorkTypeOK
  <2>3. QuestionTypeOK'
    BY <1>27, SciResultTyped DEF AskUser, TypeInv, TypeOK, QuestionTypeOK
  <2>4. ControlTypeOK'
    BY <1>27, CommitTurnTyped DEF AskUser, TypeInv, TypeOK, ControlTypeOK
  <2>5. ParentTypeOK'
    BY <1>27, CommitTurnTyped DEF AskUser, TypeInv, TypeOK, ParentTypeOK
  <2>6. OwnerTypeOK' /\ PointOK'
    BY <1>27, ReturnTyped DEF AskUser, TypeInv, PointOK, Points, Goals, HandlesAttempt
  <2>7. QED
    BY <1>27, <2>1, <2>2, <2>3, <2>4, <2>5, <2>6, FrameTyped DEF AskUser, TypeInv, TypeOK
<1>28. CASE YieldTurn
  <2>1. WorkTypeOK'
    BY <1>28, ConsumeTyped DEF YieldTurn, TypeInv, TypeOK, WorkTypeOK
  <2>2. ParentTypeOK'
    BY <1>28, NoSciResultTyped DEF YieldTurn, TypeInv, TypeOK, ParentTypeOK
  <2>3. OwnerTypeOK' /\ PointOK'
    BY <1>28, ContinueTyped DEF YieldTurn, TypeInv, PointOK, Points, Goals, HandlesAttempt
  <2>4. QED
    BY <1>28, <2>1, <2>2, <2>3, FrameTyped DEF YieldTurn, TypeInv, TypeOK
<1>29. CASE FailTurn
  <2>1. RunTypeOK'
    BY <1>29, FailRunTyped DEF FailTurn, TypeInv, TypeOK, RunTypeOK, RunStatuses
  <2>2. OwnerTypeOK' /\ PointOK'
    BY <1>29, ReturnTyped DEF FailTurn, TypeInv, PointOK, Points, Goals, HandlesAttempt
  <2>3. QED
    BY <1>29, <2>1, <2>2, FrameTyped DEF FailTurn, TypeInv, TypeOK
<1>30. CASE PauseConsumes
  <2>1. ControlTypeOK'
    BY <1>30, ConsumeControlsTyped DEF PauseConsumes, TypeInv, TypeOK, ControlTypeOK
  <2>2. ParentTypeOK'
    BY <1>30, ConsumeControlsTyped DEF PauseConsumes, TypeInv, TypeOK, ParentTypeOK
  <2>3. OwnerTypeOK' /\ PointOK'
    BY <1>30, GoToTyped DEF PauseConsumes, TypeInv, PointOK, Points, Goals, HandlesAttempt
  <2>4. QED
    BY <1>30, <2>1, <2>2, <2>3, FrameTyped DEF PauseConsumes, TypeInv, TypeOK
<1>31. CASE CancelAttempt
  <2>1. Min(OpenTasks) \in Tasks /\ attempts[Min(OpenTasks)] > 0
    BY <1>31, MinInSet, TasksNat DEF CancelAttempt, OpenTasks, LiveTasks
  <2>2. LastSlot(Min(OpenTasks)) \in Slots
    BY <2>1, LastSlotTyped
  <2>3. goal \in Goals
    BY DEF TypeInv, TypeOK, OwnerTypeOK
  <2>4. TaskTypeOK' /\ StartedOK'
    BY <1>31 DEF CancelAttempt, TypeInv, TypeOK, TaskTypeOK, StartedOK, TaskStatuses, TaskLost
  <2>5. AttemptTypeOK'
    BY <1>31, <2>2 DEF CancelAttempt, TypeInv, TypeOK, AttemptTypeOK, AttemptStatuses
  <2>6. OwnerTypeOK' /\ PointOK'
    BY <1>31, <2>2, <2>3, GoToTyped DEF CancelAttempt, Points, HandlesAttempt
  <2>7. QED
    BY <1>31, <2>4, <2>5, <2>6, FrameTyped DEF CancelAttempt, TypeInv, TypeOK
<1>32. CASE FinishPause
  <2>1. /\ WorkTypeOK' /\ TaskTypeOK' /\ StartedOK' /\ AttemptTypeOK'
        /\ QuestionTypeOK' /\ attention' \in BOOLEAN
    BY <1>32, CancelWorkTyped DEF FinishPause
  <2>2. RunTypeOK'
    BY <1>32 DEF FinishPause, CancelWork, TypeInv, TypeOK, RunTypeOK, RunStatuses
  <2>3. ControlTypeOK'
    BY <1>32 DEF FinishPause, TypeInv, TypeOK, ControlTypeOK
  <2>4. ParentTypeOK'
    BY <1>32, <2>1 DEF FinishPause, TypeInv, TypeOK, ParentTypeOK
  <2>5. OwnerTypeOK' /\ PointOK'
    BY <1>32, ReturnTyped DEF FinishPause, Points, HandlesAttempt
  <2>6. QED
    BY <2>1, <2>2, <2>3, <2>4, <2>5 DEF TypeInv, TypeOK
<1>33. CASE FinishAbandon
  <2>1. /\ WorkTypeOK' /\ TaskTypeOK' /\ StartedOK' /\ AttemptTypeOK'
        /\ QuestionTypeOK' /\ attention' \in BOOLEAN
    BY <1>33, CancelWorkTyped DEF FinishAbandon
  <2>2. RunTypeOK'
    BY <1>33 DEF FinishAbandon, CancelWork, TypeInv, TypeOK, RunTypeOK, RunStatuses
  <2>3. ControlTypeOK'
    BY <1>33, CommitTurnTyped DEF FinishAbandon, TypeInv, TypeOK, ControlTypeOK
  <2>4. ParentTypeOK'
    BY <1>33, <2>1, CommitTurnTyped DEF FinishAbandon, TypeInv, TypeOK, ParentTypeOK
  <2>5. OwnerTypeOK' /\ PointOK'
    BY <1>33, ContinueTyped DEF FinishAbandon, Points, HandlesAttempt
  <2>6. QED
    BY <2>1, <2>2, <2>3, <2>4, <2>5 DEF TypeInv, TypeOK
<1>34. CASE CancelRaises
  <2>1. RunTypeOK'
    BY <1>34 DEF CancelRaises, TypeInv, TypeOK, RunTypeOK, RunStatuses
  <2>2. OwnerTypeOK' /\ PointOK'
    BY <1>34, ReturnTyped DEF CancelRaises, TypeInv, PointOK, Points, Goals, HandlesAttempt
  <2>3. QED
    BY <1>34, <2>1, <2>2, FrameTyped DEF CancelRaises, TypeInv, TypeOK
<1>35. CASE SchedulerStep
  BY <1>35, SchedulerStepTyped
<1>36. QED
  BY <1>1, <1>2, <1>3, <1>4, <1>5, <1>6, <1>7, <1>8, <1>9, <1>10, <1>11, <1>12, <1>13, <1>14, <1>15, <1>16, <1>17, <1>18, <1>19, <1>20, <1>21, <1>22, <1>23, <1>24, <1>25, <1>26, <1>27, <1>28, <1>29, <1>30, <1>31, <1>32, <1>33, <1>34, <1>35 DEF OwnerStep

\* So do the user, the watcher, the clock and the death of the owner.
LEMMA EnvironmentTyped ==
  ASSUME TypeInv, Environment
  PROVE  TypeInv'
<1>1. CASE Submit
  <2>1. PICK k \in ControlKinds : inbox' = Append(inbox, k)
    BY <1>1 DEF Submit
  <2>2. inbox \in Seq(ControlKinds) /\ Len(inbox) < MaxControls
    BY <1>1 DEF Submit, TypeInv, TypeOK, ControlTypeOK
  <2>3. inbox' \in Seq(ControlKinds) /\ Len(inbox') = Len(inbox) + 1
    BY <2>1, <2>2
  <2>4. UNCHANGED <<consumed, noticed, deliveredInputs>>
    BY <1>1 DEF Submit
  <2>5. ControlTypeOK'
    BY <2>2, <2>3, <2>4, ControlsAssumption DEF TypeInv, TypeOK, ControlTypeOK
  <2>6. OwnerTypeOK' /\ PointOK'
    BY <1>1 DEF Submit, ownerVars, attemptVars, TypeInv, TypeOK, OwnerTypeOK, PointOK
  <2>7. QED
    BY <1>1, <2>5, <2>6, FrameTyped DEF Submit, TypeInv, TypeOK
<1>2. CASE Answer
  <2>1. RunTypeOK'
    BY <1>2 DEF Answer, TypeInv, TypeOK, RunTypeOK, RunStatuses
  <2>2. TaskTypeOK' /\ StartedOK'
    BY <1>2 DEF Answer, TypeInv, TypeOK, TaskTypeOK, StartedOK, TaskStatuses, TaskLive
  <2>3. QuestionTypeOK'
    BY <1>2, TasksAssumption DEF Answer, TypeInv, TypeOK, QuestionTypeOK, NoTask
  <2>4. OwnerTypeOK' /\ PointOK'
    BY <1>2, ContinueTyped DEF Answer, TypeInv, PointOK, Points, Goals, HandlesAttempt
  <2>5. QED
    BY <1>2, <2>1, <2>2, <2>3, <2>4, FrameTyped DEF Answer, TypeInv, TypeOK
<1>3. CASE Resume
  <2>1. RunTypeOK'
    BY <1>3 DEF Resume, TypeInv, TypeOK, RunTypeOK, RunStatuses
  <2>2. ControlTypeOK'
    BY <1>3, ConsumeControlsTyped DEF Resume, TypeInv, TypeOK, ControlTypeOK
  <2>3. ParentTypeOK'
    BY <1>3, ConsumeControlsTyped DEF Resume, TypeInv, TypeOK, ParentTypeOK
  <2>4. OwnerTypeOK' /\ PointOK'
    BY <1>3, ReturnTyped, ContinueTyped DEF Resume, TypeInv, PointOK, Points, Goals, HandlesAttempt
  <2>5. QED
    BY <1>3, <2>1, <2>2, <2>3, <2>4, FrameTyped DEF Resume, TypeInv, TypeOK
<1>4. CASE Watch
  <2>1. OwnerTypeOK' /\ PointOK'
    BY <1>4 DEF Watch, ownerVars, durable, attemptVars, TypeInv, TypeOK, OwnerTypeOK, PointOK
  <2>2. QED
    BY <1>4, <2>1, FrameTyped DEF Watch, durable, TypeInv, TypeOK
<1>5. CASE Expire
  <2>1. RunTypeOK'
    BY <1>5 DEF Expire, TypeInv, TypeOK, RunTypeOK, RunStatuses
  <2>2. OwnerTypeOK' /\ PointOK'
    BY <1>5 DEF Expire, ownerVars, durable, attemptVars, TypeInv, TypeOK, OwnerTypeOK, PointOK
  <2>3. QED
    BY <1>5, <2>1, <2>2, FrameTyped DEF Expire, TypeInv, TypeOK
<1>6. CASE Crash
  <2>1. crashes' \in 0..MaxCrashes
    BY <1>6, CrashesAssumption DEF Crash, TypeInv, TypeOK, OwnerTypeOK
  <2>2. OwnerTypeOK' /\ PointOK'
    BY <1>6, <2>1 DEF Crash, OwnerTypeOK, PointOK, Points, Goals, HandlesAttempt
  <2>3. QED
    BY <1>6, <2>2, FrameTyped DEF Crash, durable, TypeInv, TypeOK
<1>7. QED
  BY <1>1, <1>2, <1>3, <1>4, <1>5, <1>6 DEF Environment

\* Hence the typing is inductive.
LEMMA NextTyped == TypeInv /\ [Next]_vars => TypeInv'
<1> SUFFICES ASSUME TypeInv, [Next]_vars PROVE TypeInv'
  OBVIOUS
<1>1. CASE OwnerStep
  BY <1>1, OwnerStepTyped
<1>2. CASE Environment
  BY <1>2, EnvironmentTyped
<1>3. CASE UNCHANGED vars
  <2>1. OwnerTypeOK' /\ PointOK'
    BY <1>3 DEF vars, durable, ownerVars, attemptVars, TypeInv, TypeOK, OwnerTypeOK, PointOK
  <2>2. QED
    BY <1>3, <2>1, FrameTyped DEF vars, durable, TypeInv, TypeOK
<1>4. QED
  BY <1>1, <1>2, <1>3 DEF Next

\* Every variable keeps to the values of its field, whatever the number of
\* tasks, Attempts, works, records and crashes.
THEOREM TypeCorrect == Spec => []TypeOK
<1>1. TypeInv => TypeOK
  BY DEF TypeInv
<1>2. QED
  BY <1>1, InitTyped, NextTyped, PTL DEF Spec

-----------------------------------------------------------------------------
(* The budget.  A task Agent is charged one save after the calls were       *)
(* counted, so the count must still hold at that point.                     *)

BudgetInv ==
  /\ used <= MaxCalls
  /\ at = "dispatch" => ~Exhausted

\* The owner's charges come right after the count, or at the point dispatch.
LEMMA BudgetSchedulerStep ==
  ASSUME TypeInv, BudgetInv, SchedulerStep
  PROVE  BudgetInv'
<1> USE CallsAssumption
<1>1. CASE StartAttempt
  BY <1>1 DEF StartAttempt, MayNotDispatch, BudgetInv, Exhausted, runVars
<1>2. CASE DispatchAgent
  <2>1. used \in Nat
    BY DEF TypeInv, TypeOK, RunTypeOK
  <2>2. at' = "agent" /\ used' = used + 1 /\ used < MaxCalls
    BY <1>2, <2>1 DEF DispatchAgent, GoTo, BudgetInv, Exhausted
  <2>3. QED
    BY <2>1, <2>2 DEF BudgetInv
<1>3. CASE ScheduleReturns \/ ScheduleCancelled \/ ScheduleSettles \/ RejectRequest
  BY <1>3 DEF ScheduleReturns, ScheduleCancelled, ScheduleSettles, RejectRequest,
              BackToController, Continue, GoTo, durable, runVars, BudgetInv
<1>4. CASE DispatchCancelled \/ AgentReturns \/ AgentCancelled \/ AgentUnstopped
  BY <1>4 DEF DispatchCancelled, AgentReturns, AgentCancelled, AgentUnstopped,
              Continue, GoTo, Return, durable, runVars, BudgetInv
<1>5. CASE ReceiveResult \/ RecoverResult
  BY <1>5 DEF ReceiveResult, RecoverResult, ApplyResult, GoTo, BudgetInv
<1>6. CASE RegisterReport \/ AcknowledgeResult \/ FinishResult
  BY <1>6 DEF RegisterReport, AcknowledgeResult, FinishResult, Continue, GoTo, runVars,
              BudgetInv
<1>7. CASE \/ RecoverRaises \/ RecoverAcknowledgement \/ RecoverReport
           \/ RecoverLostAttempt \/ RecoverEnds \/ NothingToRecover
  BY <1>7 DEF RecoverRaises, RecoverAcknowledgement, RecoverReport, RecoverLostAttempt,
              RecoverEnds, NothingToRecover, Continue, GoTo, Return, durable, runVars, BudgetInv
<1>8. QED
  BY <1>1, <1>2, <1>3, <1>4, <1>5, <1>6, <1>7 DEF SchedulerStep

\* The owner's other charges follow the count at once.
LEMMA BudgetOwnerStep ==
  ASSUME TypeInv, BudgetInv, OwnerStep
  PROVE  BudgetInv'
<1> USE CallsAssumption
<1>1. used \in Nat
  BY DEF TypeInv, TypeOK, RunTypeOK
<1>2. CASE InvokeScientific
  BY <1>1, <1>2 DEF InvokeScientific, MayInvoke, Exhausted, Continue, GoTo, BudgetInv
<1>3. CASE StartCompilation
  BY <1>1, <1>3 DEF StartCompilation, NeedsCompilation, MayInvoke, Exhausted, Continue, GoTo,
                    BudgetInv
<1>4. CASE AdvanceReturns \/ AdvanceConsumes \/ AdvanceFails \/ ResumeTurn
  BY <1>4 DEF AdvanceReturns, AdvanceConsumes, AdvanceFails, ResumeTurn, Continue, GoTo,
              Return, durable, runVars, BudgetInv
<1>5. CASE \/ DriveExecuting \/ DriveAccepted \/ NoTaskSlots \/ Compile \/ CompileCancelled
           \/ WorkRejected \/ CompileExhausted
  BY <1>5 DEF DriveExecuting, DriveAccepted, NoTaskSlots, Compile, CompileCancelled,
              WorkRejected, CompileExhausted, FailWork, Continue, GoTo, durable, runVars,
              BudgetInv
<1>6. CASE AcceptTasks \/ StartExecution \/ ScientificReturns \/ ScientificCancelled
  BY <1>6 DEF AcceptTasks, StartExecution, ScientificReturns, ScientificCancelled,
              Continue, GoTo, durable, runVars, BudgetInv
<1>7. CASE \/ DeferCompletion \/ ValidateCompletion \/ DeferUnderFence \/ FinishDefer
           \/ CompleteRun \/ RejectCompletion
  BY <1>7 DEF DeferCompletion, ValidateCompletion, DeferUnderFence, FinishDefer,
              CompleteRun, RejectCompletion, Continue, GoTo, Return, durable, runVars, BudgetInv
<1>8. CASE RequestWork \/ Reply \/ Abandon \/ AskUser \/ YieldTurn \/ FailTurn
  BY <1>8 DEF RequestWork, Reply, Abandon, AskUser, YieldTurn, FailTurn, Continue, GoTo,
              Return, durable, runVars, BudgetInv
<1>9. CASE PauseConsumes \/ CancelAttempt \/ FinishPause \/ FinishAbandon \/ CancelRaises
  BY <1>9 DEF PauseConsumes, CancelAttempt, FinishPause, FinishAbandon, CancelRaises,
              CancelWork, Continue, GoTo, Return, durable, runVars, BudgetInv
<1>10. CASE SchedulerStep
  BY <1>10, BudgetSchedulerStep
<1>11. QED
  BY <1>2, <1>3, <1>4, <1>5, <1>6, <1>7, <1>8, <1>9, <1>10 DEF OwnerStep

\* Nobody but the owner charges, and a crash moves it away from dispatch.
LEMMA BudgetNext == TypeInv /\ BudgetInv /\ [Next]_vars => BudgetInv'
<1> SUFFICES ASSUME TypeInv, BudgetInv, [Next]_vars PROVE BudgetInv'
  OBVIOUS
<1>1. CASE OwnerStep
  BY <1>1, BudgetOwnerStep
<1>2. CASE Environment
  BY <1>2 DEF Environment, Submit, Answer, Resume, Watch, Expire, Crash, Continue, GoTo,
              Return, durable, runVars, ownerVars, BudgetInv, Exhausted
<1>3. CASE UNCHANGED vars
  BY <1>3 DEF vars, durable, runVars, ownerVars, BudgetInv, Exhausted
<1>4. QED
  BY <1>1, <1>2, <1>3 DEF Next

\* No order of turns, tasks, compilations, crashes and recoveries spends more
\* calls than the Run's budget allows.
THEOREM BudgetHolds == Spec => []BudgetRespected
<1>1. Init => BudgetInv
  BY CallsAssumption DEF Init, BudgetInv
<1>2. BudgetInv => BudgetRespected
  BY DEF BudgetInv, BudgetRespected
<1>3. QED
  BY <1>1, <1>2, InitTyped, NextTyped, BudgetNext, PTL DEF Spec

-----------------------------------------------------------------------------
(* Work requests.  A turn that requests work was answered while no work was *)
(* live and one was still absent; neither changes before it is applied.     *)

WorkInv ==
  /\ AtMostOneActiveWork
  /\ sciResult.kind = "requestWork" =>
       LiveWorks = {} /\ \E w \in Works : workStatus[w] = "absent"

\* A step that starts no work: what is active and what is live only shrink.
WorkShrinks ==
  \A w \in Works : /\ workStatus'[w] \in WorkActive => workStatus[w] \in WorkActive
                   /\ workStatus'[w] \in WorkLive => workStatus[w] \in WorkLive
                   /\ workStatus[w] = "absent" => workStatus'[w] = "absent"

\* A step after which less work is active keeps the invariant.
LEMMA ShrinkingWork ==
  ASSUME WorkInv, WorkShrinks,
         sciResult'.kind = "requestWork" =>
           LiveWorks = {} /\ \E w \in Works : workStatus[w] = "absent"
  PROVE  WorkInv'
  BY DEF WorkInv, WorkShrinks, AtMostOneActiveWork, LiveWorks

\* So does one that touches neither works nor the saved turn.
LEMMA SameWork ==
  ASSUME WorkInv, UNCHANGED workStatus, UNCHANGED sciResult
  PROVE  WorkInv'
  BY DEF WorkInv, AtMostOneActiveWork, LiveWorks

\* The scheduler only settles work.
LEMMA WorkSchedulerStep ==
  ASSUME TypeInv, WorkInv, SchedulerStep
  PROVE  WorkInv'
<1>1. EvaluateRun => WorkShrinks
  BY DEF EvaluateRun, SettledWorks, TypeInv, TypeOK, WorkTypeOK, WorkActive, WorkLive,
         WorkStatuses, WorkShrinks
<1>2. CASE ScheduleSettles \/ FinishResult \/ RecoverEnds
  <2>1. UNCHANGED sciResult
    BY <1>2 DEF ScheduleSettles, FinishResult, RecoverEnds, parentVars
  <2>2. EvaluateRun \/ UNCHANGED workStatus
    BY <1>2 DEF ScheduleSettles, FinishResult, RecoverEnds
  <2>3. QED
    BY <1>1, <2>1, <2>2, SameWork, ShrinkingWork DEF WorkInv
<1>3. CASE ScheduleReturns \/ ScheduleCancelled \/ StartAttempt \/ RejectRequest
  BY <1>3, SameWork DEF ScheduleReturns, ScheduleCancelled, StartAttempt, RejectRequest,
                        durable, workVars, parentVars
<1>4. CASE \/ DispatchAgent \/ DispatchCancelled \/ AgentReturns \/ AgentCancelled
           \/ AgentUnstopped
  BY <1>4, SameWork DEF DispatchAgent, DispatchCancelled, AgentReturns, AgentCancelled,
                        AgentUnstopped, durable, workVars, parentVars
<1>5. CASE ReceiveResult \/ RecoverResult
  BY <1>5, SameWork DEF ReceiveResult, RecoverResult, ApplyResult, workVars
<1>6. CASE RegisterReport \/ AcknowledgeResult
  BY <1>6, SameWork DEF RegisterReport, AcknowledgeResult, workVars, parentVars
<1>7. CASE \/ RecoverRaises \/ RecoverAcknowledgement \/ RecoverReport
           \/ RecoverLostAttempt \/ NothingToRecover
  BY <1>7, SameWork DEF RecoverRaises, RecoverAcknowledgement, RecoverReport,
                        RecoverLostAttempt, NothingToRecover, durable, workVars, parentVars
<1>8. QED
  BY <1>2, <1>3, <1>4, <1>5, <1>6, <1>7 DEF SchedulerStep

\* RequestWork consumes the stable work and adds one request to no other.
LEMMA RequestedWork ==
  ASSUME TypeInv, WorkInv, RequestWork
  PROVE  WorkInv'
<1> DEFINE free == {v \in Works : workStatus[v] = "absent"}
           w == Min(free)
<1>1. workStatus \in [Works -> WorkStatuses]
  BY DEF TypeInv, TypeOK, WorkTypeOK
<1>2. LiveWorks = {} /\ sciResult'.kind # "requestWork"
  BY DEF RequestWork, CommitTurn, NoSciResult, WorkInv
<1>3. workStatus' = [Consume(workStatus) EXCEPT ![w] = "requested"]
  BY DEF RequestWork
<1> HIDE DEF w
<1>4. \A v \in Works \ {w} : workStatus'[v] \notin WorkActive
  BY <1>1, <1>2, <1>3 DEF Consume, LiveWorks, WorkLive, WorkActive, WorkStatuses
<1>5. QED
  BY <1>2, <1>4 DEF WorkInv, AtMostOneActiveWork

\* Every step of the owner keeps the invariant.
LEMMA WorkOwnerStep ==
  ASSUME TypeInv, WorkInv, OwnerStep
  PROVE  WorkInv'
<1>1. workStatus \in [Works -> WorkStatuses]
  BY DEF TypeInv, TypeOK, WorkTypeOK
<1>2. ASSUME NEW w \in LiveWorks, NEW to \in WorkLive \union {"failed"}, SetWork(w, to)
      PROVE  WorkShrinks
  BY <1>1, <1>2 DEF SetWork, LiveWorks, WorkShrinks, WorkLive, WorkActive
<1>3. workStatus' = Consume(workStatus) => WorkShrinks
  BY <1>1 DEF Consume, WorkShrinks, WorkLive, WorkActive, WorkStatuses
<1>4. CASE RequestWork
  BY <1>4, RequestedWork
<1>5. CASE \/ AdvanceReturns \/ AdvanceConsumes \/ AdvanceFails \/ ResumeTurn
           \/ InvokeScientific \/ DriveExecuting \/ DriveAccepted
  BY <1>5, SameWork DEF AdvanceReturns, AdvanceConsumes, AdvanceFails, ResumeTurn,
              InvokeScientific, DriveExecuting, DriveAccepted, durable, workVars, parentVars
<1>6. CASE \/ NoTaskSlots \/ StartCompilation \/ WorkRejected \/ CompileExhausted
           \/ StartExecution
  <2>1. \E w \in LiveWorks, to \in WorkLive \union {"failed"} : SetWork(w, to)
    BY <1>6 DEF NoTaskSlots, StartCompilation, WorkRejected, CompileExhausted,
                StartExecution, FailWork, DrivenWorks, WorkLive
  <2>2. UNCHANGED sciResult
    BY <1>6 DEF NoTaskSlots, StartCompilation, WorkRejected, CompileExhausted,
                StartExecution, FailWork, parentVars
  <2>3. QED
    BY <1>2, <2>1, <2>2, ShrinkingWork DEF WorkInv
<1>7. CASE Compile \/ CompileCancelled \/ AcceptTasks \/ ScientificCancelled
  BY <1>7, SameWork DEF Compile, CompileCancelled, AcceptTasks, ScientificCancelled,
                        durable, workVars, parentVars
<1>8. CASE ScientificReturns
  <2>1. sciResult' \in Turns /\ UNCHANGED workStatus
    BY <1>8 DEF ScientificReturns, workVars
  <2>2. sciResult'.kind = "requestWork" => LiveWorks = {}
    BY <2>1 DEF Turns, TurnKinds, Questions, Replies, SciResult
  <2>3. sciResult'.kind = "requestWork" => \E w \in Works : workStatus[w] = "absent"
    BY <1>8 DEF ScientificReturns, WellFormed
  <2>4. QED
    BY <2>1, <2>2, <2>3, ShrinkingWork DEF WorkShrinks
<1>9. CASE \/ DeferCompletion \/ ValidateCompletion \/ FailTurn \/ RejectCompletion
           \/ Abandon \/ PauseConsumes \/ CancelAttempt \/ CancelRaises
  BY <1>9, SameWork DEF DeferCompletion, ValidateCompletion, FailTurn, RejectCompletion,
              Abandon, PauseConsumes, CancelAttempt, CancelRaises, durable, workVars, parentVars
<1>10. CASE FinishDefer
  BY <1>10, ShrinkingWork DEF FinishDefer, workVars, NoSciResult, WorkShrinks
<1>11. CASE DeferUnderFence
  BY <1>3, <1>11, ShrinkingWork DEF DeferUnderFence, WorkInv
<1>12. CASE CompleteRun \/ Reply \/ AskUser \/ YieldTurn
  BY <1>3, <1>12, ShrinkingWork DEF CompleteRun, Reply, AskUser, YieldTurn, CommitTurn,
                                    NoSciResult
<1>13. CASE FinishPause \/ FinishAbandon
  <2>1. WorkShrinks
    BY <1>1, <1>13 DEF FinishPause, FinishAbandon, CancelWork, WorkShrinks, LiveWorks,
                       WorkActive, WorkLive
  <2>2. UNCHANGED sciResult \/ sciResult'.kind # "requestWork"
    BY <1>13 DEF FinishPause, FinishAbandon, CommitTurn, NoSciResult
  <2>3. QED
    BY <2>1, <2>2, ShrinkingWork DEF WorkInv
<1>14. CASE SchedulerStep
  BY <1>14, WorkSchedulerStep
<1>15. QED
  BY <1>4, <1>5, <1>6, <1>7, <1>8, <1>9, <1>10, <1>11, <1>12, <1>13, <1>14 DEF OwnerStep

\* Hence it is inductive.
LEMMA WorkNext == TypeInv /\ WorkInv /\ [Next]_vars => WorkInv'
<1> SUFFICES ASSUME TypeInv, WorkInv, [Next]_vars PROVE WorkInv'
  OBVIOUS
<1>1. CASE OwnerStep
  BY <1>1, WorkOwnerStep
<1>2. CASE Environment
  BY <1>2, SameWork DEF Environment, Submit, Answer, Resume, Watch, Expire, Crash,
                        durable, workVars, parentVars
<1>3. CASE UNCHANGED vars
  BY <1>3, SameWork DEF vars, durable, workVars, parentVars
<1>4. QED
  BY <1>1, <1>2, <1>3 DEF Next

\* A saved turn that requests work never meets work already active, however
\* many owners it takes to apply it: ResearchRun refuses to be saved otherwise.
THEOREM OneActiveWork == Spec => []AtMostOneActiveWork
<1>1. Init => WorkInv
  BY DEF Init, WorkInv, AtMostOneActiveWork, NoSciResult, WorkActive, WorkLive
<1>2. WorkInv => AtMostOneActiveWork
  BY DEF WorkInv
<1>3. QED
  BY <1>1, <1>2, InitTyped, NextTyped, WorkNext, PTL DEF Spec

-----------------------------------------------------------------------------
(* Compilation.  A saved proposal belongs to the one live work, which has no *)
(* tasks until the proposal is accepted, and the tasks accepted so far leave *)
(* room for it.                                                             *)

Compiling(w) == w \in LiveWorks /\ workStatus[w] = "compiling"

CompilationInv ==
  /\ compiled # 0 => \E w \in Works : Compiling(w)
  /\ compiled # 0 =>
       \A w \in LiveWorks : TasksOf(w) = {} => taskCount + compiled <= MaxTasks
  /\ \A w \in Works : workStatus[w] \in {"absent", "requested"} => TasksOf(w) = {}
  /\ at \in {"compile", "accept"} => \E w \in Works : Compiling(w) /\ TasksOf(w) = {}
  /\ at = "accept" => compiled # 0

\* The points at which a proposal is being made or accepted are left alone.
Elsewhere == at' \in {"compile", "accept"} => at' = at

\* A step that touches neither works, tasks nor the saved proposal.
LEMMA SameCompilation ==
  ASSUME CompilationInv, Elsewhere, UNCHANGED <<workStatus, compiled, taskCount, workOf>>
  PROVE  CompilationInv'
  BY DEF CompilationInv, Elsewhere, Compiling, LiveWorks, TasksOf

\* Work that settles or is consumed was not being compiled.
LEMMA OtherWorkMoves ==
  ASSUME TypeInv, CompilationInv, UNCHANGED <<compiled, taskCount, workOf>>,
         at' \notin {"compile", "accept"},
         \A w \in Works : \/ workStatus'[w] = workStatus[w]
                          \/ /\ workStatus[w] \in {"executing", "stable"}
                             /\ workStatus'[w] \in {"stable", "consumed"}
  PROVE  CompilationInv'
<1>1. \A w \in Works : TasksOf(w)' = TasksOf(w)
  BY DEF TasksOf
<1>2. \A w \in Works : w \in LiveWorks' => w \in LiveWorks
  BY DEF LiveWorks, WorkLive
<1>3. \A w \in Works : Compiling(w) => Compiling(w)'
  BY DEF Compiling, LiveWorks, WorkLive
<1>4. \A w \in Works : workStatus'[w] \in {"absent", "requested"} =>
                          workStatus[w] \in {"absent", "requested"}
  OBVIOUS
<1>5. (compiled # 0 => \E w \in Works : Compiling(w))'
  BY <1>3 DEF CompilationInv
<1>6. (compiled # 0 =>
         \A w \in LiveWorks : TasksOf(w) = {} => taskCount + compiled <= MaxTasks)'
  BY <1>1, <1>2 DEF CompilationInv, LiveWorks
<1>7. (\A w \in Works : workStatus[w] \in {"absent", "requested"} => TasksOf(w) = {})'
  BY <1>1, <1>4 DEF CompilationInv
<1>8. QED
  BY <1>5, <1>6, <1>7 DEF CompilationInv

\* A step that drops the proposal and adds no request.
LEMMA CompilationEnds ==
  ASSUME CompilationInv, compiled' = 0, UNCHANGED workOf,
         at' \notin {"compile", "accept"},
         \A w \in Works : \/ workStatus'[w] = workStatus[w]
                          \/ workStatus'[w] \notin {"absent", "requested"}
  PROVE  CompilationInv'
  BY DEF CompilationInv, TasksOf

\* _evaluate_run settles work that is executing.
LEMMA SettlingKeepsCompilation ==
  ASSUME TypeInv, EvaluateRun
  PROVE  \A w \in Works : \/ workStatus'[w] = workStatus[w]
                          \/ workStatus[w] = "executing" /\ workStatus'[w] = "stable"
  BY DEF EvaluateRun, SettledWorks, TypeInv, TypeOK, WorkTypeOK

\* The scheduler neither compiles nor accepts.
LEMMA CompilationSchedulerStep ==
  ASSUME TypeInv, CompilationInv, SchedulerStep
  PROVE  CompilationInv'
<1>1. at' \notin {"compile", "accept"}
  BY DEF SchedulerStep, ScheduleReturns, ScheduleCancelled, ScheduleSettles, StartAttempt,
         RejectRequest, DispatchAgent, DispatchCancelled, AgentReturns, AgentCancelled,
         AgentUnstopped, ReceiveResult, RecoverResult, ApplyResult, RegisterReport,
         AcknowledgeResult, FinishResult, RecoverRaises, RecoverAcknowledgement,
         RecoverReport, RecoverLostAttempt, RecoverEnds, NothingToRecover,
         BackToController, Continue, GoTo, Return
<1>2. CASE ScheduleSettles \/ FinishResult \/ RecoverEnds
  <2>1. UNCHANGED <<compiled, taskCount, workOf>>
    BY <1>2 DEF ScheduleSettles, FinishResult, RecoverEnds
  <2>2. EvaluateRun \/ UNCHANGED workStatus
    BY <1>2 DEF ScheduleSettles, FinishResult, RecoverEnds
  <2>3. QED
    BY <1>1, <2>1, <2>2, SettlingKeepsCompilation, OtherWorkMoves
<1>3. CASE ScheduleReturns \/ ScheduleCancelled \/ StartAttempt \/ RejectRequest
  BY <1>1, <1>3, SameCompilation
     DEF ScheduleReturns, ScheduleCancelled, StartAttempt, RejectRequest, Elsewhere,
         durable, workVars, taskVars
<1>4. CASE \/ DispatchAgent \/ DispatchCancelled \/ AgentReturns \/ AgentCancelled
           \/ AgentUnstopped
  BY <1>1, <1>4, SameCompilation
     DEF DispatchAgent, DispatchCancelled, AgentReturns, AgentCancelled, AgentUnstopped,
         Elsewhere, durable, workVars, taskVars
<1>5. CASE ReceiveResult \/ RecoverResult
  BY <1>1, <1>5, SameCompilation
     DEF ReceiveResult, RecoverResult, ApplyResult, Elsewhere, workVars
<1>6. CASE RegisterReport \/ AcknowledgeResult
  BY <1>1, <1>6, SameCompilation
     DEF RegisterReport, AcknowledgeResult, Elsewhere, workVars, taskVars
<1>7. CASE \/ RecoverRaises \/ RecoverAcknowledgement \/ RecoverReport
           \/ RecoverLostAttempt \/ NothingToRecover
  BY <1>1, <1>7, SameCompilation
     DEF RecoverRaises, RecoverAcknowledgement, RecoverReport, RecoverLostAttempt,
         NothingToRecover, Elsewhere, durable, workVars, taskVars
<1>8. QED
  BY <1>2, <1>3, <1>4, <1>5, <1>6, <1>7 DEF SchedulerStep

\* Compilation starts for work without tasks, with or without a saved proposal.
LEMMA StartedCompilation ==
  ASSUME TypeInv, CompilationInv, StartCompilation
  PROVE  CompilationInv'
<1>1. PICK w \in DrivenWorks :
        /\ NeedsCompilation(w) /\ SetWork(w, "compiling")
        /\ UNCHANGED <<compiled, taskVars>>
        /\ Continue(IF compiled = 0 THEN "compile" ELSE "accept")
  BY DEF StartCompilation
<1>2. workStatus \in [Works -> WorkStatuses] /\ w \in LiveWorks /\ w \in Works
  BY <1>1 DEF TypeInv, TypeOK, WorkTypeOK, DrivenWorks, LiveWorks
<1>3. UNCHANGED <<compiled, taskCount, workOf>> /\ \A v \in Works : TasksOf(v)' = TasksOf(v)
  BY <1>1 DEF taskVars, TasksOf
<1>4. Compiling(w)' /\ \A v \in Works : v \in LiveWorks' <=> v \in LiveWorks
  BY <1>1, <1>2 DEF Compiling, LiveWorks, SetWork, WorkLive
<1>5. TasksOf(w) = {}
  BY <1>1, <1>2 DEF NeedsCompilation, CompilationInv
<1>6. \A v \in Works : workStatus'[v] \in {"absent", "requested"} => workStatus'[v] = workStatus[v]
  BY <1>1, <1>2 DEF SetWork
<1>7. at' = "accept" => compiled # 0
  BY <1>1 DEF Continue, GoTo
<1>8. (\A v \in LiveWorks : TasksOf(v) = {} => taskCount + compiled <= MaxTasks) =>
        (\A v \in LiveWorks : TasksOf(v) = {} => taskCount + compiled <= MaxTasks)'
  BY <1>3, <1>4 DEF LiveWorks
<1>9. QED
  BY <1>2, <1>3, <1>4, <1>5, <1>6, <1>7, <1>8 DEF CompilationInv

\* Accepting a proposal gives its work tasks, so it is not accepted again.
LEMMA AcceptedTasks ==
  ASSUME TypeInv, WorkInv, CompilationInv, AcceptTasks
  PROVE  CompilationInv'
<1>1. PICK w \in LiveWorks :
        workOf' = [t \in Tasks |-> IF t \in (taskCount + 1)..(taskCount + compiled)
                                   THEN w ELSE workOf[t]]
  BY DEF AcceptTasks
<1>2. /\ at = "accept" /\ taskCount + compiled <= MaxTasks
      /\ UNCHANGED <<workStatus, compiled>> /\ at' = "accepted"
  BY DEF AcceptTasks, workVars, Continue, GoTo
<1>3. /\ taskCount \in Nat /\ compiled \in Nat \ {0} /\ MaxTasks \in Nat
      /\ workOf \in [Tasks -> 0..MaxWorks]
  BY <1>2, TasksAssumption DEF TypeInv, TypeOK, TaskTypeOK, WorkTypeOK, CompilationInv
<1>4. taskCount + 1 \in Tasks /\ workOf'[taskCount + 1] = w
  BY <1>1, <1>2, <1>3 DEF Tasks
<1>5. TasksOf(w)' # {}
  BY <1>4 DEF TasksOf
<1>6. \A v \in LiveWorks : v = w
  BY <1>1 DEF WorkInv, AtMostOneActiveWork, LiveWorks, WorkActive
<1>7. workStatus[w] = "compiling"
  BY <1>2, <1>6 DEF CompilationInv, Compiling
<1>8. \A v \in Works : v # w => (TasksOf(v) = {} => TasksOf(v)' = {})
  BY <1>1, <1>3 DEF TasksOf
<1>9. \A v \in Works : v \in LiveWorks' <=> v \in LiveWorks
  BY <1>2 DEF LiveWorks
<1>10. \A v \in LiveWorks' : TasksOf(v)' # {}
  BY <1>5, <1>6, <1>9 DEF LiveWorks
<1>11. \A v \in Works : workStatus'[v] \in {"absent", "requested"} => TasksOf(v)' = {}
  BY <1>2, <1>7, <1>8 DEF CompilationInv
<1>12. Compiling(w)' /\ w \in Works
  BY <1>1, <1>2, <1>7 DEF Compiling, LiveWorks
<1>13. QED
  BY <1>2, <1>10, <1>11, <1>12 DEF CompilationInv

\* Every step of the owner keeps the invariant.
LEMMA CompilationOwnerStep ==
  ASSUME TypeInv, WorkInv, CompilationInv, OwnerStep
  PROVE  CompilationInv'
<1>1. workStatus \in [Works -> WorkStatuses]
  BY DEF TypeInv, TypeOK, WorkTypeOK
<1>2. ASSUME NEW w \in LiveWorks, FailWork(w), at' \notin {"compile", "accept"}
      PROVE  CompilationInv'
  <2>1. /\ compiled' = 0 /\ UNCHANGED workOf
        /\ \A v \in Works : workStatus'[v] = workStatus[v] \/ workStatus'[v] = "failed"
    BY <1>1, <1>2 DEF FailWork, SetWork, taskVars
  <2>2. QED
    BY <1>2, <2>1, CompilationEnds
<1>3. ASSUME workStatus' = Consume(workStatus), UNCHANGED <<compiled, taskCount, workOf>>,
             at' \notin {"compile", "accept"}
      PROVE  CompilationInv'
  <2>1. \A w \in Works : \/ workStatus'[w] = workStatus[w]
                         \/ workStatus[w] = "stable" /\ workStatus'[w] = "consumed"
    BY <1>1, <1>3 DEF Consume
  <2>2. QED
    BY <1>3, <2>1, OtherWorkMoves
<1>4. CASE \/ AdvanceReturns \/ AdvanceConsumes \/ AdvanceFails \/ ResumeTurn
           \/ InvokeScientific \/ DriveExecuting \/ DriveAccepted
  BY <1>4, SameCompilation
     DEF AdvanceReturns, AdvanceConsumes, AdvanceFails, ResumeTurn, InvokeScientific,
         DriveExecuting, DriveAccepted, Elsewhere, Continue, GoTo, Return, durable,
         workVars, taskVars
<1>5. CASE NoTaskSlots \/ WorkRejected \/ CompileExhausted
  <2>1. at' \notin {"compile", "accept"}
    BY <1>5 DEF NoTaskSlots, WorkRejected, CompileExhausted, Continue, GoTo
  <2>2. \E w \in LiveWorks : FailWork(w)
    BY <1>5 DEF NoTaskSlots, WorkRejected, CompileExhausted, DrivenWorks
  <2>3. QED
    BY <1>2, <2>1, <2>2
<1>6. CASE StartCompilation
  BY <1>6, StartedCompilation
<1>7. CASE Compile
  <2>1. /\ compiled' \in 1..(MaxTasks - taskCount) /\ UNCHANGED <<workStatus, taskVars>>
        /\ at = "compile" /\ at' = "accept"
    BY <1>7 DEF Compile, Continue, GoTo
  <2>2. taskCount \in Nat /\ MaxTasks \in Nat
    BY TasksAssumption DEF TypeInv, TypeOK, TaskTypeOK
  <2>3. compiled' # 0 /\ taskCount' + compiled' <= MaxTasks
    <3>1. taskCount' = taskCount
      BY <2>1 DEF taskVars
    <3>2. PICK n \in 1..(MaxTasks - taskCount) : compiled' = n
      BY <2>1
    <3>3. n \in Int /\ 1 <= n /\ n <= MaxTasks - taskCount
      BY <2>2
    <3>4. QED
      BY <2>2, <3>1, <3>2, <3>3
  <2>4. \A w \in Works : (TasksOf(w)' = TasksOf(w)) /\ (Compiling(w)' <=> Compiling(w))
    BY <2>1 DEF taskVars, TasksOf, Compiling, LiveWorks
  <2>5. QED
    BY <2>1, <2>3, <2>4 DEF CompilationInv
<1>8. CASE CompileCancelled \/ ScientificReturns \/ ScientificCancelled
  BY <1>8, SameCompilation
     DEF CompileCancelled, ScientificReturns, ScientificCancelled, Elsewhere, Continue,
         GoTo, durable, workVars, taskVars
<1>9. CASE AcceptTasks
  BY <1>9, AcceptedTasks
<1>10. CASE StartExecution
  <2>1. PICK w \in LiveWorks : SetWork(w, "executing")
    BY <1>10 DEF StartExecution
  <2>2. \A v \in Works : workStatus'[v] = workStatus[v] \/ workStatus'[v] = "executing"
    BY <1>1, <2>1 DEF SetWork
  <2>3. compiled' = 0 /\ UNCHANGED workOf /\ at' = "schedule"
    BY <1>10 DEF StartExecution, taskVars, Continue, GoTo
  <2>4. QED
    BY <2>2, <2>3, CompilationEnds
<1>11. CASE \/ DeferCompletion \/ ValidateCompletion \/ FinishDefer \/ FailTurn
            \/ RejectCompletion \/ Abandon \/ PauseConsumes \/ CancelAttempt \/ CancelRaises
  BY <1>11, SameCompilation
     DEF DeferCompletion, ValidateCompletion, FinishDefer, FailTurn, RejectCompletion,
         Abandon, PauseConsumes, CancelAttempt, CancelRaises, Elsewhere, Continue, GoTo,
         Return, durable, workVars, taskVars
<1>12. CASE DeferUnderFence \/ CompleteRun \/ Reply \/ AskUser \/ YieldTurn
  <2>1. workStatus' = Consume(workStatus) /\ at' \notin {"compile", "accept"}
    BY <1>12 DEF DeferUnderFence, CompleteRun, Reply, AskUser, YieldTurn, Continue, GoTo,
                 Return
  <2>2. UNCHANGED <<compiled, taskCount, workOf>>
    BY <1>12 DEF DeferUnderFence, CompleteRun, Reply, AskUser, YieldTurn, taskVars
  <2>3. QED
    BY <1>3, <2>1, <2>2
<1>13. CASE RequestWork
  <2> DEFINE free == {v \in Works : workStatus[v] = "absent"}
             w == Min(free)
  <2>1. /\ workStatus' = [Consume(workStatus) EXCEPT ![w] = "requested"]
        /\ UNCHANGED <<compiled, workOf>> /\ at' = "advance"
    BY <1>13 DEF RequestWork, taskVars, Continue, GoTo
  <2>2. compiled = 0
    BY <1>13 DEF RequestWork, WorkInv, CompilationInv, Compiling
  <2>3. w \in free
    <3>1. free # {}
      BY <1>13 DEF RequestWork, WorkInv
    <3>2. free \subseteq Nat
      BY WorksAssumption DEF Works
    <3>3. QED
      BY <3>1, <3>2, MinInSet
  <2> HIDE DEF w
  <2>4. \A v \in Works : workStatus'[v] \in {"absent", "requested"} => workStatus[v] \in {"absent", "requested"}
    BY <1>1, <2>1, <2>3 DEF Consume
  <2>5. QED
    BY <2>1, <2>2, <2>4 DEF CompilationInv, TasksOf
<1>14. CASE FinishPause \/ FinishAbandon
  <2>1. compiled' = 0 /\ UNCHANGED workOf
    BY <1>14 DEF FinishPause, FinishAbandon, CancelWork, CompilationInv, Compiling
  <2>2. \A v \in Works : workStatus'[v] = workStatus[v] \/ workStatus'[v] = "cancelled"
    BY <1>1, <1>14 DEF FinishPause, FinishAbandon, CancelWork
  <2>3. at' \notin {"compile", "accept"}
    BY <1>14 DEF FinishPause, FinishAbandon, Continue, GoTo, Return
  <2>4. QED
    BY <2>1, <2>2, <2>3, CompilationEnds
<1>15. CASE SchedulerStep
  BY <1>15, CompilationSchedulerStep
<1>16. QED
  BY <1>4, <1>5, <1>6, <1>7, <1>8, <1>9, <1>10, <1>11, <1>12, <1>13, <1>14, <1>15 DEF OwnerStep

\* Hence it is inductive, given that of the works.
LEMMA CompilationNext == TypeInv /\ WorkInv /\ CompilationInv /\ [Next]_vars => CompilationInv'
<1> SUFFICES ASSUME TypeInv, WorkInv, CompilationInv, [Next]_vars PROVE CompilationInv'
  OBVIOUS
<1>1. CASE OwnerStep
  BY <1>1, CompilationOwnerStep
<1>2. CASE Environment
  BY <1>2, SameCompilation
     DEF Environment, Submit, Answer, Resume, Watch, Expire, Crash, Elsewhere, Continue,
         GoTo, Return, durable, workVars, taskVars, ownerVars
<1>3. CASE UNCHANGED vars
  BY <1>3, SameCompilation DEF vars, durable, workVars, taskVars, ownerVars, Elsewhere
<1>4. QED
  BY <1>1, <1>2, <1>3 DEF Next

\* A proposal compiled and saved by one owner is accepted by at most one, and
\* fits the task slots that are free when it is accepted.
THEOREM AcceptedOnce == Spec => []ProposalAcceptedOnce
<1>1. Init => CompilationInv
  BY WorksAssumption DEF Init, CompilationInv, TasksOf, NoWork, Works
<1>2. Init => WorkInv
  BY DEF Init, WorkInv, AtMostOneActiveWork, NoSciResult, WorkActive, WorkLive
<1>3. TypeInv /\ WorkInv /\ CompilationInv => ProposalAcceptedOnce
  <2> SUFFICES ASSUME WorkInv, CompilationInv, at = "accept"
               PROVE  taskCount + compiled <= MaxTasks /\ \A w \in LiveWorks : TasksOf(w) = {}
    BY DEF ProposalAcceptedOnce
  <2>1. PICK w \in Works : Compiling(w) /\ TasksOf(w) = {}
    BY DEF CompilationInv
  <2>2. \A v \in LiveWorks : v = w
    BY <2>1 DEF WorkInv, AtMostOneActiveWork, Compiling, LiveWorks, WorkActive
  <2>3. QED
    BY <2>1, <2>2 DEF CompilationInv, Compiling
<1>4. QED
  BY <1>1, <1>2, <1>3, InitTyped, NextTyped, WorkNext, CompilationNext, PTL DEF Spec

-----------------------------------------------------------------------------
(* Tasks and Attempts: which Attempt may run, what a saved result may still *)
(* change, and what the completion gate can rely on.                       *)

Running(s) == attemptStatus[s] = "running"

\* Between a recovery and the next dispatch, nothing runs or waits in the file.
Quiet == {"checks", "compile", "accept", "accepted", "schedule", "scientific", "turn",
          "settle", "defer", "fencedDefer"}

\* Only the last Attempt of a running task runs, only one of them all, and only
\* a last Attempt has a saved result.
AttemptInv ==
  /\ \A s \in Slots : Running(s) => s[2] = attempts[s[1]] /\ taskStatus[s[1]] = "running"
  /\ OneRunningAttempt
  /\ \A s \in Slots : HalfReceived(s) => s[2] = attempts[s[1]]

\* What the owner knows of them at each of its points.
PointInv ==
  /\ at \in Quiet => \A s \in Slots : ~Running(s) /\ ~HalfReceived(s)
  /\ at \in {"dispatch", "agent"} =>
       /\ current[2] = attempts[current[1]] /\ taskStatus[current[1]] = "running"
       /\ \A s \in Slots : ~HalfReceived(s) /\ (Running(s) => s = current)
  /\ at = "received" =>
       goal = "dispatch" /\ \A s \in Slots : Running(s) \/ HalfReceived(s) => s = current
  /\ at \in {"report", "ack", "finish"} /\ goal = "dispatch" =>
       \A s \in Slots : ~Running(s) /\ (HalfReceived(s) => s = current)
  /\ at = "finish" => goal \in {"dispatch", "reapply"}
  /\ at = "cancelling" => goal # "dispatch"

\* A completed task stays completed, also when its result is applied again, and
\* tasks not accepted yet have no past.
DependencyInv ==
  /\ DependenciesHold
  /\ \A s \in Slots :
       HalfReceived(s) /\ taskStatus[s[1]] = "completed" => results[s] = "completed"
  /\ \A t \in Tasks : t > taskCount => taskStatus[t] = "absent" /\ attempts[t] = 0

\* A task that waits has an Attempt to resume; a pending one, that or one left.
WaitingInv ==
  \A t \in Tasks :
    /\ taskStatus[t] = "needs_user_input" => Resumes(t)
    /\ taskStatus[t] = "pending" => attempts[t] < MaxAttempts \/ Resumes(t)

TasksInv == AttemptInv /\ PointInv /\ DependencyInv /\ WaitingInv


\* The parts, once every step is known to keep them.
LEMMA StepsKeep ==
  ASSUME AttemptInv', PointInv', DependencyInv', WaitingInv'
  PROVE  TasksInv'
  BY DEF TasksInv

-----------------------------------------------------------------------------
(* Steps that leave every Attempt as it is. *)

\* A task moves on its own when it is blocked, cancelled or made pending again.
Moves(t) ==
  \/ taskStatus'[t] = taskStatus[t]
  \/ /\ taskStatus[t] = "pending" /\ taskStatus'[t] = "blocked"
  \/ /\ taskStatus[t] = "needs_user_input" /\ taskStatus'[t] = "pending"
  \/ /\ taskStatus[t] \in TaskLive /\ taskStatus'[t] = "cancelled"
     /\ taskStatus[t] = "running" => ~Running(LastSlot(t))

\* The Attempts stay as they are and results are only dropped, so a task that
\* moves leaves none behind; the owner handles no Attempt after the step.
LEMMA TasksMove ==
  ASSUME TypeInv, TasksInv, UNCHANGED <<taskCount, workOf, attempts, attemptStatus>>,
         \A t \in Tasks : Moves(t),
         \A s \in Slots : results'[s] = results[s] \/ results'[s] = "none",
         at' \notin HandlesAttempt, at' = "cancelling" => goal' # "dispatch",
         at' \in Quiet => \A s \in Slots : ~Running(s) /\ results'[s] = "none"
  PROVE  TasksInv'
<1> USE DEF TasksInv
<1>1. \A s \in Slots : s[1] \in Tasks /\ (s[2] = attempts[s[1]] => s = LastSlot(s[1]))
  BY SlotTyped DEF LastSlot
<1>2. AttemptInv'
  BY <1>1 DEF AttemptInv, OneRunningAttempt, Running, HalfReceived, Moves, TaskLive
<1>3. PointInv'
  BY DEF PointInv, HandlesAttempt, Running, HalfReceived
<1>4. DependencyInv'
  <2>1. \A t \in Tasks : Dependencies(t)' = Dependencies(t) /\ Dependencies(t) \subseteq Tasks
    BY TasksAssumption DEF Dependencies
  <2>2. \A t \in Tasks : /\ taskStatus[t] = "completed" <=> taskStatus'[t] = "completed"
                         /\ taskStatus[t] = "absent" => taskStatus'[t] = "absent"
    BY DEF Moves, TaskLive
  <2>3. DependenciesHold'
    BY <2>1, <2>2 DEF DependencyInv, DependenciesHold
  <2>4. QED
    BY <1>1, <2>2, <2>3 DEF DependencyInv, HalfReceived
<1>5. WaitingInv'
  BY DEF WaitingInv, Moves, Resumes, LastSlot
<1>6. QED
  BY <1>2, <1>3, <1>4, <1>5

\* So do steps that change neither tasks nor Attempts.
LEMMA SameTasks ==
  ASSUME TypeInv, TasksInv, UNCHANGED <<taskVars, attemptVars>>,
         at' \notin HandlesAttempt, at' = "cancelling" => goal' # "dispatch",
         at' \in Quiet => at \in Quiet
  PROVE  TasksInv'
<1>1. at' \in Quiet => \A s \in Slots : ~Running(s) /\ results'[s] = "none"
  BY DEF TasksInv, PointInv, HalfReceived, attemptVars
<1>2. QED
  BY <1>1, TasksMove DEF Moves, taskVars, attemptVars

\* Nor is anything lost when the owner does not move at all.
LEMMA UnmovedKeeps ==
  ASSUME TasksInv, UNCHANGED <<taskVars, attemptVars, at, goal, current>>
  PROVE  TasksInv'
<1> USE DEF taskVars, attemptVars
<1>1. AttemptInv' /\ WaitingInv'
  BY DEF TasksInv, AttemptInv, OneRunningAttempt, Running, HalfReceived, WaitingInv, Resumes,
         LastSlot
<1>2. PointInv'
  BY DEF TasksInv, PointInv, Running, HalfReceived
<1>3. DependencyInv'
  BY DEF TasksInv, DependencyInv, DependenciesHold, Dependencies, HalfReceived
<1>4. QED
  BY <1>1, <1>2, <1>3, StepsKeep

\* _evaluate_run blocks pending tasks only.
LEMMA EvaluationMoves ==
  ASSUME TypeInv, EvaluateRun
  PROVE  \A t \in Tasks : Moves(t)
<1>1. \A t \in Doomed : taskStatus[t] = "pending"
  <2> DEFINE B == {t \in Tasks : taskStatus[t] = "pending"}
  <2>1. B \in SUBSET Tasks
    OBVIOUS
  <2>2. \A t \in Tasks :
          (taskStatus[t] = "pending"
             /\ \E d \in Dependencies(t) : taskStatus[d] \in TaskLost \/ d \in B) => t \in B
    OBVIOUS
  <2>3. Doomed \subseteq B
    BY <2>1, <2>2 DEF Doomed
  <2>4. QED
    BY <2>3
<1>2. QED
  BY <1>1 DEF EvaluateRun, Blocked, Moves

-----------------------------------------------------------------------------
(* Dispatching. *)

\* A ready task starts or resumes its last Attempt while nothing else runs.
LEMMA StartKeeps ==
  ASSUME TypeInv, TasksInv, StartAttempt
  PROVE  TasksInv'
<1> DEFINE t == Min(ReadyTasks)
           n == IF Resumes(t) THEN attempts[t] ELSE attempts[t] + 1
<1> USE DEF TasksInv
<1>1. t \in ReadyTasks /\ t \in Tasks
  BY MinInSet, TasksNat DEF StartAttempt, ReadyTasks
<1>2. /\ at = "schedule" /\ n <= MaxAttempts
      /\ attempts' = [attempts EXCEPT ![t] = n]
      /\ attemptStatus' = [attemptStatus EXCEPT ![<<t, n>>] = "running"]
      /\ taskStatus' = [taskStatus EXCEPT ![t] = "running"]
      /\ at' = "dispatch" /\ goal' = "dispatch" /\ current' = <<t, n>>
      /\ UNCHANGED <<taskCount, workOf, results>>
  BY DEF StartAttempt, GoTo
<1> HIDE DEF t
<1>3. /\ attempts \in [Tasks -> 0..MaxAttempts] /\ taskStatus \in [Tasks -> TaskStatuses]
      /\ attemptStatus \in [Slots -> AttemptStatuses] /\ taskCount \in Nat
      /\ MaxAttempts \in Nat /\ Tasks \subseteq Nat
  BY TasksNat, AttemptsAssumption DEF TypeInv, TypeOK, TaskTypeOK, AttemptTypeOK
<1>4. n \in 1..MaxAttempts /\ <<t, n>> \in Slots
  <2>1. attempts[t] \in Nat
    BY <1>1, <1>3
  <2>2. Resumes(t) => attempts[t] > 0
    BY DEF Resumes
  <2>3. n \in 1..MaxAttempts
    BY <1>2, <1>3, <2>1, <2>2
  <2>4. QED
    BY <1>1, <2>3 DEF Slots
<1>5. \A s \in Slots : ~Running(s) /\ ~HalfReceived(s)
  BY <1>2 DEF PointInv, Quiet
<1>6. \A s \in Slots : (Running(s)' => s = <<t, n>>) /\ ~HalfReceived(s)'
  BY <1>2, <1>3, <1>4, <1>5 DEF Running, HalfReceived
<1>7. AttemptInv'
  BY <1>1, <1>2, <1>3, <1>4, <1>6 DEF AttemptInv, OneRunningAttempt, Running
<1>8. PointInv'
  BY <1>1, <1>2, <1>3, <1>6 DEF PointInv, Quiet
<1>9. DependencyInv'
  <2>1. taskStatus[t] = "pending" /\ \A d \in Dependencies(t) : taskStatus[d] = "completed"
    BY <1>1 DEF ReadyTasks
  <2>2. \A u \in Tasks : Dependencies(u)' = Dependencies(u) /\ Dependencies(u) \subseteq Tasks
    BY <1>2, TasksAssumption DEF Dependencies
  <2>3. \A u \in Tasks : taskStatus[u] = "completed" => taskStatus'[u] = "completed"
    BY <1>2, <1>3, <2>1
  <2>4. \A u \in Tasks : u # t => attempts'[u] = attempts[u]
    BY <1>2, <1>3
  <2>5. DependenciesHold'
    BY <2>1, <2>2, <2>3, <2>4 DEF DependencyInv, DependenciesHold
  <2>6. ~(t > taskCount)
    BY <1>1, <2>1 DEF DependencyInv
  <2>7. QED
    BY <1>1, <1>2, <1>3, <1>6, <2>5, <2>6 DEF DependencyInv
<1>10. WaitingInv'
  BY <1>1, <1>2, <1>3, <1>4 DEF WaitingInv, Resumes, LastSlot, Slots
<1>11. QED
  BY <1>7, <1>8, <1>9, <1>10

\* What holds of an Attempt that ends or waits: its task leaves "running".  The
\* step touches the last Attempt of one task only.
LEMMA AttemptEnds ==
  ASSUME TypeInv, TasksInv, NEW slot \in Slots, slot[2] = attempts[slot[1]],
         NEW a \in AttemptStatuses \ {"running"}, NEW s \in TaskStatuses \ {"running", "absent"},
         attemptStatus' = [attemptStatus EXCEPT ![slot] = a],
         taskStatus' = [taskStatus EXCEPT ![slot[1]] = s],
         UNCHANGED <<taskCount, workOf, attempts, results>>,
         s = "needs_user_input" => a = "needs_user_input",
         s = "pending" => slot[2] < MaxAttempts,
         taskStatus[slot[1]] = "completed" => s = "completed",
         s = "completed" => results[slot] = "completed"
  PROVE  /\ AttemptInv' /\ DependencyInv' /\ WaitingInv'
         /\ \A q \in Slots : Running(q)' <=> Running(q) /\ q # slot
<1> USE DEF TasksInv
<1>1. /\ attempts \in [Tasks -> 0..MaxAttempts] /\ taskStatus \in [Tasks -> TaskStatuses]
      /\ attemptStatus \in [Slots -> AttemptStatuses] /\ taskCount \in Nat
      /\ MaxAttempts \in Nat /\ Tasks \subseteq Nat
  BY TasksNat, AttemptsAssumption DEF TypeInv, TypeOK, TaskTypeOK, AttemptTypeOK
<1>2. /\ \A q \in Slots : q[1] \in Tasks /\ q[2] \in 1..MaxAttempts /\ q = <<q[1], q[2]>>
      /\ attempts[slot[1]] > 0 /\ LastSlot(slot[1]) = slot
  BY <1>1, SlotTyped DEF LastSlot
<1>3. \A q \in Slots : q[1] = slot[1] /\ q[2] = attempts[q[1]] => q = slot
  BY <1>2
<1>4. \A q \in Slots : Running(q)' <=> Running(q) /\ q # slot
  BY <1>1 DEF Running
<1>5. AttemptInv'
  BY <1>1, <1>2, <1>3, <1>4 DEF AttemptInv, OneRunningAttempt, HalfReceived, Running
<1>6. DependencyInv'
  <2>1. \A u \in Tasks : Dependencies(u)' = Dependencies(u) /\ Dependencies(u) \subseteq Tasks
    BY TasksAssumption DEF Dependencies
  <2>2. \A u \in Tasks : taskStatus[u] = "completed" => taskStatus'[u] = "completed"
    BY <1>1, <1>2
  <2>3. DependenciesHold'
    BY <2>1, <2>2 DEF DependencyInv, DependenciesHold
  <2>4. ASSUME NEW q \in Slots, HalfReceived(q)', taskStatus'[q[1]] = "completed"
        PROVE  results'[q] = "completed"
    BY <1>1, <1>2, <1>3, <2>4 DEF DependencyInv, AttemptInv, HalfReceived
  <2>5. \A u \in Tasks : u > taskCount => taskStatus'[u] = "absent" /\ attempts[u] = 0
    BY <1>1, <1>2 DEF DependencyInv
  <2>6. QED
    BY <2>3, <2>4, <2>5 DEF DependencyInv
<1>7. WaitingInv'
  <2>1. ASSUME NEW u \in Tasks, u # slot[1]
        PROVE  taskStatus'[u] = taskStatus[u] /\ (Resumes(u) => Resumes(u)')
    <3>1. LastSlot(u) # slot /\ (attempts[u] > 0 => LastSlot(u) \in Slots)
      BY <1>2, <2>1, LastSlotTyped DEF LastSlot
    <3>2. QED
      BY <1>1, <2>1, <3>1 DEF Resumes, LastSlot
  <2>2. /\ taskStatus'[slot[1]] = s /\ attempts'[slot[1]] = slot[2]
        /\ Resumes(slot[1])' <=> a = "needs_user_input"
    BY <1>1, <1>2 DEF Resumes, LastSlot
  <2>3. QED
    BY <1>2, <2>1, <2>2 DEF WaitingInv
<1>8. QED
  BY <1>4, <1>5, <1>6, <1>7

\* A refused request ends the Attempt just started.
LEMMA RejectKeeps ==
  ASSUME TypeInv, TasksInv, RejectRequest
  PROVE  TasksInv'
<1>1. /\ at = "dispatch" /\ at' = "report" /\ goal' = "dispatch" /\ current' = current
      /\ attemptStatus' = [attemptStatus EXCEPT ![current] = "failed"]
      /\ taskStatus' = [taskStatus EXCEPT ![current[1]] = "failed"]
      /\ UNCHANGED <<taskCount, workOf, attempts, results>>
  BY DEF RejectRequest, GoTo
<1>2. /\ current \in Slots /\ current[2] = attempts[current[1]]
      /\ taskStatus[current[1]] = "running"
      /\ \A s \in Slots : ~HalfReceived(s) /\ (Running(s) => s = current)
  BY <1>1, CurrentTyped DEF TasksInv, PointInv, HandlesAttempt
<1>3. /\ "failed" \in AttemptStatuses \ {"running"}
      /\ "failed" \in TaskStatuses \ {"running", "absent"}
  BY DEF AttemptStatuses, TaskStatuses, TaskLost
<1>4. /\ AttemptInv' /\ DependencyInv' /\ WaitingInv'
      /\ \A q \in Slots : Running(q)' <=> Running(q) /\ q # current
  BY <1>1, <1>2, <1>3, AttemptEnds
<1>5. PointInv'
  BY <1>1, <1>2, <1>4 DEF PointInv, Quiet, HalfReceived
<1>6. QED
  BY <1>4, <1>5, StepsKeep

\* The Agent's answer is saved for the Attempt that runs.
LEMMA AnswerKeeps ==
  ASSUME TypeInv, TasksInv, AgentReturns
  PROVE  TasksInv'
<1> USE DEF TasksInv
<1>1. PICK r \in TaskResults : results' = [results EXCEPT ![current] = r]
  BY DEF AgentReturns
<1>2. /\ at = "agent" /\ at' = "received" /\ goal' = "dispatch" /\ current' = current
      /\ UNCHANGED <<taskCount, workOf, attempts, taskStatus, attemptStatus>>
  BY DEF AgentReturns, GoTo, taskVars
<1>3. /\ current \in Slots /\ current[2] = attempts[current[1]]
      /\ taskStatus[current[1]] = "running"
      /\ \A s \in Slots : ~HalfReceived(s) /\ (Running(s) => s = current)
  BY <1>2, CurrentTyped DEF PointInv, HandlesAttempt
<1>4. \A s \in Slots : HalfReceived(s)' => s = current
  BY <1>1, <1>3 DEF HalfReceived, TypeInv, TypeOK, AttemptTypeOK
<1>5. AttemptInv'
  BY <1>2, <1>3, <1>4 DEF AttemptInv, OneRunningAttempt, Running
<1>6. PointInv'
  BY <1>2, <1>3, <1>4 DEF PointInv, Quiet, Running
<1>7. DependencyInv'
  <2>1. \A u \in Tasks : Dependencies(u)' = Dependencies(u) /\ Dependencies(u) \subseteq Tasks
    BY <1>2, TasksAssumption DEF Dependencies
  <2>2. DependenciesHold'
    BY <1>2, <2>1 DEF DependencyInv, DependenciesHold
  <2>3. QED
    BY <1>2, <1>3, <1>4, <2>2 DEF DependencyInv
<1>8. WaitingInv'
  BY <1>2 DEF WaitingInv, Resumes, LastSlot
<1>9. QED
  BY <1>5, <1>6, <1>7, <1>8

-----------------------------------------------------------------------------
(* Receiving and recovering. *)

\* A saved result is of the last Attempt, and what it makes of the task agrees
\* with what an earlier, lost reception made of it.
LEMMA ApplyKeeps ==
  ASSUME TypeInv, TasksInv, NEW slot \in Slots, HalfReceived(slot),
         NEW caller \in {"dispatch", "reapply"}, ApplyResult(slot, caller),
         caller = "dispatch" => at = "received" /\ slot = current
  PROVE  TasksInv'
<1> DEFINE r == results[slot]
<1>1. r \in TaskResults /\ slot[1] \in Tasks /\ slot[2] = attempts[slot[1]]
  BY SlotTyped DEF HalfReceived, TypeInv, TypeOK, AttemptTypeOK, TasksInv, AttemptInv
<1>2. /\ AttemptStatusFor(r) \in AttemptStatuses \ {"running"}
      /\ TaskStatusFor(r, slot[2]) \in TaskStatuses \ {"running", "absent"}
      /\ TaskStatusFor(r, slot[2]) = "needs_user_input" =>
           AttemptStatusFor(r) = "needs_user_input"
      /\ TaskStatusFor(r, slot[2]) = "pending" => slot[2] < MaxAttempts
      /\ r = "completed" <=> TaskStatusFor(r, slot[2]) = "completed"
  BY <1>1 DEF TaskResults, AttemptStatusFor, TaskStatusFor, AttemptStatuses, AttemptOpen,
              TaskStatuses, TaskLive, TaskLost
<1>3. taskStatus[slot[1]] = "completed" => r = "completed"
  BY DEF TasksInv, DependencyInv
<1>4. /\ attemptStatus' = [attemptStatus EXCEPT ![slot] = AttemptStatusFor(r)]
      /\ taskStatus' = [taskStatus EXCEPT ![slot[1]] = TaskStatusFor(r, slot[2])]
      /\ UNCHANGED <<taskCount, workOf, attempts, results>>
      /\ at' \in {"report", "finish"} /\ goal' = caller /\ current' = slot
  BY DEF ApplyResult, GoTo
<1>5. /\ AttemptInv' /\ DependencyInv' /\ WaitingInv'
      /\ \A q \in Slots : Running(q)' <=> Running(q) /\ q # slot
  BY <1>1, <1>2, <1>3, <1>4, AttemptEnds
<1>6. PointInv'
  BY <1>4, <1>5 DEF TasksInv, PointInv, Quiet, HalfReceived
<1>7. QED
  BY <1>5, <1>6, StepsKeep

\* Binding the report and dropping the result change no Attempt.
LEMMA ReportKeeps ==
  ASSUME TypeInv, TasksInv, RegisterReport \/ AcknowledgeResult
  PROVE  TasksInv'
<1> USE DEF TasksInv
<1>1. /\ at \in {"report", "ack"} /\ current \in Slots
      /\ UNCHANGED <<taskCount, workOf, attempts, taskStatus, attemptStatus>>
  BY CurrentTyped DEF RegisterReport, AcknowledgeResult, taskVars, HandlesAttempt
<1>2. \A s \in Slots : results'[s] = results[s] \/ results'[s] = "none"
  BY <1>1 DEF RegisterReport, AcknowledgeResult, TypeInv, TypeOK, AttemptTypeOK
<1>3. \/ /\ at' \in {"ack", "finish"} /\ goal' = goal /\ current' = current
         /\ at' = "finish" => goal \in {"dispatch", "reapply"}
      \/ at' = "recover"
      \/ at' = "cancelling" /\ goal' = goal /\ goal # "dispatch"
  BY DEF RegisterReport, AcknowledgeResult, GoTo
<1>4. AttemptInv'
  BY <1>1, <1>2 DEF AttemptInv, OneRunningAttempt, Running, HalfReceived
<1>5. PointInv'
  BY <1>1, <1>2, <1>3 DEF PointInv, Quiet, Running, HalfReceived
<1>6. DependencyInv'
  <2>1. \A u \in Tasks : Dependencies(u)' = Dependencies(u) /\ Dependencies(u) \subseteq Tasks
    BY <1>1, TasksAssumption DEF Dependencies
  <2>2. DependenciesHold'
    BY <1>1, <2>1 DEF DependencyInv, DependenciesHold
  <2>3. QED
    BY <1>1, <1>2, <2>2 DEF DependencyInv, HalfReceived
<1>7. WaitingInv'
  BY <1>1 DEF WaitingInv, Resumes, LastSlot
<1>8. QED
  BY <1>4, <1>5, <1>6, <1>7

\* After the result is dropped nothing runs, unless recovery goes on.
LEMMA FinishKeeps ==
  ASSUME TypeInv, TasksInv, FinishResult
  PROVE  TasksInv'
<1>1. /\ at = "finish" /\ results' = [results EXCEPT ![current] = "none"]
      /\ UNCHANGED <<taskCount, workOf, attempts, attemptStatus>>
      /\ at' = IF goal = "reapply" THEN "recover" ELSE "schedule"
  BY DEF FinishResult, Continue, GoTo
<1>2. \A s \in Slots : results'[s] = results[s] \/ results'[s] = "none"
  BY <1>1 DEF TypeInv, TypeOK, AttemptTypeOK
<1>3. goal \in {"dispatch", "reapply"} /\ current \in Slots
  BY <1>1, CurrentTyped DEF TasksInv, PointInv, HandlesAttempt
<1>4. at' \in Quiet => \A s \in Slots : ~Running(s) /\ results'[s] = "none"
  BY <1>1, <1>2, <1>3 DEF TasksInv, PointInv, Quiet, HalfReceived, TypeInv, TypeOK, AttemptTypeOK
<1>5. \A t \in Tasks : Moves(t)
  BY EvaluationMoves DEF FinishResult, Moves
<1>6. QED
  BY <1>1, <1>2, <1>4, <1>5, TasksMove DEF HandlesAttempt

\* Recovery takes up an Attempt whose report or acknowledgement is missing.
LEMMA ResumedReportKeeps ==
  ASSUME TypeInv, TasksInv, RecoverAcknowledgement \/ RecoverReport
  PROVE  TasksInv'
<1> USE DEF TasksInv
<1>1. /\ at' \in {"ack", "report"} /\ goal' = "recover"
      /\ UNCHANGED <<taskCount, workOf, attempts, taskStatus, attemptStatus, results>>
  BY DEF RecoverAcknowledgement, RecoverReport, GoTo, durable, taskVars, attemptVars
<1>2. AttemptInv' /\ WaitingInv'
  BY <1>1 DEF AttemptInv, OneRunningAttempt, Running, HalfReceived, WaitingInv, Resumes, LastSlot
<1>3. PointInv'
  BY <1>1 DEF PointInv, Quiet
<1>4. DependencyInv'
  <2>1. \A u \in Tasks : Dependencies(u)' = Dependencies(u) /\ Dependencies(u) \subseteq Tasks
    BY <1>1, TasksAssumption DEF Dependencies
  <2>2. DependenciesHold'
    BY <1>1, <2>1 DEF DependencyInv, DependenciesHold
  <2>3. QED
    BY <1>1, <2>2 DEF DependencyInv, HalfReceived
<1>5. QED
  BY <1>2, <1>3, <1>4

\* A lost Attempt was the last of its task, which may be tried again if it has
\* Attempts left.
LEMMA LostKeeps ==
  ASSUME TypeInv, TasksInv, RecoverLostAttempt
  PROVE  TasksInv'
<1> DEFINE t == NextTask
           s == TaskStatusFor("retryable", attempts[t])
<1>1. /\ LeftTasks # {} /\ LeftOver(t) = {} /\ at' = "report" /\ goal' = "recover"
      /\ attemptStatus' = [attemptStatus EXCEPT ![LastSlot(t)] = "failed"]
      /\ taskStatus' = [taskStatus EXCEPT ![t] = s]
      /\ UNCHANGED <<taskCount, workOf, attempts, results>>
  BY DEF RecoverLostAttempt, GoTo
<1>2. t \in Tasks /\ taskStatus[t] = "running"
  BY <1>1, NextTaskTyped DEF LeftTasks
<1>3. /\ LastSlot(t) \in Slots /\ LastSlot(t)[1] = t /\ LastSlot(t)[2] = attempts[t]
  BY <1>2, LastSlotTyped DEF TypeInv, StartedOK, LastSlot
<1>4. /\ s \in {"pending", "failed"}
      /\ s = "pending" => attempts[t] < MaxAttempts
      /\ s \in TaskStatuses \ {"running", "absent"}
      /\ "failed" \in AttemptStatuses \ {"running"}
  BY DEF TaskStatusFor, TaskStatuses, TaskLive, TaskLost, AttemptStatuses
<1>5. AttemptInv' /\ DependencyInv' /\ WaitingInv'
  <2> DEFINE slot == LastSlot(t)
  <2>1. /\ slot \in Slots /\ slot[1] = t /\ slot[2] = attempts[slot[1]]
        /\ taskStatus[slot[1]] = "running"
    BY <1>2, <1>3
  <2>2. /\ attemptStatus' = [attemptStatus EXCEPT ![slot] = "failed"]
        /\ taskStatus' = [taskStatus EXCEPT ![slot[1]] = s]
    BY <1>1, <2>1
  <2>3. s = "pending" => slot[2] < MaxAttempts
    BY <1>4, <2>1
  <2> HIDE DEF slot, t, s
  <2>4. QED
    BY <1>1, <1>4, <2>1, <2>2, <2>3, AttemptEnds
<1>6. PointInv'
  BY <1>1 DEF PointInv, Quiet
<1>7. QED
  BY <1>5, <1>6, StepsKeep

-----------------------------------------------------------------------------
(* The steps that change Attempts from outside the scheduler. *)

\* Every open Attempt of a cancelled task was cancelled before it, in order.
LEMMA CancelAttemptKeeps ==
  ASSUME TypeInv, TasksInv, CancelAttempt
  PROVE  TasksInv'
<1> DEFINE t == Min(OpenTasks)
<1> USE DEF TasksInv
<1>1. /\ OpenTasks # {} /\ at = "cancelling" /\ at' = "report" /\ goal' = goal
      /\ taskStatus' = [u \in Tasks |-> IF u \in LiveTasks /\ u <= t THEN "cancelled"
                                        ELSE taskStatus[u]]
      /\ attemptStatus' = [attemptStatus EXCEPT ![LastSlot(t)] = "cancelled"]
      /\ UNCHANGED <<taskCount, workOf, attempts, results>>
  BY DEF CancelAttempt, GoTo
<1>2. t \in OpenTasks /\ t \in Tasks /\ \A u \in OpenTasks : t <= u
  BY <1>1, MinInSet, TasksNat DEF OpenTasks, LiveTasks
<1> HIDE DEF t
<1>3. LastSlot(t) \in Slots
  BY <1>2, LastSlotTyped DEF OpenTasks
<1>4. /\ LastSlot(t)[1] = t /\ LastSlot(t)[2] = attempts[t]
      /\ \A q \in Slots : /\ q[1] \in Tasks /\ q[2] \in 1..MaxAttempts
                          /\ q[2] = attempts[q[1]] => q = LastSlot(q[1])
  BY SlotTyped DEF LastSlot
<1>5. /\ attempts \in [Tasks -> 0..MaxAttempts] /\ taskStatus \in [Tasks -> TaskStatuses]
      /\ attemptStatus \in [Slots -> AttemptStatuses] /\ taskCount \in Nat
      /\ MaxAttempts \in Nat /\ Tasks \subseteq Nat
  BY TasksNat, AttemptsAssumption DEF TypeInv, TypeOK, TaskTypeOK, AttemptTypeOK
<1>6. \A q \in Slots : Running(q)' <=> Running(q) /\ q # LastSlot(t)
  BY <1>1, <1>3, <1>5 DEF Running
<1>7. ASSUME NEW q \in Slots, Running(q)'
      PROVE  q[2] = attempts'[q[1]] /\ taskStatus'[q[1]] = "running"
  <2>1. Running(q) /\ q # LastSlot(t) /\ q[2] = attempts[q[1]] /\ q = LastSlot(q[1])
    BY <1>4, <1>6, <1>7 DEF AttemptInv
  <2>2. q[1] \in LiveTasks => q[1] \in OpenTasks
    BY <1>4, <1>5, <2>1 DEF OpenTasks, Running, AttemptOpen
  <2>3. ~(q[1] \in LiveTasks /\ q[1] <= t)
    <3> SUFFICES ASSUME q[1] \in LiveTasks, q[1] <= t PROVE FALSE
      OBVIOUS
    <3>1. t <= q[1]
      BY <1>2, <2>2
    <3>2. q[1] = t
      <4>1. q[1] \in Nat /\ t \in Nat
        BY <1>2, <1>4, <1>5
      <4>2. QED
        BY <3>1, <4>1
    <3>3. QED
      BY <2>1, <3>2 DEF LastSlot
  <2>4. taskStatus'[q[1]] = taskStatus[q[1]]
    BY <1>1, <1>4, <2>3
  <2>5. QED
    BY <1>1, <1>7, <2>1, <2>4 DEF AttemptInv
<1>8. AttemptInv'
  BY <1>1, <1>6, <1>7 DEF AttemptInv, OneRunningAttempt, HalfReceived, Running
<1>9. PointInv'
  BY <1>1 DEF PointInv, Quiet
<1>10. \A u \in Tasks : \/ taskStatus'[u] = taskStatus[u]
                        \/ taskStatus[u] \in TaskLive /\ taskStatus'[u] = "cancelled"
  BY <1>1 DEF LiveTasks
<1>11. DependencyInv'
  <2>1. \A u \in Tasks : Dependencies(u)' = Dependencies(u) /\ Dependencies(u) \subseteq Tasks
    BY <1>1, TasksAssumption DEF Dependencies
  <2>2. \A u \in Tasks : /\ taskStatus[u] = "completed" <=> taskStatus'[u] = "completed"
                         /\ taskStatus[u] = "absent" => taskStatus'[u] = "absent"
    BY <1>10 DEF TaskLive
  <2>3. DependenciesHold'
    BY <1>1, <2>1, <2>2 DEF DependencyInv, DependenciesHold
  <2>4. QED
    BY <1>1, <1>4, <2>2, <2>3 DEF DependencyInv, HalfReceived
<1>12. WaitingInv'
  <2>1. ASSUME NEW u \in Tasks, taskStatus'[u] \in {"pending", "needs_user_input"}
        PROVE  taskStatus[u] = taskStatus'[u] /\ (Resumes(u) => Resumes(u)')
    <3>1. u # t
      BY <1>1, <1>2, <1>5, <2>1 DEF OpenTasks
    <3>2. LastSlot(u) # LastSlot(t) /\ (attempts[u] > 0 => LastSlot(u) \in Slots)
      BY <3>1, LastSlotTyped DEF LastSlot
    <3>3. QED
      BY <1>1, <1>5, <1>10, <2>1, <3>2 DEF Resumes, LastSlot
  <2>2. QED
    BY <1>1, <2>1 DEF WaitingInv
<1>13. QED
  BY <1>8, <1>9, <1>11, <1>12

\* The new tasks are beyond those that have a past, and the work they belong to
\* had none: nobody's dependencies change.
LEMMA AcceptKeeps ==
  ASSUME TypeInv, TasksInv, ProposalAcceptedOnce, AcceptTasks
  PROVE  TasksInv'
<1> DEFINE new == (taskCount + 1)..(taskCount + compiled)
<1> USE DEF TasksInv
<1>1. PICK w \in LiveWorks :
        /\ workOf' = [t \in Tasks |-> IF t \in new THEN w ELSE workOf[t]]
        /\ taskStatus' = [t \in Tasks |-> IF t \in new THEN "pending" ELSE taskStatus[t]]
        /\ taskCount' = taskCount + compiled
  BY DEF AcceptTasks
<1>2. /\ at = "accept" /\ at' = "accepted" /\ UNCHANGED <<attempts, attemptStatus, results>>
  BY DEF AcceptTasks, Continue, GoTo, attemptVars
<1>3. /\ taskCount \in Nat /\ compiled \in Nat /\ Tasks \subseteq Nat
      /\ taskStatus \in [Tasks -> TaskStatuses] /\ attempts \in [Tasks -> 0..MaxAttempts]
      /\ MaxAttempts \in Nat \ {0}
  BY TasksNat, AttemptsAssumption DEF TypeInv, TypeOK, TaskTypeOK, WorkTypeOK
<1>4. \A s \in Slots : ~Running(s) /\ ~HalfReceived(s)
  BY <1>2 DEF PointInv, Quiet
<1>5. \A s \in Slots : ~Running(s)' /\ ~HalfReceived(s)'
  BY <1>2, <1>4 DEF Running, HalfReceived
<1>6. AttemptInv' /\ PointInv'
  BY <1>2, <1>5 DEF AttemptInv, OneRunningAttempt, Running, PointInv
<1>7. \A t \in Tasks : t \in new => attempts[t] = 0 /\ taskStatus[t] = "absent"
  BY <1>3 DEF DependencyInv
<1>8. \A t \in Tasks : workOf[t] # w
  BY <1>1, <1>2 DEF ProposalAcceptedOnce, TasksOf
<1>9. DependencyInv'
  <2>1. ASSUME NEW t \in Tasks, attempts'[t] > 0
        PROVE  \A d \in Dependencies(t)' : taskStatus'[d] = "completed"
    <3>1. t \notin new /\ attempts[t] > 0
      BY <1>2, <1>3, <1>7, <2>1
    <3>2. workOf'[t] = workOf[t] /\ workOf[t] # w
      BY <1>1, <1>8, <3>1
    <3>3. ASSUME NEW d \in Dependencies(t)'
          PROVE  taskStatus'[d] = "completed"
      <4>1. d \in Tasks /\ d \in DependsOn[t] /\ workOf'[d] = workOf'[t]
        BY <3>3, TasksAssumption DEF Dependencies
      <4>2. d \notin new
        BY <1>1, <3>2, <4>1
      <4>3. d \in Dependencies(t)
        BY <1>1, <3>2, <4>1, <4>2 DEF Dependencies
      <4>4. taskStatus[d] = "completed"
        BY <3>1, <4>3 DEF DependencyInv, DependenciesHold
      <4>5. QED
        BY <1>1, <4>1, <4>2, <4>4
    <3>4. QED
      BY <3>3
  <2>2. \A t \in Tasks : t > taskCount' => taskStatus'[t] = "absent" /\ attempts'[t] = 0
    BY <1>1, <1>2, <1>3 DEF DependencyInv
  <2>3. QED
    BY <1>5, <2>1, <2>2 DEF DependencyInv, DependenciesHold
<1>10. WaitingInv'
  BY <1>1, <1>2, <1>3, <1>7 DEF WaitingInv, Resumes, LastSlot
<1>11. QED
  BY <1>6, <1>9, <1>10

\* When no Attempt is open any more, the live tasks and works are cancelled.
LEMMA CancelWorkKeeps ==
  ASSUME TypeInv, TasksInv, FinishPause \/ FinishAbandon
  PROVE  TasksInv'
<1>1. /\ OpenTasks = {} /\ CancelWork /\ at' \in {"idle", "advance"}
  BY DEF FinishPause, FinishAbandon, CancelledAll, Return, Continue, GoTo
<1>2. \A t \in Tasks : Moves(t)
  <2>1. ASSUME NEW t \in LiveTasks, taskStatus[t] = "running"
        PROVE  ~Running(LastSlot(t))
    BY <1>1, <2>1 DEF OpenTasks, LiveTasks, TypeInv, StartedOK, Running, AttemptOpen
  <2>2. QED
    BY <1>1, <2>1 DEF CancelWork, Moves, LiveTasks
<1>3. QED
  BY <1>1, <1>2, TasksMove DEF CancelWork, attemptVars, HandlesAttempt, Quiet

-----------------------------------------------------------------------------
(* Every step. *)

\* The scheduler's own steps keep the invariant.
LEMMA TasksSchedulerStep ==
  ASSUME TypeInv, TasksInv, SchedulerStep
  PROVE  TasksInv'
<1>1. CASE \/ ScheduleReturns \/ ScheduleCancelled \/ DispatchCancelled
           \/ AgentCancelled \/ AgentUnstopped \/ RecoverRaises
  BY <1>1, SameTasks
     DEF ScheduleReturns, BackToController, ScheduleCancelled, DispatchCancelled,
         AgentCancelled, AgentUnstopped, RecoverRaises, Continue, GoTo, Return, durable,
         HandlesAttempt, Quiet
<1>2. CASE ScheduleSettles
  <2>1. /\ at = "schedule" /\ at' \in {"pausing", "advance"} /\ EvaluateRun
        /\ UNCHANGED <<taskCount, workOf, attempts, attemptStatus, results>>
    BY <1>2 DEF ScheduleSettles, BackToController, Continue, GoTo, attemptVars
  <2>2. QED
    BY <2>1, EvaluationMoves, TasksMove DEF HandlesAttempt, Quiet
<1>3. CASE StartAttempt
  BY <1>3, StartKeeps
<1>4. CASE RejectRequest
  BY <1>4, RejectKeeps
<1>5. CASE DispatchAgent
  <2>1. /\ at = "dispatch" /\ at' = "agent" /\ current' = current /\ UNCHANGED taskVars
        /\ UNCHANGED attemptVars
    BY <1>5 DEF DispatchAgent, GoTo
  <2>2. AttemptInv' /\ WaitingInv'
    BY <2>1 DEF TasksInv, AttemptInv, OneRunningAttempt, Running, HalfReceived, WaitingInv,
                Resumes, LastSlot, taskVars, attemptVars
  <2>3. PointInv'
    BY <2>1 DEF TasksInv, PointInv, Running, HalfReceived, Quiet, taskVars, attemptVars
  <2>4. DependencyInv'
    BY <2>1 DEF TasksInv, DependencyInv, DependenciesHold, Dependencies, HalfReceived,
                taskVars, attemptVars
  <2>5. QED
    BY <2>2, <2>3, <2>4, StepsKeep
<1>6. CASE AgentReturns
  BY <1>6, AnswerKeeps
<1>7. CASE ReceiveResult
  <2>1. at = "received" /\ ApplyResult(current, "dispatch")
    BY <1>7 DEF ReceiveResult
  <2>2. current \in Slots /\ HalfReceived(current)
    BY <2>1 DEF TypeInv, PointOK, HandlesAttempt, HalfReceived
  <2>3. QED
    BY <2>1, <2>2, ApplyKeeps
<1>8. CASE RecoverResult
  <2>1. /\ ApplyResult(NextLeftOver, "reapply") /\ HalfReceived(NextLeftOver)
        /\ NextLeftOver \in Slots
    BY <1>8, NextLeftOverTyped DEF RecoverResult
  <2>2. QED
    BY <2>1, ApplyKeeps
<1>9. CASE RegisterReport \/ AcknowledgeResult
  BY <1>9, ReportKeeps
<1>10. CASE FinishResult
  BY <1>10, FinishKeeps
<1>11. CASE RecoverAcknowledgement \/ RecoverReport
  BY <1>11, ResumedReportKeeps
<1>12. CASE RecoverLostAttempt
  BY <1>12, LostKeeps
<1>13. CASE RecoverEnds
  <2>1. /\ at' = "advance" /\ EvaluateRun
        /\ UNCHANGED <<taskCount, workOf, attempts, attemptStatus, results>>
    BY <1>13 DEF RecoverEnds, Continue, GoTo, attemptVars
  <2>2. QED
    BY <2>1, EvaluationMoves, TasksMove DEF HandlesAttempt, Quiet
<1>14. CASE NothingToRecover
  <2>1. LeftTasks = {} /\ at' = "checks" /\ UNCHANGED <<taskVars, attemptVars>>
    BY <1>14 DEF NothingToRecover, Continue, GoTo, durable
  <2>2. ASSUME NEW s \in Slots PROVE ~Running(s) /\ ~HalfReceived(s)
    <3>1. s[1] \in Tasks /\ s[2] \in 1..MaxAttempts /\ s = <<s[1], s[2]>>
      BY SlotTyped
    <3>2. LeftOver(s[1]) = {} /\ taskStatus[s[1]] # "running"
      BY <2>1, <3>1 DEF LeftTasks
    <3>3. HalfReceived(s) => s[2] \in LeftOver(s[1])
      BY <3>1 DEF LeftOver, TasksInv, AttemptInv
    <3>4. QED
      BY <3>2, <3>3 DEF TasksInv, AttemptInv
  <2>3. QED
    BY <2>1, <2>2, TasksMove DEF Moves, taskVars, attemptVars, HandlesAttempt, HalfReceived
<1>15. QED
  BY <1>1, <1>2, <1>3, <1>4, <1>5, <1>6, <1>7, <1>8, <1>9, <1>10, <1>11, <1>12, <1>13, <1>14
     DEF SchedulerStep

\* So do the controller's.
LEMMA TasksOwnerStep ==
  ASSUME TypeInv, TasksInv, ProposalAcceptedOnce, OwnerStep
  PROVE  TasksInv'
<1> USE DEF Continue, GoTo, Return, HandlesAttempt, Quiet
<1>1. CASE AdvanceReturns \/ AdvanceConsumes \/ AdvanceFails \/ ResumeTurn \/ InvokeScientific
  BY <1>1, SameTasks DEF AdvanceReturns, AdvanceConsumes, AdvanceFails, ResumeTurn,
                         InvokeScientific, MayInvoke, durable
<1>2. CASE DriveExecuting \/ DriveAccepted \/ NoTaskSlots \/ StartCompilation
  BY <1>2, SameTasks DEF DriveExecuting, DriveAccepted, NoTaskSlots, StartCompilation,
                         NeedsCompilation, MayInvoke, FailWork, durable
<1>3. CASE Compile \/ CompileCancelled \/ WorkRejected \/ CompileExhausted \/ StartExecution
  BY <1>3, SameTasks DEF Compile, CompileCancelled, WorkRejected, CompileExhausted,
                         StartExecution, FailWork, durable
<1>4. CASE AcceptTasks
  BY <1>4, AcceptKeeps
<1>5. CASE ScientificReturns \/ ScientificCancelled
  BY <1>5, SameTasks DEF ScientificReturns, ScientificCancelled, durable
<1>6. CASE \/ DeferCompletion \/ ValidateCompletion \/ DeferUnderFence \/ FinishDefer
           \/ CompleteRun \/ RejectCompletion
  BY <1>6, SameTasks DEF DeferCompletion, ValidateCompletion, DeferUnderFence, FinishDefer,
                         CompleteRun, RejectCompletion, durable
<1>7. CASE RequestWork \/ Abandon \/ AskUser \/ YieldTurn \/ FailTurn
  BY <1>7, SameTasks DEF RequestWork, Abandon, AskUser, YieldTurn, FailTurn, durable
<1>8. CASE Reply
  <2>1. /\ at' = "advance" /\ UNCHANGED <<taskCount, workOf, attempts, attemptVars>>
        /\ \A t \in Tasks : Moves(t)
    BY <1>8 DEF Reply, Moves
  <2>2. QED
    BY <2>1, TasksMove DEF attemptVars
<1>9. CASE PauseConsumes \/ CancelRaises
  BY <1>9, SameTasks DEF PauseConsumes, CancelRaises
<1>10. CASE CancelAttempt
  BY <1>10, CancelAttemptKeeps
<1>11. CASE FinishPause \/ FinishAbandon
  BY <1>11, CancelWorkKeeps
<1>12. CASE SchedulerStep
  BY <1>12, TasksSchedulerStep
<1>13. QED
  BY <1>1, <1>2, <1>3, <1>4, <1>5, <1>6, <1>7, <1>8, <1>9, <1>10, <1>11, <1>12 DEF OwnerStep

\* And the user's, the clock's and a crash, which only move the owner away.
LEMMA TasksEnvironment ==
  ASSUME TypeInv, TasksInv, Environment
  PROVE  TasksInv'
<1>1. CASE Resume \/ Crash
  BY <1>1, SameTasks DEF Resume, Crash, Continue, GoTo, Return, HandlesAttempt, Quiet, durable
<1>2. CASE Answer
  <2>1. /\ at' = "advance" /\ UNCHANGED <<taskCount, workOf, attempts, attemptVars>>
        /\ \A t \in Tasks : Moves(t)
    BY <1>2 DEF Answer, Moves, Continue, GoTo, TypeInv, TypeOK, TaskTypeOK
  <2>2. QED
    BY <2>1, TasksMove DEF attemptVars, HandlesAttempt, Quiet
<1>3. CASE Submit \/ Watch \/ Expire
  <2>1. UNCHANGED <<taskVars, attemptVars, at, goal, current>>
    BY <1>3 DEF Submit, Watch, Expire, durable, ownerVars
  <2>2. QED
    BY <2>1, UnmovedKeeps
<1>4. QED
  BY <1>1, <1>2, <1>3 DEF Environment

\* Hence it is inductive, given what is known of proposals.
LEMMA TasksNext ==
  TypeInv /\ TasksInv /\ ProposalAcceptedOnce /\ [Next]_vars => TasksInv'
<1> SUFFICES ASSUME TypeInv, TasksInv, ProposalAcceptedOnce, [Next]_vars PROVE TasksInv'
  OBVIOUS
<1>1. CASE OwnerStep
  BY <1>1, TasksOwnerStep
<1>2. CASE Environment
  BY <1>2, TasksEnvironment
<1>3. CASE UNCHANGED vars
  <2>1. UNCHANGED <<taskVars, attemptVars, at, goal, current>>
    BY <1>3 DEF vars, durable, ownerVars
  <2>2. QED
    BY <2>1, UnmovedKeeps
<1>4. QED
  BY <1>1, <1>2, <1>3 DEF Next

\* A created Run has neither tasks nor Attempts.
LEMMA TasksInit == Init => TasksInv
<1> SUFFICES ASSUME Init PROVE TasksInv
  OBVIOUS
<1>1. \A s \in Slots : ~Running(s) /\ ~HalfReceived(s)
  BY DEF Init, Running, HalfReceived
<1>2. QED
  BY <1>1 DEF Init, TasksInv, AttemptInv, PointInv, DependencyInv, WaitingInv, Quiet,
              OneRunningAttempt, Running, HalfReceived, DependenciesHold

\* It holds whatever the turns, results, records and crashes.
LEMMA TasksAlways == Spec => [](TypeInv /\ TasksInv)
<1>1. Spec => []TypeInv
  BY InitTyped, NextTyped, PTL DEF Spec
<1>2. Spec => []ProposalAcceptedOnce
  BY AcceptedOnce
<1>3. QED
  BY <1>1, <1>2, TasksInit, TasksNext, PTL DEF Spec

-----------------------------------------------------------------------------
(* What it is for. *)

\* At most one Agent runs, also after owners died and their Attempts were
\* recovered.
THEOREM RunsOneAttempt == Spec => []OneRunningAttempt
<1>1. TypeInv /\ TasksInv => OneRunningAttempt
  BY DEF TasksInv, AttemptInv
<1>2. QED
  BY <1>1, TasksAlways, PTL

\* No task is attempted before what it depends on completed, and no result
\* received twice takes that completion back.
THEOREM RespectsDependencies == Spec => []DependenciesHold
<1>1. TypeInv /\ TasksInv => DependenciesHold
  BY DEF TasksInv, DependencyInv
<1>2. QED
  BY <1>1, TasksAlways, PTL

\* execute_task never raises for want of an Attempt, however many were lost.
THEOREM StartsWhatIsReady == Spec => []ReadyTasksCanStart
<1>1. TypeInv /\ TasksInv => ReadyTasksCanStart
  BY DEF TasksInv, WaitingInv, ReadyTasksCanStart, ReadyTasks
<1>2. QED
  BY <1>1, TasksAlways, PTL

\* The three together, which one inductive invariant gives: an Attempt is started in
\* order and alone because a lost one is settled before anything is scheduled.
THEOREM AttemptsInOrder == Spec => []TasksInOrder
<1>1. QED
  BY RunsOneAttempt, RespectsDependencies, StartsWhatIsReady, PTL DEF TasksInOrder

-----------------------------------------------------------------------------
(* Completion.  A completed Run has no owner, so nothing touches it again.   *)

SettledInv ==
  CompletedRunSettled /\ (status = "completed" => at = "idle")

\* A step that leaves a Run not completed, or a completed one as it was.
LEMMA SettledUnless ==
  ASSUME SettledInv,
         \/ status' # "completed"
         \/ UNCHANGED <<status, inbox, consumed, question, childQuestions, workStatus,
                        taskStatus, results, at>>
  PROVE  SettledInv'
  BY DEF SettledInv, CompletedRunSettled

\* Only CompleteRun completes, and it looked at all of it under the fence.
LEMMA CompletionSettles ==
  ASSUME TypeInv, TasksInv, CompleteRun
  PROVE  SettledInv'
<1>1. /\ at = "settle" /\ PendingControls = {} /\ ~ControlActive
      /\ workStatus' = Consume(workStatus)
      /\ UNCHANGED <<inbox, consumed, question, childQuestions, taskStatus, results>>
      /\ at' = "idle"
  BY DEF CompleteRun, CommitTurn, Return, questionVars, taskVars, attemptVars
<1>2. consumed = Len(inbox)
  <2>1. consumed \in 0..Len(inbox) /\ Len(inbox) \in Nat
    BY DEF TypeInv, TypeOK, ControlTypeOK
  <2>2. consumed + 1 \notin (consumed + 1)..Len(inbox)
    BY <1>1 DEF PendingControls
  <2>3. QED
    BY <2>1, <2>2
<1>3. \A w \in Works : workStatus'[w] \notin WorkActive
  <2>1. \A w \in Works : workStatus[w] \notin WorkLive
    BY <1>1 DEF ControlActive
  <2>2. \A w \in Works :
          workStatus'[w] = IF workStatus[w] = "stable" THEN "consumed" ELSE workStatus[w]
    BY <1>1 DEF Consume
  <2>3. QED
    BY <2>1, <2>2 DEF WorkActive, WorkLive
<1>4. \A s \in Slots : results[s] = "none"
  BY <1>1 DEF TasksInv, PointInv, Quiet, HalfReceived
<1>5. QED
  BY <1>1, <1>2, <1>3, <1>4 DEF SettledInv, CompletedRunSettled, ControlActive

\* The scheduler runs, pauses or fails the Run, and never completes it.
LEMMA SettledSchedulerStep ==
  ASSUME SettledInv, SchedulerStep
  PROVE  SettledInv'
<1>1. at # "idle"
  BY DEF SchedulerStep, ScheduleReturns, ScheduleCancelled, ScheduleSettles, StartAttempt,
         RejectRequest, DispatchAgent, DispatchCancelled, AgentReturns, AgentCancelled,
         AgentUnstopped, ReceiveResult, RecoverResult, RegisterReport, RecoversAttempt,
         AcknowledgeResult, FinishResult, RecoverRaises, RecoverAcknowledgement,
         RecoverReport, RecoverLostAttempt, RecoverEnds, NothingToRecover
<1>2. status # "completed"
  BY <1>1 DEF SettledInv
<1>3. status' \in {status, "running", "paused", "failed"}
  BY DEF SchedulerStep, ScheduleReturns, ScheduleCancelled, ScheduleSettles, StartAttempt,
         RejectRequest, DispatchAgent, DispatchCancelled, AgentReturns, AgentCancelled,
         AgentUnstopped, ReceiveResult, RecoverResult, ApplyResult, RegisterReport,
         AcknowledgeResult, FinishResult, RecoverRaises, RecoverAcknowledgement,
         RecoverReport, RecoverLostAttempt, RecoverEnds, NothingToRecover, EvaluateRun,
         FailRun, durable, runVars
<1>4. QED
  BY <1>2, <1>3, SettledUnless

\* Every step of a Run that is not completed either completes it properly or not at all.
LEMMA SettledOwnerStep ==
  ASSUME TypeInv, TasksInv, SettledInv, OwnerStep
  PROVE  SettledInv'
<1>1. CASE CompleteRun
  BY <1>1, CompletionSettles
<1>2. CASE SchedulerStep
  BY <1>2, SettledSchedulerStep
<1>3. CASE /\ ~CompleteRun /\ ~SchedulerStep
  <2>1. at # "idle"
    BY <1>3 DEF OwnerStep, AdvanceReturns, AdvanceConsumes, AdvanceFails, ResumeTurn,
         InvokeScientific, MayInvoke, DriveExecuting, DriveAccepted, NoTaskSlots,
         NeedsCompilation, StartCompilation, Compile, CompileCancelled, WorkRejected,
         CompileExhausted, AcceptTasks, StartExecution, ScientificReturns,
         ScientificCancelled, DeferCompletion, ValidateCompletion, DeferUnderFence,
         FinishDefer, RejectCompletion, RequestWork, Reply, Abandon, AskUser, YieldTurn,
         FailTurn, PauseConsumes, CancelAttempt, FinishPause, FinishAbandon, CancelledAll,
         CancelRaises
  <2>2. status' \in {status, "running", "paused", "failed"}
    BY <1>3 DEF OwnerStep, AdvanceReturns, AdvanceConsumes, AdvanceFails, ResumeTurn,
         InvokeScientific, DriveExecuting, DriveAccepted, NoTaskSlots, StartCompilation,
         Compile, CompileCancelled, WorkRejected, CompileExhausted, AcceptTasks,
         StartExecution, ScientificReturns, ScientificCancelled, DeferCompletion,
         ValidateCompletion, DeferUnderFence, FinishDefer, RejectCompletion, RequestWork,
         Reply, Abandon, AskUser, YieldTurn, FailTurn, PauseConsumes, CancelAttempt,
         FinishPause, FinishAbandon, CancelRaises, FailRun, durable, runVars
  <2>3. QED
    BY <2>1, <2>2, SettledUnless DEF SettledInv
<1>4. QED
  BY <1>1, <1>2, <1>3

\* A Run completes with no question, work, task, saved result or unread record,
\* and stays so.
THEOREM CompletesSettled == Spec => []CompletedRunSettled
<1>1. Init => SettledInv
  BY DEF Init, SettledInv, CompletedRunSettled
<1>2. TypeInv /\ TasksInv /\ SettledInv /\ [Next]_vars => SettledInv'
  <2> SUFFICES ASSUME TypeInv, TasksInv, SettledInv, [Next]_vars PROVE SettledInv'
    OBVIOUS
  <2>1. CASE OwnerStep
    BY <2>1, SettledOwnerStep
  <2>2. CASE Environment
    <3>1. CASE Submit \/ Resume \/ Expire
      <4>1. status # "completed" /\ status' \in {status, "running"}
        BY <3>1 DEF Submit, Resume, Expire, RunTerminal, runVars
      <4>2. QED
        BY <4>1, SettledUnless
    <3>2. CASE Answer
      <4>1. status' = "running"
        BY <3>2 DEF Answer
      <4>2. QED
        BY <4>1, SettledUnless
    <3>3. CASE Watch \/ Crash
      <4>1. at # "idle" /\ UNCHANGED status
        BY <3>3 DEF Watch, Crash, durable, runVars
      <4>2. QED
        BY <4>1, SettledUnless DEF SettledInv
    <3>4. QED
      BY <2>2, <3>1, <3>2, <3>3 DEF Environment
  <2>3. CASE UNCHANGED vars
    BY <2>3, SettledUnless DEF vars, durable, runVars, workVars, taskVars, attemptVars,
                               questionVars, controlVars, ownerVars
  <2>4. QED
    BY <2>1, <2>2, <2>3 DEF Next
<1>3. SettledInv => CompletedRunSettled
  BY DEF SettledInv
<1>4. QED
  BY <1>1, <1>2, <1>3, TasksAlways, PTL DEF Spec
-----------------------------------------------------------------------------
(* Reports.  An Attempt is reported after it ended, and an ended Attempt is  *)
(* not dispatched, received or cancelled any more.                           *)

\* An Attempt that was made and ended, whatever became of it.
Past(s) == attemptStatus[s] \notin AttemptOpen \union {"absent"} /\ s[2] <= attempts[s[1]]

\* Reports are of ended Attempts; the owner runs the Attempt it dispatches until
\* it has received its result, and reports none before.
ReportInv ==
  /\ \A s \in reported : Past(s)
  /\ \A t \in Tasks : taskStatus[t] = "running" => Running(LastSlot(t))
  /\ at \in {"dispatch", "agent", "received"} => Running(current)
  /\ at \in {"report", "ack"} => Past(current)

\* ReportedAttemptFinal, of one step.
ReportsKept == \A s \in reported : attemptStatus'[s] = attemptStatus[s] /\ s \in reported'

\* A step that leaves the Attempts alone and starts no task.
LEMMA SameReports ==
  ASSUME ReportInv, UNCHANGED <<attempts, attemptStatus, reported>>,
         \A t \in Tasks : taskStatus'[t] = "running" => taskStatus[t] = "running",
         at' \notin HandlesAttempt
  PROVE  ReportInv' /\ ReportsKept
  BY DEF ReportInv, Past, Running, LastSlot, HandlesAttempt, ReportsKept

\* A step that moves the owner alone, from one point of an Attempt to another.
LEMMA MovedReports ==
  ASSUME ReportInv, UNCHANGED <<attempts, attemptStatus, taskStatus>>,
         \/ reported' = reported
         \/ at \in {"report", "ack"} /\ reported' = reported \union {current},
         at' \in {"dispatch", "agent", "received"} => Running(current'),
         at' \in {"report", "ack"} => Past(current')
  PROVE  ReportInv' /\ ReportsKept
  BY DEF ReportInv, Past, Running, LastSlot, ReportsKept

\* The last Attempt of one task ends or waits, with its task.
LEMMA EndedReports ==
  ASSUME TypeInv, ReportInv, NEW slot \in Slots, slot[2] = attempts[slot[1]],
         slot \notin reported, NEW a \in AttemptStatuses \ {"running"},
         attemptStatus' = [attemptStatus EXCEPT ![slot] = a],
         \A t \in Tasks : taskStatus'[t] = "running" => taskStatus[t] = "running" /\ t # slot[1],
         UNCHANGED <<attempts, reported>>, current' = slot,
         at' \in {"report", "finish"}, at' = "report" => a \notin AttemptOpen \union {"absent"}
  PROVE  ReportInv' /\ ReportsKept
<1>1. /\ attemptStatus \in [Slots -> AttemptStatuses] /\ reported \subseteq Slots
      /\ \A t \in Tasks : attempts[t] > 0 => LastSlot(t) \in Slots
      /\ \A t \in Tasks : taskStatus[t] = "running" => attempts[t] > 0
  BY LastSlotTyped DEF TypeInv, TypeOK, AttemptTypeOK, StartedOK
<1>2. \A t \in Tasks : t # slot[1] => LastSlot(t) # slot
  BY DEF LastSlot
<1>3. \A s \in reported : attemptStatus'[s] = attemptStatus[s]
  BY <1>1
<1>4. \A s \in reported' : Past(s)'
  BY <1>3 DEF ReportInv, Past
<1>5. \A t \in Tasks : taskStatus'[t] = "running" => Running(LastSlot(t))'
  BY <1>1, <1>2 DEF ReportInv, Running, LastSlot
<1>6. at' = "report" => Past(current)'
  <2>1. slot[2] \in Nat
    BY SlotTyped, AttemptsAssumption
  <2>2. QED
    BY <1>1, <2>1 DEF Past
<1>7. QED
  BY <1>3, <1>4, <1>5, <1>6 DEF ReportInv, ReportsKept

\* The scheduler's steps.
LEMMA ReportsSchedulerStep ==
  ASSUME TypeInv, TasksInv, ReportInv, SchedulerStep
  PROVE  ReportInv' /\ ReportsKept
<1>1. CASE \/ ScheduleReturns \/ ScheduleCancelled \/ DispatchCancelled \/ AgentCancelled
           \/ AgentUnstopped \/ RecoverRaises \/ NothingToRecover
  BY <1>1, SameReports
     DEF ScheduleReturns, BackToController, ScheduleCancelled, DispatchCancelled,
         AgentCancelled, AgentUnstopped, RecoverRaises, NothingToRecover, Continue, GoTo,
         Return, durable, taskVars, attemptVars, HandlesAttempt
<1>2. CASE ScheduleSettles \/ RecoverEnds
  <2>1. /\ EvaluateRun /\ UNCHANGED <<attempts, attemptStatus, reported>>
        /\ at' \in {"pausing", "advance"}
    BY <1>2 DEF ScheduleSettles, RecoverEnds, BackToController, Continue, GoTo, attemptVars
  <2>2. QED
    BY <2>1, EvaluationMoves, SameReports DEF Moves, HandlesAttempt
<1>3. CASE StartAttempt
  <2> DEFINE t == Min(ReadyTasks)
             n == IF Resumes(t) THEN attempts[t] ELSE attempts[t] + 1
  <2>1. /\ t \in ReadyTasks /\ t \in Tasks /\ taskStatus[t] = "pending"
    BY <1>3, MinInSet, TasksNat DEF StartAttempt, ReadyTasks
  <2>2. /\ n <= MaxAttempts /\ at' = "dispatch" /\ current' = <<t, n>>
        /\ attempts' = [attempts EXCEPT ![t] = n]
        /\ attemptStatus' = [attemptStatus EXCEPT ![<<t, n>>] = "running"]
        /\ taskStatus' = [taskStatus EXCEPT ![t] = "running"] /\ UNCHANGED reported
    BY <1>3 DEF StartAttempt, GoTo
  <2> HIDE DEF t
  <2>3. /\ attempts \in [Tasks -> 0..MaxAttempts] /\ taskStatus \in [Tasks -> TaskStatuses]
        /\ attemptStatus \in [Slots -> AttemptStatuses] /\ reported \subseteq Slots
        /\ MaxAttempts \in Nat
    BY AttemptsAssumption DEF TypeInv, TypeOK, TaskTypeOK, AttemptTypeOK
  <2>4. n \in 1..MaxAttempts /\ <<t, n>> \in Slots
    <3>1. attempts[t] \in Nat /\ (Resumes(t) => attempts[t] > 0)
      BY <2>1, <2>3 DEF Resumes
    <3>2. n \in 1..MaxAttempts
      BY <2>2, <2>3, <3>1
    <3>3. QED
      BY <2>1, <3>2 DEF Slots
  <2>5. <<t, n>> \notin reported
    <3>1. CASE Resumes(t)
      BY <3>1 DEF ReportInv, Past, Resumes, LastSlot, AttemptOpen
    <3>2. CASE ~Resumes(t)
      <4>1. ~(n <= attempts[t])
        BY <2>1, <2>3, <3>2
      <4>2. QED
        BY <4>1 DEF ReportInv, Past
    <3>3. QED
      BY <3>1, <3>2
  <2>6. \A s \in reported : attemptStatus'[s] = attemptStatus[s]
    BY <2>2, <2>3, <2>5
  <2>7. \A s \in reported' : Past(s)'
    <3>1. \A s \in Slots : s[1] \in Tasks /\ s[2] \in Nat
      BY SlotTyped, AttemptsAssumption
    <3>2. \A u \in Tasks : attempts[u] \in Nat /\ attempts'[u] \in Nat /\ attempts[u] <= attempts'[u]
      BY <2>2, <2>3, <2>4
    <3>3. QED
      BY <2>2, <2>3, <2>6, <3>1, <3>2 DEF ReportInv, Past
  <2>8. \A u \in Tasks : taskStatus'[u] = "running" => Running(LastSlot(u))'
    BY <2>1, <2>2, <2>3, <2>4, LastSlotTyped DEF ReportInv, Running, LastSlot, TypeInv, StartedOK
  <2>9. QED
    BY <2>2, <2>3, <2>4, <2>6, <2>7, <2>8 DEF ReportInv, ReportsKept, Past, Running
<1>4. CASE RejectRequest
  <2>1. /\ at = "dispatch" /\ at' = "report" /\ current' = current
        /\ attemptStatus' = [attemptStatus EXCEPT ![current] = "failed"]
        /\ taskStatus' = [taskStatus EXCEPT ![current[1]] = "failed"]
        /\ UNCHANGED <<attempts, reported>>
    BY <1>4 DEF RejectRequest, GoTo
  <2>2. /\ current \in Slots /\ current[2] = attempts[current[1]] /\ current[1] \in Tasks
        /\ current \notin reported
    BY <2>1, CurrentTyped DEF TasksInv, PointInv, HandlesAttempt, ReportInv, Past, Running,
                              AttemptOpen
  <2>3. "failed" \in AttemptStatuses \ {"running"} /\ "failed" \notin AttemptOpen \union {"absent"}
    BY DEF AttemptStatuses, AttemptOpen
  <2>4. \A t \in Tasks :
          taskStatus'[t] = "running" => taskStatus[t] = "running" /\ t # current[1]
    BY <2>1, <2>2 DEF TypeInv, TypeOK, TaskTypeOK
  <2>5. QED
    BY <2>1, <2>2, <2>3, <2>4, EndedReports
<1>5. CASE DispatchAgent \/ AgentReturns
  <2>1. /\ at \in {"dispatch", "agent"} /\ at' \in {"agent", "received"} /\ current' = current
        /\ UNCHANGED <<attempts, attemptStatus, taskStatus, reported>>
    BY <1>5 DEF DispatchAgent, AgentReturns, GoTo, taskVars, attemptVars
  <2>2. Running(current')
    BY <2>1 DEF ReportInv
  <2>3. QED
    BY <2>1, <2>2, MovedReports
<1>6. ASSUME NEW slot \in Slots, NEW caller \in {"dispatch", "reapply"}, HalfReceived(slot),
             ApplyResult(slot, caller), slot \notin reported
      PROVE  ReportInv' /\ ReportsKept
  <2> DEFINE a == AttemptStatusFor(results[slot])
  <2>1. results[slot] \in TaskResults /\ slot[1] \in Tasks /\ slot[2] = attempts[slot[1]]
    BY <1>6, SlotTyped DEF HalfReceived, TypeInv, TypeOK, AttemptTypeOK, TasksInv, AttemptInv
  <2>2. /\ attemptStatus' = [attemptStatus EXCEPT ![slot] = a]
        /\ taskStatus' = [taskStatus EXCEPT ![slot[1]] = TaskStatusFor(results[slot], slot[2])]
        /\ UNCHANGED <<attempts, reported>> /\ current' = slot
        /\ at' = IF a \notin AttemptOpen THEN "report" ELSE "finish"
    BY <1>6 DEF ApplyResult, GoTo
  <2>3. a \in AttemptStatuses \ {"running"} /\ a # "absent"
    BY <2>1 DEF TaskResults, AttemptStatusFor, AttemptStatuses, AttemptOpen
  <2>4. \A t \in Tasks :
          taskStatus'[t] = "running" => taskStatus[t] = "running" /\ t # slot[1]
    BY <2>1, <2>2, TaskStatusForTyped DEF TypeInv, TypeOK, TaskTypeOK
  <2> HIDE DEF a
  <2>5. QED
    BY <1>6, <2>1, <2>2, <2>3, <2>4, EndedReports
<1>7. CASE ReceiveResult
  <2>1. at = "received" /\ ApplyResult(current, "dispatch")
    BY <1>7 DEF ReceiveResult
  <2>2. current \in Slots /\ HalfReceived(current) /\ current \notin reported
    BY <2>1 DEF TypeInv, PointOK, HandlesAttempt, HalfReceived, ReportInv, Past, Running,
                AttemptOpen
  <2>3. QED
    BY <1>6, <2>1, <2>2
<1>8. CASE RecoverResult
  <2>1. /\ ApplyResult(NextLeftOver, "reapply") /\ HalfReceived(NextLeftOver)
        /\ NextLeftOver \in Slots /\ NextLeftOver \notin reported
    BY <1>8, NextLeftOverTyped DEF RecoverResult
  <2>2. QED
    BY <1>6, <2>1
<1>9. CASE RegisterReport
  <2>1. /\ at = "report" /\ at' = "ack" /\ current' = current
        /\ reported' = reported \union {current}
        /\ UNCHANGED <<attempts, attemptStatus, taskStatus>>
    BY <1>9 DEF RegisterReport, GoTo, taskVars
  <2>2. Past(current')
    BY <2>1 DEF ReportInv
  <2>3. QED
    BY <2>1, <2>2, MovedReports
<1>10. CASE AcknowledgeResult
  BY <1>10, MovedReports DEF AcknowledgeResult, GoTo, taskVars
<1>11. CASE FinishResult
  <2>1. /\ UNCHANGED <<attempts, attemptStatus, reported>> /\ at' \in {"recover", "schedule"}
        /\ \A t \in Tasks : Moves(t)
    BY <1>11, EvaluationMoves DEF FinishResult, Moves, Continue, GoTo
  <2>2. QED
    BY <2>1, SameReports DEF Moves, HandlesAttempt
<1>12. CASE RecoverAcknowledgement \/ RecoverReport
  <2>1. /\ RecoversAttempt /\ at' \in {"ack", "report"} /\ current' = NextLeftOver
        /\ UNCHANGED <<attempts, attemptStatus, taskStatus, reported>>
        /\ NextLeftOver \in reported \/ ~HalfReceived(NextLeftOver)
    BY <1>12 DEF RecoverAcknowledgement, RecoverReport, GoTo, durable, taskVars, attemptVars
  <2>2. Past(NextLeftOver)
    <3>1. CASE NextLeftOver \in reported
      BY <3>1 DEF ReportInv
    <3>2. CASE ~HalfReceived(NextLeftOver)
      <4>1. Unreported(NextLeftOver)
        BY <2>1, <3>2, NextLeftOverTyped
      <4>2. NextLeftOver[2] <= attempts[NextLeftOver[1]]
        <5>1. NextTask \in Tasks /\ LeftOver(NextTask) # {} /\ LeftOver(NextTask) \in SUBSET Nat
          BY <2>1, NextTaskTyped DEF RecoversAttempt, LeftOver
        <5>2. Min(LeftOver(NextTask)) \in 1..attempts[NextTask]
          BY <5>1, MinInSet DEF LeftOver
        <5>3. attempts[NextTask] \in Nat
          BY <5>1 DEF TypeInv, TypeOK, TaskTypeOK
        <5>4. QED
          BY <5>2, <5>3 DEF NextLeftOver
      <4>3. QED
        BY <4>1, <4>2 DEF Unreported, Past
    <3>3. QED
      BY <2>1, <3>1, <3>2
  <2>3. Past(current')
    BY <2>1, <2>2
  <2>4. QED
    BY <2>1, <2>3, MovedReports
<1>13. CASE RecoverLostAttempt
  <2> DEFINE slot == LastSlot(NextTask)
  <2>1. /\ at' = "report" /\ current' = slot /\ UNCHANGED <<attempts, reported>>
        /\ attemptStatus' = [attemptStatus EXCEPT ![slot] = "failed"]
        /\ taskStatus' = [taskStatus EXCEPT ![NextTask] =
                            TaskStatusFor("retryable", attempts[NextTask])]
        /\ LeftTasks # {} /\ LeftOver(NextTask) = {}
    BY <1>13 DEF RecoverLostAttempt, GoTo
  <2>2. NextTask \in Tasks /\ taskStatus[NextTask] = "running"
    BY <2>1, NextTaskTyped DEF LeftTasks
  <2>3. /\ slot \in Slots /\ slot[1] = NextTask /\ slot[2] = attempts[slot[1]]
        /\ slot \notin reported
    BY <2>2, LastSlotTyped DEF TypeInv, StartedOK, LastSlot, ReportInv, Past, Running, AttemptOpen
  <2>4. "failed" \in AttemptStatuses \ {"running"} /\ "failed" \notin AttemptOpen \union {"absent"}
    BY DEF AttemptStatuses, AttemptOpen
  <2>5. TaskStatusFor("retryable", attempts[NextTask]) # "running"
    BY DEF TaskStatusFor
  <2>6. \A t \in Tasks :
          taskStatus'[t] = "running" => taskStatus[t] = "running" /\ t # slot[1]
    BY <2>1, <2>2, <2>3, <2>5 DEF TypeInv, TypeOK, TaskTypeOK
  <2> HIDE DEF slot
  <2>7. QED
    BY <2>1, <2>3, <2>4, <2>6, EndedReports
<1>14. QED
  BY <1>1, <1>2, <1>3, <1>4, <1>5, <1>7, <1>8, <1>9, <1>10, <1>11, <1>12, <1>13
     DEF SchedulerStep

\* Cancelling ends the Attempts that are open, which have no report.
LEMMA CancelledReports ==
  ASSUME TypeInv, TasksInv, ReportInv, CancelAttempt
  PROVE  ReportInv' /\ ReportsKept
<1> DEFINE t == Min(OpenTasks)
           slot == LastSlot(t)
<1>1. /\ OpenTasks # {} /\ at' = "report" /\ current' = slot
      /\ taskStatus' = [u \in Tasks |-> IF u \in LiveTasks /\ u <= t THEN "cancelled"
                                        ELSE taskStatus[u]]
      /\ attemptStatus' = [attemptStatus EXCEPT ![slot] = "cancelled"]
      /\ UNCHANGED <<attempts, reported>>
  BY DEF CancelAttempt, GoTo
<1>2. t \in OpenTasks /\ t \in LiveTasks /\ t \in Tasks
  BY <1>1, MinInSet, TasksNat DEF OpenTasks, LiveTasks
<1> HIDE DEF t
<1>3. /\ slot \in Slots /\ slot[1] = t /\ slot[2] = attempts[slot[1]] /\ slot \notin reported
  BY <1>2, LastSlotTyped DEF OpenTasks, LastSlot, ReportInv, Past
<1>4. /\ "cancelled" \in AttemptStatuses \ {"running"}
      /\ "cancelled" \notin AttemptOpen \union {"absent"}
  BY DEF AttemptStatuses, AttemptOpen
<1>5. \A u \in Tasks : taskStatus'[u] = "running" => taskStatus[u] = "running" /\ u # slot[1]
  BY <1>1, <1>2, <1>3, TasksNat
<1> HIDE DEF slot
<1>6. QED
  BY <1>1, <1>3, <1>4, <1>5, EndedReports

\* The controller's steps.
LEMMA ReportsOwnerStep ==
  ASSUME TypeInv, TasksInv, ReportInv, OwnerStep
  PROVE  ReportInv' /\ ReportsKept
<1> USE DEF Continue, GoTo, Return, HandlesAttempt
<1>1. CASE AdvanceReturns \/ AdvanceConsumes \/ AdvanceFails \/ ResumeTurn \/ InvokeScientific
  BY <1>1, SameReports DEF AdvanceReturns, AdvanceConsumes, AdvanceFails, ResumeTurn,
                           InvokeScientific, durable, taskVars, attemptVars
<1>2. CASE DriveExecuting \/ DriveAccepted \/ NoTaskSlots \/ StartCompilation
  BY <1>2, SameReports DEF DriveExecuting, DriveAccepted, NoTaskSlots, StartCompilation,
                           FailWork, durable, taskVars, attemptVars
<1>3. CASE Compile \/ CompileCancelled \/ WorkRejected \/ CompileExhausted \/ StartExecution
  BY <1>3, SameReports DEF Compile, CompileCancelled, WorkRejected, CompileExhausted,
                           StartExecution, FailWork, durable, taskVars, attemptVars
<1>4. CASE AcceptTasks
  <2>1. \A t \in Tasks : taskStatus'[t] = "running" => taskStatus[t] = "running"
    BY <1>4 DEF AcceptTasks
  <2>2. QED
    BY <1>4, <2>1, SameReports DEF AcceptTasks, attemptVars
<1>5. CASE ScientificReturns \/ ScientificCancelled
  BY <1>5, SameReports DEF ScientificReturns, ScientificCancelled, durable, taskVars, attemptVars
<1>6. CASE \/ DeferCompletion \/ ValidateCompletion \/ DeferUnderFence \/ FinishDefer
           \/ CompleteRun \/ RejectCompletion
  BY <1>6, SameReports DEF DeferCompletion, ValidateCompletion, DeferUnderFence, FinishDefer,
                           CompleteRun, RejectCompletion, durable, taskVars, attemptVars
<1>7. CASE RequestWork \/ Abandon \/ AskUser \/ YieldTurn \/ FailTurn
  BY <1>7, SameReports DEF RequestWork, Abandon, AskUser, YieldTurn, FailTurn, durable,
                           taskVars, attemptVars
<1>8. CASE Reply
  <2>1. \A t \in Tasks : taskStatus'[t] = "running" => taskStatus[t] = "running"
    BY <1>8 DEF Reply
  <2>2. QED
    BY <1>8, <2>1, SameReports DEF Reply, attemptVars
<1>9. CASE PauseConsumes \/ CancelRaises
  BY <1>9, SameReports DEF PauseConsumes, CancelRaises, taskVars, attemptVars
<1>10. CASE CancelAttempt
  BY <1>10, CancelledReports
<1>11. CASE FinishPause \/ FinishAbandon
  <2>1. \A t \in Tasks : taskStatus'[t] = "running" => taskStatus[t] = "running"
    BY <1>11 DEF FinishPause, FinishAbandon, CancelWork
  <2>2. QED
    BY <1>11, <2>1, SameReports DEF FinishPause, FinishAbandon, CancelWork, attemptVars
<1>12. CASE SchedulerStep
  BY <1>12, ReportsSchedulerStep
<1>13. QED
  BY <1>1, <1>2, <1>3, <1>4, <1>5, <1>6, <1>7, <1>8, <1>9, <1>10, <1>11, <1>12 DEF OwnerStep

\* Every step.
LEMMA ReportsNext ==
  TypeInv /\ TasksInv /\ ReportInv /\ [Next]_vars => ReportInv' /\ ReportsKept
<1> SUFFICES ASSUME TypeInv, TasksInv, ReportInv, [Next]_vars PROVE ReportInv' /\ ReportsKept
  OBVIOUS
<1>1. CASE OwnerStep
  BY <1>1, ReportsOwnerStep
<1>2. CASE Resume \/ Crash
  BY <1>2, SameReports DEF Resume, Crash, Continue, GoTo, Return, HandlesAttempt, durable,
                           taskVars, attemptVars
<1>3. CASE Answer
  <2>1. \A t \in Tasks : taskStatus'[t] = "running" => taskStatus[t] = "running"
    BY <1>3 DEF Answer, TypeInv, TypeOK, TaskTypeOK
  <2>2. QED
    BY <1>3, <2>1, SameReports DEF Answer, Continue, GoTo, HandlesAttempt, attemptVars
<1>4. CASE Submit \/ Watch \/ Expire \/ UNCHANGED vars
  <2>1. UNCHANGED <<taskVars, attemptVars, at, current>>
    BY <1>4 DEF Submit, Watch, Expire, vars, durable, ownerVars
  <2>2. QED
    BY <2>1 DEF ReportInv, Past, Running, LastSlot, ReportsKept, taskVars, attemptVars
<1>5. QED
  BY <1>1, <1>2, <1>3, <1>4 DEF Next, Environment

\* The report binding is the final receiving decision, whatever is received,
\* cancelled, recovered or started afterwards.
THEOREM ReportsAreFinal == Spec => ReportedAttemptFinal
<1>1. Init => ReportInv
  BY DEF Init, ReportInv
<1>2. ReportsKept => [\A s \in reported : attemptStatus'[s] = attemptStatus[s]
                                           /\ s \in reported']_vars
  BY DEF ReportsKept
<1>3. QED
  BY <1>1, <1>2, ReportsNext, TasksAlways, PTL DEF Spec, ReportedAttemptFinal

-----------------------------------------------------------------------------
(* Handing work to the parent.  An Attempt that ended without its report is  *)
(* only found where the owner still has to settle it, so the evaluation that *)
(* makes work stable finds every Attempt of it reported.                     *)

WorkOver == {"stable", "consumed", "cancelled"}

\* What the owner, or the next one, still has to receive or report.
Left(s) ==
  Running(s) \/ HalfReceived(s) \/ (Unreported(s) /\ taskStatus[s[1]] # "cancelled")

\* An Attempt that was made has a status, one that was followed by another has its
\* report, and one that waits leaves its task waiting or ready.
MadeInv ==
  /\ \A s \in Slots : attemptStatus[s] = "absent" <=> s[2] > attempts[s[1]]
  /\ \A s \in Slots : s[2] < attempts[s[1]] => s \in reported
  /\ \A s \in Slots :
       attemptStatus[s] = "needs_user_input" => taskStatus[s[1]] \in {"needs_user_input", "pending"}

\* Owners settle one Attempt at a time, whichever of them died over it.
OneLeft == \A s, q \in Slots : Left(s) /\ Left(q) => s = q

\* Which Attempt is left at each point of the owner.
LeftInv ==
  /\ at \in Quiet \union {"dispatch", "agent", "received"} => \A s \in Slots : ~Unreported(s)
  /\ at \in {"report", "ack", "finish"} /\ goal = "dispatch" =>
       \A s \in Slots : Unreported(s) => s = current
  /\ at \in {"report", "ack", "finish"} /\ goal = "reapply" =>
       \A s \in Slots : Left(s) => s = current
  /\ at = "ack" => current \in reported
  /\ at = "finish" => ~Unreported(current)
  /\ at = "cancelling" => goal # "reapply"

HandoffInv == MadeInv /\ OneLeft /\ LeftInv /\ SettledWorkReported

\* Every invariant of the tasks that the handing over rests on.
RunInv == TypeInv /\ TasksInv /\ ReportInv /\ HandoffInv

\* The numbers and statuses the steps below compute with.
LEMMA HandoffTypes ==
  ASSUME TypeInv
  PROVE  /\ attempts \in [Tasks -> 0..MaxAttempts] /\ taskStatus \in [Tasks -> TaskStatuses]
         /\ attemptStatus \in [Slots -> AttemptStatuses] /\ reported \subseteq Slots
         /\ results \in [Slots -> TaskResults \union {"none"}]
         /\ workOf \in [Tasks -> 0..MaxWorks] /\ MaxAttempts \in Nat
         /\ \A t \in Tasks : attempts[t] \in Nat
         /\ \A s \in Slots : s[1] \in Tasks /\ s[2] \in 1..MaxAttempts /\ s = <<s[1], s[2]>>
                             /\ s[2] \in Nat
         /\ \A t \in Tasks, n \in 1..MaxAttempts : <<t, n>> \in Slots
<1>1. MaxAttempts \in Nat
  BY AttemptsAssumption
<1>2. \A s \in Slots : s[1] \in Tasks /\ s[2] \in 1..MaxAttempts /\ s = <<s[1], s[2]>>
  BY SlotTyped
<1>3. QED
  BY <1>1, <1>2 DEF TypeInv, TypeOK, TaskTypeOK, AttemptTypeOK, Slots

\* An Attempt that waits is the last of its task.
LEMMA WaitingIsLast ==
  ASSUME RunInv, NEW s \in Slots, attemptStatus[s] = "needs_user_input"
  PROVE  s[2] = attempts[s[1]] /\ s = LastSlot(s[1]) /\ Resumes(s[1]) /\ s \notin reported
<1>1. s[2] <= attempts[s[1]]
  BY HandoffTypes DEF RunInv, HandoffInv, MadeInv
<1>2. s \notin reported
  BY DEF RunInv, ReportInv, Past, AttemptOpen
<1>3. ~(s[2] < attempts[s[1]])
  BY <1>2 DEF RunInv, HandoffInv, MadeInv
<1>4. s[2] = attempts[s[1]] /\ attempts[s[1]] > 0 /\ s = <<s[1], attempts[s[1]]>>
  <2>1. s[2] \in Nat /\ s[2] > 0 /\ attempts[s[1]] \in Nat /\ s = <<s[1], s[2]>>
    BY HandoffTypes DEF RunInv
  <2>2. QED
    BY <1>1, <1>3, <2>1
<1>5. QED
  BY <1>2, <1>4 DEF LastSlot, Resumes

\* An Attempt that was made and has no report keeps its work with the owner.
LEMMA UnreportedWorkLive ==
  ASSUME RunInv, NEW s \in Slots, s[2] <= attempts[s[1]], s \notin reported, workOf[s[1]] # NoWork
  PROVE  workStatus[workOf[s[1]]] \notin WorkOver
<1>1. s[1] \in Tasks /\ s[2] \in 1..attempts[s[1]] /\ s = <<s[1], s[2]>>
  BY HandoffTypes DEF RunInv
<1>2. QED
  BY <1>1 DEF RunInv, HandoffInv, SettledWorkReported, WorkOver

\* Work that was over stays reported, and work that is over now was found so.
LEMMA StaysReported ==
  ASSUME RunInv, ReportInv', TypeInv', reported \subseteq reported',
         \A t \in Tasks :
           workOf'[t] # NoWork /\ workStatus'[workOf'[t]] \in WorkOver =>
             \/ /\ workOf'[t] = workOf[t] /\ workStatus[workOf[t]] \in WorkOver
                /\ attempts'[t] = attempts[t]
                /\ taskStatus'[t] = taskStatus[t] \/ taskStatus'[t] \notin TaskLive
             \/ /\ taskStatus'[t] \notin TaskLive
                /\ \A n \in 1..attempts'[t] : <<t, n>> \in reported'
  PROVE  SettledWorkReported'
<1>1. SUFFICES ASSUME NEW t \in Tasks, workOf'[t] # NoWork, workStatus'[workOf'[t]] \in WorkOver
               PROVE  /\ taskStatus'[t] \notin TaskLive
                      /\ \A n \in 1..attempts'[t] : /\ attemptStatus'[<<t, n>>] \notin AttemptOpen
                                                    /\ <<t, n>> \in reported'
  BY DEF SettledWorkReported, WorkOver
<1>2. taskStatus'[t] \notin TaskLive /\ \A n \in 1..attempts'[t] : <<t, n>> \in reported'
  BY <1>1 DEF RunInv, HandoffInv, SettledWorkReported, WorkOver
<1>3. \A n \in 1..attempts'[t] : attemptStatus'[<<t, n>>] \notin AttemptOpen
  BY <1>2 DEF ReportInv, Past
<1>4. QED
  BY <1>2, <1>3

-----------------------------------------------------------------------------
(* Steps that leave the Attempts as they are. *)

\* A task with an Attempt moves on its own only when it was answered, or cancelled
\* with no Attempt open.
Drifts(t) ==
  \/ taskStatus'[t] = taskStatus[t]
  \/ attempts[t] = 0
  \/ taskStatus[t] = "needs_user_input" /\ taskStatus'[t] = "pending"
  \/ taskStatus'[t] = "cancelled" /\ attemptStatus[LastSlot(t)] \notin AttemptOpen

\* No step that only moves tasks leaves more to settle.
LEMMA DriftKeeps ==
  ASSUME RunInv, UNCHANGED <<attempts, attemptStatus, reported>>,
         \A t \in Tasks : Drifts(t),
         \A s \in Slots : results'[s] = results[s] \/ results'[s] = "none",
         at' \notin HandlesAttempt, at' = "cancelling" => goal' # "reapply",
         at' \in Quiet => \A s \in Slots : ~Unreported(s)
  PROVE  MadeInv' /\ OneLeft' /\ LeftInv'
<1>1. MadeInv'
  <2>1. ASSUME NEW s \in Slots, attemptStatus[s] = "needs_user_input"
        PROVE  taskStatus'[s[1]] \in {"needs_user_input", "pending"}
    <3>1. s = LastSlot(s[1]) /\ attempts[s[1]] # 0 /\ s[1] \in Tasks
      BY <2>1, WaitingIsLast, HandoffTypes DEF Resumes, RunInv
    <3>2. taskStatus[s[1]] \in {"needs_user_input", "pending"}
      BY <2>1 DEF RunInv, HandoffInv, MadeInv
    <3>3. QED
      BY <2>1, <3>1, <3>2 DEF Drifts, AttemptOpen
  <2>2. QED
    BY <2>1 DEF MadeInv, RunInv, HandoffInv
<1>2. ASSUME NEW s \in Slots, Left(s)'
      PROVE  Left(s)
  <2>1. s[1] \in Tasks /\ s[2] \in 1..MaxAttempts
    BY HandoffTypes DEF RunInv
  <2>2. CASE Unreported(s) /\ taskStatus'[s[1]] # "cancelled"
    <3>1. attempts[s[1]] # 0
      <4>1. attemptStatus[s] # "absent"
        BY <2>2 DEF Unreported
      <4>2. ~(s[2] > attempts[s[1]])
        BY <4>1 DEF RunInv, HandoffInv, MadeInv
      <4>3. QED
        BY <2>1, <4>2, AttemptsAssumption
    <3>2. taskStatus[s[1]] # "cancelled"
      BY <2>1, <2>2, <3>1 DEF Drifts
    <3>3. QED
      BY <2>2, <3>2 DEF Left
  <2>3. CASE Running(s) \/ HalfReceived(s)'
    BY <2>3 DEF Left, HalfReceived
  <2>4. QED
    BY <1>2, <2>2, <2>3 DEF Left, Running, Unreported
<1>3. OneLeft'
  BY <1>2 DEF OneLeft, RunInv, HandoffInv
<1>4. LeftInv'
  BY DEF LeftInv, Unreported, HandlesAttempt
<1>5. QED
  BY <1>1, <1>3, <1>4

\* Steps that touch neither tasks nor Attempts, and call no work over that was not.
LEMMA SameHandoff ==
  ASSUME RunInv, TypeInv', ReportInv', UNCHANGED <<taskVars, attemptVars>>,
         at' \notin HandlesAttempt, at' = "cancelling" => goal' # "reapply",
         at' \in Quiet => at \in Quiet,
         \A w \in Works : workStatus'[w] \in WorkOver => workStatus[w] \in WorkOver
  PROVE  HandoffInv'
<1>1. at' \in Quiet => \A s \in Slots : ~Unreported(s)
  BY DEF RunInv, HandoffInv, LeftInv
<1>2. MadeInv' /\ OneLeft' /\ LeftInv'
  BY <1>1, DriftKeeps DEF Drifts, taskVars, attemptVars
<1>3. \A t \in Tasks : workOf[t] # NoWork => workOf[t] \in Works
  BY HandoffTypes, WorksAssumption DEF RunInv, NoWork, Works
<1>4. SettledWorkReported'
  BY <1>3, StaysReported DEF taskVars, attemptVars
<1>5. QED
  BY <1>2, <1>4 DEF HandoffInv

\* Only tasks that were never attempted are blocked: the dependencies of the others
\* completed before they started.
LEMMA BlockedUnattempted ==
  ASSUME RunInv
  PROVE  \A t \in Doomed : taskStatus[t] = "pending" /\ attempts[t] = 0
<1> DEFINE B == {t \in Tasks : taskStatus[t] = "pending" /\ attempts[t] = 0}
<1>1. ASSUME NEW t \in Tasks, taskStatus[t] = "pending",
             NEW d \in Dependencies(t), taskStatus[d] \in TaskLost \/ d \in B
      PROVE  t \in B
  <2>1. taskStatus[d] # "completed"
    BY <1>1 DEF TaskLost
  <2>2. ~(attempts[t] > 0)
    BY <2>1 DEF RunInv, TasksInv, DependencyInv, DependenciesHold
  <2>3. attempts[t] \in Nat
    BY HandoffTypes DEF RunInv
  <2>4. QED
    BY <1>1, <2>2, <2>3
<1>2. B \in SUBSET Tasks
  OBVIOUS
<1>3. Doomed \subseteq B
  <2>1. \A t \in Tasks :
          (taskStatus[t] = "pending"
             /\ \E d \in Dependencies(t) : taskStatus[d] \in TaskLost \/ d \in B) => t \in B
    BY <1>1
  <2> HIDE DEF B
  <2>2. QED
    BY <1>2, <2>1 DEF Doomed
<1>4. QED
  BY <1>3

\* _evaluate_run makes work stable only when every Attempt of it is reported, where
\* the Attempts left belong to tasks that were cancelled.
LEMMA EvaluationHandsOver ==
  ASSUME RunInv, TypeInv', ReportInv', EvaluateRun,
         UNCHANGED <<workOf, attempts, attemptStatus, reported>>,
         \A s \in Slots : Unreported(s) => taskStatus[s[1]] = "cancelled"
  PROVE  SettledWorkReported' /\ \A t \in Tasks : Drifts(t)
<1>1. \A t \in Tasks : Blocked[t] = IF t \in Doomed THEN "blocked" ELSE taskStatus[t]
  BY DEF Blocked
<1>2. \A t \in Tasks : taskStatus'[t] = taskStatus[t] \/ taskStatus'[t] = Blocked[t]
  BY DEF EvaluateRun
<1>3. \A t \in Tasks : Drifts(t)
  BY <1>1, <1>2, BlockedUnattempted DEF Drifts
<1>4. ASSUME NEW t \in Tasks, workOf'[t] # NoWork, workStatus'[workOf'[t]] \in WorkOver
      PROVE  \/ /\ workStatus[workOf[t]] \in WorkOver
                /\ taskStatus'[t] = taskStatus[t] \/ taskStatus'[t] \notin TaskLive
             \/ /\ taskStatus'[t] \notin TaskLive
                /\ \A n \in 1..attempts'[t] : <<t, n>> \in reported'
  <2> DEFINE w == workOf[t]
  <2>1. w \in Works
    BY <1>4, HandoffTypes, WorksAssumption DEF RunInv, NoWork, Works
  <2>2. taskStatus'[t] = taskStatus[t] \/ taskStatus'[t] \notin TaskLive
    BY <1>1, <1>2 DEF TaskLive
  <2>3. CASE workStatus[w] \in WorkOver
    BY <2>2, <2>3
  <2>4. CASE workStatus[w] \notin WorkOver
    <3>1. w \in SettledWorks /\ taskStatus' = Blocked
      BY <1>4, <2>1, <2>4 DEF EvaluateRun
    <3>2. Blocked[t] \in {"completed", "failed", "blocked"}
      BY <3>1 DEF SettledWorks, TasksOf
    <3>3. ASSUME NEW n \in 1..attempts[t]
          PROVE  <<t, n>> \in reported
      <4>1. <<t, n>> \in Slots /\ ~(n > attempts[t]) /\ attempts[t] # 0
        <5>1. attempts[t] \in 0..MaxAttempts
          BY HandoffTypes DEF RunInv
        <5>2. n \in 1..MaxAttempts /\ ~(n > attempts[t]) /\ attempts[t] # 0
          BY <5>1, AttemptsAssumption
        <5>3. QED
          BY <5>2 DEF Slots
      <4>2. attemptStatus[<<t, n>>] # "absent"
        BY <4>1 DEF RunInv, HandoffInv, MadeInv
      <4>3. Blocked[t] = taskStatus[t]
        BY <1>1, <4>1, BlockedUnattempted
      <4>4. attemptStatus[<<t, n>>] # "running"
        BY <3>2, <4>1, <4>3 DEF RunInv, TasksInv, AttemptInv, Running
      <4>5. attemptStatus[<<t, n>>] # "needs_user_input"
        BY <3>2, <4>1, <4>3 DEF RunInv, HandoffInv, MadeInv
      <4>6. ~Unreported(<<t, n>>)
        BY <3>2, <4>1, <4>3
      <4>7. QED
        BY <4>2, <4>4, <4>5, <4>6 DEF Unreported, AttemptOpen
    <3>4. QED
      BY <3>1, <3>2, <3>3 DEF TaskLive
  <2>5. QED
    BY <2>3, <2>4
<1>5. SettledWorkReported'
  BY <1>4, StaysReported
<1>6. QED
  BY <1>3, <1>5

-----------------------------------------------------------------------------
(* Steps that change an Attempt. *)

\* A dispatched Attempt follows one that was reported, or goes on with the last.
LEMMA StartHandoff ==
  ASSUME RunInv, TypeInv', ReportInv', StartAttempt
  PROVE  HandoffInv'
<1> DEFINE t == Min(ReadyTasks)
           n == IF Resumes(t) THEN attempts[t] ELSE attempts[t] + 1
<1>1. t \in ReadyTasks /\ t \in Tasks /\ taskStatus[t] = "pending"
  BY MinInSet, TasksNat DEF StartAttempt, ReadyTasks
<1>2. /\ at = "schedule" /\ n <= MaxAttempts
      /\ attempts' = [attempts EXCEPT ![t] = n]
      /\ attemptStatus' = [attemptStatus EXCEPT ![<<t, n>>] = "running"]
      /\ taskStatus' = [taskStatus EXCEPT ![t] = "running"]
      /\ at' = "dispatch" /\ goal' = "dispatch" /\ current' = <<t, n>>
      /\ UNCHANGED <<workOf, workStatus, results, reported>>
  BY DEF StartAttempt, GoTo, workVars
<1> HIDE DEF t
<1>3. /\ attempts \in [Tasks -> 0..MaxAttempts] /\ taskStatus \in [Tasks -> TaskStatuses]
      /\ attemptStatus \in [Slots -> AttemptStatuses] /\ MaxAttempts \in Nat
      /\ \A s \in Slots : s[1] \in Tasks /\ s[2] \in 1..MaxAttempts /\ s = <<s[1], s[2]>>
  BY HandoffTypes DEF RunInv
<1>4. n \in 1..MaxAttempts /\ <<t, n>> \in Slots
  <2>1. attempts[t] \in Nat /\ (Resumes(t) => attempts[t] > 0)
    BY <1>1, <1>3 DEF Resumes
  <2>2. n \in 1..MaxAttempts
    BY <1>2, <1>3, <2>1
  <2>3. QED
    BY <1>1, <2>2 DEF Slots
<1>5. \A s \in Slots : ~Running(s) /\ ~HalfReceived(s) /\ ~Unreported(s)
  BY <1>2 DEF RunInv, TasksInv, PointInv, HandoffInv, LeftInv, Quiet
<1>6. n >= attempts[t] /\ n <= attempts[t] + 1 /\ attempts[t] \in Nat
  BY <1>1, <1>3
<1>7. MadeInv'
  <2>1. \A s \in Slots : attemptStatus'[s] = "absent" <=> s[2] > attempts'[s[1]]
    <3>1. ASSUME NEW s \in Slots, s[1] = t, s[2] = n
          PROVE  attemptStatus'[s] # "absent" /\ ~(s[2] > attempts'[s[1]])
      BY <1>1, <1>2, <1>3, <1>4, <3>1
    <3>2. ASSUME NEW s \in Slots, s # <<t, n>>
          PROVE  attemptStatus'[s] = "absent" <=> s[2] > attempts'[s[1]]
      <4>1. attemptStatus'[s] = attemptStatus[s]
        BY <1>2, <1>3, <3>2
      <4>2. s[2] > attempts'[s[1]] <=> s[2] > attempts[s[1]]
        <5>1. CASE s[1] = t
          <6>1. s[2] # n /\ s[2] \in Nat /\ n \in Nat
            BY <1>3, <1>4, <3>2, <5>1
          <6>2. attempts'[s[1]] = n
            BY <1>1, <1>2, <1>3, <5>1
          <6>3. n = attempts[t] \/ n = attempts[t] + 1
            OBVIOUS
          <6> HIDE DEF n
          <6>4. QED
            BY <1>6, <5>1, <6>1, <6>2, <6>3
        <5>2. CASE s[1] # t
          BY <1>2, <1>3, <5>2
        <5>3. QED
          BY <5>1, <5>2
      <4>3. QED
        BY <4>1, <4>2 DEF RunInv, HandoffInv, MadeInv
    <3>3. QED
      BY <1>3, <3>1, <3>2
  <2>2. ASSUME NEW s \in Slots, s[2] < attempts'[s[1]]
        PROVE  s \in reported
    <3>1. CASE s[2] < attempts[s[1]]
      BY <3>1 DEF RunInv, HandoffInv, MadeInv
    <3>2. CASE ~(s[2] < attempts[s[1]])
      <4>1. s[1] = t
        BY <1>2, <1>3, <2>2, <3>2
      <4>2. attempts'[t] = n /\ s[2] \in Nat
        BY <1>1, <1>2, <1>3
      <4>3. s[2] = attempts[t] /\ ~Resumes(t)
        BY <1>6, <2>2, <3>2, <4>1, <4>2
      <4>4. s = LastSlot(t) /\ attempts[t] > 0
        BY <1>3, <4>1, <4>3 DEF LastSlot
      <4>5. attemptStatus[s] # "needs_user_input" /\ attemptStatus[s] # "running"
        BY <1>5, <4>3, <4>4 DEF Resumes, Running
      <4>6. attemptStatus[s] # "absent"
        <5>1. ~(s[2] > attempts[s[1]])
          BY <1>6, <4>1, <4>3
        <5>2. QED
          BY <5>1 DEF RunInv, HandoffInv, MadeInv
      <4>7. QED
        BY <1>5, <4>5, <4>6 DEF Unreported, AttemptOpen
    <3>3. QED
      BY <3>1, <3>2
  <2>3. ASSUME NEW s \in Slots, attemptStatus'[s] = "needs_user_input"
        PROVE  taskStatus'[s[1]] \in {"needs_user_input", "pending"}
    <3>1. s # <<t, n>> /\ attemptStatus[s] = "needs_user_input"
      BY <1>2, <1>3, <1>4, <2>3
    <3>2. s = LastSlot(s[1]) /\ Resumes(s[1])
      BY <3>1, WaitingIsLast
    <3>3. s[1] # t
      BY <3>1, <3>2 DEF LastSlot
    <3>4. taskStatus'[s[1]] = taskStatus[s[1]]
      BY <1>2, <1>3, <3>3
    <3>5. QED
      BY <3>1, <3>4 DEF RunInv, HandoffInv, MadeInv
  <2>4. QED
    BY <1>2, <2>1, <2>2, <2>3 DEF MadeInv
<1>8. \A s \in Slots : /\ ~Unreported(s)' /\ (Left(s)' => s = <<t, n>>)
  BY <1>2, <1>3, <1>4, <1>5 DEF Left, Unreported, Running, HalfReceived, AttemptOpen
<1>9. OneLeft' /\ LeftInv'
  BY <1>2, <1>8 DEF OneLeft, LeftInv
<1>10. SettledWorkReported'
  <2>1. workOf[t] # NoWork => workStatus[workOf[t]] \notin WorkOver
    BY <1>1 DEF RunInv, HandoffInv, SettledWorkReported, WorkOver, TaskLive
  <2>2. \A u \in Tasks : u # t => attempts'[u] = attempts[u] /\ taskStatus'[u] = taskStatus[u]
    BY <1>2, <1>3
  <2>3. QED
    BY <1>2, <2>1, <2>2, StaysReported
<1>11. QED
  BY <1>7, <1>9, <1>10 DEF HandoffInv

\* The last Attempt of a task, left until now, gets its outcome or waits, and its
\* report is what remains of it to settle.
LEMMA EndedHandoff ==
  ASSUME RunInv, TypeInv', ReportInv', NEW slot \in Slots, slot[2] = attempts[slot[1]],
         slot \notin reported, Left(slot), NEW a \in AttemptStatuses \ {"running", "absent"},
         NEW b \in TaskStatuses,
         attemptStatus' = [attemptStatus EXCEPT ![slot] = a],
         taskStatus' = [taskStatus EXCEPT ![slot[1]] = b],
         a = "needs_user_input" => b \in {"needs_user_input", "pending"},
         UNCHANGED <<attempts, reported, results, workOf, workStatus>>
  PROVE  /\ MadeInv' /\ OneLeft' /\ SettledWorkReported'
         /\ \A s \in Slots : Left(s)' => s = slot
         /\ \A s \in Slots : Unreported(s)' => Unreported(s) \/ s = slot
         /\ Unreported(slot)' => a \notin AttemptOpen
<1>1. /\ taskStatus \in [Tasks -> TaskStatuses] /\ attemptStatus \in [Slots -> AttemptStatuses]
      /\ \A s \in Slots : s[1] \in Tasks /\ s[2] \in Nat /\ s = <<s[1], s[2]>>
      /\ \A t \in Tasks : attempts[t] \in Nat
  BY HandoffTypes DEF RunInv
<1>2. \A s \in Slots : s # slot => attemptStatus'[s] = attemptStatus[s]
  BY <1>1
<1>3. attemptStatus'[slot] = a /\ taskStatus'[slot[1]] = b
  BY <1>1
<1>4. \A t \in Tasks : t # slot[1] => taskStatus'[t] = taskStatus[t]
  BY <1>1
<1>5. MadeInv'
  <2>1. attemptStatus'[slot] # "absent" /\ ~(slot[2] > attempts'[slot[1]])
    BY <1>1, <1>3
  <2>2. \A s \in Slots : attemptStatus'[s] = "absent" <=> s[2] > attempts'[s[1]]
    BY <1>2, <2>1 DEF RunInv, HandoffInv, MadeInv
  <2>3. ASSUME NEW s \in Slots, attemptStatus'[s] = "needs_user_input"
        PROVE  taskStatus'[s[1]] \in {"needs_user_input", "pending"}
    <3>1. CASE s = slot
      BY <1>3, <2>3, <3>1
    <3>2. CASE s # slot
      <4>1. attemptStatus[s] = "needs_user_input"
        BY <1>2, <2>3, <3>2
      <4>2. s = LastSlot(s[1])
        BY <4>1, WaitingIsLast
      <4>3. s[1] # slot[1]
        BY <1>1, <3>2, <4>2 DEF LastSlot
      <4>4. QED
        BY <1>1, <1>4, <4>1, <4>3 DEF RunInv, HandoffInv, MadeInv
    <3>3. QED
      BY <3>1, <3>2
  <2>4. QED
    BY <2>2, <2>3 DEF RunInv, HandoffInv, MadeInv
<1>6. ASSUME NEW s \in Slots, Left(s)', s # slot
      PROVE  FALSE
  <2>1. (Running(s)' <=> Running(s)) /\ (HalfReceived(s)' <=> HalfReceived(s))
        /\ (Unreported(s)' <=> Unreported(s))
    BY <1>2, <1>6 DEF Running, HalfReceived, Unreported
  <2>2. ~Left(s)
    BY <1>6 DEF RunInv, HandoffInv, OneLeft
  <2>3. Unreported(s) /\ taskStatus'[s[1]] # taskStatus[s[1]]
    BY <1>6, <2>1, <2>2 DEF Left
  <2>4. s[1] = slot[1] /\ s[2] # slot[2] /\ s \notin reported
    BY <1>1, <1>4, <1>6, <2>3 DEF Unreported
  <2>5. ~(s[2] < attempts[s[1]]) /\ ~(s[2] > attempts[s[1]])
    BY <2>3, <2>4 DEF RunInv, HandoffInv, MadeInv, Unreported
  <2>6. QED
    BY <1>1, <2>4, <2>5
<1>7. OneLeft'
  BY <1>6 DEF OneLeft
<1>8. SettledWorkReported'
  <2>1. workOf[slot[1]] # NoWork => workStatus[workOf[slot[1]]] \notin WorkOver
    BY <1>1, UnreportedWorkLive
  <2>2. QED
    BY <1>4, <2>1, StaysReported
<1>9. \A s \in Slots : Unreported(s)' => Unreported(s) \/ s = slot
  BY <1>2 DEF Unreported
<1>10. Unreported(slot)' => a \notin AttemptOpen
  BY <1>3 DEF Unreported
<1>11. QED
  BY <1>5, <1>6, <1>7, <1>8, <1>9, <1>10

\* Receiving a saved result, for the first time or after a crash.
LEMMA ApplyHandoff ==
  ASSUME RunInv, TypeInv', ReportInv', NEW slot \in Slots, HalfReceived(slot),
         slot \notin reported, NEW caller \in {"dispatch", "reapply"},
         ApplyResult(slot, caller), caller = "dispatch" => at = "received"
  PROVE  HandoffInv'
<1> DEFINE r == results[slot]
           a == AttemptStatusFor(r)
           b == TaskStatusFor(r, slot[2])
<1>1. r \in TaskResults /\ slot[1] \in Tasks /\ slot[2] = attempts[slot[1]] /\ Left(slot)
  BY HandoffTypes DEF HalfReceived, RunInv, TasksInv, AttemptInv, Left
<1>2. /\ a \in AttemptStatuses \ {"running", "absent"} /\ b \in TaskStatuses
      /\ a = "needs_user_input" => b = "needs_user_input"
  BY <1>1 DEF TaskResults, AttemptStatusFor, TaskStatusFor, AttemptStatuses, AttemptOpen,
              TaskStatuses, TaskLive, TaskLost
<1>3. /\ attemptStatus' = [attemptStatus EXCEPT ![slot] = a]
      /\ taskStatus' = [taskStatus EXCEPT ![slot[1]] = b]
      /\ UNCHANGED <<attempts, reported, results, workOf, workStatus>>
      /\ at' = IF a \notin AttemptOpen THEN "report" ELSE "finish"
      /\ goal' = caller /\ current' = slot
  BY DEF ApplyResult, GoTo, workVars
<1> HIDE DEF r, a, b
<1>4. /\ MadeInv' /\ OneLeft' /\ SettledWorkReported'
      /\ \A s \in Slots : Left(s)' => s = slot
      /\ \A s \in Slots : Unreported(s)' => Unreported(s) \/ s = slot
      /\ Unreported(slot)' => a \notin AttemptOpen
  BY <1>1, <1>2, <1>3, EndedHandoff
<1>5. caller = "dispatch" => \A s \in Slots : ~Unreported(s)
  BY DEF RunInv, HandoffInv, LeftInv
<1>6. at' = "finish" => ~Unreported(slot)'
  BY <1>3, <1>4
<1>7. at' \in {"report", "finish"}
  BY <1>3
<1>8. LeftInv'
  <2>1. (Unreported(current) <=> Unreported(slot))'
    BY <1>3
  <2>2. QED
    BY <1>3, <1>4, <1>5, <1>6, <1>7, <2>1 DEF LeftInv, Quiet
<1>9. QED
  BY <1>4, <1>8 DEF HandoffInv

\* The step that binds a report settles its Attempt; the one that drops the saved
\* result finds it bound.
LEMMA ReportHandoff ==
  ASSUME RunInv, TypeInv', ReportInv', RegisterReport \/ AcknowledgeResult
  PROVE  HandoffInv'
<1>1. /\ at \in {"report", "ack"} /\ current \in Slots
      /\ UNCHANGED <<attempts, taskStatus, attemptStatus, workOf, workStatus>>
      /\ reported' = reported \/ reported' = reported \union {current}
  BY CurrentTyped DEF RegisterReport, AcknowledgeResult, taskVars, workVars, HandlesAttempt,
                      RunInv
<1>2. \A s \in Slots : results'[s] = results[s] \/ results'[s] = "none"
  BY HandoffTypes DEF RunInv, RegisterReport, AcknowledgeResult
<1>3. \A s \in Slots : (Unreported(s)' => Unreported(s)) /\ (Left(s)' => Left(s))
  BY <1>1, <1>2 DEF Unreported, Left, Running, HalfReceived
<1>4. MadeInv' /\ OneLeft'
  BY <1>1, <1>3 DEF RunInv, HandoffInv, MadeInv, OneLeft
<1>5. SettledWorkReported'
  BY <1>1, StaysReported
<1>6. LeftInv'
  <2>1. CASE RegisterReport
    <3>1. at' = "ack" /\ goal' = goal /\ current' = current /\ current \in reported'
          /\ at = "report"
      BY <2>1 DEF RegisterReport, GoTo
    <3>2. QED
      BY <1>3, <3>1 DEF LeftInv, RunInv, HandoffInv, Quiet
  <2>2. CASE AcknowledgeResult
    <3>1. /\ at = "ack" /\ current \in reported /\ reported' = reported
          /\ \/ at' = "finish" /\ goal' = goal /\ current' = current
             \/ at' = "recover"
             \/ at' = "cancelling" /\ goal' # "reapply"
      BY <2>2 DEF AcknowledgeResult, GoTo, RunInv, HandoffInv, LeftInv
    <3>2. CASE at' = "finish"
      <4>1. ~Unreported(current)'
        BY <3>1, <3>2 DEF Unreported
      <4>2. QED
        BY <1>3, <3>1, <3>2, <4>1 DEF LeftInv, RunInv, HandoffInv, Quiet
    <3>3. CASE at' # "finish"
      BY <3>1, <3>3 DEF LeftInv, Quiet
    <3>4. QED
      BY <3>2, <3>3
  <2>3. QED
    BY <2>1, <2>2
<1>7. QED
  BY <1>4, <1>5, <1>6 DEF HandoffInv

\* A result is finished once the Attempt is reported or waits, so only cancelled
\* tasks may still lack a report.
LEMMA FinishHandoff ==
  ASSUME RunInv, TypeInv', ReportInv', FinishResult
  PROVE  HandoffInv'
<1>1. /\ at = "finish" /\ goal \in {"dispatch", "reapply"}
      /\ UNCHANGED <<workOf, attempts, attemptStatus, reported>>
      /\ at' = IF goal = "reapply" THEN "recover" ELSE "schedule"
      /\ EvaluateRun \/ UNCHANGED <<taskStatus, workStatus>>
  BY DEF FinishResult, Continue, GoTo, RunInv, TasksInv, PointInv
<1>2. \A s \in Slots : results'[s] = results[s] \/ results'[s] = "none"
  BY HandoffTypes DEF RunInv, FinishResult
<1>3. \A s \in Slots : Unreported(s) => goal = "reapply" /\ taskStatus[s[1]] = "cancelled"
  BY <1>1 DEF RunInv, HandoffInv, LeftInv, Left
<1>4. SettledWorkReported' /\ \A t \in Tasks : Drifts(t)
  <2>1. CASE EvaluateRun
    BY <1>1, <1>3, <2>1, EvaluationHandsOver
  <2>2. CASE UNCHANGED <<taskStatus, workStatus>>
    BY <1>1, <2>2, StaysReported DEF Drifts
  <2>3. QED
    BY <1>1, <2>1, <2>2
<1>5. MadeInv' /\ OneLeft' /\ LeftInv'
  BY <1>1, <1>2, <1>3, <1>4, DriftKeeps DEF HandlesAttempt, Quiet
<1>6. QED
  BY <1>4, <1>5 DEF HandoffInv

\* A task Attempt nobody answered for is the one left by the owner that died.
LEMMA LostHandoff ==
  ASSUME RunInv, TypeInv', ReportInv', RecoverLostAttempt
  PROVE  HandoffInv'
<1> DEFINE slot == LastSlot(NextTask)
           b == TaskStatusFor("retryable", attempts[NextTask])
<1>1. /\ LeftTasks # {} /\ LeftOver(NextTask) = {} /\ at' = "report" /\ goal' = "recover"
      /\ attemptStatus' = [attemptStatus EXCEPT ![slot] = "failed"]
      /\ taskStatus' = [taskStatus EXCEPT ![NextTask] = b]
      /\ UNCHANGED <<attempts, reported, results, workOf, workStatus>>
  BY DEF RecoverLostAttempt, GoTo, workVars
<1>2. NextTask \in Tasks /\ taskStatus[NextTask] = "running"
  BY <1>1, NextTaskTyped DEF LeftTasks, RunInv
<1>3. /\ slot \in Slots /\ slot[1] = NextTask /\ slot[2] = attempts[slot[1]]
      /\ Left(slot) /\ slot \notin reported
  BY <1>2, LastSlotTyped DEF RunInv, TypeInv, StartedOK, LastSlot, ReportInv, Left, Past, Running,
                             AttemptOpen
<1>4. b \in TaskStatuses /\ "failed" \in AttemptStatuses \ {"running", "absent"}
  BY DEF TaskStatusFor, TaskStatuses, TaskLive, TaskLost, AttemptStatuses
<1> HIDE DEF slot, b
<1>5. MadeInv' /\ OneLeft' /\ SettledWorkReported'
  BY <1>1, <1>3, <1>4, EndedHandoff
<1>6. LeftInv'
  BY <1>1 DEF LeftInv, Quiet
<1>7. QED
  BY <1>5, <1>6 DEF HandoffInv

\* Cancelling an Attempt leaves only its report, and its task lost with it.
LEMMA CancelHandoff ==
  ASSUME RunInv, TypeInv', ReportInv', CancelAttempt
  PROVE  HandoffInv'
<1> DEFINE t == Min(OpenTasks)
           slot == LastSlot(t)
<1>1. /\ OpenTasks # {} /\ at = "cancelling" /\ at' = "report" /\ goal' = goal
      /\ taskStatus' = [u \in Tasks |-> IF u \in LiveTasks /\ u <= t THEN "cancelled"
                                        ELSE taskStatus[u]]
      /\ attemptStatus' = [attemptStatus EXCEPT ![slot] = "cancelled"]
      /\ UNCHANGED <<workOf, workStatus, attempts, results, reported>>
  BY DEF CancelAttempt, GoTo, workVars
<1>2. t \in OpenTasks /\ t \in LiveTasks /\ t \in Tasks /\ \A u \in OpenTasks : t <= u
  BY <1>1, MinInSet, TasksNat DEF OpenTasks, LiveTasks
<1> HIDE DEF t
<1>3. /\ slot \in Slots /\ slot[1] = t /\ slot[2] = attempts[t]
      /\ attemptStatus[slot] \in AttemptOpen
  BY <1>2, LastSlotTyped DEF OpenTasks, LastSlot, RunInv
<1>4. /\ attemptStatus \in [Slots -> AttemptStatuses]
      /\ \A s \in Slots : s[1] \in Tasks /\ s[2] \in Nat /\ s = <<s[1], s[2]>>
      /\ \A u \in Tasks : attempts[u] \in Nat
  BY HandoffTypes DEF RunInv
<1>5. taskStatus'[t] = "cancelled"
  BY <1>1, <1>2, TasksNat
<1> HIDE DEF slot
<1>6. \A s \in Slots : attemptStatus'[s] = IF s = slot THEN "cancelled" ELSE attemptStatus[s]
  BY <1>1, <1>3, <1>4
<1>7. goal # "dispatch"
  BY <1>1 DEF RunInv, TasksInv, PointInv
<1>8. MadeInv'
  <2>1. attemptStatus[slot] # "absent"
    BY <1>3 DEF AttemptOpen
  <2>2. \A s \in Slots : attemptStatus'[s] = "absent" <=> s[2] > attempts'[s[1]]
    BY <1>1, <1>6, <2>1 DEF RunInv, HandoffInv, MadeInv
  <2>3. ASSUME NEW s \in Slots, attemptStatus'[s] = "needs_user_input"
        PROVE  taskStatus'[s[1]] \in {"needs_user_input", "pending"}
    <3>1. s # slot /\ attemptStatus[s] = "needs_user_input"
      BY <1>6, <2>3
    <3>2. s = LastSlot(s[1]) /\ Resumes(s[1])
      BY <3>1, WaitingIsLast
    <3>3. s[1] # t
      BY <1>3, <1>4, <3>1, <3>2 DEF LastSlot
    <3>4. s[1] \in LiveTasks => s[1] \in OpenTasks
      BY <3>2 DEF OpenTasks, Resumes, AttemptOpen
    <3>5. ~(s[1] \in LiveTasks /\ s[1] <= t)
      <4>1. SUFFICES ASSUME s[1] \in LiveTasks, s[1] <= t PROVE FALSE
        OBVIOUS
      <4>2. t <= s[1] /\ t \in Nat /\ s[1] \in Nat
        BY <1>2, <1>4, <3>4, <4>1, TasksNat
      <4>3. QED
        BY <3>3, <4>1, <4>2
    <3>6. taskStatus'[s[1]] = taskStatus[s[1]]
      BY <1>1, <1>4, <3>5
    <3>7. QED
      BY <3>1, <3>6 DEF RunInv, HandoffInv, MadeInv
  <2>4. QED
    BY <1>1, <2>2, <2>3 DEF RunInv, HandoffInv, MadeInv
<1>9. OneLeft'
  <2>1. ASSUME NEW s \in Slots, Left(s)'
        PROVE  Left(s)
    <3>1. CASE s = slot
      BY <1>1, <1>3, <1>5, <1>6, <2>1, <3>1 DEF Left, Running, HalfReceived
    <3>2. CASE s # slot
      <4>1. s[1] \in Tasks
        BY <1>4
      <4>2. taskStatus'[s[1]] = taskStatus[s[1]] \/ taskStatus'[s[1]] = "cancelled"
        BY <1>1, <4>1
      <4>3. QED
        BY <1>1, <1>6, <2>1, <3>2, <4>2 DEF Left, Running, HalfReceived, Unreported
    <3>3. QED
      BY <3>1, <3>2
  <2>2. QED
    BY <2>1 DEF OneLeft, RunInv, HandoffInv
<1>10. LeftInv'
  <2>1. goal # "reapply"
    BY <1>1 DEF RunInv, HandoffInv, LeftInv
  <2>2. QED
    BY <1>1, <1>7, <2>1 DEF LeftInv, Quiet
<1>11. SettledWorkReported'
  <2>1. \A u \in Tasks : taskStatus'[u] = taskStatus[u] \/ taskStatus'[u] \notin TaskLive
    BY <1>1 DEF TaskLive
  <2>2. QED
    BY <1>1, <2>1, StaysReported
<1>12. QED
  BY <1>8, <1>9, <1>10, <1>11 DEF HandoffInv

\* Tasks are added to the live work, which is not over.
LEMMA AcceptHandoff ==
  ASSUME RunInv, TypeInv', ReportInv', AcceptTasks
  PROVE  HandoffInv'
<1> DEFINE new == (taskCount + 1)..(taskCount + compiled)
<1>1. PICK w \in LiveWorks :
        /\ workOf' = [t \in Tasks |-> IF t \in new THEN w ELSE workOf[t]]
        /\ taskStatus' = [t \in Tasks |-> IF t \in new THEN "pending" ELSE taskStatus[t]]
  BY DEF AcceptTasks
<1>2. /\ at = "accept" /\ at' = "accepted"
      /\ UNCHANGED <<attempts, attemptStatus, results, reported, workStatus>>
  BY DEF AcceptTasks, Continue, GoTo, attemptVars, workVars
<1>3. \A t \in Tasks : t \in new => attempts[t] = 0
  BY TasksNat DEF RunInv, TasksInv, DependencyInv, TypeInv, TypeOK, TaskTypeOK, WorkTypeOK
<1>4. MadeInv' /\ OneLeft' /\ LeftInv'
  <2>1. \A s \in Slots : ~Unreported(s)
    BY <1>2 DEF RunInv, HandoffInv, LeftInv, Quiet
  <2>2. \A t \in Tasks : Drifts(t)
    BY <1>1, <1>3 DEF Drifts
  <2>3. QED
    BY <1>2, <2>1, <2>2, DriftKeeps DEF HandlesAttempt
<1>5. SettledWorkReported'
  <2>1. workStatus[w] \notin WorkOver
    BY DEF LiveWorks, WorkLive, WorkOver
  <2>2. ASSUME NEW t \in Tasks, workStatus[workOf'[t]] \in WorkOver
        PROVE  workOf'[t] = workOf[t] /\ taskStatus'[t] = taskStatus[t]
    BY <1>1, <2>1, <2>2
  <2>3. QED
    BY <1>2, <2>2, StaysReported
<1>6. QED
  BY <1>4, <1>5 DEF HandoffInv

\* Work is cancelled once none of its Attempts is open and each has its report.
LEMMA CancelWorkHandoff ==
  ASSUME RunInv, TypeInv', ReportInv', FinishPause \/ FinishAbandon
  PROVE  HandoffInv'
<1>1. /\ OpenTasks = {} /\ ~Undeliverable /\ CancelWork /\ at' \in {"idle", "advance"}
      /\ UNCHANGED <<workOf, attempts, attemptStatus, results, reported>>
  BY DEF FinishPause, FinishAbandon, CancelledAll, CancelWork, Return, Continue, GoTo, attemptVars
<1>2. taskStatus' = [t \in Tasks |-> IF t \in LiveTasks THEN "cancelled" ELSE taskStatus[t]]
  BY <1>1 DEF CancelWork
<1>3. \A t \in Tasks : Drifts(t)
  <2>1. ASSUME NEW t \in LiveTasks
        PROVE  attempts[t] = 0 \/ attemptStatus[LastSlot(t)] \notin AttemptOpen
    <3>1. attempts[t] \in Nat
      BY HandoffTypes DEF RunInv, LiveTasks
    <3>2. QED
      BY <1>1, <3>1 DEF OpenTasks
  <2>2. QED
    BY <1>2, <2>1 DEF Drifts
<1>4. MadeInv' /\ OneLeft' /\ LeftInv'
  BY <1>1, <1>3, DriftKeeps DEF HandlesAttempt, Quiet
<1>5. SettledWorkReported'
  <2>1. ASSUME NEW t \in Tasks, workOf'[t] # NoWork, workStatus'[workOf'[t]] \in WorkOver
        PROVE  \/ /\ workStatus[workOf[t]] \in WorkOver
                  /\ taskStatus'[t] = taskStatus[t] \/ taskStatus'[t] \notin TaskLive
               \/ /\ taskStatus'[t] \notin TaskLive
                  /\ \A n \in 1..attempts'[t] : <<t, n>> \in reported'
    <3>1. workOf[t] \in Works
      BY <1>1, <2>1, HandoffTypes, WorksAssumption DEF RunInv, NoWork, Works
    <3>2. workOf[t] \in LiveWorks \/ workStatus[workOf[t]] \in WorkOver
      BY <1>1, <2>1, <3>1 DEF CancelWork
    <3>3. taskStatus'[t] = taskStatus[t] \/ taskStatus'[t] \notin TaskLive
      BY <1>2 DEF TaskLive
    <3>4. CASE workOf[t] \in LiveWorks
      <4>1. taskStatus'[t] \notin TaskLive
        BY <1>2, <3>4 DEF LiveTasks, TaskLive
      <4>2. ASSUME NEW n \in 1..attempts[t]
            PROVE  <<t, n>> \in reported
        <5>1. n \in 1..MaxAttempts /\ <<t, n>> \in Slots /\ ~(n > attempts[t])
          BY HandoffTypes DEF RunInv, Slots
        <5>2. attemptStatus[<<t, n>>] # "absent"
          BY <5>1 DEF RunInv, HandoffInv, MadeInv
        <5>3. QED
          BY <1>1, <3>4, <5>1, <5>2 DEF Undeliverable
      <4>3. QED
        BY <1>1, <4>1, <4>2
    <3>5. QED
      BY <3>2, <3>3, <3>4
  <2>2. QED
    BY <1>1, <2>1, StaysReported
<1>6. QED
  BY <1>4, <1>5 DEF HandoffInv

\* A parent that replies and a user who answers make waiting tasks of live work ready.
LEMMA AnsweredHandoff ==
  ASSUME RunInv, TypeInv', ReportInv', Reply \/ Answer
  PROVE  HandoffInv'
<1>1. /\ at' = "advance" /\ UNCHANGED <<workOf, attempts, attemptStatus, results, reported>>
      /\ workStatus' = workStatus \/ workStatus' = Consume(workStatus)
  BY DEF Reply, Answer, Continue, GoTo, attemptVars, workVars
<1>2. \A t \in Tasks : \/ taskStatus'[t] = taskStatus[t]
                       \/ taskStatus[t] = "needs_user_input" /\ taskStatus'[t] = "pending"
  BY DEF Reply, Answer, RunInv, TypeInv, TypeOK, TaskTypeOK
<1>3. MadeInv' /\ OneLeft' /\ LeftInv'
  BY <1>1, <1>2, DriftKeeps DEF Drifts, HandlesAttempt, Quiet
<1>4. SettledWorkReported'
  <2>1. ASSUME NEW t \in Tasks, workOf[t] # NoWork, workStatus'[workOf[t]] \in WorkOver
        PROVE  workStatus[workOf[t]] \in WorkOver /\ taskStatus'[t] = taskStatus[t]
    <3>1. workOf[t] \in Works
      BY <2>1, HandoffTypes, WorksAssumption DEF RunInv, NoWork, Works
    <3>2. workStatus[workOf[t]] \in WorkOver
      BY <1>1, <2>1, <3>1 DEF Consume, WorkOver
    <3>3. taskStatus[t] # "needs_user_input"
      BY <2>1, <3>2 DEF RunInv, HandoffInv, SettledWorkReported, WorkOver, TaskLive
    <3>4. QED
      BY <1>2, <3>2, <3>3
  <2>2. QED
    BY <1>1, <2>1, StaysReported
<1>5. QED
  BY <1>3, <1>4 DEF HandoffInv

-----------------------------------------------------------------------------
(* Every step. *)

\* The scheduler hands over what it settled.
LEMMA HandoffSchedulerStep ==
  ASSUME RunInv, TypeInv', ReportInv', SchedulerStep
  PROVE  HandoffInv'
<1>1. CASE \/ ScheduleReturns \/ ScheduleCancelled \/ DispatchCancelled
           \/ AgentCancelled \/ AgentUnstopped \/ RecoverRaises
  BY <1>1, SameHandoff
     DEF ScheduleReturns, BackToController, ScheduleCancelled, DispatchCancelled,
         AgentCancelled, AgentUnstopped, RecoverRaises, Continue, GoTo, Return, durable,
         workVars, HandlesAttempt, Quiet
<1>2. CASE ScheduleSettles
  <2>1. /\ at = "schedule" /\ at' \in {"pausing", "advance"} /\ EvaluateRun
        /\ UNCHANGED <<workOf, attempts, attemptStatus, reported, results>>
    BY <1>2 DEF ScheduleSettles, BackToController, Continue, GoTo, attemptVars
  <2>2. \A s \in Slots : ~Unreported(s)
    BY <2>1 DEF RunInv, HandoffInv, LeftInv, Quiet
  <2>3. SettledWorkReported' /\ \A t \in Tasks : Drifts(t)
    BY <2>1, <2>2, EvaluationHandsOver
  <2>4. MadeInv' /\ OneLeft' /\ LeftInv'
    BY <2>1, <2>3, DriftKeeps DEF HandlesAttempt, Quiet
  <2>5. QED
    BY <2>3, <2>4 DEF HandoffInv
<1>3. CASE StartAttempt
  BY <1>3, StartHandoff
<1>4. CASE RejectRequest
  <2>1. /\ at = "dispatch" /\ at' = "report" /\ goal' = "dispatch" /\ current' = current
        /\ attemptStatus' = [attemptStatus EXCEPT ![current] = "failed"]
        /\ taskStatus' = [taskStatus EXCEPT ![current[1]] = "failed"]
        /\ UNCHANGED <<attempts, reported, results, workOf, workStatus>>
    BY <1>4 DEF RejectRequest, GoTo, workVars
  <2>2. /\ current \in Slots /\ current[2] = attempts[current[1]]
        /\ Left(current) /\ current \notin reported
    BY <2>1, CurrentTyped DEF RunInv, TasksInv, PointInv, HandlesAttempt, ReportInv, Left, Past,
                              Running, AttemptOpen
  <2>3. "failed" \in AttemptStatuses \ {"running", "absent"} /\ "failed" \in TaskStatuses
    BY DEF AttemptStatuses, TaskStatuses, TaskLost
  <2>4. /\ MadeInv' /\ OneLeft' /\ SettledWorkReported'
        /\ \A s \in Slots : Unreported(s)' => Unreported(s) \/ s = current
    BY <2>1, <2>2, <2>3, EndedHandoff
  <2>5. \A s \in Slots : ~Unreported(s)
    BY <2>1 DEF RunInv, HandoffInv, LeftInv
  <2>6. LeftInv'
    BY <2>1, <2>4, <2>5 DEF LeftInv, Quiet
  <2>7. QED
    BY <2>4, <2>6 DEF HandoffInv
<1>5. CASE DispatchAgent \/ AgentReturns
  <2>1. /\ at \in {"dispatch", "agent"} /\ at' \in {"agent", "received"} /\ current' = current
        /\ UNCHANGED <<attempts, attemptStatus, taskStatus, reported, workOf, workStatus>>
        /\ \A s \in Slots : s # current => results'[s] = results[s]
    BY <1>5, HandoffTypes DEF DispatchAgent, AgentReturns, GoTo, taskVars, attemptVars, workVars,
                              RunInv
  <2>2. \A s \in Slots : ~Unreported(s) /\ ~Unreported(s)'
    BY <2>1 DEF RunInv, HandoffInv, LeftInv, Unreported
  <2>3. Left(current) /\ \A s \in Slots : Left(s)' => Left(s)
    BY <2>1 DEF RunInv, ReportInv, Left, Running, HalfReceived, Unreported
  <2>4. MadeInv' /\ OneLeft' /\ LeftInv'
    BY <2>1, <2>2, <2>3 DEF RunInv, HandoffInv, MadeInv, OneLeft, LeftInv
  <2>5. SettledWorkReported'
    BY <2>1, StaysReported
  <2>6. QED
    BY <2>4, <2>5 DEF HandoffInv
<1>6. CASE ReceiveResult
  <2>1. at = "received" /\ ApplyResult(current, "dispatch")
    BY <1>6 DEF ReceiveResult
  <2>2. current \in Slots /\ HalfReceived(current) /\ current \notin reported
    BY <2>1 DEF RunInv, TypeInv, PointOK, HandlesAttempt, HalfReceived, ReportInv, Past, Running,
                AttemptOpen
  <2>3. QED
    BY <2>1, <2>2, ApplyHandoff
<1>7. CASE RecoverResult
  <2>1. /\ ApplyResult(NextLeftOver, "reapply") /\ HalfReceived(NextLeftOver)
        /\ NextLeftOver \in Slots /\ NextLeftOver \notin reported
    BY <1>7, NextLeftOverTyped DEF RecoverResult, RunInv
  <2>2. QED
    BY <2>1, ApplyHandoff
<1>8. CASE RegisterReport \/ AcknowledgeResult
  BY <1>8, ReportHandoff
<1>9. CASE FinishResult
  BY <1>9, FinishHandoff
<1>10. CASE RecoverAcknowledgement \/ RecoverReport
  <2>1. /\ goal' = "recover" /\ current' = NextLeftOver
        /\ at' = "report" \/ (at' = "ack" /\ NextLeftOver \in reported)
        /\ UNCHANGED <<attempts, attemptStatus, taskStatus, reported, results, workOf, workStatus>>
    BY <1>10 DEF RecoverAcknowledgement, RecoverReport, GoTo, durable, taskVars, attemptVars,
                 workVars
  <2>2. MadeInv' /\ OneLeft'
    BY <2>1 DEF RunInv, HandoffInv, MadeInv, OneLeft, Left, Running, HalfReceived, Unreported
  <2>3. LeftInv'
    BY <2>1 DEF LeftInv, Quiet
  <2>4. SettledWorkReported'
    BY <2>1, StaysReported
  <2>5. QED
    BY <2>2, <2>3, <2>4 DEF HandoffInv
<1>11. CASE RecoverLostAttempt
  BY <1>11, LostHandoff
<1>12. ASSUME LeftTasks = {}
       PROVE  \A s \in Slots : ~Unreported(s)
  <2>1. ASSUME NEW s \in Slots, Unreported(s)
        PROVE  FALSE
    <3>1. s[1] \in Tasks /\ s[2] \in 1..MaxAttempts /\ s = <<s[1], s[2]>>
          /\ attempts[s[1]] \in 0..MaxAttempts /\ MaxAttempts \in Nat
      BY HandoffTypes DEF RunInv
    <3>2. ~(s[2] > attempts[s[1]])
      BY <2>1 DEF RunInv, HandoffInv, MadeInv, Unreported
    <3>3. s[2] \in 1..attempts[s[1]]
      BY <3>1, <3>2
    <3>4. s[2] \in LeftOver(s[1])
      BY <2>1, <3>1, <3>3 DEF LeftOver
    <3>5. QED
      BY <1>12, <3>1, <3>4 DEF LeftTasks
  <2>2. QED
    BY <2>1
<1>13. CASE RecoverEnds
  <2>1. /\ LeftTasks = {} /\ at' = "advance" /\ EvaluateRun
        /\ UNCHANGED <<workOf, attempts, attemptStatus, reported, results>>
    BY <1>13 DEF RecoverEnds, Continue, GoTo, attemptVars
  <2>2. SettledWorkReported' /\ \A t \in Tasks : Drifts(t)
    BY <1>12, <2>1, EvaluationHandsOver
  <2>3. MadeInv' /\ OneLeft' /\ LeftInv'
    BY <2>1, <2>2, DriftKeeps DEF HandlesAttempt, Quiet
  <2>4. QED
    BY <2>2, <2>3 DEF HandoffInv
<1>14. CASE NothingToRecover
  <2>1. LeftTasks = {} /\ at' = "checks" /\ UNCHANGED <<taskVars, attemptVars, workVars>>
    BY <1>14 DEF NothingToRecover, Continue, GoTo, durable
  <2>2. MadeInv' /\ OneLeft' /\ LeftInv'
    BY <1>12, <2>1, DriftKeeps DEF Drifts, taskVars, attemptVars, HandlesAttempt
  <2>3. SettledWorkReported'
    BY <2>1, StaysReported DEF taskVars, attemptVars, workVars
  <2>4. QED
    BY <2>2, <2>3 DEF HandoffInv
<1>15. QED
  BY <1>1, <1>2, <1>3, <1>4, <1>5, <1>6, <1>7, <1>8, <1>9, <1>10, <1>11, <1>13, <1>14
     DEF SchedulerStep

\* The controller consumes or cancels work that is over, and starts work that is not.
LEMMA HandoffOwnerStep ==
  ASSUME RunInv, TypeInv', ReportInv', OwnerStep
  PROVE  HandoffInv'
<1> USE DEF Continue, GoTo, Return, HandlesAttempt, Quiet, workVars
<1>1. CASE AdvanceReturns \/ AdvanceConsumes \/ AdvanceFails \/ ResumeTurn \/ InvokeScientific
  BY <1>1, SameHandoff DEF AdvanceReturns, AdvanceConsumes, AdvanceFails, ResumeTurn,
                           InvokeScientific, MayInvoke, durable
<1>2. ASSUME NEW w \in Works, NEW to \in {"compiling", "executing", "failed"}, SetWork(w, to)
      PROVE  \A v \in Works : workStatus'[v] \in WorkOver => workStatus[v] \in WorkOver
  BY <1>2 DEF SetWork, WorkOver, RunInv, TypeInv, TypeOK, WorkTypeOK
<1>3. CASE DriveExecuting \/ DriveAccepted
  BY <1>3, SameHandoff DEF DriveExecuting, DriveAccepted, MayInvoke, durable
<1>4. CASE NoTaskSlots \/ StartCompilation
  <2>1. /\ at = "checks" /\ at' \in {"advance", "compile", "accept"}
        /\ UNCHANGED <<taskVars, attemptVars>>
    BY <1>4 DEF NoTaskSlots, StartCompilation, NeedsCompilation, MayInvoke, FailWork
  <2>2. \E w \in Works, to \in {"compiling", "failed"} : SetWork(w, to)
    BY <1>4 DEF NoTaskSlots, StartCompilation, FailWork, DrivenWorks, LiveWorks
  <2>3. QED
    BY <1>2, <2>1, <2>2, SameHandoff
<1>5. CASE WorkRejected \/ CompileExhausted \/ StartExecution
  <2>1. /\ at \in Quiet /\ at' \in {"advance", "schedule"} /\ UNCHANGED <<taskVars, attemptVars>>
    BY <1>5 DEF WorkRejected, CompileExhausted, StartExecution, FailWork
  <2>2. \E w \in Works, to \in {"executing", "failed"} : SetWork(w, to)
    BY <1>5 DEF WorkRejected, CompileExhausted, StartExecution, FailWork, LiveWorks
  <2>3. QED
    BY <1>2, <2>1, <2>2, SameHandoff
<1>6. CASE Compile \/ CompileCancelled \/ ScientificReturns \/ ScientificCancelled
  BY <1>6, SameHandoff DEF Compile, CompileCancelled, ScientificReturns, ScientificCancelled,
                           durable
<1>7. CASE AcceptTasks
  BY <1>7, AcceptHandoff
<1>8. CASE \/ DeferCompletion \/ ValidateCompletion \/ DeferUnderFence \/ FinishDefer
           \/ CompleteRun \/ RejectCompletion
  BY <1>8, SameHandoff DEF DeferCompletion, ValidateCompletion, DeferUnderFence, FinishDefer,
                           CompleteRun, RejectCompletion, durable, Consume, WorkOver
<1>9. CASE RequestWork
  <2>1. \A w \in Works : workStatus'[w] \in WorkOver => workStatus[w] \in WorkOver
    BY <1>9 DEF RequestWork, Consume, WorkOver
  <2>2. QED
    BY <1>9, <2>1, SameHandoff DEF RequestWork
<1>10. CASE Abandon \/ AskUser \/ YieldTurn \/ FailTurn
  BY <1>10, SameHandoff DEF Abandon, AskUser, YieldTurn, FailTurn, durable, Consume, WorkOver
<1>11. CASE PauseConsumes \/ CancelRaises
  BY <1>11, SameHandoff DEF PauseConsumes, CancelRaises
<1>12. CASE Reply
  BY <1>12, AnsweredHandoff
<1>13. CASE CancelAttempt
  BY <1>13, CancelHandoff
<1>14. CASE FinishPause \/ FinishAbandon
  BY <1>14, CancelWorkHandoff
<1>15. CASE SchedulerStep
  BY <1>15, HandoffSchedulerStep
<1>16. QED
  BY <1>1, <1>3, <1>4, <1>5, <1>6, <1>7, <1>8, <1>9, <1>10, <1>11, <1>12, <1>13, <1>14, <1>15
     DEF OwnerStep

\* So it holds in every step, given the other invariants.
LEMMA HandoffNext ==
  RunInv /\ TypeInv' /\ ReportInv' /\ [Next]_vars => HandoffInv'
<1> SUFFICES ASSUME RunInv, TypeInv', ReportInv', [Next]_vars PROVE HandoffInv'
  OBVIOUS
<1>1. CASE OwnerStep
  BY <1>1, HandoffOwnerStep
<1>2. CASE Resume \/ Crash
  BY <1>2, SameHandoff DEF Resume, Crash, Continue, GoTo, Return, HandlesAttempt, Quiet, durable,
                           workVars
<1>3. CASE Answer
  BY <1>3, AnsweredHandoff
<1>4. CASE Submit \/ Watch \/ Expire \/ UNCHANGED vars
  <2>1. UNCHANGED <<taskVars, attemptVars, workVars, at, goal, current>>
    BY <1>4 DEF Submit, Watch, Expire, vars, durable, ownerVars
  <2>2. MadeInv' /\ OneLeft' /\ LeftInv'
    BY <2>1 DEF RunInv, HandoffInv, MadeInv, OneLeft, LeftInv, Left, Running, HalfReceived,
                Unreported, taskVars, attemptVars
  <2>3. SettledWorkReported'
    BY <2>1, StaysReported DEF taskVars, attemptVars, workVars
  <2>4. QED
    BY <2>2, <2>3 DEF HandoffInv
<1>5. QED
  BY <1>1, <1>2, <1>3, <1>4 DEF Next, Environment

\* A created Run has no work and no Attempt.
LEMMA HandoffInit == Init => ReportInv /\ HandoffInv
<1> SUFFICES ASSUME Init PROVE ReportInv /\ HandoffInv
  OBVIOUS
<1>1. \A s \in Slots : attemptStatus[s] = "absent" /\ results[s] = "none" /\ s[2] > attempts[s[1]]
  BY SlotTyped DEF Init
<1>2. MadeInv
  BY <1>1, SlotTyped, AttemptsAssumption DEF Init, MadeInv
<1>3. OneLeft /\ LeftInv
  BY <1>1 DEF Init, OneLeft, LeftInv, Left, Running, HalfReceived, Unreported, Quiet
<1>4. QED
  BY <1>2, <1>3 DEF Init, ReportInv, HandoffInv, SettledWorkReported, NoWork

\* The parent and the interpreter are only handed work that is over: no task of it
\* is live, no Attempt of it open, and every one has its report, whichever owner
\* died between an outcome and its report.
THEOREM HandsOverReported == Spec => []SettledWorkReported
<1>1. RunInv => SettledWorkReported
  BY DEF RunInv, HandoffInv
<1>2. TypeInv /\ TasksInv /\ ReportInv /\ HandoffInv => RunInv
  BY DEF RunInv
<1>3. QED
  BY <1>1, <1>2, HandoffInit, HandoffNext, ReportsNext, TasksAlways, PTL DEF Spec

-----------------------------------------------------------------------------
(* The life of one owner.  While no owner has died, every call ends with its *)
(* Attempts settled, so that there is never anything to recover; what a dead *)
(* owner leaves is where the properties below stop to hold.                  *)

\* Nothing runs, nothing saved waits to be applied, and every ended Attempt is reported.
Clean == \A s \in Slots : ~Running(s) /\ ~HalfReceived(s) /\ ~Unreported(s)

\* Work is being cancelled, for a pause or at the parent's wish.
Winding == at \in {"pausing", "cancelling"} \/ (at \in {"report", "ack"} /\ goal \in {"pause", "abandon"})

\* No subroutine is called for a recovery, and a Run left to go on is left clean.
OwnerInv ==
  /\ at \in {"dispatch", "agent", "received", "finish"} => goal = "dispatch"
  /\ at \in {"report", "ack"} => goal \in {"dispatch", "pause", "abandon"}
  /\ at = "cancelling" => goal \in {"pause", "abandon"}
  /\ at \in {"defer", "fencedDefer"} => goal \in {"none", "pause"}
  /\ at \notin HandlesAttempt \union {"cancelling", "defer", "fencedDefer"} => goal = "none"
  /\ at = "recover" \/ (at \in {"idle", "advance"} /\ status \notin RunTerminal) => Clean
  /\ Winding => \A s \in Slots : ~HalfReceived(s) /\ (Unreported(s) => at = "report" /\ s = current)

\* A task that is live belongs to work that is live.
LiveInv == \A t \in Tasks : taskStatus[t] \in TaskLive => workOf[t] \in LiveWorks

\* A Run that ended is only left alone; one that is paused works on nothing but its pause; a
\* question pauses it, and a stop that nobody confirmed ends it.
StatusInv ==
  /\ status \in RunTerminal => at \in {"idle", "advance", "schedule"}
  /\ status = "paused" =>
       \/ at \in {"idle", "advance", "schedule", "pausing", "finish"}
       \/ at \in {"cancelling", "report", "ack"} /\ goal = "pause"
  /\ question # "none" => status = "paused" \/ at = "finish"
  /\ at = "finish" => (status = "paused" <=> results[current] = "interrupted")
  /\ unconfirmed => status = "failed"
  /\ \A s \in Slots : attemptStatus[s] = "unstopped" =>
       status = "failed" \/ (at \in {"report", "ack", "finish"} /\ goal = "dispatch" /\ s = current)
  /\ at = "finish" /\ attemptStatus[current] = "unstopped" =>
       status = "running" /\ question = "none"

\* What was consumed is delivered, or the parent is due a turn; a turn delivers what was
\* consumed when it was answered, and nothing more is consumed until it is applied.  An
\* interrupt that was consumed is noticed, or its pause is under way.
HeardInv ==
  /\ sciResult.kind # "none" /\ status \notin RunTerminal =>
       at \in {"turn", "settle", "defer", "fencedDefer"} \/ goal = "abandon"
  /\ at \in {"turn", "settle"} \/ goal = "abandon" => sciResult.inputs = consumed
  /\ attention \/ TextsDelivered
  /\ at \in {"dispatch", "agent", "received"} \/ status = "completed" => TextsDelivered
  /\ InterruptsNoticed \/ at = "pausing" \/ goal = "pause"

\* A task that waits is answered by the parent or the user, unless a pause is on its way to
\* cancel it.
AnsweredInv ==
  /\ at \in {"dispatch", "agent", "received"} => ~attention
  /\ at = "received" => current \notin received
  /\ at = "received" /\ results[current] = "interrupted" => token
  /\ \A t \in Tasks : taskStatus[t] = "needs_user_input" =>
       \/ attention
       \/ question = "approval" /\ questionTask = t
       \/ at = "pausing" \/ goal = "pause"
       \/ at \in {"finish", "schedule"} /\ status = "paused" /\ token

OneLifeInv == OwnerInv /\ LiveInv /\ StatusInv /\ HeardInv /\ AnsweredInv

\* The steps of an owner that has nothing to recover, and of the user beside it.
SchedulerMoves ==
  \/ ScheduleReturns \/ ScheduleCancelled \/ ScheduleSettles \/ StartAttempt
  \/ RejectRequest \/ DispatchAgent \/ DispatchCancelled
  \/ AgentReturns \/ AgentCancelled \/ AgentUnstopped
  \/ ReceiveResult \/ RegisterReport \/ AcknowledgeResult \/ FinishResult \/ NothingToRecover
TurnMoves ==
  \/ ScientificReturns \/ ScientificCancelled
  \/ DeferCompletion \/ ValidateCompletion \/ DeferUnderFence \/ FinishDefer
  \/ CompleteRun \/ RejectCompletion
  \/ RequestWork \/ Reply \/ Abandon \/ AskUser \/ YieldTurn \/ FailTurn
WorkMoves ==
  \/ DriveExecuting \/ DriveAccepted \/ NoTaskSlots \/ StartCompilation
  \/ Compile \/ CompileCancelled \/ WorkRejected \/ CompileExhausted
  \/ AcceptTasks \/ StartExecution
LoopMoves ==
  \/ AdvanceReturns \/ AdvanceConsumes \/ AdvanceFails \/ ResumeTurn \/ InvokeScientific
  \/ PauseConsumes \/ CancelAttempt \/ FinishPause \/ FinishAbandon
UserMoves == Submit \/ Answer \/ Resume \/ Watch \/ Expire \/ UNCHANGED vars

\* Where nothing is left, recovery finds nothing.
LEMMA CleanLeavesNothing ==
  ASSUME RunInv, Clean
  PROVE  LeftTasks = {}
<1> SUFFICES ASSUME NEW t \in LeftTasks PROVE FALSE
  OBVIOUS
<1>1. t \in Tasks /\ (LeftOver(t) # {} \/ taskStatus[t] = "running")
  BY DEF LeftTasks
<1>2. CASE LeftOver(t) # {}
  <2>1. PICK n \in 1..attempts[t] : HalfReceived(<<t, n>>) \/ Unreported(<<t, n>>)
    BY <1>2 DEF LeftOver
  <2>2. n \in 1..MaxAttempts
    BY <1>1, <2>1, HandoffTypes DEF RunInv
  <2>3. <<t, n>> \in Slots
    BY <1>1, <2>2 DEF Slots
  <2>4. QED
    BY <2>1, <2>3 DEF Clean
<1>3. CASE taskStatus[t] = "running"
  <2>1. LastSlot(t) \in Slots /\ Running(LastSlot(t))
    BY <1>1, <1>3, LastSlotTyped DEF RunInv, TypeInv, StartedOK, ReportInv
  <2>2. QED
    BY <2>1 DEF Clean
<1>4. QED
  BY <1>1, <1>2, <1>3

\* Where the owner decides what comes next, nothing is left.
LEMMA QuietIsClean ==
  ASSUME RunInv, at \in Quiet
  PROVE  Clean
BY DEF RunInv, TasksInv, PointInv, HandoffInv, LeftInv, Clean

\* Once no open Attempt can be cancelled any more, nothing is left either, and every Attempt
\* has its report.
LEMMA CancelledIsClean ==
  ASSUME RunInv, OwnerInv, LiveInv, at = "cancelling", OpenTasks = {}
  PROVE  Clean /\ ~Undeliverable
<1>1. \A s \in Slots : ~HalfReceived(s) /\ ~Unreported(s)
  BY DEF OwnerInv, Winding
<1>2. ASSUME NEW s \in Slots, attemptStatus[s] \in AttemptOpen
      PROVE  FALSE
  <2>1. /\ s[1] \in Tasks /\ s[2] = attempts[s[1]] /\ s = LastSlot(s[1]) /\ attempts[s[1]] > 0
        /\ taskStatus[s[1]] \in TaskLive
    <3>1. CASE Running(s)
      <4>1. s[1] \in Tasks /\ s[2] \in 1..MaxAttempts /\ s = <<s[1], s[2]>>
        BY SlotTyped
      <4>2. s[2] = attempts[s[1]] /\ taskStatus[s[1]] = "running"
        BY <3>1 DEF RunInv, TasksInv, AttemptInv
      <4>3. QED
        BY <4>1, <4>2 DEF LastSlot, TaskLive
    <3>2. CASE attemptStatus[s] = "needs_user_input"
      <4>1. s[1] \in Tasks
        BY SlotTyped
      <4>2. taskStatus[s[1]] \in TaskLive
        BY <3>2 DEF RunInv, HandoffInv, MadeInv, TaskLive
      <4>3. QED
        BY <3>2, <4>1, <4>2, WaitingIsLast DEF Resumes
    <3>3. QED
      BY <1>2, <3>1, <3>2 DEF AttemptOpen, Running
  <2>2. s[1] \in OpenTasks
    BY <1>2, <2>1 DEF LiveInv, OpenTasks, LiveTasks
  <2>3. QED
    BY <2>2
<1>3. ~Undeliverable
  <2> SUFFICES ASSUME NEW t \in Tasks, NEW n \in 1..MaxAttempts,
                      attemptStatus[<<t, n>>] # "absent", <<t, n>> \notin reported
               PROVE  FALSE
    BY DEF Undeliverable
  <2>1. <<t, n>> \in Slots
    BY DEF Slots
  <2>2. QED
    BY <1>1, <1>2, <2>1 DEF Unreported
<1>4. QED
  BY <1>1, <1>2, <1>3 DEF Clean, Running, AttemptOpen

\* So while no owner dies, no step recovers anything and no cancellation is refused.
LEMMA NothingRecovers ==
  ASSUME RunInv, OneLifeInv, crashes = 0, crashes' = 0, [Next]_vars
  PROVE  SchedulerMoves \/ TurnMoves \/ WorkMoves \/ LoopMoves \/ UserMoves
<1>1. at = "recover" => LeftTasks = {} /\ goal = "none"
  BY CleanLeavesNothing DEF OneLifeInv, OwnerInv, HandlesAttempt
<1>2. ~(RecoverResult \/ RecoverRaises \/ RecoverAcknowledgement \/ RecoverReport
        \/ RecoverLostAttempt \/ RecoverEnds)
  BY <1>1 DEF RecoverResult, RecoverRaises, RecoverAcknowledgement, RecoverReport,
              RecoverLostAttempt, RecoverEnds, RecoversAttempt
<1>3. ~CancelRaises
  BY CancelledIsClean DEF OneLifeInv, CancelRaises
<1>4. ~Crash
  BY DEF Crash
<1>5. QED
  BY <1>2, <1>3, <1>4 DEF Next, OwnerStep, SchedulerStep, Environment, SchedulerMoves, TurnMoves,
                          WorkMoves, LoopMoves, UserMoves

\* A step that handles no Attempt and cancels nothing new keeps the owner's invariant when
\* nothing is left.
LEMMA CleanOwner ==
  ASSUME Clean, UNCHANGED <<attemptStatus, reported, results>>, at' \notin HandlesAttempt,
         goal' \in {"none", "pause", "abandon"},
         at' = "cancelling" => goal' # "none", at' \in {"defer", "fencedDefer"} => goal' # "abandon",
         at' \notin {"cancelling", "defer", "fencedDefer"} => goal' = "none"
  PROVE  OwnerInv'
BY DEF Clean, OwnerInv, HandlesAttempt, Winding, Running, HalfReceived, Unreported

\* Every step leaves the Run clean where it has to be.
LEMMA OwnerMoves ==
  ASSUME RunInv, OneLifeInv, SchedulerMoves \/ TurnMoves \/ WorkMoves \/ LoopMoves \/ UserMoves
  PROVE  OwnerInv'
<1> USE DEF GoTo, Continue, Return
<1>0. OwnerInv /\ StatusInv
  BY DEF OneLifeInv
<1>1. /\ at \in Quiet \union {"recover"} => Clean
      /\ at \in {"idle", "advance"} /\ status \notin RunTerminal => Clean
  BY <1>0, QuietIsClean DEF OwnerInv
<1>2. CASE ScheduleReturns \/ ScheduleCancelled \/ ScheduleSettles \/ NothingToRecover
  <2>1. /\ at \in {"schedule", "recover"} /\ UNCHANGED <<attemptStatus, reported, results>>
        /\ at' \in {"advance", "pausing", "checks"} /\ goal' = "none"
    BY <1>2 DEF ScheduleReturns, ScheduleCancelled, ScheduleSettles, NothingToRecover,
                BackToController, durable, attemptVars
  <2>2. QED
    BY <1>1, <2>1, CleanOwner DEF Quiet, HandlesAttempt
<1>3. CASE \/ StartAttempt \/ RejectRequest \/ DispatchAgent \/ AgentReturns \/ ReceiveResult
           \/ FinishResult
  <2>1. (at' \in HandlesAttempt /\ goal' = "dispatch") \/ (at' = "schedule" /\ goal' = "none")
    <3>1. CASE StartAttempt
      BY <3>1 DEF StartAttempt, HandlesAttempt
    <3>2. CASE RejectRequest \/ DispatchAgent \/ AgentReturns
      BY <3>2 DEF RejectRequest, DispatchAgent, AgentReturns, HandlesAttempt
    <3>3. CASE ReceiveResult
      BY <3>3 DEF ReceiveResult, ApplyResult, HandlesAttempt
    <3>4. CASE FinishResult
      <4>1. goal = "dispatch"
        BY <1>0, <3>4 DEF FinishResult, OwnerInv
      <4>2. QED
        BY <3>4, <4>1 DEF FinishResult
    <3>5. QED
      BY <1>3, <3>1, <3>2, <3>3, <3>4
  <2>2. QED
    BY <2>1 DEF OwnerInv, HandlesAttempt, Winding
<1>4. CASE DispatchCancelled \/ AgentCancelled \/ AgentUnstopped
  <2>1. /\ at \in {"dispatch", "agent"} /\ UNCHANGED <<attemptStatus, reported, results>>
        /\ goal' = "none" /\ (at' = "pausing" \/ (at' = "idle" /\ status' = "failed"))
    BY <1>4 DEF DispatchCancelled, AgentCancelled, AgentUnstopped, FailRun, durable, attemptVars
  <2>2. \A s \in Slots : ~HalfReceived(s) /\ ~Unreported(s)
    BY <2>1 DEF RunInv, TasksInv, PointInv, HandoffInv, LeftInv
  <2>3. \A s \in Slots : ~HalfReceived(s)' /\ ~Unreported(s)'
    BY <2>1, <2>2 DEF HalfReceived, Unreported
  <2>4. QED
    BY <2>1, <2>3 DEF OwnerInv, HandlesAttempt, Winding, RunTerminal
<1>5. CASE RegisterReport \/ AcknowledgeResult
  <2>1. /\ at \in {"report", "ack"} /\ goal' = goal /\ UNCHANGED attemptStatus
        /\ \/ at = "report" /\ at' = "ack" /\ reported' = reported \union {current} /\ results' = results
           \/ /\ at = "ack" /\ reported' = reported
              /\ results' = [results EXCEPT ![current] = "none"]
              /\ at' = IF goal = "dispatch" THEN "finish" ELSE "cancelling"
    BY <1>0, <1>5 DEF RegisterReport, AcknowledgeResult, OwnerInv
  <2>2. CASE goal = "dispatch"
    BY <2>1, <2>2 DEF OwnerInv, HandlesAttempt, Winding
  <2>3. CASE goal # "dispatch"
    <3>1. goal \in {"pause", "abandon"} /\ Winding
      BY <1>0, <2>1, <2>3 DEF OwnerInv, Winding
    <3>2. \A s \in Slots : ~HalfReceived(s) /\ (Unreported(s) => at = "report" /\ s = current)
      BY <1>0, <3>1 DEF OwnerInv
    <3>3. \A s \in Slots : results'[s] = results[s] \/ results'[s] = "none"
      BY <2>1, HandoffTypes DEF RunInv
    <3>4. \A s \in Slots : ~HalfReceived(s)' /\ ~Unreported(s)'
      BY <2>1, <3>2, <3>3 DEF HalfReceived, Unreported
    <3>5. QED
      BY <2>1, <2>3, <3>1, <3>4 DEF OwnerInv, HandlesAttempt, Winding
  <2>4. QED
    BY <2>2, <2>3
<1>6. CASE TurnMoves \/ WorkMoves \/ AdvanceFails \/ ResumeTurn \/ InvokeScientific
  <2>1. /\ at \in Quiet
        /\ UNCHANGED <<attemptStatus, reported, results>> /\ at' \notin HandlesAttempt
        /\ goal' \in {"none", "pause", "abandon"}
        /\ at' = "cancelling" => goal' # "none"
        /\ at' \in {"defer", "fencedDefer"} => goal' # "abandon"
        /\ at' \notin {"cancelling", "defer", "fencedDefer"} => goal' = "none"
    <3>1. CASE TurnMoves
      BY <3>1
         DEF TurnMoves, ScientificReturns, ScientificCancelled, DeferCompletion, ValidateCompletion,
             DeferUnderFence, FinishDefer, CompleteRun, RejectCompletion, RequestWork, Reply, Abandon,
             AskUser, YieldTurn, FailTurn, durable, attemptVars, Quiet, HandlesAttempt
    <3>2. CASE WorkMoves
      BY <3>2
         DEF WorkMoves, DriveExecuting, DriveAccepted, NoTaskSlots, StartCompilation, Compile,
             CompileCancelled, WorkRejected, CompileExhausted, AcceptTasks, StartExecution, MayInvoke,
             NeedsCompilation, FailWork, durable, attemptVars, Quiet, HandlesAttempt
    <3>3. CASE AdvanceFails \/ ResumeTurn \/ InvokeScientific
      BY <3>3
         DEF AdvanceFails, ResumeTurn, InvokeScientific, MayInvoke, durable, attemptVars, Quiet,
             HandlesAttempt
    <3>4. QED
      BY <1>6, <3>1, <3>2, <3>3
  <2>2. QED
    BY <1>1, <2>1, CleanOwner
<1>7. CASE AdvanceReturns
  BY <1>7 DEF AdvanceReturns, OwnerInv, HandlesAttempt, Winding, durable, runVars
<1>8. CASE AdvanceConsumes \/ Answer \/ Resume
  <2>1. /\ at \in {"idle", "advance"} /\ status \notin RunTerminal
        /\ UNCHANGED <<attemptStatus, reported, results>> /\ at' \notin HandlesAttempt
        /\ goal' = "none" /\ at' \in {"idle", "advance", "recover", "pausing"}
    BY <1>0, <1>8 DEF AdvanceConsumes, Answer, Resume, StatusInv, attemptVars, RunTerminal,
                      HandlesAttempt
  <2>2. QED
    BY <1>1, <2>1, CleanOwner
<1>9. CASE PauseConsumes
  <2>1. /\ at = "pausing" /\ UNCHANGED <<attemptStatus, reported, results>>
        /\ at' = "cancelling" /\ goal' = "pause"
    BY <1>9 DEF PauseConsumes, attemptVars
  <2>2. QED
    BY <1>0, <2>1 DEF OwnerInv, HandlesAttempt, Winding, HalfReceived, Unreported
<1>10. CASE CancelAttempt
  <2>1. /\ at = "cancelling" /\ UNCHANGED <<reported, results, goal>> /\ at' = "report"
        /\ attemptStatus' = [attemptStatus EXCEPT ![current'] = "cancelled"]
    BY <1>10 DEF CancelAttempt
  <2>2. goal \in {"pause", "abandon"} /\ \A s \in Slots : ~HalfReceived(s) /\ ~Unreported(s)
    BY <1>0, <2>1 DEF OwnerInv, Winding
  <2>3. \A s \in Slots : s # current' => attemptStatus'[s] = attemptStatus[s]
    BY <2>1, HandoffTypes DEF RunInv
  <2>4. \A s \in Slots : ~HalfReceived(s)' /\ (Unreported(s)' => s = current')
    BY <2>1, <2>2, <2>3 DEF HalfReceived, Unreported
  <2>5. QED
    BY <2>1, <2>2, <2>4 DEF OwnerInv, HandlesAttempt, Winding
<1>11. CASE FinishPause \/ FinishAbandon
  <2>1. /\ at = "cancelling" /\ OpenTasks = {} /\ UNCHANGED <<attemptStatus, reported, results>>
        /\ at' \in {"idle", "advance"} /\ goal' = "none"
    BY <1>11 DEF FinishPause, FinishAbandon, CancelledAll, CancelWork, attemptVars
  <2>2. Clean
    BY <2>1, CancelledIsClean DEF OneLifeInv
  <2>3. QED
    BY <2>1, <2>2, CleanOwner DEF HandlesAttempt
<1>12. CASE Submit \/ Watch \/ Expire \/ UNCHANGED vars
  <2>1. UNCHANGED <<attemptStatus, reported, results, at, goal, current, status>>
    BY <1>12 DEF Submit, Watch, Expire, vars, durable, attemptVars, ownerVars, runVars
  <2>2. QED
    BY <1>0, <2>1 DEF OwnerInv, Winding, Clean, Running, HalfReceived, Unreported
<1>13. QED
  BY <1>2, <1>3, <1>4, <1>5, <1>6, <1>7, <1>8, <1>9, <1>10, <1>11, <1>12
     DEF SchedulerMoves, LoopMoves, UserMoves

\* A step after which no task is live that was not, and no work over that has a live task.
LEMMA LiveKept ==
  ASSUME LiveInv, UNCHANGED workOf,
         \A t \in Tasks : taskStatus'[t] \in TaskLive =>
           taskStatus[t] \in TaskLive /\ (workOf[t] \in LiveWorks => workOf[t] \in LiveWorks')
  PROVE  LiveInv'
BY DEF LiveInv

\* The work that fails is the one that has no tasks yet.
LEMMA FailedHasNoTasks ==
  ASSUME RunInv, WorkInv, CompilationInv, NEW w \in LiveWorks,
         at \in {"compile", "accept"} \/ NeedsCompilation(w)
  PROVE  TasksOf(w) = {}
<1>1. CASE NeedsCompilation(w)
  BY <1>1 DEF NeedsCompilation, CompilationInv, LiveWorks
<1>2. CASE at \in {"compile", "accept"}
  <2>1. PICK v \in Works : Compiling(v) /\ TasksOf(v) = {}
    BY <1>2 DEF CompilationInv
  <2>2. v = w
    BY <2>1 DEF WorkInv, AtMostOneActiveWork, Compiling, LiveWorks, WorkActive
  <2>3. QED
    BY <2>1, <2>2
<1>3. QED
  BY <1>1, <1>2

\* Work ends only when its tasks did, or with them.
LEMMA LiveMoves ==
  ASSUME RunInv, WorkInv, CompilationInv, OneLifeInv,
         SchedulerMoves \/ TurnMoves \/ WorkMoves \/ LoopMoves \/ UserMoves
  PROVE  LiveInv'
<1>0. /\ LiveInv /\ workStatus \in [Works -> WorkStatuses]
      /\ workOf \in [Tasks -> 0..MaxWorks] /\ taskStatus \in [Tasks -> TaskStatuses]
  BY HandoffTypes DEF OneLifeInv, RunInv, TypeInv, TypeOK, WorkTypeOK
<1>1. CASE UNCHANGED <<workOf, taskStatus, workStatus>>
  BY <1>0, <1>1 DEF LiveInv, LiveWorks
<1>2. CASE ScheduleSettles \/ FinishResult
  <2>1. workOf' = workOf /\ (EvaluateRun \/ UNCHANGED <<taskStatus, workStatus>>)
    BY <1>2 DEF ScheduleSettles, FinishResult
  <2>2. ASSUME taskStatus' = Blocked,
               workStatus' = [w \in Works |-> IF w \in SettledWorks THEN "stable" ELSE workStatus[w]],
               NEW t \in Tasks, taskStatus'[t] \in TaskLive
        PROVE  taskStatus[t] \in TaskLive /\ (workOf[t] \in LiveWorks => workOf[t] \in LiveWorks')
    <3>1. Blocked[t] = taskStatus[t] /\ Blocked[t] \in TaskLive
      BY <2>2 DEF Blocked, TaskLive
    <3>2. workOf[t] \notin SettledWorks
      BY <3>1 DEF SettledWorks, TasksOf, TaskLive
    <3>3. QED
      BY <2>2, <3>1, <3>2 DEF LiveWorks
  <2>3. QED
    BY <1>0, <1>1, <2>1, <2>2, LiveKept DEF EvaluateRun
<1>3. CASE StartAttempt
  <2> DEFINE t == Min(ReadyTasks)
  <2>1. /\ t \in Tasks /\ taskStatus[t] = "pending"
    BY <1>3, MinInSet, TasksNat DEF StartAttempt, ReadyTasks
  <2>2. taskStatus' = [taskStatus EXCEPT ![t] = "running"] /\ UNCHANGED <<workOf, workStatus>>
    BY <1>3 DEF StartAttempt, workVars
  <2> HIDE DEF t
  <2>3. QED
    BY <1>0, <2>1, <2>2, LiveKept DEF TaskLive, LiveWorks
<1>4. CASE RejectRequest
  BY <1>0, <1>4, LiveKept DEF RejectRequest, workVars, TaskLive, LiveWorks
<1>5. CASE ReceiveResult
  <2>1. /\ taskStatus[current[1]] = "running" /\ current[1] \in Tasks
    <3>1. at = "received" /\ current \in Slots
      BY <1>5 DEF ReceiveResult, RunInv, TypeInv, PointOK, HandlesAttempt
    <3>2. Running(current)
      BY <3>1 DEF RunInv, ReportInv
    <3>3. QED
      BY <3>1, <3>2, SlotTyped DEF RunInv, TasksInv, AttemptInv
  <2>2. /\ \A t \in Tasks : t # current[1] => taskStatus'[t] = taskStatus[t]
        /\ UNCHANGED <<workOf, workStatus>>
    BY <1>0, <1>5 DEF ReceiveResult, ApplyResult, workVars
  <2>3. QED
    BY <1>0, <2>1, <2>2, LiveKept DEF TaskLive, LiveWorks
<1>6. CASE \/ ScheduleReturns \/ ScheduleCancelled \/ DispatchAgent \/ DispatchCancelled
           \/ AgentReturns \/ AgentCancelled \/ AgentUnstopped \/ RegisterReport
           \/ AcknowledgeResult \/ NothingToRecover
  BY <1>1, <1>6
     DEF ScheduleReturns, ScheduleCancelled, DispatchAgent, DispatchCancelled, AgentReturns,
         AgentCancelled, AgentUnstopped, RegisterReport, AcknowledgeResult, NothingToRecover,
         durable, taskVars, workVars
<1>7. CASE \/ ScientificReturns \/ ScientificCancelled \/ DeferCompletion \/ ValidateCompletion
           \/ FinishDefer \/ RejectCompletion \/ Abandon \/ FailTurn
  BY <1>1, <1>7
     DEF ScientificReturns, ScientificCancelled, DeferCompletion, ValidateCompletion, FinishDefer,
         RejectCompletion, Abandon, FailTurn, durable, taskVars, workVars
<1>8. CASE DeferUnderFence \/ CompleteRun \/ RequestWork \/ AskUser \/ YieldTurn
  <2>1. UNCHANGED <<workOf, taskStatus>>
    BY <1>8 DEF DeferUnderFence, CompleteRun, RequestWork, AskUser, YieldTurn, taskVars
  <2>2. \A w \in LiveWorks : workStatus'[w] = workStatus[w]
    <3>1. CASE DeferUnderFence \/ CompleteRun \/ AskUser \/ YieldTurn
      BY <3>1 DEF DeferUnderFence, CompleteRun, AskUser, YieldTurn, Consume, LiveWorks, WorkLive
    <3>2. CASE RequestWork
      <4>1. LiveWorks = {}
        BY <3>2 DEF RequestWork, WorkInv
      <4>2. QED
        BY <4>1
    <3>3. QED
      BY <1>8, <3>1, <3>2
  <2>3. QED
    BY <1>0, <2>1, <2>2, LiveKept DEF LiveWorks
<1>9. CASE Reply
  <2>1. /\ workOf' = workOf /\ workStatus' = Consume(workStatus)
        /\ \A t \in Tasks : taskStatus'[t] = taskStatus[t] \/ taskStatus[t] = "needs_user_input"
    BY <1>9 DEF Reply
  <2>2. QED
    BY <1>0, <2>1, LiveKept DEF Consume, LiveWorks, WorkLive, TaskLive
<1>10. CASE DriveExecuting \/ DriveAccepted \/ Compile \/ CompileCancelled
  BY <1>1, <1>10 DEF DriveExecuting, DriveAccepted, Compile, CompileCancelled, durable, taskVars,
                     workVars
<1>11. CASE NoTaskSlots \/ WorkRejected \/ CompileExhausted
  <2>1. PICK w \in LiveWorks : FailWork(w) /\ TasksOf(w) = {}
    BY <1>11, FailedHasNoTasks DEF NoTaskSlots, WorkRejected, CompileExhausted, DrivenWorks
  <2>2. \A t \in Tasks : workOf[t] # w
    BY <2>1 DEF TasksOf
  <2>3. UNCHANGED <<workOf, taskStatus>> /\ \A v \in Works : v # w => workStatus'[v] = workStatus[v]
    BY <1>0, <2>1 DEF FailWork, SetWork, taskVars
  <2>4. QED
    BY <1>0, <2>2, <2>3, LiveKept DEF LiveWorks
<1>12. CASE StartCompilation \/ StartExecution
  <2>1. PICK w \in LiveWorks, to \in WorkLive : SetWork(w, to)
    BY <1>12 DEF StartCompilation, StartExecution, DrivenWorks, WorkLive
  <2>2. UNCHANGED <<workOf, taskStatus>>
    BY <1>12 DEF StartCompilation, StartExecution, taskVars
  <2>3. QED
    BY <1>0, <2>1, <2>2, LiveKept DEF SetWork, LiveWorks
<1>13. CASE AcceptTasks
  <2>1. PICK w \in LiveWorks :
          /\ workOf' = [t \in Tasks |-> IF t \in (taskCount + 1)..(taskCount + compiled) THEN w
                                        ELSE workOf[t]]
          /\ taskStatus' = [t \in Tasks |-> IF t \in (taskCount + 1)..(taskCount + compiled)
                                            THEN "pending" ELSE taskStatus[t]]
          /\ workStatus' = workStatus
    BY <1>13 DEF AcceptTasks, workVars
  <2>2. QED
    BY <1>0, <2>1 DEF LiveInv, LiveWorks
<1>14. CASE AdvanceReturns \/ AdvanceConsumes \/ AdvanceFails \/ ResumeTurn \/ InvokeScientific
            \/ PauseConsumes
  BY <1>1, <1>14 DEF AdvanceReturns, AdvanceConsumes, AdvanceFails, ResumeTurn, InvokeScientific,
                     PauseConsumes, durable, taskVars, workVars
<1>15. CASE CancelAttempt
  <2>1. /\ UNCHANGED <<workOf, workStatus>>
        /\ \A t \in Tasks : taskStatus'[t] = taskStatus[t] \/ taskStatus'[t] = "cancelled"
    BY <1>15 DEF CancelAttempt, workVars
  <2>2. QED
    BY <1>0, <2>1, LiveKept DEF LiveWorks, TaskLive
<1>16. CASE FinishPause \/ FinishAbandon
  <2>1. CancelWork
    BY <1>16 DEF FinishPause, FinishAbandon
  <2>2. /\ workOf' = workOf
        /\ \A t \in Tasks : taskStatus'[t] = IF t \in LiveTasks THEN "cancelled" ELSE taskStatus[t]
    BY <2>1 DEF CancelWork
  <2>3. QED
    BY <1>0, <2>2 DEF LiveInv, LiveTasks, TaskLive
<1>17. CASE Answer
  <2>1. /\ UNCHANGED <<workOf, workStatus>>
        /\ \A t \in Tasks : taskStatus'[t] = taskStatus[t] \/ taskStatus[t] = "needs_user_input"
    BY <1>0, <1>17 DEF Answer, workVars
  <2>2. QED
    BY <1>0, <2>1, LiveKept DEF LiveWorks, TaskLive
<1>18. CASE Submit \/ Resume \/ Watch \/ Expire \/ UNCHANGED vars
  BY <1>1, <1>18 DEF Submit, Resume, Watch, Expire, vars, durable, taskVars, workVars
<1>19. QED
  BY <1>2, <1>3, <1>4, <1>5, <1>6, <1>7, <1>8, <1>9, <1>10, <1>11, <1>12, <1>13, <1>14, <1>15,
     <1>16, <1>17, <1>18 DEF SchedulerMoves, TurnMoves, WorkMoves, LoopMoves, UserMoves

\* Where the owner drives work, or the parent, the Run runs: it asks nothing, and every stop
\* was confirmed.
Working == {"recover", "checks", "compile", "accept", "accepted", "dispatch", "agent", "received",
            "scientific", "turn", "settle", "defer", "fencedDefer"}

\* No Attempt ended without its stop confirmed.
AllStopped == \A s \in Slots : attemptStatus[s] # "unstopped"

\* The owner that drives work drives a Run that runs.
LEMMA WorkingRuns ==
  ASSUME RunInv, StatusInv, at \in Working
  PROVE  status = "running" /\ question = "none" /\ ~unconfirmed /\ AllStopped
<1>1. status \in RunStatuses
  BY DEF RunInv, TypeInv, TypeOK, RunTypeOK
<1>2. status = "running"
  BY <1>1 DEF StatusInv, Working, RunStatuses, RunTerminal
<1>3. QED
  BY <1>2 DEF StatusInv, Working, AllStopped

\* The status of a Run follows what became of it.
LEMMA StatusMoves ==
  ASSUME RunInv, OneLifeInv, SchedulerMoves \/ TurnMoves \/ WorkMoves \/ LoopMoves \/ UserMoves
  PROVE  StatusInv'
<1> USE DEF GoTo, Continue, Return
<1>0. /\ StatusInv /\ OwnerInv /\ status \in RunStatuses /\ question \in {"none", "root", "approval"}
      /\ attemptStatus \in [Slots -> AttemptStatuses]
      /\ at \in HandlesAttempt => current \in Slots
  BY DEF OneLifeInv, RunInv, TypeInv, TypeOK, RunTypeOK, QuestionTypeOK, AttemptTypeOK, PointOK
<1>1. at \in Working => status = "running" /\ question = "none" /\ ~unconfirmed /\ AllStopped
  BY <1>0, WorkingRuns
<1>2. ASSUME at \in Working, UNCHANGED <<status, unconfirmed, question, attemptStatus>>,
             at' # "finish"
      PROVE  StatusInv'
  BY <1>1, <1>2 DEF StatusInv, RunTerminal, AllStopped
<1>3. CASE \/ NothingToRecover \/ DispatchAgent \/ DispatchCancelled \/ AgentReturns
           \/ AgentCancelled
  BY <1>2, <1>3
     DEF NothingToRecover, DispatchAgent, DispatchCancelled, AgentReturns, AgentCancelled, durable,
         runVars, attemptVars, questionVars, Working
<1>4. CASE \/ ScientificReturns \/ ScientificCancelled \/ DeferCompletion \/ ValidateCompletion
           \/ DeferUnderFence \/ FinishDefer \/ RequestWork \/ Reply \/ Abandon \/ YieldTurn
  BY <1>2, <1>4
     DEF ScientificReturns, ScientificCancelled, DeferCompletion, ValidateCompletion,
         DeferUnderFence, FinishDefer, RequestWork, Reply, Abandon, YieldTurn, durable, runVars,
         attemptVars, questionVars, Working
<1>5. CASE \/ DriveExecuting \/ DriveAccepted \/ NoTaskSlots \/ StartCompilation \/ Compile
           \/ CompileCancelled \/ WorkRejected \/ AcceptTasks \/ StartExecution \/ ResumeTurn
           \/ InvokeScientific
  BY <1>2, <1>5
     DEF DriveExecuting, DriveAccepted, NoTaskSlots, StartCompilation, Compile, CompileCancelled,
         WorkRejected, AcceptTasks, StartExecution, ResumeTurn, InvokeScientific, MayInvoke,
         NeedsCompilation, FailWork, durable, runVars, attemptVars, questionVars, Working
<1>6. CASE RejectRequest
  <2>1. /\ at = "dispatch" /\ UNCHANGED <<status, unconfirmed, question>> /\ at' = "report"
        /\ attemptStatus' = [attemptStatus EXCEPT ![current] = "failed"]
    BY <1>6 DEF RejectRequest, runVars, questionVars
  <2>2. \A s \in Slots : attemptStatus'[s] # "unstopped"
    BY <1>0, <1>1, <2>1 DEF AllStopped, Working
  <2>3. QED
    BY <1>1, <2>1, <2>2 DEF StatusInv, RunTerminal, Working
<1>7. CASE \/ AgentUnstopped \/ RejectCompletion \/ FailTurn \/ CompileExhausted \/ AdvanceFails
           \/ CompleteRun
  <2>1. /\ at \in Working /\ status' \in RunTerminal /\ UNCHANGED <<question, attemptStatus>>
        /\ at' \in {"idle", "advance"}
        /\ unconfirmed' = unconfirmed \/ status' = "failed"
    BY <1>7
       DEF AgentUnstopped, RejectCompletion, FailTurn, CompileExhausted, AdvanceFails, CompleteRun,
           FailRun, FailWork, attemptVars, questionVars, Working, RunTerminal
  <2>2. QED
    BY <1>1, <2>1 DEF StatusInv, RunTerminal, AllStopped
<1>8. CASE AskUser
  <2>1. /\ at \in Working /\ status' = "paused" /\ UNCHANGED <<unconfirmed, attemptStatus>>
        /\ at' = "idle"
    BY <1>8 DEF AskUser, attemptVars, Working
  <2>2. QED
    BY <1>1, <2>1 DEF StatusInv, RunTerminal, AllStopped
<1>9. CASE ScheduleReturns \/ ScheduleCancelled
  <2>1. /\ at = "schedule" /\ UNCHANGED <<status, unconfirmed, question, attemptStatus>>
        /\ at' \in {"advance", "pausing"} /\ (status \in RunTerminal => at' = "advance")
    BY <1>9 DEF ScheduleReturns, ScheduleCancelled, MayNotDispatch, BackToController, durable,
                runVars, attemptVars, questionVars, RunTerminal
  <2>2. QED
    BY <1>0, <2>1 DEF StatusInv, RunTerminal
<1>10. CASE ScheduleSettles
  <2>1. /\ at = "schedule" /\ status = "running" /\ question = "none"
        /\ UNCHANGED <<unconfirmed, question, attemptStatus>>
    BY <1>0, <1>10 DEF ScheduleSettles, MayNotDispatch, StatusInv, attemptVars, questionVars
  <2>2. status' = "running" /\ at' = "advance"
    BY <1>10, <2>1 DEF ScheduleSettles, EvaluateRun, BackToController
  <2>3. QED
    BY <1>0, <2>1, <2>2 DEF StatusInv, RunTerminal
<1>11. CASE StartAttempt
  <2>1. /\ at = "schedule" /\ status = "running" /\ UNCHANGED <<status, unconfirmed, question>>
        /\ at' = "dispatch"
    BY <1>11 DEF StartAttempt, MayNotDispatch, runVars, questionVars
  <2>2. \E s : attemptStatus' = [attemptStatus EXCEPT ![s] = "running"]
    BY <1>11 DEF StartAttempt
  <2>3. \A u \in Slots : attemptStatus'[u] # "unstopped"
    BY <1>0, <2>1, <2>2 DEF StatusInv
  <2>4. QED
    BY <1>0, <2>1, <2>3 DEF StatusInv, RunTerminal
<1>12. CASE ReceiveResult
  <2> DEFINE r == results[current]
             s == AttemptStatusFor(r)
  <2>1. /\ at = "received" /\ unconfirmed' = unconfirmed /\ UNCHANGED results /\ current' = current
        /\ attemptStatus' = [attemptStatus EXCEPT ![current] = s]
        /\ status' = IF r = "interrupted" THEN "paused" ELSE status
        /\ at' = (IF s \notin AttemptOpen THEN "report" ELSE "finish") /\ goal' = "dispatch"
        /\ question' = IF r = "approval" /\ current \notin received THEN "approval" ELSE question
    BY <1>12 DEF ReceiveResult, ApplyResult, ReceiveControl
  <2>2. /\ s = "unstopped" => at' = "report"
        /\ r \in {"interrupted", "approval"} => s = "needs_user_input" /\ at' = "finish"
    BY <2>1 DEF AttemptStatusFor, AttemptOpen
  <2>3. current \in Slots /\ attemptStatus'[current] = s
    BY <1>0, <2>1 DEF HandlesAttempt
  <2>4. \A u \in Slots : u # current => attemptStatus'[u] # "unstopped"
    BY <1>0, <1>1, <2>1 DEF AllStopped, Working
  <2>5. status = "running" /\ question = "none" /\ ~unconfirmed
    BY <1>1, <2>1 DEF Working
  <2> HIDE DEF s, r
  <2>6. at' = "finish" => s # "unstopped"
    BY <2>1, <2>2
  <2>7. at' = "finish" => (status' = "paused" <=> results'[current'] = "interrupted")
    BY <2>1, <2>5 DEF r
  <2>8. question' # "none" => at' = "finish"
    BY <2>1, <2>2, <2>5
  <2>9. QED
    BY <2>1, <2>2, <2>3, <2>4, <2>5, <2>6, <2>7, <2>8 DEF StatusInv, RunTerminal
<1>13. CASE RegisterReport \/ AcknowledgeResult
  <2>1. /\ at \in {"report", "ack"} /\ UNCHANGED <<status, unconfirmed, question, attemptStatus>>
        /\ goal' = goal
        /\ \/ at' = "ack" /\ current' = current
           \/ /\ at' = "finish" /\ goal = "dispatch" /\ current' = current
              /\ results' = [results EXCEPT ![current] = "none"]
           \/ at' = "cancelling" /\ goal # "dispatch"
    BY <1>0, <1>13 DEF RegisterReport, AcknowledgeResult, OwnerInv, runVars, attemptVars, questionVars
  <2>2. goal = "dispatch" => status = "running" /\ question = "none"
    BY <1>0, <2>1 DEF StatusInv, RunStatuses, RunTerminal
  <2>3. at' = "finish" => results'[current'] = "none"
    <3>1. current \in Slots /\ DOMAIN results = Slots
      BY <1>0, <2>1, HandoffTypes DEF HandlesAttempt, RunInv
    <3>2. QED
      BY <2>1, <3>1
  <2>4. goal \in {"dispatch", "pause", "abandon"}
    BY <1>0, <2>1 DEF OwnerInv
  <2>5. QED
    BY <1>0, <2>1, <2>2, <2>3, <2>4 DEF StatusInv, RunTerminal
<1>14. CASE FinishResult
  <2>1. /\ at = "finish" /\ goal = "dispatch" /\ UNCHANGED <<question, attemptStatus>>
        /\ at' = "schedule" /\ goal' = "none"
    BY <1>0, <1>14 DEF FinishResult, OwnerInv, questionVars
  <2>2. status \in {"running", "paused"} /\ ~unconfirmed
        /\ (status = "paused" <=> results[current] = "interrupted")
    BY <1>0, <2>1 DEF StatusInv, RunStatuses, RunTerminal
  <2>3. CASE attemptStatus[current] = "unstopped" /\ FailRun /\ unconfirmed' = TRUE
    BY <1>0, <2>1, <2>3 DEF StatusInv, FailRun, RunTerminal
  <2>4. \A s \in Slots : attemptStatus[s] = "unstopped" => s = current
    BY <1>0, <2>1, <2>2 DEF StatusInv
  <2>5. CASE results[current] = "interrupted" /\ UNCHANGED <<status, unconfirmed>>
    <3>1. attemptStatus[current] # "unstopped"
      BY <1>0, <2>1, <2>2, <2>5 DEF StatusInv
    <3>2. QED
      BY <2>1, <2>2, <2>4, <2>5, <3>1 DEF StatusInv, RunTerminal
  <2>6. CASE /\ attemptStatus[current] # "unstopped" /\ results[current] # "interrupted"
             /\ EvaluateRun /\ UNCHANGED unconfirmed
    <3>1. /\ question # "none" => status' = "paused"
          /\ status' \in {"paused", "running"}
      BY <2>6 DEF EvaluateRun
    <3>2. QED
      BY <2>1, <2>2, <2>4, <2>6, <3>1 DEF StatusInv, RunTerminal
  <2>7. QED
    BY <1>14, <2>3, <2>5, <2>6 DEF FinishResult
<1>15. CASE AdvanceReturns \/ AdvanceConsumes
  <2>1. /\ at = "advance" /\ UNCHANGED <<status, unconfirmed, question, attemptStatus>>
        /\ at' \in {"idle", "pausing", "recover"}
        /\ status \in RunTerminal => at' = "idle"
        /\ status = "paused" => at' # "recover"
    BY <1>15 DEF AdvanceReturns, AdvanceConsumes, durable, runVars, attemptVars, questionVars
  <2>2. QED
    BY <1>0, <2>1 DEF StatusInv, RunTerminal
<1>16. CASE PauseConsumes
  <2>1. /\ at = "pausing" /\ UNCHANGED <<status, unconfirmed, question, attemptStatus>>
        /\ at' = "cancelling" /\ goal' = "pause"
    BY <1>16 DEF PauseConsumes, runVars, attemptVars, questionVars
  <2>2. QED
    BY <1>0, <2>1 DEF StatusInv, RunTerminal
<1>17. CASE CancelAttempt
  <2>1. /\ at = "cancelling" /\ UNCHANGED <<status, unconfirmed, question, goal>>
        /\ at' = "report"
        /\ \E s : attemptStatus' = [attemptStatus EXCEPT ![s] = "cancelled"]
    BY <1>17 DEF CancelAttempt, runVars, questionVars
  <2>2. \A s \in Slots : attemptStatus'[s] = "unstopped" => attemptStatus[s] = "unstopped"
    BY <1>0, <2>1
  <2>3. status \notin RunTerminal
    BY <1>0, <2>1 DEF StatusInv
  <2>4. QED
    BY <1>0, <2>1, <2>2, <2>3 DEF StatusInv, RunTerminal
<1>18. CASE FinishPause \/ FinishAbandon
  <2>1. /\ at = "cancelling" /\ UNCHANGED <<unconfirmed, attemptStatus>>
        /\ question' \in {question, "none"} /\ at' \in {"idle", "advance"}
        /\ \/ status' = "paused"
           \/ status' = status /\ goal = "abandon"
    BY <1>18 DEF FinishPause, FinishAbandon, CancelledAll, CancelWork, attemptVars
  <2>2. status \notin RunTerminal
    BY <1>0, <2>1 DEF StatusInv
  <2>3. ~unconfirmed /\ AllStopped
    BY <1>0, <2>1, <2>2 DEF StatusInv, AllStopped, RunTerminal
  <2>4. goal = "abandon" => status # "paused" /\ question = "none"
    BY <1>0, <2>1 DEF StatusInv
  <2>5. QED
    BY <2>1, <2>2, <2>3, <2>4 DEF StatusInv, RunTerminal, AllStopped
<1>19. CASE Answer \/ Resume
  <2>1. /\ at = "idle" /\ status \notin RunTerminal /\ UNCHANGED <<unconfirmed, attemptStatus>>
        /\ question' \in {question, "none"} /\ status' \in {status, "running"}
        /\ status' # status => question' = "none"
        /\ at' \in {"idle", "advance", "pausing"}
    BY <1>0, <1>19 DEF Answer, Resume, StatusInv, attemptVars, questionVars, RunTerminal
  <2>2. ~unconfirmed /\ AllStopped
    BY <1>0, <2>1 DEF StatusInv, AllStopped, RunTerminal
  <2>3. QED
    BY <1>0, <2>1, <2>2 DEF StatusInv, AllStopped, RunTerminal
<1>20. CASE Submit \/ Watch \/ Expire \/ UNCHANGED vars
  <2>1. UNCHANGED <<status, unconfirmed, question, attemptStatus, results, at, goal, current>>
    BY <1>20 DEF Submit, Watch, Expire, vars, durable, runVars, attemptVars, questionVars, ownerVars
  <2>2. QED
    BY <1>0, <2>1 DEF StatusInv
<1>21. QED
  BY <1>3, <1>4, <1>5, <1>6, <1>7, <1>8, <1>9, <1>10, <1>11, <1>12, <1>13, <1>14, <1>15, <1>16,
     <1>17, <1>18, <1>19, <1>20 DEF SchedulerMoves, TurnMoves, WorkMoves, LoopMoves, UserMoves

\* A step that only moves the owner, and no turn into work that was not heard.
LEMMA HeardStill ==
  ASSUME HeardInv, UNCHANGED <<controlVars, attention, sciResult>>,
         \/ sciResult.kind = "none" \/ status' \in RunTerminal
         \/ at' \in {"turn", "settle"} \/ goal' = "abandon",
         at' \in {"turn", "settle"} \/ goal' = "abandon" => at \in {"turn", "settle"} \/ goal = "abandon",
         at' \in {"dispatch", "agent", "received"} => at \in {"dispatch", "agent"} \/ ~attention,
         status' = "completed" => status = "completed",
         at = "pausing" \/ goal = "pause" => at' = "pausing" \/ goal' = "pause"
  PROVE  HeardInv'
<1>1. /\ TextsDelivered' <=> TextsDelivered
      /\ InterruptsNoticed' <=> InterruptsNoticed
  BY DEF controlVars, TextsDelivered, InterruptsNoticed
<1>2. UNCHANGED <<consumed, attention, sciResult>>
  BY DEF controlVars
<1>3. QED
  BY <1>1, <1>2 DEF HeardInv

\* The records pending when the owner consumes are heard, and an interrupt among them is not
\* overlooked.
LEMMA ConsumingHears ==
  ASSUME TypeInv, ConsumeControls
  PROVE  /\ attention \/ TextsDelivered => attention' \/ TextsDelivered'
         /\ InterruptsNoticed /\ ~PendingInterrupt => InterruptsNoticed'
<1>1. /\ consumed \in Nat /\ Len(inbox) \in Nat /\ consumed' = Len(inbox)
      /\ UNCHANGED <<inbox, deliveredInputs, noticed>>
      /\ attention' = (attention \/ PendingText)
  BY DEF TypeInv, TypeOK, ControlTypeOK, ConsumeControls
<1>2. \A i \in 1..consumed' : i \in 1..consumed \/ i \in PendingControls
  BY <1>1 DEF PendingControls
<1>3. ASSUME InterruptsNoticed, ~PendingInterrupt
      PROVE  InterruptsNoticed'
  <2> SUFFICES ASSUME NEW i \in 1..consumed', IsInterrupt(inbox'[i]) PROVE i <= noticed'
    BY DEF InterruptsNoticed, IsInterrupt
  <2>1. i \in 1..consumed
    BY <1>1, <1>2, <1>3 DEF PendingInterrupt, IsInterrupt
  <2>2. QED
    BY <1>1, <1>3, <2>1 DEF InterruptsNoticed, IsInterrupt
<1>4. ASSUME TextsDelivered, ~PendingText
      PROVE  TextsDelivered'
  <2> SUFFICES ASSUME NEW i \in 1..consumed', HasText(inbox'[i]) PROVE i <= deliveredInputs'
    BY DEF TextsDelivered, HasText
  <2>1. i \in 1..consumed
    BY <1>1, <1>2, <1>4 DEF PendingText, HasText
  <2>2. QED
    BY <1>1, <1>4, <2>1 DEF TextsDelivered, HasText
<1>5. QED
  BY <1>1, <1>3, <1>4

\* A step that consumes the pending records.
LEMMA HeardConsumed ==
  ASSUME TypeInv, HeardInv, ConsumeControls, UNCHANGED sciResult,
         sciResult.kind = "none" \/ at' \in {"defer", "fencedDefer"},
         at' \notin {"turn", "settle", "dispatch", "agent", "received"}, goal' # "abandon",
         status' # "completed",
         at' = "pausing" \/ goal' = "pause" \/ (InterruptsNoticed /\ ~PendingInterrupt)
  PROVE  HeardInv'
<1>1. attention' \/ TextsDelivered'
  BY ConsumingHears DEF HeardInv
<1>2. InterruptsNoticed' \/ at' = "pausing" \/ goal' = "pause"
  BY ConsumingHears
<1>3. QED
  BY <1>1, <1>2 DEF HeardInv

\* A turn that is committed delivers what was consumed when it was answered, which is all of it.
LEMMA HeardCommitted ==
  ASSUME TypeInv, HeardInv, CommitTurn, at \in {"turn", "settle"} \/ goal = "abandon",
         InterruptsNoticed, at' \notin {"turn", "settle"}, goal' = "none"
  PROVE  HeardInv'
<1>1. deliveredInputs' = consumed' /\ UNCHANGED <<inbox, consumed, noticed>>
      /\ sciResult'.kind = "none"
  BY DEF CommitTurn, HeardInv, NoSciResult
<1>2. consumed \in Nat
  BY DEF TypeInv, TypeOK, ControlTypeOK
<1>3. TextsDelivered' /\ InterruptsNoticed'
  BY <1>1, <1>2 DEF TextsDelivered, InterruptsNoticed
<1>4. QED
  BY <1>1, <1>3 DEF HeardInv

\* No step lets work or the end of a Run pass what the user said.
LEMMA HeardMoves ==
  ASSUME RunInv, OneLifeInv, SchedulerMoves \/ TurnMoves \/ WorkMoves \/ LoopMoves \/ UserMoves
  PROVE  HeardInv'
<1> USE DEF GoTo, Continue, Return
<1>0. /\ HeardInv /\ OwnerInv /\ StatusInv /\ TypeInv /\ status \in RunStatuses
  BY DEF OneLifeInv, RunInv, TypeInv, TypeOK, RunTypeOK
<1>1. at \in Working => status = "running"
  BY <1>0, WorkingRuns
<1>2. /\ \/ sciResult.kind = "none" \/ status \in RunTerminal
         \/ at \in {"turn", "settle", "defer", "fencedDefer"} \/ goal = "abandon"
      /\ at \in {"turn", "settle"} => goal = "none"
      /\ at \in {"turn", "settle"} => InterruptsNoticed
  BY <1>0 DEF HeardInv, OwnerInv, HandlesAttempt
<1>3. CASE \/ ScheduleReturns \/ ScheduleCancelled \/ ScheduleSettles \/ StartAttempt
  <2>1. /\ at = "schedule" /\ goal = "none" /\ UNCHANGED <<controlVars, attention, sciResult>>
        /\ at' \in {"advance", "pausing"} \/ (at' = "dispatch" /\ ~attention)
        /\ goal' \in {"none", "dispatch"}
        /\ status' = status \/ (status = "running" /\ status' # "completed")
    BY <1>0, <1>3 DEF ScheduleReturns, ScheduleCancelled, ScheduleSettles, StartAttempt, OwnerInv,
         BackToController, EvaluateRun, MayNotDispatch, durable, runVars, controlVars, parentVars,
         HandlesAttempt
  <2>2. sciResult.kind = "none" \/ status' \in RunTerminal
    BY <1>2, <2>1 DEF RunTerminal
  <2>3. QED
    BY <1>0, <2>1, <2>2, HeardStill
<1>4. CASE \/ RejectRequest \/ DispatchAgent \/ DispatchCancelled \/ AgentReturns \/ AgentCancelled
           \/ AgentUnstopped
  <2>1. /\ at \in {"dispatch", "agent"} /\ UNCHANGED <<controlVars, attention, sciResult>>
        /\ at' \in {"report", "agent", "pausing", "received", "idle"}
        /\ goal' \in {"none", "dispatch"} /\ status' # "completed"
    BY <1>1, <1>4 DEF RejectRequest, DispatchAgent, DispatchCancelled, AgentReturns, AgentCancelled,
         AgentUnstopped, FailRun, durable, runVars, controlVars, parentVars, Working
  <2>2. sciResult.kind = "none" /\ goal = "dispatch"
    BY <1>0, <1>1, <1>2, <2>1 DEF OwnerInv, Working, RunTerminal
  <2>3. QED
    BY <1>0, <2>1, <2>2, HeardStill
<1>5. CASE ReceiveResult
  <2>1. /\ at = "received" /\ UNCHANGED <<controlVars, sciResult>>
        /\ at' \in {"report", "finish"} /\ goal' = "dispatch" /\ status' \in {"paused", status}
    BY <1>5 DEF ReceiveResult, ApplyResult
  <2>2. sciResult.kind = "none" /\ goal = "dispatch" /\ status = "running" /\ TextsDelivered
        /\ InterruptsNoticed
    BY <1>0, <1>1, <1>2, <2>1 DEF OwnerInv, Working, RunTerminal, HeardInv
  <2>3. TextsDelivered' /\ InterruptsNoticed'
    BY <2>1, <2>2 DEF controlVars, TextsDelivered, InterruptsNoticed
  <2>4. QED
    BY <2>1, <2>2, <2>3 DEF HeardInv
<1>6. CASE RegisterReport \/ AcknowledgeResult
  <2>1. /\ at \in {"report", "ack"} /\ UNCHANGED <<status, controlVars, attention, sciResult>>
        /\ at' \in {"ack", "finish", "cancelling"} /\ goal' = goal
    BY <1>0, <1>6 DEF RegisterReport, AcknowledgeResult, OwnerInv, runVars, parentVars
  <2>2. sciResult.kind = "none" \/ status' \in RunTerminal \/ goal' = "abandon"
    BY <1>2, <2>1
  <2>3. QED
    BY <1>0, <2>1, <2>2, HeardStill
<1>7. CASE FinishResult
  <2>1. /\ at = "finish" /\ goal = "dispatch" /\ UNCHANGED <<controlVars, attention, sciResult>>
        /\ at' = "schedule" /\ goal' = "none"
        /\ status' \in {status, "failed", "paused", "running"}
    BY <1>0, <1>7 DEF FinishResult, FailRun, EvaluateRun, OwnerInv, parentVars
  <2>2. sciResult.kind = "none" /\ status' # "completed"
    BY <1>0, <1>2, <2>1 DEF StatusInv, RunTerminal
  <2>3. QED
    BY <1>0, <2>1, <2>2, HeardStill
<1>8. CASE \/ NothingToRecover \/ AdvanceFails \/ InvokeScientific \/ ScientificCancelled
  <2>1. /\ at \in {"recover", "checks", "scientific"}
        /\ UNCHANGED <<controlVars, attention, sciResult>>
        /\ at' \in {"checks", "idle", "scientific", "pausing"}
        /\ goal' = "none" /\ status' # "completed"
    BY <1>1, <1>8 DEF NothingToRecover, AdvanceFails, InvokeScientific, ScientificCancelled,
         FailRun, MayInvoke, durable, runVars, controlVars, parentVars, Working
  <2>2. sciResult.kind = "none" /\ goal = "none"
    BY <1>0, <1>1, <1>2, <2>1 DEF OwnerInv, Working, RunTerminal, HandlesAttempt
  <2>3. QED
    BY <1>0, <2>1, <2>2, HeardStill
<1>9. CASE ResumeTurn
  <2>1. at = "checks" /\ sciResult.kind # "none"
    BY <1>9 DEF ResumeTurn
  <2>2. QED
    BY <1>0, <1>1, <1>2, <2>1 DEF OwnerInv, Working, RunTerminal, HandlesAttempt
<1>10. CASE WorkMoves
  <2>1. /\ at \in {"checks", "compile", "accept", "accepted"}
        /\ UNCHANGED <<controlVars, attention, sciResult>>
        /\ at' \in {"schedule", "accepted", "advance", "compile", "accept", "pausing"}
        /\ goal' = "none" /\ status' # "completed"
    BY <1>1, <1>10
       DEF WorkMoves, DriveExecuting, DriveAccepted, NoTaskSlots, StartCompilation, Compile,
           CompileCancelled, WorkRejected, CompileExhausted, AcceptTasks, StartExecution, MayInvoke,
           NeedsCompilation, FailWork, FailRun, durable, runVars, controlVars, parentVars, Working
  <2>2. sciResult.kind = "none" /\ goal = "none"
    BY <1>0, <1>1, <1>2, <2>1 DEF OwnerInv, Working, RunTerminal, HandlesAttempt
  <2>3. QED
    BY <1>0, <2>1, <2>2, HeardStill
<1>11. CASE ScientificReturns
  <2>1. /\ at = "scientific" /\ UNCHANGED <<status, controlVars, attention>> /\ at' = "turn"
        /\ goal' = "none" /\ sciResult' \in Turns
    BY <1>11 DEF ScientificReturns, runVars
  <2>2. sciResult'.inputs = consumed'
    BY <2>1 DEF Turns, Questions, Replies, SciResult, controlVars
  <2>3. status = "running" /\ goal = "none"
    BY <1>0, <1>1, <2>1 DEF OwnerInv, Working, HandlesAttempt
  <2>4. /\ TextsDelivered' <=> TextsDelivered
        /\ InterruptsNoticed' <=> InterruptsNoticed
    BY <2>1 DEF controlVars, TextsDelivered, InterruptsNoticed
  <2>5. QED
    BY <1>0, <2>1, <2>2, <2>3, <2>4 DEF HeardInv
<1>12. CASE ValidateCompletion \/ RejectCompletion \/ FailTurn \/ Abandon
  <2>1. /\ at \in {"turn", "settle"} /\ UNCHANGED <<controlVars, attention, sciResult>>
        /\ \/ at' = "settle" /\ goal' = "none" /\ status' = status
           \/ at' = "idle" /\ goal' = "none" /\ status' = "failed"
           \/ at' = "cancelling" /\ goal' = "abandon" /\ status' = status
    BY <1>12 DEF ValidateCompletion, RejectCompletion, FailTurn, Abandon, FailRun, durable, runVars,
                 controlVars, parentVars
  <2>2. QED
    BY <1>0, <1>2, <2>1, HeardStill DEF RunTerminal
<1>13. CASE DeferCompletion \/ DeferUnderFence
  <2>1. /\ at \in {"turn", "settle"} /\ ConsumeControls /\ UNCHANGED <<status, sciResult>>
        /\ at' \in {"defer", "fencedDefer"}
        /\ goal' = IF PendingInterrupt THEN "pause" ELSE "none"
    BY <1>13 DEF DeferCompletion, DeferUnderFence, runVars
  <2>2. status' # "completed"
    BY <1>1, <2>1 DEF Working
  <2>3. QED
    BY <1>0, <1>2, <2>1, <2>2, HeardConsumed
<1>14. CASE FinishDefer \/ YieldTurn
  <2>1. /\ sciResult'.kind = "none" /\ UNCHANGED <<status, controlVars>>
        /\ at \in {"defer", "fencedDefer", "turn"} /\ (attention => attention')
        /\ at' \in {"pausing", "advance"} /\ goal' = "none"
        /\ goal = "pause" => at' = "pausing"
    BY <1>2, <1>14 DEF FinishDefer, YieldTurn, NoSciResult, runVars
  <2>2. status = "running"
    BY <1>1, <2>1 DEF Working
  <2>3. /\ TextsDelivered' <=> TextsDelivered
        /\ InterruptsNoticed' <=> InterruptsNoticed
    BY <2>1 DEF controlVars, TextsDelivered, InterruptsNoticed
  <2>4. QED
    BY <1>0, <2>1, <2>2, <2>3 DEF HeardInv
<1>15. CASE CompleteRun \/ RequestWork \/ Reply \/ AskUser
  <2>1. /\ CommitTurn /\ at \in {"turn", "settle"} /\ at' \in {"idle", "advance"}
        /\ goal' = "none"
    BY <1>15 DEF CompleteRun, RequestWork, Reply, AskUser
  <2>2. QED
    BY <1>0, <1>2, <2>1, HeardCommitted
<1>16. CASE FinishAbandon
  <2>1. CommitTurn /\ at = "cancelling" /\ goal = "abandon" /\ at' = "advance" /\ goal' = "none"
    BY <1>16 DEF FinishAbandon, CancelledAll
  <2>2. InterruptsNoticed
    BY <1>0, <2>1 DEF HeardInv
  <2>3. QED
    BY <1>0, <2>1, <2>2, HeardCommitted
<1>17. CASE AdvanceReturns
  <2>1. /\ at = "advance" /\ status \in RunTerminal /\ at' = "idle" /\ goal' = "none"
        /\ UNCHANGED <<status, controlVars, attention, sciResult>>
    BY <1>17 DEF AdvanceReturns, durable, runVars, parentVars
  <2>2. goal = "none"
    BY <1>0, <2>1 DEF OwnerInv, HandlesAttempt
  <2>3. QED
    BY <1>0, <2>1, <2>2, HeardStill
<1>18. CASE AdvanceConsumes \/ Resume
  <2>1. /\ at \in {"idle", "advance"} /\ status \notin RunTerminal /\ ConsumeControls
        /\ sciResult' = sciResult /\ status' \in {status, "running"} /\ goal' = "none"
        /\ \/ PendingInterrupt /\ at' = "pausing"
           \/ ~PendingInterrupt /\ at' \in {"idle", "advance", "recover"}
    BY <1>18 DEF AdvanceConsumes, Resume, runVars
  <2>2. goal = "none" /\ sciResult.kind = "none" /\ InterruptsNoticed /\ status' # "completed"
    BY <1>0, <1>2, <2>1 DEF OwnerInv, HandlesAttempt, HeardInv, RunTerminal
  <2>3. QED
    BY <1>0, <2>1, <2>2, HeardConsumed
<1>19. CASE PauseConsumes
  <2>1. /\ at = "pausing" /\ ConsumeControls /\ UNCHANGED <<status, sciResult>>
        /\ at' = "cancelling" /\ goal' = "pause"
    BY <1>19 DEF PauseConsumes, runVars
  <2>2. sciResult.kind = "none" /\ status' # "completed"
    BY <1>0, <1>2, <2>1 DEF OwnerInv, StatusInv, HandlesAttempt, RunTerminal
  <2>3. QED
    BY <1>0, <2>1, <2>2, HeardConsumed
<1>20. CASE CancelAttempt
  <2>1. /\ at = "cancelling" /\ UNCHANGED <<status, goal, controlVars, attention, sciResult>>
        /\ at' = "report"
    BY <1>20 DEF CancelAttempt, runVars, parentVars
  <2>2. sciResult.kind = "none" \/ status' \in RunTerminal \/ goal' = "abandon"
    BY <1>2, <2>1
  <2>3. QED
    BY <1>0, <2>1, <2>2, HeardStill
<1>21. CASE FinishPause
  <2>1. /\ at = "cancelling" /\ goal = "pause" /\ status' = "paused" /\ at' = "idle"
        /\ goal' = "none" /\ noticed' = consumed
        /\ UNCHANGED <<inbox, consumed, deliveredInputs, sciResult>>
        /\ attention => attention'
    BY <1>21 DEF FinishPause, CancelledAll, CancelWork
  <2>2. sciResult.kind = "none"
    BY <1>0, <1>2, <2>1 DEF StatusInv
  <2>3. /\ TextsDelivered' <=> TextsDelivered
        /\ InterruptsNoticed'
    <3>1. consumed \in Nat
      BY <1>0 DEF TypeInv, TypeOK, ControlTypeOK
    <3>2. QED
      BY <2>1, <3>1 DEF TextsDelivered, InterruptsNoticed
  <2>4. QED
    BY <1>0, <2>1, <2>2, <2>3 DEF HeardInv
<1>22. CASE Answer
  <2>1. /\ at = "idle" /\ status' = "running" /\ at' = "advance" /\ goal' = "none"
        /\ UNCHANGED <<controlVars, attention, sciResult>> /\ question # "none"
    BY <1>22 DEF Answer, parentVars
  <2>2. status \notin RunTerminal /\ goal = "none"
    BY <1>0, <2>1 DEF StatusInv, OwnerInv, HandlesAttempt, RunTerminal
  <2>3. sciResult.kind = "none"
    BY <1>2, <2>1, <2>2
  <2>4. QED
    BY <1>0, <2>1, <2>2, <2>3, HeardStill
<1>23. CASE Submit
  <2>1. /\ UNCHANGED <<status, attention, sciResult, at, goal, consumed, deliveredInputs, noticed>>
        /\ \E k \in ControlKinds : inbox' = Append(inbox, k)
    BY <1>23 DEF Submit, runVars, parentVars, ownerVars
  <2>2. /\ inbox \in Seq(ControlKinds) /\ consumed \in 0..Len(inbox)
    BY <1>0 DEF TypeInv, TypeOK, ControlTypeOK
  <2>3. \A i \in 1..consumed : inbox'[i] = inbox[i]
    BY <2>1, <2>2
  <2>4. /\ TextsDelivered' <=> TextsDelivered
        /\ InterruptsNoticed' <=> InterruptsNoticed
    BY <2>1, <2>3 DEF TextsDelivered, InterruptsNoticed, HasText, IsInterrupt
  <2>5. QED
    BY <1>0, <2>1, <2>4 DEF HeardInv
<1>24. CASE Watch \/ Expire \/ UNCHANGED vars
  <2>1. UNCHANGED <<status, controlVars, attention, sciResult, at, goal>>
    BY <1>24 DEF Watch, Expire, vars, durable, runVars, controlVars, parentVars, ownerVars
  <2>2. /\ TextsDelivered' <=> TextsDelivered
        /\ InterruptsNoticed' <=> InterruptsNoticed
    BY <2>1 DEF controlVars, TextsDelivered, InterruptsNoticed
  <2>3. QED
    BY <1>0, <2>1, <2>2 DEF HeardInv, controlVars
<1>25. QED
  BY <1>3, <1>4, <1>5, <1>6, <1>7, <1>8, <1>9, <1>10, <1>11, <1>12, <1>13, <1>14, <1>15, <1>16,
     <1>17, <1>18, <1>19, <1>20, <1>21, <1>22, <1>23, <1>24
     DEF SchedulerMoves, TurnMoves, LoopMoves, UserMoves

\* No task waits for an answer.
NoneWaits == \A t \in Tasks : taskStatus[t] # "needs_user_input"

\* While an Attempt is dispatched and until its result is received, nobody has to be asked.
LEMMA DispatchAsksNobody ==
  ASSUME RunInv, OneLifeInv,
         at \in {"dispatch", "agent", "received"} \/ (at = "schedule" /\ ~MayNotDispatch)
  PROVE  NoneWaits
<1>1. RunInv /\ StatusInv /\ OwnerInv /\ AnsweredInv
  BY DEF OneLifeInv
<1>2. CASE at \in {"dispatch", "agent", "received"}
  <2>1. status = "running" /\ question = "none"
    BY <1>1, <1>2, WorkingRuns DEF Working
  <2>2. goal = "dispatch" /\ ~attention
    BY <1>1, <1>2 DEF OwnerInv, AnsweredInv
  <2>3. QED
    BY <1>1, <1>2, <2>1, <2>2 DEF AnsweredInv, NoneWaits
<1>3. CASE at = "schedule" /\ ~MayNotDispatch
  <2>1. status = "running" /\ ~attention
    BY <1>3 DEF MayNotDispatch
  <2>2. goal = "none" /\ question = "none"
    BY <1>1, <1>3, <2>1 DEF OwnerInv, StatusInv, HandlesAttempt
  <2>3. QED
    BY <1>1, <1>3, <2>1, <2>2 DEF AnsweredInv, NoneWaits
<1>4. QED
  BY <1>2, <1>3

\* Whoever drives a Run that runs owes its waiting tasks a turn, or is about to pause them.
LEMMA WorkingOwesTurn ==
  ASSUME RunInv, OneLifeInv, at \in Working
  PROVE  NoneWaits \/ attention \/ goal = "pause"
<1>1. status = "running" /\ question = "none"
  BY WorkingRuns DEF OneLifeInv
<1>2. QED
  BY <1>1 DEF OneLifeInv, AnsweredInv, Working, NoneWaits

\* A step that asks nothing and takes no answer away.
LEMMA AnsweredStill ==
  ASSUME AnsweredInv, UNCHANGED <<question, questionTask>>, attention => attention',
         \A t \in Tasks : taskStatus'[t] = "needs_user_input" => taskStatus[t] = "needs_user_input",
         at' \notin {"dispatch", "agent", "received"},
         at = "pausing" \/ goal = "pause" => at' = "pausing" \/ goal' = "pause",
         at \in {"finish", "schedule"} /\ status = "paused" /\ token =>
           at' = "pausing" \/ (at' = "schedule" /\ status' = "paused" /\ token')
  PROVE  AnsweredInv'
BY DEF AnsweredInv

\* A step after which no task waits, and which dispatches nothing.
LEMMA NobodyWaits ==
  ASSUME NoneWaits', at' \notin {"dispatch", "agent", "received"}
  PROVE  AnsweredInv'
BY DEF AnsweredInv, NoneWaits

\* A step that drives the Run on, owing the parent a turn as before.
LEMMA TurnStillOwed ==
  ASSUME NoneWaits \/ attention \/ goal = "pause", attention => attention', taskStatus' = taskStatus,
         at' \notin {"dispatch", "agent", "received"},
         goal = "pause" => at' = "pausing" \/ goal' = "pause"
  PROVE  AnsweredInv'
BY DEF AnsweredInv, NoneWaits

\* Where all live work is cancelled, no task of it waits any more.
LEMMA CancelledWaitsNot ==
  ASSUME RunInv, LiveInv, CancelWork
  PROVE  NoneWaits'
<1> SUFFICES ASSUME NEW t \in Tasks, taskStatus'[t] = "needs_user_input" PROVE FALSE
  BY DEF NoneWaits
<1>1. taskStatus'[t] = IF t \in LiveTasks THEN "cancelled" ELSE taskStatus[t]
  BY DEF CancelWork
<1>2. t \notin LiveTasks /\ taskStatus[t] = "needs_user_input"
  BY <1>1
<1>3. QED
  BY <1>2 DEF LiveInv, LiveTasks, TaskLive

\* No step leaves a task waiting for an answer that nobody owes it.
LEMMA AnsweredMoves ==
  ASSUME RunInv, WorkInv, OneLifeInv,
         SchedulerMoves \/ TurnMoves \/ WorkMoves \/ LoopMoves \/ UserMoves
  PROVE  AnsweredInv'
<1> USE DEF GoTo, Continue, Return
<1>0. /\ AnsweredInv /\ HeardInv /\ OwnerInv /\ StatusInv /\ LiveInv /\ TypeInv
      /\ status \in RunStatuses
      /\ taskStatus \in [Tasks -> TaskStatuses] /\ results \in [Slots -> TaskResults \union {"none"}]
      /\ at \in HandlesAttempt => current \in Slots
  BY HandoffTypes DEF OneLifeInv, RunInv, TypeInv, TypeOK, RunTypeOK, PointOK
<1>1. at \in Working => status = "running" /\ question = "none"
                        /\ (NoneWaits \/ attention \/ goal = "pause")
  BY <1>0, WorkingRuns, WorkingOwesTurn
<1>2. at \in {"dispatch", "agent", "received"} \/ (at = "schedule" /\ ~MayNotDispatch) => NoneWaits
  BY DispatchAsksNobody
<1>3. CASE ScheduleReturns
  <2>1. /\ at = "schedule" /\ UNCHANGED <<question, questionTask, attention, taskStatus, status>>
        /\ at' = (IF status = "paused" /\ token THEN "pausing" ELSE "advance") /\ goal' = "none"
    BY <1>3 DEF ScheduleReturns, BackToController, durable, runVars, taskVars, questionVars,
                parentVars
  <2>2. goal = "none"
    BY <1>0, <2>1 DEF OwnerInv, HandlesAttempt
  <2>3. QED
    BY <1>0, <2>1, <2>2, AnsweredStill
<1>4. CASE ScheduleCancelled \/ ScheduleSettles
  <2>1. /\ at = "schedule" /\ ~MayNotDispatch /\ at' \in {"advance", "pausing"}
        /\ \A t \in Tasks : taskStatus'[t] = "needs_user_input" => taskStatus[t] = "needs_user_input"
    BY <1>4 DEF ScheduleCancelled, ScheduleSettles, EvaluateRun, Blocked, BackToController, durable,
                taskVars
  <2>2. QED
    BY <1>2, <2>1, NobodyWaits DEF NoneWaits
<1>5. CASE StartAttempt
  <2>1. /\ at = "schedule" /\ ~MayNotDispatch /\ at' = "dispatch" /\ attention' = attention
        /\ \E s : taskStatus' = [taskStatus EXCEPT ![s] = "running"]
    BY <1>5 DEF StartAttempt, parentVars
  <2>2. NoneWaits' /\ ~attention'
    BY <1>0, <1>2, <2>1 DEF NoneWaits, MayNotDispatch
  <2>3. QED
    BY <2>1, <2>2 DEF AnsweredInv, NoneWaits
<1>6. CASE RejectRequest \/ DispatchAgent \/ AgentReturns
  <2>1. /\ at \in {"dispatch", "agent"} /\ attention' = attention /\ token' = token
        /\ \/ taskStatus' = taskStatus
           \/ taskStatus' = [taskStatus EXCEPT ![current[1]] = "failed"]
        /\ at' = "received" =>
             /\ current' = current /\ received' = received \ {current}
             /\ \E r \in TaskResults : /\ results' = [results EXCEPT ![current] = r]
                                       /\ r = "interrupted" => token
    BY <1>6 DEF RejectRequest, DispatchAgent, AgentReturns, AgentMayAnswer, taskVars, parentVars
  <2>2. NoneWaits' /\ ~attention'
    BY <1>0, <1>2, <2>1 DEF NoneWaits, AnsweredInv
  <2>3. at' = "received" => current' \notin received' /\ (results'[current'] = "interrupted" => token')
    BY <1>0, <2>1 DEF HandlesAttempt
  <2>4. QED
    BY <2>2, <2>3 DEF AnsweredInv, NoneWaits
<1>7. CASE DispatchCancelled \/ AgentCancelled \/ AgentUnstopped
  <2>1. at \in {"dispatch", "agent"} /\ taskStatus' = taskStatus /\ at' \in {"pausing", "idle"}
    BY <1>7 DEF DispatchCancelled, AgentCancelled, AgentUnstopped, durable, taskVars
  <2>2. QED
    BY <1>2, <2>1, NobodyWaits DEF NoneWaits
<1>8. CASE ReceiveResult
  <2> DEFINE r == results[current]
  <2>1. /\ at = "received" /\ token' = token /\ current \in Slots /\ current[1] \in Tasks
        /\ at' = (IF AttemptStatusFor(r) \notin AttemptOpen THEN "report" ELSE "finish")
        /\ taskStatus' = [taskStatus EXCEPT ![current[1]] = TaskStatusFor(r, current[2])]
        /\ status' = IF r = "interrupted" THEN "paused" ELSE status
        /\ ReceiveControl(current, r)
    BY <1>0, <1>8, SlotTyped DEF ReceiveResult, ApplyResult, HandlesAttempt
  <2>2. NoneWaits /\ current \notin received /\ (r = "interrupted" => token)
    BY <1>0, <1>2, <2>1 DEF AnsweredInv
  <2>3. \A t \in Tasks : taskStatus'[t] = "needs_user_input" =>
          t = current[1] /\ r \in {"yielded", "interrupted", "question", "approval"}
    BY <1>0, <2>1, <2>2 DEF NoneWaits, TaskStatusFor
  <2>4. /\ r \in {"yielded", "question"} => attention'
        /\ r = "approval" => question' = "approval" /\ questionTask' = current[1]
    BY <2>1, <2>2 DEF ReceiveControl
  <2>5. r = "interrupted" => at' = "finish" /\ status' = "paused" /\ token'
    BY <2>1, <2>2 DEF AttemptStatusFor, AttemptOpen
  <2>6. at' \in {"report", "finish"}
    BY <2>1
  <2> HIDE DEF r
  <2>7. QED
    BY <2>3, <2>4, <2>5, <2>6 DEF AnsweredInv
<1>9. CASE RegisterReport \/ AcknowledgeResult
  <2>1. /\ at \in {"report", "ack"} /\ at' \in {"ack", "finish", "cancelling"} /\ goal' = goal
        /\ UNCHANGED <<question, questionTask, attention, taskStatus>>
    BY <1>0, <1>9 DEF RegisterReport, AcknowledgeResult, OwnerInv, taskVars, questionVars, parentVars
  <2>2. QED
    BY <1>0, <2>1, AnsweredStill
<1>10. CASE FinishResult
  <2>1. /\ at = "finish" /\ goal = "dispatch" /\ at' = "schedule" /\ goal' = "none"
        /\ UNCHANGED <<question, questionTask, attention, token>>
    BY <1>0, <1>10 DEF FinishResult, OwnerInv, questionVars, parentVars
  <2>2. \A t \in Tasks : taskStatus'[t] = "needs_user_input" => taskStatus[t] = "needs_user_input"
    BY <1>10 DEF FinishResult, EvaluateRun, Blocked
  <2>3. status = "paused" => status' = "paused"
    <3>1. status = "paused" => results[current] = "interrupted" /\ attemptStatus[current] # "unstopped"
      BY <1>0, <2>1 DEF StatusInv
    <3>2. QED
      BY <1>10, <3>1 DEF FinishResult
  <2>4. QED
    BY <1>0, <2>1, <2>2, <2>3, AnsweredStill
<1>11. CASE \/ NothingToRecover \/ AdvanceFails \/ ResumeTurn \/ InvokeScientific
            \/ ScientificCancelled \/ ScientificReturns \/ ValidateCompletion \/ RejectCompletion
            \/ Abandon \/ YieldTurn \/ FailTurn
  <2>1. /\ at \in {"recover", "checks", "scientific", "turn", "settle"}
        /\ UNCHANGED <<attention, taskStatus>>
        /\ at' \in {"checks", "idle", "turn", "scientific", "pausing", "settle", "cancelling", "advance"}
    BY <1>11 DEF NothingToRecover, AdvanceFails, ResumeTurn, InvokeScientific, ScientificCancelled,
         ScientificReturns, ValidateCompletion, RejectCompletion, Abandon, YieldTurn, FailTurn,
         MayInvoke, durable, taskVars, parentVars
  <2>2. goal = "none"
    BY <1>0, <2>1 DEF OwnerInv, HandlesAttempt
  <2>3. QED
    BY <1>1, <2>1, <2>2, TurnStillOwed DEF Working
<1>12. CASE WorkMoves
  <2>1. /\ at \in {"checks", "compile", "accept", "accepted"} /\ attention' = attention
        /\ at' \in {"schedule", "accepted", "advance", "compile", "accept", "pausing"}
    BY <1>12
       DEF WorkMoves, DriveExecuting, DriveAccepted, NoTaskSlots, StartCompilation, Compile,
           CompileCancelled, WorkRejected, CompileExhausted, AcceptTasks, StartExecution, MayInvoke,
           NeedsCompilation, FailWork, durable, parentVars
  <2>2. \A t \in Tasks : taskStatus'[t] \in {taskStatus[t], "pending"}
    <3>1. CASE AcceptTasks
      BY <3>1 DEF AcceptTasks
    <3>2. CASE ~AcceptTasks
      BY <1>12, <3>2
         DEF WorkMoves, DriveExecuting, DriveAccepted, NoTaskSlots, StartCompilation, Compile,
             CompileCancelled, WorkRejected, CompileExhausted, StartExecution, FailWork, durable,
             taskVars
    <3>3. QED
      BY <3>1, <3>2
  <2>3. goal = "none"
    BY <1>0, <2>1 DEF OwnerInv, HandlesAttempt
  <2>4. CASE NoneWaits
    BY <2>1, <2>2, <2>4, NobodyWaits DEF NoneWaits
  <2>5. CASE attention
    BY <2>1, <2>5 DEF AnsweredInv
  <2>6. QED
    BY <1>1, <2>1, <2>3, <2>4, <2>5 DEF Working
<1>13. CASE DeferCompletion \/ DeferUnderFence \/ FinishDefer
  <2>1. /\ at \in {"turn", "settle", "defer", "fencedDefer"} /\ taskStatus' = taskStatus
        /\ attention => attention'
        /\ at' \in {"defer", "fencedDefer", "pausing", "advance"}
        /\ at \in {"defer", "fencedDefer"} /\ goal = "pause" => at' = "pausing"
    BY <1>13 DEF DeferCompletion, DeferUnderFence, FinishDefer, ConsumeControls, taskVars
  <2>2. at \in {"turn", "settle"} => goal = "none"
    BY <1>0, <2>1 DEF OwnerInv, HandlesAttempt
  <2>3. QED
    BY <1>1, <2>1, <2>2, TurnStillOwed DEF Working
<1>14. CASE CompleteRun
  <2>1. /\ at' = "idle" /\ taskStatus' = taskStatus
        /\ \A t \in Tasks : taskStatus[t] # "needs_user_input"
    BY <1>14 DEF CompleteRun, ControlActive, TaskLive, taskVars
  <2>2. QED
    BY <2>1, NobodyWaits DEF NoneWaits
<1>15. CASE RequestWork
  <2>1. /\ at = "turn" /\ sciResult.kind = "requestWork" /\ taskStatus' = taskStatus /\ at' = "advance"
    BY <1>15 DEF RequestWork, taskVars
  <2>2. LiveWorks = {}
    BY <2>1 DEF WorkInv
  <2>3. QED
    BY <1>0, <2>1, <2>2, NobodyWaits DEF LiveInv, NoneWaits, TaskLive
<1>16. CASE Reply
  <2>1. /\ at = "turn" /\ at' = "advance"
        /\ taskStatus' = [t \in Tasks |->
             IF /\ sciResult.resume /\ workOf[t] \in LiveWorks
                /\ taskStatus[t] = "needs_user_input" /\ t \notin childQuestions'
                /\ ~(question = "approval" /\ questionTask = t)
             THEN "pending" ELSE taskStatus[t]]
        /\ attention' = (~sciResult.resume \/ childQuestions' # {})
    BY <1>16 DEF Reply
  <2>2. question = "none"
    BY <1>1, <2>1 DEF Working
  <2>3. CASE attention'
    BY <2>1, <2>3 DEF AnsweredInv
  <2>4. CASE ~attention'
    <3>1. sciResult.resume /\ childQuestions' = {}
      BY <2>1, <2>4
    <3>2. \A t \in Tasks : taskStatus[t] = "needs_user_input" => workOf[t] \in LiveWorks
      BY <1>0 DEF LiveInv, TaskLive
    <3>3. NoneWaits'
      BY <2>1, <2>2, <3>1, <3>2 DEF NoneWaits
    <3>4. QED
      BY <2>1, <3>3, NobodyWaits
  <2>5. QED
    BY <2>3, <2>4
<1>17. CASE AskUser
  <2>1. at = "turn" /\ at' = "idle" /\ UNCHANGED <<attention, taskStatus>>
    BY <1>17 DEF AskUser, taskVars
  <2>2. goal = "none"
    BY <1>0, <2>1 DEF OwnerInv, HandlesAttempt
  <2>3. QED
    BY <1>1, <2>1, <2>2, TurnStillOwed DEF Working
<1>18. CASE AdvanceReturns \/ AdvanceConsumes \/ Resume \/ PauseConsumes
  <2>1. /\ at \in {"idle", "advance", "pausing"}
        /\ UNCHANGED <<question, questionTask, taskStatus>>
        /\ attention => attention'
        /\ at' \in {"idle", "pausing", "recover", "advance", "cancelling"}
        /\ at = "pausing" => goal' = "pause"
    <3>1. CASE AdvanceReturns
      BY <3>1 DEF AdvanceReturns, durable, taskVars, questionVars, parentVars
    <3>2. CASE AdvanceConsumes
      BY <3>2 DEF AdvanceConsumes, ConsumeControls, taskVars, questionVars
    <3>3. CASE Resume
      BY <3>3 DEF Resume, ConsumeControls, taskVars, questionVars
    <3>4. CASE PauseConsumes
      BY <3>4 DEF PauseConsumes, ConsumeControls, taskVars, questionVars
    <3>5. QED
      BY <1>18, <3>1, <3>2, <3>3, <3>4
  <2>2. goal = "none"
    BY <1>0, <2>1 DEF OwnerInv, HandlesAttempt
  <2>3. QED
    BY <1>0, <2>1, <2>2, AnsweredStill
<1>19. CASE CancelAttempt
  <2>1. /\ at = "cancelling" /\ at' = "report" /\ goal' = goal
        /\ UNCHANGED <<question, questionTask, attention>>
        /\ \A t \in Tasks : taskStatus'[t] \in {taskStatus[t], "cancelled"}
    BY <1>19 DEF CancelAttempt, questionVars, parentVars
  <2>2. QED
    BY <1>0, <2>1, AnsweredStill
<1>20. CASE FinishPause \/ FinishAbandon
  <2>1. CancelWork /\ at' \in {"idle", "advance"}
    BY <1>20 DEF FinishPause, FinishAbandon
  <2>2. QED
    BY <1>0, <2>1, CancelledWaitsNot, NobodyWaits
<1>21. CASE Answer
  <2>1. /\ at = "idle" /\ at' = "advance" /\ attention' = attention
        /\ taskStatus' = IF question = "approval"
                         THEN [taskStatus EXCEPT ![questionTask] = "pending"] ELSE taskStatus
    BY <1>21 DEF Answer, parentVars
  <2>2. goal = "none"
    BY <1>0, <2>1 DEF OwnerInv, HandlesAttempt
  <2>3. \A t \in Tasks : taskStatus'[t] = "needs_user_input" =>
          /\ taskStatus[t] = "needs_user_input"
          /\ ~(question = "approval" /\ questionTask = t)
    BY <1>0, <2>1
  <2>4. QED
    BY <1>0, <2>1, <2>2, <2>3 DEF AnsweredInv
<1>22. CASE Submit \/ Watch \/ Expire \/ UNCHANGED vars
  <2>1. /\ UNCHANGED <<question, questionTask, attention, taskStatus, status, at, goal, current,
                       results, received>>
        /\ token => token'
    BY <1>22 DEF Submit, Watch, Expire, vars, durable, runVars, taskVars, attemptVars, questionVars,
         parentVars, ownerVars
  <2>2. QED
    BY <1>0, <2>1 DEF AnsweredInv
<1>23. QED
  BY <1>3, <1>4, <1>5, <1>6, <1>7, <1>8, <1>9, <1>10, <1>11, <1>12, <1>13, <1>14, <1>15, <1>16,
     <1>17, <1>18, <1>19, <1>20, <1>21, <1>22 DEF SchedulerMoves, TurnMoves, LoopMoves, UserMoves

\* The first owner starts from a Run that nobody left anything in.
LEMMA OneLifeInit == Init => OneLifeInv
<1> SUFFICES ASSUME Init PROVE OneLifeInv
  OBVIOUS
<1>1. Clean
  BY SlotTyped DEF Init, Clean, Running, HalfReceived, Unreported
<1>2. OwnerInv
  BY <1>1 DEF Init, OwnerInv, HandlesAttempt, Winding
<1>3. LiveInv
  BY DEF Init, LiveInv, TaskLive
<1>4. StatusInv
  BY DEF Init, StatusInv, RunTerminal
<1>5. HeardInv
  BY DEF Init, HeardInv, NoSciResult, TextsDelivered, InterruptsNoticed
<1>6. AnsweredInv
  BY DEF Init, AnsweredInv
<1>7. QED
  BY <1>2, <1>3, <1>4, <1>5, <1>6 DEF OneLifeInv

\* What the owner of a Run keeps for as long as no owner of it has died.
FirstOwner == crashes = 0 => OneLifeInv

\* No step but the owner's death counts one.
LEMMA DeathsCount ==
  ASSUME TypeInv, [Next]_vars, crashes' = 0
  PROVE  crashes = 0
<1> USE DEF GoTo, Continue, Return
<1>1. CASE SchedulerStep
  <2>1. CASE \/ ScheduleReturns \/ ScheduleCancelled \/ ScheduleSettles \/ StartAttempt \/ RejectRequest
             \/ DispatchAgent \/ DispatchCancelled \/ AgentReturns \/ AgentCancelled \/ AgentUnstopped
    BY <2>1 DEF ScheduleReturns, ScheduleCancelled, ScheduleSettles, StartAttempt, RejectRequest,
                DispatchAgent, DispatchCancelled, AgentReturns, AgentCancelled, AgentUnstopped,
                BackToController
  <2>2. CASE ReceiveResult \/ RegisterReport \/ AcknowledgeResult \/ FinishResult
    BY <2>2 DEF ReceiveResult, ApplyResult, RegisterReport, AcknowledgeResult, FinishResult
  <2>3. CASE \/ RecoverResult \/ RecoverRaises \/ RecoverAcknowledgement \/ RecoverReport
             \/ RecoverLostAttempt \/ RecoverEnds \/ NothingToRecover
    BY <2>3 DEF RecoverResult, ApplyResult, RecoverRaises, RecoverAcknowledgement, RecoverReport,
                RecoverLostAttempt, RecoverEnds, NothingToRecover
  <2>4. QED
    BY <1>1, <2>1, <2>2, <2>3 DEF SchedulerStep
<1>2. CASE TurnMoves
  BY <1>2 DEF TurnMoves, ScientificReturns, ScientificCancelled, DeferCompletion, ValidateCompletion,
     DeferUnderFence, FinishDefer, CompleteRun, RejectCompletion, RequestWork, Reply, Abandon,
     AskUser, YieldTurn, FailTurn
<1>3. CASE WorkMoves
  BY <1>3 DEF WorkMoves, DriveExecuting, DriveAccepted, NoTaskSlots, StartCompilation, Compile,
     CompileCancelled, WorkRejected, CompileExhausted, AcceptTasks, StartExecution
<1>4. CASE LoopMoves \/ CancelRaises
  BY <1>4 DEF LoopMoves, AdvanceReturns, AdvanceConsumes, AdvanceFails, ResumeTurn, InvokeScientific,
     PauseConsumes, CancelAttempt, FinishPause, FinishAbandon, CancelRaises
<1>5. CASE UserMoves \/ Crash
  BY <1>5 DEF UserMoves, Submit, Answer, Resume, Watch, Expire, vars, Crash, TypeInv, TypeOK,
              OwnerTypeOK
<1>6. QED
  BY <1>1, <1>2, <1>3, <1>4, <1>5
     DEF Next, OwnerStep, Environment, TurnMoves, WorkMoves, LoopMoves, UserMoves

\* Every step of a life keeps what that life keeps.
LEMMA FirstOwnerNext ==
  ASSUME RunInv, WorkInv, CompilationInv, FirstOwner, [Next]_vars
  PROVE  FirstOwner'
<1> SUFFICES ASSUME crashes' = 0 PROVE OneLifeInv'
  BY DEF FirstOwner
<1>1. crashes = 0
  BY DeathsCount DEF RunInv
<1>2. OneLifeInv
  BY <1>1 DEF FirstOwner
<1>3. SchedulerMoves \/ TurnMoves \/ WorkMoves \/ LoopMoves \/ UserMoves
  BY <1>1, <1>2, NothingRecovers
<1>4. QED
  BY <1>2, <1>3, OwnerMoves, LiveMoves, StatusMoves, HeardMoves, AnsweredMoves DEF OneLifeInv

\* It holds for as long as the first owner lives, and the rest of the Run's invariants with it.
LEMMA FirstOwnerAlways == Spec => [](RunInv /\ FirstOwner)
<1>1. TypeInv /\ TasksInv /\ ReportInv /\ HandoffInv <=> RunInv
  BY DEF RunInv
<1>2. Init => FirstOwner
  BY OneLifeInit DEF FirstOwner
<1>3. Init => WorkInv
  BY DEF Init, WorkInv, AtMostOneActiveWork, NoSciResult, WorkActive, WorkLive
<1>4. Init => CompilationInv
  BY WorksAssumption DEF Init, CompilationInv, TasksOf, NoWork, Works
<1>5. QED
  BY <1>1, <1>2, <1>3, <1>4, InitTyped, HandoffInit, HandoffNext, ReportsNext, TasksAlways, WorkNext,
     CompilationNext, FirstOwnerNext, PTL DEF Spec

-----------------------------------------------------------------------------
(* What it is for.  One death is enough to break each of these, since what   *)
(* the dead owner left is settled without looking at the Run's status and    *)
(* its records again; that is why they are stated of one owner's life.       *)

NoOwnerDied == crashes = 0

\* A Run completed by its first owner has given the parent a turn for every text.
THEOREM CompletesInformed == Spec => [](NoOwnerDied => CompletedRunInformed)
<1>1. FirstOwner /\ NoOwnerDied => CompletedRunInformed
  BY DEF NoOwnerDied, FirstOwner, OneLifeInv, HeardInv, CompletedRunInformed, TextsDelivered
<1>2. QED
  BY <1>1, FirstOwnerAlways, PTL

\* Whenever its first owner decides whose turn it is, every task that waits for an answer has
\* somebody to give it.
THEOREM WaitingIsAnswered == Spec => [](NoOwnerDied => WaitingTaskHasResponder)
<1>1. FirstOwner /\ NoOwnerDied => WaitingTaskHasResponder
  BY DEF NoOwnerDied, FirstOwner, OneLifeInv, OwnerInv, AnsweredInv, WaitingTaskHasResponder, HandlesAttempt
<1>2. QED
  BY <1>1, FirstOwnerAlways, PTL

\* A stop that nobody confirmed fails the Run, and never leaves it paused, while its first
\* owner lives.
THEOREM UnconfirmedStopFails == Spec => [](NoOwnerDied => UnconfirmedStopNeverPaused)
<1>1. FirstOwner /\ NoOwnerDied => UnconfirmedStopNeverPaused
  <2> SUFFICES ASSUME StatusInv, UnstoppedOperation, status = "paused" PROVE FALSE
    BY DEF NoOwnerDied, FirstOwner, OneLifeInv, UnconfirmedStopNeverPaused
  <2>1. PICK s \in Slots : attemptStatus[s] = "unstopped"
    BY DEF StatusInv, UnstoppedOperation
  <2>2. at \in {"report", "ack", "finish"} /\ goal = "dispatch" /\ s = current
    BY <2>1 DEF StatusInv
  <2>3. QED
    BY <2>1, <2>2 DEF StatusInv
<1>2. QED
  BY <1>1, FirstOwnerAlways, PTL

\* What ended is only left alone.
LEMMA EndedStays ==
  ASSUME RunInv, OneLifeInv, SchedulerMoves \/ TurnMoves \/ WorkMoves \/ LoopMoves \/ UserMoves,
         status \in RunTerminal
  PROVE  status' = status
<1>1. at \in {"idle", "advance", "schedule"} /\ question = "none"
  BY DEF OneLifeInv, StatusInv, RunTerminal
<1>2. CASE SchedulerMoves
  BY <1>1, <1>2
     DEF SchedulerMoves, ScheduleReturns, ScheduleCancelled, ScheduleSettles, StartAttempt,
         RejectRequest, DispatchAgent, DispatchCancelled, AgentReturns, AgentCancelled, AgentUnstopped,
         ReceiveResult, RegisterReport, AcknowledgeResult, FinishResult, NothingToRecover,
         MayNotDispatch, RunTerminal, durable, runVars
<1>3. CASE TurnMoves
  BY <1>1, <1>3
     DEF TurnMoves, ScientificReturns, ScientificCancelled, DeferCompletion, ValidateCompletion,
         DeferUnderFence, FinishDefer, CompleteRun, RejectCompletion, RequestWork, Reply, Abandon,
         AskUser, YieldTurn, FailTurn
<1>4. CASE WorkMoves
  BY <1>1, <1>4
     DEF WorkMoves, DriveExecuting, DriveAccepted, NoTaskSlots, StartCompilation, Compile,
         CompileCancelled, WorkRejected, CompileExhausted, AcceptTasks, StartExecution, MayInvoke,
         NeedsCompilation
<1>5. CASE LoopMoves \/ UserMoves
  BY <1>1, <1>5
     DEF LoopMoves, AdvanceReturns, AdvanceConsumes, AdvanceFails, ResumeTurn, InvokeScientific,
         PauseConsumes, CancelAttempt, FinishPause, FinishAbandon, CancelledAll, MayInvoke,
         UserMoves, Submit, Answer, Resume, Watch, Expire, vars, durable, runVars
<1>6. QED
  BY <1>2, <1>3, <1>4, <1>5

\* A Run that ended stays as it ended, whatever its user and its owner do, if no owner dies.
THEOREM EndsOnce == Spec /\ []NoOwnerDied => TerminalIsFinal
<1>1. RunInv /\ FirstOwner /\ NoOwnerDied /\ NoOwnerDied' /\ [Next]_vars
        => [(status \in RunTerminal) => status' = status]_vars
  BY NothingRecovers, EndedStays DEF NoOwnerDied, FirstOwner
<1>2. QED
  BY <1>1, FirstOwnerAlways, PTL DEF Spec, TerminalIsFinal

\* An Attempt is started by StartAttempt alone.
LEMMA OnlyStartDispatches ==
  ASSUME RunInv, SchedulerMoves \/ TurnMoves \/ WorkMoves \/ LoopMoves \/ UserMoves, Dispatches
  PROVE  StartAttempt
<1>1. PICK s \in Slots : attemptStatus[s] # "running" /\ attemptStatus'[s] = "running"
  BY DEF Dispatches
<1>2. attemptStatus \in [Slots -> AttemptStatuses]
  BY HandoffTypes DEF RunInv
<1>3. ASSUME NEW u, NEW v, attemptStatus' = [attemptStatus EXCEPT ![u] = v]
      PROVE  v = "running"
  BY <1>1, <1>2, <1>3
<1>4. attemptStatus' # attemptStatus
  BY <1>1
<1>5. CASE SchedulerMoves
  <2>1. ~RejectRequest
    BY <1>3 DEF RejectRequest
  <2>2. ~ReceiveResult
    <3>1. ReceiveResult => /\ current \in Slots
                           /\ attemptStatus' = [attemptStatus EXCEPT ![current] =
                                                  AttemptStatusFor(results[current])]
      BY DEF ReceiveResult, ApplyResult, RunInv, TypeInv, PointOK, HandlesAttempt
    <3>2. ReceiveResult => results[current] \in TaskResults \union {"none"}
      BY <3>1, HandoffTypes DEF RunInv
    <3>3. ReceiveResult => AttemptStatusFor(results[current]) # "running"
      BY <3>2 DEF AttemptStatusFor, TaskResults
    <3>4. QED
      BY <1>3, <3>1, <3>3
  <2>3. QED
    BY <1>4, <1>5, <2>1, <2>2
       DEF SchedulerMoves, ScheduleReturns, ScheduleCancelled, ScheduleSettles, DispatchAgent,
           DispatchCancelled, AgentReturns, AgentCancelled, AgentUnstopped, RegisterReport,
           AcknowledgeResult, FinishResult, NothingToRecover, durable, attemptVars
<1>6. CASE TurnMoves
  BY <1>4, <1>6
     DEF TurnMoves, ScientificReturns, ScientificCancelled, DeferCompletion, ValidateCompletion,
         DeferUnderFence, FinishDefer, CompleteRun, RejectCompletion, RequestWork, Reply, Abandon,
         AskUser, YieldTurn, FailTurn, durable, attemptVars
<1>7. CASE WorkMoves
  BY <1>4, <1>7
     DEF WorkMoves, DriveExecuting, DriveAccepted, NoTaskSlots, StartCompilation, Compile,
         CompileCancelled, WorkRejected, CompileExhausted, AcceptTasks, StartExecution, FailWork,
         durable, attemptVars
<1>8. CASE LoopMoves \/ UserMoves
  <2>1. ~CancelAttempt
    BY <1>3 DEF CancelAttempt
  <2>2. QED
    BY <1>4, <1>8, <2>1
       DEF LoopMoves, AdvanceReturns, AdvanceConsumes, AdvanceFails, ResumeTurn, InvokeScientific,
           PauseConsumes, FinishPause, FinishAbandon, CancelWork, UserMoves, Submit, Answer, Resume,
           Watch, Expire, vars, durable, attemptVars
<1>9. QED
  BY <1>5, <1>6, <1>7, <1>8

\* No Attempt starts past what the user said, nor beside an operation that may still run, if no
\* owner dies.
THEOREM DispatchesInformed == Spec /\ []NoOwnerDied => DispatchAllowed
<1>1. RunInv /\ FirstOwner /\ NoOwnerDied /\ NoOwnerDied' /\ [Next]_vars
        => [Dispatches => TextsDelivered /\ InterruptsNoticed /\ ~UnstoppedOperation]_vars
  <2> SUFFICES ASSUME RunInv, FirstOwner, NoOwnerDied, NoOwnerDied', [Next]_vars, Dispatches
               PROVE  TextsDelivered /\ InterruptsNoticed /\ ~UnstoppedOperation
    OBVIOUS
  <2>1. OneLifeInv
    BY DEF NoOwnerDied, FirstOwner
  <2>2. StartAttempt
    BY <2>1, NothingRecovers, OnlyStartDispatches DEF NoOwnerDied
  <2>3. at = "schedule" /\ ~attention /\ status = "running"
    BY <2>2 DEF StartAttempt, MayNotDispatch
  <2>4. goal = "none"
    BY <2>1, <2>3 DEF OneLifeInv, OwnerInv, HandlesAttempt
  <2>5. TextsDelivered /\ InterruptsNoticed
    BY <2>1, <2>3, <2>4 DEF OneLifeInv, HeardInv
  <2>6. ~UnstoppedOperation
    BY <2>1, <2>3 DEF OneLifeInv, StatusInv, UnstoppedOperation
  <2>7. QED
    BY <2>5, <2>6
<1>2. QED
  BY <1>1, FirstOwnerAlways, PTL DEF Spec, DispatchAllowed
=============================================================================
