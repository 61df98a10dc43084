------------------------------ MODULE AgentLoop ------------------------------
(***************************************************************************)
(* One Agent Session served by AgentLoop.run, invoked again and again by   *)
(* its owner.  A step ends where the code saves the Session or the Run, or *)
(* where another actor can intervene: the user's interrupt and texts, the  *)
(* model's reply, a tool, the owner, the death of the process.             *)
(***************************************************************************)
EXTENDS Session, Functions

NoCache == [c \in Calls \union {NoCall} |-> NoResult]

Init ==
  /\ profile \in Profiles
  /\ status = "absent" /\ turns = <<>> /\ control = NoControl /\ operation = NoCall
  /\ checkpoint = 0 /\ terminal = NoResult /\ seen = 0 /\ authorized = {}
  /\ cache = NoCache /\ used = 0
  /\ effects = [c \in Calls |-> 0] /\ approved = {}
  /\ materials = [c \in Calls |-> "none"]
  /\ received = <<>> /\ resolved = {} /\ published = 0 /\ texts = FALSE
  /\ attention = FALSE /\ interventions = 0 /\ crashes = 0
  /\ at = "idle" /\ request = NoRequest /\ index = 0 /\ failures = 0
  /\ recovered = FALSE /\ token = FALSE /\ boundary = FALSE /\ result = NoResult

-----------------------------------------------------------------------------
(* Moving between program points. *)

GoTo(point) == at' = point /\ UNCHANGED <<request, index, failures, recovered, token,
                                           boundary, profile, result>>
Visit(point, i) ==
  at' = point /\ index' = i
  /\ UNCHANGED <<request, failures, recovered, token, boundary, profile, result>>

Return(outcome) ==
  /\ at' = "idle" /\ result' = outcome
  /\ request' = NoRequest /\ index' = 0 /\ failures' = 0 /\ recovered' = FALSE
  /\ token' = FALSE /\ UNCHANGED <<boundary, profile>>

\* Every save of a running Session writes it active.
Saved == status' = "active"

UnchangedButTurns ==
  UNCHANGED <<control, operation, checkpoint, terminal, seen, authorized, cache>>

\* _note_failure, then the loop goes on where the failure leaves it.
NoteFailure(next) ==
  /\ IF failures + 1 >= FailureLimit
     THEN at' = "failing" /\ UNCHANGED failures
     ELSE at' = next /\ failures' = failures + 1
  /\ UNCHANGED <<request, index, recovered, token, boundary, profile, result>>

-----------------------------------------------------------------------------
(* The owner: a request for the Session, and what it does with the result. *)

LastReceived == IF received = <<>> THEN NoCall ELSE received[Len(received)].call
Unresolved ==
  {received[i].call : i \in {j \in DOMAIN received : received[j].action # "reply"}} \ resolved

\* Mutant: an answer is reused whatever the request brings.
InvokeAlwaysCached ==
  /\ at = "idle" /\ result.kind = "none"
  /\ status # "cancelled" /\ (Scientific \/ crashes = 0)
  /\ (Unresolved = {} \/ attention \/ boundary)
  /\ attention' = (attention \/ boundary) /\ texts' = (texts \/ boundary)
  /\ boundary' = FALSE
  /\ request' = [acknowledges |-> LastReceived, release |-> attention',
                 notices |-> published, answers |-> resolved,
                 cached |-> TRUE]
  /\ at' = "resume"
  /\ UNCHANGED <<sessionVars, used, worldVars, received, resolved, published, interventions,
                 crashes, index, failures, recovered, token, profile, result>>

\* The owner drives the Session unless a control it received waits for an
\* answer or an outcome; a text, through parent_attention, wakes the parent
\* before that.  A task that lost its owner gets a new Attempt and Session.
Invoke ==
  /\ at = "idle" /\ result.kind = "none"
  /\ status # "cancelled" /\ (Scientific \/ crashes = 0)
  /\ (Unresolved = {} \/ attention \/ boundary)
  /\ attention' = (attention \/ boundary) /\ texts' = (texts \/ boundary)
  /\ boundary' = FALSE
  /\ request' = [acknowledges |-> LastReceived, release |-> attention',
                 notices |-> published, answers |-> resolved,
                 cached |-> published = 0 /\ ~texts']
  /\ at' = "resume"
  /\ UNCHANGED <<sessionVars, used, worldVars, received, resolved, published, interventions,
                 crashes, index, failures, recovered, token, profile, result>>

\* receive_control: once for a control, in the order received.
ReceiveControl ==
  /\ at = "idle" /\ result.kind = "control"
  /\ received' = IF \E i \in DOMAIN received : received[i] = result.control
                 THEN received ELSE Append(received, result.control)
  /\ \/ attention' = (attention /\ result.control.action # "work")
     \/ result.control.action = "reply" /\ attention' = FALSE
  /\ result' = NoResult
  /\ UNCHANGED <<sessionVars, used, worldVars, resolved, published, texts, interventions,
                 crashes, at, request, localVars>>

\* The answer to a question, or the outcome of the work, is recorded; the
\* answer to an approval is yes or no.
Resolve ==
  /\ at = "idle"
  /\ \E c \in Unresolved :
       /\ resolved' = resolved \union {c}
       /\ \/ UNCHANGED approved
          \/ /\ [action |-> "approve", call |-> c] \in Range(received)
             /\ approved' = approved \union {c}
  /\ UNCHANGED <<sessionVars, used, effects, materials, received, published, texts, attention,
                 interventions, crashes, at, request, localVars, result>>

\* An interrupted turn of the parent pauses the Run with a notice; a yielded
\* one continues.
ReceivePause ==
  /\ at = "idle" /\ Scientific
  /\ \/ result.kind = "yielded" /\ UNCHANGED published
     \/ result.kind = "interrupted" /\ published' = published + 1
  /\ result' = NoResult
  /\ UNCHANGED <<sessionVars, used, worldVars, received, resolved, texts, attention,
                 interventions, crashes, at, request, localVars>>

Intervene == interventions < profile.interventions /\ interventions' = interventions + 1

\* defer_completion: a text came before the owner committed the completed turn.
DeferCompletion ==
  /\ at = "idle" /\ result.kind = "completed" /\ boundary
  /\ status \in {"completed", "paused"}
  /\ status' = "paused" /\ terminal' = NoResult
  /\ turns' = Append(turns, Notice)
  /\ texts' = TRUE /\ attention' = TRUE /\ boundary' = FALSE /\ result' = NoResult
  /\ UNCHANGED <<control, operation, checkpoint, seen, authorized, cache, used, worldVars,
                 received, resolved, published, interventions, crashes, at, request, index,
                 failures, recovered, token, profile>>

\* terminate_session: the work that delegated the task is cancelled, by the
\* parent or by an interrupt; after a crash, when the Attempt names a Session.
TerminateSession ==
  /\ at = "idle" /\ ~Scientific
  /\ \/ result.kind = "interrupted" /\ UNCHANGED interventions
     \/ /\ result.kind \in {"none", "control"} /\ Intervene
        /\ crashes = 0 \/ received # <<>>
  /\ status \notin {"absent", "completed", "failed", "cancelled"}
  /\ status' = "cancelled" /\ control' = NoControl /\ operation' = NoCall
  /\ turns' = Append([n \in DOMAIN turns |-> SettleAll(turns[n], "notExecuted", "notExecuted")],
                     Notice)
  /\ UNCHANGED <<checkpoint, terminal, seen, authorized, cache, used, worldVars, received,
                 resolved, published, texts, attention, crashes, at, request, localVars>>
  /\ result' = NoResult

\* A text for the parent: the owner takes it at its next request or commit.
ReceiveText ==
  /\ Scientific /\ ~boundary /\ status # "failed" /\ Intervene
  /\ boundary' = TRUE
  /\ UNCHANGED <<sessionVars, used, worldVars, received, resolved, published, texts,
                 attention, crashes, at, request, index, failures, recovered, token, profile,
                 result>>

\* The user interrupts a Run whose owner died: it pauses with a notice.
PauseIdle ==
  /\ at = "idle" /\ result.kind = "none" /\ Scientific /\ Intervene
  /\ published' = published + 1
  /\ UNCHANGED <<sessionVars, used, worldVars, received, resolved, texts, attention, crashes,
                 at, request, localVars, result>>

Interrupt ==
  /\ at # "idle" /\ ~token /\ Intervene
  /\ token' = TRUE
  /\ UNCHANGED <<sessionVars, used, worldVars, received, resolved, published, texts,
                 attention, crashes, at, request, index, failures, recovered, boundary, profile, result>>

\* The process dies, before or after the invocation returned; the saved
\* Session, the Run and the world remain.
Crash ==
  /\ at # "idle" \/ result.kind # "none"
  /\ crashes < profile.crashes
  /\ crashes' = crashes + 1
  /\ Return(NoResult)
  /\ UNCHANGED <<sessionVars, used, worldVars, received, resolved, published, texts,
                 attention, interventions>>

-----------------------------------------------------------------------------
(* Resuming a Session. *)

Answer(outcome) ==
  /\ at' = "returning" /\ result' = outcome
  /\ UNCHANGED <<request, index, failures, recovered, token, boundary, profile>>

\* The Scientific agent keeps the answer for an equal request, in a save of its own.
ReturnAnswer ==
  /\ at = "returning"
  /\ cache' = IF Scientific /\ request.cached
              THEN [cache EXCEPT ![request.acknowledges] = result] ELSE cache
  /\ UNCHANGED <<status, turns, control, operation, checkpoint, terminal, seen, authorized,
                 used, worldVars, ownerVars>>
  /\ Return(result)

\* Once for a request it recognises, the Scientific agent answers from its cache;
\* a terminal Session gives its saved result.
ReturnSaved ==
  /\ at = "resume"
  /\ IF Scientific /\ request.cached /\ cache[request.acknowledges].kind # "none"
     THEN Return(cache[request.acknowledges])
     ELSE /\ status \in {"completed", "failed"}
          /\ Answer(terminal)
  /\ UNCHANGED <<sessionVars, used, worldVars, ownerVars>>

Resume ==
  /\ at = "resume" /\ status \notin {"completed", "failed", "cancelled"}
  /\ Scientific /\ request.cached => cache[request.acknowledges].kind = "none"
  /\ status' = IF status = "absent" THEN "active" ELSE status
  /\ UNCHANGED <<turns, used, worldVars, ownerVars>> /\ UnchangedButTurns
  /\ GoTo("notices")

AcceptNotices ==
  /\ at = "notices"
  /\ IF request.notices > 0
     THEN /\ turns' = turns \o [i \in 1..(request.notices - seen) |-> Notice]
          /\ seen' = request.notices
          /\ Saved
     ELSE UNCHANGED <<turns, seen, status>>
  /\ UNCHANGED <<control, operation, checkpoint, terminal, authorized, cache, used,
                 worldVars, ownerVars>>
  /\ GoTo("control")

ResumingControl == at = "control" /\ ~token /\ control # NoControl

ResumeWithout ==
  /\ at = "control" /\ ~token /\ control = NoControl
  /\ UNCHANGED <<sessionVars, used, worldVars, ownerVars>>
  /\ Visit("recover", 1)

AcknowledgesOther ==
  /\ ResumingControl
  /\ request.acknowledges \notin {NoCall, control.call}
  /\ UNCHANGED <<sessionVars, used, worldVars, ownerVars>>
  /\ GoTo("failing")

AnswersControl == ResumingControl /\ request.acknowledges \in {NoCall, control.call}

\* A reply is taken as applied; a woken parent leaves its control to the Run.
ReleaseControl ==
  /\ AnswersControl
  /\ control.action = "reply" \/ request.release
  /\ control' = NoControl /\ Saved
  /\ UNCHANGED <<turns, operation, checkpoint, terminal, seen, authorized, cache, used,
                 worldVars, ownerVars>>
  /\ Visit("recover", 1)

\* _record_control_receipt writes into the last turn, whatever the turn of the
\* control; record_tool_result refuses a call of another turn.
MayReceiptControl == ReceiptOf(control.call) = "none" => control.call[1] = Len(turns)
ReceiptControl ==
  turns' = IF ReceiptOf(control.call) = "none"
           THEN [turns EXCEPT ![Len(turns)] = Settle(@, control.call[2], "accepted")]
           ELSE turns

ResumeWaits(available) ==
  /\ AnswersControl /\ control.action \in {"ask", "work"} /\ ~request.release
  /\ (control.call \in request.answers) = available

ResumeRaises ==
  /\ AnswersControl /\ control.action \in {"ask", "work"} /\ ~request.release
  /\ ~MayReceiptControl
  /\ UNCHANGED <<sessionVars, used, worldVars, ownerVars>>
  /\ Return(Result("raised"))

\* The owner asks again for a control it has not received or not answered.
ResumeUnanswered ==
  /\ ResumeWaits(FALSE) /\ MayReceiptControl
  /\ ReceiptControl /\ status' = "paused"
  /\ UNCHANGED <<used, worldVars, ownerVars>> /\ UnchangedButTurns
  /\ Answer([kind |-> "control", control |-> control])

ResumeAnswered ==
  /\ ResumeWaits(TRUE) /\ MayReceiptControl
  /\ ReceiptControl /\ control' = NoControl /\ Saved
  /\ UNCHANGED <<operation, checkpoint, terminal, seen, authorized, cache, used, worldVars,
                 ownerVars>>
  /\ Visit("recover", 1)

\* The owner of a task waits for the answer (Unresolved in Invoke), so the branch of the
\* code that returns an unanswered approval again is never taken.
ResumesOperation ==
  /\ AnswersControl /\ control.action = "approve" /\ ~request.release
  /\ control.call \in request.answers
  /\ control' = NoControl /\ operation' = NoCall /\ Saved
  /\ UNCHANGED <<checkpoint, terminal, seen, authorized, cache, used, worldVars, ownerVars>>

\* Mutant: the answer is not looked at.
OperationAllowedBlindly ==
  /\ ResumesOperation
  /\ turns' = [turns EXCEPT ![control.call[1]].running = control.call[2]]
  /\ Visit("approved", control.call[2])

\* The user said yes and the policy, checked again, allows the saved operation.
OperationAllowed ==
  /\ ResumesOperation /\ control.call \in approved
  /\ turns' = [turns EXCEPT ![control.call[1]].running = control.call[2]]
  /\ Visit("approved", control.call[2])

\* The user said no, or what would be launched is no longer what was asked.
OperationDenied ==
  /\ ResumesOperation
  /\ turns' = [turns EXCEPT ![Len(turns)] = Settle(@, control.call[2], "notExecuted")]
  /\ Visit("recover", 1)

RunApproved ==
  /\ at = "approved" /\ ~token
  /\ effects' = [effects EXCEPT ![Current] = @ + 1]
  /\ UNCHANGED <<sessionVars, used, approved, materials, ownerVars>>
  /\ GoTo("ran")

\* A tool past the deadline leaves an unknown receipt and fails the Session.
RecordApproved ==
  /\ at = "ran"
  /\ \E receipt \in {"ok", "failed", "unknown"} :
       /\ turns' = [turns EXCEPT ![Len(turns)] = Settle(@, index, receipt)]
       /\ Visit(IF receipt = "unknown" THEN "failing" ELSE "recover", 1)
  /\ Saved
  /\ UNCHANGED <<used, worldVars, ownerVars>> /\ UnchangedButTurns

-----------------------------------------------------------------------------
(* Recovering interrupted turns, oldest first. *)

\* Mutant: the first open call of the last turn is served again.
RecoverTurnReplays ==
  /\ at = "recover" /\ index <= Len(turns)
  /\ materials' = Acknowledge(ReceiptedCalls(index))
  /\ UNCHANGED <<sessionVars, used, effects, approved, ownerVars>>
  /\ IF Complete(turns[index]) \/ index < Len(turns)
     THEN Visit("recover", index + 1)
     ELSE Visit("call", CHOOSE i \in DOMAIN LastTurn.receipts : LastTurn.receipts[i] = "none")

\* Mutant: only the receipts of interrupted turns are acknowledged.
RecoverTurnUnacknowledged ==
  /\ at = "recover" /\ index <= Len(turns)
  /\ IF Complete(turns[index])
     THEN /\ UNCHANGED <<turns, status, authorized>>
          /\ Visit("recover", index + 1)
     ELSE /\ turns' = [turns EXCEPT ![index] = RecoveredTurn(index)]
          /\ Saved /\ UNCHANGED authorized
          /\ GoTo("recovered")
  /\ UNCHANGED <<control, operation, checkpoint, terminal, seen, cache, used, worldVars,
                 ownerVars>>

\* The receipts of a turn are acknowledged; then what it leaves open is settled.
RecoverTurn ==
  /\ at = "recover" /\ index <= Len(turns)
  /\ materials' = Acknowledge(ReceiptedCalls(index))
  /\ IF Complete(turns[index])
     THEN /\ UNCHANGED <<turns, status, authorized>>
          /\ Visit("recover", index + 1)
     ELSE /\ turns' = [turns EXCEPT ![index] = RecoveredTurn(index)]
          /\ authorized' = authorized \union
               {c \in Calls : c = <<index, turns[index].running>> /\ materials[c] = "bound"}
          /\ Saved
          /\ GoTo("recovered")
  /\ UNCHANGED <<control, operation, checkpoint, terminal, seen, cache, used, effects,
                 approved, ownerVars>>

AcknowledgeRecovered ==
  /\ at = "recovered"
  /\ materials' = Acknowledge(ReceiptedCalls(index))
  /\ UNCHANGED <<sessionVars, used, effects, approved, ownerVars>>
  /\ at' = "recover" /\ index' = index + 1 /\ recovered' = TRUE
  /\ UNCHANGED <<request, failures, token, boundary, profile, result>>

\* The model is told once that something was not replayed.
RecoveryEnds ==
  /\ at = "recover" /\ index > Len(turns)
  /\ IF recovered THEN turns' = Append(turns, Notice) /\ Saved
                  ELSE UNCHANGED <<turns, status>>
  /\ UNCHANGED <<used, worldVars, ownerVars>> /\ UnchangedButTurns
  /\ Visit("loop", 0)

-----------------------------------------------------------------------------
(* The loop: one model request, then the calls of its reply. *)

Fail ==
  /\ UNCHANGED <<sessionVars, used, worldVars, ownerVars>>
  /\ GoTo("failing")

\* Calls spent, the deadline passed, or the context does not fit.
LoopFails == at = "loop" /\ ~token /\ Fail

\* A text waits: the owner takes the turn back at this boundary.
Yield ==
  /\ at = "loop" /\ ~token /\ boundary /\ Scientific
  /\ status' = "paused"
  /\ UNCHANGED <<turns, used, worldVars, ownerVars>> /\ UnchangedButTurns
  /\ Answer(Result("yielded"))

MayRequest == at = "loop" /\ ~token /\ (boundary => ~Scientific)

\* Mutant: the summary replaces the newest turn too.
CompactAllHistory ==
  /\ MayRequest /\ profile.calls - used >= 2
  /\ used' = used + 1
  /\ checkpoint' \in (checkpoint + 1)..Len(turns)
  /\ Saved
  /\ UNCHANGED <<turns, control, operation, terminal, seen, authorized, cache, worldVars,
                 ownerVars>>
  /\ GoTo("loop")

\* Older turns, complete, are replaced by a summary the model makes; a call
\* must remain for the request that uses it.
CompactHistory ==
  /\ MayRequest /\ profile.calls - used >= 2
  /\ used' = used + 1
  /\ checkpoint' \in (checkpoint + 1)..(Len(turns) - 1)
  /\ Saved
  /\ UNCHANGED <<turns, control, operation, terminal, seen, authorized, cache, worldVars,
                 ownerVars>>
  /\ GoTo("loop")

\* Mutant: the call is charged whatever is left.
RequestModelUnpaid ==
  /\ MayRequest
  /\ used' = used + 1
  /\ UNCHANGED <<sessionVars, worldVars, ownerVars>>
  /\ GoTo("replying")

RequestModel ==
  /\ MayRequest /\ used < profile.calls
  /\ used' = used + 1
  /\ UNCHANGED <<sessionVars, worldVars, ownerVars>>
  /\ GoTo("replying")

\* The reply cannot be read as calls: feedback of its own turn.
ReplyMalformed ==
  /\ at = "replying" /\ ~token
  /\ Len(turns) < profile.turns
  /\ turns' = Append(turns, Notice) /\ Saved
  /\ UNCHANGED <<used, worldVars, ownerVars>> /\ UnchangedButTurns
  /\ NoteFailure("loop")

\* Attempts exhausted, or the transport failed.
RequestFails == at = "replying" /\ Fail

Batches == UNION {[1..n -> CallKinds] : n \in 1..profile.batch}
Alone == {"finish"} \union ControlKinds
Acceptable(kinds) == Len(kinds) = 1 \/ \A i \in DOMAIN kinds : kinds[i] \notin Alone

\* The reply is saved before any of its calls starts.  A batch with a control
\* among others, or one that fails its preflight, starts none.
SaveReply(accepted) ==
  /\ at = "replying" /\ ~token
  /\ Len(turns) < profile.turns
  /\ \E kinds \in Batches :
       /\ accepted => Acceptable(kinds)
       /\ turns' = Append(turns, Turn(kinds))
  /\ Saved
  /\ UNCHANGED <<used, worldVars, ownerVars>> /\ UnchangedButTurns

AcceptBatch == SaveReply(TRUE) /\ Visit("call", 1)
RefuseBatch == SaveReply(FALSE) /\ GoTo("refuse")

RecordRefusal ==
  /\ at = "refuse"
  /\ turns' = SettleLast("rejected", "rejected") /\ Saved
  /\ UNCHANGED <<used, worldVars, ownerVars>> /\ UnchangedButTurns
  /\ NoteFailure("loop")

Kind == LastTurn.calls[index]
AtCall(kinds) == at = "call" /\ ~token /\ index <= Len(LastTurn.calls) /\ Kind \in kinds

RecordReceipt(receipt) ==
  /\ turns' = [turns EXCEPT ![Len(turns)] = Settle(@, index, receipt)]
  /\ Saved

\* An unknown tool, arguments or a permission refused at dispatch.
RefuseCall ==
  /\ AtCall(AllCallKinds)
  /\ RecordReceipt("rejected")
  /\ UNCHANGED <<used, worldVars, ownerVars>> /\ UnchangedButTurns
  /\ NoteFailure("break")

\* The deadline passed before dispatch.
CallTimesOut == AtCall(AllCallKinds) /\ Fail

StartRunning(point) ==
  /\ turns' = [turns EXCEPT ![Len(turns)].running = index]
  /\ Saved
  /\ UNCHANGED <<used, worldVars, ownerVars>> /\ UnchangedButTurns
  /\ GoTo(point)

\* executing_call_id is saved before the tool is dispatched.
StartCall == AtCall(AllCallKinds \ {"guarded"}) /\ StartRunning("execute")

\* The reviewer's call is charged like any other.
RequestReview ==
  /\ AtCall({"guarded"}) /\ AutoReview
  /\ used < profile.calls
  /\ used' = used + 1
  /\ UNCHANGED <<sessionVars, worldVars, ownerVars>>
  /\ GoTo("reviewing")

ReviewUnpaid == AtCall({"guarded"}) /\ AutoReview /\ used >= profile.calls /\ Fail

\* Allowed, and the policy, checked again, still says what was reviewed.
ReviewAllows ==
  /\ at = "reviewing" /\ ~token
  /\ approved' = approved \union {Current}
  /\ turns' = [turns EXCEPT ![Len(turns)].running = index] /\ Saved
  /\ UNCHANGED <<used, effects, materials, ownerVars>> /\ UnchangedButTurns
  /\ GoTo("execute")

\* What was reviewed changed meanwhile.
ReviewInvalidated ==
  /\ at = "reviewing" /\ ~token
  /\ RecordReceipt("rejected")
  /\ UNCHANGED <<used, worldVars, ownerVars>> /\ UnchangedButTurns
  /\ NoteFailure("break")

\* Mutant: the operation that waits is told as not executed with the others.
PauseApprovalSettled ==
  /\ \/ AtCall({"guarded"}) /\ ~AutoReview
     \/ at = "reviewing" /\ ~token
  /\ control' = [action |-> "approve", call |-> Current]
  /\ operation' = Current
  /\ turns' = SettleLast("notExecuted", "notExecuted")
  /\ status' = "paused"
  /\ UNCHANGED <<checkpoint, terminal, seen, authorized, cache, used, worldVars, ownerVars>>
  /\ Answer([kind |-> "control", control |-> control'])

\* The user is asked, at once or when the reviewer does not allow; the other
\* calls of the batch never start.
PauseApproval ==
  /\ \/ AtCall({"guarded"}) /\ ~AutoReview
     \/ at = "reviewing" /\ ~token
  /\ control' = [action |-> "approve", call |-> Current]
  /\ operation' = Current
  /\ turns' = [turns EXCEPT ![Len(turns)] =
                 [SettleAll(@, "notExecuted", "notExecuted") EXCEPT !.receipts[index] = "none"]]
  /\ status' = "paused"
  /\ UNCHANGED <<checkpoint, terminal, seen, authorized, cache, used, worldVars, ownerVars>>
  /\ Answer([kind |-> "control", control |-> control'])

\* Mutant: what the tool freezes is listed at once.
ExecuteListed ==
  /\ at = "execute" /\ ~token
  /\ IF Kind \in {"tool", "guarded"}
     THEN /\ effects' = [effects EXCEPT ![Current] = @ + 1]
          /\ \/ UNCHANGED materials
             \/ Scientific /\ materials' = [materials EXCEPT ![Current] = "listed"]
     ELSE UNCHANGED <<effects, materials>>
  /\ UNCHANGED <<sessionVars, used, approved, ownerVars>>
  /\ GoTo("observe")

\* The tool runs; what it does cannot be undone.  It may freeze an artifact.
Execute ==
  /\ at = "execute" /\ ~token
  /\ IF Kind \in {"tool", "guarded"}
     THEN /\ effects' = [effects EXCEPT ![Current] = @ + 1]
          /\ \/ UNCHANGED materials
             \/ Scientific /\ materials' = [materials EXCEPT ![Current] = "bound"]
     ELSE UNCHANGED <<effects, materials>>
  /\ UNCHANGED <<sessionVars, used, approved, ownerVars>>
  /\ GoTo("observe")

\* A tool that raised: a receipt, no acknowledgement, the batch stops.
ToolRaises ==
  /\ at = "observe"
  /\ RecordReceipt("failed")
  /\ UNCHANGED <<used, worldVars, ownerVars>> /\ UnchangedButTurns
  /\ NoteFailure("break")

\* The result of the tool: its receipt and its artifacts in one save.
RecordResult(receipt, next) ==
  /\ at = "observe" /\ Kind \in {"tool", "guarded"}
  /\ RecordReceipt(receipt)
  /\ authorized' = IF materials[Current] = "bound" THEN authorized \union {Current}
                   ELSE authorized
  /\ UNCHANGED <<control, operation, checkpoint, terminal, seen, cache, used, worldVars,
                 ownerVars>>
  /\ GoTo(next)

RecordSuccess == RecordResult("ok", "succeeded")
RecordFailure == RecordResult("failed", "tried")

\* The Session holds the receipt: the Run may list what the call froze.
AcknowledgeCall ==
  /\ at \in {"succeeded", "tried"}
  /\ materials' = Acknowledge({Current})
  /\ UNCHANGED <<sessionVars, used, effects, approved, ownerVars>>
  /\ IF at = "tried" THEN NoteFailure("break")
     ELSE /\ at' = "call" /\ index' = index + 1 /\ failures' = 0
          /\ UNCHANGED <<request, recovered, token, boundary, profile, result>>

\* Mutant: the calls a stopped batch leaves get no receipt.
BatchEndsOpen ==
  /\ at = "break" \/ (at = "call" /\ index > Len(LastTurn.calls))
  /\ UNCHANGED <<sessionVars, used, worldVars, ownerVars>>
  /\ Visit("loop", 0)

\* Mutant: a stopped batch never ends.
BatchEndsAtLast ==
  /\ at = "call" /\ index > Len(LastTurn.calls)
  /\ UNCHANGED <<sessionVars, used, worldVars, ownerVars>>
  /\ Visit("loop", 0)

\* The calls a stopped batch leaves never start.
BatchEnds ==
  /\ at = "break" \/ (at = "call" /\ index > Len(LastTurn.calls))
  /\ turns' = SettleLast("unknown", "notExecuted")
  /\ status' = IF turns' = turns THEN status ELSE "active"
  /\ UNCHANGED <<used, worldVars, ownerVars>> /\ UnchangedButTurns
  /\ Visit("loop", 0)

-----------------------------------------------------------------------------
(* Controls and completion. *)

\* Replies go to children of live work; new work waits until there is none.
LiveWork == \E i \in DOMAIN received :
              received[i].action = "work" /\ received[i].call \in Unresolved
ControlAllowed ==
  /\ Kind \in ControlKinds
  /\ Kind = "work" => ~LiveWork
  /\ Kind = "reply" => LiveWork

\* Mutant: the control is returned without its receipt.
AcceptControlUntold ==
  /\ at = "observe" /\ ControlAllowed
  /\ control' = [action |-> Kind, call |-> Current]
  /\ status' = "paused"
  /\ UNCHANGED <<turns, operation, checkpoint, terminal, seen, authorized, cache, used,
                 worldVars, ownerVars>>
  /\ GoTo("controlled")

\* The identity of the control is saved before its receipt.
AcceptControl ==
  /\ at = "observe" /\ ControlAllowed
  /\ control' = [action |-> Kind, call |-> Current]
  /\ status' = "paused"
  /\ UNCHANGED <<turns, operation, checkpoint, terminal, seen, authorized, cache, used,
                 worldVars, ownerVars>>
  /\ GoTo("receipt")

RecordControlReceipt ==
  /\ at = "receipt"
  /\ turns' = [turns EXCEPT ![Len(turns)] = Settle(@, index, "accepted")]
  /\ status' = "paused"
  /\ UNCHANGED <<used, worldVars, ownerVars>> /\ UnchangedButTurns
  /\ GoTo("controlled")

ReturnControl ==
  /\ at = "controlled" /\ ~token
  /\ UNCHANGED <<sessionVars, used, worldVars, ownerVars>>
  /\ Answer([kind |-> "control", control |-> control])

\* The completion check decides on a finish and its receipt is saved.
FinishRefused ==
  /\ at = "observe" /\ Kind = "finish"
  /\ RecordReceipt("rejected")
  /\ UNCHANGED <<used, worldVars, ownerVars>> /\ UnchangedButTurns
  /\ NoteFailure("break")

FinishAccepted ==
  /\ at = "observe" /\ Kind = "finish"
  /\ RecordReceipt("accepted")
  /\ UNCHANGED <<used, worldVars, ownerVars>> /\ UnchangedButTurns
  /\ GoTo("finished")

\* The check fails the Session, or the Agent reported failure.
FinishFails == at = "finished" /\ Fail

\* A text came during the final call: the Scientific agent is not done.
DeferFinish ==
  /\ at = "finished" /\ ~token /\ boundary /\ Scientific
  /\ status' = "paused"
  /\ UNCHANGED <<turns, used, worldVars, ownerVars>> /\ UnchangedButTurns
  /\ Answer(Result("yielded"))

CompleteSession ==
  /\ at = "finished" /\ ~token /\ (boundary => ~Scientific)
  /\ status' = "completed" /\ terminal' = Result("completed")
  /\ UNCHANGED <<turns, control, operation, checkpoint, seen, authorized, cache, used,
                 worldVars, ownerVars>>
  /\ Answer(terminal')

-----------------------------------------------------------------------------
(* Failure and interruption. *)

\* The calls in flight are settled and saved; then the Session fails.
SettleFailing ==
  /\ at = "failing" /\ turns # SettleLast("unknown", "notExecuted")
  /\ turns' = SettleLast("unknown", "notExecuted") /\ Saved
  /\ UNCHANGED <<used, worldVars, ownerVars>> /\ UnchangedButTurns
  /\ GoTo("failing")

FailSession ==
  /\ at = "failing" /\ turns = SettleLast("unknown", "notExecuted")
  /\ status' = "failed" /\ terminal' = Result("failed")
  /\ UNCHANGED <<turns, control, operation, checkpoint, seen, authorized, cache, used,
                 worldVars, ownerVars>>
  /\ Answer(terminal')

\* check_cancelled, and operations the token can stop.
Cancellable == {"control", "approved", "ran", "loop", "replying", "call", "reviewing",
                "execute", "observe", "controlled", "finished"}

\* The stop is confirmed: one save settles the turn, tells it and drops the
\* control.
Suspend ==
  /\ token /\ at \in Cancellable
  /\ turns' = Append(SettleLast("interrupted", "notExecuted"), Notice)
  /\ control' = NoControl /\ operation' = NoCall /\ status' = "paused"
  /\ UNCHANGED <<checkpoint, terminal, seen, authorized, cache, used, worldVars, ownerVars>>
  /\ Answer(Result("interrupted"))

\* The stop is not confirmed: the outcome is unknown and the Session fails.
StopUnconfirmed ==
  /\ token /\ at \in {"ran", "observe"} /\ Kind \in {"tool", "guarded"}
  /\ RecordReceipt("unknown")
  /\ UNCHANGED <<used, worldVars, ownerVars>> /\ UnchangedButTurns
  /\ GoTo("failing")

-----------------------------------------------------------------------------

Serving ==
  \/ ReturnSaved \/ ReturnAnswer \/ Resume \/ AcceptNotices \/ ResumeWithout \/ AcknowledgesOther
  \/ ReleaseControl \/ ResumeRaises \/ ResumeUnanswered \/ ResumeAnswered
  \/ OperationAllowed \/ OperationDenied \/ RunApproved
  \/ RecordApproved \/ RecoverTurn \/ AcknowledgeRecovered \/ RecoveryEnds
  \/ LoopFails \/ Yield \/ CompactHistory \/ RequestModel \/ ReplyMalformed
  \/ RequestFails \/ AcceptBatch \/ RefuseBatch \/ RecordRefusal \/ RefuseCall
  \/ CallTimesOut \/ StartCall \/ RequestReview \/ ReviewUnpaid \/ ReviewAllows
  \/ ReviewInvalidated \/ PauseApproval \/ Execute \/ ToolRaises \/ RecordSuccess
  \/ RecordFailure \/ AcknowledgeCall \/ BatchEnds \/ AcceptControl
  \/ RecordControlReceipt \/ ReturnControl \/ FinishRefused \/ FinishAccepted
  \/ FinishFails \/ DeferFinish \/ CompleteSession \/ SettleFailing \/ FailSession
  \/ Suspend \/ StopUnconfirmed

Owning ==
  \/ Invoke \/ ReceiveControl \/ Resolve \/ ReceivePause \/ DeferCompletion
  \/ TerminateSession \/ ReceiveText \/ PauseIdle \/ Interrupt \/ Crash

Next == Serving \/ Owning

Spec == Init /\ [][Next]_vars

\* An invocation that runs goes on: the model and the tools answer in the end.
FairSpec == Spec /\ WF_vars(Serving)
=============================================================================
