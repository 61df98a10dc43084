------------------------- MODULE AgentLoopProperties -------------------------
(***************************************************************************)
(* What makes a Session correct across interrupts, refusals and restarts.  *)
(***************************************************************************)
EXTENDS AgentLoop

TurnType(turn) ==
  /\ turn.calls \in UNION {[1..n -> CallKinds] : n \in 0..MaxBatch}
  /\ turn.receipts \in [DOMAIN turn.calls -> Receipts]
  /\ turn.running \in 0..Len(turn.calls)

\* The values the state of a Session, its owner and its world can hold.
TypeInvariant ==
  /\ status \in {"absent", "active", "paused", "completed", "failed", "cancelled"}
  /\ \A n \in DOMAIN turns : TurnType(turns[n])
  /\ control \in Controls /\ operation \in Calls \union {NoCall}
  /\ checkpoint \in 0..Len(turns) /\ terminal.kind \in ResultKinds /\ seen \in 0..published
  /\ authorized \subseteq Calls /\ used \in 0..profile.calls
  /\ effects \in [Calls -> Nat] /\ approved \subseteq Calls
  /\ materials \in [Calls -> {"none", "bound", "listed"}]
  /\ request \in Request /\ result.kind \in ResultKinds
  /\ index \in 0..(Len(turns) + MaxBatch + 1) /\ failures \in 0..FailureLimit

-----------------------------------------------------------------------------
(* Receipts against the world. *)

TellingOf(call) ==
  LET receipt == ReceiptOf(call)
  IN CASE receipt = "none" -> "open"
       [] receipt \in DidNotRun -> "untouched"
       [] receipt = "ok" -> "done"
       [] OTHER -> "doubtful"

EffectCalls == {c \in Calls : effects[c] > 0}
AskedCalls == {c \in Calls : c[1] \in DOMAIN turns /\ c[2] \in DOMAIN turns[c[1]].calls}
Ledger == INSTANCE CallLedger WITH Call <- Calls, asked <- AskedCalls,
                                   started <- EffectCalls,
                                   told <- [c \in Calls |-> TellingOf(c)]

\* Whatever dies, is interrupted or fails, the Session keeps the promises of
\* CallLedger: no second start, one final and truthful receipt for a call.
KeepsLedger == Ledger!Spec

\* What the policy asks about runs only after the user or the reviewer let
\* that very call run.
GuardedApproved ==
  \A c \in EffectCalls : turns[c[1]].calls[c[2]] = "guarded" => c \in approved

\* An approval the owner waits for belongs to an operation that has no receipt
\* and is not marked as running.
ApprovalPending ==
  control.action = "approve" =>
    /\ operation = control.call
    /\ ReceiptOf(control.call) = "none"
    /\ turns[control.call[1]].running = 0

-----------------------------------------------------------------------------
(* Turns sent to the model. *)

\* A request to the model holds no unfinished call after the checkpoint (the
\* protocol refuses one), the checkpoint hides none, and a Session that
\* completes leaves none.
RequestsPaired == at = "replying" \/ status = "completed" => IncompleteTurns = {}

\* Every Session on disk passes the validators that load it: the running call has
\* no receipt, a terminal result sits in a terminal Session, and the checkpoint
\* covers finished turns and keeps the newest.
SavedSessionLoads ==
  /\ \A n \in DOMAIN turns :
       turns[n].running # 0 => turns[n].receipts[turns[n].running] = "none"
  /\ terminal.kind # "none" => status \in {"completed", "failed"}
  /\ checkpoint # 0 => checkpoint < Len(turns)
  /\ \A n \in 1..checkpoint : Complete(turns[n]) /\ turns[n].running = 0

-----------------------------------------------------------------------------
(* Artifacts the calls froze. *)

\* The Run lists what a call froze only after the Session saved its receipt.
ListedAfterReceipt == \A c \in Calls : materials[c] = "listed" => ReceiptOf(c) # "none"

\* When a Session completes, what its successful calls froze is listed and
\* authorized, whichever restart lost the acknowledgement.
CompletedListed ==
  status = "completed" =>
    \A c \in Calls : ReceiptOf(c) \in {"ok", "registered"} /\ materials[c] # "none" =>
                       materials[c] = "listed" /\ c \in authorized

-----------------------------------------------------------------------------
(* The owner. *)

\* A control the owner received has its receipt in the Session, and no
\* interrupt, release or restart tells otherwise.
ReceivedAccepted ==
  \A i \in DOMAIN received :
    received[i].action \in ControlKinds => ReceiptOf(received[i].call) = "accepted"

\* What the owner is about to receive, saved answers of earlier requests
\* included, is what the Session on disk still waits for or ended with.
ResultCurrent ==
  /\ result.kind = "control" => status = "paused" /\ control = result.control
  /\ result.kind \in {"yielded", "interrupted"} => status = "paused"
  /\ result.kind \in {"completed", "failed"} => status = result.kind

StaysEnded == UNCHANGED <<status, turns, control, operation, terminal, checkpoint>>
IsDeferred == status = "completed" /\ status' = "paused" /\ attention'

\* An ended Session never changes again, except that a completed one whose
\* completion the owner defers is paused.
EndedFinal ==
  [][(status \in {"completed", "failed", "cancelled"}) => (StaysEnded \/ IsDeferred)]_vars

\* The history of a Session is whole at every moment: it loads, it goes to the model
\* without an open call, approvals, controls and artifacts have the receipts that
\* belong to them, and a Session that ended stays as it is.
HistorySound ==
  /\ [](TypeInvariant /\ RequestsPaired /\ SavedSessionLoads /\ ReceivedAccepted
        /\ ApprovalPending /\ ListedAfterReceipt /\ CompletedListed)
  /\ EndedFinal

\* An invocation comes back to its owner.
InvocationReturns == (at # "idle") ~> (at = "idle")

-----------------------------------------------------------------------------
(* What the texts of the repository say and the code does not keep. *)

\* control_ack names the control the Session waits on.
AcknowledgesItsControl ==
  at = "control" /\ control.action \in ControlKinds =>
    request.acknowledges \in {NoCall, control.call}

\* A control is cleared after its owner took it.
ClearedControlReceived ==
  [][at = "control" /\ control # NoControl /\ control' = NoControl /\ ~token =>
       control \in Range(received)]_vars

\* A control saved before its receipt gets the receipt when it resumes.
ControlResumes == result.kind # "raised"
=============================================================================
