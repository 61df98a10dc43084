------------------------------- MODULE Session -------------------------------
(***************************************************************************)
(* The persisted Session of one Agent: its turns of tool calls with their  *)
(* receipts, the control its owner must answer, and the helpers that       *)
(* settle calls.  AgentLoop gives the actions.                             *)
(*                                                                         *)
(* A turn is one model reply, or a notice of the runtime, which holds no   *)
(* calls.  A call is named by the position of its turn and its own         *)
(* position in it.  Arguments, texts and reasoning are left out; a receipt *)
(* is what it tells about the call.                                        *)
(***************************************************************************)
EXTENDS Naturals, Sequences, FiniteSets

CONSTANTS
  Profiles,         \* the Agents, each with the bounds it is explored under
  MaxTurns,         \* bound: position of the last model reply
  MaxBatch,         \* MAX_TOOL_CALLS_PER_TURN
  FailureLimit      \* _CONSECUTIVE_FAILURE_LIMIT

\* guarded: a tool the permission policy asks about.
ControlKinds == {"ask", "work", "reply"}
AllCallKinds == {"tool", "guarded", "finish"} \union ControlKinds

\* scientific: the owner is the parent Agent, not one of a task; kinds: tools its model
\* calls; reviewed: permissions.approval_mode is auto_review; calls:
\* budget.max_llm_calls of the Run; turns, batch, crashes, interventions (notices,
\* interrupts and calls of the owner on the Session): bounds.
ASSUME ProfilesAssumption ==
  \A p \in Profiles :
    /\ p.scientific \in BOOLEAN /\ p.reviewed \in BOOLEAN
    /\ p.kinds \subseteq AllCallKinds \ (IF p.scientific THEN {"guarded"} ELSE {"work", "reply"})
    /\ p.turns \in 1..MaxTurns /\ p.batch \in 1..MaxBatch
    /\ p.calls \in Nat /\ p.crashes \in Nat /\ p.interventions \in Nat
ASSUME LimitsAssumption ==
  /\ MaxTurns \in Nat \ {0} /\ MaxBatch \in Nat \ {0}
  /\ FailureLimit \in Nat \ {0}

VARIABLES
  profile,      \* the Agent whose Session it is
  status,       \* SessionStatus of the saved Session, absent before its first save
  turns,        \* tool_turns
  control,      \* pending_control: its action and the call it came from
  operation,    \* pending_action: the call whose operation awaits approval
  checkpoint,   \* history_checkpoint.history_start
  terminal,     \* terminal_result
  seen,         \* how many notices _received_notice_ids holds
  authorized,   \* authorized_artifact_ids: the calls that made them
  cache,        \* _invocation_results: what each first or acknowledging request got
  used,         \* requests of the Run's usage ledger
  effects,      \* how often the tool of each call was started
  approved,     \* the guarded calls the user or the reviewer let run
  materials,    \* Run registry: artifacts each call froze, and whether acknowledged
  received,     \* received_controls of this Session, in order
  resolved,     \* the received controls whose answer or outcome the owner has
  published,    \* len(runtime_notices)
  texts,        \* some text of the user is in upstream_inputs
  attention,    \* parent_attention
  interventions, crashes,
  at,           \* program point of the invocation, idle when there is none
  request,      \* the request being served
  index,        \* the call of the batch, or the turn being recovered
  failures,     \* consecutive_failures
  recovered,    \* some turn was found interrupted
  token,        \* the CancellationToken is set
  boundary,     \* boundary_requested: a text came while the invocation ran
  result        \* what the invocation returned

sessionVars == <<status, turns, control, operation, checkpoint, terminal, seen,
                 authorized, cache>>
worldVars == <<effects, approved, materials>>
ownerVars == <<received, resolved, published, texts, attention, interventions, crashes>>
localVars == <<index, failures, recovered, token, boundary, profile>>
vars == <<sessionVars, used, worldVars, ownerVars, at, request, localVars, result>>

-----------------------------------------------------------------------------
(* Calls, receipts and controls. *)

Scientific == profile.scientific
CallKinds == profile.kinds
AutoReview == profile.reviewed

Calls == (1..MaxTurns) \X (1..MaxBatch)
NoCall == <<0, 0>>

\* rejected and notExecuted say the tool never started; unknown and interrupted
\* that it had; registered that its materials outlived it; accepted answers a
\* finish or a control.
Receipts == {"none", "ok", "failed", "rejected", "notExecuted", "unknown",
             "interrupted", "registered", "accepted"}
DidNotRun == {"rejected", "notExecuted"}

Turn(kinds) == [calls |-> kinds, receipts |-> [i \in 1..Len(kinds) |-> "none"],
                running |-> 0]
Notice == Turn(<<>>)

Controls == [action : {"none", "approve"} \union ControlKinds, call : Calls \union {NoCall}]
NoControl == [action |-> "none", call |-> NoCall]

Request == [acknowledges : Calls \union {NoCall}, release : BOOLEAN, notices : Nat,
            answers : SUBSET Calls, cached : BOOLEAN]
NoRequest == [acknowledges |-> NoCall, release |-> FALSE, notices |-> 0,
              answers |-> {}, cached |-> FALSE]

ResultKinds == {"none", "control", "yielded", "interrupted", "completed", "failed", "raised"}
Result(kind) == [kind |-> kind, control |-> NoControl]
NoResult == Result("none")

Complete(turn) == \A i \in DOMAIN turn.receipts : turn.receipts[i] # "none"
IncompleteTurns == {n \in DOMAIN turns : ~Complete(turns[n])}

ReceiptOf(call) ==
  IF call[1] \in DOMAIN turns /\ call[2] \in DOMAIN turns[call[1]].receipts
  THEN turns[call[1]].receipts[call[2]]
  ELSE "none"

LastTurn == turns[Len(turns)]
CallAt(i) == <<Len(turns), i>>
Current == CallAt(index)

-----------------------------------------------------------------------------
(* Settling calls. *)

\* record_tool_result: one receipt, for a call that has none.
Settle(turn, i, receipt) ==
  [turn EXCEPT !.receipts[i] = receipt,
               !.running = IF @ = i THEN 0 ELSE @]

\* The call that was running gets one receipt, those that never started another.
SettleAll(turn, started, unstarted) ==
  [turn EXCEPT
     !.receipts = [i \in DOMAIN @ |->
        IF @[i] # "none" THEN @[i] ELSE IF i = turn.running THEN started ELSE unstarted],
     !.running = 0]

SettleLast(started, unstarted) ==
  IF turns = <<>> THEN turns
  ELSE [turns EXCEPT ![Len(turns)] = SettleAll(@, started, unstarted)]

\* Mutant: every call of an interrupted batch is said not to have started.
RecoveredTurnUntold(n) ==
  SettleAll(turns[n], "notExecuted", "notExecuted")

\* recover_pending_turn, after recover_registration found what the call froze.
RecoveredTurn(n) ==
  SettleAll(turns[n],
            IF turns[n].running # 0 /\ materials[<<n, turns[n].running>>] = "bound"
            THEN "registered" ELSE "unknown",
            "notExecuted")

\* acknowledge_registration: the Run lists what the call froze.
Acknowledge(calls) ==
  [c \in Calls |-> IF c \in calls /\ materials[c] = "bound" THEN "listed" ELSE materials[c]]

ReceiptedCalls(n) ==
  {c \in Calls : c[1] = n /\ c[2] \in DOMAIN turns[n].receipts /\ ReceiptOf(c) # "none"}
=============================================================================
