----------------------------- MODULE Compaction -----------------------------
(* How a Session's request is kept within the model's input: the fixed       *)
(* context is composed anew each round, and when the request grows past the  *)
(* soft mark, older turns are replaced by a summary the model writes.  What  *)
(* is published is the boundary and the summary together; the owner may die  *)
(* in between.                                                               *)
EXTENDS Naturals, Sequences, Functions

CONSTANTS
  Limit,         \* tokens of input the model and the Agent allow
  FixedSizes,    \* what contract, task and directory may take in a round
  TurnSizes, SummarySizes,
  PromptSize,    \* what a request for a summary takes beside its sources
  MaxCalls,      \* calls of the budget
  MaxTurns, MaxCrashes

\* What the constants are.
CompactionAssumption ==
  /\ Limit \in Nat \ {0} /\ PromptSize \in Nat
  /\ FixedSizes \subseteq Nat \ {0} /\ TurnSizes \subseteq Nat \ {0}
  /\ SummarySizes \subseteq Nat \ {0}
  /\ MaxCalls \in Nat /\ MaxTurns \in Nat /\ MaxCrashes \in Nat

VARIABLES
  turns,       \* Session.tool_turns, by size
  checkpoint,  \* Session.history_checkpoint: boundary, summary, and (history)
               \* the turns whose content went into the summary
  used,        \* calls charged
  at, fixed,   \* the Loop: where it is, and this round's fixed context
  plan,        \* the boundary it proposes, 0 for none
  summary,     \* the text it received for it
  failure, crashes

vars == <<turns, checkpoint, used, at, fixed, plan, summary, failure, crashes>>

NoSummary == [size |-> 0, covers |-> <<>>]
NoCheckpoint == [start |-> 0, size |-> 0, covers |-> <<>>]

Init ==
  /\ turns = <<>> /\ checkpoint = NoCheckpoint /\ used = 0
  /\ at = "loop" /\ fixed = 0 /\ plan = 0 /\ summary = NoSummary
  /\ failure = "none" /\ crashes = 0

-----------------------------------------------------------------------------
Tokens(history) == FoldFunction(LAMBDA size, sum : size + sum, 0, history)
Drop(history, k) == SubSeq(history, k + 1, Len(history))

Active == Drop(turns, checkpoint.start)

\* The whole request, with the summary that stands for what is left out.
Request(boundary, recap) == fixed + recap + Tokens(Drop(turns, boundary))
Composes == Request(checkpoint.start, checkpoint.size) <= Limit

\* 80% of the limit is the mark; what is kept may take 20% of the rest.
AboveMark == 5 * (fixed + Tokens(Active)) > 4 * Limit
Allowance == Limit - fixed
Target == IF Allowance < 5 THEN 1 ELSE Allowance \div 5

\* Mutant: the turn about to be added is not counted.
FirstKeptUncounted(history, target) ==
  LET keep[k \in 0..(Len(history) - 1)] ==
        IF k = 0 \/ Tokens(Drop(history, k)) > target THEN k ELSE keep[k - 1]
  IN keep[Len(history) - 1]

\* The newest turn is kept; an older one while the suffix fits the target.
FirstKept(history, target) ==
  LET keep[k \in 0..(Len(history) - 1)] ==
        IF k = 0 \/ Tokens(Drop(history, k - 1)) > target THEN k ELSE keep[k - 1]
  IN keep[Len(history) - 1]

\* What a compaction must bring is tried even below the mark.
Wanted == AboveMark \/ ~Composes
Planned ==
  IF Wanted /\ Len(Active) >= 2 /\ fixed < Limit THEN FirstKept(Active, Target) ELSE 0

Prompt == PromptSize + checkpoint.size + Tokens(SubSeq(Active, 1, Planned))

\* Mutant: the previous handoff is not part of the prompt.
HandoffForgets == [i \in 1..(plan - checkpoint.start) |-> checkpoint.start + i]

\* The summary takes over from the one before and from the turns up to plan.
Handoff == checkpoint.covers \o [i \in 1..(plan - checkpoint.start) |-> checkpoint.start + i]

GoTo(place) == at' = place
Fail(reason) ==
  /\ at' = "failed" /\ failure' = reason
  /\ UNCHANGED <<turns, checkpoint, fixed, plan, summary, crashes>>

-----------------------------------------------------------------------------
BeginRound ==
  /\ at = "loop" /\ used < MaxCalls /\ Len(turns) < MaxTurns
  /\ fixed' \in FixedSizes
  /\ plan' = 0 /\ GoTo("plan")
  /\ UNCHANGED <<turns, checkpoint, used, summary, failure, crashes>>

\* Nothing to compact, or no need to.
KeepHistory ==
  /\ at = "plan" /\ Planned = 0 /\ Composes
  /\ GoTo("request")
  /\ UNCHANGED <<turns, checkpoint, used, fixed, plan, summary, failure, crashes>>

\* The fixed context, the request that cannot be compacted, or the prompt for
\* the summary does not fit.
ContextBudgetExceeded ==
  /\ at = "plan"
  /\ \/ Planned = 0 /\ ~Composes
     \/ Planned > 0 /\ Prompt > Limit
  /\ Fail("capacity") /\ UNCHANGED used

\* One call for the summary, and one for the request it is made for.
PlanCompaction ==
  /\ at = "plan" /\ Planned > 0 /\ Prompt <= Limit
  /\ IF MaxCalls - used < 2
     THEN Fail("calls") /\ UNCHANGED used
     ELSE /\ plan' = checkpoint.start + Planned
          /\ GoTo("summarise")
          /\ UNCHANGED <<turns, checkpoint, used, fixed, summary, failure, crashes>>

\* Mutant: the retries of the summary may take every call that is left.
SummaryAttemptsAll == (used + 1)..MaxCalls

\* The client retries within the limit it was given.
SummaryAttempts == (used + 1)..(MaxCalls - 1)

Summarise ==
  /\ at = "summarise"
  /\ used' \in SummaryAttempts
  /\ \/ Fail("summary")
     \/ IF used' >= MaxCalls
        THEN Fail("spent")
        ELSE /\ \E size \in SummarySizes : summary' = [size |-> size, covers |-> Handoff]
             /\ GoTo("publish")
             /\ UNCHANGED <<turns, checkpoint, fixed, plan, failure, crashes>>

\* Mutant: the checkpoint is saved before the request is composed with it.
PublishUnchecked ==
  /\ at = "publish"
  /\ checkpoint' = [start |-> plan, size |-> summary.size, covers |-> summary.covers]
  /\ GoTo("request")
  /\ UNCHANGED <<turns, used, fixed, plan, summary, failure, crashes>>

\* Boundary and summary are saved together, once the request fits with them.
Publish ==
  /\ at = "publish"
  /\ IF Request(plan, summary.size) > Limit
     THEN Fail("capacity") /\ UNCHANGED used
     ELSE /\ checkpoint' = [start |-> plan, size |-> summary.size, covers |-> summary.covers]
          /\ GoTo("request")
          /\ UNCHANGED <<turns, used, fixed, plan, summary, failure, crashes>>

\* Mutant: a turn without content is saved.
ReplyEmpty ==
  /\ at = "request"
  /\ used' \in (used + 1)..MaxCalls
  /\ turns' = Append(turns, 0)
  /\ GoTo("loop")
  /\ UNCHANGED <<checkpoint, fixed, plan, summary, failure, crashes>>

\* The reply, the receipts of its calls, or the feedback it earned.
Reply ==
  /\ at = "request"
  /\ used' \in (used + 1)..MaxCalls
  /\ \E size \in TurnSizes : turns' = Append(turns, size)
  /\ GoTo("loop")
  /\ UNCHANGED <<checkpoint, fixed, plan, summary, failure, crashes>>

\* The Session is loaded again; charges are not given back.
Crash ==
  /\ at \in {"summarise", "publish", "request"} /\ crashes < MaxCrashes
  /\ crashes' = crashes + 1
  /\ at' = "loop" /\ fixed' = 0 /\ plan' = 0 /\ summary' = NoSummary
  /\ UNCHANGED <<turns, checkpoint, used, failure>>

Ended == at = "failed" \/ (at = "loop" /\ (used = MaxCalls \/ Len(turns) = MaxTurns))
Done == Ended /\ UNCHANGED vars

Next ==
  \/ BeginRound \/ KeepHistory \/ ContextBudgetExceeded \/ PlanCompaction
  \/ Summarise \/ Publish \/ Reply \/ Crash \/ Done

Spec == Init /\ [][Next]_vars

-----------------------------------------------------------------------------
\* The variables keep to the values the code gives them.
TypeInvariant ==
  /\ turns \in Seq(TurnSizes) /\ used \in 0..MaxCalls /\ plan \in 0..Len(turns)
  /\ checkpoint.start \in 0..Len(turns) /\ checkpoint.size \in SummarySizes \union {0}
  /\ at \in {"loop", "plan", "summarise", "publish", "request", "failed"}
  /\ failure \in {"none", "capacity", "calls", "summary", "spent"}

\* The summary a Session goes on with was made from every turn it replaces,
\* each once and in order, however many summaries and crashes came before.
NothingForgotten == checkpoint.covers = [i \in 1..checkpoint.start |-> i]

\* The planner keeps the longest suffix within the target, and the newest turn
\* whatever its size.
KeepsLongest ==
  at = "plan" /\ Planned > 0 =>
    /\ Planned = Len(Active) - 1 \/ Tokens(Drop(Active, Planned)) <= Target
    /\ Tokens(Drop(Active, Planned - 1)) > Target

\* What goes to the model fits, also with a summary that came back longer than
\* was asked for.
RequestFits == at = "request" => Request(checkpoint.start, checkpoint.size) <= Limit

\* The calls a summary takes, retries included, leave one for its request.
SummaryNotInVain == failure # "spent" /\ (at = "request" => used < MaxCalls)
=============================================================================
