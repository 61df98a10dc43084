------------------------- MODULE ReceptionProperties -------------------------
(* What receiving the result of an Attempt keeps. *)
EXTENDS Reception

\* The variables keep to the values the code gives them.
TypeInvariant ==
  /\ RegistryTypes
  /\ source \in [Files -> Versions \union {Gone}] /\ commands \in 0..MaxCommands
  /\ result.outcome \in Outcomes \union {"none"} /\ result.outputs \in Seq(Outputs)
  /\ attempt \in [status : Statuses, error : Errors, ids : SUBSET (1..allocated)]
  /\ report \in Nat /\ next \in Nat \ {0}
  /\ at \in {"agent", "receive", "report", "consumed", "acknowledge", "finish", "idle", "down"}
  /\ refs \subseteq 1..allocated /\ before \subseteq artifacts
  /\ faults \in 0..MaxFaults

\* An output is registered once however often its result is received, and the
\* record of the same commands is frozen once however often it is handed over.
RegisteredOnce ==
  \A r1, r2 \in artifacts :
    \/ r1.key = r2.key
    \/ r1.bytes \in RecordBytes /\ r1.bytes = r2.bytes
    => r1 = r2

\* An allocation that waits under the key of the next output is that output's:
\* results of one Attempt never take each other's keys.
KeysNotReused ==
  Receiving /\ IsPending(OutputKey) => pending[OutputKey].facts = Output

\* Once bound, the report names the status, the error and the outputs the
\* Attempt ended with, for good.
ReportTellsAttempt ==
  report # 0 =>
    \E ref \in artifacts :
      /\ ref.id = report
      /\ ref.facts.status = attempt.status /\ ref.facts.error = attempt.error
      /\ ref.facts.ids = attempt.ids

\* The storage has not failed and the files handed over are as the Agent left them.
Undisturbed == faults = 0 /\ \A f \in Files : source[f] = 0

\* An Attempt that ended lists every output registered for it.
OutputsListed ==
  report # 0 =>
    {ref.id : ref \in {r \in artifacts : r.key # ReportKey}} \subseteq attempt.ids

\* An allocation is forgotten only when the report of its Attempt is bound.
AcknowledgedAfterReport ==
  [][(\E k \in Keys : IsPending(k) /\ pending'[k] = NoRef) => report # 0]_vars

\* Receiving a result, wherever it dies and starts again, registers every output once
\* under its own key, lists them all in a report that tells the Attempt, and leaves an
\* Attempt that ended alone; of these, what an ended Attempt lists and keeps holds while
\* nothing disturbs the files.
ReceptionSound ==
  /\ [](TypeInvariant /\ RegisteredOnce /\ KeysNotReused /\ ReportTellsAttempt
        /\ (Undisturbed => OutputsListed))
  /\ AcknowledgedAfterReport
  /\ [][Ended /\ Undisturbed => UNCHANGED attempt]_vars

Settled == at = "idle" /\ Ended /\ PendingKeys = {}

\* While nothing disturbs the files, a result that was returned is received to
\* its end, whatever died meanwhile, and an Attempt that ended leaves no
\* allocation behind.
ResultsReceived ==
  /\ (Returned /\ Undisturbed) ~> (~Returned \/ ~Undisturbed)
  /\ (Ended /\ Undisturbed) ~> (Settled \/ ~Undisturbed)

-----------------------------------------------------------------------------
(* What the texts of the repository say and the code does not keep. *)

\* Dropping the allocations of a received result is not refused.
AllocationsDropped == raised # "uncommitted"

\* A result saved before its Attempt ended can still be received.
SavedResultReceived == raised # "reopened"
=============================================================================
