------------------------------ MODULE Reception ------------------------------
(* The Scheduler receives what one Attempt of a task returned: the result is *)
(* saved, its outputs are registered one by one, the Attempt is settled, its *)
(* report is registered and bound, and the allocations are acknowledged.     *)
(* The Attempt may wait several times, and the owner may die after any save. *)
EXTENDS Registry, Integers, Sequences

CONSTANTS
  Files,          \* files of the workspace a task may hand over
  MaxOutputs,     \* files in the final result
  MaxCommands,    \* commands the Agent may run: versions of its record
  MaxEdits,       \* changes to a file after the Agent returned
  MaxFaults,      \* failures of the storage while a file is staged
  MaxCrashes

ASSUME ReceptionAssumption ==
  MaxOutputs \in Nat /\ MaxCommands \in Nat /\ MaxEdits \in Nat
  /\ MaxFaults \in Nat /\ MaxCrashes \in Nat

Gone == -1
Versions == 0..MaxEdits
FileBytes == {"file"} \X Files \X Versions
RecordBytes == {"record"} \X (1..MaxCommands)
ReportBytes == <<"report", 0>>

\* An output: a file of the workspace, or the record of the commands run.
FileOutputs == [kind : {"file"}, path : Files]
RecordOutputs == [kind : {"record"}, bytes : RecordBytes]
Outputs == FileOutputs \union RecordOutputs

Outcomes == {"waits", "completed", "unacceptable", "failed"}
Errors == {"none", "agent", "unacceptable", "missing", "changed", "storage",
           "interrupted", "cancelled"}
Statuses == {"running", "waits", "completed", "failed", "cancelled"}

\* Keys, bytes and facts of the registrations of one Attempt.
MaxKey == (MaxOutputs + 1) * (MaxCommands + 3)
ReportKey == <<"report", 0>>
AttemptKeys == {<<"output", i>> : i \in 1..MaxKey} \union {ReportKey}
AttemptBytes == FileBytes \union RecordBytes \union {ReportBytes}
AttemptFacts ==
  Outputs \union [status : Statuses, error : Errors, agent : Errors, ids : SUBSET Nat]

ASSUME AttemptAssumption ==
  AttemptKeys \subseteq Keys /\ AttemptBytes \subseteq Bytes

VARIABLES
  source,      \* the version of each file, or Gone
  commands,    \* commands in the Session's receipts
  result,      \* Run.pending_module_results of the Attempt
  attempt,     \* the saved Attempt
  report,      \* attempt.report_artifact_id
  at, next, refs, before,   \* the owner: where it is, and its locals
  raised,      \* the exception that last left the Scheduler
  faults, crashes

savedVars == <<result, attempt, report>>
localVars == <<at, next, refs, before, raised>>
worldVars == <<source, commands, faults, crashes>>
vars == <<registryVars, savedVars, localVars, worldVars>>

NoResult == [outcome |-> "none", outputs |-> <<>>, previous |-> 0]
Returned == result # NoResult
Ended == attempt.status \notin {"running", "waits"}

Init ==
  /\ RegistryInit
  /\ source = [f \in Files |-> 0] /\ commands = 0
  /\ result = NoResult
  /\ attempt = [status |-> "running", error |-> "none", ids |-> {}]
  /\ report = 0
  /\ at = "agent" /\ next = 1 /\ refs = {} /\ before = {}
  /\ raised = "none" /\ faults = 0 /\ crashes = 0

GoTo(step) == at' = step /\ UNCHANGED <<next, refs, before, raised>>

\* An exception leaves the Scheduler and its owner.
Raise(error) ==
  /\ at' = "down" /\ raised' = error
  /\ next' = 1 /\ refs' = {} /\ before' = {}

-----------------------------------------------------------------------------
(* The Agent, as its adapter hands results over. *)

RunCommand ==
  /\ at = "agent" /\ commands < MaxCommands
  /\ commands' = commands + 1
  /\ UNCHANGED <<registryVars, savedVars, localVars, source, faults, crashes>>

\* preserve_execution_record: every result carries the record of all commands,
\* first.  Only a result that ends the Attempt carries deliveries.
RecordOutput == IF commands = 0 THEN <<>>
                ELSE <<[kind |-> "record", bytes |-> <<"record", commands>>]>>

Deliveries(outcome) ==
  IF outcome = "waits" THEN {<<>>}
  ELSE {[i \in DOMAIN names |-> [kind |-> "file", path |-> names[i]]] :
          names \in UNION {[1..n -> Files] : n \in 0..MaxOutputs}}

AgentReturns(outcome) ==
  /\ at = "agent"
  /\ \E files \in Deliveries(outcome) :
       result' = [outcome |-> outcome, outputs |-> RecordOutput \o files,
                  previous |-> Cardinality(attempt.ids)]
  /\ at' = "receive" /\ next' = 1 /\ refs' = {} /\ before' = artifacts
  /\ UNCHANGED <<registryVars, attempt, report, raised, worldVars>>

\* The workspace stays writable: by the next task, or by the user.
EditFile(f) ==
  /\ source[f] # Gone
  /\ source' = [source EXCEPT ![f] = IF @ < MaxEdits THEN @ + 1 ELSE Gone]
  /\ MaxEdits > 0
  /\ at # "agent"
  /\ UNCHANGED <<registryVars, savedVars, localVars, commands, faults, crashes>>

-----------------------------------------------------------------------------
(* receive_artifacts *)

Output == result.outputs[next]
\* Mutant: outputs are numbered from one in every result.
OutputKeyRestarts == <<"output", next>>

OutputKey == <<"output", result.previous + next>>
Receiving == at = "receive" /\ next <= Len(result.outputs)

IsFile(output) == output.kind = "file"
Readable(output) == IsFile(output) => source[output.path] # Gone
BytesOf(output) ==
  IF IsFile(output) THEN <<"file", output.path, source[output.path]>> ELSE output.bytes

\* Mutant: every snapshot is frozen again.
EqualRecordsNever(output) == {}

\* The same commands were already handed over by an earlier wait.
EqualRecords(output) ==
  {ref \in artifacts : ~IsFile(output) /\ ref.facts = output /\ ref.bytes = BytesOf(output)}

TakeNext(ref) ==
  /\ refs' = refs \union {ref.id}
  /\ next' = next + 1
  /\ UNCHANGED <<at, before, raised>>

\* The Attempt fails, and lists what was registered since the call began.
FailReception(error) ==
  /\ attempt' = [status |-> "failed", error |-> error,
                 ids |-> attempt.ids \union {ref.id : ref \in artifacts \ before}]
  /\ GoTo("report")
  /\ UNCHANGED <<registryVars, result, report>>

ReuseRecord ==
  /\ Receiving /\ ~IsPending(OutputKey)
  /\ \E ref \in EqualRecords(Output) : TakeNext(ref)
  /\ UNCHANGED <<registryVars, savedVars, worldVars>>

AllocateOutput ==
  /\ Receiving /\ EqualRecords(Output) = {} /\ Readable(Output)
  /\ Allocate(OutputKey, BytesOf(Output), Output)
  /\ UNCHANGED <<savedVars, localVars, worldVars>>

FindMissing ==
  /\ Receiving /\ ~IsPending(OutputKey) /\ ~Readable(Output)
  /\ FailReception("missing")
  /\ UNCHANGED worldVars

FreezeOutput ==
  /\ Receiving /\ Readable(Output)
  /\ IsPending(OutputKey) /\ pending[OutputKey].facts = Output
  /\ Freeze(OutputKey, BytesOf(Output))
  /\ UNCHANGED <<savedVars, localVars, worldVars>>

Unfrozen == Receiving /\ IsPending(OutputKey) /\ ~IsFrozen(pending[OutputKey])
            /\ pending[OutputKey].facts = Output

SourceChanged ==
  /\ Unfrozen
  /\ ~Readable(Output) \/ pending[OutputKey].bytes # BytesOf(Output)
  /\ FailReception(IF Readable(Output) THEN "changed" ELSE "missing")
  /\ UNCHANGED worldVars

StorageFails ==
  /\ Unfrozen /\ faults < MaxFaults
  /\ faults' = faults + 1
  /\ FailReception("storage")
  /\ UNCHANGED <<source, commands, crashes>>

BindOutput ==
  /\ Receiving /\ IsPending(OutputKey) /\ pending[OutputKey].facts = Output
  /\ Bind(OutputKey)
  /\ TakeNext(pending[OutputKey])
  /\ UNCHANGED <<savedVars, worldVars>>

-----------------------------------------------------------------------------
(* _apply_module_result after the outputs *)

StatusOf(outcome) ==
  CASE outcome = "waits" -> "waits"
    [] outcome = "completed" -> "completed"
    [] OTHER -> "failed"

ErrorOf(outcome) ==
  CASE outcome = "failed" -> "agent"
    [] outcome = "unacceptable" -> "unacceptable"
    [] OTHER -> "none"

Received == at = "receive" /\ next > Len(result.outputs)

\* Attempt.validate_outcome: one that waits has neither error nor end.
Reopens == Ended /\ StatusOf(result.outcome) = "waits"

\* Mutant: the outputs of an earlier wait are forgotten.
SettleAttemptForgets ==
  /\ Received /\ ~Reopens
  /\ attempt' = [status |-> StatusOf(result.outcome), error |-> ErrorOf(result.outcome),
                 ids |-> refs]
  /\ GoTo(IF result.outcome = "waits" THEN "finish" ELSE "report")
  /\ UNCHANGED <<registryVars, result, report, worldVars>>

SettleAttempt ==
  /\ Received /\ ~Reopens
  /\ attempt' = [status |-> StatusOf(result.outcome), error |-> ErrorOf(result.outcome),
                 ids |-> attempt.ids \union refs]
  /\ GoTo(IF result.outcome = "waits" THEN "finish" ELSE "report")
  /\ UNCHANGED <<registryVars, result, report, worldVars>>

SettleRaises ==
  /\ Received /\ Reopens
  /\ Raise("reopened")
  /\ UNCHANGED <<registryVars, savedVars, worldVars>>

-----------------------------------------------------------------------------
(* _persist_attempt_report *)

\* Mutant: the report lists the outputs of the last result only.
ReportFactsOfResult ==
  [status |-> attempt.status, error |-> attempt.error,
   agent |-> ErrorOf(result.outcome), ids |-> refs]

ReportFacts ==
  [status |-> attempt.status, error |-> attempt.error,
   agent |-> ErrorOf(result.outcome), ids |-> attempt.ids]

AllocateReport ==
  /\ at = "report" /\ report = 0
  /\ Allocate(ReportKey, ReportBytes, ReportFacts)
  /\ UNCHANGED <<savedVars, localVars, worldVars>>

FreezeReport ==
  /\ at = "report" /\ report = 0
  /\ Recovers(ReportKey, ReportBytes, ReportFacts)
  /\ Freeze(ReportKey, ReportBytes)
  /\ UNCHANGED <<savedVars, localVars, worldVars>>

RegisterReport ==
  /\ at = "report" /\ report = 0
  /\ Recovers(ReportKey, ReportBytes, ReportFacts)
  /\ ~IsBound(pending[ReportKey]) /\ Bind(ReportKey)
  /\ UNCHANGED <<savedVars, localVars, worldVars>>

BindReport ==
  /\ at = "report" /\ report = 0
  /\ Recovers(ReportKey, ReportBytes, ReportFacts) /\ IsBound(pending[ReportKey])
  /\ report' = pending[ReportKey].id
  /\ GoTo("consumed")
  /\ UNCHANGED <<registryVars, result, attempt, worldVars>>

ReportRefused ==
  /\ at = "report" /\ IsPending(ReportKey)
  /\ ~Recovers(ReportKey, ReportBytes, ReportFacts)
  /\ Raise("facts")
  /\ UNCHANGED <<registryVars, savedVars, worldVars>>

-----------------------------------------------------------------------------
(* _acknowledge_attempt_result *)

ConsumeResult ==
  /\ at = "consumed"
  /\ result' = NoResult
  /\ GoTo("acknowledge")
  /\ UNCHANGED <<registryVars, attempt, report, worldVars>>

PendingKeys == {k \in Keys : IsPending(k)}
\* In the order of allocation.
FirstPending ==
  CHOOSE k \in PendingKeys : \A j \in PendingKeys : pending[k].id <= pending[j].id

\* Mutant: the allocations of an Attempt that waits are dropped as well.
AcknowledgeNextEarly ==
  /\ at \in {"acknowledge", "finish"} /\ PendingKeys # {}
  /\ Acknowledge(FirstPending)
  /\ UNCHANGED <<savedVars, localVars, worldVars>>

AcknowledgeNext ==
  /\ at = "acknowledge" /\ PendingKeys # {}
  /\ Acknowledge(FirstPending)
  /\ UNCHANGED <<savedVars, localVars, worldVars>>

AcknowledgeRefused ==
  /\ at = "acknowledge" /\ PendingKeys # {} /\ ~IsBound(pending[FirstPending])
  /\ Raise("uncommitted")
  /\ UNCHANGED <<registryVars, savedVars, worldVars>>

Acknowledged ==
  /\ at = "acknowledge" /\ PendingKeys = {}
  /\ GoTo("finish")
  /\ UNCHANGED <<registryVars, savedVars, worldVars>>

\* Mutant: the saved result stays behind.
FinishKeepsResult ==
  /\ at = "finish"
  /\ GoTo("idle")
  /\ UNCHANGED <<registryVars, savedVars, worldVars>>

Finish ==
  /\ at = "finish"
  /\ result' = NoResult
  /\ GoTo("idle")
  /\ UNCHANGED <<registryVars, attempt, report, worldVars>>

-----------------------------------------------------------------------------
(* The owner *)

\* execute_task on an Attempt whose question was answered.
ResumeAttempt ==
  /\ at = "idle" /\ attempt.status = "waits"
  /\ attempt' = [attempt EXCEPT !.status = "running"]
  /\ GoTo("agent")
  /\ UNCHANGED <<registryVars, result, report, worldVars>>

\* _cancel_work ends an Attempt that waits.
CancelAttempt ==
  /\ at = "idle" /\ attempt.status = "waits"
  /\ attempt' = [attempt EXCEPT !.status = "cancelled", !.error = "cancelled"]
  /\ GoTo("report")
  /\ UNCHANGED <<registryVars, result, report, worldVars>>

Crash ==
  /\ at # "down" /\ crashes < MaxCrashes
  /\ crashes' = crashes + 1
  /\ Raise("none")
  /\ UNCHANGED <<registryVars, savedVars, source, commands, faults>>

\* Mutant: an Attempt without a report counts as interrupted.
RecoverAsLost ==
  /\ at = "down" /\ raised' = "none"
  /\ refs' = {} /\ next' = 1 /\ before' = artifacts
  /\ attempt' = IF report # 0 THEN attempt
                ELSE [attempt EXCEPT !.status = "failed", !.error = "interrupted"]
  /\ at' = IF report # 0 THEN "consumed" ELSE "report"
  /\ UNCHANGED <<registryVars, result, report, worldVars>>

\* _recover_interrupted_attempts_in_place
Recover ==
  /\ at = "down" /\ raised' = "none"
  /\ refs' = {} /\ next' = 1 /\ before' = artifacts
  /\ \/ /\ Returned /\ report # 0
        /\ at' = "consumed" /\ UNCHANGED attempt
     \/ /\ Returned /\ report = 0
        /\ at' = "receive" /\ UNCHANGED attempt
     \/ /\ ~Returned /\ Ended /\ report = 0
        /\ at' = "report" /\ UNCHANGED attempt
     \/ /\ ~Returned /\ report # 0
        /\ at' = IF PendingKeys # {} THEN "consumed" ELSE "idle"
        /\ UNCHANGED attempt
     \/ /\ ~Returned /\ attempt.status = "waits"
        /\ at' = "idle" /\ UNCHANGED attempt
     \/ /\ ~Returned /\ attempt.status = "running"
        /\ attempt' = [attempt EXCEPT !.status = "failed", !.error = "interrupted"]
        /\ at' = "report"
  /\ UNCHANGED <<registryVars, result, report, worldVars>>

Done == at = "idle" /\ Ended /\ UNCHANGED vars

Working ==
  \/ RunCommand \/ \E outcome \in Outcomes : AgentReturns(outcome)
  \/ ReuseRecord \/ AllocateOutput \/ FindMissing
  \/ FreezeOutput \/ SourceChanged \/ StorageFails \/ BindOutput
  \/ SettleAttempt \/ SettleRaises
  \/ AllocateReport \/ FreezeReport \/ RegisterReport \/ BindReport \/ ReportRefused
  \/ ConsumeResult \/ AcknowledgeNext \/ AcknowledgeRefused \/ Acknowledged \/ Finish
  \/ Recover

Next ==
  \/ Working \/ ResumeAttempt \/ CancelAttempt
  \/ \E f \in Files : EditFile(f)
  \/ Crash \/ Done

Spec == Init /\ [][Next]_vars
FairSpec == Spec /\ WF_vars(Working)
=============================================================================
