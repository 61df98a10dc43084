# A TLA+ development of ResAgent2

ResAgent2 runs a *Research Run*: a parent (Scientific) agent delegates work to
task agents (Coding, Experiment), a scheduler executes the tasks, the user may
send texts, interrupt, answer questions and resume, and everything that matters
is saved in one record so that another process can go on after the first one
died. This directory models the system from that record down to the processes,
files and requests its tools handle. TLC checks the models on small instances;
TLAPS proves the part listed under "What is proved" for every value of the
constants.

## The system

| component | state | operations | interacts with | module |
|---|---|---|---|---|
| `ResearchController` (`orchestrator/controller.py`) | position of the owner, owner lock, cancellation token | create, `run_until_stable` / `_advance`, apply a turn, execute a work request, cancel work, pause, answer, resume, initialize, import literature | everything below, through the saved Run | `RunState`, `Controller`, `Initialization`, `Conclusion` |
| `WorkflowScheduler` (`orchestrator/scheduler.py`) | none of its own: tasks, Attempts and pending results of the Run | accept a proposal or patch, dispatch, receive a result, register its report, evaluate, recover | called by the controller; calls the agents and the registry | `Scheduler`, `Reception`, `Compiler` |
| `ResearchRun`, `RunUsage` (`orchestrator/models.py`, `usage.py`) | the persisted record | load, save (one atomic replacement), charge a request | written by the owner, and by the usage ledger of a call | `RunState`, `ModelRequests` |
| Control inbox (`runtime/controls.py`) | published records, publication lock | submit, pending, settlement fence | written by CLI processes, read by owner and watcher | `RunState`, `Controller`, `Conclusion` |
| Handoffs, completion validator, interpreter (`orchestrator/handoffs.py`, `completion.py`, `interpreter.py`) | `received_controls` | receive a control once, judge a completion, build a work outcome | called while a result is received | `Scheduler`, `Controller`, `Reception`, `Conclusion` |
| `ArtifactRegistry` (`orchestrator/artifacts.py`) | pending registrations, frozen files, artifacts | allocate, freeze, bind, acknowledge, drop, recover | all receivers, initialization, tools of the parent | `Registry`, with `Reception`, `Initialization` and `Conclusion` |
| Workflow compiler (`orchestrator/compiler.py`, contracts) | `pending_compilation` | route, validate, correct once, accept | called for a work request | `Compiler` |
| `AgentLoop` (`runtime/loop.py`) | Session: turns, receipts, pending control, checkpoint | run, yield, suspend, defer, terminate, resume, compact | called by the agents; saves a Session | `Session`, `AgentLoop`, `Compaction` |
| Coding agent (`agents/coding`, `components/git.py`) | baseline tree in its Session | take a baseline, check completion, make the patch | loop, workspace, scheduler | `CodingAttempt` |
| Budget, model requests, retry (`runtime/budget.py`, `llm.py`, `model_request.py`, `http.py`) | reservations, deadline | reserve, complete, retry | called by the loop; charges the Run | `ModelRequests` |
| Cancellation and processes (`runtime/cancellation.py`, `components/process.py`) | token and callbacks, process identities | cancel, register, stop and confirm | watcher thread, tools | `ModelRequests`, `ProcessStop` |
| Repositories (`components/repo.py`) | workspace, staging directory, `workspace.json` | materialize | git, agents | `Materializer` |
| Workspace tools (`components/workspace.py`, `capabilities/workspace`) | none; a prepared snapshot during a call | delete a path after approval | loop, user, other programs | `WorkspaceDelete` |
| Literature (`components/literature`) | locks and times per source | search, resolve | tools in several threads | `Literature` |
| CLI (`apps/cli`) | current Run, flags, one owner thread | create, answer, resume, watch, interrupt, quit | controller and inbox | `Shell` |

What makes it hard: the owner may die between any two saves and a later owner
must neither lose nor repeat what was half done; a watcher thread cancels from a
Run it loaded earlier; user records arrive while a turn is being received; a
result passes through four saves before it is gone, and each artifact through
four of its own; the Session, the Run and the files are three stores that a death
leaves in different states; processes fork, detach and give their PIDs back while
they are being stopped; other programs edit the workspace between a look and a
removal.

What makes each component correct, in short. *Controller*: one active work
request, texts are delivered before work goes on and before completion, an
interrupt stops the chain, a terminal Run stays terminal, a call returns.
*Scheduler*: dependencies, Attempt limit, one running Attempt, a reported Attempt
is final, settled work is fully reported. *Inbox*: no record is accepted by a Run
that is completing and then never seen. *Registry*: every identity is of one
registration, what is bound is frozen as it was promised. *Session*: no call is
started twice, no receipt lies, a control is received once by its owner.
*Requests*: charged before sent, never beyond the wallet, cancelled when the token
is. *Processes*: a confirmed stop left nothing running, nothing foreign was
killed. *Workspace*: no half-built repository, no unapproved removal, a patch is
what changed.

## Modules

| module | content | extends |
|---|---|---|
| `RunState` | constants and assumptions, the persisted Run as variables, shared updates (`ConsumeControls`, `EvaluateRun`) | |
| `Scheduler` | `run_until_stable`, `execute_task`, the agent's answer, `_apply_module_result` in its saves, recovery | `RunState` |
| `Controller` | `_advance`, work requests, the parent's turns, completion, pauses, the user, the watcher, the clock, the death of the owner; `Next`, `Spec` | `Scheduler` |
| `ControllerProperties` | what the Run promises, `FairSpec` | `Controller` |
| `Registry` | the five steps of a registration, which its users conjoin with their own; `RegistrySpec`, any order of them | |
| `Reception` | a task's result received: outputs, settlement, report, acknowledgement, recovery | `Registry` |
| `ReceptionProperties` | what a reception keeps | `Reception` |
| `Initialization` | inputs and papers registered before the first turn and into a paused Run | `Registry` |
| `Conclusion` | the result of the parent received, the report, the terminal commit and the acknowledgements after it | `Registry` |
| `CallLedger` | abstract: a call is asked, started at most once, told once and truly | |
| `Session` | the saved Session, receipts, settling of calls | |
| `AgentLoop` | `AgentLoop.run` with its resumptions, batches, approvals, notices, controls, failure, and its owner | `Session` |
| `AgentLoopProperties` | what a Session keeps; its view as a `CallLedger` | `AgentLoop` |
| `Compaction` | planning, summarising and publishing a checkpoint | |
| `ModelRequests` | reservations, HTTP attempts, retries, cancellation token | |
| `ProcessStop` | a command, its processes, interrupt and timeout | |
| `CodingAttempt` | baseline, command receipts, completion check and patch of a Coding task | |
| `Materializer` | the repository of a workspace | |
| `WorkspaceDelete` | `delete_path` from policy to report | |
| `Literature` | the serial client and the failover over sources | |
| `Compiler` | drafts, routing, proposals and patches, resources | |
| `Shell` | the interactive shell's threads and watches | |
| `MCController`, `MCAgentLoop`, `MCCompiler` | definitions TLC needs for the constants: graphs, profiles of agents, drafts | the module named |
| `MCRun` | the beginning and the end of a Run, each explored by itself | `Initialization`, and an instance of `Conclusion` |
| `MCParts` | six components that share no state, each explored by itself | Materializer, and instances of the others |
| `...Proofs` | theorems, see below | the module named, or its properties |

Components meet in two ways. Some modules share state by `EXTENDS`: Scheduler and
Controller are one specification; Reception, Initialization and Conclusion drive the
Registry: they change its variables by its actions only, so what they can do wrong is to
register the wrong thing, twice, too early or never, and the properties are about that.
The others are checked each with the rest of the system as its environment:
AgentLoop includes an owner that receives, answers, interrupts and dies as the
Controller does; CodingAttempt includes the dispatch and the retry of the
Scheduler; ModelRequests includes the two writers of the Run's usage. No run
composes all of them, since the product of their states is out of TLC's reach.

### The Run: `RunState`, `Scheduler`, `Controller`

**State.** Each variable up to `sciResult` is a field of `ResearchRun`, or of the
inbox, as last saved. `at`, `goal`, `current` and `token` are the volatile
position of the owner: the point of the code it reached, the caller the running
subroutine returns to, the Attempt it handles, and whether its token is set;
`Crash` forgets them. `noticed` is a history variable (how many records a pause
notice accounts for). `attemptStatus = "unstopped"` is a failed Attempt whose
error says `stop_confirmed: False`.

**Steps.** A step ends where the code saves the Run, or where something that may
happen meanwhile can change its course (an agent's answer, a look at the token).
So `_apply_module_result` is `ReceiveResult` (save at 347), `RegisterReport`
(385), `AcknowledgeResult` (393) and `FinishResult` (356), and the owner may die
after each. A save is one step: the store replaces its file atomically.
`Answer` and `Resume` need the owner lock, so they are enabled at `idle` only.

**Abstractions.** Texts, sessions, artifacts and times are left out; a text is a
position in the inbox. An agent's result is one of the kinds the receiver tells
apart (`blocked` is folded into `failed`, `completed_with_warnings` into
`completed`: no guard treats them differently except for not being retried).
An agent may give any answer its tools allow in that state. One invocation
charges one call when it starts; the real charge, one per HTTP attempt, is
ModelRequests, so here the calls may run out at every invocation. Request building
may fail at any dispatch (`RejectRequest`), proposals may be refused for their
content (`WorkRejected`, detailed in Compiler), opinions likewise
(`RejectCompletion`). A proposal's tasks are numbered in workflow order.
Dependencies are a constant relation, restricted to tasks of one work request
because a proposal cannot depend on tasks outside itself.

### Artifacts: `Registry`, `Reception`, `Initialization`, `Conclusion`

`pending`, `artifacts` are fields of the Run; `frozen` the files under the artifact
root, by identity; `allocated` counts identities (`new_artifact_id` never repeats
one). A key is the `operation_key` of a registration; bytes stand for a digest;
facts for the provenance and metadata that equality is judged by. A file is a
version number that grows when the user edits it, until it is `Gone`.

*Reception* follows one Attempt from the saved result to the acknowledgement:
candidates in order (the execution record first), each allocated, frozen and bound
in separate saves, then the settled Attempt, its report, the binding of the report,
and the dropping or acknowledging of allocations; a death after any save, a
storage failure, an edit or removal, and a resumed or cancelled Attempt.

*Initialization* follows `_complete_initialization`, `_import_literature`,
`register_import` and `_freeze`: the check of the digest, the reuse of an equal
snapshot, the second reading of the file for the Ref, and the saved progress.
`Gone` also stands for a PDF without its signature. Files are never put back.
`listed` grows when papers are imported into a paused Run. The dataset catalog is
not modelled.

*Conclusion* follows a Run from its initialization to its end, with the parent agent and
without delegated work. `result` is `pending_module_results["scientific"]`, `session` the
result the Session keeps once it has ended (`terminal_result`), `turn` the time it was saved
at, which is part of the key of each output (`handoffs.py` 52); `opinion`, `reportId` and
`listed` are `final_opinion`, `final_report_artifact_id` and `scientific_artifact_ids`. A
completed result brings an opinion and a trace, a failed one a trace; results that end
nothing name only what tools registered before. `at` is the place in `_advance` and
`_apply_turn`: the result is saved (`SaveResult`), a record published before sends it back
(`DeferEarly`), its outputs are registered, the validator accepts or rejects it
(`Validate`, a choice), and under the fence of the inbox (`Fenced`) a record published
meanwhile sends it back (`DeferLate`), or the report is registered and the terminal commit
made (`CommitRun`). `AcknowledgeOutput` goes through all registrations of the Session,
those of turns that were deferred included, and raises for one that was never bound
(`AcknowledgeRaises`), and what raises fails the Run (`Fail`). Work requests, questions and
replies end a turn as `CommitTurn` does, as far as registrations go; what they do to the
Run is Controller.

### Sessions: `Session`, `AgentLoop`, `CallLedger`, `Compaction`

A turn is one model reply with its calls, or a notice. A call is named by its place;
its receipt says `ok`, `failed`, `interrupted`, `denied` and so on as the code's
texts do; `effects` counts how often the tool really began. The Session is one file
and the Run another: a control exists in the Session before its owner has received
it, and an artifact is frozen in the Run's registry before the receipt that names it
is saved. `Owning` is what the Controller and the Scheduler do with a Session.
Arguments, prompts and the context builder are data; that a context does not fit is
`LoopFails`. `cancel_question`, which clears a pending question, is in Controller.

*Compaction* takes the sizes apart: turns, fixed context and summary have sizes from
small sets, which add up (the overhead of JSON and the rounding of the estimate
are left out).

### Effects: `ModelRequests`, `ProcessStop`, `CodingAttempt`, `Materializer`, `WorkspaceDelete`, `Literature`

*ModelRequests*: `saved` is the Run in the store and `held` the object of its owner;
the ledger of a call loads, changes and saves. `provider` says what really became of
an attempt. The token's callbacks run in the thread that cancels; `posted` is
`task.cancel` waiting in the event loop of the attempt.

*ProcessStop*: a PID is a slot with a birth number, which is its start time. An
identity the code remembers is that pair. The walk of the tree and the reading of
start times are separate steps, as they are in the code. `SlowReuse` says that a PID
is not handed out again between those two readings: `NoForeignKilled` holds under
this assumption, and TLC refutes it without.

*CodingAttempt*: a tree is a version per path. `scope` is the write scope of the task,
fixed with it; commands run only where it is everything. The snapshot of Git is one step.
`quiet` and `alone` are history variables: whether anybody else changed a file. A
death makes recovery retry an Attempt on a workspace that keeps the dead Attempt's
edits, which the code does on purpose, so `NoBlindRetry` speaks of failures only.
Paths that are ignored or unreadable are left out. The execution record is in
Reception.

*Materializer*: every step of `materialize` between two system calls; a clone
survives the process that started it (`orphan`) and may go on writing into the
staging directory. Git is external: a clone completes, fails or stops half way. The
binding of a LOCAL source is left out.

*WorkspaceDelete*: a tree of inodes with stamps. Other programs write, take away and
put entries between any two system calls. Every change gives an inode another stamp;
the resolution of a path and its `lstat` are one step; links lead to one directory
elsewhere; there are no hard links. The snapshot is taken twice and compared; `truth`
is the set of entries there were at the moment the approved pass ended, which is what the
double collect shows to have been true.

*Literature*: times are kept as what is left of them, in ticks of three seconds.
Every client has a token and a deadline. Bodies and parsing are abstract: an answer
is accepted, rejected, limited or failed. `resolve` uses one source, without failover.

### `Compiler` and `Shell`

*Compiler* works on real graphs of two or three tasks. Task ids are the strings the
code builds by concatenation, because one key may spell another's id. The deadline and the
calls of the Run may stop it before any request, a cancellation may interrupt it. The identity
of error messages is abstracted; a routing takes one or two requests to the provider.

*Shell*: `frames` is the stack of nested watches, `reader` the thread that reads a
line, `owner` the daemon thread that executes one Run, `foreign` Runs of other
processes. Parsing, `--help` (which leaves by `SystemExit`) and rendering are left
out. `correcting` is the wish to continue a Run after its interrupt is confirmed. Each watch
has the state of its Run that it last read in its frame: an outer watch decides by what it
read before the inner one was opened. `Rest` is the shell that waits for a line or is over,
so that a deadlock anywhere else is found.

## What the runs check

| run | module | properties | what it shows |
|---|---|---|---|
| `controller_crash` | MCController | `TypeOK`, `BudgetRespected`, `AtMostOneActiveWork`, `ProposalAcceptedOnce`, `TasksInOrder`, `SettledWorkReported`, `CompletedRunSettled`, `ReportedAttemptFinal` | what two deaths of the owner, between any two saves, leave in the Run is accepted once, counted once, attempted in order, received to its end and settled before the Run completes |
| `controller_owner` | MCController | `CompletedRunInformed`, `WaitingTaskHasResponder`, `UnconfirmedStopNeverPaused`, `TerminalIsFinal`, `DispatchAllowed` | with one owner that lives: no text is passed over, no interrupt is missed, nothing waits for nobody, an operation that may still run is not shown as paused |
| `controller_live` | MCController | `OwnerReturns` | a call to the controller returns |
| `interrupt_lost` | MCController | `NoDispatchPastInterrupt` (violated) | the finding below |
| `session` | MCAgentLoop | `HistorySound`, `KeepsLedger`, `ResultCurrent`, `GuardedApproved`, `InvocationReturns` | no call starts twice, every receipt is true, no stale answer is given, nothing unapproved runs; `KeepsLedger` is the refinement AgentLoop => CallLedger |
| `reception` | ReceptionProperties | `RegistrySound`, `ReceptionSound`, `ResultsReceived` | the outputs of an Attempt are registered once, frozen as promised and told in its report; a result is received to its end |
| `initialization` | MCRun | `ImportsSound`, `SnapshotsReused`, `InitializationEnds`, `ConclusionSound` | no model is called before everything listed is an artifact, and that comes to pass while the files stay; a Run completes when every record was read, with one report, of the opinion it ends with, and leaves nothing unacknowledged that is not bound, unless it belongs to a turn that was deferred |
| `model_requests` | ModelRequests | `Accounted`, `CancelReaches`, `CallEnds` | the stored account is right in every state and step, a cancellation reaches the attempt under way, calls end |
| `coding_attempt` | CodingAttempt | `ResultExact`, `NoBlindRetry` | patch, list and receipts tell the change since the Attempt began; no automatic retry hides a change in its baseline |
| `shell` | MCParts | `ControlsReachOwner`, `ShellSound` | the Run that advances is watched, and what is typed in its watch goes to it |
| `compiler` | MCCompiler | `CompiledAsAsked`, `FailuresSpread` | exactly the sound drafts are accepted and become the Workflow they describe; a failure spreads to what depends on it and to nothing else |
| `parts` | MCParts | `RepositorySound`, `StopSound`, `RemovalAuthorized`, `SearchesTrue`, `HistoryKept` | five components that share no state, each explored by itself |

A group such as `HistorySound` is a conjunction of parts that are each defined, and
commented, by themselves; each part has at least one mutant that breaks the group.

**MCParts.** Materializer, ProcessStop, WorkspaceDelete, Literature, Compaction and Shell
share no variable and are never in one call of the program together with effect on each
other, so their product would only multiply states. `part` says which one moves; the
variables of the others hold `"resting"` (those of Materializer its initial state).
`Explored` is the set of parts of a run: the run `shell` explores the shell, the run `parts`
the other five. Every step is one
disjunct of `PartsNext`, so that the coverage of each is visible. The assumptions on the
constants of the instances are asserted by `PartsAssumption`. PIDs other than the
leader's, and the two threads that search, are interchangeable, and so are the Runs of the
shell.

**MCRun.** Initialization and Conclusion are the first and the last thing an owner does with
a Run, with other keys and on other artifacts; `part` says which one moves, as in MCParts.
Its fairness is that of Initialization; nothing is asked of Conclusion in the end.

**Deadlock.** Where `CHECK_DEADLOCK FALSE` stands, the modelled actor really may stop: a
Run that ended, a Session nobody resumes. Elsewhere an explicit
stuttering action (`Done`, `Ended`, `Rest`) is enabled exactly at the intended end, so a deadlock
would be a fault.

### Bounds

*Controller.* `MaxTasks`, `MaxAttempts` and `MaxCalls` are settings of a Run (task slots of
the Workflow, `max_attempts_per_task`, model calls); `MaxWorks`, `ControlKinds`,
`MaxControls` and `MaxCrashes` bound the model, in `WellFormed`, `Submit` and `Crash`.
`controller_crash`: two tasks, the first depending on the second, so that workflow order
is not dependency order; two Attempts; six calls are turn, compilation, dispatch, a retry
and a second request; two works let a new one meet the remains of an old one; two crashes
are the least at which recovery itself is interrupted. `controller_owner`: two independent
tasks, so one waits while the other runs, and two records, so one arrives while the other
is handled.

*Session.* A profile bounds each of the six Sessions: which calls the Agent makes, turns
(`MaxTurns` at most 2), calls per reply (`MaxBatch` 2), model calls of the budget, deaths
(1) and interventions of the user (1). Two turns are one that dies and one that finds what
it left; a batch of two has an earlier and a later neighbour of the call that stops.
`FailureLimit` 2 is the number of equal failures at which the loop gives up.

*Reception, Initialization.* One file of a few versions (`MaxEdits` 1), `MaxOutputs` 2 and
`MaxCommands` 2 (an Attempt hands results over more than once), one input, two papers
(`MaxInputs`, `MaxItems`; the second is imported into the paused Run behind the first), one
storage failure (`MaxFaults`), two and one deaths (`MaxCrashes`).

*Conclusion.* `MaxTurns` 2 results (one that is deferred and one that concludes), two
`Opinions`, so that the report rendered later may differ from one registered earlier,
`MaxRecords` 2 (one before and one after a pause) and `MaxDeaths` 2 (one leaves a
registration half done, one the acknowledgements).

*ModelRequests.* `MaxCalls` 2 calls with `Tries` 2 attempts each under a `Wallet` of 2, so
that the wallet ends inside of a call; one failed save and one death.

*CodingAttempt.* Two paths, contents up to `MaxVersion` 2, two scopes (all, with commands;
one file, without), `MaxAttempts` 2, `MaxEdits` 2 by the Agent, `MaxOutside` 1, one failure
and one death.

*Shell.* Two Runs, all nine commands, `MaxLines` 3 (a command, one inside its watch, one
inside the watch of that), `MaxSignals` 1. Four lines are needed for the exception of
`OwnerWatched`, which is proved for every number of lines.

*Compiler.* Two rounds of requests: all graphs of two tasks with an optional binding, all
graphs of three, every workspace and input, then drafts whose keys return or spell the ids
of others. `MaxTasks` 5 bounds the Workflow, `MaxCalls` 4 its compilations.

*Parts.* Materializer: `MaxCalls` 2 invocations, `MaxCrashes` 2, `MaxFaults` 2, three
sources, all initial contents of the workspace. ProcessStop: three PIDs, `MaxBirths` 3
births, so that a PID is used twice. WorkspaceDelete: a tree of three entries and a single
file, one change by another program (`MaxEdits`), one denied path. Literature: two threads
over two sources with `MaxAttempts` 2, times in ticks (`Interval`, `Cooldown` 1,
`LongRetry` 2, `Deadline` 1) and `MaxSearches` 2. Compaction: turns of 1, 2 or 6 under a
`Limit` of 20 with fixed contexts of 4, 9 and 21 (one that never fits), prompts of
`PromptSize` 3 and summaries of 1 or 6; `MaxTurns` 6 of these sizes pass the soft mark
twice, `MaxRequests` 7 is the budget that may end at a summary, `MaxRestarts` 1.

### Fairness

Only weak fairness of the code's own steps is assumed, never of the user, the watcher, a
clock that cancels, other programs, faults or deaths.

- `controller_live`: `OwnerStep`. An invocation of an agent ends, since it has a budget
  and a deadline. That the loop of `_advance` ends then rests on the calls: every round
  charges one, ends a task or consumes a record. There are no crashes in it, since a
  crash also ends a call.
- `session`: `Serving`, the loop with its model and tools, which answer within their
  budget or fail.
- `reception`: `Working`, the Scheduler while it receives. `ResultsReceived` is asked
  while no file is edited and the storage does not fail.
- `initialization`: `OwnerStep`, and `Continue`: somebody resumes a Run that stopped;
  without that no Run goes on.
- `model_requests`: `Client`; a provider that never answers is part of the run.

### A promise the code breaks: `interrupt_lost`

`_consume_controls` saves the interrupt as consumed (`controller.py` 328) before
`_pause_interrupted` saves the pause and the cancelled work (419). An owner that dies in
between leaves a running Run without a pending interrupt; the next owner recovers its task
and dispatches another Attempt. `NoDispatchPastInterrupt` states what
`docs/current/ARCHITECTURE.md` says of an interrupt.

### Other promises the code does not keep

These are stated in the modules in sections of their own, or follow from a model as told
here. None is a property of a run: each is refuted under the configuration of its module.
They also say why some properties are asked without crashes, or with an antecedent.

| statement | what happens | where |
|---|---|---|
| `CompletedRunInformed`, `DispatchAllowed` with crashes | a reply saved before a crash is applied after the next owner consumed newer texts: the Run completes, or dispatches, without a turn for them | `controller.py` 214, 231, 564 |
| `UnconfirmedStopNeverPaused` with crashes | the unconfirmed stop fails the Run only after the result that says so was dropped | `scheduler.py` 392, 351 |
| `TerminalIsFinal` with crashes | recovery fails the Run for an unconfirmed stop and its last evaluation sets it running again | `scheduler.py` 351, 451, 491 |
| `WaitingTaskHasResponder` with crashes | an approval answered before its reception finished is received again: the task waits for nobody | `scheduler.py` 350, 428 |
| `OutputsListed` with faults | a repeated reception that fails leaves outputs the failed Attempt does not list | `scheduler.py` 287 |
| `AllocationsDropped` | an allocation saved before its bytes were frozen makes acknowledging raise on every later start | `scheduler.py` 397 |
| `SavedResultReceived` | a failed reception of a waiting result, repeated after a crash, is refused by the record | contracts `models.py` 650 |
| `PdfAsRecorded` | a PDF replaced between two readings is bound under a paper that records another digest | `artifacts.py` 104 |
| `FrozenNeedsNoSource` | a frozen PDF whose source was removed stops every later start | `controller.py` 138 |
| a completed Run stays completed (`ConclusionStands` makes the exception) | an owner dies after it allocated an output and before the file is frozen, and the next one defers that turn: the allocation stays, and the acknowledgements after the terminal commit raise over it and fail the completed Run | `controller.py` 616, 669 |
| a turn that is deferred leaves nothing behind | an owner dies after it allocated the report, and the next one defers that turn: a later report that differs is refused, and the Run fails | `artifacts.py` 85, `controller.py` 600 |
| the Session of a completed Run has ended | an owner dies after `defer_completion` saved the Session and before the Run forgot the result: a later owner applies that result and completes | `controller.py` 678, 685 |
| `AcknowledgesItsControl` | after a crash the owner acknowledges an older control and the Session fails | `loop.py` 1270 |
| `ClearedControlReceived` | a control lost with its owner is cleared as if received | `loop.py` 1275 |
| `ControlResumes` | a notice between a control and its receipt makes every resume raise | `loop.py` 979 |
| `ControlsReachCorrected` | a correction whose owner failed leaves a flag that makes the end of another watch continue that watch's Run; `/attach` can start a Run the same way | `shell.py` 401 |
| `ContinuedWatched` | the owner that continues a corrected Run, when another Run has become the current one: the end of input asks that one to stop, which raises if it has ended, and the watch of the owner is gone | `shell.py` 549 |
| `NeverAbandoned` | Ctrl-C before the Run is stored ends the shell and its owner thread | `shell.py` 236 |
| `QuitExits` | `/quit` in a nested watch stops the reader and not the watch | `shell.py` 555 |
| `KeepsLedger` for a task's Session that dies | `terminate_session` tells a call that was executing when its process died "not executed"; the profiles of task agents therefore have no deaths, those of the parent have | `loop.py` 211 |
| a timeout leaves no process | a command that runs out of time is ended without the identities remembered: a detached process goes on | `process.py` 448 |
| a confirmed stop leaves no process | one that detached between two walks and holds no pipe is never seen; `StopConfirmed` speaks of those seen or writing | `process.py` 280 |
| `NoForeignKilled` without `SlowReuse` | a PID handed out again between two readings gets another program killed | `process.py` 158 |
| only what was shown is removed | what takes the place of an entry between its last look and its removal is removed; `FromInspectedDirectory` is what remains true | `workspace.py` 266 |
| the soft mark measures the request | the summary of earlier turns is not counted, so a Session with a long one passes the mark | `loop.py` 460 |

## What is proved

All theorems hold for every value of the constants that satisfies the named assumptions
of the module (`TasksAssumption` to `CrashesAssumption` of RunState, `RequestAssumption`,
`MaterializerAssumption`, `CodingAssumption`, `PartsAssumption`, those of Initialization): at least one task,
Attempt and work, natural bounds, and the typing of the sets. Each follows the same
argument: the initial states satisfy an inductive invariant, every action keeps it (one
step of the proof for each), and it implies the property.

- `ControllerProofs!TypeCorrect` (`TypeOK`). A result is looked up under `current`, so the
  invariant adds that points which handle an Attempt have one, that a received Attempt
  has a result, and that a running task was attempted.
  `BudgetHolds`, strengthened by "at `dispatch` calls are left", since the count is read
  before the Attempt is saved and charged after. `OneActiveWork`, by "while a turn that
  requests work waits to be applied, no work is live and one is still absent".
  `AcceptedOnce`, by what a saved proposal says of the work it was compiled for.
  `TasksInv` is the conjunction of `AttemptInv` (one Attempt runs, and only the last one of
  a task may be half received), `PointInv` (what the owner knows of them at each point of
  the code), `DependencyInv` (a completed task stays so when its result is applied again)
  and `WaitingInv` (a task that waits can be resumed). From it `AttemptsInOrder`
  (`TasksInOrder`, with its parts `RunsOneAttempt`, `RespectsDependencies`,
  `StartsWhatIsReady`); with `SettledInv`, `CompletesSettled` (`CompletedRunSettled`); with
  `ReportInv`, the action property `ReportsAreFinal` (`ReportedAttemptFinal`); with
  `HandoffInv`, which says where the owner stands when an outcome of settled work is not
  reported yet, `HandsOverReported` (`SettledWorkReported`).
  The properties of `controller_owner` fail with one death, so they are proved of the life
  of the first owner: `CompletesInformed`, `WaitingIsAnswered` and `UnconfirmedStopFails`
  while `NoOwnerDied`, `EndsOnce` (`TerminalIsFinal`) and `DispatchesInformed`
  (`DispatchAllowed`) of the behaviours in which it always holds, whatever `MaxCrashes` is.
  They rest on `OneLifeInv`. `OwnerInv` says that every call ends with nothing left to
  recover, from which `NothingRecovers`: the steps of a recovery, and the refusal of a
  cancellation, are not taken in that life. `LiveInv` ties live tasks to live work,
  `StatusInv` the Run's status to where the owner is, so that nothing but the end of a call
  follows a final status. `HeardInv` says what was consumed since the parent's last turn and
  who still has to act on it, and `AnsweredInv` who answers a task that waits; the two need
  each other, since an Attempt is only dispatched when nobody is owed a turn.
- `ReceptionProofs` begins with the abstract registry: `RegistryIsSound` and its parts, from
  `RegistryInv`, in which each part needs the others: binding is sound because the file
  under an identity can only have the promised bytes, freezing because nobody else has the
  identity, allocating because an identity not given out has no file yet. The lemma
  `ReceptionIsRegistration` says that every save of a reception, fault, edit and death is a
  step of the registry or leaves it alone, which holds by the way Reception is written;
  `ReceptionKeepsRegistry` (`RegistrySound`) follows. `ReceptionIsSound` (`ReceptionSound`)
  puts `OutputsOnce`, `KeysStayOwn`, `ReportIsTrue` and `ReportFirst` together with what
  holds while nobody touches the files. The invariant says of each point what was
  registered of the result in hand, what the Attempt lists and what a report that exists
  was made from. The facts of a report record the whole Attempt, so the theorems suppose
  that the set of facts holds them all (`AttemptFacts \subseteq Facts`): no finite set
  would do for every number of Attempts.
- `InitializationProofs`. `InitializationKeepsRegistry` (`RegistrySound`) is the same for the
  imports (the lemmas on the steps of the registry are repeated there: Initialization and
  Reception give their actions the same names, so that no module extends both). `ImportsAreSound`, from `IInv`: the registry's invariant, types,
  the position of the import, what the saved progress and the leftovers say, and what is
  held in memory. `SnapshotsAreReused` (`SnapshotsReused`) adds `ReuseInv`: a key says what
  kind of facts it stands for, and the snapshot on its way to an identity is one that no
  artifact has, since files only move on to versions that nobody read.
- `ModelRequestsProofs`: `AccountIsRight` (`Accounted`, states and steps) and
  `CancellationReaches`. The invariant says at each point of a call how the ledger held
  in memory, the one in the store and the request on its way relate, failed saves
  included.
- `PartsProofs`, about the parts of MCParts. `RepositoryIsSound` and, of the specification
  the run checks, `PreparationIsSound` (`RepositorySound`): the invariant says what the
  workspace, the staging directory and the metadata may hold at each point, an orphaned
  clone still writing.
  `StopIsSound` (`StopSound`) for any set of PIDs and number of births, supposing
  `SlowReuse`, without which it fails. `Lineage` says what a PID that is free has left and
  which processes are the command's, `LeaderKept` that the leader's PID and group are the
  command's until the owner has reaped it, `IdentityKept` that a start time is given out
  once, so that a process whose start time was remembered is the one that was seen,
  `WalkKept` what a walk of the tree is worth until it is used, `StopsChecked` that what was
  found gone stays gone while the pipes are drained.
  `ShellIsSound` (`ShellSound`) and `ControlsReach` (`ControlsReachOwner`) for any Runs,
  commands, lines and signals, from `ShellInvariant`. `Watched` says that the innermost
  watch, and not just one of them, is for the owner; it is inductive only with `Nested`
  (where the main thread can be for a stack of watches and what lies below it), `Opened`
  (a line for every watch, which bounds the stack), `HasRun` and `Starting` (an owner that
  is about to start is for a Run, and for the current one where the user controls it),
  `Running` and `Stored` (its Run can be asked to stop, so the end of input does not raise),
  `OwnsCurrent` and `Expected`.
  `SearchesAreTrue` (`SearchesTrue`, states and steps) for any threads, sources, waits and
  numbers of tries, from `SearchInv`. `LockKept` says which thread is where while a source
  is locked: the lock is held over the wait, the request and the noting of its answer, which
  is what makes requests to a source single. `QuietKept` says that the quiet a source asked for is
  over when its cooldown or its spacing is, and that a thread which is about to ask, or has
  asked, has waited for both; it needs the lock, since an answer heard by another thread
  would put the quiet up again during the wait. `ClientKept`
  ties what a thread was told so far to the place it is at, so that it can only end with an
  outcome that is true of all sources, and each was asked at most `MaxAttempts` times. The
  sources are distinct, as the constructor of the failover requires (`backends.py` 292).
  `HistoryIsKept` (`HistoryKept`) for turns, contexts and summaries of any size, from
  `HistoryInv`: the types, `RoundKept` (the boundary planned is past the one in force, the
  summary received covers the turns before it, a call is left while the round goes on) and
  `NothingForgotten` itself. The planner picks its boundary by a fold over sums of
  sequences. `PlannerKeepsLongest` shows what the pick is worth: of the suffixes within the
  target the longest, or the newest turn. It rests on lemmas about the folds, which stand in
  for an induction: a set of counterexamples has a least one (`LeastOf`), and a fold over a
  domain extends to the next (`SumsGrow`, `SumsExist`).
- `DeletionProofs`, about the part of MCParts that is WorkspaceDelete.
  `RemovalIsAuthorized` (`RemovalAuthorized`) for any targets, denied paths and number of
  changes by other programs, from `DeletionInv`. No walk of the tree is atomic, so the
  invariant says what an entry that was seen is worth later. `NodeInv`: the inodes form a
  tree, each bound once and younger than what binds it; what lies at a path follows from what
  lies at the path without its last name, and proofs over paths go down the tree along this
  (`DownTheTree`, three names deep as the model's paths are) in place of an induction.
  `Evolves`: each change of a directory shows in its stamp, and what is bound anew was bound
  nowhere, so that a directory which is as it was seen was so all the time in between
  (`CurrentBack`). `WalkInv` says of a walk that each entry was seen as noted and once, in
  the directory noted before it unless that is to be missed when it is looked at again, and
  that a directory which is as it was seen holds nothing the walk passed over. When the
  policy allows the removal, the tree of that moment (`truth`) has every entry the walk
  before it saw and that is still as it was (`PreparedKept`, `TruthKept`), and what the
  walk after it finds the same was so at that moment (`Found`). Two walks that agree
  therefore saw just that tree (`TheTruth`). Of the removal, `Removals` says what is deleted
  and what is to be, and `Awaits`, with `OnlyIn`, that the directory which was opened is the
  inspected one, wherever it was moved.
- `AgentLoopProofs`, about one Session for any Agents, batches, budgets, deaths and
  interventions. Its inductive invariant `IInv` (`SessionInvariant`) speaks of the calls of
  a history rather than of turns: which were asked, are open, run, and what their receipts
  say. `CurrentInv` and `WholeInv` say where the invocation stands among them, `EffectsInv`
  and `TaskInv` what really began, `ControlInv`, `ReceivedInv` and `ApprovalInv` how
  controls and approvals in the Session and at the owner belong to calls, `OwnerInv`,
  `RequestInv` and `CacheInv` what owner and Session know of each other, `StatusInv` and
  `MaterialsInv` the rest. Each needs others: that a saved answer is still true rests on the
  receipts of controls, these on the call the loop is at, and that on the history. Lemmas
  say once for each way a history changes (calls are asked, settled, marked, told by a
  notice) what becomes of its calls; five lemmas, one for each part of the program, then
  take every action through the invariant. From it follow `HistoryHolds` (`HistorySound`,
  its states and its step), `GuardedApprovedHolds`, `ResultCurrentHolds`, and
  `LedgerKept`, the refinement `KeepsLedger`: every action is a step of CallLedger or none.
  `LedgerKept` supposes `TasksLive`, that no process of a task dies; without it the
  refinement fails, as the table above says.
- `CodingAttemptProofs`: `ResultIsExact` (`ResultExact`) and `RetriesFromBaseline`
  (`NoBlindRetry`): the baseline in memory and in the Session is the snapshot the Attempt
  began with, and what the check has found so far is what changed unless somebody else
  wrote.

**Only model-checked.** Liveness, which needs fairness and ENABLED. The Compiler, since
it walks graphs with a RECURSIVE operator, which the prover does not handle. Conclusion
(`ConclusionSound`), also with three turns, three records and three deaths.

## Not modelled

- *Run store and paths*: a save is one atomic replacement of a file, taken as one step.
- *Dataset catalog, web search, fetching of full texts, reading and searching of files*:
  one call each over a request or a file, without state of their own. Their replay after
  a death is a call of AgentLoop.
- *Provider formats, parsing, prompts, contexts, estimates of tokens, rendering of reports*:
  functions over data on which no guard of the models depends but "fits" and "is valid",
  which are choices.
- *Validators of the records' fields*: those the control flow can meet are guards
  (`RecoverRaises`, `SavedSessionLoads`); the others restrict the shape of data.
- *Content of completion checks and opinions*: they may refuse at any time.
- *Terminal, argument parsing, composition of the application*: no protocol of their own.
- *The Experiment agent's own file*: a prompt and a check that a record exists; its
  Attempts are those of Scheduler.
- *Composition of everything*: Controller, Reception, AgentLoop, ModelRequests and Compiler
  each carry an environment that behaves as the neighbouring module may; their product is
  out of TLC's reach.
