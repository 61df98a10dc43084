-------------------------------- MODULE MCParts --------------------------------
(* The components that share no state with one another, each explored by itself: *)
(* part says whose steps are taken, and the state of the others rests.            *)
EXTENDS Materializer, Sequences, TLC

CONSTANTS
  Explored,                                                   \* the parts a run explores
  Pids, Leader, MaxBirths, SlowReuse,                         \* ProcessStop
  Targets, Denied, MaxEdits,                                  \* WorkspaceDelete
  Clients, Order, Interval, MaxAttempts, Cooldown, LongRetry,
  Deadline, MaxSearches, NoOne,                               \* Literature
  Limit, FixedSizes, TurnSizes, SummarySizes, PromptSize,
  MaxRequests, MaxTurns, MaxRestarts,                         \* Compaction
  Runs, NoRun, Commands, MaxLines, MaxSignals                 \* Shell

VARIABLES
  part,
  proc, births, piped, reaped, seen, walk, stopCancelled, expired,
  stopAt, cause, stopped, stopOutcome,
  node, fresh, edits, phase, target, recursive, todo, entries, shown, answer,
  prepared, truth, pending, deleted, anchor, removed, report,
  owner, nextIn, coolIn, current, clientAt, want, rest, attempt, attempts,
  clientOutcome, clientCancelled, deadlineIn, inFlight, quietIn, heard, searches,
  turns, checkpoint, used, loopAt, fixed, plan, summary, failure, restarts,
  status, interrupts, foreign, runner, shellAt, base, frames, start,
  currentRun, exiting, correcting, queue, reader, lines, signals

P == INSTANCE ProcessStop WITH cancelled <- stopCancelled, at <- stopAt,
                               outcome <- stopOutcome
D == INSTANCE WorkspaceDelete
L == INSTANCE Literature WITH at <- clientAt, outcome <- clientOutcome,
                              cancelled <- clientCancelled
C == INSTANCE Compaction WITH MaxCalls <- MaxRequests, MaxCrashes <- MaxRestarts,
                              at <- loopAt, crashes <- restarts
S == INSTANCE Shell WITH owner <- runner, at <- shellAt, current <- currentRun

stopVars == <<proc, births, piped, reaped, seen, walk, stopCancelled, expired,
              stopAt, cause, stopped, stopOutcome>>
treeVars == <<node, fresh, edits, phase, target, recursive, todo, entries, shown,
              answer, prepared, truth, pending, deleted, anchor, removed, report>>
searchVars == <<owner, nextIn, coolIn, current, clientAt, want, rest, attempt,
                attempts, clientOutcome, clientCancelled, deadlineIn, inFlight,
                quietIn, heard, searches>>
historyVars == <<turns, checkpoint, used, loopAt, fixed, plan, summary, failure, restarts>>
shellVars == <<status, interrupts, foreign, runner, shellAt, base, frames, start,
               currentRun, exiting, correcting, queue, reader, lines, signals>>
PartsVars == <<part, vars, stopVars, treeVars, searchVars, historyVars, shellVars>>

Parts == {"repository", "process", "deletion", "search", "history", "shell"}

ASSUME PartsAssumption ==
  /\ Explored \subseteq Parts
  /\ P!ProcessAssumption /\ D!WorkspaceDeleteAssumption
  /\ L!LiteratureAssumption /\ C!CompactionAssumption /\ S!ShellAssumption

\* What a part that rests holds is of no meaning.
Resting == "resting"
ProcessRests ==
  /\ proc = Resting /\ births = Resting /\ piped = Resting /\ reaped = Resting
  /\ seen = Resting /\ walk = Resting /\ stopCancelled = Resting /\ expired = Resting
  /\ stopAt = Resting /\ cause = Resting /\ stopped = Resting /\ stopOutcome = Resting
TreeRests ==
  /\ node = Resting /\ fresh = Resting /\ edits = Resting /\ phase = Resting
  /\ target = Resting /\ recursive = Resting /\ todo = Resting /\ entries = Resting
  /\ shown = Resting /\ answer = Resting /\ prepared = Resting /\ truth = Resting
  /\ pending = Resting /\ deleted = Resting /\ anchor = Resting /\ removed = Resting
  /\ report = Resting
SearchRests ==
  /\ owner = Resting /\ nextIn = Resting /\ coolIn = Resting /\ current = Resting
  /\ clientAt = Resting /\ want = Resting /\ rest = Resting /\ attempt = Resting
  /\ attempts = Resting /\ clientOutcome = Resting /\ clientCancelled = Resting
  /\ deadlineIn = Resting /\ inFlight = Resting /\ quietIn = Resting /\ heard = Resting
  /\ searches = Resting
HistoryRests ==
  /\ turns = Resting /\ checkpoint = Resting /\ used = Resting /\ loopAt = Resting
  /\ fixed = Resting /\ plan = Resting /\ summary = Resting /\ failure = Resting
  /\ restarts = Resting
ShellRests ==
  /\ status = Resting /\ interrupts = Resting /\ foreign = Resting /\ runner = Resting
  /\ shellAt = Resting /\ base = Resting /\ frames = Resting /\ start = Resting
  /\ currentRun = Resting /\ exiting = Resting /\ correcting = Resting
  /\ queue = Resting /\ reader = Resting /\ lines = Resting /\ signals = Resting

PartsInit ==
  /\ part \in Explored
  /\ Init /\ (part # "repository" => workspace = Absent /\ metadata = NoSource)
  /\ IF part = "process" THEN P!Init ELSE ProcessRests
  /\ IF part = "deletion" THEN D!Init ELSE TreeRests
  /\ IF part = "search" THEN L!Init ELSE SearchRests
  /\ IF part = "history" THEN C!Init ELSE HistoryRests
  /\ IF part = "shell" THEN S!Init ELSE ShellRests

Only(name) == part = name
Repository == UNCHANGED <<part, stopVars, treeVars, searchVars, historyVars, shellVars>>
Process == UNCHANGED <<part, vars, treeVars, searchVars, historyVars, shellVars>>
Deletion == UNCHANGED <<part, vars, stopVars, searchVars, historyVars, shellVars>>
Searching == UNCHANGED <<part, vars, stopVars, treeVars, historyVars, shellVars>>
History == UNCHANGED <<part, vars, stopVars, treeVars, searchVars, shellVars>>
Shelling == UNCHANGED <<part, vars, stopVars, treeVars, searchVars, historyVars>>

RepositoryNext ==
  \/ Only("repository") /\ (\E s \in Sources : Call(s)) /\ Repository
  \/ Only("repository") /\ CheckSource /\ Repository
  \/ Only("repository") /\ FindRoot /\ Repository
  \/ Only("repository") /\ Verify /\ Repository
  \/ Only("repository") /\ CheckContent /\ Repository
  \/ Only("repository") /\ ClearStaging /\ Repository
  \/ Only("repository") /\ StartBuild /\ Repository
  \/ Only("repository") /\ Built /\ Repository
  \/ Only("repository") /\ OpenMetadata /\ Repository
  \/ Only("repository") /\ WriteMetadata /\ Repository
  \/ Only("repository") /\ Promote /\ Repository
  \/ Only("repository") /\ Clean /\ Repository
  \/ Only("repository") /\ RefuseSource /\ Repository
  \/ Only("repository") /\ MissRoot /\ Repository
  \/ Only("repository") /\ ClearFails /\ Repository
  \/ Only("repository") /\ BuildFails /\ Repository
  \/ Only("repository") /\ BuildLeft /\ Repository
  \/ Only("repository") /\ WriteFails /\ Repository
  \/ Only("repository") /\ PromoteFails /\ Repository
  \/ Only("repository") /\ CleanFails /\ Repository
  \/ Only("repository") /\ Crash /\ Repository
  \/ Only("repository") /\ OrphanEnds /\ Repository
  \/ Only("repository") /\ Intrude /\ Repository
  \/ Only("repository") /\ Done /\ Repository

ProcessNext ==
  \/ Only("process") /\ P!Sample /\ Process
  \/ Only("process") /\ P!Identify /\ Process
  \/ Only("process") /\ P!Poll /\ Process
  \/ Only("process") /\ P!Check /\ Process
  \/ Only("process") /\ P!SliceEnds /\ Process
  \/ Only("process") /\ P!Finish /\ Process
  \/ Only("process") /\ P!RememberWriters /\ Process
  \/ Only("process") /\ P!KillGroup /\ Process
  \/ Only("process") /\ (\E p \in Pids : P!Signal(p)) /\ Process
  \/ Only("process") /\ P!Signalled /\ Process
  \/ Only("process") /\ P!ReapLeader /\ Process
  \/ Only("process") /\ P!ReapExpires /\ Process
  \/ Only("process") /\ P!Confirm /\ Process
  \/ Only("process") /\ P!ConfirmExpires /\ Process
  \/ Only("process") /\ P!Drain /\ Process
  \/ Only("process") /\ P!DrainExpires /\ Process
  \/ Only("process") /\ P!Report /\ Process
  \/ Only("process") /\ P!KillTree /\ Process
  \/ Only("process") /\ P!KillChildren /\ Process
  \/ Only("process") /\ P!WaitLeader /\ Process
  \/ Only("process") /\ (\E p, c \in Pids : P!Fork(p, c)) /\ Process
  \/ Only("process") /\ (\E p \in Pids : P!StartForeign(p)) /\ Process
  \/ Only("process") /\ (\E p \in Pids : P!Detach(p)) /\ Process
  \/ Only("process") /\ (\E p \in Pids : P!CloseOutput(p)) /\ Process
  \/ Only("process") /\ (\E p \in Pids : P!Exit(p)) /\ Process
  \/ Only("process") /\ (\E p \in Pids : P!Collect(p)) /\ Process
  \/ Only("process") /\ P!Cancel /\ Process
  \/ Only("process") /\ P!Expire /\ Process
  \/ Only("process") /\ P!Ended /\ Process

DeletionNext ==
  \/ Only("deletion") /\ (\E path \in Targets, all \in BOOLEAN : D!Call(path, all)) /\ Deletion
  \/ Only("deletion") /\ D!Visit /\ Deletion
  \/ Only("deletion") /\ D!Hash /\ Deletion
  \/ Only("deletion") /\ D!List /\ Deletion
  \/ Only("deletion") /\ D!PrepareFails /\ Deletion
  \/ Only("deletion") /\ D!Check /\ Deletion
  \/ Only("deletion") /\ D!Recheck /\ Deletion
  \/ Only("deletion") /\ (\E says \in {"yes", "no"} : D!Answer(says)) /\ Deletion
  \/ Only("deletion") /\ D!Confirm /\ Deletion
  \/ Only("deletion") /\ D!Changed /\ Deletion
  \/ Only("deletion") /\ D!Aim /\ Deletion
  \/ Only("deletion") /\ D!Look /\ Deletion
  \/ Only("deletion") /\ D!Unlink /\ Deletion
  \/ Only("deletion") /\ D!RemoveFails /\ Deletion
  \/ Only("deletion") /\ D!Finish /\ Deletion
  \/ Only("deletion") /\ (\E path \in D!Places : D!Write(path)) /\ Deletion
  \/ Only("deletion") /\ (\E path \in D!Places : D!Take(path)) /\ Deletion
  \/ Only("deletion") /\ (\E path \in D!Places, kind \in {"file", "symlink", "directory"} : D!Put(path, kind)) /\ Deletion
  \/ Only("deletion") /\ D!Done /\ Deletion

SearchNext ==
  \/ Only("search") /\ (\E c \in Clients, s \in L!Providers \union {"auto"}, page \in {1, 2} : L!Search(c, s, page)) /\ Searching
  \/ Only("search") /\ (\E c \in Clients, s \in L!Providers : L!Resolve(c, s)) /\ Searching
  \/ Only("search") /\ (\E c \in Clients : L!Acquire(c)) /\ Searching
  \/ Only("search") /\ (\E c \in Clients : L!GiveUp(c)) /\ Searching
  \/ Only("search") /\ (\E c \in Clients : L!CheckCooldown(c)) /\ Searching
  \/ Only("search") /\ (\E c \in Clients : L!Send(c)) /\ Searching
  \/ Only("search") /\ (\E c \in Clients : L!Found(c)) /\ Searching
  \/ Only("search") /\ (\E c \in Clients : L!Rejected(c)) /\ Searching
  \/ Only("search") /\ (\E c \in Clients : L!Unserved(c)) /\ Searching
  \/ Only("search") /\ (\E c \in Clients : L!Transient(c)) /\ Searching
  \/ Only("search") /\ (\E c \in Clients, quiet \in L!RetryAfters \union L!QuotaCooldowns : L!Limited(c, quiet)) /\ Searching
  \/ Only("search") /\ (\E c \in Clients : L!Interrupted(c)) /\ Searching
  \/ Only("search") /\ (\E c \in Clients : L!Cancel(c)) /\ Searching
  \/ Only("search") /\ L!Tick /\ Searching
  \/ Only("search") /\ L!Done /\ Searching

HistoryNext ==
  \/ Only("history") /\ C!BeginRound /\ History
  \/ Only("history") /\ C!KeepHistory /\ History
  \/ Only("history") /\ C!ContextBudgetExceeded /\ History
  \/ Only("history") /\ C!PlanCompaction /\ History
  \/ Only("history") /\ C!Summarise /\ History
  \/ Only("history") /\ C!Publish /\ History
  \/ Only("history") /\ C!Reply /\ History
  \/ Only("history") /\ C!Crash /\ History
  \/ Only("history") /\ C!Done /\ History

ShellNext ==
  \/ Only("shell") /\ S!AtPrompt /\ Shelling
  \/ Only("shell") /\ S!AskAnswer /\ Shelling
  \/ Only("shell") /\ S!StartOwner /\ Shelling
  \/ Only("shell") /\ S!StartFails /\ Shelling
  \/ Only("shell") /\ S!Poll /\ Shelling
  \/ Only("shell") /\ S!NoInput /\ Shelling
  \/ Only("shell") /\ S!WatchLine /\ Shelling
  \/ Only("shell") /\ S!WatchEof /\ Shelling
  \/ Only("shell") /\ S!WatchOwn /\ Shelling
  \/ Only("shell") /\ S!WatchOther /\ Shelling
  \/ Only("shell") /\ S!Handle /\ Shelling
  \/ Only("shell") /\ S!Rewatch /\ Shelling
  \/ Only("shell") /\ S!Signal /\ Shelling
  \/ Only("shell") /\ S!OwnerBegins /\ Shelling
  \/ Only("shell") /\ (\E how \in S!Statuses : S!OwnerStops(how)) /\ Shelling
  \/ Only("shell") /\ S!OwnerBreaks /\ Shelling
  \/ Only("shell") /\ S!ThreadEnds /\ Shelling
  \/ Only("shell") /\ (\E r \in Runs, how \in S!Statuses : S!OtherStops(r, how)) /\ Shelling
  \/ Only("shell") /\ (\E line \in S!Lines \union {S!Eof} : S!Type(line)) /\ Shelling
  \/ Only("shell") /\ S!Rest /\ Shelling

PartsNext ==
  RepositoryNext \/ ProcessNext \/ DeletionNext \/ SearchNext \/ HistoryNext \/ ShellNext

PartsSpec == PartsInit /\ [][PartsNext]_PartsVars

-----------------------------------------------------------------------------
(* What each part promises. *)

\* The end of a command (process.py): no process of another program is ever signalled,
\* and a stop reported as confirmed left no process seen below the command running, nor
\* any that could still write to the output.
StopSound ==
  part = "process" => P!TypeInvariant /\ P!NoForeignKilled /\ P!StopConfirmed

\* The deletion of a directory tree (workspace.py): it begins from the snapshot of a tree
\* as it was at one moment, which the user agreed to; an entry is removed from the
\* directory it was seen in; and the report tells what was removed.
RemovalAuthorized ==
  part = "deletion" =>
    /\ D!TypeInvariant /\ D!SnapshotWasTrue /\ D!ConfirmedExactly
    /\ D!FromInspectedDirectory /\ D!DeniedKept /\ D!ReportTrue

\* A literature search (backends.py, _http.py): a source never has two requests at once,
\* hears no more of a search than its retries allow, and none before the time it asked
\* to be left alone for; and a search is told as empty, or failed, only when it was.
SearchesTrue ==
  /\ [](part = "search" =>
          L!TypeInvariant /\ L!Serialized /\ L!OutcomesTrue /\ L!TriesBounded)
  /\ [][part = "search" =>
         \A s \in L!Providers : inFlight'[s] \ inFlight[s] # {} => quietIn[s] = 0]_inFlight

\* The history of a Session (compaction.py): a summary stands for every turn it replaces,
\* the longest suffix that fits stays, the request then fits, and a call is left for it.
HistoryKept ==
  part = "history" =>
    /\ C!TypeInvariant /\ C!NothingForgotten /\ C!KeepsLongest
    /\ C!RequestFits /\ C!SummaryNotInVain

\* The interactive shell (shell.py): nested watches keep their shape, and the Run the shell
\* advances is watched, whatever is typed, fails or ends, unless Ctrl-C breaks it off.
ShellSound == part = "shell" => S!TypeInvariant /\ S!OwnerWatched

\* What is typed in the watch of a Run the user started goes to that Run (shell.py:333).
ControlsReachOwner == part = "shell" => S!ControlsReachOwner

-----------------------------------------------------------------------------
(* Values of the constants. *)

\* Two sources of one kind, which the metadata must tell apart, and one of another.
AllSources ==
  {[kind |-> "git", location |-> "a"], [kind |-> "git", location |-> "b"],
   [kind |-> "copy", location |-> "a"]}

\* The PIDs but the leader's, and the threads that search: nothing in the code depends
\* on which is which.
Interchangeable == Permutations(Pids \ {Leader}) \union Permutations(Clients)

\* Nor on which Run of the shell is which.
InterchangeableRuns == Permutations(Runs)

\* The directory d, an entry d/b and a directory d/a of it. The denied path is one that
\* is not there until another program puts it there.
TreeAndFile == {<<"d">>, <<"d", "b">>, <<"d", "a">>}
DeniedEntry == {<<"d", "a", "n">>}

\* The two providers, and their intervals.
Both == <<"arxiv", "openalex">>
BothIntervals == [s \in {"arxiv", "openalex"} |-> IF s = "arxiv" THEN 2 ELSE 1]
=============================================================================
