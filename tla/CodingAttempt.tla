----------------------------- MODULE CodingAttempt -----------------------------
(* What a Coding task says it changed.  An Attempt takes a snapshot of its      *)
(* workspace, keeps it in its Session over waits, and derives the patch and the *)
(* list of changed files from the snapshot when it ends.  The files are shared  *)
(* with other programs, git may fail, the Run may be cancelled, the owner die.  *)
EXTENDS Naturals

CONSTANTS
  Paths, Scopes,            \* files of the workspace, and the write scopes of a task
  MaxVersion,               \* contents of a file
  MaxAttempts,              \* max_attempts_per_task
  MaxEdits, MaxOutside,     \* changes by the Agent, and by other programs
  MaxFaults, MaxCrashes     \* failures of git or of the loop, and deaths

ASSUME CodingAssumption ==
  /\ Scopes \subseteq SUBSET Paths
  /\ MaxVersion \in Nat \ {0} /\ MaxAttempts \in Nat \ {0}
  /\ MaxEdits \in Nat /\ MaxOutside \in Nat /\ MaxFaults \in Nat /\ MaxCrashes \in Nat

Gone == 0                              \* the version of a file that does not exist
Trees == [Paths -> 0..MaxVersion]      \* a tree hash stands for the visible files
NoTree == [p \in {} |-> Gone]
Changed(a, b) == {p \in Paths : a[p] # b[p]}
DiffTo(a, b) == [p \in Changed(a, b) |-> b[p]]        \* a patch: the new content of each path
Patches == UNION {[S -> 0..MaxVersion] : S \in SUBSET Paths}

NoSession == [status |-> "none", base |-> NoTree, retryable |-> FALSE,
              patched |-> FALSE, patch |-> NoTree, listed |-> {}]
NoReceipt == [before |-> NoTree, changed |-> {}, after |-> NoTree, quiet |-> TRUE]

VARIABLES
  scope,                \* the files the task may write: it has commands when that is all
  files,                \* the workspace
  task, attempt,        \* saved by the Scheduler: the status, the number of the Attempt
  session,              \* saved by the loop: the Session of the Attempt
  result,               \* what the Scheduler received for the last Attempt
  at, base,             \* the invocation: where it is, its baseline
  found, gone, patch,   \* of the completion check
  shell, receipt,       \* the command under way, the last receipt saved
  began,                \* history: the files when the Attempt took its snapshot
  quiet,                \* history: nobody else changed a file since the operation began
  alone,                \* history: nobody else changed a file since the Attempt began
  edits, outside, faults, crashes

savedVars == <<task, attempt, session, result, receipt>>
localVars == <<base, found, gone, patch, shell>>
historyVars == <<began, quiet, alone>>
worldVars == <<edits, outside, faults, crashes>>
vars == <<scope, files, savedVars, at, localVars, historyVars, worldVars>>

NoResult == [status |-> "none", patched |-> FALSE, patch |-> NoTree, listed |-> {},
             retryable |-> FALSE]

Init ==
  /\ scope \in Scopes
  /\ files = [p \in Paths |-> 1]
  /\ task = "pending" /\ attempt = 0 /\ session = NoSession /\ result = NoResult
  /\ receipt = NoReceipt /\ shell = NoReceipt
  /\ at = "idle" /\ base = NoTree /\ found = {} /\ gone = {} /\ patch = NoTree
  /\ began = NoTree /\ quiet = TRUE /\ alone = TRUE
  /\ edits = 0 /\ outside = 0 /\ faults = 0 /\ crashes = 0

Forget == base' = NoTree /\ found' = {} /\ gone' = {} /\ patch' = NoTree /\ shell' = NoReceipt
Fault == faults < MaxFaults /\ faults' = faults + 1 /\ UNCHANGED <<edits, outside, crashes>>
NoFault == UNCHANGED worldVars

\* The invocation is over and the Scheduler has saved what it returned.
Received(status, to) ==
  /\ at' = "idle" /\ Forget
  /\ task' = to
  /\ result' = status
  /\ UNCHANGED <<files, attempt, session, receipt, historyVars>>

Error(retryable) ==
  [status |-> "failed", patched |-> FALSE, patch |-> NoTree, listed |-> {}, retryable |-> retryable]
CanRetry == attempt < MaxAttempts
AfterFailure(retryable) == IF retryable /\ CanRetry THEN "pending" ELSE "failed"

-----------------------------------------------------------------------------
(* An invocation begins: execute_task, then NativeCodingAgent._invoke *)

Execute ==
  /\ at = "idle" /\ task = "pending" /\ attempt < MaxAttempts
  /\ task' = "running" /\ attempt' = attempt + 1
  /\ session' = NoSession /\ result' = NoResult /\ receipt' = NoReceipt
  /\ at' = "prepare" /\ Forget
  /\ began' = NoTree /\ quiet' = TRUE /\ alone' = TRUE
  /\ UNCHANGED files /\ NoFault

Resume ==
  /\ at = "idle" /\ task = "waits"
  /\ task' = "running" /\ at' = "prepare"
  /\ UNCHANGED <<files, attempt, session, result, receipt, localVars, historyVars>> /\ NoFault

\* Mutant: the resumed invocation takes a new snapshot.
PrepareAnew ==
  /\ at = "prepare"
  /\ base' = files
  /\ began' = IF session = NoSession THEN files ELSE began
  /\ at' = IF session = NoSession THEN "open" ELSE "turn"
  /\ UNCHANGED <<files, savedVars, found, gone, patch, shell, quiet, alone>> /\ NoFault

Prepare ==
  /\ at = "prepare"
  /\ IF session = NoSession
       THEN base' = files /\ began' = files /\ alone' = TRUE /\ at' = "open"
       ELSE base' = session.base /\ at' = "turn" /\ UNCHANGED <<began, alone>>
  /\ UNCHANGED <<files, savedVars, found, gone, patch, shell, quiet>> /\ NoFault

\* The repository or a dataset is not there: blocked.  The snapshot fails, or the result
\* lacks the Session that a resumed Attempt must answer with: failed.
PrepareFails(to) ==
  /\ at = "prepare" /\ (to = "blocked" => session = NoSession)
  /\ Received(Error(FALSE), to) /\ Fault

\* The loop saves the new Session with the baseline in its memory.
Open ==
  /\ at = "open"
  /\ session' = [NoSession EXCEPT !.status = "active", !.base = base]
  /\ at' = "turn"
  /\ UNCHANGED <<files, task, attempt, result, receipt, localVars, historyVars>> /\ NoFault

-----------------------------------------------------------------------------
(* The turns of the Agent *)

Write(p, v) ==
  /\ edits < MaxEdits /\ files[p] # v
  /\ files' = [files EXCEPT ![p] = v] /\ edits' = edits + 1

\* create_file, replace_text and delete_path stay in the write scope.
EditFile(p, v) ==
  /\ at = "turn" /\ p \in scope /\ Write(p, v)
  /\ UNCHANGED <<savedVars, at, localVars, historyVars, outside, faults, crashes>>

ShellStart ==
  /\ at = "turn" /\ scope = Paths /\ edits < MaxEdits
  /\ shell' = [NoReceipt EXCEPT !.before = files] /\ quiet' = TRUE
  /\ at' = "command"
  /\ UNCHANGED <<files, savedVars, base, found, gone, patch, began, alone>> /\ NoFault
ShellWrites(p, v) ==
  /\ at = "command" /\ Write(p, v)
  /\ UNCHANGED <<savedVars, at, localVars, historyVars, outside, faults, crashes>>
\* changed_paths_since and then a second snapshot, after the command.
ShellChanged ==
  /\ at = "command"
  /\ shell' = [shell EXCEPT !.changed = Changed(shell.before, files)]
  /\ at' = "after"
  /\ UNCHANGED <<files, savedVars, base, found, gone, patch, historyVars>> /\ NoFault
\* Mutant: the tree after the command is the one it started from.
ShellReceiptStale ==
  /\ at = "after"
  /\ receipt' = [shell EXCEPT !.after = shell.before, !.quiet = quiet] /\ shell' = NoReceipt
  /\ at' = "turn"
  /\ UNCHANGED <<files, task, attempt, session, result, base, found, gone, patch, historyVars>>
  /\ NoFault

ShellReceipt ==
  /\ at = "after"
  /\ receipt' = [shell EXCEPT !.after = files, !.quiet = quiet] /\ shell' = NoReceipt
  /\ at' = "turn"
  /\ UNCHANGED <<files, task, attempt, session, result, base, found, gone, patch, historyVars>>
  /\ NoFault
\* git fails after the command: the receipt says so and has no paths.
ShellUninspected ==
  /\ at \in {"command", "after"}
  /\ receipt' = NoReceipt /\ shell' = NoReceipt /\ at' = "turn"
  /\ UNCHANGED <<files, task, attempt, session, result, base, found, gone, patch, historyVars>>
  /\ Fault

\* Mutant: the Session of a waiting Attempt stays active.
WaitActive ==
  /\ at = "turn"
  /\ task' = "waits" /\ at' = "idle" /\ Forget
  /\ UNCHANGED <<files, attempt, session, result, receipt, historyVars>> /\ NoFault

\* A question or a yield: the Session is paused and the Attempt waits.
Wait ==
  /\ at = "turn"
  /\ session' = [session EXCEPT !.status = "paused"]
  /\ task' = "waits" /\ at' = "idle" /\ Forget
  /\ UNCHANGED <<files, attempt, result, receipt, historyVars>> /\ NoFault

SessionFails(retryable) ==
  /\ session' = [session EXCEPT !.status = "failed", !.retryable = retryable]
  /\ at' = "ended" /\ UNCHANGED <<files, task, attempt, result, receipt, localVars, historyVars>>
LoopFails(retryable) == at = "turn" /\ SessionFails(retryable) /\ Fault

-----------------------------------------------------------------------------
(* CodingCompletionCheck: three snapshots, one after the other *)

Finish ==
  /\ at = "turn"
  /\ at' = "changed" /\ quiet' = TRUE
  /\ UNCHANGED <<files, savedVars, localVars, began, alone>> /\ NoFault

\* Mutant: the changed files are not held against the write scope.
CheckChangedUnscoped ==
  /\ at = "changed"
  /\ found' = Changed(base, files)
  /\ at' = IF found' = {} THEN "accept" ELSE "deleted"
  /\ UNCHANGED <<files, savedVars, base, gone, patch, shell, historyVars>> /\ NoFault

CheckChanged ==
  /\ at = "changed"
  /\ IF Changed(base, files) \subseteq scope
       THEN /\ found' = Changed(base, files)
            /\ at' = IF found' = {} THEN "accept" ELSE "deleted"
            /\ UNCHANGED <<files, savedVars, base, gone, patch, shell, historyVars>>
       ELSE SessionFails(FALSE)
  /\ NoFault

\* Mutant: the files that are left are taken for the deleted ones.
CheckLeft ==
  /\ at = "deleted"
  /\ gone' = {p \in Changed(base, files) : files[p] # Gone} /\ at' = "diff"
  /\ UNCHANGED <<files, savedVars, base, found, patch, shell, historyVars>> /\ NoFault

CheckDeleted ==
  /\ at = "deleted"
  /\ gone' = {p \in Changed(base, files) : files[p] = Gone} /\ at' = "diff"
  /\ UNCHANGED <<files, savedVars, base, found, patch, shell, historyVars>> /\ NoFault
CheckDiff ==
  /\ at = "diff"
  /\ patch' = DiffTo(base, files) /\ at' = "accept"
  /\ UNCHANGED <<files, savedVars, base, found, gone, shell, historyVars>> /\ NoFault
CheckFails ==
  /\ at \in {"changed", "deleted", "diff"}
  /\ SessionFails(FALSE) /\ Fault

\* code_change names the files that are left; each must still be there.
Listed == found \ gone

\* An Agent may finish by saying that it could not do the work.
Accept(status) ==
  /\ at = "accept"
  /\ IF \E p \in Listed : files[p] = Gone
       THEN at' = "turn" /\ found' = {} /\ gone' = {} /\ patch' = NoTree /\ UNCHANGED session
       ELSE /\ session' = [session EXCEPT !.status = status, !.retryable = FALSE,
                             !.patched = (found # {}), !.patch = patch, !.listed = Listed]
            /\ at' = "ended" /\ UNCHANGED <<found, gone, patch>>
  /\ UNCHANGED <<files, task, attempt, result, receipt, base, shell, historyVars>> /\ NoFault

-----------------------------------------------------------------------------
(* The loop has returned a terminal Session: the result and its patch *)

Outcome ==
  [status |-> session.status, patched |-> session.patched, patch |-> session.patch,
   listed |-> session.listed, retryable |-> session.retryable]

\* Mutant: the diagnostic patch leaves the failure as it was.
DiagnoseRetries ==
  /\ at = "ended"
  /\ session.status = "failed" /\ ~session.patched
  /\ Received([Outcome EXCEPT !.patched = (files # base), !.patch = DiffTo(base, files)],
              AfterFailure(session.retryable))
  /\ NoFault

Deliver ==
  /\ at = "ended"
  /\ session.status = "completed" \/ session.patched
  /\ Received(Outcome, IF session.status = "completed" THEN "completed"
                       ELSE AfterFailure(session.retryable))
  /\ NoFault

\* A failure gets a diagnostic patch, and is not retried when there is one ...
Diagnose ==
  /\ at = "ended"
  /\ session.status = "failed" /\ ~session.patched
  /\ LET changes == DiffTo(base, files)
         retryable == session.retryable /\ Changed(base, files) = {}
     IN Received([Outcome EXCEPT !.patched = (Changed(base, files) # {}), !.patch = changes,
                                 !.retryable = retryable],
                 AfterFailure(retryable))
  /\ NoFault
\* ... nor when the changes could not be inspected.
DiagnoseFails ==
  /\ at = "ended"
  /\ session.status = "failed" /\ ~session.patched
  /\ Received([Outcome EXCEPT !.retryable = FALSE], "failed") /\ Fault

-----------------------------------------------------------------------------
(* Cancellation, death, recovery and the other programs *)

\* The Run is interrupted: the work is cancelled with its tasks.
Cancel ==
  /\ task \in {"pending", "running", "waits"}
  /\ faults < MaxFaults /\ faults' = faults + 1
  /\ task' = "cancelled" /\ at' = "idle" /\ Forget
  /\ session' = IF session.status \in {"active", "paused"}
                  THEN [session EXCEPT !.status = "cancelled"] ELSE session
  /\ UNCHANGED <<files, attempt, result, receipt, historyVars, edits, outside, crashes>>

Crash ==
  /\ at # "idle" /\ crashes < MaxCrashes
  /\ crashes' = crashes + 1
  /\ at' = "idle" /\ Forget
  /\ UNCHANGED <<files, savedVars, historyVars, edits, outside, faults>>

\* An Attempt without a saved result failed and may be retried.
Recover ==
  /\ at = "idle" /\ task = "running"
  /\ task' = AfterFailure(TRUE) /\ result' = Error(TRUE)
  /\ UNCHANGED <<files, attempt, session, receipt, at, localVars, historyVars>> /\ NoFault

\* The user, or a job a command left in the background.
Outside(p, v) ==
  /\ outside < MaxOutside /\ files[p] # v
  /\ files' = [files EXCEPT ![p] = v] /\ outside' = outside + 1
  /\ quiet' = FALSE /\ alone' = FALSE
  /\ UNCHANGED <<savedVars, at, localVars, began, edits, faults, crashes>>

Invocation ==
  \/ Execute \/ Resume \/ Prepare \/ Open
  \/ ShellStart \/ ShellChanged \/ ShellReceipt \/ Wait \/ Finish
  \/ CheckChanged \/ CheckDeleted \/ CheckDiff
  \/ (\E status \in {"completed", "failed"} : Accept(status))
  \/ Deliver \/ Diagnose \/ Recover
Failure ==
  \/ (\E to \in {"blocked", "failed"} : PrepareFails(to))
  \/ ShellUninspected \/ CheckFails \/ DiagnoseFails
  \/ (\E retryable \in BOOLEAN : LoopFails(retryable))
  \/ Cancel \/ Crash
Edit == \E p \in Paths, v \in 0..MaxVersion : EditFile(p, v) \/ ShellWrites(p, v) \/ Outside(p, v)

\* The task has ended.
Ended ==
  /\ task \in {"completed", "failed", "blocked", "cancelled"}
  /\ UNCHANGED vars

Step == Invocation \/ Failure \/ Edit \/ Ended
Next == Step /\ UNCHANGED scope

Spec == Init /\ [][Next]_vars

-----------------------------------------------------------------------------
(* Properties *)

TypeInvariant ==
  /\ scope \in Scopes /\ files \in Trees
  /\ task \in {"pending", "running", "waits", "completed", "failed", "blocked", "cancelled"}
  /\ attempt \in 0..MaxAttempts
  /\ session.status \in {"none", "active", "paused", "completed", "failed", "cancelled"}
  /\ session.base \in Trees \union {NoTree} /\ session.patch \in Patches
  /\ result.patch \in Patches /\ result.listed \subseteq Paths
  /\ at \in {"idle", "prepare", "open", "turn", "command", "after", "changed", "deleted", "diff",
             "accept", "ended"}
  /\ at # "idle" => task = "running"
  /\ task = "waits" => session.status = "paused"
  /\ task = "completed" => result.status = "completed"

\* The patch of an Attempt is what changed since the Attempt began, over every wait and
\* restart of its invocations, if nobody else changed a file.
PatchExact ==
  (alone /\ result.status = "completed") =>
    /\ result.patched <=> Changed(began, files) # {}
    /\ result.patch = DiffTo(began, files)

\* The list of changed files and the patch come from different snapshots: they agree
\* when nobody changed a file during the check.
ListAgrees ==
  (at = "ended" /\ quiet /\ session.patched)
    => session.listed = {p \in DOMAIN session.patch : session.patch[p] # Gone}

\* No completed Attempt hands over a change outside its write scope, also when somebody
\* else made it before the check.
PatchAuthorized ==
  (at = "ended" /\ quiet /\ session.status = "completed") => DOMAIN session.patch \subseteq scope

\* A receipt's changed paths are those between its two trees.
ReceiptAgrees ==
  (receipt # NoReceipt /\ receipt.quiet)
    => (receipt.changed = Changed(receipt.before, receipt.after))

\* What an Attempt hands over is what it did: the patch, the list and the receipts of
\* commands come from snapshots of their own and tell the same change, within the scope.
ResultExact == TypeInvariant /\ PatchExact /\ ListAgrees /\ PatchAuthorized /\ ReceiptAgrees

\* A failure that is retried by itself left no change of its own behind: nothing of an
\* Attempt disappears in the baseline of the next one, unless its process died.
NoBlindRetry ==
  (task = "pending" /\ attempt > 0 /\ alone /\ crashes = 0) => files = began
=============================================================================
