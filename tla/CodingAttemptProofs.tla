------------------------- MODULE CodingAttemptProofs -------------------------
(* What a Coding task says it changed is what it changed, for every workspace   *)
(* and write scope, and any number of edits, waits, failures and deaths.        *)
EXTENDS CodingAttempt, TLAPS

USE CodingAssumption

Checking == {"changed", "deleted", "diff", "accept"}
Turning == {"turn", "command", "after"} \union Checking
Opened == {"open", "ended"} \union Turning

Baselines == Trees \union {NoTree}
Receipts == [before : Baselines, changed : SUBSET Paths, after : Baselines, quiet : BOOLEAN]
SessionStatuses == {"none", "active", "paused", "completed", "failed", "cancelled"}
Sessions == [status : SessionStatuses, base : Baselines, retryable : BOOLEAN,
             patched : BOOLEAN, patch : Patches, listed : SUBSET Paths]
Results == [status : SessionStatuses, patched : BOOLEAN, patch : Patches,
            listed : SUBSET Paths, retryable : BOOLEAN]

\* The types that the steps rely on beyond those of TypeInvariant.
Types ==
  /\ TypeInvariant
  /\ session \in Sessions /\ result \in Results
  /\ base \in Baselines /\ began \in Baselines
  /\ found \subseteq Paths /\ gone \subseteq Paths /\ patch \in Patches
  /\ shell \in Receipts /\ receipt \in Receipts
  /\ quiet \in BOOLEAN /\ alone \in BOOLEAN /\ crashes \in Nat

\* The baseline of an invocation is the snapshot of its Attempt, in memory and in the
\* Session, and a Session without a delivery is all that a waiting Attempt has.
Baseline ==
  /\ session.status = "none" => session = NoSession
  /\ session.status # "none" => session.base = began /\ began \in Trees
  /\ at \in Opened => base = began /\ began \in Trees
  /\ at = "open" => session = NoSession
  /\ at = "prepare" => session = NoSession \/ session.status = "paused"
  /\ at \in Turning => session.status \in {"active", "paused"}
  /\ at = "ended" => session.status \in {"completed", "failed"}
  /\ (at \notin {"idle", "ended"} \/ task = "waits") => ~session.patched
  /\ at = "idle" /\ task = "running" => crashes > 0

\* What the check has found so far, if nobody changed a file since it began.
Check ==
  /\ at \in Opened \ {"open"} /\ alone /\ (at \in Checking \/ session.patched) => quiet
  /\ at \notin {"accept", "ended"} => patch = NoTree
  /\ at \in {"deleted", "diff", "accept"} => found \subseteq scope
  /\ at \in {"deleted", "diff", "accept"} /\ quiet => found = Changed(base, files)
  /\ at = "diff" \/ (at = "accept" /\ found # {})
       => (quiet => gone = {p \in Changed(base, files) : files[p] = Gone})
  /\ at = "accept" /\ quiet => patch = DiffTo(base, files)

\* What the Session of an Attempt that ended says, and the Attempt made of it.
Delivered ==
  /\ at = "ended" /\ session.patched => ~session.retryable
  /\ at = "ended" /\ alone /\ session.status = "completed" =>
       /\ session.patched <=> Changed(began, files) # {}
       /\ session.patch = DiffTo(began, files)
  /\ ListAgrees /\ PatchAuthorized
  /\ result.status = "completed" => task = "completed"
  /\ PatchExact
  /\ NoBlindRetry

\* The receipt of a command under way.
Receives ==
  /\ at = "after" /\ quiet => shell.changed = Changed(shell.before, files)
  /\ ReceiptAgrees

Inv == Types /\ Baseline /\ Check /\ Delivered /\ Receives

-----------------------------------------------------------------------------
(* Trees and patches *)

\* The empty patch is a patch.
LEMMA NoTreePatch == NoTree \in Patches
<1>1. NoTree \in [{} -> 0..MaxVersion]
  BY DEF NoTree
<1> QED BY <1>1 DEF Patches

\* The patch between two trees is one, of the paths that changed.
LEMMA DiffPatch ==
  ASSUME NEW a \in Trees, NEW b \in Trees
  PROVE  /\ Changed(a, b) \subseteq Paths
         /\ DiffTo(a, b) \in Patches
         /\ DOMAIN DiffTo(a, b) = Changed(a, b)
         /\ \A p \in Changed(a, b) : DiffTo(a, b)[p] = b[p]
<1>1. Changed(a, b) \subseteq Paths
  BY DEF Changed
<1>2. DiffTo(a, b) \in [Changed(a, b) -> 0..MaxVersion]
  BY <1>1 DEF DiffTo, Trees
<1> QED BY <1>1, <1>2 DEF Patches, DiffTo

\* Trees between which nothing changed are the same, and their patch is empty.
LEMMA NoChange ==
  ASSUME NEW a \in Trees, NEW b \in Trees, Changed(a, b) = {}
  PROVE  a = b /\ DiffTo(a, b) = NoTree
<1>1. \A p \in Paths : a[p] = b[p]
  BY DEF Changed
<1>2. a = b
  BY <1>1 DEF Trees
<1>3. DiffTo(a, b) = NoTree
  BY DEF DiffTo, NoTree
<1> QED BY <1>2, <1>3

\* No Session, no result and no receipt are well typed.
LEMMA NothingTyped == NoSession \in Sessions /\ NoResult \in Results /\ NoReceipt \in Receipts
BY NoTreePatch DEF NoSession, NoResult, NoReceipt, Sessions, Results, Receipts, Baselines,
                   SessionStatuses

\* A failure of the invocation has a well typed result.
LEMMA ErrorTyped == ASSUME NEW r \in BOOLEAN PROVE Error(r) \in Results
BY NoTreePatch DEF Error, Results, SessionStatuses

-----------------------------------------------------------------------------
(* Every step keeps the invariant *)

\* The initial states satisfy the invariant.
LEMMA InitInv == Init => Inv
<1> SUFFICES ASSUME Init PROVE Inv
  OBVIOUS
<1>1. files \in Trees
  BY DEF Init, Trees
<1>2. TypeInvariant
  BY <1>1, NoTreePatch DEF Init, TypeInvariant, NoSession, NoResult
<1>3. Types
  BY <1>2, NothingTyped, NoTreePatch DEF Init, Types, Baselines
<1>4. Baseline /\ Check
  BY DEF Init, Baseline, Check, Opened, Turning, Checking, NoSession
<1>5. Delivered /\ Receives
  BY DEF Init, Delivered, Receives, ListAgrees, PatchAuthorized, PatchExact, NoBlindRetry,
         ReceiptAgrees, NoSession, NoResult
<1> QED BY <1>3, <1>4, <1>5 DEF Inv

\* A failure of the loop keeps the types.
LEMMA FailsTyped ==
  ASSUME Types, NEW retryable \in BOOLEAN, SessionFails(retryable), at # "idle",
         scope' = scope, crashes' \in Nat
  PROVE  Types'
<1>1. session' \in Sessions /\ session'.status = "failed"
  BY DEF Types, SessionFails, Sessions, SessionStatuses
<1>2. session'.base \in Baselines /\ session'.patch \in Patches
  BY <1>1 DEF Sessions
<1>3. /\ at' = "ended" /\ task' = task /\ task = "running"
      /\ UNCHANGED <<files, attempt, result, receipt, base, found, gone, patch, shell,
                     began, quiet, alone>>
  BY DEF SessionFails, localVars, historyVars, Types, TypeInvariant
<1>4. TypeInvariant'
  BY <1>1, <1>2, <1>3 DEF Types, TypeInvariant, Baselines
<1> QED BY <1>1, <1>3, <1>4 DEF Types

\* Each step keeps the types.
LEMMA NextTyped == Types /\ Baseline /\ [Next]_vars => Types'
<1> SUFFICES ASSUME Types, Baseline, [Next]_vars PROVE Types'
  OBVIOUS
<1>0. scope' = scope
  BY DEF Next, vars
<1> USE <1>0
<1> USE NoTreePatch, NothingTyped
    DEF Types, TypeInvariant, Baselines, SessionStatuses, Forget, Fault, NoFault, Received,
        savedVars, localVars, historyVars, worldVars, vars
<1>1. CASE Execute
  <2>1. NoSession.status = "none" /\ NoSession.base = NoTree /\ NoSession.patch = NoTree
    BY DEF NoSession
  <2>2. NoResult.patch = NoTree /\ NoResult.listed = {} /\ NoResult.status = "none"
    BY DEF NoResult
  <2>3. attempt' \in 0..MaxAttempts
    BY <1>1 DEF Execute
  <2> QED BY <1>1, <2>1, <2>2, <2>3 DEF Execute
<1>2. CASE Resume
  BY <1>2 DEF Resume
<1>3. CASE Prepare
  BY <1>3 DEF Prepare
<1>4. CASE Open
  BY <1>4 DEF Open, Sessions, NoSession
<1>5. CASE ShellStart
  <2>1. shell' \in Receipts
    BY <1>5 DEF ShellStart, Receipts, NoReceipt
  <2> QED BY <1>5, <2>1 DEF ShellStart
<1>6. CASE ShellChanged
  <2>1. shell' \in Receipts
    BY <1>6 DEF ShellChanged, Receipts, Changed
  <2> QED BY <1>6, <2>1 DEF ShellChanged
<1>7. CASE ShellReceipt
  <2>1. receipt' \in Receipts
    BY <1>7 DEF ShellReceipt, Receipts
  <2> QED BY <1>7, <2>1 DEF ShellReceipt
<1>8. CASE Wait
  BY <1>8 DEF Wait, Sessions
<1>9. CASE Finish
  BY <1>9 DEF Finish
<1>10. CASE CheckChanged
  <2>1. Changed(base, files) \subseteq Paths
    BY DEF Changed
  <2>2. CASE Changed(base, files) \subseteq scope
    <3>1. /\ found' = Changed(base, files) /\ at' \in {"accept", "deleted"} /\ at # "idle"
          /\ UNCHANGED <<files, savedVars, base, gone, patch, shell, historyVars, crashes>>
      BY <1>10, <2>2 DEF CheckChanged
    <3> QED BY <2>1, <3>1
  <2>3. CASE ~(Changed(base, files) \subseteq scope)
    <3>1. SessionFails(FALSE) /\ at # "idle" /\ crashes' = crashes
      BY <1>10, <2>3 DEF CheckChanged
    <3> QED BY <3>1, FailsTyped
  <2> QED BY <2>2, <2>3
<1>11. CASE CheckDeleted
  <2>1. gone' \subseteq Paths
    BY <1>11 DEF CheckDeleted, Changed
  <2> QED BY <1>11, <2>1 DEF CheckDeleted
<1>12. CASE CheckDiff
  <2>1. base \in Trees
    BY <1>12 DEF CheckDiff, Baseline, Opened, Turning, Checking
  <2>2. patch' \in Patches
    BY <1>12, <2>1, DiffPatch DEF CheckDiff
  <2> QED BY <1>12, <2>2 DEF CheckDiff
<1>13. CASE \E status \in {"completed", "failed"} : Accept(status)
  <2> PICK status \in {"completed", "failed"} : Accept(status)
    BY <1>13
  <2> DEFINE delivers == found # {}
  <2>a. delivers \in BOOLEAN /\ Listed \in SUBSET Paths /\ status \in SessionStatuses
    BY DEF Listed
  <2>b. \/ session' = session
        \/ session' = [session EXCEPT !.status = status, !.retryable = FALSE,
                         !.patched = delivers, !.patch = patch, !.listed = Listed]
    BY DEF Accept
  <2> HIDE DEF delivers
  <2>1. session' \in Sessions
    BY <2>a, <2>b DEF Sessions
  <2>2. session'.status \in SessionStatuses /\ session'.base \in Baselines /\ session'.patch \in Patches
    BY <2>1 DEF Sessions
  <2>3. task' = task /\ task = "running" /\ at' \in {"turn", "ended"}
    BY DEF Accept
  <2>4. /\ found' \subseteq Paths /\ gone' \subseteq Paths /\ patch' \in Patches
        /\ UNCHANGED <<files, task, attempt, result, receipt, base, shell, historyVars, crashes>>
    BY DEF Accept
  <2> QED BY <2>1, <2>2, <2>3, <2>4
<1>14. CASE Deliver
  BY <1>14 DEF Deliver, Outcome, Results, Sessions, AfterFailure, CanRetry
<1>15. CASE Diagnose
  <2> DEFINE retryable == session.retryable /\ Changed(base, files) = {}
  <2>1. base \in Trees
    BY <1>15 DEF Diagnose, Baseline, Opened
  <2>2. retryable \in BOOLEAN
    OBVIOUS
  <2> HIDE DEF retryable
  <2>3. result' \in Results /\ result'.status = "failed"
    BY <1>15, <2>1, <2>2, DiffPatch DEF Diagnose, Outcome, Results, Sessions, retryable
  <2>4. result'.patch \in Patches /\ result'.listed \subseteq Paths
    BY <2>3 DEF Results
  <2>5. task' \in {"pending", "failed"} /\ at' = "idle"
    BY <1>15 DEF Diagnose, AfterFailure
  <2> QED BY <1>15, <2>3, <2>4, <2>5 DEF Diagnose
<1>16. CASE Recover
  BY <1>16 DEF Recover, AfterFailure, CanRetry, Error, Results
<1>17. CASE \E to \in {"blocked", "failed"} : PrepareFails(to)
  <2> PICK to \in {"blocked", "failed"} : PrepareFails(to)
    BY <1>17
  <2>1. result' \in Results /\ result'.status = "failed"
    BY ErrorTyped DEF PrepareFails, Error
  <2>2. result'.patch \in Patches /\ result'.listed \subseteq Paths
    BY <2>1 DEF Results
  <2> QED BY <2>1, <2>2 DEF PrepareFails
<1>18. CASE ShellUninspected
  BY <1>18 DEF ShellUninspected
<1>19. CASE CheckFails
  <2>1. \E retryable \in BOOLEAN : SessionFails(retryable) /\ at # "idle" /\ crashes' = crashes
    BY <1>19 DEF CheckFails
  <2> QED BY <2>1, FailsTyped
<1>20. CASE DiagnoseFails
  <2>1. result' \in Results /\ result'.status = "failed"
    BY <1>20 DEF DiagnoseFails, Outcome, Results, Sessions
  <2>2. result'.patch \in Patches /\ result'.listed \subseteq Paths
    BY <2>1 DEF Results
  <2>3. /\ task' = "failed" /\ at' = "idle" /\ Forget
        /\ UNCHANGED <<files, attempt, session, receipt, historyVars, crashes>>
    BY <1>20 DEF DiagnoseFails
  <2> QED BY <2>1, <2>2, <2>3, SMTT(60)
<1>21. CASE \E retryable \in BOOLEAN : LoopFails(retryable)
  <2>1. \E retryable \in BOOLEAN : SessionFails(retryable) /\ at # "idle" /\ crashes' = crashes
    BY <1>21 DEF LoopFails
  <2> QED BY <2>1, FailsTyped
<1>22. CASE Cancel
  BY <1>22 DEF Cancel, Sessions
<1>23. CASE Crash
  BY <1>23 DEF Crash
<1>24. CASE \E p \in Paths, v \in 0..MaxVersion : EditFile(p, v)
  <2> PICK p \in Paths, v \in 0..MaxVersion : EditFile(p, v)
    BY <1>24
  <2>1. files' = [files EXCEPT ![p] = v]
    BY DEF EditFile, Write
  <2>2. files' \in Trees
    BY <2>1 DEF Trees
  <2> QED BY <2>2 DEF EditFile, Write
<1>25. CASE \E p \in Paths, v \in 0..MaxVersion : ShellWrites(p, v)
  <2> PICK p \in Paths, v \in 0..MaxVersion : ShellWrites(p, v)
    BY <1>25
  <2>1. files' = [files EXCEPT ![p] = v]
    BY DEF ShellWrites, Write
  <2>2. files' \in Trees
    BY <2>1 DEF Trees
  <2> QED BY <2>2 DEF ShellWrites, Write
<1>26. CASE \E p \in Paths, v \in 0..MaxVersion : Outside(p, v)
  <2> PICK p \in Paths, v \in 0..MaxVersion : Outside(p, v)
    BY <1>26
  <2>1. files' = [files EXCEPT ![p] = v]
    BY DEF Outside, Write
  <2>2. files' \in Trees
    BY <2>1 DEF Trees
  <2> QED BY <2>2 DEF Outside, Write
<1>27. CASE Ended \/ UNCHANGED vars
  BY <1>27 DEF Ended
<1> QED
  BY <1>1, <1>2, <1>3, <1>4, <1>5, <1>6, <1>7, <1>8, <1>9, <1>10, <1>11, <1>12,
     <1>13, <1>14, <1>15, <1>16, <1>17, <1>18, <1>19, <1>20, <1>21, <1>22, <1>23, <1>24,
     <1>25, <1>26, <1>27
     DEF Next, Step, Invocation, Failure, Edit

\* Each step keeps the baseline.
LEMMA NextBaseline == Types /\ Baseline /\ [Next]_vars => Baseline'
<1> SUFFICES ASSUME Types, Baseline, [Next]_vars PROVE Baseline'
  OBVIOUS
<1>0. scope' = scope
  BY DEF Next, vars
<1> USE <1>0
<1> USE DEF Types, TypeInvariant, Baseline, Opened, Turning, Checking, Forget, Fault, NoFault,
            Received, AfterFailure, CanRetry, NoSession, Sessions, savedVars, localVars,
            historyVars, worldVars, vars
<1>1. CASE Execute
  BY <1>1 DEF Execute
<1>2. CASE Resume
  BY <1>2 DEF Resume
<1>3. CASE Prepare
  BY <1>3 DEF Prepare
<1>4. CASE Open
  BY <1>4 DEF Open
<1>5. CASE ShellStart
  BY <1>5 DEF ShellStart
<1>6. CASE ShellChanged
  BY <1>6 DEF ShellChanged
<1>7. CASE ShellReceipt
  BY <1>7 DEF ShellReceipt
<1>8. CASE Wait
  BY <1>8 DEF Wait
<1>9. CASE Finish
  BY <1>9 DEF Finish
<1>10. CASE CheckChanged
  BY <1>10 DEF CheckChanged, SessionFails
<1>11. CASE CheckDeleted
  BY <1>11 DEF CheckDeleted
<1>12. CASE CheckDiff
  BY <1>12 DEF CheckDiff
<1>13. CASE \E status \in {"completed", "failed"} : Accept(status)
  BY <1>13 DEF Accept
<1>14. CASE Deliver
  BY <1>14 DEF Deliver
<1>15. CASE Diagnose
  BY <1>15 DEF Diagnose
<1>16. CASE Recover
  BY <1>16 DEF Recover
<1>17. CASE \E to \in {"blocked", "failed"} : PrepareFails(to)
  BY <1>17 DEF PrepareFails
<1>18. CASE ShellUninspected
  BY <1>18 DEF ShellUninspected
<1>19. CASE CheckFails
  BY <1>19 DEF CheckFails, SessionFails
<1>20. CASE DiagnoseFails
  BY <1>20 DEF DiagnoseFails
<1>21. CASE \E retryable \in BOOLEAN : LoopFails(retryable)
  BY <1>21 DEF LoopFails, SessionFails
<1>22. CASE Cancel
  BY <1>22 DEF Cancel
<1>23. CASE Crash
  BY <1>23 DEF Crash
<1>24. CASE \E p \in Paths, v \in 0..MaxVersion : EditFile(p, v)
  BY <1>24 DEF EditFile
<1>25. CASE \E p \in Paths, v \in 0..MaxVersion : ShellWrites(p, v)
  BY <1>25 DEF ShellWrites
<1>26. CASE \E p \in Paths, v \in 0..MaxVersion : Outside(p, v)
  BY <1>26 DEF Outside
<1>27. CASE Ended \/ UNCHANGED vars
  BY <1>27 DEF Ended
<1> QED
  BY <1>1, <1>2, <1>3, <1>4, <1>5, <1>6, <1>7, <1>8, <1>9, <1>10, <1>11, <1>12,
     <1>13, <1>14, <1>15, <1>16, <1>17, <1>18, <1>19, <1>20, <1>21, <1>22, <1>23, <1>24,
     <1>25, <1>26, <1>27
     DEF Next, Step, Invocation, Failure, Edit

\* Each step keeps what the check has found.
LEMMA NextCheck == Types /\ Baseline /\ Check /\ [Next]_vars => Check'
<1> SUFFICES ASSUME Types, Baseline, Check, [Next]_vars PROVE Check'
  OBVIOUS
<1>0. scope' = scope
  BY DEF Next, vars
<1> USE <1>0
<1> USE DEF Types, Baseline, Check, Opened, Turning, Checking, Forget, Fault, NoFault, Received,
            savedVars, localVars, historyVars, worldVars, vars
<1>1. CASE Execute
  BY <1>1 DEF Execute
<1>2. CASE Resume
  BY <1>2 DEF Resume
<1>3. CASE Prepare
  BY <1>3 DEF Prepare
<1>4. CASE Open
  BY <1>4 DEF Open, NoSession
<1>5. CASE ShellStart
  BY <1>5 DEF ShellStart
<1>6. CASE ShellChanged
  BY <1>6 DEF ShellChanged
<1>7. CASE ShellReceipt
  BY <1>7 DEF ShellReceipt
<1>8. CASE Wait
  BY <1>8 DEF Wait
<1>9. CASE Finish
  BY <1>9 DEF Finish
<1>10. CASE CheckChanged
  <2>1. CASE Changed(base, files) \subseteq scope /\ Changed(base, files) # {}
    BY <1>10, <2>1 DEF CheckChanged
  <2>2. CASE Changed(base, files) = {}
    <3>1. base \in Trees /\ files \in Trees /\ patch = NoTree
      BY <1>10 DEF CheckChanged, TypeInvariant
    <3>2. DiffTo(base, files) = NoTree
      BY <3>1, <2>2, NoChange
    <3> QED BY <1>10, <2>2, <3>1, <3>2 DEF CheckChanged
  <2>3. CASE ~(Changed(base, files) \subseteq scope)
    BY <1>10, <2>3 DEF CheckChanged, SessionFails
  <2> QED BY <2>1, <2>2, <2>3
<1>11. CASE CheckDeleted
  BY <1>11 DEF CheckDeleted
<1>12. CASE CheckDiff
  BY <1>12 DEF CheckDiff
<1>13. CASE \E status \in {"completed", "failed"} : Accept(status)
  BY <1>13 DEF Accept
<1>14. CASE Deliver
  BY <1>14 DEF Deliver
<1>15. CASE Diagnose
  BY <1>15 DEF Diagnose
<1>16. CASE Recover
  BY <1>16 DEF Recover
<1>17. CASE \E to \in {"blocked", "failed"} : PrepareFails(to)
  BY <1>17 DEF PrepareFails
<1>18. CASE ShellUninspected
  BY <1>18 DEF ShellUninspected
<1>19. CASE CheckFails
  BY <1>19 DEF CheckFails, SessionFails
<1>20. CASE DiagnoseFails
  BY <1>20 DEF DiagnoseFails
<1>21. CASE \E retryable \in BOOLEAN : LoopFails(retryable)
  BY <1>21 DEF LoopFails, SessionFails
<1>22. CASE Cancel
  BY <1>22 DEF Cancel
<1>23. CASE Crash
  BY <1>23 DEF Crash
<1>24. CASE \E p \in Paths, v \in 0..MaxVersion : EditFile(p, v)
  BY <1>24 DEF EditFile
<1>25. CASE \E p \in Paths, v \in 0..MaxVersion : ShellWrites(p, v)
  BY <1>25 DEF ShellWrites
<1>26. CASE \E p \in Paths, v \in 0..MaxVersion : Outside(p, v)
  BY <1>26 DEF Outside
<1>27. CASE Ended \/ UNCHANGED vars
  BY <1>27 DEF Ended
<1> QED
  BY <1>1, <1>2, <1>3, <1>4, <1>5, <1>6, <1>7, <1>8, <1>9, <1>10, <1>11, <1>12,
     <1>13, <1>14, <1>15, <1>16, <1>17, <1>18, <1>19, <1>20, <1>21, <1>22, <1>23, <1>24,
     <1>25, <1>26, <1>27
     DEF Next, Step, Invocation, Failure, Edit

\* What a Session that ended says of the snapshot it began with.
LEMMA NextDelivered ==
  Types /\ Baseline /\ Check /\ Delivered /\ [Next]_vars => Delivered'
<1> SUFFICES ASSUME Types, Baseline, Check, Delivered, [Next]_vars PROVE Delivered'
  OBVIOUS
<1>0. scope' = scope
  BY DEF Next, vars
<1> USE <1>0
<1> USE DEF Types, Baseline, Check, Delivered, ListAgrees, PatchAuthorized, PatchExact, NoBlindRetry,
            Opened, Turning, Checking, Forget, Fault, NoFault, Received, AfterFailure, CanRetry,
            savedVars, localVars, historyVars, worldVars, vars
<1>1. CASE Execute
  BY <1>1 DEF Execute, NoSession, NoResult, TypeInvariant
<1>2. CASE Resume
  BY <1>2 DEF Resume, TypeInvariant
<1>3. CASE Prepare
  BY <1>3 DEF Prepare, TypeInvariant
<1>4. CASE Open
  BY <1>4 DEF Open, NoSession
<1>5. CASE ShellStart
  BY <1>5 DEF ShellStart
<1>6. CASE ShellChanged
  BY <1>6 DEF ShellChanged
<1>7. CASE ShellReceipt
  BY <1>7 DEF ShellReceipt
<1>8. CASE Wait
  BY <1>8 DEF Wait, TypeInvariant
<1>9. CASE Finish
  BY <1>9 DEF Finish
<1>10. CASE CheckChanged
  BY <1>10 DEF CheckChanged, SessionFails, Sessions, TypeInvariant
<1>11. CASE CheckDeleted
  BY <1>11 DEF CheckDeleted
<1>12. CASE CheckDiff
  BY <1>12 DEF CheckDiff
<1>13. CASE \E status \in {"completed", "failed"} : Accept(status)
  <2> PICK status \in {"completed", "failed"} : Accept(status)
    BY <1>13
  <2>1. CASE session' = session /\ at' = "turn"
    BY <2>1 DEF Accept
  <2>2. CASE /\ ~ \E p \in Listed : files[p] = Gone
             /\ session' = [session EXCEPT !.status = status, !.retryable = FALSE,
                              !.patched = (found # {}), !.patch = patch, !.listed = Listed]
             /\ at' = "ended"
    <3>1. base \in Trees /\ files \in Trees /\ began = base
      BY DEF Accept, TypeInvariant
    <3>2. quiet => found = Changed(base, files) /\ patch = DiffTo(base, files) /\ found \subseteq scope
      BY DEF Accept
    <3>3. quiet => Listed = {p \in DOMAIN patch : patch[p] # Gone} \/ found = {}
      BY <3>1, <3>2, DiffPatch DEF Accept, Listed
    <3>4. /\ session'.status = status /\ session'.retryable = FALSE
          /\ session'.patched = (found # {}) /\ session'.patch = patch /\ session'.listed = Listed
      BY <2>2 DEF Sessions
    <3>5. alone => quiet
      BY DEF Accept
    <3>6. DOMAIN DiffTo(base, files) = Changed(base, files)
      BY <3>1, DiffPatch
    <3>7. UNCHANGED <<files, task, attempt, result, began, quiet, alone>>
      BY DEF Accept
    <3>8. /\ at' = "ended" /\ session'.patched => ~session'.retryable
          /\ alone /\ session'.status = "completed" =>
               /\ session'.patched <=> Changed(began, files) # {}
               /\ session'.patch = DiffTo(began, files)
      BY <3>1, <3>2, <3>4, <3>5
    <3>9. ListAgrees' /\ PatchAuthorized'
      BY <3>2, <3>3, <3>4, <3>6, <3>7
    <3>10. PatchExact' /\ NoBlindRetry' /\ (result'.status = "completed" => task' = "completed")
      BY <3>7 DEF Accept, TypeInvariant
    <3> QED BY <3>7, <3>8, <3>9, <3>10
  <2> QED BY <2>1, <2>2 DEF Accept
<1>14. CASE Deliver
  BY <1>14 DEF Deliver, Outcome
<1>15. CASE Diagnose
  <2>1. base \in Trees /\ files \in Trees /\ began = base
    BY <1>15 DEF Diagnose, TypeInvariant
  <2>2. result'.status = "failed"
    BY <1>15 DEF Diagnose, Outcome
  <2>3. task' = "pending" => Changed(base, files) = {}
    BY <1>15 DEF Diagnose
  <2>4. task' = "pending" => files = began
    BY <2>1, <2>3, NoChange
  <2> QED BY <1>15, <2>2, <2>4 DEF Diagnose
<1>16. CASE Recover
  BY <1>16 DEF Recover, Error
<1>17. CASE \E to \in {"blocked", "failed"} : PrepareFails(to)
  BY <1>17 DEF PrepareFails, Error
<1>18. CASE ShellUninspected
  BY <1>18 DEF ShellUninspected
<1>19. CASE CheckFails
  BY <1>19 DEF CheckFails, SessionFails
<1>20. CASE DiagnoseFails
  BY <1>20 DEF DiagnoseFails, Outcome
<1>21. CASE \E retryable \in BOOLEAN : LoopFails(retryable)
  BY <1>21 DEF LoopFails, SessionFails
<1>22. CASE Cancel
  BY <1>22 DEF Cancel, TypeInvariant
<1>23. CASE Crash
  BY <1>23 DEF Crash
<1>24. CASE \E p \in Paths, v \in 0..MaxVersion : EditFile(p, v)
  BY <1>24 DEF EditFile, TypeInvariant
<1>25. CASE \E p \in Paths, v \in 0..MaxVersion : ShellWrites(p, v)
  BY <1>25 DEF ShellWrites, TypeInvariant
<1>26. CASE \E p \in Paths, v \in 0..MaxVersion : Outside(p, v)
  BY <1>26 DEF Outside
<1>27. CASE Ended \/ UNCHANGED vars
  BY <1>27 DEF Ended
<1> QED
  BY <1>1, <1>2, <1>3, <1>4, <1>5, <1>6, <1>7, <1>8, <1>9, <1>10, <1>11, <1>12,
     <1>13, <1>14, <1>15, <1>16, <1>17, <1>18, <1>19, <1>20, <1>21, <1>22, <1>23, <1>24,
     <1>25, <1>26, <1>27
     DEF Next, Step, Invocation, Failure, Edit

\* Each step keeps the receipts.
LEMMA NextReceipts == Types /\ Receives /\ [Next]_vars => Receives'
<1> SUFFICES ASSUME Types, Receives, [Next]_vars PROVE Receives'
  OBVIOUS
<1>0. scope' = scope
  BY DEF Next, vars
<1> USE <1>0
<1> USE DEF Types, Receives, ReceiptAgrees, Receipts, Forget, Fault, NoFault, Received,
            savedVars, localVars, historyVars, worldVars, vars
<1>1. CASE Execute
  BY <1>1 DEF Execute
<1>2. CASE Resume
  BY <1>2 DEF Resume
<1>3. CASE Prepare
  BY <1>3 DEF Prepare
<1>4. CASE Open
  BY <1>4 DEF Open
<1>5. CASE ShellStart
  BY <1>5 DEF ShellStart
<1>6. CASE ShellChanged
  BY <1>6 DEF ShellChanged
<1>7. CASE ShellReceipt
  BY <1>7 DEF ShellReceipt
<1>8. CASE Wait
  BY <1>8 DEF Wait
<1>9. CASE Finish
  BY <1>9 DEF Finish
<1>10. CASE CheckChanged
  BY <1>10 DEF CheckChanged, SessionFails
<1>11. CASE CheckDeleted
  BY <1>11 DEF CheckDeleted
<1>12. CASE CheckDiff
  BY <1>12 DEF CheckDiff
<1>13. CASE \E status \in {"completed", "failed"} : Accept(status)
  BY <1>13 DEF Accept
<1>14. CASE Deliver
  BY <1>14 DEF Deliver
<1>15. CASE Diagnose
  BY <1>15 DEF Diagnose
<1>16. CASE Recover
  BY <1>16 DEF Recover
<1>17. CASE \E to \in {"blocked", "failed"} : PrepareFails(to)
  BY <1>17 DEF PrepareFails
<1>18. CASE ShellUninspected
  BY <1>18 DEF ShellUninspected
<1>19. CASE CheckFails
  BY <1>19 DEF CheckFails, SessionFails
<1>20. CASE DiagnoseFails
  BY <1>20 DEF DiagnoseFails
<1>21. CASE \E retryable \in BOOLEAN : LoopFails(retryable)
  BY <1>21 DEF LoopFails, SessionFails
<1>22. CASE Cancel
  BY <1>22 DEF Cancel
<1>23. CASE Crash
  BY <1>23 DEF Crash
<1>24. CASE \E p \in Paths, v \in 0..MaxVersion : EditFile(p, v)
  BY <1>24 DEF EditFile
<1>25. CASE \E p \in Paths, v \in 0..MaxVersion : ShellWrites(p, v)
  BY <1>25 DEF ShellWrites
<1>26. CASE \E p \in Paths, v \in 0..MaxVersion : Outside(p, v)
  BY <1>26 DEF Outside
<1>27. CASE Ended \/ UNCHANGED vars
  BY <1>27 DEF Ended
<1> QED
  BY <1>1, <1>2, <1>3, <1>4, <1>5, <1>6, <1>7, <1>8, <1>9, <1>10, <1>11, <1>12,
     <1>13, <1>14, <1>15, <1>16, <1>17, <1>18, <1>19, <1>20, <1>21, <1>22, <1>23, <1>24,
     <1>25, <1>26, <1>27
     DEF Next, Step, Invocation, Failure, Edit

\* The invariant holds in every reachable state.
LEMMA Invariance == Spec => []Inv
<1>1. Inv /\ [Next]_vars => Inv'
  BY NextTyped, NextBaseline, NextCheck, NextDelivered, NextReceipts DEF Inv
<1> QED BY InitInv, <1>1, PTL DEF Spec

-----------------------------------------------------------------------------
(* The properties *)

\* A completed Attempt hands over the difference to the snapshot it began with, over every
\* wait and every death it survived.
THEOREM PatchIsExact == Spec => []PatchExact
<1>1. Inv => PatchExact
  BY DEF Inv, Delivered
<1> QED BY Invariance, <1>1, PTL

\* The list of changed files and the patch agree, though each has a snapshot of its own.
THEOREM ListIsPatch == Spec => []ListAgrees
<1>1. Inv => ListAgrees
  BY DEF Inv, Delivered
<1> QED BY Invariance, <1>1, PTL

\* The completion check lets no change outside the write scope through.
THEOREM PatchIsAuthorized == Spec => []PatchAuthorized
<1>1. Inv => PatchAuthorized
  BY DEF Inv, Delivered
<1> QED BY Invariance, <1>1, PTL

\* A failure the Scheduler retries left the workspace as its Attempt found it.
THEOREM RetriesFromBaseline == Spec => []NoBlindRetry
<1>1. Inv => NoBlindRetry
  BY DEF Inv, Delivered
<1> QED BY Invariance, <1>1, PTL

\* A command's receipt names the paths that differ between its own two trees.
THEOREM ReceiptsAgree == Spec => []ReceiptAgrees
<1>1. Inv => ReceiptAgrees
  BY DEF Inv, Receives
<1> QED BY Invariance, <1>1, PTL

\* The whole result, for every set of paths and any number of Attempts, waits and deaths.
THEOREM ResultIsExact == Spec => []ResultExact
<1>1. Inv => TypeInvariant
  BY DEF Inv, Types
<1> QED BY Invariance, <1>1, PatchIsExact, ListIsPatch, PatchIsAuthorized, ReceiptsAgree, PTL
        DEF ResultExact
==============================================================================
