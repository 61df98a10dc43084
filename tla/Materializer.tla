----------------------------- MODULE Materializer -----------------------------
(* The repository of a managed workspace: each invocation of an Agent asks for *)
(* it, and it is reused or built in a staging directory and moved into place.  *)
(* The process may die at every step, and leave a clone running behind it.     *)
EXTENDS Naturals

CONSTANTS
  Sources,                            \* [kind, location] of a WorkspaceSpec
  MaxCalls, MaxCrashes, MaxFaults     \* invocations, deaths, failing system calls

Kinds == {"git", "copy", "generated"}
ASSUME MaterializerAssumption ==
  /\ Sources \subseteq [kind : Kinds, location : STRING]
  /\ MaxCalls \in Nat /\ MaxCrashes \in Nat /\ MaxFaults \in Nat

NoSource == [kind |-> "none", location |-> "none"]
Torn == [kind |-> "torn", location |-> "none"]     \* a file that is not the JSON expected

\* A directory: absent, empty, part of a repository, a repository, or files of another.
Directory(holds, of) == [holds |-> holds, of |-> of]
Absent == Directory("absent", NoSource)
Empty == Directory("empty", NoSource)
Others == Directory("others", NoSource)
Directories ==
  {Absent, Empty, Others} \union [holds : {"part", "repo"}, of : Sources]

VARIABLES
  workspace, staging, metadata,   \* the directories and workspace.json
  at, source,                     \* the invocation: where it is, and what it asks for
  result,                         \* of the last invocation
  child,                          \* the git clone the process has started
  orphan,                         \* a git clone that outlived the process that started it
  calls, crashes, faults

diskVars == <<workspace, staging, metadata>>
worldVars == <<child, orphan, calls, crashes, faults>>
vars == <<diskVars, at, source, result, worldVars>>

Init ==
  /\ workspace \in {Absent, Empty, Others} \union {Directory("repo", s) : s \in Sources}
  /\ metadata \in {NoSource, Torn} \union Sources
  /\ (workspace.holds = "repo" /\ metadata \in Sources) => metadata = workspace.of
  /\ staging = Absent
  /\ at = "idle" /\ source = NoSource /\ result = "none"
  /\ child = NoSource /\ orphan = NoSource
  /\ calls = 0 /\ crashes = 0 /\ faults = 0

Goto(point) == at' = point /\ UNCHANGED <<source, result>>
Return(value) == at' = "idle" /\ result' = value /\ source' = NoSource
Fault == faults < MaxFaults /\ faults' = faults + 1 /\ UNCHANGED <<child, orphan, calls, crashes>>

-----------------------------------------------------------------------------
(* materialize, up to the decision to build *)

Call(s) ==
  /\ at = "idle" /\ calls < MaxCalls
  /\ calls' = calls + 1
  /\ source' = s /\ result' = "none"
  /\ at' = IF s.kind = "copy" THEN "source" ELSE "root"
  /\ UNCHANGED <<diskVars, child, orphan, crashes, faults>>

\* The source of a copy: a repository root with a .git directory of its own.
CheckSource ==
  /\ at = "source"
  /\ Goto("root") /\ UNCHANGED <<diskVars, worldVars>>
RefuseSource ==
  /\ at = "source"
  /\ Return("error") /\ Fault /\ UNCHANGED diskVars

\* _is_git_worktree_root answers FALSE when git fails or is late.
FindRoot ==
  /\ at = "root"
  /\ Goto(IF workspace.holds = "repo" THEN "verify" ELSE "content")
  /\ UNCHANGED <<diskVars, worldVars>>
MissRoot ==
  /\ at = "root" /\ workspace.holds = "repo"
  /\ Goto("content") /\ Fault /\ UNCHANGED diskVars

\* Mutant: only the kind of the source is compared.
VerifyKind ==
  /\ at = "verify"
  /\ Return(IF metadata.kind = source.kind THEN "ready" ELSE "error")
  /\ UNCHANGED <<diskVars, worldVars>>

Verify ==
  /\ at = "verify"
  /\ Return(IF metadata = source THEN "ready" ELSE "error")
  /\ UNCHANGED <<diskVars, worldVars>>

HasContent == workspace.holds \notin {"absent", "empty"}

\* os.replace moves the staging directory over an absent or an empty one.
CanReplace == ~HasContent /\ staging # Absent

CheckContent ==
  /\ at = "content"
  /\ IF HasContent THEN Return("error") ELSE Goto("stage")
  /\ UNCHANGED <<diskVars, worldVars>>

-----------------------------------------------------------------------------
(* _stage *)

ClearStaging ==
  /\ at = "stage"
  /\ staging' = Absent /\ Goto("build")
  /\ UNCHANGED <<workspace, metadata, worldVars>>
\* rmtree fails, among others when a clone still writes there.
ClearFails ==
  /\ at = "stage" /\ staging # Absent
  /\ Return("error") /\ Fault /\ UNCHANGED diskVars

\* Every builder but the copy starts a git process; git refuses a directory with files.
StartBuild ==
  /\ at = "build"
  /\ IF staging # Absent THEN Goto("clean") /\ UNCHANGED <<staging, child>>
     ELSE Goto("built") /\ staging' = Directory("part", source)
          /\ child' = IF source.kind = "git" THEN source ELSE NoSource
  /\ UNCHANGED <<workspace, metadata, orphan, calls, crashes, faults>>

Built ==
  /\ at = "built"
  /\ staging # Absent
  /\ staging' = Directory("repo", source) /\ child' = NoSource
  /\ Goto("open") /\ UNCHANGED <<workspace, metadata, orphan, calls, crashes, faults>>

\* Mutant: the exit code of the build is not looked at.
BuildUnchecked ==
  /\ at = "built" /\ faults < MaxFaults /\ faults' = faults + 1
  /\ child' = NoSource
  /\ Goto("open") /\ UNCHANGED <<diskVars, orphan, calls, crashes>>

\* The build fails, or its directory was removed; the clone is stopped.
BuildFails ==
  /\ at = "built"
  /\ faults < MaxFaults \/ staging = Absent
  /\ faults' = IF staging = Absent THEN faults ELSE faults + 1
  /\ child' = NoSource
  /\ Goto("clean") /\ UNCHANGED <<diskVars, orphan, calls, crashes>>

\* The clone is late and its stop cannot be confirmed: it goes on.
BuildLeft ==
  /\ at = "built" /\ child # NoSource /\ orphan = NoSource
  /\ faults < MaxFaults /\ faults' = faults + 1
  /\ orphan' = child /\ child' = NoSource
  /\ Goto("clean") /\ UNCHANGED <<diskVars, calls, crashes>>

\* Mutant: the staging directory is moved first and the metadata written after.
PromoteFirst ==
  /\ at = "open" /\ CanReplace
  /\ workspace' = staging /\ staging' = Absent
  /\ Goto("write") /\ UNCHANGED <<metadata, worldVars>>

\* write_text truncates the file before it writes it.
OpenMetadata ==
  /\ at = "open"
  /\ metadata' = Torn /\ Goto("write")
  /\ UNCHANGED <<workspace, staging, worldVars>>
WriteMetadata ==
  /\ at = "write"
  /\ metadata' = source /\ Goto("promote")
  /\ UNCHANGED <<workspace, staging, worldVars>>
WriteFails ==
  /\ at \in {"open", "write"}
  /\ Goto("clean") /\ Fault /\ UNCHANGED diskVars

\* Mutant: what is in the workspace is removed.
PromoteOver ==
  /\ at = "promote" /\ staging # Absent
  /\ workspace' = staging /\ staging' = Absent
  /\ Return("ready") /\ UNCHANGED <<metadata, worldVars>>

Promote ==
  /\ at = "promote" /\ CanReplace
  /\ workspace' = staging /\ staging' = Absent
  /\ Return("ready") /\ UNCHANGED <<metadata, worldVars>>
PromoteFails ==
  /\ at = "promote"
  /\ IF CanReplace THEN Fault ELSE UNCHANGED worldVars
  /\ Goto("clean") /\ UNCHANGED diskVars

Clean ==
  /\ at = "clean"
  /\ staging' = Absent
  /\ Return("error") /\ UNCHANGED <<workspace, metadata, worldVars>>
CleanFails ==
  /\ at = "clean" /\ staging # Absent
  /\ Return("error") /\ Fault /\ UNCHANGED diskVars

-----------------------------------------------------------------------------
(* The others *)

\* Mutant: the clone of a dead process is taken for the next one's.
CrashKeeps ==
  /\ at # "idle" /\ crashes < MaxCrashes
  /\ crashes' = crashes + 1 /\ orphan' = child
  /\ Return("died") /\ UNCHANGED <<diskVars, child, calls, faults>>

\* The process dies: its clone is in a session of its own and goes on.
Crash ==
  /\ at # "idle" /\ crashes < MaxCrashes
  /\ crashes' = crashes + 1
  /\ orphan' = IF child # NoSource THEN child ELSE orphan
  /\ child' = NoSource
  /\ Return("died") /\ UNCHANGED <<diskVars, calls, faults>>

\* The clone left behind ends, or fails and removes the directory it wrote.
OrphanEnds ==
  /\ orphan # NoSource
  /\ orphan' = NoSource
  /\ \/ staging = Directory("part", orphan) /\ child = NoSource
          /\ staging' = Directory("repo", orphan)
     \/ staging' = Absent
  /\ UNCHANGED <<workspace, metadata, at, source, result, child, calls, crashes, faults>>

\* Somebody puts files into the workspace, or clears it.
Intrude ==
  /\ faults < MaxFaults /\ faults' = faults + 1
  /\ \/ workspace \in {Absent, Empty} /\ workspace' = Others
     \/ workspace # Absent /\ at = "idle" /\ workspace' = Empty
  /\ UNCHANGED <<staging, metadata, at, source, result, child, orphan, calls, crashes>>

Step ==
  \/ CheckSource \/ FindRoot \/ Verify \/ CheckContent
  \/ ClearStaging \/ StartBuild \/ Built \/ OpenMetadata \/ WriteMetadata \/ Promote \/ Clean
Failure ==
  RefuseSource \/ MissRoot \/ ClearFails \/ BuildFails \/ BuildLeft \/ WriteFails \/ PromoteFails \/ CleanFails

\* No invocation is left and nothing is under way.
Done == at = "idle" /\ calls = MaxCalls /\ UNCHANGED vars

Next ==
  \/ \E s \in Sources : Call(s)
  \/ Step \/ Failure \/ Crash \/ OrphanEnds \/ Intrude \/ Done

Spec == Init /\ [][Next]_vars

-----------------------------------------------------------------------------
(* Properties *)

TypeInvariant ==
  /\ workspace \in Directories /\ staging \in Directories
  /\ metadata \in Sources \union {NoSource, Torn}
  /\ at \in {"idle", "source", "root", "verify", "content", "stage", "build", "built", "open",
             "write", "promote", "clean"}
  /\ source \in Sources \union {NoSource} /\ (source = NoSource <=> at = "idle")
  /\ result \in {"none", "ready", "error", "died"}
  /\ child \in Sources \union {NoSource} /\ orphan \in Sources \union {NoSource}
  /\ child # NoSource => at = "built" /\ child = source
  /\ calls \in 0..MaxCalls /\ crashes \in 0..MaxCrashes /\ faults \in 0..MaxFaults

\* An Agent is never given a repository of another source than the one it asked for,
\* whatever earlier invocations, deaths and clones left behind.
ReadyFromSource ==
  [][(at # "idle" /\ result' = "ready")
       => (workspace'.holds = "repo" /\ workspace'.of = source)]_vars

\* "A crash can only leave metadata without repo, never repo without metadata": a
\* repository that the materializer moved into place always has the metadata naming it.
NeverWithoutMetadata ==
  [][(workspace'.holds = "repo" /\ (workspace' # workspace \/ metadata = workspace.of))
       => metadata' = workspace'.of]_vars

\* "A retry never sees a half-built workspace": no death, failure or clone left behind
\* puts a part of a repository in the workspace.
NeverHalfBuilt == workspace.holds # "part"

\* A workspace with content, a repository in use or the files of somebody else, is
\* never replaced by the materializer.
ContentKept == [][at # "idle" /\ HasContent => workspace' = workspace]_vars

\* An invocation is given a whole repository of the source it asked for, with the metadata
\* that names it, and takes nothing from anybody, whatever died or failed before.
RepositorySound == []TypeInvariant /\ []NeverHalfBuilt
                   /\ ReadyFromSource /\ NeverWithoutMetadata /\ ContentKept
=============================================================================
