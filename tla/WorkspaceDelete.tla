---------------------------- MODULE WorkspaceDelete ----------------------------
(* delete_path: a snapshot of the entries is shown to the user, taken again    *)
(* when the answer is used and once more before the entries are removed, each  *)
(* of which is looked at again. Other programs change the files at every step. *)
EXTENDS Naturals, Sequences, SequencesExt, FiniteSets

CONSTANTS
  Targets,        \* the paths a call may name
  Denied,         \* WorkspaceAccess.denied_paths
  MaxEdits        \* changes other programs make

NameSet == {"a", "b", "d", "n", "x"}
Root == 1
Elsewhere == 2                                  \* a directory outside of the workspace
Inodes == 0 .. 7 + 2 * MaxEdits                 \* 0 is no inode
Places ==                                       \* the paths of the entries of the tree
  UNION {{<<"d">>, <<"d", n>>, <<"d", n, m>>} : n \in {"a", "b", "x"}, m \in {"n", "x"}}

\* What the constants are.
WorkspaceDeleteAssumption ==
  /\ Targets \subseteq Places /\ Denied \subseteq Places
  /\ MaxEdits \in Nat

\* A name is bound to an inode, 0 when there is none. The stamp stands for the size, the
\* times and the digest: every change of an inode, a rename of it included, gives it another.
NoKids == [n \in NameSet |-> 0]
Inode(kind, kids) == [kind |-> kind, stamp |-> 0, kids |-> kids]
Nothing == Inode("nothing", NoKids)
Kinds == {"nothing", "file", "directory", "symlink"}       \* every link leads Elsewhere

VARIABLES
  node, fresh,        \* the inodes, and the next one
  edits,
  phase,              \* the check of the policy, the question, the execution
  target, recursive,  \* the arguments of the call
  todo, entries,      \* the walk of prepare_delete
  shown, answer,      \* PendingAction.context, and what the user says of it
  prepared, truth,    \* PermissionDecision.prepared, and the entries there were when it was used
  pending, deleted,   \* of delete_prepared
  anchor,             \* the directory that _delete_parent opened
  removed,            \* what was removed, as it was: the inode, and the directory it was in
  report              \* of the call: ended, deleted and remaining

fileVars == <<node, fresh, edits, removed>>
callVars == <<target, recursive>>
walkVars == <<todo, entries>>
askVars == <<shown, answer, prepared, truth>>
runVars == <<pending, deleted, anchor>>
vars == <<fileVars, phase, callVars, walkVars, askVars, runVars, report>>

NoReport == [ended |-> "no", deleted |-> <<>>, remaining |-> <<>>]

-----------------------------------------------------------------------------
(* Paths *)

Child(i, name) == IF node[i].kind = "directory" THEN node[i].kids[name] ELSE 0
Follow(i) == IF node[i].kind = "symlink" THEN Elsewhere ELSE i

\* Path.resolve(strict=True) of a directory, and a walk that opens it with O_NOFOLLOW.
Resolved(path) == FoldLeft(LAMBDA i, n : Follow(Child(i, n)), Root, path)
Opened(path) == FoldLeft(Child, Root, path)
Contained(i) == i = Root \/ \E p \in Places : Opened(p) = i

Matches(path, prefixes) == \E p \in prefixes : IsPrefix(p, path)

\* _delete_target, where no directory of the tree has two paths.
Permitted(path) ==
  LET parent == Resolved(Front(path))
  IN  /\ ~Matches(path, Denied)
      /\ node[parent].kind = "directory" /\ Contained(parent)
Target(path) == Child(Resolved(Front(path)), Last(path))

Version(i) == [inode |-> i, stamp |-> node[i].stamp]
\* Mutant: the entry has its name and not its path.
EntryNamed(path, i) == [path |-> <<Last(path)>>, kind |-> node[i].kind, version |-> Version(i)]

Entry(path, i) == [path |-> path, kind |-> node[i].kind, version |-> Version(i)]

-----------------------------------------------------------------------------
(* prepare_delete, in steps *)

Work(step, path, version) == [step |-> step, path |-> path, version |-> version]
NoVersion == [inode |-> 0, stamp |-> 0]
StartWalk(path) == todo' = <<Work("visit", path, NoVersion)>> /\ entries' = <<>>
Preparing == phase \in {"check", "recheck", "confirm"}

\* Mutant: only the target of the call is checked, and not what is below it.
VisitUnchecked(work) ==
  Target(work.path) # 0 /\ (work.path = target => Permitted(work.path))

\* What lets each step of the walk pass: a target that may be deleted; a file that, opened
\* below directories that are no links, is read unchanged; a directory that may have entries.
VisitPasses(work) == Permitted(work.path) /\ Target(work.path) # 0
HashPasses(work) == Version(Opened(work.path)) = work.version
Listing(path) ==                                \* the names there are, in the order of sorted()
  LET If(n) == IF Child(Resolved(path), n) = 0 THEN <<>> ELSE <<n>>
  IN  If("a") \o If("b") \o If("d") \o If("n") \o If("x")
ListPasses(work) ==
  /\ node[Resolved(work.path)].kind = "directory"
  /\ recursive \/ Listing(work.path) = <<>>

Passes(work) ==
  \/ work.step = "visit" /\ VisitPasses(work)
  \/ work.step \in {"hash", "still"} /\ HashPasses(work)
  \/ work.step = "list" /\ ListPasses(work)

Walking(step) == Preparing /\ todo # <<>> /\ Head(todo).step = step /\ Passes(Head(todo))

\* The lstat of an entry.
Visit ==
  /\ Walking("visit")
  /\ LET path == Head(todo).path
         i == Target(path)
         next == CASE node[i].kind = "file" -> <<Work("hash", path, Version(i))>>
                   [] node[i].kind = "directory" -> <<Work("list", path, Version(i))>>
                   [] OTHER -> <<>>
     IN  /\ entries' = Append(entries, Entry(path, i))
         /\ todo' = next \o Tail(todo)
  /\ UNCHANGED <<fileVars, phase, callVars, askVars, runVars, report>>

\* A file is read, and a directory looked at again after its entries.
Hash ==
  /\ Walking("hash") \/ Walking("still")
  /\ todo' = Tail(todo)
  /\ UNCHANGED <<fileVars, phase, callVars, entries, askVars, runVars, report>>

List ==
  /\ Walking("list")
  /\ LET work == Head(todo)
         names == Listing(work.path)
     IN  todo' = [k \in 1 .. Len(names) |-> Work("visit", Append(work.path, names[k]), NoVersion)]
                 \o <<[work EXCEPT !.step = "still"]>> \o Tail(todo)
  /\ UNCHANGED <<fileVars, phase, callVars, entries, askVars, runVars, report>>

Return(how, done, rest) ==
  /\ phase' = "ended"
  /\ report' = [ended |-> how, deleted |-> done, remaining |-> rest]
  /\ UNCHANGED <<fileVars, callVars, walkVars, askVars, runVars>>

\* An entry that is gone, denied, outside or changed, or a directory that is not empty.
PrepareFails ==
  /\ Preparing /\ todo # <<>> /\ ~Passes(Head(todo))
  /\ Return("refused", <<>>, <<>>)

-----------------------------------------------------------------------------
(* The policy, the question and its answer *)

Call(path, all) ==
  /\ phase = "idle"
  /\ phase' = "check" /\ target' = path /\ recursive' = all
  /\ StartWalk(path)
  /\ UNCHANGED <<fileVars, askVars, runVars, report>>

Walked(p) == phase = p /\ todo = <<>>
NeedsConfirmation(snapshot) == Len(snapshot) > 1

\* The entries at and below a path, seen all at once.
Tree(path) == {Entry(p, Opened(p)) : p \in {q \in Places : IsPrefix(path, q) /\ Opened(q) # 0}}

\* The call is allowed, and execute_prepared given the snapshot.
Allow(snapshot) ==
  /\ phase' = "confirm" /\ prepared' = snapshot
  /\ truth' = Tree(target)
  /\ StartWalk(target)
  /\ UNCHANGED <<fileVars, callVars, shown, answer, runVars, report>>

Ask(snapshot) ==
  /\ phase' = "ask" /\ shown' = snapshot /\ answer' = "none"
  /\ UNCHANGED <<fileVars, callVars, walkVars, prepared, truth, runVars, report>>

Check ==
  /\ Walked("check")
  /\ IF NeedsConfirmation(entries) THEN Ask(entries) ELSE Allow(entries)

Answer(says) ==
  /\ phase = "ask"
  /\ phase' = "recheck" /\ answer' = says
  /\ StartWalk(target)
  /\ UNCHANGED <<fileVars, callVars, shown, prepared, truth, runVars, report>>

\* Mutant: an answer counts for the same path and not for the same snapshot.
SamePath(snapshot) == snapshot[1].path = shown[1].path

SameContext(snapshot) == snapshot = shown

Recheck ==
  /\ Walked("recheck")
  /\ \/ ~NeedsConfirmation(entries) /\ Allow(entries)
     \/ /\ NeedsConfirmation(entries) /\ SameContext(entries)
        /\ \/ answer = "yes" /\ Allow(entries)
           \/ answer = "no" /\ Return("declined", <<>>, <<>>)
     \/ NeedsConfirmation(entries) /\ ~SameContext(entries) /\ Ask(entries)

-----------------------------------------------------------------------------
(* delete_prepared *)

\* Mutant: the snapshot is not compared with a new one.
ConfirmAny ==
  /\ Walked("confirm")
  /\ phase' = "aim" /\ pending' = Reverse(prepared) /\ deleted' = <<>>
  /\ UNCHANGED <<fileVars, callVars, walkVars, askVars, anchor, report>>

Confirm ==
  /\ Walked("confirm") /\ entries = prepared
  /\ phase' = "aim" /\ pending' = Reverse(entries) /\ deleted' = <<>>
  /\ UNCHANGED <<fileVars, callVars, walkVars, askVars, anchor, report>>

Changed ==
  /\ Walked("confirm") /\ entries # prepared
  /\ Return("refused", <<>>, <<>>)

\* The parent is opened from the root, without following a link.
Aims == Permitted(Head(pending).path) /\ node[Opened(Front(Head(pending).path))].kind = "directory"
Aim ==
  /\ phase = "aim" /\ pending # <<>> /\ Aims
  /\ phase' = "look" /\ anchor' = Opened(Front(Head(pending).path))
  /\ UNCHANGED <<fileVars, callVars, walkVars, askVars, pending, deleted, report>>

Held == Child(anchor, Last(Head(pending).path))

\* Mutant: what is there is removed without another look.
UnchangedAny == Held # 0

\* Removing its entries changes the times of a directory, never its identity.
Unchanged ==
  LET entry == Head(pending)
  IN  IF entry.kind = "directory" THEN Held = entry.version.inode ELSE Version(Held) = entry.version

Look ==
  /\ phase = "look" /\ Unchanged
  /\ phase' = "unlink"
  /\ UNCHANGED <<fileVars, callVars, walkVars, askVars, runVars, report>>

\* rmdir of an empty directory, unlink of anything else.
Unlinks ==
  /\ Held # 0
  /\ IF Head(pending).kind = "directory"
       THEN node[Held].kind = "directory" /\ node[Held].kids = NoKids
       ELSE node[Held].kind # "directory"
Unlink ==
  /\ phase = "unlink" /\ Unlinks
  /\ LET path == Head(pending).path
     IN  /\ node' = [node EXCEPT ![anchor].kids[Last(path)] = 0, ![anchor].stamp = @ + 1]
         /\ removed' = removed \union {[path |-> path, version |-> Version(Held), parent |-> anchor]}
         /\ deleted' = Append(deleted, path)
  /\ phase' = "aim" /\ pending' = Tail(pending)
  /\ UNCHANGED <<fresh, edits, callVars, walkVars, askVars, anchor, report>>

Paths(snapshot) == [k \in 1 .. Len(snapshot) |-> snapshot[k].path]

\* Mutant: the entry that failed is in neither list.
RemoveSkips ==
  /\ \/ phase = "aim" /\ pending # <<>> /\ ~Aims
     \/ phase = "look" /\ ~Unchanged
     \/ phase = "unlink" /\ ~Unlinks
  /\ IF deleted = <<>> THEN Return("refused", <<>>, <<>>)
                       ELSE Return("interrupted", deleted, Tail(Paths(pending)))

RemoveFails ==
  /\ \/ phase = "aim" /\ pending # <<>> /\ ~Aims
     \/ phase = "look" /\ ~Unchanged
     \/ phase = "unlink" /\ ~Unlinks
  /\ IF deleted = <<>> THEN Return("refused", <<>>, <<>>)
                       ELSE Return("interrupted", deleted, Paths(pending))

Finish == phase = "aim" /\ pending = <<>> /\ Return("deleted", deleted, <<>>)

-----------------------------------------------------------------------------
(* Other programs *)

Edits == edits < MaxEdits /\ edits' = edits + 1 /\ phase \notin {"idle", "ended"}
KeepCall == UNCHANGED <<phase, callVars, walkVars, askVars, runVars, report, removed>>

\* The name at the end of the path is bound to another inode, and the old one goes elsewhere.
Rebind(path, i) ==
  LET parent == Opened(Front(path))
      old == Opened(path)
      bound == [node EXCEPT ![parent].kids[Last(path)] = i, ![parent].stamp = @ + 1]
  IN  IF old = 0 THEN bound ELSE [bound EXCEPT ![old].stamp = @ + 1]

Write(path) ==
  /\ Edits
  /\ node[Opened(path)].kind = "file"
  /\ node' = [node EXCEPT ![Opened(path)].stamp = @ + 1]
  /\ UNCHANGED fresh /\ KeepCall

Take(path) ==
  /\ Edits
  /\ Opened(path) # 0 /\ node' = Rebind(path, 0)
  /\ UNCHANGED fresh /\ KeepCall

\* A file, a link or a directory with a file in it is made, or takes another's place.
Put(path, kind) ==
  /\ Edits
  /\ node[Opened(Front(path))].kind = "directory"
  /\ kind = "directory" => Len(path) < 3
  /\ LET kids == IF kind = "directory" THEN [NoKids EXCEPT !["x"] = fresh + 1] ELSE NoKids
     IN  node' = [Rebind(path, fresh) EXCEPT ![fresh] = Inode(kind, kids),
                                             ![fresh + 1] = Inode("file", NoKids)]
  /\ fresh' = fresh + 2 /\ KeepCall

-----------------------------------------------------------------------------
(* The specification *)

\* d holds the directory a, with the file x, and b: a file, a link or nothing.
Init ==
  /\ \E b \in {0, 6}, kind \in {"file", "symlink"} :
       node = [i \in Inodes |->
                 CASE i = Root -> Inode("directory", [NoKids EXCEPT !["d"] = 3])
                   [] i = Elsewhere -> Inode("directory", [NoKids EXCEPT !["x"] = 7])
                   [] i = 3 -> Inode("directory", [NoKids EXCEPT !["a"] = 4, !["b"] = b])
                   [] i = 4 -> Inode("directory", [NoKids EXCEPT !["x"] = 5])
                   [] i \in {5, 7} -> Inode("file", NoKids)
                   [] i = 6 /\ b = 6 -> Inode(kind, NoKids)
                   [] OTHER -> Nothing]
  /\ fresh = 8 /\ edits = 0 /\ removed = {}
  /\ phase = "idle" /\ target = <<>> /\ recursive = FALSE
  /\ todo = <<>> /\ entries = <<>>
  /\ shown = <<>> /\ answer = "none" /\ prepared = <<>> /\ truth = {}
  /\ pending = <<>> /\ deleted = <<>> /\ anchor = 0 /\ report = NoReport

Done == phase = "ended" /\ UNCHANGED vars

Next ==
  \/ \E path \in Targets, all \in BOOLEAN : Call(path, all)
  \/ Visit \/ Hash \/ List \/ PrepareFails
  \/ Check \/ Recheck \/ \E says \in {"yes", "no"} : Answer(says)
  \/ Confirm \/ Changed
  \/ Aim \/ Look \/ Unlink \/ RemoveFails \/ Finish
  \/ \E path \in Places : Write(path) \/ Take(path)
  \/ \E path \in Places, kind \in {"file", "symlink", "directory"} : Put(path, kind)
  \/ Done

Spec == Init /\ [][Next]_vars

-----------------------------------------------------------------------------
(* What is expected of it *)

SnapshotEntries == [path : Places, kind : Kinds, version : [inode : Inodes, stamp : Nat]]
Snapshots == Seq(SnapshotEntries)

\* The variables have their types.
TypeInvariant ==
  /\ node \in [Inodes -> [kind : Kinds, stamp : Nat, kids : [NameSet -> Inodes]]]
  /\ fresh \in 8 .. 8 + 2 * MaxEdits /\ edits \in 0 .. MaxEdits
  /\ phase \in {"idle", "check", "ask", "recheck", "confirm", "aim", "look", "unlink", "ended"}
  /\ target \in Targets \union {<<>>} /\ recursive \in BOOLEAN
  /\ entries \in Snapshots /\ shown \in Snapshots /\ prepared \in Snapshots
  /\ truth \subseteq SnapshotEntries
  /\ answer \in {"none", "yes", "no"}
  /\ pending \in Snapshots /\ deleted \in Seq(Places) /\ anchor \in Inodes
  /\ removed \subseteq [path : Places, version : [inode : Inodes, stamp : Nat], parent : Inodes]
  /\ report.ended \in {"no", "refused", "declined", "deleted", "interrupted"}

Removing == phase \in {"aim", "look", "unlink"} \/ removed # {}

\* A deletion that begins has before it what the tree was at one moment: two walks of the
\* entries, one after the other and neither of them atomic, that agree although others change
\* files between and during them. Each entry is in it once, and after the directory it is
\* in, which is to be removed after it (workspace.py:255-258).
SnapshotWasTrue ==
  Removing =>
    /\ ToSet(prepared) = truth
    /\ \A k, m \in 1 .. Len(prepared) : prepared[k].path = prepared[m].path => k = m
    /\ \A k \in 1 .. Len(prepared) : prepared[k].path # target =>
         \E m \in 1 .. k - 1 : prepared[m].path = Front(prepared[k].path)

\* More than one entry is removed only after the user agreed to exactly these entries, and
\* what is removed is among them (permissions.py:39-56).
ConfirmedExactly ==
  Removing /\ NeedsConfirmation(prepared) => answer = "yes" /\ shown = prepared

\* Every entry below the target is removed from the very directory it was seen in, wherever
\* others have moved that directory or what they have put in its place (workspace.py:239-251).
FromInspectedDirectory ==
  \A r \in removed :
    r.path # target => \E k \in 1 .. Len(prepared) :
      prepared[k].path = Front(r.path) /\ prepared[k].version.inode = r.parent

\* Nothing below a denied path is removed, nor anything that holds such a path (workspace.py:184).
DeniedKept ==
  \A r \in removed : ~ \E p \in Denied : \E k \in 1 .. Len(prepared) : IsPrefix(p, prepared[k].path)

\* The report is what happened: the entries it says were deleted were, in the order of the
\* snapshot reversed, those it says remain were not, together they are the snapshot, and an
\* error without them means that nothing was deleted (workspace.py:280-285).
ReportTrue ==
  phase = "ended" =>
    /\ ToSet(report.deleted) = {r.path : r \in removed}
    /\ removed # {} => report.deleted \o report.remaining = Reverse(Paths(prepared))
    /\ report.ended = "deleted" => report.remaining = <<>>
===============================================================================
