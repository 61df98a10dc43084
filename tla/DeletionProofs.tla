---------------------------- MODULE DeletionProofs ----------------------------
(* What the deletion of a directory tree keeps, for every set of targets and of *)
(* denied paths and any number of changes by other programs: the walk of         *)
(* prepare_delete saw the tree of one moment, and what is removed is of it.      *)
EXTENDS MCParts, SequenceTheorems, FiniteSetTheorems, TLAPS

\* Only a directory has entries. What it binds is younger than itself, and is bound there
\* only.
Bindings ==
  \A i \in D!Inodes, n \in D!NameSet : node[i].kids[n] # 0 =>
    /\ node[i].kind = "directory"
    /\ i < node[i].kids[n] /\ 3 <= node[i].kids[n] /\ node[i].kids[n] < fresh
    /\ \A h \in D!Inodes, m \in D!NameSet : node[h].kids[m] = node[i].kids[n] => h = i /\ m = n

\* No inode, the root, and what there is outside of it.
Anchored ==
  /\ node[0].kind = "nothing" /\ node[D!Root].kind = "directory"
  /\ node[D!Elsewhere].kind = "directory" /\ node[7].kind = "file"
  /\ \A n \in D!NameSet : node[D!Elsewhere].kids[n] # 0 => n = "x" /\ node[D!Elsewhere].kids[n] = 7

\* A name below the root is one of Places, and those at the bottom are no directories.
Levels == D!Places \union {<<>>}
LevelsKept ==
  \A p \in Levels :
    /\ \A n \in D!NameSet : D!Child(D!Opened(p), n) # 0 => Append(p, n) \in D!Places
    /\ Len(p) = 3 => node[D!Opened(p)].kind # "directory"

NodeTyped ==
  /\ node \in [D!Inodes -> [kind : D!Kinds, stamp : Nat, kids : [D!NameSet -> D!Inodes]]]
  /\ edits \in 0 .. MaxEdits /\ fresh \in 8 .. 8 + 2 * edits

NodeInv == NodeTyped /\ Bindings /\ Anchored /\ LevelsKept

\* An entry as it was noted in a walk, and whether it still is as it was.
Seen(e) ==
  /\ e \in D!SnapshotEntries
  /\ e.version.inode # 0 /\ e.version.inode < fresh
  /\ e.version.stamp <= node[e.version.inode].stamp
  /\ e.kind = node[e.version.inode].kind
  /\ D!IsPrefix(target, e.path)
Current(e) == D!Version(D!Opened(e.path)) = e.version

\* An inode was never in a directory but this one.
OnlyIn(i, dir) == \A h \in D!Inodes, m \in D!NameSet : node[h].kids[m] = i => h = dir

\* A path that was visited, or is to be.
Reached(p) ==
  \/ \E k \in 1 .. Len(entries) : entries[k].path = p
  \/ \E k \in 1 .. Len(todo) : todo[k].step = "visit" /\ todo[k].path = p
Below(q, p) == q = D!Front(p) \/ q = D!Front(D!Front(p))

Works == [step : {"visit", "hash", "list", "still"}, path : D!Places,
          version : [inode : D!Inodes, stamp : Nat]]

\* The entry of the directory that a step of the walk is about.
DirectoryOf(e, work) == e.path = work.path /\ e.version = work.version /\ e.kind = "directory"

\* The steps to come. A directory that is listed, or looked at again, was visited; it is
\* looked at again after all that is in it.
StepKept(k) ==
  /\ D!IsPrefix(target, todo[k].path)
  /\ todo[k].step \in {"list", "still"} =>
       Len(todo[k].path) < 3 /\ \E j \in 1 .. Len(entries) : DirectoryOf(entries[j], todo[k])
  /\ todo[k].step = "visit" /\ todo[k].path # target =>
       \E m \in k + 1 .. Len(todo) : todo[m].step = "still" /\ todo[m].path = D!Front(todo[k].path)
StepsKept == todo \in Seq(Works) /\ \A k \in 1 .. Len(todo) : StepKept(k)

\* The entries. Each comes after the directory that it is in, which is the one it was found
\* in, unless that has gone and will be missed when it is looked at again.
ToMiss(d) ==
  ~Current(d) /\ \E m \in 1 .. Len(todo) : todo[m].step = "still" /\ DirectoryOf(d, todo[m])
FoundIn(e, d) == OnlyIn(e.version.inode, d.version.inode) \/ ToMiss(d)
ParentKept(k) ==
  entries[k].path # target =>
    \E j \in 1 .. k - 1 :
      /\ entries[j].path = D!Front(entries[k].path) /\ entries[j].kind = "directory"
      /\ FoundIn(entries[k], entries[j])
ParentsKept == \A k \in 1 .. Len(entries) : ParentKept(k)

\* A directory that is as it was has nothing that was not reached, once it was listed.
ToList(p) == \E m \in 1 .. Len(todo) : todo[m].step = "list" /\ todo[m].path = p
Exhausted(d) ==
  Current(d) => \A n \in D!NameSet : D!Child(D!Opened(d.path), n) # 0 => Reached(Append(d.path, n))
AllReached ==
  /\ Reached(target)
  /\ \A j \in 1 .. Len(entries) :
       entries[j].kind = "directory" => ToList(entries[j].path) \/ Exhausted(entries[j])

\* Nothing is reached twice: what is to be visited or listed has nothing below it yet.
OnceKept(k) ==
  todo[k].step \in {"visit", "list"} =>
    /\ \A p \in D!Places : Reached(p) => ~Below(todo[k].path, p)
    /\ todo[k].step = "visit" => \A j \in 1 .. Len(entries) : entries[j].path # todo[k].path
    /\ \A m \in 1 .. Len(todo) : todo[m].step = todo[k].step /\ todo[m].path = todo[k].path => m = k
ReachedOnce ==
  /\ \A j, k \in 1 .. Len(entries) : entries[j].path = entries[k].path => j = k
  /\ \A k \in 1 .. Len(todo) : OnceKept(k)

WalkInv ==
  /\ \A k \in 1 .. Len(entries) : Seen(entries[k])
  /\ StepsKept /\ ParentsKept /\ AllReached /\ ReachedOnce

\* The snapshot that execute_prepared is given, and the tree as it was then.
AnchorKept(k) ==
  prepared[k].path # target =>
    \E j \in 1 .. k - 1 :
      /\ prepared[j].path = D!Front(prepared[k].path)
      /\ OnlyIn(prepared[k].version.inode, prepared[j].version.inode)
PreparedKept ==
  /\ \A k \in 1 .. Len(prepared) : Seen(prepared[k]) /\ (prepared[k] \in truth \/ ~Current(prepared[k]))
  /\ \A k \in 1 .. Len(prepared) : AnchorKept(k)
  /\ \A j, k \in 1 .. Len(prepared) : prepared[j].path = prepared[k].path => j = k

TruthKept ==
  /\ \E k \in 1 .. Len(prepared) : prepared[k].path = target
  /\ \A k \in 1 .. Len(prepared) : prepared[k].kind = "directory" /\ prepared[k] \in truth =>
       \A t \in truth : t.path # target /\ D!Front(t.path) = prepared[k].path =>
         \E m \in 1 .. Len(prepared) : prepared[m].path = t.path
  /\ \A t, u \in truth : t.path = u.path => t = u
  /\ \A t \in truth :
       /\ t \in D!SnapshotEntries /\ D!IsPrefix(target, t.path)
       /\ t.path # target => \E u \in truth : u.path = D!Front(t.path) /\ u.kind = "directory"

\* What the last walk finds as it is in the snapshot was so in between.
Found ==
  \A k \in 1 .. Len(entries) : entries[k] \in D!ToSet(prepared) => entries[k] \in truth

\* An entry that was looked at is in the directory that it was seen in.
Awaits ==
  phase = "unlink" /\ Head(pending).path # target =>
    \E j \in 1 .. Len(prepared) :
      prepared[j].path = D!Front(Head(pending).path) /\ prepared[j].version.inode = anchor

\* What is deleted, and what is to be.
Removals ==
  /\ deleted \o D!Paths(pending) = D!Reverse(D!Paths(prepared))
  /\ D!ToSet(deleted) = {r.path : r \in removed}
  /\ \A k \in 1 .. Len(pending) : \E m \in 1 .. Len(prepared) : pending[k] = prepared[m]
  /\ phase \in {"look", "unlink"} => pending # <<>>
  /\ Awaits

CallKept ==
  /\ NodeInv /\ D!TypeInvariant
  /\ phase # "idle" => target \in Targets
  /\ \A k \in 1 .. Len(prepared) : ~D!Matches(prepared[k].path, Denied)
  /\ \A k \in 1 .. Len(entries) : ~D!Matches(entries[k].path, Denied)
  /\ phase \in {"idle", "check", "ask", "recheck", "confirm"} => removed = {}

\* What RemovalAuthorized needs to be inductive.
DeletionInv ==
  /\ CallKept
  /\ D!Preparing => WalkInv
  /\ phase \in {"confirm", "aim", "look", "unlink"} => PreparedKept
  /\ phase = "confirm" => TruthKept /\ Found
  /\ phase \in {"aim", "look", "unlink"} => Removals
  /\ phase = "confirm" \/ D!Removing
       => (D!NeedsConfirmation(prepared) => answer = "yes" /\ shown = prepared)
  /\ D!SnapshotWasTrue /\ D!FromInspectedDirectory /\ D!ReportTrue


\* What the constants are.
LEMMA DeletionConstants ==
  /\ Targets \subseteq D!Places /\ MaxEdits \in Nat
  /\ D!Inodes \subseteq Nat /\ 0 \in D!Inodes /\ 1 \in D!Inodes /\ 2 \in D!Inodes /\ 7 \in D!Inodes
BY PartsAssumption DEF D!WorkspaceDeleteAssumption, D!Inodes

\* The inode that a path leads to next, where what is of one of the kinds is followed.
NextInode(i, n, follows) == IF node[D!Child(i, n)].kind \in follows THEN D!Elsewhere ELSE D!Child(i, n)

\* What Opened and Resolved unfold to, over the sets of places of a path.
Before(s) == s \ {D!Max(s)}
Walks(f, path, follows, n) ==
  f = [s \in SUBSET (1 .. n) |-> IF s = {} THEN D!Root ELSE NextInode(f[Before(s)], path[D!Max(s)], follows)]

\* The greatest of a few places.
LEMMA GreatestPlace ==
  ASSUME NEW n \in 0 .. 3, NEW s \in SUBSET (1 .. n), s # {}
  PROVE  D!Max(s) \in s /\ (\A k \in s : D!Max(s) >= k) /\ Before(s) \in SUBSET (1 .. n - 1)
<1>1. \E k \in s : \A m \in s : k >= m
  <2>1. \A k \in s : k = 1 \/ k = 2 \/ k = 3
    OBVIOUS
  <2>2. CASE 3 \in s
    BY <2>1, <2>2
  <2>3. CASE 3 \notin s /\ 2 \in s
    <3>1. \A m \in s : 2 >= m
      BY <2>1, <2>3
    <3> QED BY <2>3, <3>1
  <2>4. CASE 3 \notin s /\ 2 \notin s
    <3>1. PICK k \in s : TRUE
      OBVIOUS
    <3>2. \A m \in s : m = 1
      BY <2>1, <2>4
    <3>3. k >= 1 /\ k = 1
      BY <3>1, <3>2
    <3> QED BY <3>1, <3>2, <3>3
  <2> QED BY <2>2, <2>3, <2>4
<1>2. D!Max(s) \in s /\ \A k \in s : D!Max(s) >= k
  BY <1>1, Zenon DEF D!Max
<1>3. \A k \in s : k # D!Max(s) => k \in 1 .. n - 1
  <2>1. \A k \in s : k \in 1 .. n
    OBVIOUS
  <2>2. \A k, m \in 1 .. n : m >= k /\ k # m => k \in 1 .. n - 1
    OBVIOUS
  <2> QED BY <1>2, <2>1, <2>2
<1> QED BY <1>2, <1>3 DEF Before

\* A fold over the first places of a path can be continued by one.
LEMMA WalksGrow ==
  ASSUME NEW path, NEW follows, NEW n \in 1 .. 3, NEW f, Walks(f, path, follows, n - 1)
  PROVE  \E g : Walks(g, path, follows, n)
<1> DEFINE Rule(k, s) == IF s = {} THEN D!Root ELSE NextInode(k[Before(s)], path[D!Max(s)], follows)
           Less == SUBSET (1 .. n - 1)
           More == SUBSET (1 .. n)
           g == [s \in More |-> Rule(f, s)]
<1>1. \A s \in Less : f[s] = Rule(f, s)
  <2>1. f = [s \in Less |-> Rule(f, s)]
    BY DEF Walks
  <2> HIDE DEF Less, Rule
  <2> QED BY <2>1
<1>2. Less \subseteq More
  OBVIOUS
<1>3. \A s \in Less : g[s] = f[s]
  <2> HIDE DEF Less, More, Rule
  <2> QED BY <1>1, <1>2
<1>4. \A s \in More : s # {} => Before(s) \in Less
  BY GreatestPlace
<1>5. \A s \in More : Rule(g, s) = Rule(f, s)
  <2> HIDE DEF g, Less, More
  <2> QED BY <1>3, <1>4
<1>6. g = [s \in More |-> Rule(g, s)]
  <2>1. [s \in More |-> Rule(f, s)] = [s \in More |-> Rule(g, s)]
    <3> HIDE DEF Rule, More, g
    <3> QED BY <1>5
  <2> HIDE DEF Rule, More
  <2> QED BY <2>1
<1>7. Walks(g, path, follows, n)
  <2> HIDE DEF g
  <2> QED BY <1>6 DEF Walks
<1> QED BY <1>7

\* A path of up to three names has one.
LEMMA WalksExist ==
  ASSUME NEW path, NEW follows, NEW n \in 0 .. 3
  PROVE  \E f : Walks(f, path, follows, n)
<1>0. \E f : Walks(f, path, follows, 0)
  <2> DEFINE f == [s \in SUBSET (1 .. 0) |-> D!Root]
  <2>1. \A s \in SUBSET (1 .. 0) : s = {}
    OBVIOUS
  <2>2. Walks(f, path, follows, 0)
    BY <2>1 DEF Walks
  <2> QED BY <2>2
<1>1. \E f : Walks(f, path, follows, 1)
  BY <1>0, WalksGrow, 1 - 1 = 0
<1>2. \E f : Walks(f, path, follows, 2)
  BY <1>1, WalksGrow, 2 - 1 = 1
<1>3. \E f : Walks(f, path, follows, 3)
  BY <1>2, WalksGrow, 3 - 1 = 2
<1>4. n = 0 \/ n = 1 \/ n = 2 \/ n = 3
  OBVIOUS
<1> QED BY <1>0, <1>1, <1>2, <1>3, <1>4

\* It begins at the root.
LEMMA WholeBegin ==
  ASSUME NEW path, NEW follows, Len(path) \in 0 .. 3, NEW f, Walks(f, path, follows, Len(path))
  PROVE  f[1 .. 0] = D!Root
<1>3. PICK n \in 0 .. 3 : n = Len(path)
  OBVIOUS
<1>4. Walks(f, path, follows, n)
  BY <1>3
<1> DEFINE Dom == SUBSET (1 .. n)
<1>1. f = [s \in Dom |-> IF s = {} THEN D!Root ELSE NextInode(f[Before(s)], path[D!Max(s)], follows)]
  BY <1>4 DEF Walks
<1>2. 1 .. 0 \in Dom /\ 1 .. 0 = {}
  OBVIOUS
<1> HIDE DEF Dom
<1> QED BY <1>1, <1>2

\* It goes on from name to name.
LEMMA WholeNext ==
  ASSUME NEW path, NEW follows, Len(path) \in 0 .. 3, NEW f, Walks(f, path, follows, Len(path)),
         NEW k \in 1 .. 3, k <= Len(path)
  PROVE  f[1 .. k] = NextInode(f[1 .. k - 1], path[k], follows)
<1>5. PICK n \in 0 .. 3 : n = Len(path)
  OBVIOUS
<1>6. Walks(f, path, follows, n)
  BY <1>5
<1>7. k <= n
  BY <1>5
<1> DEFINE Dom == SUBSET (1 .. n)
<1>1. \A s \in Dom : f[s] = IF s = {} THEN D!Root ELSE NextInode(f[Before(s)], path[D!Max(s)], follows)
  <2>1. f = [s \in Dom |-> IF s = {} THEN D!Root ELSE NextInode(f[Before(s)], path[D!Max(s)], follows)]
    BY <1>6 DEF Walks
  <2> HIDE DEF Dom
  <2> QED BY <2>1
<1>2. 1 .. k \in Dom /\ 1 .. k # {} /\ 1 .. k \in SUBSET (1 .. 3)
  <2>1. 1 .. k \subseteq 1 .. n /\ 1 .. k \subseteq 1 .. 3
    BY <1>7
  <2>2. 1 \in 1 .. k
    OBVIOUS
  <2> QED BY <2>1, <2>2, Zenon
<1>3. D!Max(1 .. k) = k
  <2>1. D!Max(1 .. k) \in 1 .. k /\ \A m \in 1 .. k : D!Max(1 .. k) >= m
    BY <1>2, GreatestPlace, 3 \in 0 .. 3
  <2> QED BY <2>1
<1>4. Before(1 .. k) = 1 .. k - 1
  BY <1>3 DEF Before
<1> HIDE DEF Dom
<1> QED BY <1>1, <1>2, <1>3, <1>4

Unfolds(f, path, follows) ==
  /\ f[1 .. 0] = D!Root
  /\ \A k \in 1 .. 3 : k <= Len(path) => f[1 .. k] = NextInode(f[1 .. k - 1], path[k], follows)

\* A function that follows a path from its first name to its last is the walk along it.
LEMMA WholeWalk ==
  ASSUME NEW path, NEW follows, Len(path) \in 0 .. 3, NEW f, Walks(f, path, follows, Len(path))
  PROVE  Unfolds(f, path, follows)
<1>1. f[1 .. 0] = D!Root
  BY WholeBegin, SMT
<1>2. ASSUME NEW k \in 1 .. 3, k <= Len(path)
      PROVE  f[1 .. k] = NextInode(f[1 .. k - 1], path[k], follows)
  BY <1>2, WholeNext, Zenon
<1> QED BY <1>1, <1>2, Zenon DEF Unfolds


(* The paths. *)

\* The paths of the tree, one kind for each depth.
LEMMA PlaceCases ==
  ASSUME NEW p \in D!Places
  PROVE  \/ p = <<"d">>
         \/ \E n \in {"a", "b", "x"} : p = <<"d", n>>
         \/ \E n \in {"a", "b", "x"}, m \in {"n", "x"} : p = <<"d", n, m>>
BY DEF D!Places

\* Those paths are in the tree.
LEMMA PlacesThere ==
  /\ <<"d">> \in D!Places
  /\ \A k \in {"a", "b", "x"} : <<"d", k>> \in D!Places
  /\ \A k \in {"a", "b", "x"}, j \in {"n", "x"} : <<"d", k, j>> \in D!Places
<1>1. ASSUME NEW k \in {"a", "b", "x"}, NEW j \in {"n", "x"}
      PROVE  <<"d", k>> \in D!Places /\ <<"d", k, j>> \in D!Places /\ <<"d">> \in D!Places
  <2> DEFINE T == {{<<"d">>, <<"d", n>>, <<"d", n, m>>} : n \in {"a", "b", "x"}, m \in {"n", "x"}}
             U == {<<"d">>, <<"d", k>>, <<"d", k, j>>}
  <2>1. U \in T
    <3>1. \E n \in {"a", "b", "x"}, m \in {"n", "x"} : U = {<<"d">>, <<"d", n>>, <<"d", n, m>>}
      BY Zenon
    <3> HIDE DEF U
    <3> QED BY <3>1
  <2>2. <<"d", k>> \in U /\ <<"d", k, j>> \in U /\ <<"d">> \in U
    BY Zenon
  <2>3. D!Places = UNION T
    BY DEF D!Places
  <2> HIDE DEF T, U
  <2>4. U \subseteq D!Places
    BY <2>1, <2>3
  <2> QED BY <2>2, <2>4
<1>2. "a" \in {"a", "b", "x"} /\ "n" \in {"n", "x"}
  OBVIOUS
<1> QED BY <1>1, <1>2, Zenon

\* The path of an entry is that of its directory, and its name.
LEMMA PlaceShape ==
  ASSUME NEW p \in D!Places
  PROVE  /\ p \in Seq(D!NameSet) /\ Len(p) \in 1 .. 3
         /\ D!Front(p) \in Levels /\ Len(D!Front(p)) = Len(p) - 1
         /\ D!Last(p) \in D!NameSet /\ p = Append(D!Front(p), D!Last(p))
<1>1. CASE p = <<"d">>
  <2>1. p \in Seq(D!NameSet) /\ Len(p) = 1
    BY <1>1 DEF D!NameSet
  <2>2. D!Front(p) = <<>> /\ D!Last(p) = "d"
    BY <1>1 DEF D!Front, D!Last
  <2> QED BY <1>1, <2>1, <2>2 DEF Levels, D!NameSet
<1>2. CASE \E n \in {"a", "b", "x"} : p = <<"d", n>>
  <2>1. PICK n \in {"a", "b", "x"} : p = <<"d", n>>
    BY <1>2
  <2>2. p \in Seq(D!NameSet) /\ Len(p) = 2
    BY <2>1 DEF D!NameSet
  <2>3. D!Front(p) = <<"d">> /\ D!Last(p) = n
    <3>1. D!Front(p) \in Seq(D!NameSet) /\ Len(D!Front(p)) = 1 /\ D!Front(p)[1] = "d"
      BY <2>1, <2>2, SubSeqProperties DEF D!Front
    <3> QED BY <2>1, <2>2, <3>1 DEF D!Last
  <2>4. D!Front(p) \in Levels
    BY <2>1, <2>3, PlacesThere, Zenon DEF Levels
  <2>5. D!Last(p) \in D!NameSet /\ Len(D!Front(p)) = Len(p) - 1 /\ Len(p) \in 1 .. 3
    <3>1. D!Last(p) \in D!NameSet
      BY <2>1, <2>3 DEF D!NameSet
    <3>2. Len(D!Front(p)) = 1
      BY <2>3
    <3> QED BY <2>2, <3>1, <3>2
  <2>6. p = Append(D!Front(p), D!Last(p))
    BY <2>1, <2>3, SMTT(30)
  <2> QED BY <2>2, <2>4, <2>5, <2>6
<1>3. CASE \E n \in {"a", "b", "x"}, m \in {"n", "x"} : p = <<"d", n, m>>
  <2>1. PICK n \in {"a", "b", "x"}, m \in {"n", "x"} : p = <<"d", n, m>>
    BY <1>3
  <2>2. p \in Seq(D!NameSet) /\ Len(p) = 3
    BY <2>1 DEF D!NameSet
  <2>6. D!Front(p) \in Seq(D!NameSet) /\ Len(D!Front(p)) = 2 /\ D!Front(p)[1] = "d" /\ D!Front(p)[2] = n
    BY <2>1, <2>2, SubSeqProperties DEF D!Front
  <2>3. D!Front(p) = <<"d", n>> /\ D!Last(p) = m
    BY <2>1, <2>2, <2>6 DEF D!Last
  <2>4. D!Front(p) \in Levels
    <3> DEFINE q == <<"d", n>>
    <3>1. q \in D!Places
      BY PlacesThere, Zenon
    <3>2. D!Front(p) = q
      BY <2>3
    <3> HIDE DEF q
    <3> QED BY <3>1, <3>2 DEF Levels
  <2>5. p = Append(D!Front(p), D!Last(p))
    <3>1. Append(D!Front(p), D!Last(p)) \in Seq(D!NameSet) /\ Len(Append(D!Front(p), D!Last(p))) = 3
      <4>1. n \in D!NameSet /\ m \in D!NameSet /\ "d" \in D!NameSet
        BY DEF D!NameSet
      <4>2. \A T, u, v, w : u \in T /\ v \in T /\ w \in T
                         => Append(<<u, v>>, w) \in Seq(T) /\ Len(Append(<<u, v>>, w)) = 3
        OBVIOUS
      <4>3. Append(<<"d", n>>, m) \in Seq(D!NameSet) /\ Len(Append(<<"d", n>>, m)) = 3
        BY <4>1, <4>2, ZenonT(30)
      <4> QED BY <2>3, <4>3, Zenon
    <3>2. \A k \in 1 .. 3 : Append(D!Front(p), D!Last(p))[k] = p[k]
      BY <2>1, <2>3, SMTT(30)
    <3> QED BY <2>2, <3>1, <3>2, SeqEqual
  <2> QED BY <2>1, <2>2, <2>3, <2>4, <2>5 DEF D!NameSet
<1> QED BY <1>1, <1>2, <1>3, PlaceCases

\* The path of a name below one of the tree.
LEMMA BelowLevel ==
  ASSUME NEW p \in Levels, NEW n \in D!NameSet
  PROVE  /\ p \in Seq(D!NameSet) /\ Len(p) \in 0 .. 3
         /\ Append(p, n) \in Seq(D!NameSet) /\ Len(Append(p, n)) = Len(p) + 1
         /\ D!Front(Append(p, n)) = p /\ D!Last(Append(p, n)) = n
<1>1. p \in Seq(D!NameSet) /\ Len(p) \in 0 .. 3
  <2>1. CASE p \in D!Places
    BY <2>1, PlaceShape
  <2>2. CASE p = <<>>
    BY <2>2
  <2> QED BY <2>1, <2>2 DEF Levels
<1>2. Append(p, n) \in Seq(D!NameSet) /\ Len(Append(p, n)) = Len(p) + 1 /\ D!Last(Append(p, n)) = n
  BY <1>1 DEF D!Last
<1>3. D!Front(Append(p, n)) = p
  BY <1>1 DEF D!Front
<1> QED BY <1>1, <1>2, <1>3

\* An entry that is not the root of a subtree is in a directory of it.
LEMMA InSubtree ==
  ASSUME NEW p \in D!Places, NEW q \in D!Places, D!IsPrefix(p, q), q # p
  PROVE  D!Front(q) \in D!Places /\ D!IsPrefix(p, D!Front(q)) /\ Len(p) < Len(q)
<1>1. /\ p \in Seq(D!NameSet) /\ Len(p) \in 1 .. 3
      /\ q \in Seq(D!NameSet) /\ Len(q) \in 1 .. 3 /\ D!Front(q) \in Levels /\ Len(D!Front(q)) = Len(q) - 1
  BY PlaceShape
<1>2. Len(p) <= Len(q) /\ SubSeq(p, 1, Len(p)) = SubSeq(q, 1, Len(p))
  BY DEF D!IsPrefix
<1>3. Len(p) # Len(q)
  <2> SUFFICES ASSUME Len(p) = Len(q) PROVE FALSE
    OBVIOUS
  <2>1. SubSeq(p, 1, Len(p)) = p /\ SubSeq(q, 1, Len(q)) = q
    BY <1>1, SubSeqFull
  <2> QED BY <1>2, <2>1
<1>4. Len(p) <= Len(D!Front(q))
  BY <1>1, <1>2, <1>3
<1>5. SubSeq(D!Front(q), 1, Len(p)) = SubSeq(q, 1, Len(p))
  BY <1>1, <1>4 DEF D!Front
<1>6. D!IsPrefix(p, D!Front(q))
  BY <1>2, <1>4, <1>5 DEF D!IsPrefix
<1>7. D!Front(q) # <<>>
  BY <1>1, <1>4
<1> QED BY <1>1, <1>2, <1>3, <1>6, <1>7 DEF Levels

\* What is in a directory of a subtree is in it, and below its root.
LEMMA SubtreeGoesDown ==
  ASSUME NEW p \in D!Places, NEW q \in D!Places, NEW n \in D!NameSet, D!IsPrefix(p, q)
  PROVE  D!IsPrefix(p, Append(q, n)) /\ Append(q, n) # p
<1>1. /\ p \in Seq(D!NameSet) /\ Len(p) \in 1 .. 3
      /\ q \in Seq(D!NameSet) /\ Len(q) \in 1 .. 3
  BY PlaceShape
<1>2. Len(p) <= Len(q) /\ SubSeq(p, 1, Len(p)) = SubSeq(q, 1, Len(p))
  BY DEF D!IsPrefix
<1>3. Append(q, n) \in Seq(D!NameSet) /\ Len(Append(q, n)) = Len(q) + 1
  BY <1>1
<1>4. SubSeq(Append(q, n), 1, Len(p)) = SubSeq(q, 1, Len(p))
  BY <1>1, <1>2, <1>3
<1> QED BY <1>1, <1>2, <1>3, <1>4 DEF D!IsPrefix

\* A fold of at most three places is that of its unfolding.
LEMMA OpenedFold ==
  ASSUME NEW p \in Seq(D!NameSet), Len(p) \in 0 .. 3
  PROVE  \E f : Unfolds(f, p, {}) /\ D!Opened(p) = f[1 .. Len(p)]
<1> DEFINE f == CHOOSE g : Walks(g, p, {}, Len(p))
<1>1. Walks(f, p, {}, Len(p))
  BY WalksExist
<1>2. \A i, n : NextInode(i, n, {}) = D!Child(i, n)
  BY DEF NextInode
<1>3. DOMAIN p = 1 .. Len(p)
  OBVIOUS
<1>4. D!Opened(p) = f[DOMAIN p]
  <2> DEFINE e(g) == [s \in SUBSET (1 .. Len(p)) |->
                        IF s = {} THEN D!Root ELSE NextInode(g[Before(s)], p[D!Max(s)], {})]
             d(g) == [s \in SUBSET (1 .. Len(p)) |->
                        IF s = {} THEN D!Root ELSE D!Child(g[s \ {D!Max(s)}], p[D!Max(s)])]
  <2>1. \A g : e(g) = d(g)
    BY <1>2 DEF Before
  <2>2. D!Opened(p) = (CHOOSE g : g = d(g))[DOMAIN p]
    BY <1>3, Zenon DEF D!Opened, D!FoldLeft, D!MapThenFoldSet
  <2>3. f = CHOOSE g : g = e(g)
    BY DEF Walks
  <2> HIDE DEF f, d, e
  <2> QED BY <2>1, <2>2, <2>3
<1>5. Unfolds(f, p, {})
  <2> HIDE DEF f
  <2> QED BY <1>1, WholeWalk
<1> QED BY <1>3, <1>4, <1>5

\* The same for a walk that follows links.
LEMMA ResolvedFold ==
  ASSUME NEW p \in Seq(D!NameSet), Len(p) \in 0 .. 3
  PROVE  \E f : Unfolds(f, p, {"symlink"}) /\ D!Resolved(p) = f[1 .. Len(p)]
<1> DEFINE f == CHOOSE g : Walks(g, p, {"symlink"}, Len(p))
<1>1. Walks(f, p, {"symlink"}, Len(p))
  BY WalksExist
<1>2. \A i, n : NextInode(i, n, {"symlink"}) = D!Follow(D!Child(i, n))
  BY DEF NextInode, D!Follow
<1>3. DOMAIN p = 1 .. Len(p)
  OBVIOUS
<1>4. D!Resolved(p) = f[DOMAIN p]
  <2> DEFINE e(g) == [s \in SUBSET (1 .. Len(p)) |->
                        IF s = {} THEN D!Root ELSE NextInode(g[Before(s)], p[D!Max(s)], {"symlink"})]
             d(g) == [s \in SUBSET (1 .. Len(p)) |->
                        IF s = {} THEN D!Root ELSE D!Follow(D!Child(g[s \ {D!Max(s)}], p[D!Max(s)]))]
  <2>1. \A g : e(g) = d(g)
    BY <1>2 DEF Before
  <2>2. D!Resolved(p) = (CHOOSE g : g = d(g))[DOMAIN p]
    BY <1>3, Zenon DEF D!Resolved, D!FoldLeft, D!MapThenFoldSet
  <2>3. f = CHOOSE g : g = e(g)
    BY DEF Walks
  <2> HIDE DEF f, d, e
  <2> QED BY <2>1, <2>2, <2>3
<1>5. Unfolds(f, p, {"symlink"})
  <2> HIDE DEF f
  <2> QED BY <1>1, WholeWalk
<1> QED BY <1>3, <1>4, <1>5

\* A path, and what comes before its last name.
Extends(p, q) ==
  /\ Len(p) \in 1 .. 3 /\ Len(q) = Len(p) - 1
  /\ \A k \in 1 .. Len(q) : q[k] = p[k]

\* The last name of a path goes on from where the others lead.
LEMMA WalkLast ==
  ASSUME NEW p, NEW q, Extends(p, q), NEW follows, NEW f, Unfolds(f, p, follows), NEW g,
           Unfolds(g, q, follows)
  PROVE  f[1 .. Len(p)] = NextInode(g[1 .. Len(q)], p[Len(p)], follows)
<1>1. /\ Len(p) \in 1 .. 3 /\ Len(q) = Len(p) - 1
      /\ \A k \in 1 .. Len(q) : q[k] = p[k]
  BY DEF Extends
<1>2. Len(q) \in 0 .. 3 /\ Len(p) \in 0 .. 3
  BY <1>1
<1>3. f[1 .. 0] = D!Root /\ g[1 .. 0] = D!Root
  BY DEF Unfolds
<1>4. \A k \in 1 .. 3 : k <= Len(p) => f[1 .. k] = NextInode(f[1 .. k - 1], p[k], follows)
  BY DEF Unfolds
<1>5. \A k \in 1 .. 3 : k <= Len(q) => g[1 .. k] = NextInode(g[1 .. k - 1], p[k], follows)
  <2>1. \A k \in 1 .. 3 : k <= Len(q) => g[1 .. k] = NextInode(g[1 .. k - 1], q[k], follows)
    BY DEF Unfolds
  <2>2. \A k \in 1 .. 3 : k <= Len(q) => q[k] = p[k]
    BY <1>1
  <2> QED BY <2>1, <2>2
<1>6. Len(q) >= 1 => f[1 .. 1] = g[1 .. 1]
  BY <1>1, <1>3, <1>4, <1>5, 1 - 1 = 0
<1>7. Len(q) >= 2 => f[1 .. 2] = g[1 .. 2]
  <2> SUFFICES ASSUME Len(q) >= 2 PROVE f[1 .. 2] = g[1 .. 2]
    OBVIOUS
  <2>1. 2 \in 1 .. 3 /\ 2 <= Len(p) /\ 2 <= Len(q) /\ 2 - 1 = 1
    BY <1>1
  <2>2. f[1 .. 1] = g[1 .. 1]
    BY <1>6
  <2> QED BY <1>4, <1>5, <2>1, <2>2
<1>8. f[1 .. Len(q)] = g[1 .. Len(q)]
  <2>1. Len(q) = 0 \/ Len(q) = 1 \/ Len(q) = 2
    BY <1>1
  <2>2. CASE Len(q) = 0
    BY <1>3, <2>2
  <2>3. CASE Len(q) = 1
    BY <1>6, <2>3
  <2>4. CASE Len(q) = 2
    BY <1>7, <2>4
  <2> QED BY <2>1, <2>2, <2>3, <2>4
<1>9. f[1 .. Len(p)] = NextInode(f[1 .. Len(p) - 1], p[Len(p)], follows)
  <2>1. Len(p) \in 1 .. 3 /\ Len(p) <= Len(p)
    BY <1>1
  <2> QED BY <1>4, <2>1, Zenon
<1> QED BY <1>1, <1>8, <1>9

\* An entry is reached from the inode of its directory.
PathsOpen ==
  /\ D!Opened(<<>>) = D!Root
  /\ \A p \in D!Places : D!Opened(p) = D!Child(D!Opened(D!Front(p)), D!Last(p))
PathsResolve ==
  /\ D!Resolved(<<>>) = D!Root
  /\ \A p \in D!Places : D!Resolved(p) = D!Follow(D!Child(D!Resolved(D!Front(p)), D!Last(p)))

\* What is opened below a directory is what that directory binds, in every state.
LEMMA OpenedSteps == PathsOpen
<1>1. D!Opened(<<>>) = D!Root
  <2>1. <<>> \in Seq(D!NameSet) /\ Len(<<>>) = 0 /\ 0 \in 0 .. 3
    OBVIOUS
  <2>2. PICK f : Unfolds(f, <<>>, {}) /\ D!Opened(<<>>) = f[1 .. Len(<<>>)]
    BY <2>1, OpenedFold
  <2>3. f[1 .. 0] = D!Root
    BY <2>2 DEF Unfolds
  <2> QED BY <2>1, <2>2, <2>3
<1>2. ASSUME NEW p \in D!Places
      PROVE  D!Opened(p) = D!Child(D!Opened(D!Front(p)), D!Last(p))
  <2>1. /\ p \in Seq(D!NameSet) /\ Len(p) \in 0 .. 3 /\ Len(p) \in 1 .. 3
        /\ D!Front(p) \in Seq(D!NameSet) /\ Len(D!Front(p)) \in 0 .. 3 /\ Len(D!Front(p)) = Len(p) - 1
        /\ \A k \in 1 .. Len(D!Front(p)) : D!Front(p)[k] = p[k]
    BY PlaceShape DEF D!Front
  <2>0. Extends(p, D!Front(p))
    BY <2>1 DEF Extends
  <2>2. PICK f : Unfolds(f, p, {}) /\ D!Opened(p) = f[1 .. Len(p)]
    BY <2>1, OpenedFold
  <2>3. PICK g : Unfolds(g, D!Front(p), {}) /\ D!Opened(D!Front(p)) = g[1 .. Len(D!Front(p))]
    BY <2>1, OpenedFold
  <2>4. D!Opened(p) = NextInode(D!Opened(D!Front(p)), D!Last(p), {})
    <3>1. f[1 .. Len(p)] = NextInode(g[1 .. Len(D!Front(p))], p[Len(p)], {})
      BY <2>0, <2>2, <2>3, WalkLast
    <3> QED BY <2>2, <2>3, <3>1 DEF D!Last
  <2> QED BY <2>4 DEF NextInode
<1> QED BY <1>1, <1>2 DEF PathsOpen

\* So is what a name leads to, links followed.
LEMMA ResolvedSteps == PathsResolve
<1>1. D!Resolved(<<>>) = D!Root
  <2>1. <<>> \in Seq(D!NameSet) /\ Len(<<>>) = 0 /\ 0 \in 0 .. 3
    OBVIOUS
  <2>2. PICK f : Unfolds(f, <<>>, {"symlink"}) /\ D!Resolved(<<>>) = f[1 .. Len(<<>>)]
    BY <2>1, ResolvedFold
  <2>3. f[1 .. 0] = D!Root
    BY <2>2 DEF Unfolds
  <2> QED BY <2>1, <2>2, <2>3
<1>2. ASSUME NEW p \in D!Places
      PROVE  D!Resolved(p) = D!Follow(D!Child(D!Resolved(D!Front(p)), D!Last(p)))
  <2>1. /\ p \in Seq(D!NameSet) /\ Len(p) \in 0 .. 3 /\ Len(p) \in 1 .. 3
        /\ D!Front(p) \in Seq(D!NameSet) /\ Len(D!Front(p)) \in 0 .. 3 /\ Len(D!Front(p)) = Len(p) - 1
        /\ \A k \in 1 .. Len(D!Front(p)) : D!Front(p)[k] = p[k]
    BY PlaceShape DEF D!Front
  <2>0. Extends(p, D!Front(p))
    BY <2>1 DEF Extends
  <2>2. PICK f : Unfolds(f, p, {"symlink"}) /\ D!Resolved(p) = f[1 .. Len(p)]
    BY <2>1, ResolvedFold
  <2>3. PICK g : Unfolds(g, D!Front(p), {"symlink"})
                 /\ D!Resolved(D!Front(p)) = g[1 .. Len(D!Front(p))]
    BY <2>1, ResolvedFold
  <2>4. D!Resolved(p) = NextInode(D!Resolved(D!Front(p)), D!Last(p), {"symlink"})
    <3>1. f[1 .. Len(p)] = NextInode(g[1 .. Len(D!Front(p))], p[Len(p)], {"symlink"})
      BY <2>0, <2>2, <2>3, WalkLast
    <3> QED BY <2>2, <2>3, <3>1 DEF D!Last
  <2> QED BY <2>4 DEF NextInode, D!Follow
<1> QED BY <1>1, <1>2 DEF PathsResolve

\* After a step, too, what is opened below a directory is what the directory binds.
LEMMA OpenedStepsAfter == PathsOpen'
BY OpenedSteps, PTL


(* What the inodes of the paths are. *)

\* What holds of the root, and of a path if it holds of the directory it is in, holds of all.
LEMMA DownTheTree ==
  ASSUME NEW Deep, <<>> \in Deep, \A p \in D!Places : D!Front(p) \in Deep => p \in Deep
  PROVE  \A p \in Levels : p \in Deep
<1>1. \A p \in D!Places : D!Front(p) \in Levels /\ Len(D!Front(p)) = Len(p) - 1 /\ Len(p) \in 1 .. 3
  BY PlaceShape
<1>2. \A p \in Levels : Len(p) = 0 => p \in Deep
  BY <1>1 DEF Levels
<1>3. \A p \in Levels : Len(p) = 1 => p \in Deep
  BY <1>1, <1>2 DEF Levels
<1>4. \A p \in Levels : Len(p) = 2 => p \in Deep
  BY <1>1, <1>3 DEF Levels
<1>5. \A p \in Levels : Len(p) = 3 => p \in Deep
  BY <1>1, <1>4 DEF Levels
<1> QED BY <1>1, <1>2, <1>3, <1>4, <1>5 DEF Levels

\* What a name is bound to is what a directory leads to.
LEMMA Kid ==
  ASSUME NodeInv, NEW i \in D!Inodes, NEW n \in D!NameSet
  PROVE  D!Child(i, n) = node[i].kids[n] /\ D!Child(i, n) \in D!Inodes /\ D!Child(i, n) < fresh
<1>1. /\ node[i].kids[n] \in D!Inodes
      /\ node[i].kids[n] # 0 => node[i].kind = "directory" /\ node[i].kids[n] < fresh
      /\ 0 < fresh
  BY DEF NodeInv, NodeTyped, Bindings
<1> QED BY <1>1 DEF D!Child

\* What a path leads to, unless there is nothing: it is in a directory.
InDirectory(p) ==
  /\ D!Opened(p) >= 3
  /\ D!Opened(D!Front(p)) # 0 /\ D!Opened(D!Front(p)) \in D!Inodes
  /\ node[D!Opened(D!Front(p))].kind = "directory"
  /\ node[D!Opened(D!Front(p))].kids[D!Last(p)] = D!Opened(p)

\* A name below the root opens an inode that was given out, and none outside of the tree.
LEMMA OpenedTyped ==
  ASSUME NodeInv
  PROVE  \A p \in Levels :
           /\ D!Opened(p) \in D!Inodes /\ D!Opened(p) < fresh /\ D!Opened(p) # D!Elsewhere
           /\ p # <<>> => p \in D!Places /\ (D!Opened(p) = 0 \/ InDirectory(p))
<1> DEFINE Deep == {p \in Levels : D!Opened(p) \in D!Inodes}
<1>0. \A i \in D!Inodes : i \in Nat
  BY DeletionConstants
<1>1. D!Root \in D!Inodes /\ D!Root < fresh /\ D!Root # D!Elsewhere /\ D!Root # 0
  BY DeletionConstants DEF NodeInv, NodeTyped, D!Root, D!Elsewhere
<1>2. ASSUME NEW p \in D!Places, D!Opened(D!Front(p)) \in D!Inodes
      PROVE  /\ D!Opened(p) \in D!Inodes /\ D!Opened(p) < fresh
             /\ D!Opened(p) = 0 \/ InDirectory(p)
  <2>1. D!Opened(p) = D!Child(D!Opened(D!Front(p)), D!Last(p)) /\ D!Last(p) \in D!NameSet
    BY OpenedSteps, PlaceShape DEF PathsOpen
  <2>2. /\ D!Opened(p) \in D!Inodes /\ D!Opened(p) < fresh
        /\ D!Opened(p) = node[D!Opened(D!Front(p))].kids[D!Last(p)]
    BY <1>2, <2>1, Kid
  <2>3. CASE D!Opened(p) # 0
    <3>1. node[D!Opened(D!Front(p))].kind = "directory" /\ 3 <= D!Opened(p)
      BY <1>2, <2>1, <2>2, <2>3 DEF NodeInv, Bindings
    <3>2. D!Opened(D!Front(p)) # 0
      BY <3>1 DEF NodeInv, Anchored
    <3> QED BY <1>0, <1>2, <2>2, <3>1, <3>2 DEF InDirectory
  <2> QED BY <2>2, <2>3
<1>3. <<>> \in Deep
  BY <1>1, OpenedSteps DEF PathsOpen, Levels
<1>4. \A p \in D!Places : D!Front(p) \in Deep => p \in Deep
  BY <1>2 DEF Levels
<1>5. \A p \in Levels : p \in Deep
  <2> HIDE DEF Deep
  <2> QED BY <1>3, <1>4, DownTheTree
<1>6. ASSUME NEW p \in Levels
      PROVE  /\ D!Opened(p) \in D!Inodes /\ D!Opened(p) < fresh /\ D!Opened(p) # D!Elsewhere
             /\ p # <<>> => p \in D!Places /\ (D!Opened(p) = 0 \/ InDirectory(p))
  <2>1. CASE p = <<>>
    BY <1>1, <2>1, OpenedSteps DEF PathsOpen
  <2>2. CASE p # <<>>
    <3>1. p \in D!Places /\ D!Front(p) \in Levels
      BY <2>2, PlaceShape DEF Levels
    <3>2. D!Opened(D!Front(p)) \in D!Inodes
      BY <1>5, <3>1
    <3> QED BY <1>0, <1>2, <3>1, <3>2 DEF InDirectory, D!Elsewhere
  <2> QED BY <2>1, <2>2
<1> QED BY <1>6

\* An inode has one path.
LEMMA OnePath ==
  ASSUME NodeInv
  PROVE  \A p, q \in Levels : D!Opened(p) = D!Opened(q) /\ D!Opened(p) # 0 => p = q
<1> DEFINE Deep == {p \in Levels : \A q \in Levels : D!Opened(p) = D!Opened(q) /\ D!Opened(p) # 0 => p = q}
<1>1. \A p \in D!Places : p \in Levels /\ p # <<>> /\ D!Front(p) \in Levels
  BY PlaceShape DEF Levels
<1>2. \A q \in D!Places : D!Opened(q) # D!Root
  BY <1>1, OpenedTyped DEF InDirectory, D!Root
<1>3. <<>> \in Deep
  BY <1>2, OpenedSteps DEF PathsOpen, Levels
<1>4. ASSUME NEW p \in D!Places, D!Front(p) \in Deep
      PROVE  p \in Deep
  <2> SUFFICES ASSUME NEW q \in Levels, D!Opened(p) = D!Opened(q), D!Opened(p) # 0
               PROVE  p = q
    BY <1>1
  <2>1. q \in D!Places
    BY <1>2, OpenedSteps DEF PathsOpen, Levels
  <2>2. InDirectory(p) /\ InDirectory(q)
    BY <1>1, <2>1, OpenedTyped
  <2>3. D!Last(p) \in D!NameSet /\ D!Last(q) \in D!NameSet
    BY <2>1, PlaceShape
  <2>4. D!Opened(D!Front(p)) = D!Opened(D!Front(q)) /\ D!Last(p) = D!Last(q)
    BY <2>2, <2>3 DEF NodeInv, Bindings, InDirectory
  <2>5. D!Front(p) = D!Front(q)
    BY <1>1, <1>4, <2>1, <2>2, <2>4 DEF InDirectory
  <2> QED BY <2>1, <2>4, <2>5, PlaceShape
<1>5. \A p \in Levels : p \in Deep
  <2> HIDE DEF Deep
  <2> QED BY <1>3, <1>4, DownTheTree
<1> QED BY <1>5

\* A path that leads to no link is resolved to what it leads to.
LEMMA ResolvedOpen ==
  ASSUME NodeInv
  PROVE  \A p \in Levels : D!Opened(p) # 0 /\ node[D!Opened(p)].kind # "symlink"
           => D!Resolved(p) = D!Opened(p)
<1> DEFINE Deep == {p \in Levels :
                   D!Opened(p) # 0 /\ node[D!Opened(p)].kind # "symlink" => D!Resolved(p) = D!Opened(p)}
<1>1. \A p \in D!Places : p \in Levels /\ p # <<>> /\ D!Front(p) \in Levels
  BY PlaceShape DEF Levels
<1>2. <<>> \in Deep
  BY OpenedSteps, ResolvedSteps DEF PathsOpen, PathsResolve, Levels
<1>3. ASSUME NEW p \in D!Places, D!Front(p) \in Deep
      PROVE  p \in Deep
  <2> SUFFICES ASSUME D!Opened(p) # 0, node[D!Opened(p)].kind # "symlink"
               PROVE  D!Resolved(p) = D!Opened(p)
    BY <1>1
  <2>1. InDirectory(p)
    BY <1>1, OpenedTyped
  <2>2. D!Resolved(D!Front(p)) = D!Opened(D!Front(p))
    BY <1>3, <2>1 DEF InDirectory
  <2> QED BY <2>2, OpenedSteps, ResolvedSteps DEF PathsOpen, PathsResolve, D!Follow
<1>4. \A p \in Levels : p \in Deep
  <2> HIDE DEF Deep
  <2> QED BY <1>2, <1>3, DownTheTree
<1> QED BY <1>4

\* Else it is resolved to the directory outside, or to what is no directory.
LEMMA ResolvedCases ==
  ASSUME NodeInv
  PROVE  \A p \in Levels :
           D!Resolved(p) = D!Opened(p) \/ D!Resolved(p) = D!Elsewhere
             \/ node[D!Resolved(p)].kind \in {"nothing", "file"}
<1> DEFINE Deep == {p \in Levels :
             D!Resolved(p) = D!Opened(p) \/ D!Resolved(p) = D!Elsewhere
               \/ node[D!Resolved(p)].kind \in {"nothing", "file"}}
<1>1. \A p \in D!Places : p \in Levels /\ p # <<>> /\ D!Front(p) \in Levels /\ D!Last(p) \in D!NameSet
  BY PlaceShape DEF Levels
<1>2. <<>> \in Deep
  BY OpenedSteps, ResolvedSteps DEF PathsOpen, PathsResolve, Levels
<1>3. ASSUME NEW p \in D!Places, D!Front(p) \in Deep
      PROVE  p \in Deep
  <2>1. D!Resolved(p) = D!Follow(D!Child(D!Resolved(D!Front(p)), D!Last(p)))
    BY ResolvedSteps DEF PathsResolve
  <2>2. CASE D!Resolved(D!Front(p)) = D!Opened(D!Front(p))
    <3>1. D!Child(D!Resolved(D!Front(p)), D!Last(p)) = D!Opened(p)
      BY <2>2, OpenedSteps DEF PathsOpen
    <3> QED BY <1>1, <2>1, <3>1 DEF D!Follow
  <2>3. CASE D!Resolved(D!Front(p)) = D!Elsewhere
    <3>1. D!Child(D!Elsewhere, D!Last(p)) \in {0, 7}
      BY <1>1 DEF NodeInv, Anchored, D!Child
    <3>2. D!Resolved(p) \in {0, 7}
      BY <2>1, <2>3, <3>1 DEF NodeInv, Anchored, D!Follow
    <3> QED BY <1>1, <3>2 DEF NodeInv, Anchored
  <2>4. CASE node[D!Resolved(D!Front(p))].kind \in {"nothing", "file"}
    <3>1. D!Child(D!Resolved(D!Front(p)), D!Last(p)) = 0
      BY <2>4 DEF D!Child
    <3>2. D!Resolved(p) = 0
      BY <2>1, <3>1 DEF NodeInv, Anchored, D!Follow
    <3> QED BY <1>1, <3>2 DEF NodeInv, Anchored
  <2> QED BY <1>3, <2>2, <2>3, <2>4
<1>4. \A p \in Levels : p \in Deep
  <2> HIDE DEF Deep
  <2> QED BY <1>2, <1>3, DownTheTree
<1> QED BY <1>4

\* What may be deleted is what a walk without links leads to.
LEMMA PermittedOpen ==
  ASSUME NodeInv, NEW p \in D!Places, D!Permitted(p)
  PROVE  /\ D!Target(p) = D!Opened(p) /\ ~D!Matches(p, Denied)
         /\ D!Resolved(D!Front(p)) = D!Opened(D!Front(p))
<1> DEFINE parent == D!Resolved(D!Front(p))
<1>1. ~D!Matches(p, Denied) /\ node[parent].kind = "directory" /\ D!Contained(parent)
  BY DEF D!Permitted
<1>2. D!Front(p) \in Levels /\ \A q \in D!Places : q \in Levels
  BY PlaceShape DEF Levels
<1>3. parent # D!Elsewhere
  BY <1>1, <1>2, OpenedTyped DEF D!Contained, D!Root, D!Elsewhere
<1>4. parent = D!Opened(D!Front(p))
  BY <1>1, <1>2, <1>3, ResolvedCases
<1> QED BY <1>1, <1>4, OpenedSteps DEF PathsOpen, D!Target

\* The path of a file that is made with its directory.
LEMMA UnderDirectory ==
  ASSUME NEW p \in D!Places, Len(p) < 3
  PROVE  Append(p, "x") \in D!Places
<1>1. CASE p = <<"d">>
  <2> DEFINE q == <<"d", "x">>
  <2>1. q \in D!Places
    BY PlacesThere, Zenon
  <2>2. Append(p, "x") = q
    <3>1. q \in Seq(D!NameSet) /\ Len(q) = 2
      BY DEF D!NameSet
    <3>2. Append(p, "x") \in Seq(D!NameSet) /\ Len(Append(p, "x")) = 2
      BY <1>1 DEF D!NameSet
    <3>3. \A j \in 1 .. 2 : Append(p, "x")[j] = q[j]
      BY <1>1 DEF D!NameSet
    <3> HIDE DEF q
    <3> QED BY <3>1, <3>2, <3>3, SeqEqual
  <2> HIDE DEF q
  <2> QED BY <2>1, <2>2
<1>2. CASE \E k \in {"a", "b", "x"} : p = <<"d", k>>
  <2>1. PICK k \in {"a", "b", "x"} : p = <<"d", k>>
    BY <1>2
  <2> DEFINE q == <<"d", k, "x">>
  <2>2. q \in D!Places
    BY PlacesThere, Zenon
  <2>3. Append(p, "x") = q
    <3>1. q \in Seq(D!NameSet) /\ Len(q) = 3
      BY DEF D!NameSet
    <3>2. Append(p, "x") \in Seq(D!NameSet) /\ Len(Append(p, "x")) = 3
      BY <2>1 DEF D!NameSet
    <3>3. \A j \in 1 .. 3 : Append(p, "x")[j] = q[j]
      BY <2>1 DEF D!NameSet
    <3> HIDE DEF q
    <3> QED BY <3>1, <3>2, <3>3, SeqEqual
  <2> HIDE DEF q
  <2> QED BY <2>2, <2>3
<1>3. CASE \E k \in {"a", "b", "x"}, m \in {"n", "x"} : p = <<"d", k, m>>
  BY <1>3
<1> QED BY <1>1, <1>2, <1>3, PlaceCases

\* What is found in a directory is one of Places.
LEMMA FoundPlaces ==
  ASSUME NodeInv, NEW p \in D!Places, Len(p) < 3, node[D!Resolved(p)].kind = "directory",
         NEW n \in D!NameSet, D!Child(D!Resolved(p), n) # 0
  PROVE  Append(p, n) \in D!Places
<1>1. p \in Levels
  BY DEF Levels
<1>2. CASE D!Resolved(p) = D!Opened(p)
  BY <1>1, <1>2 DEF NodeInv, LevelsKept
<1>3. CASE D!Resolved(p) = D!Elsewhere
  <2>1. n = "x"
    BY <1>3 DEF NodeInv, Anchored, D!Child
  <2> QED BY <2>1, UnderDirectory
<1> QED BY <1>1, <1>2, <1>3, ResolvedCases


(* The names in a directory. *)

\* The names of a set, each once.
NamesOf(s, Deep) ==
  /\ s \in Seq(D!NameSet)
  /\ \A k \in 1 .. Len(s) : s[k] \in Deep
  /\ \A n \in Deep : \E k \in 1 .. Len(s) : s[k] = n
  /\ \A j, k \in 1 .. Len(s) : s[j] = s[k] => j = k
There(path, Deep) == {n \in Deep : D!Child(D!Resolved(path), n) # 0}
NameIf(path, n) == IF D!Child(D!Resolved(path), n) = 0 THEN <<>> ELSE <<n>>

\* One more name, if it is bound there.
LEMMA OneMoreName ==
  ASSUME NEW path, NEW Deep, NEW s, NamesOf(s, There(path, Deep)), NEW n \in D!NameSet, n \notin Deep
  PROVE  NamesOf(s \o NameIf(path, n), There(path, Deep \union {n}))
<1>0. /\ s \in Seq(D!NameSet)
      /\ \A k \in 1 .. Len(s) : s[k] \in There(path, Deep)
      /\ \A m \in There(path, Deep) : \E k \in 1 .. Len(s) : s[k] = m
      /\ \A j, k \in 1 .. Len(s) : s[j] = s[k] => j = k
  BY DEF NamesOf
<1>1. CASE D!Child(D!Resolved(path), n) = 0
  <2>1. There(path, Deep \union {n}) = There(path, Deep)
    BY <1>1 DEF There
  <2>2. s \o NameIf(path, n) = s
    BY <1>0, <1>1 DEF NameIf
  <2> QED BY <2>1, <2>2
<1>2. CASE D!Child(D!Resolved(path), n) # 0
  <2>1. There(path, Deep \union {n}) = There(path, Deep) \union {n} /\ n \notin There(path, Deep)
    BY <1>2 DEF There
  <2> DEFINE t == s \o <<n>>
  <2>2. s \o NameIf(path, n) = t
    BY <1>2 DEF NameIf
  <2>3. /\ t \in Seq(D!NameSet) /\ Len(t) = Len(s) + 1 /\ Len(s) \in Nat
        /\ t[Len(t)] = n /\ \A k \in 1 .. Len(s) : t[k] = s[k]
    BY <1>0
  <2> HIDE DEF t
  <2>4. \A k \in 1 .. Len(t) : t[k] \in There(path, Deep) \union {n}
    BY <1>0, <2>3
  <2>5. \A m \in There(path, Deep) \union {n} : \E k \in 1 .. Len(t) : t[k] = m
    <3>1. \A m \in There(path, Deep) : \E k \in 1 .. Len(t) : t[k] = m
      BY <1>0, <2>3
    <3>2. Len(t) \in 1 .. Len(t)
      BY <2>3
    <3> QED BY <2>3, <3>1, <3>2
  <2>6. \A j, k \in 1 .. Len(t) : t[j] = t[k] => j = k
    <3>1. \A k \in 1 .. Len(t) : k = Len(t) \/ (k \in 1 .. Len(s) /\ t[k] \in There(path, Deep))
      BY <1>0, <2>3
    <3> QED BY <1>0, <2>1, <2>3, <3>1
  <2> QED BY <2>1, <2>2, <2>3, <2>4, <2>5, <2>6 DEF NamesOf
<1> QED BY <1>1, <1>2

\* All that is there is listed, once.
LEMMA ListingNames ==
  ASSUME NEW path
  PROVE  NamesOf(D!Listing(path), There(path, D!NameSet))
<1> DEFINE S1 == {} \union {"a"}
           S2 == S1 \union {"b"}
           S3 == S2 \union {"d"}
           S4 == S3 \union {"n"}
           S5 == S4 \union {"x"}
<1>0. NamesOf(<<>>, There(path, {}))
  BY DEF NamesOf, There
<1>1. NamesOf(<<>> \o NameIf(path, "a"), There(path, S1))
  BY <1>0, OneMoreName DEF D!NameSet
<1>2. <<>> \o NameIf(path, "a") = NameIf(path, "a")
  BY DEF NameIf
<1>3. NamesOf(NameIf(path, "a"), There(path, S1)) /\ "b" \notin S1
  BY <1>1, <1>2
<1>4. NamesOf(NameIf(path, "a") \o NameIf(path, "b"), There(path, S2)) /\ "d" \notin S2
  BY <1>3, OneMoreName DEF D!NameSet
<1>5. NamesOf(NameIf(path, "a") \o NameIf(path, "b") \o NameIf(path, "d"), There(path, S3)) /\ "n" \notin S3
  BY <1>4, OneMoreName DEF D!NameSet
<1>6. NamesOf(NameIf(path, "a") \o NameIf(path, "b") \o NameIf(path, "d") \o NameIf(path, "n"),
              There(path, S4)) /\ "x" \notin S4
  BY <1>5, OneMoreName DEF D!NameSet
<1>7. NamesOf(NameIf(path, "a") \o NameIf(path, "b") \o NameIf(path, "d") \o NameIf(path, "n")
                \o NameIf(path, "x"), There(path, S5))
  BY <1>6, OneMoreName DEF D!NameSet
<1>8. S5 = D!NameSet
  BY DEF D!NameSet
<1>9. D!Listing(path) = NameIf(path, "a") \o NameIf(path, "b") \o NameIf(path, "d") \o NameIf(path, "n")
                        \o NameIf(path, "x")
  BY DEF D!Listing, NameIf
<1> HIDE DEF S5
<1> QED BY <1>7, <1>8, <1>9


(* What a step may change of the inodes. *)

\* None loses its kind, each change of a directory shows in its stamp, and what is bound
\* anew was bound nowhere.
Evolves ==
  /\ fresh <= fresh'
  /\ \A i \in D!Inodes : i < fresh =>
       /\ node'[i].kind = node[i].kind /\ node[i].stamp <= node'[i].stamp
       /\ node'[i].stamp = node[i].stamp => node'[i].kids = node[i].kids
  /\ \A i \in D!Inodes, n \in D!NameSet :
       node'[i].kids[n] = node[i].kids[n] \/ node'[i].kids[n] = 0 \/ node'[i].kids[n] >= fresh

\* Names are only taken away.
Prunes ==
  /\ fresh' = fresh
  /\ \A i \in D!Inodes :
       /\ node'[i].kind = node[i].kind /\ node[i].stamp <= node'[i].stamp
       /\ node'[i].stamp = node[i].stamp => node'[i].kids = node[i].kids
       /\ \A n \in D!NameSet : node'[i].kids[n] = node[i].kids[n] \/ node'[i].kids[n] = 0

\* A path that leads to an inode there was led to it before.
LEMMA OpenedKept ==
  ASSUME NodeInv, NodeTyped', Evolves
  PROVE  \A p \in Levels :
           D!Opened(p)' \in D!Inodes
             /\ (D!Opened(p)' # 0 /\ D!Opened(p)' < fresh => D!Opened(p) = D!Opened(p)')
<1> DEFINE Deep == {p \in Levels : /\ D!Opened(p)' \in D!Inodes
                                   /\ D!Opened(p)' # 0 /\ D!Opened(p)' < fresh
                                        => D!Opened(p) = D!Opened(p)'}
<1>0. /\ \A i \in D!Inodes : i \in Nat
      /\ D!Root \in D!Inodes /\ fresh \in Nat
  BY DeletionConstants DEF NodeInv, NodeTyped, D!Root
<1>1. <<>> \in Deep
  BY <1>0, OpenedSteps, OpenedStepsAfter DEF PathsOpen, Levels, D!Root
<1>2. ASSUME NEW p \in D!Places, D!Front(p) \in Deep
      PROVE  p \in Deep
  <2> DEFINE i == D!Opened(D!Front(p))'
  <2>1. p \in Levels /\ D!Last(p) \in D!NameSet
    BY PlaceShape DEF Levels
  <2>2. /\ D!Opened(p) = D!Child(D!Opened(D!Front(p)), D!Last(p))
        /\ D!Opened(p)' = IF node'[i].kind = "directory" THEN node'[i].kids[D!Last(p)] ELSE 0
    BY OpenedSteps, OpenedStepsAfter DEF PathsOpen, D!Child
  <2>3. i \in D!Inodes /\ (i # 0 /\ i < fresh => D!Opened(D!Front(p)) = i)
    BY <1>2
  <2> HIDE DEF i
  <2>4. D!Opened(p)' \in D!Inodes
    BY <2>1, <2>2, <2>3, DeletionConstants DEF NodeTyped
  <2>5. ASSUME D!Opened(p)' # 0, D!Opened(p)' < fresh
        PROVE  D!Opened(p) = D!Opened(p)'
    <3>1. node'[i].kind = "directory" /\ D!Opened(p)' = node'[i].kids[D!Last(p)]
      BY <2>2, <2>5
    <3>2. node[i].kids[D!Last(p)] = D!Opened(p)'
      BY <1>0, <2>1, <2>3, <2>4, <2>5, <3>1 DEF Evolves
    <3>3. i < D!Opened(p)' /\ node[i].kind = "directory"
      BY <2>1, <2>3, <2>5, <3>2 DEF NodeInv, Bindings
    <3>4. i # 0 /\ i < fresh
      BY <1>0, <2>3, <2>4, <2>5, <3>3 DEF NodeInv, Anchored
    <3> QED BY <2>2, <2>3, <3>2, <3>3, <3>4 DEF D!Child
  <2> QED BY <2>1, <2>4, <2>5
<1>3. \A p \in Levels : p \in Deep
  <2> HIDE DEF Deep
  <2> QED BY <1>1, <1>2, DownTheTree
<1> QED BY <1>3

\* When names are taken away, the tree stays one.
LEMMA PrunedKept ==
  ASSUME NodeInv, NodeTyped', Prunes
  PROVE  NodeInv' /\ Evolves
<1>0. /\ \A i \in D!Inodes : i \in Nat
      /\ fresh \in Nat /\ fresh >= 8 /\ fresh' = fresh
      /\ 0 \in D!Inodes /\ 1 \in D!Inodes /\ 2 \in D!Inodes /\ 7 \in D!Inodes
  BY DeletionConstants DEF NodeInv, NodeTyped, Prunes
<1>1. Evolves
  BY <1>0 DEF Evolves, Prunes
<1>2. Bindings'
  <2> SUFFICES ASSUME NEW i \in D!Inodes, NEW n \in D!NameSet, node'[i].kids[n] # 0
               PROVE  /\ node'[i].kind = "directory"
                      /\ i < node'[i].kids[n] /\ 3 <= node'[i].kids[n] /\ node'[i].kids[n] < fresh'
                      /\ \A h \in D!Inodes, m \in D!NameSet :
                           node'[h].kids[m] = node'[i].kids[n] => h = i /\ m = n
    BY DEF Bindings
  <2>1. \A h \in D!Inodes, m \in D!NameSet : node'[h].kids[m] # 0 => node'[h].kids[m] = node[h].kids[m]
    BY DEF Prunes
  <2>2. node[i].kids[n] # 0 /\ node'[i].kids[n] = node[i].kids[n] /\ node'[i].kind = node[i].kind
    BY <2>1 DEF Prunes
  <2>3. /\ node[i].kind = "directory"
        /\ i < node[i].kids[n] /\ 3 <= node[i].kids[n] /\ node[i].kids[n] < fresh
        /\ \A h \in D!Inodes, m \in D!NameSet : node[h].kids[m] = node[i].kids[n] => h = i /\ m = n
    BY <2>2 DEF NodeInv, Bindings
  <2> QED BY <1>0, <2>1, <2>2, <2>3
<1>3. Anchored'
  BY <1>0 DEF NodeInv, Anchored, Prunes, D!Root, D!Elsewhere
<1>4. LevelsKept'
  <2> SUFFICES ASSUME NEW p \in Levels
               PROVE  /\ \A n \in D!NameSet : D!Child(D!Opened(p), n)' # 0 => Append(p, n) \in D!Places
                      /\ Len(p) = 3 => node'[D!Opened(p)'].kind # "directory"
    BY DEF LevelsKept
  <2> DEFINE i == D!Opened(p)'
  <2>1. i \in D!Inodes /\ (i # 0 /\ i < fresh => D!Opened(p) = i)
    BY <1>1, OpenedKept
  <2>2. i # 0 => i < fresh
    <3>1. CASE p = <<>>
      BY <1>0, <3>1, OpenedStepsAfter DEF PathsOpen, D!Root
    <3>2. CASE p # <<>>
      <4>1. p \in D!Places /\ D!Front(p) \in Levels /\ D!Last(p) \in D!NameSet
        BY <3>2, PlaceShape DEF Levels
      <4>2. i = D!Child(D!Opened(D!Front(p)), D!Last(p))'
        BY <4>1, OpenedStepsAfter DEF PathsOpen
      <4>3. D!Opened(D!Front(p))' \in D!Inodes
        BY <1>1, <4>1, OpenedKept
      <4> QED BY <1>2, <1>0, <4>1, <4>2, <4>3 DEF D!Child, Bindings
    <3> QED BY <3>1, <3>2
  <2> HIDE DEF i
  <2>3. CASE i = 0
    BY <1>3, <2>3 DEF i, Anchored, D!Child
  <2>4. CASE i # 0
    <3>1. D!Opened(p) = i /\ node'[i].kind = node[i].kind
      BY <2>1, <2>2, <2>4 DEF Prunes
    <3>2. \A n \in D!NameSet : D!Child(D!Opened(p), n)' # 0 => D!Child(D!Opened(p), n) # 0
      BY <2>1, <3>1 DEF i, D!Child, Prunes
    <3> QED BY <3>1, <3>2 DEF i, NodeInv, LevelsKept
  <2> QED BY <2>3, <2>4
<1> QED BY <1>1, <1>2, <1>3, <1>4 DEF NodeInv

\* A name bound in an inode leaves it an inode.
LEMMA BoundRecord ==
  ASSUME NEW d \in [kind : D!Kinds, stamp : Nat, kids : [D!NameSet -> D!Inodes]],
         NEW n \in D!NameSet, NEW i \in D!Inodes,
         NEW c, c = [d EXCEPT !.kids[n] = i, !.stamp = @ + 1]
  PROVE  /\ c \in [kind : D!Kinds, stamp : Nat, kids : [D!NameSet -> D!Inodes]]
         /\ c.kind = d.kind /\ c.stamp = d.stamp + 1 /\ c.kids = [d.kids EXCEPT ![n] = i]
<1>1. c.kind = d.kind /\ c.stamp = d.stamp + 1 /\ c.kids = [d.kids EXCEPT ![n] = i]
  OBVIOUS
<1>2. c.kind \in D!Kinds /\ c.stamp \in Nat /\ c.kids \in [D!NameSet -> D!Inodes]
  BY <1>1
<1>3. c = [kind |-> c.kind, stamp |-> c.stamp, kids |-> c.kids]
  OBVIOUS
<1> QED BY <1>1, <1>2, <1>3

\* Inodes with a name bound in one of them, and with the stamp of one changed.
Table == [D!Inodes -> [kind : D!Kinds, stamp : Nat, kids : [D!NameSet -> D!Inodes]]]
Bind(f, dir, name, i) == [f EXCEPT ![dir].kids[name] = i, ![dir].stamp = @ + 1]
Stamp(f, i) == [f EXCEPT ![i].stamp = @ + 1]
Bound(f, b, dir, name, i) ==
  /\ b \in Table
  /\ \A j \in D!Inodes : b[j].kind = f[j].kind /\ f[j].stamp <= b[j].stamp
  /\ \A j \in D!Inodes : j # dir => b[j] = f[j]
  /\ b[dir].stamp = f[dir].stamp + 1
  /\ \A n \in D!NameSet : b[dir].kids[n] = IF n = name THEN i ELSE f[dir].kids[n]
Stamped(f, r, i) ==
  /\ r \in Table
  /\ \A j \in D!Inodes : r[j].kind = f[j].kind /\ r[j].kids = f[j].kids /\ f[j].stamp <= r[j].stamp
  /\ \A j \in D!Inodes : j # i => r[j] = f[j]

\* Binding a name changes that entry of that directory, and its stamp, and nothing else.
LEMMA BoundInode ==
  ASSUME NEW f \in Table, NEW dir \in D!Inodes, NEW name \in D!NameSet, NEW i \in D!Inodes
  PROVE  Bound(f, Bind(f, dir, name, i), dir, name, i)
<1> DEFINE c == [f[dir] EXCEPT !.kids[name] = i, !.stamp = @ + 1]
           b == Bind(f, dir, name, i)
<1>0. f \in [D!Inodes -> [kind : D!Kinds, stamp : Nat, kids : [D!NameSet -> D!Inodes]]]
  BY DEF Table
<1>1. b = [f EXCEPT ![dir] = c]
  BY <1>0 DEF Bind
<1>2. f[dir] \in [kind : D!Kinds, stamp : Nat, kids : [D!NameSet -> D!Inodes]]
  BY <1>0
<1>3. /\ c \in [kind : D!Kinds, stamp : Nat, kids : [D!NameSet -> D!Inodes]]
      /\ c.kind = f[dir].kind /\ c.stamp = f[dir].stamp + 1
      /\ c.kids = [f[dir].kids EXCEPT ![name] = i]
  BY <1>2, BoundRecord
<1>4. \A n \in D!NameSet : c.kids[n] = IF n = name THEN i ELSE f[dir].kids[n]
  BY <1>2, <1>3
<1> HIDE DEF c, b
<1>5. b \in Table
  BY <1>0, <1>1, <1>3 DEF Table
<1>6. b[dir] = c /\ \A j \in D!Inodes : j # dir => b[j] = f[j]
  BY <1>0, <1>1
<1>7. \A j \in D!Inodes : f[j].stamp \in Nat
  BY <1>0
<1>8. \A j \in D!Inodes : b[j].kind = f[j].kind /\ f[j].stamp <= b[j].stamp
  BY <1>3, <1>6, <1>7
<1>9. Bound(f, b, dir, name, i)
  BY <1>3, <1>4, <1>5, <1>6, <1>8 DEF Bound
<1> QED BY <1>9 DEF b

\* Stamping an inode changes its stamp, and nothing else.
LEMMA StampedInode ==
  ASSUME NEW f \in Table, NEW i \in D!Inodes
  PROVE  Stamped(f, Stamp(f, i), i)
<1> DEFINE c == [f[i] EXCEPT !.stamp = @ + 1]
           r == Stamp(f, i)
<1>0. f \in [D!Inodes -> [kind : D!Kinds, stamp : Nat, kids : [D!NameSet -> D!Inodes]]]
  BY DEF Table
<1>1. r = [f EXCEPT ![i] = c]
  BY <1>0 DEF Stamp
<1>2. f[i] \in [kind : D!Kinds, stamp : Nat, kids : [D!NameSet -> D!Inodes]]
  BY <1>0
<1>3. /\ c \in [kind : D!Kinds, stamp : Nat, kids : [D!NameSet -> D!Inodes]]
      /\ c.kind = f[i].kind /\ c.kids = f[i].kids /\ c.stamp = f[i].stamp + 1
  <2>1. c.kind = f[i].kind /\ c.kids = f[i].kids /\ c.stamp = f[i].stamp + 1
    BY <1>2
  <2>2. c = [kind |-> c.kind, stamp |-> c.stamp, kids |-> c.kids]
    BY <1>2
  <2>3. c.kind \in D!Kinds /\ c.kids \in [D!NameSet -> D!Inodes] /\ c.stamp \in Nat
    BY <1>2, <2>1
  <2> HIDE DEF c
  <2> QED BY <2>1, <2>2, <2>3
<1> HIDE DEF c, r
<1>4. r \in Table
  BY <1>0, <1>1, <1>3 DEF Table
<1>5. r[i] = c /\ \A j \in D!Inodes : j # i => r[j] = f[j]
  BY <1>0, <1>1
<1>6. \A j \in D!Inodes : f[j].stamp \in Nat
  BY <1>0
<1>7. \A j \in D!Inodes : r[j].kind = f[j].kind /\ r[j].kids = f[j].kids /\ f[j].stamp <= r[j].stamp
  BY <1>3, <1>5, <1>6
<1>8. Stamped(f, r, i)
  BY <1>4, <1>5, <1>7 DEF Stamped
<1> QED BY <1>8 DEF r

\* An inode, and a file in it, are made and bound.
Makes(dir, name, kind) ==
  /\ fresh \in D!Inodes /\ fresh + 1 \in D!Inodes /\ fresh' = fresh + 2
  /\ \A i \in D!Inodes : i < fresh =>
       /\ node'[i].kind = node[i].kind /\ node[i].stamp <= node'[i].stamp
       /\ i # dir => node'[i].kids = node[i].kids
  /\ node[dir].stamp < node'[dir].stamp
  /\ \A n \in D!NameSet : node'[dir].kids[n] = IF n = name THEN fresh ELSE node[dir].kids[n]
  /\ node'[fresh].kind = kind /\ node'[fresh + 1].kind = "file"
  /\ \A n \in D!NameSet :
       /\ node'[fresh].kids[n] = IF kind = "directory" /\ n = "x" THEN fresh + 1 ELSE 0
       /\ node'[fresh + 1].kids[n] = 0
  /\ \A i \in D!Inodes : i > fresh + 1 => node'[i] = node[i]

\* What another program puts into a directory of the tree is new.
LEMMA PutMakes ==
  ASSUME NodeInv, NEW path \in D!Places, NEW kind \in {"file", "symlink", "directory"}, D!Put(path, kind)
  PROVE  /\ NodeTyped' /\ Makes(D!Opened(D!Front(path)), D!Last(path), kind)
         /\ D!Opened(D!Front(path)) \in D!Inodes /\ D!Opened(D!Front(path)) < fresh
         /\ D!Opened(D!Front(path)) # 0 /\ D!Opened(D!Front(path)) # D!Elsewhere
<1> DEFINE dir == D!Opened(D!Front(path))
           name == D!Last(path)
           old == D!Opened(path)
           b == Bind(node, dir, name, fresh)
           r == IF old = 0 THEN b ELSE Stamp(b, old)
           kids == IF kind = "directory" THEN [D!NoKids EXCEPT !["x"] = fresh + 1] ELSE D!NoKids
<1>1. /\ dir \in D!Inodes /\ dir < fresh /\ dir # D!Elsewhere
      /\ old \in D!Inodes /\ old < fresh /\ name \in D!NameSet
  BY PlaceShape, OpenedTyped DEF Levels
<1>2. dir # 0 /\ node[dir].kind = "directory"
  BY DEF D!Put, NodeInv, Anchored
<1>3. /\ fresh \in Nat /\ fresh \in D!Inodes /\ fresh + 1 \in D!Inodes /\ fresh' = fresh + 2
      /\ edits' \in 0 .. MaxEdits /\ fresh' \in 8 .. 8 + 2 * edits'
  BY DeletionConstants DEF NodeInv, NodeTyped, D!Put, D!Edits, D!Inodes
<1>4. node' = [r EXCEPT ![fresh] = D!Inode(kind, kids), ![fresh + 1] = D!Inode("file", D!NoKids)]
  BY DEF D!Put, D!Rebind, Bind, Stamp
<1>5. node \in [D!Inodes -> [kind : D!Kinds, stamp : Nat, kids : [D!NameSet -> D!Inodes]]]
  BY DEF NodeInv, NodeTyped
<1>6. D!NoKids \in [D!NameSet -> D!Inodes] /\ kids \in [D!NameSet -> D!Inodes]
  BY <1>3, DeletionConstants DEF D!NoKids
<1>7. /\ \A n \in D!NameSet : kids[n] = IF kind = "directory" /\ n = "x" THEN fresh + 1 ELSE 0
      /\ \A n \in D!NameSet : D!NoKids[n] = 0
  BY DEF D!NoKids
<1> HIDE DEF dir, name, old, kids
<1>8. Bound(node, b, dir, name, fresh)
  BY <1>1, <1>3, <1>5, BoundInode DEF Table
<1> HIDE DEF b
<1>9. /\ r \in Table
      /\ \A i \in D!Inodes : r[i].kind = node[i].kind /\ node[i].stamp <= r[i].stamp
           /\ r[i].kids = b[i].kids
      /\ \A i \in D!Inodes : i # dir /\ i # old => r[i] = node[i]
      /\ b[dir].stamp <= r[dir].stamp
  <2>1. \A i \in D!Inodes : b[i].stamp \in Nat /\ node[i].stamp \in Nat
    BY <1>5, <1>8 DEF Bound, Table
  <2>2. CASE old = 0
    <3>1. r = b
      BY <2>2
    <3> HIDE DEF r
    <3> QED BY <1>1, <1>8, <2>1, <3>1 DEF Bound
  <2>3. CASE old # 0
    <3>1. Stamped(b, r, old)
      BY <1>1, <1>8, <2>3, StampedInode DEF Bound
    <3> HIDE DEF r
    <3>2. \A i \in D!Inodes : r[i].stamp \in Nat
      BY <3>1 DEF Stamped, Table
    <3> QED BY <1>1, <1>8, <2>1, <3>1, <3>2 DEF Bound, Stamped
  <2> QED BY <2>2, <2>3
<1> HIDE DEF r
<1>10. /\ node' \in [D!Inodes -> [kind : D!Kinds, stamp : Nat, kids : [D!NameSet -> D!Inodes]]]
       /\ \A i \in D!Inodes : i # fresh /\ i # fresh + 1 => node'[i] = r[i]
       /\ node'[fresh] = D!Inode(kind, kids) /\ node'[fresh + 1] = D!Inode("file", D!NoKids)
  BY <1>3, <1>4, <1>6, <1>9 DEF D!Inode, D!Kinds, Table
<1>11. NodeTyped'
  BY <1>3, <1>10 DEF NodeTyped
<1>12. Makes(dir, name, kind)
  <2>0. \A i \in D!Inodes : i \in Nat
    BY DeletionConstants
  <2>1. \A i \in D!Inodes : i < fresh => i # fresh /\ i # fresh + 1
    BY <1>3, <2>0
  <2>2. \A i \in D!Inodes : i < fresh =>
          /\ node'[i].kind = node[i].kind /\ node[i].stamp <= node'[i].stamp
          /\ i # dir => node'[i].kids = node[i].kids
    BY <1>8, <1>9, <1>10, <2>1 DEF Bound
  <2>3. node[dir].stamp < node'[dir].stamp
    <3>1. node'[dir] = r[dir] /\ r[dir].stamp \in Nat /\ node[dir].stamp \in Nat
      BY <1>1, <1>5, <1>9, <1>10, <2>1 DEF Table
    <3> QED BY <1>8, <1>9, <3>1 DEF Bound
  <2>4. \A n \in D!NameSet : node'[dir].kids[n] = IF n = name THEN fresh ELSE node[dir].kids[n]
    <3>1. node'[dir] = r[dir]
      BY <1>1, <1>5, <1>10, <2>1
    <3>2. r[dir].kids = b[dir].kids
      BY <1>1, <1>9
    <3> QED BY <1>1, <1>8, <3>1, <3>2 DEF Bound
  <2>5. \A i \in D!Inodes : i > fresh + 1 => node'[i] = node[i]
    <3>1. \A i \in D!Inodes : i > fresh + 1 => i # dir /\ i # old /\ i # fresh /\ i # fresh + 1
      BY <1>1, <1>3, <2>0
    <3> QED BY <1>9, <1>10, <3>1
  <2>6. /\ node'[fresh].kind = kind /\ node'[fresh + 1].kind = "file"
        /\ node'[fresh].kids = kids /\ node'[fresh + 1].kids = D!NoKids
    BY <1>10 DEF D!Inode
  <2> QED BY <1>3, <1>7, <2>2, <2>3, <2>4, <2>5, <2>6 DEF Makes
<1> QED BY <1>1, <1>2, <1>11, <1>12 DEF dir, name

\* A file, a link or a directory that is made in the tree is in it at its path, once.
LEMMA PutKept ==
  ASSUME NodeInv, NEW path \in D!Places, NEW kind \in {"file", "symlink", "directory"}, D!Put(path, kind)
  PROVE  NodeInv' /\ Evolves
<1> DEFINE dir == D!Opened(D!Front(path))
           name == D!Last(path)
<1>0. /\ \A i \in D!Inodes : i \in Nat
      /\ fresh \in Nat /\ fresh >= 8 /\ fresh' = fresh + 2
      /\ 0 \in D!Inodes /\ 1 \in D!Inodes /\ 2 \in D!Inodes /\ 7 \in D!Inodes
      /\ fresh \in D!Inodes /\ fresh + 1 \in D!Inodes
  BY PutMakes, DeletionConstants DEF NodeInv, NodeTyped, Makes
<1>p. name \in D!NameSet /\ D!Front(path) \in Levels /\ path = Append(D!Front(path), name)
  BY PlaceShape
<1>1. /\ NodeTyped' /\ Makes(dir, name, kind)
      /\ dir \in D!Inodes /\ dir < fresh /\ dir # 0 /\ dir # D!Elsewhere
  BY PutMakes
<1>2. kind = "directory" => Len(path) < 3
  BY DEF D!Put
<1>3. node[dir].kind = "directory"
  BY DEF D!Put
<1>4. \A i \in D!Inodes : i < fresh \/ i = fresh \/ i = fresh + 1 \/ i > fresh + 1
  BY <1>0
<1>5. \A i \in D!Inodes, n \in D!NameSet :
        node'[i].kids[n] # 0 =>
          \/ i = dir /\ n = name /\ node'[i].kids[n] = fresh
          \/ i = fresh /\ n = "x" /\ node'[i].kids[n] = fresh + 1 /\ kind = "directory"
          \/ /\ i < fresh /\ node'[i].kids[n] = node[i].kids[n]
             /\ node[i].kids[n] < fresh /\ node[i].kids[n] \in Nat
  <2> SUFFICES ASSUME NEW i \in D!Inodes, NEW n \in D!NameSet, node'[i].kids[n] # 0
               PROVE  \/ i = dir /\ n = name /\ node'[i].kids[n] = fresh
                      \/ i = fresh /\ n = "x" /\ node'[i].kids[n] = fresh + 1 /\ kind = "directory"
                      \/ /\ i < fresh /\ node'[i].kids[n] = node[i].kids[n]
                         /\ node[i].kids[n] < fresh /\ node[i].kids[n] \in Nat
    OBVIOUS
  <2>0. node[i].kids[n] \in Nat /\ (node[i].kids[n] # 0 => i < node[i].kids[n] /\ node[i].kids[n] < fresh)
    <3>1. node[i].kids[n] \in Nat
      BY DeletionConstants DEF NodeInv, NodeTyped
    <3>2. node[i].kids[n] # 0 => i < node[i].kids[n] /\ node[i].kids[n] < fresh
      BY DEF NodeInv, Bindings
    <3> QED BY <3>1, <3>2
  <2>1. CASE i < fresh
    BY <1>1, <2>0, <2>1 DEF Makes
  <2>2. CASE i = fresh \/ i = fresh + 1
    BY <1>1, <2>2 DEF Makes
  <2>3. CASE i > fresh + 1
    <3>1. node'[i] = node[i]
      BY <1>1, <2>3 DEF Makes
    <3>2. node[i].kids[n] # 0
      BY <3>1
    <3>3. i < fresh
      <4>1. i < node[i].kids[n] /\ node[i].kids[n] < fresh /\ i \in Nat /\ node[i].kids[n] \in Nat
              /\ fresh \in Nat
        BY <1>0, <2>0, <3>2
      <4> QED BY <4>1
    <3> QED BY <2>0, <3>1, <3>3
  <2> QED BY <1>4, <2>1, <2>2, <2>3
<1> HIDE DEF name
<1>h. ASSUME NEW h \in D!Inodes, NEW m \in D!NameSet, node'[h].kids[m] # 0
      PROVE  /\ node'[h].kids[m] = fresh => h = dir /\ m = name
             /\ node'[h].kids[m] >= fresh => node'[h].kids[m] \in {fresh, fresh + 1}
  <2>1. node'[h].kids[m] \in Nat
    <3>1. node'[h].kids[m] \in D!Inodes
      BY <1>1 DEF NodeTyped
    <3> QED BY <3>1, DeletionConstants
  <2> QED BY <1>0, <1>5, <1>h, <2>1
<1>6. Evolves
  <2>1. \A i \in D!Inodes, n \in D!NameSet :
          node'[i].kids[n] = node[i].kids[n] \/ node'[i].kids[n] = 0 \/ node'[i].kids[n] >= fresh
    BY <1>0, <1>5
  <2>2. \A i \in D!Inodes : i < fresh =>
          /\ node'[i].kind = node[i].kind /\ node[i].stamp <= node'[i].stamp
          /\ node'[i].stamp = node[i].stamp => node'[i].kids = node[i].kids
    <3>1. node[dir].stamp \in Nat /\ node'[dir].stamp \in Nat /\ node[dir].stamp < node'[dir].stamp
      BY <1>1 DEF Makes, NodeInv, NodeTyped
    <3> QED BY <1>1, <3>1 DEF Makes
  <2> QED BY <1>0, <2>1, <2>2 DEF Evolves
<1>7. Bindings'
  <2> SUFFICES ASSUME NEW i \in D!Inodes, NEW n \in D!NameSet, node'[i].kids[n] # 0
               PROVE  /\ node'[i].kind = "directory"
                      /\ i < node'[i].kids[n] /\ 3 <= node'[i].kids[n] /\ node'[i].kids[n] < fresh'
                      /\ \A h \in D!Inodes, m \in D!NameSet :
                           node'[h].kids[m] = node'[i].kids[n] => h = i /\ m = n
    BY DEF Bindings
  <2>1. CASE i = dir /\ n = name /\ node'[i].kids[n] = fresh
    <3>1. node'[i].kind = "directory" /\ i < fresh /\ 3 <= fresh /\ fresh < fresh'
      BY <1>0, <1>1, <1>3, <2>1 DEF Makes
    <3>2. ASSUME NEW h \in D!Inodes, NEW m \in D!NameSet, node'[h].kids[m] = fresh
          PROVE  h = i /\ m = n
      BY <1>0, <1>5, <2>1, <3>2
    <3> QED BY <2>1, <3>1, <3>2
  <2>2. CASE i = fresh /\ n = "x" /\ node'[i].kids[n] = fresh + 1 /\ kind = "directory"
    <3>1. node'[i].kind = "directory" /\ i < fresh + 1 /\ 3 <= fresh + 1 /\ fresh + 1 < fresh'
      BY <1>0, <1>1, <2>2 DEF Makes
    <3>2. ASSUME NEW h \in D!Inodes, NEW m \in D!NameSet, node'[h].kids[m] = fresh + 1
          PROVE  h = i /\ m = n
      BY <1>0, <1>5, <2>2, <3>2
    <3> QED BY <2>2, <3>1, <3>2
  <2>3. CASE i < fresh /\ node'[i].kids[n] = node[i].kids[n] /\ node[i].kids[n] < fresh
               /\ node[i].kids[n] \in Nat
    <3>1. /\ node[i].kind = "directory"
          /\ i < node[i].kids[n] /\ 3 <= node[i].kids[n] /\ node[i].kids[n] < fresh
          /\ \A h \in D!Inodes, m \in D!NameSet : node[h].kids[m] = node[i].kids[n] => h = i /\ m = n
      BY <2>3 DEF NodeInv, Bindings
    <3>2. node'[i].kind = node[i].kind
      BY <1>1, <2>3 DEF Makes
    <3>3. ASSUME NEW h \in D!Inodes, NEW m \in D!NameSet, node'[h].kids[m] = node'[i].kids[n]
          PROVE  h = i /\ m = n
      <4>1. node'[h].kids[m] = node[h].kids[m]
        BY <1>0, <1>5, <2>3, <3>3
      <4> QED BY <2>3, <3>1, <3>3, <4>1
    <3> QED BY <1>0, <2>3, <3>1, <3>2, <3>3
  <2> QED BY <1>5, <2>1, <2>2, <2>3
<1>8. Anchored'
  <2>1. node'[0].kind = node[0].kind /\ node'[1].kind = node[1].kind
          /\ node'[2].kind = node[2].kind /\ node'[7].kind = node[7].kind
    BY <1>0, <1>6 DEF Evolves
  <2>2. node'[D!Elsewhere].kids = node[D!Elsewhere].kids
    BY <1>0, <1>1 DEF Makes, D!Elsewhere
  <2> QED BY <2>1, <2>2 DEF NodeInv, Anchored, D!Root, D!Elsewhere
<1>9. LevelsKept'
  <2> SUFFICES ASSUME NEW p \in Levels
               PROVE  /\ \A n \in D!NameSet : D!Child(D!Opened(p), n)' # 0 => Append(p, n) \in D!Places
                      /\ Len(p) = 3 => node'[D!Opened(p)'].kind # "directory"
    BY DEF LevelsKept
  <2> DEFINE i == D!Opened(p)'
  <2>0. \A n \in D!NameSet : D!Child(D!Opened(p), n)' # 0 => node'[i].kids[n] # 0
    BY DEF D!Child
  <2>1. i \in D!Inodes /\ (i # 0 /\ i < fresh => D!Opened(p) = i)
    BY <1>1, <1>6, OpenedKept
  <2>2. CASE i = 0
    BY <1>8, <2>0, <2>2 DEF Anchored, D!Child
  <2>3. CASE i # 0 /\ i < fresh
    <3>1. D!Opened(p) = i /\ node'[i].kind = node[i].kind
      BY <1>1, <2>1, <2>3 DEF Makes
    <3>2. ASSUME NEW n \in D!NameSet, node'[i].kids[n] # 0
          PROVE  Append(p, n) \in D!Places
      <4>1. CASE i = dir /\ n = name
        <5>1. p = D!Front(path)
          BY <1>1, <1>p, <2>3, <3>1, <4>1, OnePath
        <5> QED BY <1>p, <4>1, <5>1
      <4>2. CASE ~(i = dir /\ n = name)
        <5>1. node[i].kids[n] # 0
          <6>1. PICK j \in D!Inodes : j = i
            BY <2>1
          <6>2. node'[j].kids[n] # 0 /\ ~(j = dir /\ n = name) /\ j < fresh /\ j # fresh
            BY <1>0, <2>3, <3>2, <4>2, <6>1
          <6>3. node'[j].kids[n] = node[j].kids[n]
            BY <1>5, <6>2
          <6> QED BY <6>1, <6>2, <6>3
        <5>2. D!Child(D!Opened(p), n) # 0
          BY <2>1, <3>1, <5>1 DEF D!Child, NodeInv, Bindings
        <5> QED BY <5>2 DEF NodeInv, LevelsKept
      <4> QED BY <4>1, <4>2
    <3> QED BY <2>0, <3>1, <3>2 DEF NodeInv, LevelsKept
  <2>4. CASE i >= fresh
    <3>1. p \in D!Places /\ D!Front(p) \in Levels /\ D!Last(p) \in D!NameSet
            /\ p = Append(D!Front(p), D!Last(p))
      <4>1. p # <<>>
        BY <1>0, <2>4, OpenedStepsAfter DEF PathsOpen, D!Root
      <4> QED BY <4>1, PlaceShape DEF Levels
    <3> DEFINE h == D!Opened(D!Front(p))'
    <3>2. h \in D!Inodes /\ (h # 0 /\ h < fresh => D!Opened(D!Front(p)) = h)
      BY <1>1, <1>6, <3>1, OpenedKept
    <3>3. i = node'[h].kids[D!Last(p)] /\ i # 0
      BY <1>0, <2>1, <2>4, <3>1, OpenedStepsAfter DEF PathsOpen, D!Child
    <3> HIDE DEF h, i
    <3>4. CASE i = fresh
      <4>1. h = dir /\ D!Last(p) = name
        BY <1>h, <3>1, <3>2, <3>3, <3>4
      <4>2. p = path
        <5>1. D!Front(p) = D!Front(path)
          BY <1>1, <1>p, <3>1, <3>2, <4>1, OnePath
        <5> QED BY <1>p, <3>1, <4>1, <5>1
      <4>3. \A n \in D!NameSet : node'[i].kids[n] # 0 => n = "x" /\ kind = "directory"
        BY <1>0, <1>1, <3>4 DEF Makes
      <4>4. node'[i].kind = kind
        BY <1>1, <3>4 DEF Makes
      <4> QED BY <1>2, <2>0, <4>2, <4>3, <4>4, UnderDirectory DEF i
    <3>5. CASE i # fresh
      <4>1. i = fresh + 1
        <5>1. node'[h].kids[D!Last(p)] \in {fresh, fresh + 1}
          BY <1>h, <2>4, <3>1, <3>2, <3>3 DEF i
        <5> QED BY <3>3, <3>5, <5>1
      <4>2. node'[i].kind = "file" /\ \A n \in D!NameSet : node'[i].kids[n] = 0
        BY <1>1, <4>1 DEF Makes
      <4> QED BY <2>0, <4>2 DEF i
    <3> QED BY <3>4, <3>5
  <2>5. i < fresh \/ i >= fresh
    <3>1. i \in Nat /\ fresh \in Nat
      BY <1>0, <2>1, DeletionConstants
    <3> HIDE DEF i
    <3> QED BY <3>1
  <2> QED BY <2>2, <2>3, <2>4, <2>5
<1> QED BY <1>1, <1>6, <1>7, <1>8, <1>9 DEF NodeInv

\* A step that changes no file.
LEMMA FilesKept ==
  ASSUME NodeInv, UNCHANGED <<node, fresh, edits>>
  PROVE  NodeInv' /\ Evolves
<1>1. NodeTyped'
  BY DEF NodeInv, NodeTyped
<1>2. Prunes
  <2>1. \A i \in D!Inodes : node[i].stamp \in Nat
    BY DEF NodeInv, NodeTyped
  <2> QED BY <2>1 DEF Prunes
<1> QED BY <1>1, <1>2, PrunedKept

\* A file is written.
LEMMA WriteKept ==
  ASSUME NodeInv, NEW path \in D!Places, D!Write(path)
  PROVE  NodeInv' /\ Evolves
<1>1. D!Opened(path) \in D!Inodes
  BY OpenedTyped DEF Levels
<1>2. node \in Table
  BY DEF NodeInv, NodeTyped, Table
<1>3. Stamped(node, node', D!Opened(path))
  <2>1. node' = Stamp(node, D!Opened(path))
    BY DEF D!Write, Stamp
  <2> QED BY <1>1, <1>2, <2>1, StampedInode
<1>4. edits' \in 0 .. MaxEdits /\ fresh' = fresh /\ fresh' \in 8 .. 8 + 2 * edits'
  BY DeletionConstants DEF NodeInv, NodeTyped, D!Write, D!Edits
<1>5. NodeTyped' /\ Prunes
  BY <1>3, <1>4 DEF NodeTyped, Prunes, Stamped, Table
<1> QED BY <1>5, PrunedKept

\* A name is taken from a directory: what of the inodes changes.
Unbinds(dir, name) ==
  /\ node' \in [D!Inodes -> [kind : D!Kinds, stamp : Nat, kids : [D!NameSet -> D!Inodes]]]
  /\ \A i \in D!Inodes : node'[i].kind = node[i].kind /\ node[i].stamp <= node'[i].stamp
  /\ \A i \in D!Inodes : i # dir => node'[i].kids = node[i].kids
  /\ node[dir].stamp < node'[dir].stamp
  /\ \A n \in D!NameSet : node'[dir].kids[n] = IF n = name THEN 0 ELSE node[dir].kids[n]

\* Taking a binding away keeps the tree a tree.
LEMMA UnboundKept ==
  ASSUME NodeInv, NEW dir \in D!Inodes, NEW name \in D!NameSet, Unbinds(dir, name),
         edits' \in 0 .. MaxEdits, edits <= edits', fresh' = fresh
  PROVE  NodeInv' /\ Evolves
<1>1. NodeTyped'
  <2>1. edits \in Nat /\ edits' \in Nat
    BY DeletionConstants DEF NodeInv, NodeTyped
  <2>2. \A a, b \in Nat : a <= b => 8 .. 8 + 2 * a \subseteq 8 .. 8 + 2 * b
    OBVIOUS
  <2>3. fresh' \in 8 .. 8 + 2 * edits'
    <3>1. fresh \in 8 .. 8 + 2 * edits
      BY DEF NodeInv, NodeTyped
    <3> QED BY <2>1, <2>2, <3>1, Zenon
  <2> QED BY <2>3 DEF NodeTyped, Unbinds
<1>2. \A i \in D!Inodes : node'[i].stamp \in Nat /\ node[i].stamp \in Nat
  BY <1>1 DEF NodeInv, NodeTyped
<1>3. Prunes
  <2>1. node'[dir].stamp # node[dir].stamp
    BY <1>2 DEF Unbinds
  <2> QED BY <2>1 DEF Prunes, Unbinds
<1> QED BY <1>1, <1>3, PrunedKept

\* Another program that removes an entry keeps the tree a tree.
LEMMA TakeKept ==
  ASSUME NodeInv, NEW path \in D!Places, D!Take(path)
  PROVE  NodeInv' /\ Evolves
<1> DEFINE dir == D!Opened(D!Front(path))
           name == D!Last(path)
           old == D!Opened(path)
           b == Bind(node, dir, name, 0)
<1>1. dir \in D!Inodes /\ old \in D!Inodes /\ name \in D!NameSet /\ 0 \in D!Inodes
  BY PlaceShape, OpenedTyped, DeletionConstants DEF Levels
<1>2. node \in Table
  BY DEF NodeInv, NodeTyped, Table
<1>3. node' = Stamp(b, old)
  BY DEF D!Take, D!Rebind, Bind, Stamp
<1> HIDE DEF dir, name, old
<1>4. Bound(node, b, dir, name, 0)
  BY <1>1, <1>2, BoundInode
<1> HIDE DEF b
<1>5. Stamped(b, node', old)
  BY <1>1, <1>3, <1>4, StampedInode DEF Bound
<1>6. \A j \in D!Inodes : node[j].stamp \in Nat /\ b[j].stamp \in Nat /\ node'[j].stamp \in Nat
  BY <1>2, <1>4, <1>5 DEF Bound, Stamped, Table
<1>7. Unbinds(dir, name)
  <2>1. \A i \in D!Inodes : node[i].stamp <= node'[i].stamp
    BY <1>4, <1>5, <1>6 DEF Bound, Stamped
  <2>2. node[dir].stamp < node'[dir].stamp
    BY <1>1, <1>4, <1>5, <1>6 DEF Bound, Stamped
  <2> QED BY <1>1, <1>4, <1>5, <2>1, <2>2 DEF Unbinds, Bound, Stamped, Table
<1>8. edits' \in 0 .. MaxEdits /\ edits <= edits' /\ fresh' = fresh
  BY DeletionConstants DEF NodeInv, NodeTyped, D!Take, D!Edits
<1> QED BY <1>1, <1>7, <1>8, UnboundKept

\* So does the deletion, when it removes an entry of the directory it opened.
LEMMA UnlinkKept ==
  ASSUME NodeInv, anchor \in D!Inodes, NEW name \in D!NameSet, UNCHANGED <<fresh, edits>>,
         node' = [node EXCEPT ![anchor].kids[name] = 0, ![anchor].stamp = @ + 1]
  PROVE  NodeInv' /\ Evolves
<1>1. node \in Table /\ 0 \in D!Inodes
  BY DeletionConstants DEF NodeInv, NodeTyped, Table
<1>2. node' = Bind(node, anchor, name, 0)
  BY DEF Bind
<1>3. Bound(node, node', anchor, name, 0)
  BY <1>1, <1>2, BoundInode
<1>4. Unbinds(anchor, name)
  <2>1. node[anchor].stamp \in Nat
    BY <1>1 DEF Table
  <2> QED BY <1>3, <2>1 DEF Bound, Unbinds, Table
<1>5. edits' \in 0 .. MaxEdits /\ edits <= edits' /\ fresh' = fresh
  BY DeletionConstants DEF NodeInv, NodeTyped
<1> QED BY <1>4, <1>5, UnboundKept

(* What of a walk and of a snapshot outlives a change. *)

\* An entry stays what was seen; one that is as it was has been so before, with the same in
\* it; and an inode that was in one directory only is in no other.
LEMMA SeenStays ==
  ASSUME NodeInv, NodeTyped', Evolves, target' = target, NEW e, Seen(e)
  PROVE  Seen(e)'
<1>1. /\ e \in D!SnapshotEntries /\ e.version.inode # 0 /\ e.version.inode < fresh
      /\ e.version.stamp <= node[e.version.inode].stamp
      /\ e.kind = node[e.version.inode].kind /\ D!IsPrefix(target, e.path)
  BY DEF Seen
<1> DEFINE i == e.version.inode
           s == e.version.stamp
<1>2. i \in D!Inodes /\ s \in Nat
  BY <1>1 DEF D!SnapshotEntries
<1>3. i \in Nat /\ fresh \in Nat /\ fresh' \in Nat /\ node[i].stamp \in Nat /\ node'[i].stamp \in Nat
  <2>1. i \in Nat
    BY <1>2, DeletionConstants
  <2>2. fresh \in Nat /\ fresh' \in Nat
    BY DEF NodeInv, NodeTyped
  <2>3. node[i].stamp \in Nat /\ node'[i].stamp \in Nat
    BY <1>2 DEF NodeInv, NodeTyped
  <2> QED BY <2>1, <2>2, <2>3
<1>4. i < fresh' /\ node[i].stamp <= node'[i].stamp /\ node'[i].kind = node[i].kind
  BY <1>1, <1>2, <1>3 DEF Evolves
<1>5. s <= node'[i].stamp
  <2> HIDE DEF s, i
  <2>1. s <= node[i].stamp
    BY <1>1 DEF s, i
  <2> QED BY <1>2, <1>3, <1>4, <2>1
<1> QED BY <1>1, <1>4, <1>5 DEF Seen

\* What is as it was seen after a step was so before it, with the same entries.
LEMMA CurrentBack ==
  ASSUME NodeInv, NodeTyped', Evolves, NEW e, Seen(e), Current(e)'
  PROVE  Current(e) /\ \A n \in D!NameSet : D!Child(D!Opened(e.path), n)' = D!Child(D!Opened(e.path), n)
<1> DEFINE i == e.version.inode
           s == e.version.stamp
<1>1. /\ e.path \in Levels /\ i \in D!Inodes /\ s \in Nat /\ e.version = [inode |-> i, stamp |-> s]
      /\ i # 0 /\ i < fresh /\ s <= node[i].stamp
  BY DEF Seen, D!SnapshotEntries, Levels
<1>2. D!Opened(e.path)' = i /\ node'[i].stamp = s
  BY DEF Current, D!Version
<1>3. D!Opened(e.path) = i
  BY <1>1, <1>2, OpenedKept
<1>4. node[i].stamp \in Nat /\ node'[i].stamp \in Nat /\ node[i].stamp <= node'[i].stamp
  BY <1>1 DEF NodeInv, NodeTyped, Evolves
<1> HIDE DEF i, s
<1>5. node[i].stamp = s /\ node'[i].kids = node[i].kids /\ node'[i].kind = node[i].kind
  BY <1>1, <1>2, <1>4 DEF Evolves
<1> QED BY <1>1, <1>2, <1>3, <1>5 DEF Current, D!Version, D!Child

\* An inode that only one directory ever bound is bound by no other later.
LEMMA OnlyInStays ==
  ASSUME NodeInv, Evolves, NEW i \in D!Inodes, i # 0, i < fresh, NEW dir, OnlyIn(i, dir)
  PROVE  OnlyIn(i, dir)'
<1>1. i \in Nat /\ fresh \in Nat
  BY DeletionConstants DEF NodeInv, NodeTyped
<1>2. ASSUME NEW h \in D!Inodes, NEW m \in D!NameSet, node'[h].kids[m] = i
      PROVE  h = dir
  <2>1. node'[h].kids[m] = node[h].kids[m] \/ node'[h].kids[m] = 0 \/ node'[h].kids[m] >= fresh
    BY DEF Evolves
  <2>2. node[h].kids[m] = i
    BY <1>1, <1>2, <2>1
  <2> QED BY <2>2 DEF OnlyIn
<1> QED BY <1>2 DEF OnlyIn


(* The walk. *)

\* A step of the walk is done, and others come before those that are left.
Pushes(s) ==
  /\ todo \in Seq(Works) /\ todo # <<>> /\ s \in Seq(Works)
  /\ todo' = s \o Tail(todo)

\* What the walk still has to do, when it replaces its first task by others.
LEMMA Pushed ==
  ASSUME NEW s, Pushes(s)
  PROVE  /\ Head(todo) = todo[1] /\ 1 \in 1 .. Len(todo) /\ Head(todo) \in Works
         /\ todo' \in Seq(Works) /\ Len(s) \in Nat
         /\ \A k \in 1 .. Len(s) : k \in 1 .. Len(todo') /\ todo'[k] = s[k]
         /\ \A k \in 2 .. Len(todo) :
              /\ k + Len(s) - 1 \in 1 .. Len(todo') /\ todo'[k + Len(s) - 1] = todo[k]
              /\ k - 1 \in Nat
         /\ \A k \in 1 .. Len(todo') :
              k \in 1 .. Len(s) \/ \E m \in 2 .. Len(todo) : k = m + Len(s) - 1
<1> DEFINE t == Tail(todo)
<1>1. /\ todo \in Seq(Works) /\ todo # <<>> /\ s \in Seq(Works) /\ todo' = s \o t
  BY DEF Pushes
<1>2. /\ t \in Seq(Works) /\ Len(t) = Len(todo) - 1 /\ Len(todo) \in Nat /\ Len(todo) >= 1
      /\ \A k \in 1 .. Len(t) : t[k] = todo[k + 1]
      /\ Head(todo) = todo[1] /\ Head(todo) \in Works
  BY <1>1
<1> HIDE DEF t
<1>3. /\ todo' \in Seq(Works) /\ Len(todo') = Len(s) + Len(t) /\ Len(s) \in Nat /\ Len(t) \in Nat
      /\ \A k \in 1 .. Len(s) : todo'[k] = s[k]
      /\ \A k \in 1 .. Len(t) : todo'[k + Len(s)] = t[k]
  BY <1>1, <1>2, SMTT(30)
<1>4. ASSUME NEW k \in 2 .. Len(todo)
      PROVE  /\ k + Len(s) - 1 \in 1 .. Len(todo') /\ todo'[k + Len(s) - 1] = todo[k]
             /\ k - 1 \in Nat
  <2>1. k - 1 \in 1 .. Len(t) /\ k + Len(s) - 1 = (k - 1) + Len(s) /\ (k - 1) + 1 = k
    BY <1>2, <1>3
  <2>2. todo'[(k - 1) + Len(s)] = t[k - 1] /\ t[k - 1] = todo[(k - 1) + 1]
    BY <1>2, <1>3, <2>1
  <2> QED BY <1>2, <1>3, <2>1, <2>2
<1>5. ASSUME NEW k \in 1 .. Len(todo')
      PROVE  k \in 1 .. Len(s) \/ \E m \in 2 .. Len(todo) : k = m + Len(s) - 1
  <2>1. CASE k > Len(s)
    <3>1. k - Len(s) + 1 \in 2 .. Len(todo) /\ k = (k - Len(s) + 1) + Len(s) - 1
      BY <1>2, <1>3, <2>1
    <3> QED BY <3>1
  <2> QED BY <1>3, <2>1
<1>6. Head(todo) = todo[1] /\ 1 \in 1 .. Len(todo) /\ Head(todo) \in Works
  BY <1>2
<1>7. /\ todo' \in Seq(Works) /\ Len(s) \in Nat
      /\ \A k \in 1 .. Len(s) : k \in 1 .. Len(todo') /\ todo'[k] = s[k]
  BY <1>3
<1> QED BY <1>4, <1>5, <1>6, <1>7

\* The entries stay, and more may come after them.
EntriesKept == \A j \in 1 .. Len(entries) : j \in 1 .. Len(entries') /\ entries'[j] = entries[j]

\* What holds of a step does when it comes later or earlier.
LEMMA StepMoves ==
  ASSUME NEW s, Pushes(s), target' = target, EntriesKept, NEW k \in 2 .. Len(todo), StepKept(k)
  PROVE  StepKept(k + Len(s) - 1)'
<1> DEFINE h == k + Len(s) - 1
<1>1. todo'[h] = todo[k] /\ h \in 1 .. Len(todo') /\ Len(s) \in Nat /\ k \in Nat
  BY Pushed
<1>2. D!IsPrefix(target', todo'[h].path)
  BY <1>1 DEF StepKept
<1>3. todo'[h].step \in {"list", "still"} =>
        Len(todo'[h].path) < 3 /\ \E j \in 1 .. Len(entries') : DirectoryOf(entries'[j], todo'[h])
  BY <1>1 DEF StepKept, EntriesKept
<1>4. ASSUME todo'[h].step = "visit", todo'[h].path # target'
      PROVE  \E m \in h + 1 .. Len(todo') : todo'[m].step = "still"
               /\ todo'[m].path = D!Front(todo'[h].path)
  <2>1. PICK m \in k + 1 .. Len(todo) : todo[m].step = "still" /\ todo[m].path = D!Front(todo[k].path)
    BY <1>1, <1>4 DEF StepKept
  <2>2. m \in 2 .. Len(todo)
    BY <2>1
  <2>3. m + Len(s) - 1 \in 1 .. Len(todo') /\ todo'[m + Len(s) - 1] = todo[m]
    BY <2>2, Pushed
  <2>4. m + Len(s) - 1 \in h + 1 .. Len(todo')
    BY <1>1, <2>1, <2>3
  <2> QED BY <1>1, <2>1, <2>3, <2>4
<1> HIDE DEF h
<1>5. StepKept(h)'
  BY <1>2, <1>3, <1>4 DEF StepKept, DirectoryOf
<1> QED BY <1>5 DEF h

\* An entry stays where it was found.
LEMMA FoundInStays ==
  ASSUME NodeInv, NodeTyped', Evolves, NEW e, Seen(e), NEW d, Seen(d), FoundIn(e, d),
         \A m \in 1 .. Len(todo) : todo[m].step = "still" /\ DirectoryOf(d, todo[m]) /\ ~Current(d) =>
           \E h \in 1 .. Len(todo') : todo'[h] = todo[m]
  PROVE  FoundIn(e, d)'
<1>1. CASE OnlyIn(e.version.inode, d.version.inode)
  <2>1. e.version.inode \in D!Inodes /\ e.version.inode # 0 /\ e.version.inode < fresh
    BY DEF Seen, D!SnapshotEntries
  <2>2. OnlyIn(e.version.inode, d.version.inode)'
    BY <1>1, <2>1, OnlyInStays
  <2> QED BY <2>2 DEF FoundIn
<1>2. CASE ToMiss(d)
  <2>1. PICK m \in 1 .. Len(todo) : todo[m].step = "still" /\ DirectoryOf(d, todo[m])
    BY <1>2 DEF ToMiss
  <2>2. ~Current(d) /\ ~Current(d)'
    BY <1>2, CurrentBack DEF ToMiss
  <2>3. PICK h \in 1 .. Len(todo') : todo'[h] = todo[m]
    BY <2>1, <2>2
  <2>4. todo'[h].step = "still" /\ DirectoryOf(d, todo[h])'
    BY <2>1, <2>3 DEF DirectoryOf
  <2>5. ToMiss(d)'
    BY <2>2, <2>4 DEF ToMiss
  <2> QED BY <2>5 DEF FoundIn
<1> QED BY <1>1, <1>2 DEF FoundIn

\* A directory stays one that has nothing that was not reached.
LEMMA ExhaustedStays ==
  ASSUME NodeInv, NodeTyped', Evolves, NEW d, Seen(d), Exhausted(d),
         \A p \in Seq(D!NameSet) : Reached(p) => Reached(p)'
  PROVE  Exhausted(d)'
<1>1. SUFFICES ASSUME Current(d)', NEW n \in D!NameSet, D!Child(D!Opened(d.path), n)' # 0
               PROVE  Reached(Append(d.path, n))'
  BY DEF Exhausted
<1>2. Current(d) /\ D!Child(D!Opened(d.path), n) # 0
  BY <1>1, CurrentBack
<1>3. Reached(Append(d.path, n))
  BY <1>2 DEF Exhausted
<1>4. Append(d.path, n) \in Seq(D!NameSet)
  <2>1. d.path \in Levels
    BY DEF Seen, D!SnapshotEntries, Levels
  <2> QED BY <2>1, BelowLevel
<1> QED BY <1>3, <1>4

\* The second look at a directory that has changed is not passed.
StillsKept ==
  \A j \in 1 .. Len(entries), m \in 1 .. Len(todo) :
    todo[m].step = "still" /\ DirectoryOf(entries[j], todo[m]) /\ ~Current(entries[j]) =>
      \E h \in 1 .. Len(todo') : todo'[h] = todo[m]
ReachedKept == \A p \in Seq(D!NameSet) : Reached(p) => Reached(p)'

\* What the walk has seen, it has seen after a change of the files too.
LEMMA EntriesStay ==
  ASSUME NodeInv, NodeTyped', Evolves, target' = target, WalkInv, EntriesKept, StillsKept
  PROVE  \A k \in 1 .. Len(entries) : Seen(entries[k])' /\ ParentKept(k)'
<1>1. ASSUME NEW k \in 1 .. Len(entries)
      PROVE  Seen(entries[k])'
  <2>1. Seen(entries[k]) /\ entries'[k] = entries[k]
    BY DEF WalkInv, EntriesKept
  <2> DEFINE e == entries[k]
  <2>2. \A d : Seen(d) => Seen(d)'
    BY SeenStays
  <2> QED BY <2>1, <2>2
<1>2. ASSUME NEW k \in 1 .. Len(entries), entries[k].path # target
      PROVE  \E j \in 1 .. k - 1 :
               /\ entries'[j].path = D!Front(entries'[k].path) /\ entries'[j].kind = "directory"
               /\ FoundIn(entries[k], entries[j])'
  <2>1. PICK j \in 1 .. k - 1 :
               /\ entries[j].path = D!Front(entries[k].path) /\ entries[j].kind = "directory"
               /\ FoundIn(entries[k], entries[j])
    BY <1>2 DEF WalkInv, ParentsKept, ParentKept
  <2>2. j \in 1 .. Len(entries)
    OBVIOUS
  <2>3. entries'[j] = entries[j] /\ entries'[k] = entries[k] /\ Seen(entries[j]) /\ Seen(entries[k])
    BY <2>2 DEF WalkInv, EntriesKept
  <2>4. \A m \in 1 .. Len(todo) :
          todo[m].step = "still" /\ DirectoryOf(entries[j], todo[m]) /\ ~Current(entries[j]) =>
            \E h \in 1 .. Len(todo') : todo'[h] = todo[m]
    BY <2>2 DEF StillsKept
  <2>5. \A e, d : Seen(e) /\ Seen(d) /\ FoundIn(e, d)
                  /\ (\A m \in 1 .. Len(todo) :
                        todo[m].step = "still" /\ DirectoryOf(d, todo[m]) /\ ~Current(d) =>
                          \E h \in 1 .. Len(todo') : todo'[h] = todo[m])
                  => FoundIn(e, d)'
    BY FoundInStays
  <2>6. FoundIn(entries[k], entries[j])'
    BY <2>1, <2>3, <2>4, <2>5
  <2> QED BY <2>1, <2>3, <2>6
<1>3. ASSUME NEW k \in 1 .. Len(entries)
      PROVE  ParentKept(k)'
  <2>1. entries'[k] = entries[k]
    BY DEF EntriesKept
  <2> QED BY <1>2, <2>1 DEF ParentKept
<1> QED BY <1>1, <1>3

\* A directory that is as it was seen, and all of whose entries were seen, stays so.
LEMMA ExhaustedKept ==
  ASSUME NodeInv, NodeTyped', Evolves, WalkInv, EntriesKept, ReachedKept,
         NEW k \in 1 .. Len(entries), Exhausted(entries[k])
  PROVE  Exhausted(entries[k])'
<1>1. entries'[k] = entries[k] /\ Seen(entries[k])
  BY DEF WalkInv, EntriesKept
<1>2. \A d : Seen(d) /\ Exhausted(d) => Exhausted(d)'
  BY ExhaustedStays DEF ReachedKept
<1> QED BY <1>1, <1>2

\* Nothing of the walk is lost when others change files.
LEMMA WalkStays ==
  ASSUME NodeInv, NodeTyped', Evolves, WalkInv, UNCHANGED <<target, todo, entries>>
  PROVE  WalkInv'
<1>1. EntriesKept /\ StillsKept /\ ReachedKept
  BY DEF EntriesKept, StillsKept, ReachedKept, Reached
<1>2. \A k \in 1 .. Len(entries) : Seen(entries[k])' /\ ParentKept(k)'
  BY <1>1, EntriesStay
<1>3. StepsKept'
  BY DEF WalkInv, StepsKept, StepKept, DirectoryOf
<1>4. AllReached'
  <2>1. Reached(target)'
    BY DEF WalkInv, AllReached, Reached
  <2>2. ASSUME NEW j \in 1 .. Len(entries), entries[j].kind = "directory"
        PROVE  ToList(entries[j].path)' \/ Exhausted(entries[j])'
    <3>1. ToList(entries[j].path) \/ Exhausted(entries[j])
      BY <2>2 DEF WalkInv, AllReached
    <3>2. ToList(entries[j].path) => ToList(entries[j].path)'
      BY DEF ToList
    <3>3. Exhausted(entries[j]) => Exhausted(entries[j])'
      BY <1>1, ExhaustedKept
    <3> QED BY <3>1, <3>2, <3>3
  <2> QED BY <2>1, <2>2 DEF AllReached
<1>5. ReachedOnce'
  BY DEF WalkInv, ReachedOnce, OnceKept, Reached
<1> QED BY <1>2, <1>3, <1>4, <1>5 DEF WalkInv, ParentsKept

\* What is before the last name of a path is shorter.
LEMMA FrontShorter ==
  ASSUME NEW p \in D!Places
  PROVE  /\ Len(D!Front(p)) = Len(p) - 1 /\ Len(D!Front(D!Front(p))) < Len(p) /\ Len(p) \in 1 .. 3
         /\ Len(p) > 1 => D!Front(p) \in D!Places /\ Len(D!Front(D!Front(p))) = Len(p) - 2
         /\ ~Below(p, p)
<1>1. Len(D!Front(p)) = Len(p) - 1 /\ Len(p) \in 1 .. 3 /\ D!Front(p) \in Levels
  BY PlaceShape
<1>2. CASE D!Front(p) = <<>>
  <2>1. Len(D!Front(p)) = 0
    BY <1>2
  <2>2. Len(D!Front(D!Front(p))) = 0
    <3>1. D!Front(<<>>) = <<>>
      BY DEF D!Front
    <3> QED BY <1>2, <3>1
  <2>3. Len(p) = 1 /\ Len(D!Front(p)) # Len(p) /\ Len(D!Front(D!Front(p))) # Len(p)
    BY <1>1, <2>1, <2>2
  <2>4. ~Below(p, p)
    BY <2>3, Zenon DEF Below
  <2> QED BY <1>1, <2>2, <2>3, <2>4
<1>3. CASE D!Front(p) # <<>>
  <2>1. D!Front(p) \in D!Places
    BY <1>1, <1>3 DEF Levels
  <2>2. Len(D!Front(D!Front(p))) = Len(D!Front(p)) - 1 /\ Len(D!Front(p)) \in 1 .. 3
    BY <2>1, PlaceShape
  <2>3. Len(D!Front(p)) # Len(p) /\ Len(D!Front(D!Front(p))) # Len(p)
    BY <1>1, <2>2
  <2>4. ~Below(p, p)
    BY <2>3, Zenon DEF Below
  <2> QED BY <1>1, <2>1, <2>2, <2>4
<1> QED BY <1>2, <1>3

\* A walk starts at the target.
LEMMA StartWalkKept ==
  ASSUME target' \in D!Places, D!StartWalk(target')
  PROVE  WalkInv'
<1> DEFINE w == D!Work("visit", target', D!NoVersion)
<1>0. w.step = "visit" /\ w.path = target' /\ w \in Works
  <2>1. D!NoVersion \in [inode : D!Inodes, stamp : Nat]
    BY DeletionConstants DEF D!NoVersion
  <2> QED BY <2>1 DEF D!Work, Works
<1> HIDE DEF w
<1>1. todo' = <<w>> /\ entries' = <<>>
  BY DEF D!StartWalk, w
<1>2. /\ Len(todo') = 1 /\ todo'[1] = w /\ todo' \in Seq(Works) /\ Len(entries') = 0
      /\ \A k \in 1 .. Len(todo') : todo'[k] = w /\ k = 1
      /\ 1 \in 1 .. Len(todo')
  BY <1>0, <1>1
<1>3. D!IsPrefix(target', target')
  <2>1. target' \in Seq(D!NameSet)
    BY PlaceShape
  <2> QED BY <2>1 DEF D!IsPrefix
<1>4. \A k \in 1 .. Len(todo') : StepKept(k)'
  BY <1>0, <1>2, <1>3 DEF StepKept
<1>5. AllReached' /\ ParentsKept' /\ \A k \in 1 .. Len(entries') : Seen(entries[k])'
  BY <1>0, <1>2 DEF AllReached, Reached, ParentsKept
<1>6. \A k \in 1 .. Len(todo') : OnceKept(k)'
  <2>1. \A p : Reached(p)' => p = target'
    BY <1>0, <1>2 DEF Reached
  <2>2. ~Below(target', target')
    BY FrontShorter
  <2> QED BY <1>0, <1>2, <2>1, <2>2 DEF OnceKept
<1> QED BY <1>2, <1>4, <1>5, <1>6 DEF WalkInv, StepsKept, ReachedOnce

\* What was reached once is reached once after a step.
LEMMA OnceMoves ==
  ASSUME NEW s, Pushes(s), NEW k \in 2 .. Len(todo), OnceKept(k),
         todo[k].step \in {"visit", "list"} =>
           /\ \A p \in D!Places : Reached(p)' => Reached(p) \/ ~Below(todo[k].path, p)
           /\ todo[k].step = "visit" => \A j \in 1 .. Len(entries') : entries'[j].path # todo[k].path
           /\ \A i \in 1 .. Len(s) : ~(s[i].step = todo[k].step /\ s[i].path = todo[k].path)
  PROVE  OnceKept(k + Len(s) - 1)'
<1> DEFINE h == k + Len(s) - 1
<1>1. todo'[h] = todo[k] /\ h \in 1 .. Len(todo') /\ Len(s) \in Nat /\ k \in Nat
  <2>1. /\ \A j \in 2 .. Len(todo) : j + Len(s) - 1 \in 1 .. Len(todo') /\ todo'[j + Len(s) - 1] = todo[j]
        /\ Len(s) \in Nat
    BY Pushed
  <2> QED BY <2>1
<1> HIDE DEF h
<1>2. SUFFICES ASSUME todo'[h].step \in {"visit", "list"}
               PROVE  /\ \A p \in D!Places : Reached(p)' => ~Below(todo'[h].path, p)
                      /\ todo'[h].step = "visit"
                           => \A j \in 1 .. Len(entries') : entries'[j].path # todo'[h].path
                      /\ \A m \in 1 .. Len(todo') :
                           todo'[m].step = todo'[h].step /\ todo'[m].path = todo'[h].path => m = h
  BY DEF OnceKept, h
<1>3. /\ \A p \in D!Places : Reached(p) => ~Below(todo[k].path, p)
      /\ \A m \in 1 .. Len(todo) : todo[m].step = todo[k].step /\ todo[m].path = todo[k].path => m = k
  BY <1>1, <1>2 DEF OnceKept
<1>4. \A p \in D!Places : Reached(p)' => ~Below(todo'[h].path, p)
  BY <1>1, <1>2, <1>3
<1>5. ASSUME NEW m \in 1 .. Len(todo'), todo'[m].step = todo'[h].step, todo'[m].path = todo'[h].path
      PROVE  m = h
  <2>1. CASE m \in 1 .. Len(s)
    <3>1. todo'[m] = s[m]
      BY <2>1, Pushed
    <3> QED BY <1>1, <1>2, <1>5, <2>1, <3>1
  <2>2. CASE \E i \in 2 .. Len(todo) : m = i + Len(s) - 1
    <3>1. PICK i \in 2 .. Len(todo) : m = i + Len(s) - 1
      BY <2>2
    <3>2. todo'[m] = todo[i]
      BY <3>1, Pushed
    <3>3. i \in 1 .. Len(todo)
      OBVIOUS
    <3>4. i = k
      BY <1>1, <1>3, <1>5, <3>2, <3>3
    <3> QED BY <3>1, <3>4 DEF h
  <2> QED BY <2>1, <2>2, Pushed
<1> QED BY <1>1, <1>2, <1>4, <1>5

\* An entry is looked at, and noted: what it is then, and the steps that follow from it.
NewEntry == D!Entry(Head(todo).path, D!Opened(Head(todo).path))
Follows(s, e) ==
  /\ Pushes(s) /\ Len(s) \in 0 .. 1
  /\ \A k \in 1 .. Len(s) : s[k].step \in {"hash", "list"} /\ s[k].path = e.path /\ s[k].version = e.version
  /\ \A k \in 1 .. Len(s) : s[k].step = "list" => e.kind = "directory" /\ Len(e.path) < 3
  /\ e.kind = "directory" => 1 \in 1 .. Len(s) /\ s[1].step = "list"

\* What Visit appends was seen, is as it was seen, and is none of the denied paths.
LEMMA Visited ==
  ASSUME NodeInv, StepsKept, D!Visit, entries \in D!Snapshots
  PROVE  /\ Seen(NewEntry) /\ Current(NewEntry) /\ ~D!Matches(NewEntry.path, Denied)
         /\ NewEntry.path = todo[1].path /\ todo[1].step = "visit"
         /\ entries' = Append(entries, NewEntry)
         /\ \E s : Follows(s, NewEntry)
<1> DEFINE path == Head(todo).path
           i == D!Opened(path)
           e == D!Entry(path, i)
           next == CASE node[i].kind = "file" -> <<D!Work("hash", path, D!Version(i))>>
                     [] node[i].kind = "directory" -> <<D!Work("list", path, D!Version(i))>>
                     [] OTHER -> <<>>
<1>1. /\ todo # <<>> /\ todo \in Seq(Works) /\ Head(todo) = todo[1] /\ Head(todo) \in Works
      /\ 1 \in 1 .. Len(todo) /\ Head(todo).step = "visit" /\ path \in D!Places
  <2>1. todo # <<>> /\ todo \in Seq(Works) /\ Head(todo).step = "visit"
    BY DEF D!Visit, D!Walking, StepsKept
  <2>2. Head(todo) = todo[1] /\ Head(todo) \in Works /\ 1 \in 1 .. Len(todo)
    BY <2>1
  <2> QED BY <2>1, <2>2 DEF Works
<1>2. D!Permitted(path) /\ D!Target(path) # 0
  BY <1>1 DEF D!Visit, D!Walking, D!Passes, D!VisitPasses
<1>3. D!Target(path) = i /\ ~D!Matches(path, Denied)
  BY <1>1, <1>2, PermittedOpen
<1>4. i \in D!Inodes /\ i < fresh /\ i # 0
  BY <1>1, <1>2, <1>3, OpenedTyped DEF Levels
<1>5. entries' = Append(entries, e) /\ todo' = next \o Tail(todo)
  BY <1>3 DEF D!Visit
<1> HIDE DEF path, i, next
<1>6. /\ e.path = path /\ e.kind = node[i].kind /\ e.version = D!Version(i)
      /\ D!Version(i) = [inode |-> i, stamp |-> node[i].stamp]
      /\ node[i].kind \in D!Kinds /\ node[i].stamp \in Nat
      /\ D!Version(i) \in [inode : D!Inodes, stamp : Nat]
  BY <1>4 DEF D!Entry, D!Version, NodeInv, NodeTyped
<1>7. Seen(e)
  <2>1. e \in D!SnapshotEntries
    BY <1>1, <1>6 DEF D!Entry, D!SnapshotEntries
  <2>2. D!IsPrefix(target, path)
    BY <1>1 DEF StepsKept, StepKept, path
  <2>3. e.version.inode = i /\ e.version.stamp = node[i].stamp
    BY <1>6
  <2> HIDE DEF e
  <2> QED BY <1>4, <1>6, <2>1, <2>2, <2>3 DEF Seen
<1>8. Current(e)
  BY <1>6 DEF Current, i
<1>9. Follows(next, e)
  <2>1. ASSUME NEW step \in {"hash", "list"}
        PROVE  /\ D!Work(step, path, D!Version(i)) \in Works
               /\ D!Work(step, path, D!Version(i)).step = step
                    /\ D!Work(step, path, D!Version(i)).path = e.path
               /\ D!Work(step, path, D!Version(i)).version = e.version
    BY <1>1, <1>6 DEF D!Work, Works
  <2>2. CASE e.kind = "file"
    <3> DEFINE w == D!Work("hash", path, D!Version(i))
    <3>1. next = <<w>>
      BY <1>6, <2>2 DEF next
    <3>2. w \in Works /\ w.step = "hash" /\ w.path = e.path /\ w.version = e.version
      BY <2>1
    <3> HIDE DEF w, e
    <3>3. next \in Seq(Works) /\ Len(next) = 1 /\ \A k \in 1 .. Len(next) : next[k] = w
      BY <3>1, <3>2
    <3> QED BY <1>1, <1>5, <2>2, <3>2, <3>3 DEF Follows, Pushes
  <2>3. CASE e.kind = "directory"
    <3> DEFINE w == D!Work("list", path, D!Version(i))
    <3>1. next = <<w>>
      BY <1>6, <2>3 DEF next
    <3>2. w \in Works /\ w.step = "list" /\ w.path = e.path /\ w.version = e.version
      BY <2>1
    <3>3. Len(path) < 3
      <4>1. path \in Levels /\ Len(path) \in 1 .. 3
        BY <1>1, PlaceShape DEF Levels
      <4>2. Len(path) # 3
        <5>1. Len(path) = 3 => node[D!Opened(path)].kind # "directory"
          BY <4>1 DEF NodeInv, LevelsKept
        <5>2. node[D!Opened(path)].kind = "directory"
          <6>1. i = D!Opened(path)
            BY DEF i
          <6>2. node[i].kind = "directory"
            BY <1>6, <2>3
          <6> HIDE DEF e
          <6> QED BY <6>1, <6>2
        <5> QED BY <5>1, <5>2
      <4>3. \A k \in 1 .. 3 : k # 3 => k < 3
        OBVIOUS
      <4> QED BY <4>1, <4>2, <4>3, Zenon
    <3> HIDE DEF w
    <3>4. next \in Seq(Works) /\ Len(next) = 1 /\ \A k \in 1 .. Len(next) : next[k] = w
      BY <3>1, <3>2
    <3>5. Len(e.path) < 3
      BY <1>6, <3>3
    <3> HIDE DEF e
    <3> QED BY <1>1, <1>5, <2>3, <3>2, <3>4, <3>5 DEF Follows, Pushes
  <2>4. CASE e.kind # "file" /\ e.kind # "directory"
    <3>1. next = <<>>
      BY <1>6, <2>4 DEF next
    <3> HIDE DEF e
    <3> QED BY <1>1, <1>5, <2>4, <3>1 DEF Follows, Pushes
  <2> QED BY <2>2, <2>3, <2>4
<1>10. e = NewEntry
  BY DEF NewEntry, path, i
<1> QED BY <1>1, <1>3, <1>5, <1>6, <1>7, <1>8, <1>9, <1>10 DEF path

\* Visiting a name keeps what is known of the walk.
LEMMA VisitWalk ==
  ASSUME NodeInv, NodeTyped', Evolves, WalkInv, D!Visit, target' = target, entries \in D!Snapshots
  PROVE  WalkInv'
<1>e. PICK e : e = NewEntry
  OBVIOUS
<1>n. PICK n : n = Len(entries) + 1
  OBVIOUS
<1>1. /\ Seen(e) /\ Current(e) /\ e.path = todo[1].path /\ todo[1].step = "visit"
      /\ entries' = Append(entries, e)
  BY <1>e, Visited DEF WalkInv
<1>2. PICK s : Follows(s, e)
  BY <1>e, Visited DEF WalkInv
<1>3. /\ entries' \in Seq(D!SnapshotEntries) /\ Len(entries') = n /\ n \in Nat /\ n \in 1 .. Len(entries')
      /\ entries'[n] = e /\ \A j \in 1 .. Len(entries) : entries'[j] = entries[j]
      /\ \A j \in 1 .. Len(entries') : j \in 1 .. Len(entries) \/ j = n
      /\ 1 .. n - 1 = 1 .. Len(entries)
  BY <1>1, <1>n DEF D!Snapshots, Seen
<1>4. /\ Pushes(s) /\ Len(s) \in 0 .. 1
      /\ \A k \in 1 .. Len(s) : s[k].step \in {"hash", "list"} /\ s[k].path = e.path
           /\ s[k].version = e.version
      /\ \A k \in 1 .. Len(s) : s[k].step = "list" => e.kind = "directory" /\ Len(e.path) < 3
      /\ e.kind = "directory" => 1 \in 1 .. Len(s) /\ s[1].step = "list"
  BY <1>2 DEF Follows
<1>5. /\ 1 \in 1 .. Len(todo)
      /\ todo' \in Seq(Works)
      /\ \A k \in 1 .. Len(s) : k \in 1 .. Len(todo') /\ todo'[k] = s[k]
      /\ \A k \in 2 .. Len(todo) :
           k + Len(s) - 1 \in 1 .. Len(todo') /\ todo'[k + Len(s) - 1] = todo[k]
      /\ \A k \in 1 .. Len(todo') :
           k \in 1 .. Len(s) \/ \E m \in 2 .. Len(todo) : k = m + Len(s) - 1
  BY <1>4, Pushed
<1>6. \A k \in 1 .. Len(todo) : k = 1 \/ k \in 2 .. Len(todo)
  OBVIOUS
<1>7. EntriesKept
  BY <1>3 DEF EntriesKept
<1>8. StillsKept
  BY <1>1, <1>5, <1>6 DEF StillsKept
<1>9. ReachedKept
  <2> SUFFICES ASSUME NEW p \in Seq(D!NameSet), Reached(p) PROVE Reached(p)'
    BY DEF ReachedKept
  <2>1. CASE \E k \in 1 .. Len(entries) : entries[k].path = p
    BY <1>7, <2>1 DEF EntriesKept, Reached
  <2>2. CASE \E k \in 1 .. Len(todo) : todo[k].step = "visit" /\ todo[k].path = p
    <3>1. PICK k \in 1 .. Len(todo) : todo[k].step = "visit" /\ todo[k].path = p
      BY <2>2
    <3>2. CASE k = 1
      <4>1. \E j \in 1 .. Len(entries') : entries'[j].path = p
        BY <1>1, <1>3, <3>1, <3>2, SMTT(30)
      <4> QED BY <4>1 DEF Reached
    <3>3. CASE k \in 2 .. Len(todo)
      <4>1. k + Len(s) - 1 \in 1 .. Len(todo') /\ todo'[k + Len(s) - 1] = todo[k]
        BY <1>5, <3>3, Zenon
      <4>2. \E j \in 1 .. Len(todo') : todo'[j].step = "visit" /\ todo'[j].path = p
        <5> DEFINE j == k + Len(s) - 1
        <5>1. j \in 1 .. Len(todo') /\ todo'[j] = todo[k]
          BY <4>1, Zenon
        <5> HIDE DEF j
        <5> QED BY <3>1, <5>1, Zenon
      <4> QED BY <4>2, Zenon DEF Reached
    <3> QED BY <1>6, <3>2, <3>3
  <2> QED BY <2>1, <2>2 DEF Reached
<1>10. \A p : Reached(p)' => Reached(p)
  <2> SUFFICES ASSUME NEW p, Reached(p)' PROVE Reached(p)
    OBVIOUS
  <2>1. CASE \E k \in 1 .. Len(entries') : entries'[k].path = p
    BY <1>1, <1>3, <1>5, <2>1 DEF Reached
  <2>2. CASE \E k \in 1 .. Len(todo') : todo'[k].step = "visit" /\ todo'[k].path = p
    <3>1. PICK k \in 1 .. Len(todo') : todo'[k].step = "visit" /\ todo'[k].path = p
      BY <2>2
    <3>2. PICK m \in 2 .. Len(todo) : k = m + Len(s) - 1
      BY <1>4, <1>5, <3>1
    <3>3. todo[m].step = "visit" /\ todo[m].path = p /\ m \in 1 .. Len(todo)
      BY <1>5, <3>1, <3>2
    <3> QED BY <3>3 DEF Reached
  <2> QED BY <2>1, <2>2 DEF Reached
<1>11. StepsKept'
  <2>1. ASSUME NEW k \in 1 .. Len(s)
        PROVE  StepKept(k)'
    <3>1. todo'[k].step \in {"hash", "list"} /\ todo'[k].path = e.path /\ todo'[k].version = e.version
      BY <1>4, <1>5
    <3>2. D!IsPrefix(target', e.path)
      BY <1>1 DEF Seen
    <3>3. todo'[k].step = "list" => Len(e.path) < 3 /\ DirectoryOf(entries[n], todo[k])'
      BY <1>3, <1>4, <1>5, <3>1 DEF DirectoryOf
    <3> QED BY <1>3, <3>1, <3>2, <3>3 DEF StepKept
  <2>2. ASSUME NEW k \in 1 .. Len(todo'), NEW m \in 2 .. Len(todo), k = m + Len(s) - 1
        PROVE  StepKept(k)'
    <3>1. StepKept(m)
      BY DEF WalkInv, StepsKept
    <3>2. StepKept(m + Len(s) - 1)'
      BY <1>4, <1>7, <3>1, StepMoves
    <3> QED BY <2>2, <3>2
  <2>3. \A k \in 1 .. Len(todo') : StepKept(k)'
    BY <1>5, <2>1, <2>2
  <2> QED BY <1>5, <2>3 DEF StepsKept
<1>12. \A k \in 1 .. Len(entries) : Seen(entries[k])' /\ ParentKept(k)'
  BY <1>7, <1>8, EntriesStay
<1>13. Seen(e)' /\ (Current(e)' => Current(e))
  BY <1>1, SeenStays, CurrentBack
<1>14. ParentKept(n)'
  <2> SUFFICES ASSUME e.path # target
               PROVE  \E j \in 1 .. n - 1 :
                        /\ entries'[j].path = D!Front(e.path) /\ entries'[j].kind = "directory"
                        /\ FoundIn(e, entries[j])'
    BY <1>3 DEF ParentKept
  <2>1. StepKept(1) /\ todo \in Seq(Works)
    BY <1>5 DEF WalkInv, StepsKept
  <2>2. PICK m \in 2 .. Len(todo) : todo[m].step = "still" /\ todo[m].path = D!Front(e.path)
    BY <1>1, <2>1 DEF StepKept
  <2>3. StepKept(m)
    BY DEF WalkInv, StepsKept
  <2>4. PICK j \in 1 .. Len(entries) : DirectoryOf(entries[j], todo[m])
    BY <2>2, <2>3 DEF StepKept
  <2>d. PICK d : d = entries[j]
    OBVIOUS
  <2>5. /\ entries'[j] = d /\ j \in 1 .. n - 1 /\ Seen(d)
        /\ d.path = D!Front(e.path) /\ d.kind = "directory"
    BY <1>3, <2>2, <2>4, <2>d DEF DirectoryOf, WalkInv
  <2>6. FoundIn(e, d)
    <3>1. CASE Current(d)
      <4>1. e.path \in D!Places
        BY <1>1 DEF Seen, D!SnapshotEntries
      <4>2. e.version.inode = D!Opened(e.path) /\ d.version.inode = D!Opened(D!Front(e.path))
              /\ e.version.inode # 0
        BY <1>1, <2>5, <3>1 DEF Current, D!Version, Seen
      <4>3. InDirectory(e.path) /\ D!Last(e.path) \in D!NameSet
        <5>1. e.path \in Levels /\ e.path # <<>>
          BY <4>1, PlaceShape DEF Levels
        <5> QED BY <4>1, <4>2, <5>1, OpenedTyped, PlaceShape
      <4>4. OnlyIn(e.version.inode, d.version.inode)
        BY <4>2, <4>3 DEF InDirectory, OnlyIn, NodeInv, Bindings
      <4> QED BY <4>4 DEF FoundIn
    <3>2. CASE ~Current(d)
      <4>1. ToMiss(d)
        BY <2>2, <2>4, <2>d, <3>2 DEF ToMiss
      <4> QED BY <4>1 DEF FoundIn
    <3> QED BY <3>1, <3>2
  <2>7. \A k \in 1 .. Len(todo) : todo[k].step = "still" /\ DirectoryOf(d, todo[k]) /\ ~Current(d) =>
          \E h \in 1 .. Len(todo') : todo'[h] = todo[k]
    BY <1>8, <2>d DEF StillsKept
  <2>8. FoundIn(e, d)'
    BY <1>1, <2>5, <2>6, <2>7, FoundInStays
  <2> QED BY <2>5, <2>8
<1>15. AllReached'
  <2>1. Reached(target)'
    <3>1. Reached(target)
      BY DEF WalkInv, AllReached
    <3>2. target \in Seq(D!NameSet)
      <4>1. \A k \in 1 .. Len(entries) : entries[k].path \in D!Places
        BY DEF WalkInv, Seen, D!SnapshotEntries
      <4>2. \A k \in 1 .. Len(todo) : todo[k].path \in D!Places
        <5>1. todo \in Seq(Works)
          BY DEF WalkInv, StepsKept
        <5>2. \A k \in 1 .. Len(todo) : todo[k] \in Works
          BY <5>1, ElementOfSeq
        <5> QED BY <5>2 DEF Works
      <4>3. target \in D!Places
        BY <3>1, <4>1, <4>2 DEF Reached
      <4> QED BY <4>3, PlaceShape
    <3>3. \E p : p = target /\ p \in Seq(D!NameSet) /\ Reached(p)
      BY <3>1, <3>2
    <3> QED BY <1>9, <3>3 DEF ReachedKept
  <2>2. ASSUME NEW j \in 1 .. Len(entries'), entries'[j].kind = "directory"
        PROVE  ToList(entries[j].path)' \/ Exhausted(entries[j])'
    <3>1. CASE j = n
      <4>1. 1 \in 1 .. Len(s) /\ s[1].step = "list" /\ s[1].path = e.path
        BY <1>3, <1>4, <2>2, <3>1
      <4>2. ToList(entries[j].path)'
        BY <1>3, <1>5, <3>1, <4>1 DEF ToList
      <4> QED BY <4>2
    <3>2. CASE j \in 1 .. Len(entries)
      <4>1. entries'[j] = entries[j]
        BY <1>3, <3>2
      <4>2. ToList(entries[j].path) \/ Exhausted(entries[j])
        BY <2>2, <3>2, <4>1 DEF WalkInv, AllReached
      <4>3. Exhausted(entries[j]) => Exhausted(entries[j])'
        BY <1>7, <1>9, <3>2, ExhaustedKept
      <4>4. ToList(entries[j].path) => ToList(entries[j].path)'
        <5> SUFFICES ASSUME NEW m \in 1 .. Len(todo), todo[m].step = "list", todo[m].path = entries[j].path
                     PROVE  \E k \in 1 .. Len(todo') : todo'[k].step = "list"
                              /\ todo'[k].path = entries'[j].path
          BY DEF ToList
        <5>1. m \in 2 .. Len(todo)
          BY <1>1, <1>6
        <5>2. m + Len(s) - 1 \in 1 .. Len(todo') /\ todo'[m + Len(s) - 1] = todo[m]
          BY <1>5, <5>1
        <5> QED BY <4>1, <5>2
      <4> QED BY <4>2, <4>3, <4>4
    <3> QED BY <1>3, <3>1, <3>2
  <2> QED BY <2>1, <2>2 DEF AllReached
<1>16. ReachedOnce'
  <2>0. OnceKept(1) /\ \A k \in 2 .. Len(todo) : OnceKept(k)
    BY <1>5, <1>6 DEF WalkInv, ReachedOnce
  <2>1. \A j \in 1 .. Len(entries) : entries[j].path # e.path
    BY <1>1, <2>0 DEF OnceKept
  <2>2. \A j, k \in 1 .. Len(entries') : entries'[j].path = entries'[k].path => j = k
    <3>1. \A j, k \in 1 .. Len(entries) : entries[j].path = entries[k].path => j = k
      BY DEF WalkInv, ReachedOnce
    <3> QED BY <1>3, <2>1, <3>1
  <2>3. ASSUME NEW k \in 1 .. Len(s)
        PROVE  OnceKept(k)'
    <3> SUFFICES ASSUME s[k].step = "list"
                 PROVE  /\ \A p \in D!Places : Reached(p)' => ~Below(e.path, p)
                        /\ \A m \in 1 .. Len(todo') :
                             todo'[m].step = "list" /\ todo'[m].path = e.path => m = k
      BY <1>4, <1>5 DEF OnceKept
    <3>1. \A p \in D!Places : Reached(p)' => ~Below(e.path, p)
      BY <1>1, <1>10, <2>0 DEF OnceKept
    <3>2. ASSUME NEW m \in 1 .. Len(todo'), todo'[m].step = "list", todo'[m].path = e.path
          PROVE  m = k
      <4>1. CASE m \in 1 .. Len(s)
        BY <1>4, <4>1
      <4>2. CASE \E i \in 2 .. Len(todo) : m = i + Len(s) - 1
        <5>1. PICK i \in 2 .. Len(todo) : m = i + Len(s) - 1
          BY <4>2
        <5>2. todo[i].step = "list" /\ todo[i].path = e.path /\ i \in 1 .. Len(todo)
          BY <1>5, <3>2, <5>1
        <5>3. \E j \in 1 .. Len(entries) : DirectoryOf(entries[j], todo[i])
          BY <5>2 DEF WalkInv, StepsKept, StepKept
        <5> QED BY <2>1, <5>2, <5>3 DEF DirectoryOf
      <4> QED BY <1>5, <4>1, <4>2
    <3> QED BY <3>1, <3>2
  <2>4. ASSUME NEW k \in 1 .. Len(todo'), NEW m \in 2 .. Len(todo), k = m + Len(s) - 1
        PROVE  OnceKept(k)'
    <3>1. todo[m].step \in {"visit", "list"} =>
            /\ \A p \in D!Places : Reached(p)' => Reached(p) \/ ~Below(todo[m].path, p)
            /\ todo[m].step = "visit" => \A j \in 1 .. Len(entries') : entries'[j].path # todo[m].path
            /\ \A i \in 1 .. Len(s) : ~(s[i].step = todo[m].step /\ s[i].path = todo[m].path)
      <4>0. m \in 1 .. Len(todo) /\ m # 1
        OBVIOUS
      <4>1. ASSUME todo[m].step = "visit"
            PROVE  todo[m].path # e.path /\ \A j \in 1 .. Len(entries) : entries[j].path # todo[m].path
        BY <1>1, <1>5, <2>0, <4>0, <4>1 DEF OnceKept
      <4>2. ASSUME todo[m].step = "visit", NEW j \in 1 .. Len(entries')
            PROVE  entries'[j].path # todo[m].path
        BY <1>3, <4>1, <4>2
      <4>3. ASSUME todo[m].step = "list"
            PROVE  todo[m].path # e.path
        <5>1. \E j \in 1 .. Len(entries) : DirectoryOf(entries[j], todo[m])
          BY <4>0, <4>3 DEF WalkInv, StepsKept, StepKept
        <5> QED BY <2>1, <5>1 DEF DirectoryOf
      <4> QED BY <1>4, <1>10, <4>2, <4>3
    <3>2. OnceKept(m + Len(s) - 1)'
      BY <1>4, <2>0, <3>1, OnceMoves
    <3> QED BY <2>4, <3>2
  <2>5. \A k \in 1 .. Len(todo') : OnceKept(k)'
    BY <1>5, <2>3, <2>4
  <2> QED BY <2>2, <2>5 DEF ReachedOnce
<1>17. \A k \in 1 .. Len(entries') : Seen(entries[k])' /\ ParentKept(k)'
  <2>1. ASSUME NEW k \in 1 .. Len(entries')
        PROVE  Seen(entries[k])' /\ ParentKept(k)'
    <3>1. CASE k = n
      BY <1>3, <1>13, <1>14, <3>1
    <3>2. CASE k \in 1 .. Len(entries)
      BY <1>12, <3>2
    <3> QED BY <1>3, <3>1, <3>2
  <2> QED BY <2>1
<1> QED BY <1>11, <1>15, <1>16, <1>17 DEF WalkInv, ParentsKept


\* What is to be visited is found, where it is.
LEMMA TodoPlaces ==
  ASSUME todo \in Seq(Works)
  PROVE  \A k \in 1 .. Len(todo) : todo[k] \in Works /\ todo[k].path \in D!Places
<1>1. \A k \in 1 .. Len(todo) : todo[k] \in Works
  BY ElementOfSeq
<1> QED BY <1>1 DEF Works

\* The target of a walk is a name below the root.
LEMMA TargetPlace ==
  ASSUME WalkInv
  PROVE  target \in D!Places
<1>1. \A k \in 1 .. Len(entries) : entries[k].path \in D!Places
  BY DEF WalkInv, Seen, D!SnapshotEntries
<1>2. \A k \in 1 .. Len(todo) : todo[k].path \in D!Places
  BY TodoPlaces DEF WalkInv, StepsKept
<1> QED BY <1>1, <1>2 DEF WalkInv, AllReached, Reached

\* A file is read as it was, or a directory found as it was.
LEMMA HashWalk ==
  ASSUME NodeInv, NodeTyped', Evolves, WalkInv, D!Hash, target' = target
  PROVE  WalkInv'
<1>p. PICK s : s = <<>>
  OBVIOUS
<1>0. /\ todo # <<>> /\ todo \in Seq(Works) /\ entries' = entries /\ todo' = Tail(todo)
      /\ Head(todo).step \in {"hash", "still"} /\ Head(todo) = todo[1]
      /\ D!Version(D!Opened(todo[1].path)) = todo[1].version
  <2>1. /\ todo # <<>> /\ todo \in Seq(Works) /\ entries' = entries /\ todo' = Tail(todo)
        /\ Head(todo).step \in {"hash", "still"} /\ D!Passes(Head(todo))
    BY DEF D!Hash, D!Walking, WalkInv, StepsKept
  <2>2. Head(todo) = todo[1]
    BY <2>1
  <2> QED BY <2>1, <2>2 DEF D!Passes, D!HashPasses
<1>4. Pushes(s) /\ Len(s) = 0
  BY <1>0, <1>p DEF Pushes
<1>5. /\ 1 \in 1 .. Len(todo)
      /\ todo' \in Seq(Works)
      /\ \A k \in 2 .. Len(todo) :
           k + Len(s) - 1 \in 1 .. Len(todo') /\ todo'[k + Len(s) - 1] = todo[k]
      /\ \A k \in 1 .. Len(todo') : \E m \in 2 .. Len(todo) : k = m + Len(s) - 1
  <2>1. \A k \in 1 .. Len(todo') :
           k \in 1 .. Len(s) \/ \E m \in 2 .. Len(todo) : k = m + Len(s) - 1
    BY <1>4, Pushed
  <2>2. \A k \in 1 .. Len(todo') : k \notin 1 .. Len(s)
    BY <1>4
  <2> QED BY <1>4, <2>1, <2>2, Pushed
<1>6. \A k \in 1 .. Len(todo) : k = 1 \/ k \in 2 .. Len(todo)
  OBVIOUS
<1>7. EntriesKept
  BY <1>0 DEF EntriesKept
<1>8. StillsKept
  <2> SUFFICES ASSUME NEW j \in 1 .. Len(entries), NEW m \in 1 .. Len(todo),
                      DirectoryOf(entries[j], todo[m]), ~Current(entries[j])
               PROVE  \E h \in 1 .. Len(todo') : todo'[h] = todo[m]
    BY DEF StillsKept
  <2>1. m # 1
    BY <1>0 DEF DirectoryOf, Current
  <2> QED BY <1>5, <1>6, <2>1
<1>9. \A p : Reached(p) <=> Reached(p)'
  <2>1. ASSUME NEW p, NEW k \in 1 .. Len(todo), todo[k].step = "visit", todo[k].path = p
        PROVE  \E h \in 1 .. Len(todo') : todo'[h].step = "visit" /\ todo'[h].path = p
    <3>1. k \in 2 .. Len(todo)
      BY <1>0, <1>6, <2>1
    <3> QED BY <1>5, <2>1, <3>1
  <2>2. ASSUME NEW p, NEW h \in 1 .. Len(todo'), todo'[h].step = "visit", todo'[h].path = p
        PROVE  \E k \in 1 .. Len(todo) : todo[k].step = "visit" /\ todo[k].path = p
    <3>1. PICK m \in 2 .. Len(todo) : h = m + Len(s) - 1
      BY <1>5
    <3>2. todo'[h] = todo[m] /\ m \in 1 .. Len(todo)
      BY <1>5, <3>1
    <3> QED BY <2>2, <3>2
  <2> QED BY <1>0, <2>1, <2>2 DEF Reached
<1>10. ReachedKept
  BY <1>9 DEF ReachedKept
<1>11. StepsKept'
  <2>1. ASSUME NEW k \in 1 .. Len(todo')
        PROVE  StepKept(k)'
    <3>1. PICK m \in 2 .. Len(todo) : k = m + Len(s) - 1
      BY <1>5
    <3>2. StepKept(m)
      BY DEF WalkInv, StepsKept
    <3>3. StepKept(m + Len(s) - 1)'
      BY <1>4, <1>7, <3>2, StepMoves
    <3> QED BY <3>1, <3>3
  <2> QED BY <1>5, <2>1 DEF StepsKept
<1>12. \A k \in 1 .. Len(entries) : Seen(entries[k])' /\ ParentKept(k)'
  BY <1>7, <1>8, EntriesStay
<1>13. AllReached'
  <2>1. Reached(target)'
    <3>1. \E p : p = target /\ Reached(p)
      BY DEF WalkInv, AllReached
    <3> QED BY <1>9, <3>1
  <2>2. ASSUME NEW j \in 1 .. Len(entries'), entries'[j].kind = "directory"
        PROVE  ToList(entries[j].path)' \/ Exhausted(entries[j])'
    <3>1. ToList(entries[j].path) \/ Exhausted(entries[j])
      BY <1>0, <2>2 DEF WalkInv, AllReached
    <3>2. Exhausted(entries[j]) => Exhausted(entries[j])'
      BY <1>0, <1>7, <1>10, <2>2, ExhaustedKept
    <3>3. ToList(entries[j].path) => ToList(entries[j].path)'
      <4> SUFFICES ASSUME NEW m \in 1 .. Len(todo), todo[m].step = "list", todo[m].path = entries[j].path
                   PROVE  \E k \in 1 .. Len(todo') : todo'[k].step = "list"
                            /\ todo'[k].path = entries'[j].path
        BY DEF ToList
      <4>1. m \in 2 .. Len(todo)
        BY <1>0, <1>6
      <4>2. m + Len(s) - 1 \in 1 .. Len(todo') /\ todo'[m + Len(s) - 1] = todo[m]
        BY <1>5, <4>1
      <4> QED BY <1>0, <4>2
    <3> QED BY <3>1, <3>2, <3>3
  <2> QED BY <2>1, <2>2 DEF AllReached
<1>14. ReachedOnce'
  <2>1. ASSUME NEW k \in 1 .. Len(todo')
        PROVE  OnceKept(k)'
    <3>1. PICK m \in 2 .. Len(todo) : k = m + Len(s) - 1
      BY <1>5
    <3>2. OnceKept(m) /\ m \in 1 .. Len(todo)
      BY DEF WalkInv, ReachedOnce
    <3>3. todo[m].step \in {"visit", "list"} =>
            /\ \A p \in D!Places : Reached(p)' => Reached(p) \/ ~Below(todo[m].path, p)
            /\ todo[m].step = "visit" => \A j \in 1 .. Len(entries') : entries'[j].path # todo[m].path
            /\ \A i \in 1 .. Len(s) : ~(s[i].step = todo[m].step /\ s[i].path = todo[m].path)
      BY <1>0, <1>4, <1>9, <3>2 DEF OnceKept
    <3>4. OnceKept(m + Len(s) - 1)'
      BY <1>4, <3>2, <3>3, OnceMoves
    <3> QED BY <3>1, <3>4
  <2>2. \A j, k \in 1 .. Len(entries') : entries'[j].path = entries'[k].path => j = k
    BY <1>0 DEF WalkInv, ReachedOnce
  <2> QED BY <2>1, <2>2 DEF ReachedOnce
<1> QED BY <1>0, <1>11, <1>12, <1>13, <1>14 DEF WalkInv, ParentsKept

\* The entries of a directory are to be visited, and it is to be looked at again: the steps
\* that are to come.
Lists(s, w, names) ==
  /\ Pushes(s) /\ Len(s) = Len(names) + 1 /\ Len(names) \in Nat
  /\ \A k \in 1 .. Len(names) : s[k].step = "visit" /\ s[k].path = Append(w.path, names[k])
  /\ s[Len(s)].step = "still" /\ s[Len(s)].path = w.path /\ s[Len(s)].version = w.version
  /\ \A k \in 1 .. Len(s) : k \in 1 .. Len(names) \/ k = Len(s)
  /\ \A k \in 1 .. Len(names) : names[k] \in D!NameSet /\ Append(w.path, names[k]) \in D!Places
  /\ \A j, k \in 1 .. Len(names) : names[j] = names[k] => j = k

\* List puts a visit of every name of the directory before what is left to do.
LEMMA Listed ==
  ASSUME NodeInv, StepsKept, D!List
  PROVE  /\ \E s, names : Lists(s, todo[1], names) /\ NamesOf(names, There(todo[1].path, D!NameSet))
         /\ todo # <<>> /\ todo[1].step = "list" /\ entries' = entries
         /\ todo[1].path \in D!Places /\ Len(todo[1].path) < 3
<1> DEFINE w == Head(todo)
           names == D!Listing(w.path)
           visits == [k \in 1 .. Len(names) |-> D!Work("visit", Append(w.path, names[k]), D!NoVersion)]
           again == [w EXCEPT !.step = "still"]
           s == visits \o <<again>>
<1>1. /\ todo # <<>> /\ todo \in Seq(Works) /\ entries' = entries
      /\ Head(todo).step = "list" /\ D!Passes(Head(todo))
      /\ todo' = visits \o <<again>> \o Tail(todo)
  BY DEF D!List, D!Walking, StepsKept
<1>2. Head(todo) = todo[1] /\ Head(todo) \in Works /\ 1 \in 1 .. Len(todo)
  BY <1>1
<1>3. w.path \in D!Places /\ w.version \in [inode : D!Inodes, stamp : Nat] /\ Len(w.path) < 3
  BY <1>1, <1>2 DEF Works, StepsKept, StepKept
<1>4. node[D!Resolved(w.path)].kind = "directory"
  BY <1>1 DEF D!Passes, D!ListPasses
<1>5. again \in Works /\ again.step = "still" /\ again.path = w.path /\ again.version = w.version
  <2>1. again = [step |-> "still", path |-> w.path, version |-> w.version]
    BY <1>2 DEF Works
  <2> HIDE DEF w, again
  <2> QED BY <1>3, <2>1 DEF Works
<1>6. NamesOf(names, There(w.path, D!NameSet))
  BY ListingNames
<1> HIDE DEF w, names, again
<1>7. /\ names \in Seq(D!NameSet) /\ Len(names) \in Nat
      /\ \A k \in 1 .. Len(names) : names[k] \in D!NameSet /\ D!Child(D!Resolved(w.path), names[k]) # 0
      /\ \A j, k \in 1 .. Len(names) : names[j] = names[k] => j = k
  BY <1>6 DEF NamesOf, There
<1>8. \A k \in 1 .. Len(names) : Append(w.path, names[k]) \in D!Places
  BY <1>3, <1>4, <1>7, FoundPlaces
<1>9. /\ visits \in Seq(Works) /\ Len(visits) = Len(names)
      /\ \A k \in 1 .. Len(names) : visits[k].step = "visit" /\ visits[k].path = Append(w.path, names[k])
  <2>1. D!NoVersion \in [inode : D!Inodes, stamp : Nat]
    BY DeletionConstants DEF D!NoVersion
  <2>2. \A k \in 1 .. Len(names) : D!Work("visit", Append(w.path, names[k]), D!NoVersion) \in Works
    BY <1>8, <2>1 DEF D!Work, Works
  <2>3. visits \in Seq(Works) /\ Len(visits) = Len(names)
    BY <1>7, <2>2
  <2> QED BY <2>3 DEF D!Work
<1> HIDE DEF visits
<1>10. /\ s \in Seq(Works) /\ Len(s) = Len(names) + 1
       /\ \A k \in 1 .. Len(names) : s[k] = visits[k]
       /\ s[Len(s)] = again
       /\ \A k \in 1 .. Len(s) : k \in 1 .. Len(names) \/ k = Len(s)
  <2>1. s \in Seq(Works) /\ Len(s) = Len(names) + 1
    BY <1>5, <1>7, <1>9
  <2>2. \A k \in 1 .. Len(names) : s[k] = visits[k]
    BY <1>5, <1>7, <1>9
  <2>3. s[Len(s)] = again
    BY <1>5, <1>7, <1>9
  <2> HIDE DEF s
  <2> QED BY <1>7, <2>1, <2>2, <2>3
<1>11. todo' = s \o Tail(todo)
  BY <1>1
<1> HIDE DEF s
<1>12. Lists(s, w, names)
  <2>1. Pushes(s)
    BY <1>1, <1>10, <1>11 DEF Pushes
  <2>2. \A k \in 1 .. Len(names) : s[k].step = "visit" /\ s[k].path = Append(w.path, names[k])
    BY <1>9, <1>10
  <2>3. s[Len(s)].step = "still" /\ s[Len(s)].path = w.path /\ s[Len(s)].version = w.version
    BY <1>5, <1>10
  <2> QED BY <1>7, <1>8, <1>10, <2>1, <2>2, <2>3 DEF Lists
<1>13. w = todo[1]
  BY <1>2 DEF w
<1> QED BY <1>1, <1>2, <1>3, <1>6, <1>12, <1>13


\* What a path is an entry of, and what is not below it.
LEMMA EntryPath ==
  ASSUME NEW q \in D!Places, NEW n \in D!NameSet, Append(q, n) \in D!Places
  PROVE  /\ D!Front(Append(q, n)) = q /\ Append(q, n) # q /\ Below(q, Append(q, n))
         /\ \A p \in D!Places : Below(Append(q, n), p) => Below(q, p) /\ D!Front(p) = Append(q, n)
         /\ \A m \in D!NameSet : Append(q, m) = Append(q, n) => m = n
         /\ \A m \in D!NameSet : ~Below(Append(q, n), Append(q, m))
<1> DEFINE c == Append(q, n)
<1>1. /\ q \in Levels /\ Len(q) \in 1 .. 3 /\ Len(c) = Len(q) + 1 /\ D!Front(c) = q /\ D!Last(c) = n
      /\ \A m \in D!NameSet : D!Front(Append(q, m)) = q /\ D!Last(Append(q, m)) = m
  <2>1. q \in Levels /\ Len(q) \in 1 .. 3
    BY PlaceShape DEF Levels
  <2> QED BY <2>1, BelowLevel
<1> HIDE DEF c
<1>2. Len(c) >= 2 /\ c # q
  <2>1. Len(c) = Len(q) + 1 /\ Len(q) \in 1 .. 3
    BY <1>1
  <2> QED BY <2>1
<1>3. \A p \in D!Places : c # D!Front(D!Front(p))
  <2>1. ASSUME NEW p \in D!Places
        PROVE  Len(D!Front(D!Front(p))) <= 1
    <3>1. /\ Len(D!Front(p)) = Len(p) - 1 /\ Len(D!Front(D!Front(p))) < Len(p) /\ Len(p) \in 1 .. 3
          /\ Len(p) > 1 => Len(D!Front(D!Front(p))) = Len(p) - 2
      BY FrontShorter
    <3>2. CASE Len(p) > 1
      BY <3>1, <3>2
    <3>3. CASE Len(p) = 1
      <4>1. Len(D!Front(p)) = 0 /\ D!Front(p) \in Levels
        BY <3>1, <3>3, PlaceShape
      <4>2. D!Front(p) = <<>>
        BY <4>1, PlaceShape DEF Levels
      <4>3. D!Front(<<>>) = <<>>
        BY DEF D!Front
      <4> QED BY <4>2, <4>3
    <3> QED BY <3>1, <3>2, <3>3
  <2> QED BY <1>1, <1>2, <2>1
<1>4. \A p \in D!Places : Below(c, p) => Below(q, p) /\ D!Front(p) = c
  BY <1>1, <1>3 DEF Below
<1>5. \A m \in D!NameSet : Append(q, m) = c => m = n
  BY <1>1 DEF c
<1>6. ASSUME NEW m \in D!NameSet
      PROVE  ~Below(c, Append(q, m))
  <2>1. D!Front(Append(q, m)) = q /\ Len(D!Front(q)) = Len(q) - 1
    BY <1>1, PlaceShape
  <2>2. c # q /\ c # D!Front(q)
    BY <1>1, <2>1
  <2> QED BY <2>1, <2>2 DEF Below
<1>7. Below(q, c)
  BY <1>1 DEF Below
<1> QED BY <1>1, <1>2, <1>4, <1>5, <1>6, <1>7 DEF c

\* A directory is listed: its entries are to be visited, and none of them was reached before.
LEMMA ListWalk ==
  ASSUME NodeInv, NodeTyped', Evolves, WalkInv, D!List, target' = target
  PROVE  WalkInv'
<1>w. PICK w : w = todo[1]
  OBVIOUS
<1>q. PICK q : q = w.path
  OBVIOUS
<1>0. /\ \E s, names : Lists(s, w, names) /\ NamesOf(names, There(q, D!NameSet))
      /\ todo # <<>> /\ w.step = "list" /\ entries' = entries
      /\ q \in D!Places /\ Len(q) < 3
  BY <1>w, <1>q, Listed DEF WalkInv
<1>s. PICK s, names : Lists(s, w, names) /\ NamesOf(names, There(q, D!NameSet))
  BY <1>0
<1>1. /\ Pushes(s) /\ Len(s) = Len(names) + 1 /\ Len(names) \in Nat
      /\ \A k \in 1 .. Len(names) : s[k].step = "visit" /\ s[k].path = Append(q, names[k])
      /\ s[Len(s)].step = "still" /\ s[Len(s)].path = q /\ s[Len(s)].version = w.version
      /\ \A k \in 1 .. Len(s) : k \in 1 .. Len(names) \/ k = Len(s)
      /\ \A k \in 1 .. Len(names) : names[k] \in D!NameSet /\ Append(q, names[k]) \in D!Places
      /\ \A j, k \in 1 .. Len(names) : names[j] = names[k] => j = k
  BY <1>q, <1>s DEF Lists
<1>2. \A n \in D!NameSet : D!Child(D!Resolved(q), n) # 0 => \E k \in 1 .. Len(names) : names[k] = n
  BY <1>s DEF NamesOf, There
<1>3. /\ Len(s) \in 1 .. Len(s) /\ \A k \in 1 .. Len(names) : k \in 1 .. Len(s)
           /\ Len(s) \in k + 1 .. Len(s)
      /\ Len(s) \in Nat
  BY <1>1
<1>5. /\ 1 \in 1 .. Len(todo)
      /\ todo' \in Seq(Works)
      /\ \A k \in 1 .. Len(s) : k \in 1 .. Len(todo') /\ todo'[k] = s[k]
      /\ \A k \in 2 .. Len(todo) :
           k + Len(s) - 1 \in 1 .. Len(todo') /\ todo'[k + Len(s) - 1] = todo[k]
      /\ \A k \in 1 .. Len(todo') :
           k \in 1 .. Len(s) \/ \E m \in 2 .. Len(todo) : k = m + Len(s) - 1
  BY <1>1, Pushed
<1>6. \A k \in 1 .. Len(todo) : k = 1 \/ k \in 2 .. Len(todo)
  OBVIOUS
<1>7. EntriesKept
  BY <1>0 DEF EntriesKept
<1>8. StillsKept
  <2> SUFFICES ASSUME NEW j \in 1 .. Len(entries), NEW m \in 1 .. Len(todo),
                      todo[m].step = "still"
               PROVE  \E h \in 1 .. Len(todo') : todo'[h] = todo[m]
    BY DEF StillsKept
  <2>1. m # 1
    BY <1>0, <1>w
  <2> QED BY <1>5, <1>6, <2>1
<1>9. PICK i \in 1 .. Len(entries) :
        entries[i].path = q /\ entries[i].kind = "directory" /\ entries[i].version = w.version
  <2>1. StepKept(1)
    BY <1>5 DEF WalkInv, StepsKept
  <2>2. \E j \in 1 .. Len(entries) : DirectoryOf(entries[j], w)
    BY <1>0, <1>w, <2>1 DEF StepKept
  <2> QED BY <1>q, <2>2 DEF DirectoryOf
<1>10. \A p : Reached(p)' => Reached(p) \/ \E k \in 1 .. Len(names) : p = Append(q, names[k])
  <2> SUFFICES ASSUME NEW p, NEW h \in 1 .. Len(todo'), todo'[h].step = "visit", todo'[h].path = p
               PROVE  \/ \E k \in 1 .. Len(todo) : todo[k].step = "visit" /\ todo[k].path = p
                      \/ \E k \in 1 .. Len(names) : p = Append(q, names[k])
    BY <1>0 DEF Reached
  <2>1. CASE h \in 1 .. Len(s)
    <3>1. s[h].step = "visit" /\ s[h].path = p
      BY <1>5, <2>1
    <3> QED BY <1>1, <2>1, <3>1
  <2>2. CASE \E m \in 2 .. Len(todo) : h = m + Len(s) - 1
    <3>1. PICK m \in 2 .. Len(todo) : h = m + Len(s) - 1
      BY <2>2
    <3>2. todo'[h] = todo[m] /\ m \in 1 .. Len(todo)
      BY <1>5, <3>1
    <3> QED BY <3>2
  <2> QED BY <1>5, <2>1, <2>2
<1>11. ReachedKept /\ \A k \in 1 .. Len(names) : Reached(Append(q, names[k]))'
  <2>1. ASSUME NEW p, NEW k \in 1 .. Len(todo), todo[k].step = "visit", todo[k].path = p
        PROVE  \E h \in 1 .. Len(todo') : todo'[h].step = "visit" /\ todo'[h].path = p
    <3>1. k \in 2 .. Len(todo)
      BY <1>0, <1>w, <1>6, <2>1
    <3> QED BY <1>5, <2>1, <3>1
  <2>2. \A k \in 1 .. Len(names) :
          k \in 1 .. Len(todo') /\ todo'[k].step = "visit" /\ todo'[k].path = Append(q, names[k])
    BY <1>1, <1>3, <1>5
  <2> QED BY <1>0, <2>1, <2>2 DEF Reached, ReachedKept
<1>12. /\ OnceKept(1) /\ \A k \in 2 .. Len(todo) : OnceKept(k)
       /\ \A p \in D!Places : Reached(p) => ~Below(q, p)
       /\ \A m \in 1 .. Len(todo) : todo[m].step = "list" /\ todo[m].path = q => m = 1
  <2>1. OnceKept(1) /\ \A k \in 2 .. Len(todo) : OnceKept(k)
    BY <1>5, <1>6 DEF WalkInv, ReachedOnce
  <2> QED BY <1>0, <1>w, <1>q, <2>1 DEF OnceKept
<1>13. \A k \in 1 .. Len(names) :
         /\ ~Reached(Append(q, names[k])) /\ D!Front(Append(q, names[k])) = q
         /\ \A p \in D!Places : Reached(p)' => ~Below(Append(q, names[k]), p)
  <2> SUFFICES ASSUME NEW k \in 1 .. Len(names)
               PROVE  /\ ~Reached(Append(q, names[k])) /\ D!Front(Append(q, names[k])) = q
                      /\ \A p \in D!Places : Reached(p)' => ~Below(Append(q, names[k]), p)
    OBVIOUS
  <2> DEFINE n == names[k]
             c == Append(q, n)
  <2>1. n \in D!NameSet /\ c \in D!Places
    BY <1>1
  <2>2. /\ D!Front(c) = q /\ Below(q, c)
        /\ \A p \in D!Places : Below(c, p) => Below(q, p)
        /\ \A m \in D!NameSet : ~Below(c, Append(q, m))
    BY <1>0, <2>1, EntryPath
  <2> HIDE DEF n, c
  <2>3. ~Reached(c)
    BY <1>12, <2>1, <2>2
  <2>4. ASSUME NEW p \in D!Places, Reached(p)'
        PROVE  ~Below(c, p)
    <3>1. CASE Reached(p)
      BY <1>12, <2>2, <3>1
    <3>2. CASE \E h \in 1 .. Len(names) : p = Append(q, names[h])
      BY <1>1, <2>2, <3>2
    <3> QED BY <1>10, <2>4, <3>1, <3>2
  <2> QED BY <2>2, <2>3, <2>4 DEF c, n
<1>14. StepsKept'
  <2>0. D!IsPrefix(target, q) /\ target \in D!Places
    <3>1. StepKept(1)
      BY <1>5 DEF WalkInv, StepsKept
    <3> QED BY <1>w, <1>q, <3>1, TargetPlace DEF StepKept
  <2>1. ASSUME NEW k \in 1 .. Len(names)
        PROVE  StepKept(k)'
    <3>1. /\ todo'[k].step = "visit" /\ todo'[k].path = Append(q, names[k])
          /\ Len(s) \in k + 1 .. Len(todo') /\ todo'[Len(s)] = s[Len(s)]
      <4>1. k \in 1 .. Len(s) /\ Len(s) \in 1 .. Len(s) /\ Len(s) \in k + 1 .. Len(s)
        BY <1>3
      <4>2. /\ todo'[k] = s[k] /\ s[k].step = "visit" /\ s[k].path = Append(q, names[k])
            /\ Len(s) \in 1 .. Len(todo') /\ todo'[Len(s)] = s[Len(s)]
        BY <1>1, <1>5, <4>1
      <4>3. Len(s) \in k + 1 .. Len(todo')
        BY <4>1, <4>2
      <4> QED BY <4>2, <4>3
    <3>2. D!IsPrefix(target, Append(q, names[k]))
      BY <1>0, <1>1, <2>0, SubtreeGoesDown
    <3>3. D!Front(todo'[k].path) = q
      BY <1>13, <3>1
    <3> QED BY <1>1, <3>1, <3>2, <3>3 DEF StepKept
  <2>2. StepKept(Len(s))'
    <3>1. todo'[Len(s)].step = "still" /\ todo'[Len(s)].path = q /\ todo'[Len(s)].version = w.version
      BY <1>1, <1>3, <1>5
    <3>2. i \in 1 .. Len(entries') /\ DirectoryOf(entries[i], todo[Len(s)])'
      BY <1>0, <1>9, <3>1 DEF DirectoryOf
    <3> QED BY <1>0, <2>0, <3>1, <3>2 DEF StepKept
  <2>3. ASSUME NEW k \in 1 .. Len(todo'), NEW m \in 2 .. Len(todo), k = m + Len(s) - 1
        PROVE  StepKept(k)'
    <3>1. StepKept(m)
      BY DEF WalkInv, StepsKept
    <3>2. StepKept(m + Len(s) - 1)'
      BY <1>1, <1>7, <3>1, StepMoves
    <3> QED BY <2>3, <3>2
  <2>4. \A k \in 1 .. Len(todo') : StepKept(k)'
    BY <1>1, <1>5, <2>1, <2>2, <2>3
  <2> QED BY <1>5, <2>4 DEF StepsKept
<1>15. \A k \in 1 .. Len(entries) : Seen(entries[k])' /\ ParentKept(k)'
  BY <1>7, <1>8, EntriesStay
<1>16. AllReached'
  <2>1. Reached(target)'
    <3>1. \E p : p = target /\ p \in Seq(D!NameSet) /\ Reached(p)
      BY TargetPlace, PlaceShape DEF WalkInv, AllReached
    <3> QED BY <1>11, <3>1 DEF ReachedKept
  <2>2. ASSUME NEW j \in 1 .. Len(entries'), entries'[j].kind = "directory"
        PROVE  ToList(entries[j].path)' \/ Exhausted(entries[j])'
    <3>1. ToList(entries[j].path) \/ Exhausted(entries[j])
      BY <1>0, <2>2 DEF WalkInv, AllReached
    <3>2. Exhausted(entries[j]) => Exhausted(entries[j])'
      BY <1>0, <1>7, <1>11, <2>2, ExhaustedKept
    <3>3. ASSUME ToList(entries[j].path)
          PROVE  ToList(entries[j].path)' \/ Exhausted(entries[j])'
      <4>1. PICK m \in 1 .. Len(todo) : todo[m].step = "list" /\ todo[m].path = entries[j].path
        BY <3>3 DEF ToList
      <4>2. CASE m \in 2 .. Len(todo)
        <5>1. PICK k \in 1 .. Len(todo') : todo'[k] = todo[m]
          BY <1>5, <4>2
        <5>2. todo'[k].step = "list" /\ todo'[k].path = entries'[j].path
          BY <1>0, <4>1, <5>1
        <5> QED BY <5>2 DEF ToList
      <4>3. CASE m = 1
        <5>d. PICK d : d = entries[j]
          OBVIOUS
        <5>1. d.path = q /\ d.kind = "directory" /\ Seen(d)
          BY <1>0, <1>w, <1>q, <2>2, <4>1, <4>3, <5>d DEF WalkInv
        <5>2. Exhausted(d)'
          <6>1. SUFFICES ASSUME Current(d)', NEW n \in D!NameSet, D!Child(D!Opened(d.path), n)' # 0
                         PROVE  Reached(Append(d.path, n))'
            BY DEF Exhausted
          <6>2. Current(d) /\ D!Child(D!Opened(q), n) # 0
            BY <5>1, <6>1, CurrentBack
          <6>3. D!Opened(q) = d.version.inode /\ node[D!Opened(q)].kind = "directory" /\ D!Opened(q) # 0
            BY <5>1, <6>2 DEF Current, D!Version, Seen
          <6>4. D!Resolved(q) = D!Opened(q)
            BY <1>0, <6>3, ResolvedOpen DEF Levels
          <6> QED BY <1>2, <1>11, <5>1, <6>2, <6>4
        <5> QED BY <1>0, <5>d, <5>2
      <4> QED BY <1>6, <4>2, <4>3
    <3> QED BY <3>1, <3>2, <3>3
  <2> QED BY <2>1, <2>2 DEF AllReached
<1>17. ReachedOnce'
  <2>1. \A j, k \in 1 .. Len(entries') : entries'[j].path = entries'[k].path => j = k
    BY <1>0 DEF WalkInv, ReachedOnce
  <2>2. ASSUME NEW k \in 1 .. Len(names)
        PROVE  OnceKept(k)'
    <3>1. todo'[k].step = "visit" /\ todo'[k].path = Append(q, names[k])
      BY <1>1, <1>3, <1>5
    <3>2. \A j \in 1 .. Len(entries') : entries'[j].path # Append(q, names[k])
      BY <1>0, <1>13 DEF Reached
    <3>3. ASSUME NEW m \in 1 .. Len(todo'), todo'[m].step = "visit", todo'[m].path = Append(q, names[k])
          PROVE  m = k
      <4>1. CASE m \in 1 .. Len(names)
        <5>1. Append(q, names[m]) = Append(q, names[k])
          BY <1>1, <1>3, <1>5, <3>3, <4>1
        <5>2. names[m] = names[k]
          BY <1>0, <1>1, <4>1, <5>1, EntryPath
        <5> QED BY <1>1, <4>1, <5>2
      <4>2. m # Len(s)
        BY <1>1, <1>3, <1>5, <3>3
      <4>3. CASE \E h \in 2 .. Len(todo) : m = h + Len(s) - 1
        <5>1. PICK h \in 2 .. Len(todo) : m = h + Len(s) - 1
          BY <4>3
        <5>2. todo[h].step = "visit" /\ todo[h].path = Append(q, names[k]) /\ h \in 1 .. Len(todo)
          <6>1. todo'[h + Len(s) - 1] = todo[h] /\ h \in 1 .. Len(todo)
            BY <1>5, <5>1
          <6>2. todo'[m] = todo[h]
            BY <5>1, <6>1
          <6> QED BY <3>3, <6>1, <6>2
        <5> QED BY <1>13, <5>2 DEF Reached
      <4> QED BY <1>1, <1>5, <4>1, <4>2, <4>3
    <3> QED BY <1>13, <3>1, <3>2, <3>3 DEF OnceKept
  <2>3. OnceKept(Len(s))'
    BY <1>1, <1>3, <1>5 DEF OnceKept
  <2>4. ASSUME NEW k \in 1 .. Len(todo'), NEW m \in 2 .. Len(todo), k = m + Len(s) - 1
        PROVE  OnceKept(k)'
    <3>0. OnceKept(m) /\ m \in 1 .. Len(todo) /\ m # 1
      BY <1>12
    <3>1. ASSUME todo[m].step \in {"visit", "list"}, NEW p \in D!Places, Reached(p)', ~Reached(p)
          PROVE  ~Below(todo[m].path, p)
      <4>1. PICK h \in 1 .. Len(names) : p = Append(q, names[h])
        BY <1>10, <3>1
      <4>2. D!Front(p) = q
        BY <1>13, <4>1
      <4>3. CASE todo[m].path = q
        <5>1. todo[m].step # "list"
          BY <1>12, <3>0, <4>3
        <5>2. todo[m].step # "visit"
          BY <1>9, <3>0, <4>3 DEF OnceKept
        <5> QED BY <3>1, <5>1, <5>2
      <4>4. CASE todo[m].path = D!Front(q)
        <5>1. Reached(q) /\ Below(todo[m].path, q)
          BY <1>9, <4>4 DEF Reached, Below
        <5> QED BY <1>0, <3>0, <3>1, <5>1 DEF OnceKept
      <4> QED BY <4>2, <4>3, <4>4 DEF Below
    <3>2. ASSUME todo[m].step \in {"visit", "list"}, NEW h \in 1 .. Len(s), s[h].step = todo[m].step,
                 s[h].path = todo[m].path
          PROVE  FALSE
      <4>1. h \in 1 .. Len(names) /\ todo[m].step = "visit"
        BY <1>1, <3>2
      <4>2. todo[m].path = Append(q, names[h])
        BY <1>1, <3>2, <4>1
      <4>3. Reached(Append(q, names[h]))
        BY <3>0, <4>1, <4>2 DEF Reached
      <4> QED BY <1>13, <4>1, <4>3
    <3>3. todo[m].step = "visit" => \A j \in 1 .. Len(entries') : entries'[j].path # todo[m].path
      BY <1>0, <3>0 DEF OnceKept
    <3>4. todo[m].step \in {"visit", "list"} =>
            /\ \A p \in D!Places : Reached(p)' => Reached(p) \/ ~Below(todo[m].path, p)
            /\ todo[m].step = "visit" => \A j \in 1 .. Len(entries') : entries'[j].path # todo[m].path
            /\ \A h \in 1 .. Len(s) : ~(s[h].step = todo[m].step /\ s[h].path = todo[m].path)
      BY <3>1, <3>2, <3>3
    <3>5. OnceKept(m + Len(s) - 1)'
      BY <1>1, <3>0, <3>4, OnceMoves
    <3> QED BY <2>4, <3>5
  <2>5. \A k \in 1 .. Len(todo') : OnceKept(k)'
    BY <1>1, <1>5, <2>2, <2>3, <2>4
  <2> QED BY <2>1, <2>5 DEF ReachedOnce
<1>18. \A k \in 1 .. Len(entries') : Seen(entries[k])' /\ ParentKept(k)'
  BY <1>0, <1>15
<1> QED BY <1>14, <1>16, <1>17, <1>18 DEF WalkInv, ParentsKept


(* The snapshot, and the tree as it was. *)

\* What was seen in the snapshot stays so when others change files.
LEMMA PreparedStays ==
  ASSUME NodeInv, NodeTyped', Evolves, PreparedKept, UNCHANGED <<target, prepared, truth>>
  PROVE  PreparedKept'
<1>0. /\ \A d : Seen(d) => Seen(d)'
      /\ \A d : Seen(d) /\ Current(d)' => Current(d)
      /\ \A h : \A i \in D!Inodes : i # 0 /\ i < fresh /\ OnlyIn(i, h) => OnlyIn(i, h)'
  BY SeenStays, CurrentBack, OnlyInStays
<1>1. ASSUME NEW k \in 1 .. Len(prepared)
      PROVE  Seen(prepared[k])' /\ (prepared'[k] \in truth' \/ ~Current(prepared[k])') /\ AnchorKept(k)'
  <2>d. PICK d : d = prepared[k]
    OBVIOUS
  <2>1. /\ prepared[k] = d /\ prepared'[k] = d /\ Seen(d) /\ (d \in truth \/ ~Current(d)) /\ AnchorKept(k)
        /\ target' = target /\ prepared' = prepared /\ truth' = truth
    BY <2>d DEF PreparedKept
  <2>2. Seen(d)' /\ (d \in truth \/ ~Current(d)')
    BY <1>0, <2>1
  <2>3. AnchorKept(k)'
    <3>1. SUFFICES ASSUME d.path # target
                   PROVE  \E j \in 1 .. k - 1 :
                            /\ prepared[j].path = D!Front(d.path)
                            /\ OnlyIn(d.version.inode, prepared[j].version.inode)'
      BY <2>1 DEF AnchorKept
    <3>2. PICK j \in 1 .. k - 1 :
            prepared[j].path = D!Front(d.path) /\ OnlyIn(d.version.inode, prepared[j].version.inode)
      BY <2>1, <3>1 DEF AnchorKept
    <3>3. d.version.inode \in D!Inodes /\ d.version.inode # 0 /\ d.version.inode < fresh
      BY <2>1 DEF Seen, D!SnapshotEntries
    <3>i. PICK i : i = prepared[j].version.inode
      OBVIOUS
    <3>4. OnlyIn(d.version.inode, i)'
      BY <1>0, <3>2, <3>3, <3>i
    <3> QED BY <2>1, <3>2, <3>4, <3>i
  <2> QED BY <2>1, <2>2, <2>3
<1> QED BY <1>1 DEF PreparedKept

\* The entries of the tree.
LEMMA InTree ==
  ASSUME NEW path
  PROVE  /\ \A t \in D!Tree(path) :
              /\ t = D!Entry(t.path, D!Opened(t.path)) /\ t.path \in D!Places /\ D!IsPrefix(path, t.path)
              /\ D!Opened(t.path) # 0 /\ t.kind = node[D!Opened(t.path)].kind
         /\ \A p \in D!Places : D!IsPrefix(path, p) /\ D!Opened(p) # 0
              => D!Entry(p, D!Opened(p)) \in D!Tree(path)
BY DEF D!Tree, D!Entry

\* What is as it was when it was noted is in the tree.
LEMMA CurrentInTree ==
  ASSUME NEW e, Seen(e), Current(e)
  PROVE  e \in D!Tree(target)
<1>1. /\ e \in [path : D!Places, kind : D!Kinds, version : [inode : D!Inodes, stamp : Nat]]
      /\ e.version.inode # 0 /\ e.kind = node[e.version.inode].kind /\ D!IsPrefix(target, e.path)
  BY DEF Seen, D!SnapshotEntries
<1>2. D!Version(D!Opened(e.path)) = e.version /\ D!Opened(e.path) = e.version.inode
  BY DEF Current, D!Version
<1>3. e = D!Entry(e.path, D!Opened(e.path))
  BY <1>1, <1>2 DEF D!Entry
<1>4. e.path \in D!Places
  BY <1>1
<1> QED BY <1>1, <1>2, <1>3, <1>4, InTree

\* The walk whose snapshot the call is allowed with, and the tree at that moment.
LEMMA AllowKeeps ==
  ASSUME NodeInv, WalkInv, todo = <<>>, target \in D!Places, D!Allow(entries)
  PROVE  PreparedKept' /\ TruthKept' /\ Found'
<1>0. /\ prepared' = entries /\ truth' = D!Tree(target) /\ target' = target /\ entries' = <<>>
      /\ UNCHANGED <<node, fresh, edits>>
  BY DEF D!Allow, D!StartWalk, D!fileVars, D!callVars
<1>1. NodeInv' /\ NodeTyped' /\ Evolves
  <2>1. NodeInv' /\ Evolves
    BY <1>0, FilesKept
  <2> QED BY <2>1 DEF NodeInv
<1>2. /\ \A d : Seen(d) => Seen(d)'
      /\ \A d : Seen(d) /\ Current(d)' => Current(d)
      /\ \A h : \A i \in D!Inodes : i # 0 /\ i < fresh /\ OnlyIn(i, h) => OnlyIn(i, h)'
  BY <1>0, <1>1, SeenStays, CurrentBack, OnlyInStays
<1>t. PICK T : T = D!Tree(target)
  OBVIOUS
<1>3. ASSUME NEW k \in 1 .. Len(entries)
      PROVE  Seen(prepared[k])' /\ (prepared'[k] \in truth' \/ ~Current(prepared[k])') /\ AnchorKept(k)'
  <2>d. PICK d : d = entries[k]
    OBVIOUS
  <2>1. prepared'[k] = d /\ Seen(d) /\ ParentKept(k) /\ entries[k] = d
    BY <1>0, <2>d DEF WalkInv, ParentsKept
  <2>2. Seen(d)' /\ (d \in truth' \/ ~Current(d)')
    <3>1. Current(d) => d \in truth'
      BY <1>0, <2>1, CurrentInTree
    <3> QED BY <1>2, <2>1, <3>1
  <2>3. AnchorKept(k)'
    <3>1. SUFFICES ASSUME d.path # target
                   PROVE  \E j \in 1 .. k - 1 :
                            /\ entries[j].path = D!Front(d.path)
                            /\ OnlyIn(d.version.inode, prepared[j].version.inode)'
      BY <1>0, <2>1 DEF AnchorKept
    <3>2. PICK j \in 1 .. k - 1 : entries[j].path = D!Front(d.path) /\ FoundIn(d, entries[j])
      BY <2>1, <3>1 DEF ParentKept
    <3>i. PICK i : i = entries[j].version.inode
      OBVIOUS
    <3>3. OnlyIn(d.version.inode, i)
      BY <3>2, <3>i DEF FoundIn, ToMiss
    <3>4. d.version.inode \in D!Inodes /\ d.version.inode # 0 /\ d.version.inode < fresh
      BY <2>1 DEF Seen, D!SnapshotEntries
    <3>5. OnlyIn(d.version.inode, i)'
      BY <1>2, <3>3, <3>4
    <3>6. i = prepared'[j].version.inode
      BY <1>0, <3>i
    <3> QED BY <3>2, <3>5, <3>6
  <2> QED BY <2>1, <2>2, <2>3
<1>4. PreparedKept'
  BY <1>0, <1>3 DEF PreparedKept, WalkInv, ReachedOnce
<1>5. \A p : Reached(p) => \E k \in 1 .. Len(entries) : entries[k].path = p
  BY DEF Reached
<1>6. /\ \A t \in T :
           /\ t = D!Entry(t.path, D!Opened(t.path)) /\ t.path \in D!Places /\ D!IsPrefix(target, t.path)
           /\ D!Opened(t.path) # 0 /\ t.kind = node[D!Opened(t.path)].kind
      /\ \A p \in D!Places : D!IsPrefix(target, p) /\ D!Opened(p) # 0 => D!Entry(p, D!Opened(p)) \in T
  BY <1>t, InTree
<1>7. \E k \in 1 .. Len(entries) : entries[k].path = target
  BY <1>5 DEF WalkInv, AllReached
<1>8. ASSUME NEW k \in 1 .. Len(entries), entries[k].kind = "directory", entries[k] \in T,
             NEW t \in T, t.path # target, D!Front(t.path) = entries[k].path
      PROVE  \E m \in 1 .. Len(entries) : entries[m].path = t.path
  <2>1. Exhausted(entries[k])
    BY <1>8 DEF WalkInv, AllReached, ToList
  <2>2. Current(entries[k])
    BY <1>6, <1>8 DEF Current, D!Entry
  <2>3. /\ D!Opened(t.path) = D!Child(D!Opened(D!Front(t.path)), D!Last(t.path))
             /\ D!Last(t.path) \in D!NameSet
        /\ Append(D!Front(t.path), D!Last(t.path)) = t.path /\ D!Opened(t.path) # 0
    BY <1>6, OpenedSteps, PlaceShape DEF PathsOpen
  <2>4. Reached(Append(entries[k].path, D!Last(t.path)))
    BY <1>8, <2>1, <2>2, <2>3 DEF Exhausted
  <2> QED BY <1>5, <1>8, <2>3, <2>4
<1>9. ASSUME NEW t \in T
      PROVE  /\ t \in D!SnapshotEntries /\ D!IsPrefix(target, t.path)
             /\ t.path # target => \E u \in T : u.path = D!Front(t.path) /\ u.kind = "directory"
  <2>1. /\ t.path \in D!Places /\ D!IsPrefix(target, t.path) /\ D!Opened(t.path) # 0
        /\ t = D!Entry(t.path, D!Opened(t.path)) /\ t.path \in Levels /\ t.path # <<>>
    <3>1. \A p \in D!Places : p \in Levels /\ p # <<>>
      BY PlaceShape DEF Levels
    <3> QED BY <1>6, <3>1
  <2>2. D!Opened(t.path) \in D!Inodes /\ InDirectory(t.path)
    BY <2>1, OpenedTyped
  <2>3. D!Entry(t.path, D!Opened(t.path)) \in D!SnapshotEntries
    BY <2>1, <2>2 DEF D!Entry, D!Version, D!SnapshotEntries, NodeInv, NodeTyped
  <2>4. ASSUME t.path # target
        PROVE  \E u \in T : u.path = D!Front(t.path) /\ u.kind = "directory"
    <3>1. D!Front(t.path) \in D!Places /\ D!IsPrefix(target, D!Front(t.path))
      BY <2>1, <2>4, InSubtree
    <3>2. D!Opened(D!Front(t.path)) # 0 /\ node[D!Opened(D!Front(t.path))].kind = "directory"
      BY <2>2 DEF InDirectory
    <3>3. D!Entry(D!Front(t.path), D!Opened(D!Front(t.path))) \in T
      BY <1>6, <3>1, <3>2
    <3> QED BY <3>2, <3>3 DEF D!Entry
  <2> QED BY <2>1, <2>3, <2>4
<1>10. \A t, u \in T : t.path = u.path => t = u
  BY <1>6
<1>11. prepared' = entries /\ truth' = T /\ target' = target
  BY <1>0, <1>t
<1>12. TruthKept'
  BY <1>7, <1>8, <1>9, <1>10, <1>11 DEF TruthKept
<1>13. Found'
  BY <1>0 DEF Found
<1> QED BY <1>4, <1>12, <1>13

\* Two walks that agree: what they found is what there was between them.
LEMMA TheTruth ==
  ASSUME PreparedKept, TruthKept, Found, entries = prepared, prepared \in D!Snapshots
  PROVE  D!ToSet(prepared) = truth
<1>0. \A k \in 1 .. Len(prepared) : prepared[k] \in D!ToSet(prepared)
  BY DEF D!ToSet, D!Snapshots
<1>1. \A k \in 1 .. Len(prepared) : prepared[k] \in truth
  BY <1>0 DEF Found
<1>2. \A t \in D!ToSet(prepared) : \E k \in 1 .. Len(prepared) : t = prepared[k]
  BY DEF D!ToSet, D!Snapshots
<1> DEFINE Deep == {p \in Levels : \A t \in truth : t.path = p => t \in D!ToSet(prepared)}
<1>3. /\ \A t \in truth : t.path \in D!Places
      /\ \A t, u \in truth : t.path = u.path => t = u
  BY DEF TruthKept, D!SnapshotEntries
<1>4. <<>> \in Deep
  <2>1. \A p \in D!Places : p # <<>>
    BY PlaceShape
  <2> QED BY <1>3, <2>1 DEF Levels
<1>5. ASSUME NEW p \in D!Places, D!Front(p) \in Deep
      PROVE  p \in Deep
  <2> SUFFICES ASSUME NEW t \in truth, t.path = p
               PROVE  t \in D!ToSet(prepared)
    BY DEF Levels
  <2>1. CASE p = target
    <3>1. PICK k \in 1 .. Len(prepared) : prepared[k].path = target
      BY DEF TruthKept
    <3>2. prepared[k] = t
      BY <1>1, <1>3, <2>1, <3>1
    <3> QED BY <1>0, <3>2
  <2>2. CASE p # target
    <3>1. PICK u \in truth : u.path = D!Front(p) /\ u.kind = "directory"
      BY <2>2 DEF TruthKept
    <3>2. PICK k \in 1 .. Len(prepared) : u = prepared[k]
      BY <1>2, <1>5, <3>1
    <3>3. PICK m \in 1 .. Len(prepared) : prepared[m].path = t.path
      BY <2>2, <3>1, <3>2 DEF TruthKept
    <3>4. prepared[m] = t
      BY <1>1, <1>3, <3>3
    <3> QED BY <1>0, <3>4
  <2> QED BY <2>1, <2>2
<1>6. \A p \in Levels : p \in Deep
  <2> HIDE DEF Deep
  <2>1. \A p \in D!Places : D!Front(p) \in Deep => p \in Deep
    BY <1>5
  <2> QED BY <1>4, <2>1, DownTheTree
<1> QED BY <1>1, <1>2, <1>3, <1>6 DEF Levels

\* The paths of a snapshot, those of its rest, and of the snapshot reversed.
LEMMA SnapshotPaths ==
  ASSUME NEW s \in D!Snapshots
  PROVE  /\ D!Paths(s) \in Seq(D!Places) /\ Len(D!Paths(s)) = Len(s)
         /\ \A k \in 1 .. Len(s) : D!Paths(s)[k] = s[k].path
<1>1. s \in Seq(D!SnapshotEntries) /\ Len(s) \in Nat
  BY DEF D!Snapshots
<1>2. \A k \in 1 .. Len(s) : s[k] \in D!SnapshotEntries
  BY <1>1
<1>3. \A k \in 1 .. Len(s) : s[k].path \in D!Places
  BY <1>2 DEF D!SnapshotEntries
<1> QED BY <1>1, <1>3 DEF D!Paths

\* The paths of a snapshot in reverse order are its paths, in reverse order.
LEMMA ReversedPaths ==
  ASSUME NEW s \in D!Snapshots
  PROVE  /\ D!Reverse(s) \in D!Snapshots /\ Len(D!Reverse(s)) = Len(s)
         /\ \A k \in 1 .. Len(s) : D!Reverse(s)[k] = s[Len(s) - k + 1] /\ Len(s) - k + 1 \in 1 .. Len(s)
         /\ D!Paths(D!Reverse(s)) = D!Reverse(D!Paths(s))
<1>1. s \in Seq(D!SnapshotEntries) /\ Len(s) \in Nat /\ \A k \in 1 .. Len(s) : s[k] \in D!SnapshotEntries
  BY DEF D!Snapshots
<1>2. \A k \in 1 .. Len(s) : Len(s) - k + 1 \in 1 .. Len(s) /\ (Len(s) - k) + 1 = Len(s) - k + 1
  BY <1>1
<1>3. /\ D!Reverse(s) \in D!Snapshots /\ Len(D!Reverse(s)) = Len(s)
      /\ \A k \in 1 .. Len(s) : D!Reverse(s)[k] = s[Len(s) - k + 1]
  <2>1. \A k \in 1 .. Len(s) : s[(Len(s) - k) + 1] \in D!SnapshotEntries
    BY <1>1, <1>2
  <2>2. D!Reverse(s) = [k \in 1 .. Len(s) |-> s[(Len(s) - k) + 1]]
    BY DEF D!Reverse
  <2> QED BY <1>1, <1>2, <2>1, <2>2 DEF D!Snapshots
<1>4. D!Paths(s) \in Seq(D!Places) /\ Len(D!Paths(s)) = Len(s)
        /\ \A k \in 1 .. Len(s) : D!Paths(s)[k] = s[k].path
  BY SnapshotPaths
<1>5. /\ D!Paths(D!Reverse(s)) \in Seq(D!Places) /\ Len(D!Paths(D!Reverse(s))) = Len(s)
      /\ \A k \in 1 .. Len(s) : D!Paths(D!Reverse(s))[k] = D!Reverse(s)[k].path
  BY <1>3, SnapshotPaths
<1>6. /\ D!Reverse(D!Paths(s)) \in Seq(D!Places) /\ Len(D!Reverse(D!Paths(s))) = Len(s)
      /\ \A k \in 1 .. Len(s) : D!Reverse(D!Paths(s))[k] = D!Paths(s)[Len(s) - k + 1]
  <2>1. \A k \in 1 .. Len(s) : D!Paths(s)[(Len(s) - k) + 1] \in D!Places
    BY <1>2, <1>4
  <2>2. D!Reverse(D!Paths(s)) = [k \in 1 .. Len(s) |-> D!Paths(s)[(Len(s) - k) + 1]]
    BY <1>4 DEF D!Reverse
  <2> QED BY <1>1, <1>2, <2>1, <2>2
<1>7. ASSUME NEW k \in 1 .. Len(s)
      PROVE  D!Paths(D!Reverse(s))[k] = D!Reverse(D!Paths(s))[k]
  <2>m. PICK m : m = Len(s) - k + 1
    OBVIOUS
  <2>1. m \in 1 .. Len(s)
    BY <1>2, <2>m
  <2>2. D!Paths(D!Reverse(s))[k] = s[m].path
    BY <1>3, <1>5, <2>m
  <2>3. D!Reverse(D!Paths(s))[k] = s[m].path
    BY <1>4, <1>6, <2>m, <2>1
  <2> QED BY <2>2, <2>3
<1>8. D!Paths(D!Reverse(s)) = D!Reverse(D!Paths(s))
  BY <1>5, <1>6, <1>7, SeqEqual
<1> QED BY <1>2, <1>3, <1>8

\* Moving the first path of what is pending behind what is deleted keeps all of them.
LEMMA RestOfPaths ==
  ASSUME NEW s \in D!Snapshots, s # <<>>
  PROVE  /\ Head(s) = s[1] /\ Tail(s) \in D!Snapshots /\ Head(s).path \in D!Places
              /\ Head(s) \in D!SnapshotEntries
         /\ \A k \in 1 .. Len(Tail(s)) : Tail(s)[k] = s[k + 1] /\ k + 1 \in 1 .. Len(s)
         /\ 1 \in 1 .. Len(s)
         /\ \A d \in Seq(D!Places) : Append(d, Head(s).path) \o D!Paths(Tail(s)) = d \o D!Paths(s)
<1>1. /\ s \in Seq(D!SnapshotEntries) /\ Len(s) \in Nat /\ Len(s) >= 1 /\ Head(s) = s[1]
      /\ Tail(s) \in D!Snapshots /\ Len(Tail(s)) = Len(s) - 1
      /\ \A k \in 1 .. Len(Tail(s)) : Tail(s)[k] = s[k + 1] /\ k + 1 \in 1 .. Len(s)
      /\ 1 \in 1 .. Len(s)
  BY DEF D!Snapshots
<1>2. Head(s) \in D!SnapshotEntries /\ Head(s).path \in D!Places
  <2>1. Head(s) \in D!SnapshotEntries
    BY <1>1
  <2> QED BY <2>1 DEF D!SnapshotEntries
<1>3. D!Paths(s) \in Seq(D!Places) /\ Len(D!Paths(s)) = Len(s)
        /\ \A k \in 1 .. Len(s) : D!Paths(s)[k] = s[k].path
  BY SnapshotPaths
<1>4. /\ D!Paths(Tail(s)) \in Seq(D!Places) /\ Len(D!Paths(Tail(s))) = Len(s) - 1
      /\ \A k \in 1 .. Len(s) - 1 : D!Paths(Tail(s))[k] = s[k + 1].path
  <2>1. /\ D!Paths(Tail(s)) \in Seq(D!Places) /\ Len(D!Paths(Tail(s))) = Len(Tail(s))
        /\ \A k \in 1 .. Len(Tail(s)) : D!Paths(Tail(s))[k] = Tail(s)[k].path
    BY <1>1, SnapshotPaths
  <2> QED BY <1>1, <2>1
<1>5. ASSUME NEW d \in Seq(D!Places)
      PROVE  Append(d, Head(s).path) \o D!Paths(Tail(s)) = d \o D!Paths(s)
  <2> DEFINE paths == D!Paths(s)
             Q == D!Paths(Tail(s))
             h == Head(s).path
  <2>1. paths \in Seq(D!Places) /\ Q \in Seq(D!Places) /\ h \in D!Places /\ Len(paths) = Len(Q) + 1
          /\ paths[1] = h
    <3>1. paths \in Seq(D!Places) /\ Q \in Seq(D!Places) /\ h \in D!Places
      BY <1>2, <1>3, <1>4
    <3>2. Len(paths) = Len(s) /\ Len(Q) = Len(s) - 1 /\ paths[1] = s[1].path
      BY <1>1, <1>3, <1>4
    <3>3. h = s[1].path
      BY <1>1
    <3> HIDE DEF paths, Q, h
    <3> QED BY <1>1, <3>1, <3>2, <3>3
  <2>2. \A k \in 1 .. Len(Q) : paths[k + 1] = Q[k]
    BY <1>1, <1>3, <1>4
  <2> HIDE DEF paths, Q, h
  <2> DEFINE a == Append(d, h)
             l == a \o Q
             r == d \o paths
  <2>3. a \in Seq(D!Places) /\ Len(a) = Len(d) + 1 /\ a[Len(a)] = h /\ \A k \in 1 .. Len(d) : a[k] = d[k]
    BY <2>1
  <2> HIDE DEF a
  <2>4. /\ l \in Seq(D!Places) /\ Len(l) = Len(a) + Len(Q)
        /\ \A k \in 1 .. Len(l) : l[k] = IF k <= Len(a) THEN a[k] ELSE Q[k - Len(a)]
    <3>1. a \in Seq(D!Places) /\ Q \in Seq(D!Places)
      BY <2>1, <2>3
    <3> QED BY <3>1
  <2>5. /\ r \in Seq(D!Places) /\ Len(r) = Len(d) + Len(paths)
        /\ \A k \in 1 .. Len(r) : r[k] = IF k <= Len(d) THEN d[k] ELSE paths[k - Len(d)]
    BY <2>1
  <2> HIDE DEF l, r
  <2>6. Len(d) \in Nat /\ Len(Q) \in Nat /\ Len(l) = Len(r)
    BY <2>1, <2>3, <2>4, <2>5
  <2>7. ASSUME NEW k \in 1 .. Len(l)
        PROVE  l[k] = r[k]
    <3>1. CASE k <= Len(d)
      <4>1. l[k] = a[k] /\ a[k] = d[k] /\ r[k] = d[k]
        BY <2>3, <2>4, <2>5, <2>6, <3>1
      <4> QED BY <4>1
    <3>2. CASE k = Len(a)
      <4>1. l[k] = h
        BY <2>3, <2>4, <3>2
      <4>2. k - Len(d) = 1 /\ ~(k <= Len(d))
        BY <2>3, <2>6, <3>2
      <4>3. r[k] = paths[1]
        BY <2>5, <2>6, <4>2
      <4> QED BY <2>1, <4>1, <4>3
    <3>3. CASE k > Len(a)
      <4>1. k - Len(a) \in 1 .. Len(Q) /\ k - Len(d) = (k - Len(a)) + 1 /\ ~(k <= Len(a)) /\ ~(k <= Len(d))
        BY <2>3, <2>4, <2>6, <3>3
      <4>2. l[k] = Q[k - Len(a)] /\ r[k] = paths[k - Len(d)]
        BY <2>4, <2>5, <2>6, <4>1
      <4>3. paths[(k - Len(a)) + 1] = Q[k - Len(a)]
        BY <2>2, <4>1
      <4> QED BY <4>1, <4>2, <4>3
    <3> QED BY <2>3, <2>6, <3>1, <3>2, <3>3
  <2>8. l = r
    BY <2>4, <2>5, <2>6, <2>7, SeqEqual
  <2> QED BY <2>8 DEF l, r, a, paths, Q, h
<1> QED BY <1>1, <1>2, <1>5


(* The steps of the call. *)

\* The types of what is not a file.
RestTyped ==
  /\ phase \in {"idle", "check", "ask", "recheck", "confirm", "aim", "look", "unlink", "ended"}
  /\ target \in Targets \union {<<>>} /\ recursive \in BOOLEAN
  /\ entries \in D!Snapshots /\ shown \in D!Snapshots /\ prepared \in D!Snapshots
  /\ truth \subseteq D!SnapshotEntries
  /\ answer \in {"none", "yes", "no"}
  /\ pending \in D!Snapshots /\ deleted \in Seq(D!Places) /\ anchor \in D!Inodes
  /\ removed \subseteq [path : D!Places, version : [inode : D!Inodes, stamp : Nat], parent : D!Inodes]
  /\ report.ended \in {"no", "refused", "declined", "deleted", "interrupted"}
AllTyped == NodeInv /\ RestTyped => D!TypeInvariant

\* The type invariant is the types of the tree with the types of the rest.
LEMMA TypesOfAll == AllTyped
<1> SUFFICES ASSUME NodeInv, RestTyped PROVE D!TypeInvariant
  BY DEF AllTyped
<1>1. /\ node \in [D!Inodes -> [kind : D!Kinds, stamp : Nat, kids : [D!NameSet -> D!Inodes]]]
      /\ edits \in 0 .. MaxEdits /\ fresh \in 8 .. 8 + 2 * edits
  BY DEF NodeInv, NodeTyped
<1>2. fresh \in 8 .. 8 + 2 * MaxEdits
  BY <1>1, DeletionConstants
<1> QED BY <1>1, <1>2 DEF RestTyped, D!TypeInvariant

\* And so it is after a step.
LEMMA TypesOfAllAfter == AllTyped'
BY TypesOfAll, PTL

\* A step that changes no file leaves the inodes as they are.
LEMMA SameFiles ==
  ASSUME DeletionInv, UNCHANGED <<node, fresh, edits>>
  PROVE  NodeInv /\ NodeInv' /\ NodeTyped' /\ Evolves
<1>1. NodeInv
  BY DEF DeletionInv, CallKept
<1>2. NodeInv' /\ Evolves
  BY <1>1, FilesKept
<1> QED BY <1>1, <1>2 DEF NodeInv

\* What was said before the entries are removed, and what they were.
Agreed ==
  phase = "confirm" \/ D!Removing => (D!NeedsConfirmation(prepared) => answer = "yes" /\ shown = prepared)
Outcomes == D!SnapshotWasTrue /\ D!FromInspectedDirectory /\ D!ReportTrue

\* Others change files.
LEMMA OthersKeep ==
  ASSUME DeletionInv, NodeInv', Evolves, D!KeepCall
  PROVE  DeletionInv'
<1>0. /\ UNCHANGED <<phase, target, recursive, todo, entries, shown, answer, prepared, truth>>
      /\ UNCHANGED <<pending, deleted, anchor, report, removed>>
      /\ NodeInv /\ NodeTyped' /\ CallKept
  BY DEF D!KeepCall, D!callVars, D!walkVars, D!askVars, D!runVars, DeletionInv, CallKept, NodeInv
<1>1. CallKept'
  <2>1. RestTyped'
    BY <1>0 DEF CallKept, D!TypeInvariant, RestTyped
  <2>2. D!TypeInvariant'
    BY <2>1, TypesOfAllAfter DEF AllTyped
  <2> QED BY <1>0, <2>2 DEF CallKept
<1>2. D!Preparing' => WalkInv'
  BY <1>0, WalkStays DEF DeletionInv, D!Preparing
<1>3. phase' \in {"confirm", "aim", "look", "unlink"} => PreparedKept'
  BY <1>0, PreparedStays DEF DeletionInv
<1>4. phase' = "confirm" => TruthKept' /\ Found'
  BY <1>0 DEF DeletionInv, TruthKept, Found
<1>5. phase' \in {"aim", "look", "unlink"} => Removals'
  BY <1>0 DEF DeletionInv, Removals, Awaits
<1>6. Agreed' /\ Outcomes'
  BY <1>0 DEF DeletionInv, Agreed, Outcomes, D!SnapshotWasTrue, D!FromInspectedDirectory,
       D!ReportTrue, D!Removing
<1> QED BY <1>1, <1>2, <1>3, <1>4, <1>5, <1>6 DEF DeletionInv, Agreed, Outcomes

\* Another program writes to a file.
LEMMA WriteStep ==
  ASSUME DeletionInv, NEW path \in D!Places, D!Write(path)
  PROVE  DeletionInv'
<1>1. NodeInv /\ D!KeepCall
  BY DEF DeletionInv, CallKept, D!Write
<1> QED BY <1>1, WriteKept, OthersKeep

\* Another program removes an entry.
LEMMA TakeStep ==
  ASSUME DeletionInv, NEW path \in D!Places, D!Take(path)
  PROVE  DeletionInv'
<1>1. NodeInv /\ D!KeepCall
  BY DEF DeletionInv, CallKept, D!Take
<1> QED BY <1>1, TakeKept, OthersKeep

\* Another program puts a file, a link or a directory in place.
LEMMA PutStep ==
  ASSUME DeletionInv, NEW path \in D!Places, NEW kind \in {"file", "symlink", "directory"},
           D!Put(path, kind)
  PROVE  DeletionInv'
<1>1. NodeInv /\ D!KeepCall
  BY DEF DeletionInv, CallKept, D!Put
<1> QED BY <1>1, PutKept, OthersKeep

\* A walk goes on, to a state that is as it should be.
LEMMA WalkGoesOn ==
  ASSUME DeletionInv, D!Preparing, NodeInv',
           UNCHANGED <<D!fileVars, phase, D!callVars, D!askVars, D!runVars, report>>,
         WalkInv', entries' \in D!Snapshots, phase = "confirm" => Found' /\ PreparedKept',
         \A k \in 1 .. Len(entries') : ~D!Matches(entries'[k].path, Denied)
  PROVE  DeletionInv'
<1>0. /\ UNCHANGED <<phase, target, recursive, shown, answer, prepared, truth>>
      /\ UNCHANGED <<pending, deleted, anchor, report, removed>>
      /\ CallKept /\ phase \in {"check", "recheck", "confirm"}
  BY DEF D!fileVars, D!callVars, D!askVars, D!runVars, DeletionInv, D!Preparing
<1>1. CallKept'
  <2>1. RestTyped'
    BY <1>0 DEF CallKept, D!TypeInvariant, RestTyped
  <2>2. D!TypeInvariant'
    BY <2>1, TypesOfAllAfter DEF AllTyped
  <2> QED BY <1>0, <2>2 DEF CallKept
<1>2. phase' = "confirm" => TruthKept'
  BY <1>0 DEF DeletionInv, TruthKept
<1>3. Agreed' /\ Outcomes'
  BY <1>0 DEF DeletionInv, Agreed, Outcomes, D!SnapshotWasTrue, D!FromInspectedDirectory,
       D!ReportTrue, D!Removing
<1> QED BY <1>0, <1>1, <1>2, <1>3 DEF DeletionInv, Agreed, Outcomes

\* prepare_delete has read a file.
LEMMA HashStep ==
  ASSUME DeletionInv, D!Hash
  PROVE  DeletionInv'
<1>0. /\ UNCHANGED <<D!fileVars, phase, D!callVars, D!askVars, D!runVars, report>> /\ D!Preparing
           /\ entries' = entries
      /\ UNCHANGED <<node, fresh, edits>> /\ UNCHANGED <<target, prepared, truth>>
  BY DEF D!Hash, D!Walking, D!fileVars, D!callVars, D!askVars
<1>1. NodeInv /\ NodeInv' /\ NodeTyped' /\ Evolves
  BY <1>0, SameFiles
<1>2. WalkInv'
  BY <1>0, <1>1, HashWalk DEF DeletionInv
<1>3. phase = "confirm" => Found' /\ PreparedKept'
  BY <1>0, <1>1, PreparedStays DEF DeletionInv, Found
<1>4. entries' \in D!Snapshots /\ \A k \in 1 .. Len(entries') : ~D!Matches(entries'[k].path, Denied)
  BY <1>0 DEF DeletionInv, CallKept, D!TypeInvariant
<1> QED BY <1>0, <1>1, <1>2, <1>3, <1>4, WalkGoesOn

\* prepare_delete lists a directory.
LEMMA ListStep ==
  ASSUME DeletionInv, D!List
  PROVE  DeletionInv'
<1>0. /\ UNCHANGED <<D!fileVars, phase, D!callVars, D!askVars, D!runVars, report>> /\ D!Preparing
           /\ entries' = entries
      /\ UNCHANGED <<node, fresh, edits>> /\ UNCHANGED <<target, prepared, truth>>
  BY DEF D!List, D!Walking, D!fileVars, D!callVars, D!askVars
<1>1. NodeInv /\ NodeInv' /\ NodeTyped' /\ Evolves
  BY <1>0, SameFiles
<1>2. WalkInv'
  BY <1>0, <1>1, ListWalk DEF DeletionInv
<1>3. phase = "confirm" => Found' /\ PreparedKept'
  BY <1>0, <1>1, PreparedStays DEF DeletionInv, Found
<1>4. entries' \in D!Snapshots /\ \A k \in 1 .. Len(entries') : ~D!Matches(entries'[k].path, Denied)
  BY <1>0 DEF DeletionInv, CallKept, D!TypeInvariant
<1> QED BY <1>0, <1>1, <1>2, <1>3, <1>4, WalkGoesOn

\* An entry is noted. In the last walk it is as it is in the snapshot, if it was so in between.
LEMMA VisitStep ==
  ASSUME DeletionInv, D!Visit
  PROVE  DeletionInv'
<1>0. /\ UNCHANGED <<D!fileVars, phase, D!callVars, D!askVars, D!runVars, report>> /\ D!Preparing
      /\ UNCHANGED <<node, fresh, edits>> /\ UNCHANGED <<target, prepared, truth>>
  BY DEF D!Visit, D!Walking, D!fileVars, D!callVars, D!askVars
<1>1. NodeInv /\ NodeInv' /\ NodeTyped' /\ Evolves
  BY <1>0, SameFiles
<1>2. /\ WalkInv /\ entries \in D!Snapshots /\ (phase = "confirm" => PreparedKept /\ Found)
      /\ \A k \in 1 .. Len(entries) : ~D!Matches(entries[k].path, Denied)
  BY <1>0 DEF DeletionInv, CallKept, D!TypeInvariant
<1>3. WalkInv'
  BY <1>0, <1>1, <1>2, VisitWalk
<1>e. PICK e : e = NewEntry
  OBVIOUS
<1>4. Seen(e) /\ Current(e) /\ ~D!Matches(e.path, Denied) /\ entries' = Append(entries, e)
  BY <1>e, <1>1, <1>2, Visited DEF WalkInv
<1>5. /\ entries' \in D!Snapshots
      /\ \A k \in 1 .. Len(entries') : entries'[k] = e
           \/ (k \in 1 .. Len(entries) /\ entries'[k] = entries[k])
  BY <1>2, <1>4 DEF Seen, D!Snapshots
<1>6. \A k \in 1 .. Len(entries') : ~D!Matches(entries'[k].path, Denied)
  BY <1>2, <1>4, <1>5
<1>7. ASSUME phase = "confirm"
      PROVE  Found' /\ PreparedKept'
  <2>1. PreparedKept'
    BY <1>0, <1>1, <1>2, <1>7, PreparedStays
  <2>2. ASSUME e \in D!ToSet(prepared)
        PROVE  e \in truth
    <3>1. PICK k \in 1 .. Len(prepared) : e = prepared[k]
      BY <2>2 DEF D!ToSet, DeletionInv, CallKept, D!TypeInvariant, D!Snapshots
    <3> QED BY <1>2, <1>4, <1>7, <3>1 DEF PreparedKept
  <2>3. Found'
    BY <1>0, <1>2, <1>5, <1>7, <2>2 DEF Found
  <2> QED BY <2>1, <2>3
<1> QED BY <1>0, <1>1, <1>3, <1>5, <1>6, <1>7, WalkGoesOn

\* The call ends.
LEMMA ReturnKept ==
  ASSUME DeletionInv, phase # "idle",
         NEW how \in {"refused", "declined", "deleted", "interrupted"}, NEW done, NEW left,
         D!Return(how, done, left), D!ToSet(done) = {r.path : r \in removed},
         removed # {} => done \o left = D!Reverse(D!Paths(prepared)), how = "deleted" => left = <<>>
  PROVE  DeletionInv'
<1>0. /\ UNCHANGED <<target, recursive, todo, entries, shown, answer, prepared, truth>>
      /\ UNCHANGED <<pending, deleted, anchor, removed>> /\ UNCHANGED <<node, fresh, edits>>
      /\ phase' = "ended" /\ report' = [ended |-> how, deleted |-> done, remaining |-> left]
      /\ CallKept
  BY DEF D!Return, D!fileVars, D!callVars, D!walkVars, D!askVars, D!runVars, DeletionInv
<1>1. NodeInv'
  BY <1>0, SameFiles
<1>2. report'.ended = how /\ report'.deleted = done /\ report'.remaining = left
  BY <1>0
<1>3. CallKept'
  <2>1. RestTyped'
    BY <1>0, <1>2 DEF CallKept, D!TypeInvariant, RestTyped
  <2>2. D!TypeInvariant'
    BY <1>1, <2>1, TypesOfAllAfter DEF AllTyped
  <2> QED BY <1>0, <1>1, <2>2 DEF CallKept
<1>4. Agreed' /\ D!SnapshotWasTrue' /\ D!FromInspectedDirectory'
  BY <1>0 DEF DeletionInv, Agreed, D!SnapshotWasTrue, D!FromInspectedDirectory, D!Removing
<1>5. D!ReportTrue'
  BY <1>0, <1>2 DEF D!ReportTrue
<1> QED BY <1>0, <1>3, <1>4, <1>5 DEF DeletionInv, Agreed, D!Preparing

\* Nothing was removed before the entries are to be.
LEMMA NoneRemoved ==
  ASSUME DeletionInv, phase \in {"idle", "check", "ask", "recheck", "confirm"}
  PROVE  removed = {} /\ D!ToSet(<<>>) = {r.path : r \in removed}
<1>1. removed = {}
  BY DEF DeletionInv, CallKept
<1>2. D!ToSet(<<>>) = {}
  BY DEF D!ToSet
<1> QED BY <1>1, <1>2

\* The snapshot cannot be taken, or it is not the one that was shown.
LEMMA RefusedStep ==
  ASSUME DeletionInv, D!PrepareFails \/ D!Changed
  PROVE  DeletionInv'
<1>1. phase \in {"check", "recheck", "confirm"} /\ D!Return("refused", <<>>, <<>>)
  BY DEF D!PrepareFails, D!Changed, D!Preparing, D!Walked
<1>2. removed = {} /\ D!ToSet(<<>>) = {r.path : r \in removed}
  BY <1>1, NoneRemoved
<1> QED BY <1>1, <1>2, ReturnKept

\* A walk starts before anything is allowed.
LEMMA StartStep ==
  ASSUME DeletionInv, phase \in {"idle", "ask"}, phase' \in {"check", "recheck"},
         target' \in Targets, recursive' \in BOOLEAN, answer' \in {"none", "yes", "no"},
           D!StartWalk(target'),
         UNCHANGED <<D!fileVars, shown, prepared, truth, D!runVars, report>>
  PROVE  DeletionInv'
<1>0. /\ UNCHANGED <<shown, prepared, truth>> /\ entries' = <<>>
      /\ UNCHANGED <<pending, deleted, anchor, removed, report>> /\ UNCHANGED <<node, fresh, edits>>
      /\ CallKept /\ removed = {}
  BY NoneRemoved DEF D!StartWalk, D!fileVars, D!runVars, DeletionInv
<1>1. NodeInv'
  BY <1>0, SameFiles
<1>2. WalkInv'
  BY StartWalkKept, DeletionConstants
<1>3. CallKept'
  <2>1. RestTyped'
    BY <1>0 DEF CallKept, D!TypeInvariant, RestTyped, D!Snapshots
  <2>2. D!TypeInvariant'
    BY <1>1, <2>1, TypesOfAllAfter DEF AllTyped
  <2> QED BY <1>0, <1>1, <2>2 DEF CallKept
<1>4. Agreed' /\ Outcomes'
  BY <1>0 DEF Agreed, Outcomes, D!SnapshotWasTrue, D!FromInspectedDirectory, D!ReportTrue, D!Removing
<1> QED BY <1>2, <1>3, <1>4 DEF DeletionInv, Agreed, Outcomes

\* delete_path is called.
LEMMA CallStep ==
  ASSUME DeletionInv, NEW path \in Targets, NEW all \in BOOLEAN, D!Call(path, all)
  PROVE  DeletionInv'
<1>1. /\ phase = "idle" /\ phase' = "check" /\ target' = path /\ recursive' = all
      /\ D!StartWalk(target') /\ UNCHANGED <<D!fileVars, shown, prepared, truth, D!runVars, report>>
      /\ answer' = answer
  BY DEF D!Call, D!askVars
<1>2. answer' \in {"none", "yes", "no"}
  BY <1>1 DEF DeletionInv, CallKept, D!TypeInvariant
<1> QED BY <1>1, <1>2, StartStep

\* The user says yes or no.
LEMMA AnswerStep ==
  ASSUME DeletionInv, NEW says \in {"yes", "no"}, D!Answer(says)
  PROVE  DeletionInv'
<1>1. /\ phase = "ask" /\ phase' = "recheck" /\ answer' = says /\ target' = target /\ recursive' = recursive
      /\ D!StartWalk(target') /\ UNCHANGED <<D!fileVars, shown, prepared, truth, D!runVars, report>>
  BY DEF D!Answer, D!callVars
<1>2. target' \in Targets /\ recursive' \in BOOLEAN
  BY <1>1 DEF DeletionInv, CallKept, D!TypeInvariant
<1> QED BY <1>1, <1>2, StartStep

\* The snapshot is put before the user.
LEMMA AskStep ==
  ASSUME DeletionInv, phase \in {"check", "recheck"}, D!Ask(entries)
  PROVE  DeletionInv'
<1>0. /\ UNCHANGED <<target, recursive, todo, entries, prepared, truth>>
      /\ UNCHANGED <<pending, deleted, anchor, removed, report>> /\ UNCHANGED <<node, fresh, edits>>
      /\ phase' = "ask" /\ shown' = entries /\ answer' = "none"
      /\ CallKept /\ removed = {}
  BY NoneRemoved DEF D!Ask, D!fileVars, D!callVars, D!walkVars, D!runVars, DeletionInv
<1>1. NodeInv'
  BY <1>0, SameFiles
<1>2. CallKept'
  <2>1. RestTyped'
    BY <1>0 DEF CallKept, D!TypeInvariant, RestTyped
  <2>2. D!TypeInvariant'
    BY <1>1, <2>1, TypesOfAllAfter DEF AllTyped
  <2> QED BY <1>0, <1>1, <2>2 DEF CallKept
<1>3. Agreed' /\ Outcomes'
  BY <1>0 DEF Agreed, Outcomes, D!SnapshotWasTrue, D!FromInspectedDirectory, D!ReportTrue, D!Removing
<1> QED BY <1>0, <1>2, <1>3 DEF DeletionInv, Agreed, Outcomes, D!Preparing

\* The call is allowed with what was shown, or with one entry.
LEMMA AllowStep ==
  ASSUME DeletionInv, phase \in {"check", "recheck"}, todo = <<>>, D!Allow(entries),
         D!NeedsConfirmation(entries) => answer = "yes" /\ shown = entries
  PROVE  DeletionInv'
<1>0. /\ UNCHANGED <<target, recursive, shown, answer>>
      /\ UNCHANGED <<pending, deleted, anchor, removed, report>> /\ UNCHANGED <<node, fresh, edits>>
      /\ phase' = "confirm" /\ prepared' = entries /\ truth' = D!Tree(target) /\ D!StartWalk(target')
      /\ entries' = <<>> /\ CallKept /\ removed = {} /\ WalkInv
  BY NoneRemoved DEF D!Allow, D!StartWalk, D!fileVars, D!callVars, D!runVars, DeletionInv, D!Preparing
<1>1. NodeInv /\ NodeInv'
  BY <1>0, SameFiles
<1>2. target \in D!Places /\ target' \in D!Places
  BY <1>0, DeletionConstants DEF CallKept
<1>3. PreparedKept' /\ TruthKept' /\ Found'
  BY <1>0, <1>1, <1>2, AllowKeeps
<1>4. WalkInv'
  BY <1>0, <1>2, StartWalkKept
<1>5. CallKept'
  <2>1. truth' \subseteq D!SnapshotEntries
    BY <1>3 DEF TruthKept
  <2>2. RestTyped'
    BY <1>0, <2>1 DEF CallKept, D!TypeInvariant, RestTyped, D!Snapshots
  <2>3. D!TypeInvariant'
    BY <1>1, <2>2, TypesOfAllAfter DEF AllTyped
  <2> QED BY <1>0, <1>1, <2>3 DEF CallKept
<1>6. Agreed' /\ Outcomes'
  BY <1>0 DEF Agreed, Outcomes, D!SnapshotWasTrue, D!FromInspectedDirectory, D!ReportTrue, D!Removing
<1> QED BY <1>0, <1>3, <1>4, <1>5, <1>6 DEF DeletionInv, Agreed, Outcomes

\* The policy is asked for the first time.
LEMMA CheckStep ==
  ASSUME DeletionInv, D!Check
  PROVE  DeletionInv'
<1>1. phase = "check" /\ todo = <<>>
  BY DEF D!Check, D!Walked
<1>2. CASE D!NeedsConfirmation(entries)
  BY <1>1, <1>2, AskStep DEF D!Check
<1>3. CASE ~D!NeedsConfirmation(entries)
  BY <1>1, <1>3, AllowStep DEF D!Check
<1> QED BY <1>2, <1>3

\* The policy is asked again, with the answer.
LEMMA RecheckStep ==
  ASSUME DeletionInv, D!Recheck
  PROVE  DeletionInv'
<1>1. phase = "recheck" /\ todo = <<>>
  BY DEF D!Recheck, D!Walked
<1>2. CASE ~D!NeedsConfirmation(entries) /\ D!Allow(entries)
  BY <1>1, <1>2, AllowStep
<1>3. CASE D!NeedsConfirmation(entries) /\ D!SameContext(entries) /\ answer = "yes" /\ D!Allow(entries)
  BY <1>1, <1>3, AllowStep DEF D!SameContext
<1>4. CASE D!Return("declined", <<>>, <<>>)
  <2>1. removed = {} /\ D!ToSet(<<>>) = {r.path : r \in removed}
    BY <1>1, NoneRemoved
  <2> QED BY <1>1, <1>4, <2>1, ReturnKept
<1>5. CASE D!Ask(entries)
  BY <1>1, <1>5, AskStep
<1> QED BY <1>2, <1>3, <1>4, <1>5 DEF D!Recheck


\* The entries are removed one after the other.
LEMMA RemovalGoesOn ==
  ASSUME DeletionInv, phase \in {"confirm", "aim", "look", "unlink"}, phase' \in {"aim", "look", "unlink"},
         NodeInv', Evolves, UNCHANGED <<D!callVars, D!walkVars, D!askVars, report>>,
         pending' \in D!Snapshots, deleted' \in Seq(D!Places), anchor' \in D!Inodes,
         removed' \subseteq [path : D!Places, version : [inode : D!Inodes, stamp : Nat], parent : D!Inodes],
         Removals', D!SnapshotWasTrue', D!FromInspectedDirectory'
  PROVE  DeletionInv'
<1>0. /\ UNCHANGED <<target, recursive, todo, entries, shown, answer, prepared, truth, report>>
      /\ CallKept /\ NodeInv /\ NodeTyped' /\ PreparedKept
  BY DEF D!callVars, D!walkVars, D!askVars, DeletionInv, CallKept, NodeInv
<1>1. CallKept'
  <2>1. RestTyped'
    BY <1>0 DEF CallKept, D!TypeInvariant, RestTyped
  <2>2. D!TypeInvariant'
    BY <2>1, TypesOfAllAfter DEF AllTyped
  <2> QED BY <1>0, <2>2 DEF CallKept
<1>2. PreparedKept'
  BY <1>0, PreparedStays
<1>3. Agreed' /\ D!ReportTrue'
  BY <1>0 DEF DeletionInv, Agreed, D!ReportTrue, D!Removing
<1> QED BY <1>1, <1>2, <1>3 DEF DeletionInv, Agreed, D!Preparing

\* The snapshot is what there was between two walks, and its entries are to be removed, the last first.
LEMMA ConfirmStep ==
  ASSUME DeletionInv, D!Confirm
  PROVE  DeletionInv'
<1>0. /\ phase = "confirm" /\ entries = prepared /\ phase' = "aim"
      /\ pending' = D!Reverse(prepared) /\ deleted' = <<>>
      /\ UNCHANGED <<D!callVars, D!walkVars, D!askVars, report>>
           /\ UNCHANGED <<node, fresh, edits, removed, anchor>>
      /\ UNCHANGED <<target, prepared, truth>>
  BY DEF D!Confirm, D!Walked, D!fileVars, D!callVars, D!askVars
<1>1. /\ NodeInv /\ NodeInv' /\ Evolves /\ PreparedKept /\ TruthKept /\ Found
      /\ prepared \in D!Snapshots /\ anchor \in D!Inodes
  BY <1>0, SameFiles DEF DeletionInv, CallKept, D!TypeInvariant
<1>2. removed = {} /\ D!ToSet(<<>>) = {r.path : r \in removed}
  BY <1>0, NoneRemoved
<1>3. D!ToSet(prepared) = truth
  BY <1>0, <1>1, TheTruth
<1>4. D!SnapshotWasTrue' /\ D!FromInspectedDirectory'
  <2>1. \A k \in 1 .. Len(prepared) : prepared[k].path # target =>
          \E m \in 1 .. k - 1 : prepared[m].path = D!Front(prepared[k].path)
    BY <1>1 DEF PreparedKept, AnchorKept
  <2> QED BY <1>0, <1>1, <1>2, <1>3, <2>1 DEF D!SnapshotWasTrue, D!FromInspectedDirectory, PreparedKept
<1>5. /\ D!Reverse(prepared) \in D!Snapshots /\ Len(D!Reverse(prepared)) = Len(prepared)
      /\ \A k \in 1 .. Len(prepared) :
           D!Reverse(prepared)[k] = prepared[Len(prepared) - k + 1]
             /\ Len(prepared) - k + 1 \in 1 .. Len(prepared)
      /\ D!Paths(D!Reverse(prepared)) = D!Reverse(D!Paths(prepared))
  BY <1>1, ReversedPaths
<1>6. Removals'
  <2>1. <<>> \o D!Paths(D!Reverse(prepared)) = D!Reverse(D!Paths(prepared))
    <3>1. D!Paths(D!Reverse(prepared)) \in Seq(D!Places)
      BY <1>5, SnapshotPaths
    <3> QED BY <1>5, <3>1
  <2>2. \A k \in 1 .. Len(pending') : \E m \in 1 .. Len(prepared) : pending'[k] = prepared[m]
    BY <1>0, <1>5
  <2> QED BY <1>0, <1>2, <2>1, <2>2 DEF Removals, Awaits
<1>7. /\ pending' \in D!Snapshots /\ deleted' \in Seq(D!Places) /\ anchor' \in D!Inodes
      /\ removed' \subseteq [path : D!Places, version : [inode : D!Inodes, stamp : Nat], parent : D!Inodes]
  BY <1>0, <1>1, <1>2, <1>5
<1> QED BY <1>0, <1>1, <1>4, <1>6, <1>7, RemovalGoesOn

\* The directory of the next entry is opened.
LEMMA AimStep ==
  ASSUME DeletionInv, D!Aim
  PROVE  DeletionInv'
<1>0. /\ phase = "aim" /\ pending # <<>> /\ phase' = "look"
           /\ anchor' = D!Opened(D!Front(Head(pending).path))
      /\ UNCHANGED <<D!callVars, D!walkVars, D!askVars, report>>
           /\ UNCHANGED <<node, fresh, edits, removed>>
      /\ UNCHANGED <<target, prepared, truth, pending, deleted>>
  BY DEF D!Aim, D!fileVars, D!callVars, D!askVars
<1>1. /\ NodeInv /\ NodeInv' /\ Evolves /\ Removals /\ D!SnapshotWasTrue /\ D!FromInspectedDirectory
      /\ pending \in D!Snapshots /\ deleted \in Seq(D!Places)
      /\ removed \subseteq [path : D!Places, version : [inode : D!Inodes, stamp : Nat], parent : D!Inodes]
  BY <1>0, SameFiles DEF DeletionInv, CallKept, D!TypeInvariant
<1>2. anchor' \in D!Inodes
  <2>1. Head(pending).path \in D!Places
    BY <1>0, <1>1, RestOfPaths
  <2>2. D!Front(Head(pending).path) \in Levels
    BY <2>1, PlaceShape
  <2> QED BY <1>0, <1>1, <2>2, OpenedTyped
<1>3. Removals'
  BY <1>0, <1>1 DEF Removals, Awaits
<1>4. D!SnapshotWasTrue' /\ D!FromInspectedDirectory'
  BY <1>0, <1>1 DEF D!SnapshotWasTrue, D!FromInspectedDirectory, D!Removing
<1> QED BY <1>0, <1>1, <1>2, <1>3, <1>4, RemovalGoesOn

\* The entry is the one that was seen, in a directory that it was only ever in.
LEMMA LookStep ==
  ASSUME DeletionInv, D!Look
  PROVE  DeletionInv'
<1>0. /\ phase = "look" /\ D!Unchanged /\ phase' = "unlink"
      /\ UNCHANGED <<D!callVars, D!walkVars, D!askVars, report>>
           /\ UNCHANGED <<node, fresh, edits, removed>>
      /\ UNCHANGED <<target, prepared, truth, pending, deleted, anchor>>
  BY DEF D!Look, D!fileVars, D!callVars, D!askVars, D!runVars
<1>1. /\ NodeInv /\ NodeInv' /\ Evolves /\ Removals /\ D!SnapshotWasTrue /\ D!FromInspectedDirectory
      /\ pending \in D!Snapshots /\ deleted \in Seq(D!Places) /\ anchor \in D!Inodes /\ PreparedKept
      /\ removed \subseteq [path : D!Places, version : [inode : D!Inodes, stamp : Nat], parent : D!Inodes]
  BY <1>0, SameFiles DEF DeletionInv, CallKept, D!TypeInvariant
<1>e. PICK e : e = Head(pending)
  OBVIOUS
<1>2. pending # <<>> /\ e = pending[1] /\ e.path \in D!Places /\ 1 \in 1 .. Len(pending)
  <2>1. pending # <<>>
    BY <1>0, <1>1 DEF Removals
  <2> QED BY <1>e, <1>1, <2>1, RestOfPaths
<1>3. PICK m \in 1 .. Len(prepared) : e = prepared[m]
  BY <1>1, <1>2 DEF Removals
<1>4. Seen(e) /\ AnchorKept(m)
  BY <1>1, <1>3 DEF PreparedKept
<1>5. D!Child(anchor, D!Last(e.path)) = e.version.inode
  BY <1>0, <1>e DEF D!Unchanged, D!Held, D!Version
<1>6. node[anchor].kids[D!Last(e.path)] = e.version.inode /\ D!Last(e.path) \in D!NameSet
  BY <1>1, <1>2, <1>5, Kid, PlaceShape
<1>7. ASSUME e.path # target
      PROVE  \E j \in 1 .. Len(prepared) :
               prepared[j].path = D!Front(e.path) /\ prepared[j].version.inode = anchor
  <2>1. PICK j \in 1 .. m - 1 :
          prepared[j].path = D!Front(e.path) /\ OnlyIn(e.version.inode, prepared[j].version.inode)
    BY <1>3, <1>4, <1>7 DEF AnchorKept
  <2>2. prepared[j].version.inode = anchor /\ j \in 1 .. Len(prepared)
    BY <1>1, <1>6, <2>1 DEF OnlyIn
  <2> QED BY <2>1, <2>2
<1>8. Removals'
  BY <1>0, <1>1, <1>e, <1>2, <1>7 DEF Removals, Awaits
<1>9. D!SnapshotWasTrue' /\ D!FromInspectedDirectory'
  BY <1>0, <1>1 DEF D!SnapshotWasTrue, D!FromInspectedDirectory, D!Removing
<1> QED BY <1>0, <1>1, <1>8, <1>9, RemovalGoesOn

\* It is removed from that directory.
LEMMA UnlinkStep ==
  ASSUME DeletionInv, D!Unlink
  PROVE  DeletionInv'
<1>p. PICK path : path = Head(pending).path
  OBVIOUS
<1>r. PICK r : r = [path |-> path, version |-> D!Version(D!Held), parent |-> anchor]
  OBVIOUS
<1>0. /\ phase = "unlink" /\ phase' = "aim" /\ D!Unlinks
      /\ node' = [node EXCEPT ![anchor].kids[D!Last(path)] = 0, ![anchor].stamp = @ + 1]
      /\ removed' = removed \union {r} /\ deleted' = Append(deleted, path) /\ pending' = Tail(pending)
      /\ UNCHANGED <<D!callVars, D!walkVars, D!askVars, report>> /\ UNCHANGED <<fresh, edits, anchor>>
      /\ UNCHANGED <<target, prepared, truth>>
  BY <1>p, <1>r DEF D!Unlink, D!callVars, D!askVars
<1>1. /\ NodeInv /\ Removals /\ D!SnapshotWasTrue /\ D!FromInspectedDirectory
      /\ pending \in D!Snapshots /\ deleted \in Seq(D!Places) /\ anchor \in D!Inodes
      /\ removed \subseteq [path : D!Places, version : [inode : D!Inodes, stamp : Nat], parent : D!Inodes]
  BY <1>0 DEF DeletionInv, CallKept, D!TypeInvariant
<1>2. /\ pending # <<>> /\ path \in D!Places /\ Tail(pending) \in D!Snapshots
      /\ \A k \in 1 .. Len(Tail(pending)) : Tail(pending)[k] = pending[k + 1] /\ k + 1 \in 1 .. Len(pending)
      /\ Append(deleted, path) \o D!Paths(Tail(pending)) = deleted \o D!Paths(pending)
  <2>1. pending # <<>>
    BY <1>0, <1>1 DEF Removals
  <2> QED BY <1>p, <1>1, <2>1, RestOfPaths
<1>3. D!Last(path) \in D!NameSet /\ D!Held \in D!Inodes
  <2>1. D!Last(path) \in D!NameSet
    BY <1>2, PlaceShape
  <2> QED BY <1>p, <1>1, <2>1, Kid DEF D!Held
<1>4. NodeInv' /\ Evolves
  BY <1>0, <1>1, <1>3, UnlinkKept
<1>5. r \in [path : D!Places, version : [inode : D!Inodes, stamp : Nat], parent : D!Inodes]
        /\ r.path = path /\ r.parent = anchor
  <2>1. D!Version(D!Held) \in [inode : D!Inodes, stamp : Nat]
    BY <1>1, <1>3 DEF D!Version, NodeInv, NodeTyped
  <2> QED BY <1>r, <1>1, <1>2, <2>1
<1>6. deleted' \in Seq(D!Places) /\ D!ToSet(Append(deleted, path)) = D!ToSet(deleted) \union {path}
  <2> DEFINE InnerKids == Append(deleted, path)
  <2>1. /\ InnerKids \in Seq(D!Places) /\ Len(InnerKids) = Len(deleted) + 1 /\ Len(deleted) \in Nat
        /\ InnerKids[Len(InnerKids)] = path /\ \A k \in 1 .. Len(deleted) : InnerKids[k] = deleted[k]
        /\ DOMAIN InnerKids = 1 .. Len(InnerKids) /\ DOMAIN deleted = 1 .. Len(deleted)
    BY <1>1, <1>2
  <2> HIDE DEF InnerKids
  <2>2. \A k \in 1 .. Len(InnerKids) : k = Len(InnerKids) \/ k \in 1 .. Len(deleted)
    BY <2>1
  <2>3. Len(InnerKids) \in 1 .. Len(InnerKids) /\ \A k \in 1 .. Len(deleted) : k \in 1 .. Len(InnerKids)
    BY <2>1
  <2>4. D!ToSet(InnerKids) = D!ToSet(deleted) \union {path}
    BY <2>1, <2>2, <2>3 DEF D!ToSet
  <2> QED BY <1>0, <2>1, <2>4 DEF InnerKids
<1>7. Removals'
  <2>1. deleted' \o D!Paths(pending') = D!Reverse(D!Paths(prepared'))
    BY <1>0, <1>1, <1>2 DEF Removals
  <2>2. D!ToSet(deleted') = {h.path : h \in removed'}
    BY <1>0, <1>1, <1>5, <1>6 DEF Removals
  <2>3. \A k \in 1 .. Len(pending') : \E m \in 1 .. Len(prepared') : pending'[k] = prepared'[m]
    BY <1>0, <1>1, <1>2 DEF Removals
  <2> QED BY <1>0, <2>1, <2>2, <2>3 DEF Removals, Awaits
<1>8. D!SnapshotWasTrue'
  BY <1>0, <1>1 DEF D!SnapshotWasTrue, D!Removing
<1>9. D!FromInspectedDirectory'
  BY <1>p, <1>0, <1>1, <1>5 DEF D!FromInspectedDirectory, Removals, Awaits
<1> QED BY <1>0, <1>1, <1>2, <1>4, <1>5, <1>6, <1>7, <1>8, <1>9, RemovalGoesOn

\* What the call says when it ends is what happened.
LEMMA EndStep ==
  ASSUME DeletionInv, D!RemoveFails \/ D!Finish
  PROVE  DeletionInv'
<1>1. /\ phase \in {"aim", "look", "unlink"}
      /\ \/ deleted = <<>> /\ D!Return("refused", <<>>, <<>>)
         \/ deleted # <<>> /\ D!Return("interrupted", deleted, D!Paths(pending))
         \/ pending = <<>> /\ D!Return("deleted", deleted, <<>>)
  BY DEF D!RemoveFails, D!Finish
<1>2. /\ deleted \o D!Paths(pending) = D!Reverse(D!Paths(prepared))
           /\ D!ToSet(deleted) = {r.path : r \in removed}
      /\ deleted \in Seq(D!Places)
  BY <1>1 DEF DeletionInv, Removals, CallKept, D!TypeInvariant
<1>3. CASE deleted = <<>> /\ D!Return("refused", <<>>, <<>>)
  <2>1. D!ToSet(<<>>) = {}
    BY DEF D!ToSet
  <2>2. removed = {}
    BY <1>2, <1>3, <2>1
  <2> QED BY <1>1, <1>2, <1>3, <2>2, ReturnKept
<1>4. CASE deleted # <<>> /\ D!Return("interrupted", deleted, D!Paths(pending))
  BY <1>1, <1>2, <1>4, ReturnKept
<1>5. CASE pending = <<>> /\ D!Return("deleted", deleted, <<>>)
  <2>1. D!Paths(<<>>) = <<>>
    BY DEF D!Paths
  <2>2. deleted \o <<>> = D!Reverse(D!Paths(prepared))
    BY <1>2, <1>5, <2>1
  <2> QED BY <1>1, <1>2, <1>5, <2>2, ReturnKept
<1> QED BY <1>1, <1>3, <1>4, <1>5

\* Every step of the deletion, and of what happens meanwhile, keeps it.
LEMMA DeletionStep ==
  ASSUME DeletionInv, DeletionNext \/ UNCHANGED treeVars
  PROVE  DeletionInv'
<1>1. CASE UNCHANGED treeVars
  <2>0. /\ UNCHANGED <<phase, target, recursive, todo, entries, shown, answer, prepared, truth>>
        /\ UNCHANGED <<pending, deleted, anchor, report, removed>> /\ UNCHANGED <<node, fresh, edits>>
    BY <1>1 DEF treeVars
  <2>1. NodeInv' /\ Evolves
    BY <2>0, SameFiles
  <2>2. D!KeepCall
    BY <2>0 DEF D!KeepCall, D!callVars, D!walkVars, D!askVars, D!runVars
  <2> QED BY <2>1, <2>2, OthersKeep
<1>2. CASE \E path \in Targets, all \in BOOLEAN : D!Call(path, all)
  BY <1>2, CallStep
<1>3. CASE D!Visit \/ D!Hash \/ D!List \/ D!PrepareFails
  BY <1>3, VisitStep, HashStep, ListStep, RefusedStep
<1>4. CASE D!Check \/ D!Recheck \/ \E says \in {"yes", "no"} : D!Answer(says)
  BY <1>4, CheckStep, RecheckStep, AnswerStep
<1>5. CASE D!Confirm \/ D!Changed \/ D!Aim \/ D!Look \/ D!Unlink \/ D!RemoveFails \/ D!Finish
  BY <1>5, ConfirmStep, RefusedStep, AimStep, LookStep, UnlinkStep, EndStep
<1>6. CASE (\E path \in D!Places : D!Write(path)) \/ (\E path \in D!Places : D!Take(path))
  BY <1>6, WriteStep, TakeStep
<1>7. CASE \E path \in D!Places, kind \in {"file", "symlink", "directory"} : D!Put(path, kind)
  BY <1>7, PutStep
<1>8. CASE D!Done
  <2>1. UNCHANGED treeVars
    BY <1>8 DEF D!Done, D!vars, D!fileVars, D!callVars, D!walkVars, D!askVars, D!runVars, treeVars
  <2> QED BY <1>1, <2>1
<1> QED BY <1>1, <1>2, <1>3, <1>4, <1>5, <1>6, <1>7, <1>8 DEF DeletionNext

\* What is kept is what is expected.
LEMMA DeletionKeeps ==
  ASSUME DeletionInv
  PROVE  D!TypeInvariant /\ D!SnapshotWasTrue /\ D!ConfirmedExactly /\ D!FromInspectedDirectory
           /\ D!DeniedKept /\ D!ReportTrue
<1>1. D!DeniedKept
  BY DEF DeletionInv, CallKept, D!DeniedKept, D!Matches
<1>2. D!ConfirmedExactly
  BY DEF DeletionInv, D!ConfirmedExactly
<1> QED BY <1>1, <1>2 DEF DeletionInv, CallKept


(* The tree at first. *)

\* What is bound where.
FirstBinding(i, n, b) ==
  CASE i = 1 /\ n = "d" -> 3 [] i = 2 /\ n = "x" -> 7 [] i = 3 /\ n = "a" -> 4
    [] i = 3 /\ n = "b" -> b [] i = 4 /\ n = "x" -> 5 [] OTHER -> 0
FirstKind(i, b, kind) ==
  CASE i \in {1, 2, 3, 4} -> "directory" [] i \in {5, 7} -> "file" [] i = 6 /\ b = 6 -> kind [] OTHER -> "nothing"
FirstTree(b, kind) ==
  /\ node \in [D!Inodes -> [kind : D!Kinds, stamp : Nat, kids : [D!NameSet -> D!Inodes]]]
  /\ \A i \in D!Inodes : node[i].kind = FirstKind(i, b, kind)
  /\ \A i \in D!Inodes, n \in D!NameSet : node[i].kids[n] = FirstBinding(i, n, b)

\* At first the entry b is not there, a file or a link.
LEMMA FirstNodes ==
  ASSUME D!Init
  PROVE  \E b \in {0, 6}, kind \in {"file", "symlink"} : FirstTree(b, kind)
<1>1. PICK b \in {0, 6}, kind \in {"file", "symlink"} :
       node = [i \in D!Inodes |->
                 CASE i = D!Root -> D!Inode("directory", [D!NoKids EXCEPT !["d"] = 3])
                   [] i = D!Elsewhere -> D!Inode("directory", [D!NoKids EXCEPT !["x"] = 7])
                   [] i = 3 -> D!Inode("directory", [D!NoKids EXCEPT !["a"] = 4, !["b"] = b])
                   [] i = 4 -> D!Inode("directory", [D!NoKids EXCEPT !["x"] = 5])
                   [] i \in {5, 7} -> D!Inode("file", D!NoKids)
                   [] i = 6 /\ b = 6 -> D!Inode(kind, D!NoKids)
                   [] OTHER -> D!Nothing]
  BY DEF D!Init
<1> DEFINE RootKids == [D!NoKids EXCEPT !["d"] = 3]
           ElsewhereKids == [D!NoKids EXCEPT !["x"] = 7]
           OuterKids == [D!NoKids EXCEPT !["a"] = 4, !["b"] = b]
           InnerKids == [D!NoKids EXCEPT !["x"] = 5]
           F(i) == CASE i = 1 -> D!Inode("directory", RootKids) [] i = 2 -> D!Inode("directory", ElsewhereKids)
                     [] i = 3 -> D!Inode("directory", OuterKids) [] i = 4 -> D!Inode("directory", InnerKids)
                     [] i \in {5, 7} -> D!Inode("file", D!NoKids) [] i = 6 /\ b = 6 -> D!Inode(kind, D!NoKids)
                     [] OTHER -> D!Inode("nothing", D!NoKids)
<1>2. node = [i \in D!Inodes |-> F(i)]
  BY <1>1 DEF D!Root, D!Elsewhere, D!Nothing
<1>3. {0, 3, 4, 5, 6, 7} \subseteq D!Inodes /\ D!Inodes \subseteq Nat
  BY PartsAssumption DEF D!WorkspaceDeleteAssumption, D!Inodes
<1>4. /\ {RootKids, ElsewhereKids, OuterKids, InnerKids, D!NoKids} \subseteq [D!NameSet -> D!Inodes]
      /\ \A n \in D!NameSet :
           /\ RootKids[n] = FirstBinding(1, n, b) /\ ElsewhereKids[n] = FirstBinding(2, n, b)
                /\ OuterKids[n] = FirstBinding(3, n, b)
           /\ InnerKids[n] = FirstBinding(4, n, b) /\ D!NoKids[n] = 0
  <2>1. \A n \in D!NameSet : D!NoKids[n] = 0
    BY DEF D!NoKids
  <2>2. D!NoKids \in [D!NameSet -> D!Inodes]
    BY <1>3 DEF D!NoKids
  <2>3. RootKids \in [D!NameSet -> D!Inodes] /\ \A n \in D!NameSet : RootKids[n] = FirstBinding(1, n, b)
    <3>1. RootKids \in [D!NameSet -> D!Inodes]
            /\ \A n \in D!NameSet : RootKids[n] = IF n = "d" THEN 3 ELSE D!NoKids[n]
      BY <1>3, <2>2 DEF D!NameSet
    <3> HIDE DEF RootKids
    <3> QED BY <2>1, <3>1 DEF FirstBinding
  <2>4. ElsewhereKids \in [D!NameSet -> D!Inodes]
          /\ \A n \in D!NameSet : ElsewhereKids[n] = FirstBinding(2, n, b)
    <3>1. ElsewhereKids \in [D!NameSet -> D!Inodes]
            /\ \A n \in D!NameSet : ElsewhereKids[n] = IF n = "x" THEN 7 ELSE D!NoKids[n]
      BY <1>3, <2>2 DEF D!NameSet
    <3> HIDE DEF ElsewhereKids
    <3> QED BY <2>1, <3>1 DEF FirstBinding
  <2>5. OuterKids \in [D!NameSet -> D!Inodes] /\ \A n \in D!NameSet : OuterKids[n] = FirstBinding(3, n, b)
    <3>1. OuterKids \in [D!NameSet -> D!Inodes]
            /\ \A n \in D!NameSet : OuterKids[n] = IF n = "a" THEN 4 ELSE IF n = "b" THEN b ELSE D!NoKids[n]
      BY <1>3, <2>2 DEF D!NameSet
    <3> HIDE DEF OuterKids
    <3> QED BY <2>1, <3>1 DEF FirstBinding
  <2>6. InnerKids \in [D!NameSet -> D!Inodes] /\ \A n \in D!NameSet : InnerKids[n] = FirstBinding(4, n, b)
    <3>1. InnerKids \in [D!NameSet -> D!Inodes]
            /\ \A n \in D!NameSet : InnerKids[n] = IF n = "x" THEN 5 ELSE D!NoKids[n]
      BY <1>3, <2>2 DEF D!NameSet
    <3> HIDE DEF InnerKids
    <3> QED BY <2>1, <3>1 DEF FirstBinding
  <2> HIDE DEF RootKids, ElsewhereKids, OuterKids, InnerKids
  <2> QED BY <2>1, <2>2, <2>3, <2>4, <2>5, <2>6
<1> HIDE DEF RootKids, ElsewhereKids, OuterKids, InnerKids
<1>5. ASSUME NEW i \in D!Inodes
      PROVE  /\ F(i) \in [kind : D!Kinds, stamp : Nat, kids : [D!NameSet -> D!Inodes]]
             /\ F(i).kind = FirstKind(i, b, kind)
             /\ \A n \in D!NameSet : F(i).kids[n] = FirstBinding(i, n, b)
  <2>1. \A k \in D!Kinds, f \in [D!NameSet -> D!Inodes] :
          /\ D!Inode(k, f) \in [kind : D!Kinds, stamp : Nat, kids : [D!NameSet -> D!Inodes]]
          /\ D!Inode(k, f).kind = k /\ D!Inode(k, f).kids = f
    BY DEF D!Inode
  <2>2. kind \in D!Kinds
    BY DEF D!Kinds
  <2>3. CASE i = 1
    BY <1>4, <2>1, <2>3 DEF FirstKind, D!Kinds
  <2>4. CASE i = 2
    BY <1>4, <2>1, <2>4 DEF FirstKind, D!Kinds
  <2>5. CASE i = 3
    BY <1>4, <2>1, <2>5 DEF FirstKind, D!Kinds
  <2>6. CASE i = 4
    BY <1>4, <2>1, <2>6 DEF FirstKind, D!Kinds
  <2>7. CASE i \notin {1, 2, 3, 4}
    <3>1. \A n \in D!NameSet : FirstBinding(i, n, b) = 0
      BY <2>7 DEF FirstBinding
    <3>2. F(i) = D!Inode(FirstKind(i, b, kind), D!NoKids) /\ FirstKind(i, b, kind) \in D!Kinds
      BY <2>2, <2>7 DEF FirstKind, D!Kinds
    <3> HIDE DEF F
    <3> QED BY <1>4, <2>1, <3>1, <3>2
  <2> QED BY <2>3, <2>4, <2>5, <2>6, <2>7
<1> HIDE DEF F
<1>6. FirstTree(b, kind)
  BY <1>2, <1>5 DEF FirstTree
<1> QED BY <1>6

\* Paths of up to three names.
LEMMA FewNames ==
  ASSUME NEW n \in D!NameSet
  PROVE  /\ Append(<<>>, n) = <<n>> /\ Append(<<"d">>, n) = <<"d", n>>
         /\ Append(<<"d", "a">>, n) = <<"d", "a", n>>
<1>1. Append(<<>>, n) = <<n>>
  OBVIOUS
<1>2. Append(<<"d">>, n) = <<"d", n>>
  <2> DEFINE p == Append(<<"d">>, n)
             q == <<"d", n>>
  <2>1. p \in Seq(D!NameSet) /\ Len(p) = 2 /\ p[1] = "d" /\ p[2] = n
    BY DEF D!NameSet
  <2>2. q \in Seq(D!NameSet) /\ Len(q) = 2 /\ q[1] = "d" /\ q[2] = n
    BY DEF D!NameSet
  <2> HIDE DEF p, q
  <2>3. \A j \in 1 .. Len(p) : p[j] = q[j]
    BY <2>1, <2>2
  <2>4. p = q
    BY <2>1, <2>2, <2>3, SeqEqual
  <2> QED BY <2>4 DEF p, q
<1>3. Append(<<"d", "a">>, n) = <<"d", "a", n>>
  <2> DEFINE p == Append(<<"d", "a">>, n)
             q == <<"d", "a", n>>
  <2>1. p \in Seq(D!NameSet) /\ Len(p) = 3 /\ p[1] = "d" /\ p[2] = "a" /\ p[3] = n
    BY DEF D!NameSet
  <2>2. q \in Seq(D!NameSet) /\ Len(q) = 3 /\ q[1] = "d" /\ q[2] = "a" /\ q[3] = n
    BY DEF D!NameSet
  <2> HIDE DEF p, q
  <2>3. \A j \in 1 .. Len(p) : p[j] = q[j]
    BY <2>1, <2>2
  <2>4. p = q
    BY <2>1, <2>2, <2>3, SeqEqual
  <2> QED BY <2>4 DEF p, q
<1> QED BY <1>1, <1>2, <1>3, Zenon

\* At first the tree is a tree.
LEMMA FirstNodeInv ==
  ASSUME D!Init
  PROVE  NodeInv
<1>1. PICK b \in {0, 6}, kind \in {"file", "symlink"} : FirstTree(b, kind)
  BY FirstNodes
<1>2. {0, 1, 2, 3, 4, 5, 6, 7} \subseteq D!Inodes /\ D!Inodes \subseteq Nat /\ fresh = 8 /\ edits = 0
  BY PartsAssumption DEF D!WorkspaceDeleteAssumption, D!Inodes, D!Init
<1>3. NodeTyped
  BY <1>1, <1>2, DeletionConstants DEF NodeTyped, FirstTree
<1>4. Bindings
  <2> SUFFICES ASSUME NEW i \in D!Inodes, NEW n \in D!NameSet, node[i].kids[n] # 0
               PROVE  /\ node[i].kind = "directory"
                      /\ i < node[i].kids[n] /\ 3 <= node[i].kids[n] /\ node[i].kids[n] < fresh
                      /\ \A h \in D!Inodes, m \in D!NameSet : node[h].kids[m] = node[i].kids[n]
                           => h = i /\ m = n
    BY DEF Bindings
  <2>1. FirstBinding(i, n, b) # 0
    BY <1>1 DEF FirstTree
  <2>2. /\ i < FirstBinding(i, n, b) /\ 3 <= FirstBinding(i, n, b) /\ FirstBinding(i, n, b) < 8
        /\ FirstKind(i, b, kind) = "directory"
    BY <2>1 DEF FirstBinding, FirstKind
  <2>3. ASSUME NEW h \in D!Inodes, NEW m \in D!NameSet, FirstBinding(h, m, b) = FirstBinding(i, n, b)
        PROVE  h = i /\ m = n
    BY <2>1, <2>3 DEF FirstBinding
  <2> QED BY <1>1, <1>2, <2>2, <2>3 DEF FirstTree
<1>5. Anchored
  <2>1. /\ FirstKind(0, b, kind) = "nothing" /\ FirstKind(1, b, kind) = "directory"
        /\ FirstKind(2, b, kind) = "directory" /\ FirstKind(7, b, kind) = "file"
    BY DEF FirstKind
  <2>2. \A n \in D!NameSet : FirstBinding(2, n, b) = IF n = "x" THEN 7 ELSE 0
    BY DEF FirstBinding
  <2>3. /\ node[0].kind = FirstKind(0, b, kind) /\ node[1].kind = FirstKind(1, b, kind)
        /\ node[2].kind = FirstKind(2, b, kind) /\ node[7].kind = FirstKind(7, b, kind)
        /\ \A n \in D!NameSet : node[2].kids[n] = FirstBinding(2, n, b)
    BY <1>1, <1>2 DEF FirstTree
  <2> QED BY <2>1, <2>2, <2>3 DEF Anchored, D!Root, D!Elsewhere
<1>6. \A i \in D!Inodes, n \in D!NameSet : D!Child(i, n) = FirstBinding(i, n, b)
  <2>1. \A i \in D!Inodes, n \in D!NameSet : FirstBinding(i, n, b) # 0
          => FirstKind(i, b, kind) = "directory"
    BY DEF FirstBinding, FirstKind
  <2> QED BY <1>1, <2>1 DEF D!Child, FirstTree
<1>p. PICK pe, pd, pa, pb, px : /\ pe = <<>> /\ pd = Append(pe, "d") /\ pa = Append(pd, "a")
                             /\ pb = Append(pd, "b") /\ px = Append(pa, "x")
  BY Zenon
<1>q. /\ pe \in Levels /\ \A p \in D!Places : p # pe
      /\ Len(pe) = 0 /\ Len(pd) = 1 /\ Len(pa) = 2 /\ Len(pb) = 2
      /\ pd \in D!Places /\ \A n \in {"a", "b", "x"} : Append(pd, n) \in D!Places
      /\ \A n \in {"n", "x"} : Append(pa, n) \in D!Places
  <2>1. pd = <<"d">> /\ pa = <<"d", "a">>
    BY <1>p, FewNames DEF D!NameSet
  <2>2. \A p \in D!Places : p # <<>>
    BY PlaceShape
  <2>3. Append(pe, "d") \in Seq(D!NameSet) /\ Len(pe) = 0 /\ Len(pd) = 1
    BY <1>p DEF D!NameSet
  <2>4. Len(pa) = 2 /\ Len(pb) = 2
    BY <1>p, <2>3 DEF D!NameSet
  <2>5. /\ \A n \in {"a", "b", "x"} : Append(pd, n) = <<"d", n>>
        /\ \A n \in {"n", "x"} : Append(pa, n) = <<"d", "a", n>>
    BY <2>1, FewNames, Zenon DEF D!NameSet
  <2>6. pd \in D!Places
    BY <2>1, PlacesThere, Zenon
  <2>7. \A n \in {"a", "b", "x"} : Append(pd, n) \in D!Places
    BY <2>5, PlacesThere, Zenon
  <2>8. \A n \in {"n", "x"} : Append(pa, n) \in D!Places
    BY <2>5, PlacesThere, Zenon
  <2> QED BY <1>p, <2>2, <2>3, <2>4, <2>6, <2>7, <2>8 DEF Levels
<1>o. D!Opened(pe) = 1
  BY <1>p, OpenedSteps DEF PathsOpen, D!Root
<1>a. pd = Append(pe, "d") /\ pa = Append(pd, "a") /\ pb = Append(pd, "b") /\ px = Append(pa, "x")
  BY <1>p
<1> DEFINE At(p, i) ==
             \/ i = 0 \/ (i = 1 /\ p = pe) \/ (i = 3 /\ p = pd) \/ (i = 4 /\ p = pa)
             \/ (i = 6 /\ p = pb) \/ (i = 5 /\ p = px)
           Deep == {p \in Levels : D!Opened(p) \in D!Inodes /\ At(p, D!Opened(p))}
<1>7. <<>> \in Deep
  <2>1. pe \in Deep
    BY <1>2, <1>q, <1>o
  <2> HIDE DEF Deep
  <2> QED BY <1>p, <2>1
<1>8. ASSUME NEW p \in D!Places, D!Front(p) \in Deep
      PROVE  p \in Deep
  <2>i. PICK i : i = D!Opened(D!Front(p))
    OBVIOUS
  <2>n. PICK n : n = D!Last(p)
    OBVIOUS
  <2>f. PICK f : f = D!Front(p)
    OBVIOUS
  <2>1. i \in D!Inodes /\ At(f, i) /\ n \in D!NameSet /\ p = Append(f, n) /\ p \in Levels
    BY <1>8, <2>i, <2>n, <2>f, PlaceShape DEF Levels
  <2>2. D!Opened(p) = FirstBinding(i, n, b)
    BY <1>6, <2>i, <2>n, <2>1, OpenedSteps DEF PathsOpen
  <2>3. D!Opened(p) \in D!Inodes
    BY <1>2, <2>2 DEF FirstBinding
  <2>4. At(p, D!Opened(p))
    <3>1. CASE i = 1
      BY <1>a, <2>1, <2>2, <3>1 DEF FirstBinding
    <3>2. CASE i = 3
      BY <1>a, <2>1, <2>2, <3>2 DEF FirstBinding
    <3>3. CASE i = 4
      BY <1>a, <2>1, <2>2, <3>3 DEF FirstBinding
    <3>4. CASE i \in {0, 5, 6}
      BY <2>2, <3>4 DEF FirstBinding
    <3> QED BY <2>1, <3>1, <3>2, <3>3, <3>4
  <2> QED BY <2>1, <2>3, <2>4
<1>9. \A p \in Levels : p \in Deep
  <2> HIDE DEF Deep
  <2> QED BY <1>7, <1>8, DownTheTree
<1>10. LevelsKept
  <2> SUFFICES ASSUME NEW p \in Levels
               PROVE  /\ \A n \in D!NameSet : D!Child(D!Opened(p), n) # 0 => Append(p, n) \in D!Places
                      /\ Len(p) = 3 => node[D!Opened(p)].kind # "directory"
    BY DEF LevelsKept
  <2>i. PICK i : i = D!Opened(p)
    OBVIOUS
  <2>1. i \in D!Inodes /\ At(p, i)
    BY <1>9, <2>i
  <2>2. ASSUME NEW n \in D!NameSet, FirstBinding(i, n, b) # 0
        PROVE  Append(p, n) \in D!Places
    <3>1. CASE i = 1
      <4>1. n = "d" /\ p = pe
        BY <2>1, <2>2, <3>1 DEF FirstBinding
      <4> QED BY <1>a, <1>q, <4>1
    <3>2. CASE i = 3
      <4>1. n \in {"a", "b", "x"} /\ p = pd
        BY <2>1, <2>2, <3>2 DEF FirstBinding
      <4> QED BY <1>q, <4>1
    <3>3. CASE i = 4
      <4>1. n \in {"n", "x"} /\ p = pa
        BY <2>1, <2>2, <3>3 DEF FirstBinding
      <4> QED BY <1>q, <4>1
    <3>4. CASE i \in {0, 5, 6}
      BY <2>2, <3>4 DEF FirstBinding
    <3> QED BY <2>1, <3>1, <3>2, <3>3, <3>4
  <2>3. ASSUME Len(p) = 3
        PROVE  FirstKind(i, b, kind) # "directory"
    <3>1. i = 0 \/ i = 5 \/ i = 6
      <4>1. Len(pe) # 3 /\ Len(pd) # 3 /\ Len(pa) # 3
        BY <1>q
      <4>2. p # pe /\ p # pd /\ p # pa
        BY <2>3, <4>1, Zenon
      <4> QED BY <2>1, <4>2
    <3> QED BY <3>1 DEF FirstKind
  <2> QED BY <1>1, <1>6, <2>i, <2>1, <2>2, <2>3 DEF FirstTree
<1> QED BY <1>3, <1>4, <1>5, <1>10 DEF NodeInv

\* At first nothing was asked.
LEMMA DeletionBegins ==
  ASSUME D!Init
  PROVE  DeletionInv
<1>0. /\ removed = {} /\ phase = "idle" /\ target = <<>> /\ recursive = FALSE
      /\ todo = <<>> /\ entries = <<>> /\ shown = <<>> /\ answer = "none" /\ prepared = <<>> /\ truth = {}
      /\ pending = <<>> /\ deleted = <<>> /\ anchor = 0 /\ report = D!NoReport
  BY DEF D!Init
<1>1. NodeInv
  BY FirstNodeInv
<1>2. RestTyped
  <2>1. <<>> \in D!Snapshots /\ <<>> \in Seq(D!Places)
    BY DEF D!Snapshots
  <2>2. report.ended = "no"
    BY <1>0 DEF D!NoReport
  <2> QED BY <1>0, <2>1, <2>2, DeletionConstants DEF RestTyped
<1>3. D!TypeInvariant
  BY <1>1, <1>2, TypesOfAll DEF AllTyped
<1> QED BY <1>0, <1>1, <1>3 DEF DeletionInv, CallKept, D!Preparing, D!Removing, D!SnapshotWasTrue,
             D!FromInspectedDirectory, D!ReportTrue

\* While the deletion is explored, the invariant is kept; it says nothing of the variables
\* at rest otherwise.
LEMMA DeletionNextKeeps ==
  ASSUME part = "deletion" => DeletionInv, [PartsNext]_PartsVars
  PROVE  part' = "deletion" => DeletionInv'
<1> SUFFICES ASSUME part' = "deletion"
             PROVE  DeletionInv'
  OBVIOUS
<1>1. CASE DeletionNext
  <2>1. part = "deletion"
    BY <1>1 DEF DeletionNext, Only
  <2> QED BY <1>1, <2>1, DeletionStep
<1>2. CASE RepositoryNext \/ ProcessNext \/ SearchNext \/ HistoryNext \/ ShellNext
  BY <1>2 DEF RepositoryNext, ProcessNext, SearchNext, HistoryNext, ShellNext, Repository,
              Process, Searching, History, Shelling, Only
<1>3. CASE UNCHANGED PartsVars
  <2>1. part' = part /\ UNCHANGED treeVars
    BY <1>3 DEF PartsVars
  <2> QED BY <2>1, DeletionStep
<1> QED BY <1>1, <1>2, <1>3 DEF PartsNext

\* Whatever other programs do to the files between any two system calls: a removal begins
\* from the tree as it was at one moment and, when there is more than one entry, after the
\* user confirmed just these; an entry below the target is removed from the directory it was
\* seen in, and none that is or holds a denied path; and the report tells which were removed
\* (prepare_delete and delete_prepared of workspace.py, permissions.py).
THEOREM RemovalIsAuthorized == PartsSpec => []RemovalAuthorized
<1> DEFINE Kept == part = "deletion" => DeletionInv
<1>1. PartsInit => Kept
  BY DeletionBegins DEF PartsInit
<1>2. Kept /\ [PartsNext]_PartsVars => Kept'
  BY DeletionNextKeeps
<1>3. Kept => RemovalAuthorized
  BY DeletionKeeps DEF RemovalAuthorized
<1> HIDE DEF Kept
<1> QED BY <1>1, <1>2, <1>3, PTL DEF PartsSpec
=============================================================================
