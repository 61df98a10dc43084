------------------------------ MODULE PartsProofs ------------------------------
(* Proofs about the components that MCParts explores, each by itself: the end of a      *)
(* command, the shell, searching literature, the history of a Session, and preparing a   *)
(* repository.                                                                            *)
EXTENDS MCParts, SequenceTheorems, FiniteSetTheorems, TLAPS

(* The end of a command: what ProcessStop keeps, for every set of PIDs and any number of  *)
(* processes started.                                                                     *)

States == {"free", "running", "zombie"}
Entries == [state : States, own : BOOLEAN, parent : Pids \union {"init", "owner"},
             group : Pids \union {"none"}, born : 0 .. MaxBirths, writes : BOOLEAN,
             killed : BOOLEAN]
Tables == [Pids -> Entries]

\* The types, with those of the records of the process table.
StopTyped == P!TypeInvariant /\ proc \in Tables

\* A PID that is free has nothing left of its process but the time it was started. Only a
\* process of the command has a parent that is watched, and only it is in another's group.
Lineage ==
  \A p \in Pids :
    /\ proc[p].state = "free" => proc[p] = P!Free(proc[p].born)
    /\ proc[p].state # "free" => proc[p].born # 0
    /\ proc[p].parent \in Pids => proc[p].own
    /\ ~proc[p].own => proc[p].group \in {p, "none"}
    /\ proc[p].killed => proc[p].own

\* The PID of the leader stays its own until the owner has reaped it. Whoever has it
\* afterwards got it when no process was left in the group.
LeaderKept ==
  /\ ~reaped => proc[Leader].own /\ proc[Leader].group = Leader
                  /\ proc[Leader].parent = "owner" /\ proc[Leader].state # "free"
  /\ proc[Leader].state # "free" /\ ~proc[Leader].own =>
       \A p \in Pids \ {Leader} : proc[p].group # Leader

\* Start times are given out once, so a process with the one remembered is the one seen.
IdentityKept ==
  \A p \in Pids :
    /\ proc[p].born <= births /\ seen[p] <= births
    /\ P!Identified(p) => proc[p].own

\* Until a walk of the tree is used, each PID found still is a process of the command, or
\* of none: no PID comes round again unless the owner sleeps.
WalkKept ==
  stopAt \in {"identify", "treekill"} =>
    \A p \in walk : proc[p].born # 0 /\ (proc[p].state # "free" => proc[p].own)

\* A shell command that is watched on was not reaped, and only such a one is killed for the
\* time it took.
NotReaped ==
  /\ stopAt \in {"tree", "treekill", "treewait"} => ~piped
  /\ ~piped /\ stopAt \notin {"signal", "reap", "confirm", "drain", "report", "ended"} => ~reaped

\* What was found at the end of a stop stays as it was found.
StopsChecked ==
  /\ stopAt = "drain" => piped
  /\ stopped => stopAt \in {"report", "ended"}
  /\ stopped \/ stopAt = "drain" => P!SeenRunning = {}
  /\ stopped => (piped => P!Writers = {})

\* The marks of a parent and of a group are no PIDs.
LEMMA StopConstants ==
  /\ Leader \in Pids /\ "init" \notin Pids /\ "owner" \notin Pids /\ "none" \notin Pids
  /\ MaxBirths \in Nat /\ MaxBirths >= 1
BY PartsAssumption DEF PartsAssumption, P!ProcessAssumption

-----------------------------------------------------------------------------
(* Tables of processes *)

\* A process that has only its time of start is one.
LEMMA FreeTyped == \A b \in 0 .. MaxBirths : P!Free(b) \in Entries
BY StopConstants DEF P!Free, Entries, States

\* A signal changes nothing of a process but that it will die of it, if it runs.
LEMMA KillTyped ==
  ASSUME NEW table \in Tables, NEW pids
  PROVE  /\ P!Kill(table, pids) \in Tables
         /\ \A p \in Pids :
              LET was == table[p]
                  is == P!Kill(table, pids)[p]
              IN  /\ is.state = was.state /\ is.own = was.own /\ is.parent = was.parent
                  /\ is.group = was.group /\ is.born = was.born /\ is.writes = was.writes
                  /\ is.killed => was.killed \/ (p \in pids /\ was.state = "running")
                  /\ was.state = "free" => is = was
BY DEF P!Kill, Tables, Entries, States

\* To reap the leader leaves the time of its start, if it is a zombie.
LEMMA ReapTyped ==
  ASSUME NEW table \in Tables
  PROVE  /\ P!Reap(table) \in Tables
         /\ \A p \in Pids : P!Reap(table)[p] = table[p] \/
              (p = Leader /\ ~reaped /\ table[p].state = "zombie"
                 /\ P!Reap(table)[p] = P!Free(table[p].born))
         /\ table[Leader].state # "zombie" => P!Reap(table) = table
<1>1. table[Leader].born \in 0 .. MaxBirths
  BY StopConstants DEF Tables, Entries
<1>2. P!Free(table[Leader].born) \in Entries
  BY <1>1, FreeTyped
<1> QED BY <1>2, StopConstants DEF P!Reap, Tables

\* What is below the leader, while it is the command's, are processes of the command.
LEMMA DescendantsOwn ==
  ASSUME StopTyped, Lineage, ~reaped, LeaderKept
  PROVE  P!Descendants \subseteq {p \in Pids : proc[p].own /\ proc[p].born # 0}
<1> DEFINE Mine == {p \in Pids : proc[p].own /\ proc[p].born # 0}
<1>1. \A p \in Pids : proc[p].own => proc[p].state # "free"
  BY DEF Lineage, P!Free, StopTyped, Tables, Entries
<1>2. {p \in Pids : proc[p].parent \in Mine \union {Leader}} \subseteq Mine
  BY <1>1, StopConstants DEF Lineage
<1>3. Mine \in SUBSET Pids
  OBVIOUS
<1> QED BY <1>2, <1>3 DEF P!Descendants

-----------------------------------------------------------------------------
(* The steps *)

\* Steps of the owner that touch no process.
Watches ==
  \/ P!Sample \/ P!Identify \/ P!Check \/ P!SliceEnds \/ P!RememberWriters \/ P!Signalled
  \/ P!ReapExpires \/ P!Confirm \/ P!ConfirmExpires \/ P!Drain \/ P!DrainExpires \/ P!Report
  \/ P!Cancel \/ P!Expire \/ P!Ended

\* Steps after which the owner knows that the leader is dead, if it is.
Reaps == P!Poll \/ P!Finish \/ P!ReapLeader \/ P!WaitLeader

\* Steps that send SIGKILL.
Kills == P!KillGroup \/ (\E p \in Pids : P!Signal(p)) \/ P!KillTree \/ P!KillChildren

\* Steps of a process, and of init.
Ends == \E p \in Pids : P!Detach(p) \/ P!CloseOutput(p) \/ P!Exit(p) \/ P!Collect(p)

\* Steps that start a process.
Starts == (\E p, c \in Pids : P!Fork(p, c)) \/ (\E p \in Pids : P!StartForeign(p))

\* No other step is taken of this part.
LEMMA StepsOfStop == ProcessNext => Watches \/ Reaps \/ Kills \/ Ends \/ Starts
BY DEF ProcessNext, Watches, Reaps, Kills, Ends, Starts

\* No process is started, and what becomes of those there are: they end, or stay what they
\* are. They run no more than before, and only one of the command is signalled.
Fades ==
  /\ births' = births /\ proc' \in Tables
  /\ \A p \in Pids :
       /\ proc'[p].born = proc[p].born
       /\ proc'[p].killed => proc[p].killed \/ proc[p].own
       /\ \/ proc'[p] = proc[p]
          \/ proc'[p] = P!Free(proc[p].born)
          \/ /\ proc'[p].state # "free" /\ proc[p].state # "free"
             /\ proc'[p].state = "running" => proc[p].state = "running"
             /\ proc'[p].own = proc[p].own
             /\ proc'[p].parent \in {proc[p].parent, "init"}
             /\ proc'[p].group = proc[p].group \/ (p # Leader /\ proc'[p].group = p)
             /\ proc'[p].writes => proc[p].writes

\* The leader is the command's until it was reaped.
LeaderStays ==
  ~reaped' =>
    /\ ~reaped /\ proc'[Leader].own /\ proc'[Leader].group = Leader
    /\ proc'[Leader].parent = "owner" /\ proc'[Leader].state # "free"

\* To watch changes no process.
LEMMA WatchFades ==
  ASSUME StopTyped, Lineage, LeaderKept, Watches
  PROVE  proc' = proc /\ births' = births /\ reaped' = reaped /\ Fades /\ LeaderStays
<1>1. proc' = proc /\ births' = births /\ reaped' = reaped
  BY DEF Watches, P!Sample, P!Identify, P!Check, P!SliceEnds, P!RememberWriters, P!Signalled,
         P!ReapExpires, P!Confirm, P!ConfirmExpires, P!Drain, P!DrainExpires, P!Report,
         P!Cancel, P!Expire, P!Ended, P!Give, P!Return, P!worldVars, P!ownerVars, P!vars
<1> QED BY <1>1 DEF Fades, LeaderStays, LeaderKept, StopTyped

\* To reap frees the leader, and the owner knows it.
LEMMA ReapFades ==
  ASSUME StopTyped, Lineage, LeaderKept, Reaps
  PROVE  proc' = P!Reap(proc) /\ births' = births /\ Fades /\ LeaderStays
<1>1. /\ proc' = P!Reap(proc) /\ births' = births
      /\ reaped' = P!Dead \/ reaped' = TRUE
      /\ ~reaped' => ~reaped /\ proc[Leader].state # "zombie"
  BY DEF Reaps, P!Poll, P!Finish, P!ReapLeader, P!WaitLeader, P!Return, P!Dead, P!Zombie,
         P!worldVars
<1>2. proc' \in Tables
  BY <1>1, ReapTyped DEF StopTyped
<1>3. \A p \in Pids : proc'[p] = proc[p] \/ proc'[p] = P!Free(proc[p].born)
  BY <1>1, ReapTyped DEF StopTyped
<1>4. Fades
  BY <1>1, <1>2, <1>3 DEF Fades, P!Free
<1>5. LeaderStays
  <2> SUFFICES ASSUME ~reaped' PROVE LeaderStays
    BY DEF LeaderStays
  <2>1. proc' = proc
    BY <1>1, ReapTyped DEF StopTyped
  <2> QED BY <1>1, <2>1 DEF LeaderStays, LeaderKept
<1> QED BY <1>1, <1>4, <1>5

\* A process of the group of the leader is one of the command, while the leader is.
LEMMA GroupOwn ==
  ASSUME StopTyped, Lineage, LeaderKept, proc[Leader].own, NEW p \in Pids,
         proc[p].group = Leader
  PROVE  proc[p].own
BY StopConstants DEF Lineage

\* Only processes of the command are signalled: for the group, while the leader is the
\* command's or one of those that were seen is in it; otherwise, as they were seen.
LEMMA KillFades ==
  ASSUME StopTyped, Lineage, LeaderKept, IdentityKept, WalkKept, NotReaped, Kills
  PROVE  births' = births /\ Fades /\ LeaderStays
<1>0. proc \in Tables
  BY DEF StopTyped
<1>1. CASE P!KillGroup
  <2>1. births' = births /\ reaped' = P!Dead
    BY <1>1 DEF P!KillGroup, P!worldVars
  <2>2. P!Reap(proc) \in Tables
    BY <1>0, ReapTyped
  <2>3. \A p \in Pids : P!Reap(proc)[p] = proc[p] \/ P!Reap(proc)[p] = P!Free(proc[p].born)
    BY <1>0, ReapTyped
  <2>4. CASE P!Dead /\ ~ \E p \in P!InGroup : P!Identified(p)
    <3>1. proc' = P!Reap(proc)
      BY <1>1, <2>4 DEF P!KillGroup
    <3>2. Fades
      BY <2>1, <2>2, <2>3, <3>1 DEF Fades, P!Free
    <3> QED BY <2>1, <3>2, <2>4 DEF LeaderStays
  <2>5. CASE ~(P!Dead /\ ~ \E p \in P!InGroup : P!Identified(p))
    <3>1. proc' = P!Kill(P!Reap(proc), P!InGroup)
      BY <1>1, <2>5 DEF P!KillGroup
    <3>2. \A p \in P!InGroup : proc[p].state = "running" => proc[p].own
      <4>1. CASE ~P!Dead
        BY <4>1, GroupOwn DEF P!Dead, LeaderKept, P!InGroup
      <4>2. CASE proc[Leader].state = "free" \/ proc[Leader].own
        BY <4>2, StopConstants DEF Lineage, P!InGroup
      <4>3. CASE \E p \in P!InGroup : P!Identified(p)
        BY <4>3, <4>2 DEF IdentityKept, LeaderKept, P!InGroup
      <4> QED BY <2>5, <4>1, <4>3
    <3>3. /\ proc' \in Tables
          /\ \A p \in Pids :
               /\ proc'[p].state = P!Reap(proc)[p].state /\ proc'[p].own = P!Reap(proc)[p].own
               /\ proc'[p].parent = P!Reap(proc)[p].parent /\ proc'[p].group = P!Reap(proc)[p].group
               /\ proc'[p].born = P!Reap(proc)[p].born /\ proc'[p].writes = P!Reap(proc)[p].writes
               /\ proc'[p].killed => P!Reap(proc)[p].killed
                    \/ (p \in P!InGroup /\ P!Reap(proc)[p].state = "running")
               /\ P!Reap(proc)[p].state = "free" => proc'[p] = P!Reap(proc)[p]
      BY <2>2, <3>1, KillTyped
    <3>4. \A p \in Pids : P!Reap(proc)[p] = proc[p] \/ (proc'[p] = P!Free(proc[p].born))
      BY <2>3, <3>3 DEF P!Free
    <3>5. Fades
      BY <2>1, <3>2, <3>3, <3>4 DEF Fades, P!Free, Lineage
    <3>6. LeaderStays
      <4> SUFFICES ASSUME ~reaped' PROVE LeaderStays
        BY DEF LeaderStays
      <4>1. ~reaped /\ proc[Leader].state # "zombie"
        BY <2>1 DEF P!Dead, P!Zombie
      <4>2. P!Reap(proc) = proc
        BY <4>1, <1>0, ReapTyped
      <4> QED BY <4>1, <4>2, <3>3, StopConstants DEF LeaderStays, LeaderKept
    <3> QED BY <2>1, <3>5, <3>6
  <2> QED BY <2>4, <2>5
<1>2. CASE ~P!KillGroup
  <2>1. births' = births /\ reaped' = reaped
    BY <1>2 DEF Kills, P!Signal, P!KillTree, P!KillChildren, P!worldVars
  <2>2. PICK pids : /\ proc' = P!Kill(proc, pids) \/ proc' = proc
                    /\ \A p \in Pids : p \in pids /\ proc[p].state = "running" => proc[p].own
    <3>1. CASE P!KillTree
      <4>1. proc[Leader].own
        BY <3>1 DEF P!KillTree, NotReaped, LeaderKept, StopTyped, P!TypeInvariant
      <4> QED BY <3>1, <4>1, GroupOwn DEF P!KillTree, P!InGroup
    <3>2. CASE P!KillChildren
      BY <3>2 DEF P!KillChildren, WalkKept
    <3>3. CASE \E p \in Pids : P!Signal(p)
      <4>1. PICK p \in Pids : P!Signal(p)
        BY <3>3
      <4>2. CASE P!Identified(p)
        <5> WITNESS {p}
        <5> QED BY <4>1, <4>2 DEF P!Signal, IdentityKept
      <4>3. CASE ~P!Identified(p)
        <5> WITNESS {}
        <5> QED BY <4>1, <4>3 DEF P!Signal
      <4> QED BY <4>2, <4>3
    <3> QED BY <1>2, <3>1, <3>2, <3>3 DEF Kills
  <2>3. CASE proc' = proc
    BY <2>1, <2>3, <1>0 DEF Fades, LeaderStays, LeaderKept
  <2>4. CASE proc' = P!Kill(proc, pids)
    <3>1. /\ proc' \in Tables
          /\ \A p \in Pids :
               /\ proc'[p].state = proc[p].state /\ proc'[p].own = proc[p].own
               /\ proc'[p].parent = proc[p].parent /\ proc'[p].group = proc[p].group
               /\ proc'[p].born = proc[p].born /\ proc'[p].writes = proc[p].writes
               /\ proc'[p].killed => proc[p].killed \/ (p \in pids /\ proc[p].state = "running")
               /\ proc[p].state = "free" => proc'[p] = proc[p]
      BY <2>4, <1>0, KillTyped
    <3> QED BY <2>1, <2>2, <3>1, StopConstants DEF Fades, LeaderStays, LeaderKept
  <2> QED BY <2>2, <2>3, <2>4
<1> QED BY <1>1, <1>2

\* The ends of a process: its group, its output, its death, and what init collects.
LEMMA EndFades ==
  ASSUME StopTyped, Lineage, LeaderKept, Ends
  PROVE  births' = births /\ reaped' = reaped /\ Fades /\ LeaderStays
<1>0. proc \in Tables
  BY DEF StopTyped
<1>1. PICK p \in Pids : P!Detach(p) \/ P!CloseOutput(p) \/ P!Exit(p) \/ P!Collect(p)
  BY DEF Ends
<1>2. births' = births /\ reaped' = reaped
  BY <1>1 DEF P!Detach, P!CloseOutput, P!Exit, P!Collect, P!worldVars, P!ownerVars
<1>3. CASE P!Detach(p)
  <2>1. p # Leader /\ proc[p].state = "running" /\ proc' = [proc EXCEPT ![p].group = p]
    BY <1>3 DEF P!Detach, P!Running
  <2>2. proc' \in Tables
    BY <1>0, <2>1 DEF Tables, Entries
  <2>3. /\ \A q \in Pids \ {p} : proc'[q] = proc[q]
        /\ proc'[p] = [proc[p] EXCEPT !.group = p]
    BY <1>0, <2>1 DEF Tables
  <2>4. Fades
    BY <1>0, <1>2, <2>1, <2>2, <2>3 DEF Fades, Tables, Entries
  <2>5. LeaderStays
    BY <1>2, <2>1, <2>3, StopConstants DEF LeaderStays, LeaderKept
  <2> QED BY <1>2, <2>4, <2>5
<1>4. CASE P!CloseOutput(p)
  <2>1. proc[p].state = "running" /\ proc' = [proc EXCEPT ![p].writes = FALSE]
    BY <1>4 DEF P!CloseOutput, P!Running
  <2>2. proc' \in Tables
    BY <1>0, <2>1 DEF Tables, Entries
  <2>3. /\ \A q \in Pids \ {p} : proc'[q] = proc[q]
        /\ proc'[p] = [proc[p] EXCEPT !.writes = FALSE]
    BY <1>0, <2>1 DEF Tables
  <2>4. Fades
    BY <1>0, <1>2, <2>1, <2>2, <2>3 DEF Fades, Tables, Entries
  <2>5. LeaderStays
    BY <1>0, <1>2, <2>1, <2>3, StopConstants DEF LeaderStays, LeaderKept, Tables, Entries
  <2> QED BY <1>2, <2>4, <2>5
<1>5. CASE P!Exit(p)
  <2>1. /\ proc[p].state = "running"
        /\ proc' = [q \in Pids |->
             CASE q = p /\ proc[p].parent = "init" -> P!Free(proc[p].born)
               [] q = p /\ proc[p].parent # "init" ->
                    [proc[p] EXCEPT !.state = "zombie", !.writes = FALSE]
               [] q # p /\ proc[q].parent = p /\ proc[q].state = "zombie" -> P!Free(proc[q].born)
               [] q # p /\ proc[q].parent = p /\ proc[q].state = "running" ->
                    [proc[q] EXCEPT !.parent = "init"]
               [] OTHER -> proc[q]]
    BY <1>5 DEF P!Exit, P!Running, P!Zombie
  <2>2. \A q \in Pids : proc[q] \in Entries /\ P!Free(proc[q].born) \in Entries
    BY <1>0, FreeTyped DEF Tables, Entries
  <2>3. ASSUME NEW q \in Pids
        PROVE  \/ proc'[q] = proc[q]
               \/ proc'[q] = P!Free(proc[q].born)
               \/ /\ q = p /\ proc[q].parent # "init"
                  /\ proc'[q] = [proc[q] EXCEPT !.state = "zombie", !.writes = FALSE]
               \/ /\ proc[q].parent = p /\ proc[q].state = "running"
                  /\ proc'[q] = [proc[q] EXCEPT !.parent = "init"]
    <3>1. CASE q = p
      BY <2>1, <3>1
    <3>2. CASE q # p
      BY <2>1, <3>2
    <3> QED BY <3>1, <3>2
  <2>4. ASSUME NEW q \in Pids
        PROVE  /\ proc'[q] \in Entries
               /\ proc'[q].born = proc[q].born
               /\ proc'[q].killed => proc[q].killed
               /\ \/ proc'[q] = proc[q] \/ proc'[q] = P!Free(proc[q].born)
                  \/ /\ proc'[q].state # "free" /\ proc[q].state # "free"
                     /\ proc'[q].state = "running" => proc[q].state = "running"
                     /\ proc'[q].own = proc[q].own
                     /\ proc'[q].parent \in {proc[q].parent, "init"}
                     /\ proc'[q].group = proc[q].group
                     /\ proc'[q].writes => proc[q].writes
    <3>1. CASE proc'[q] = proc[q]
      BY <2>2, <3>1
    <3>2. CASE proc'[q] = P!Free(proc[q].born)
      BY <2>2, <3>2 DEF P!Free
    <3>3. CASE q = p /\ proc'[q] = [proc[q] EXCEPT !.state = "zombie", !.writes = FALSE]
      <4>1. proc[q].state # "free"
        BY <2>1, <3>3
      <4> QED BY <2>2, <3>3, <4>1 DEF Entries, States
    <3>4. CASE /\ proc[q].state = "running"
               /\ proc'[q] = [proc[q] EXCEPT !.parent = "init"]
      BY <2>2, <3>4 DEF Entries, States
    <3> QED BY <2>3, <3>1, <3>2, <3>3, <3>4
  <2>5. proc' \in Tables
    BY <2>1, <2>4 DEF Tables
  <2>6. Fades
    BY <1>2, <2>4, <2>5 DEF Fades
  <2>7. LeaderStays
    <3> SUFFICES ASSUME ~reaped PROVE LeaderStays
      BY <1>2 DEF LeaderStays
    <3>1. \/ proc'[Leader] = proc[Leader]
          \/ proc'[Leader] = [proc[Leader] EXCEPT !.state = "zombie", !.writes = FALSE]
      <4>1. proc[Leader].parent # p /\ proc[Leader].parent # "init"
        BY StopConstants DEF LeaderKept
      <4>2. \/ proc'[Leader] = proc[Leader]
            \/ proc'[Leader] = P!Free(proc[Leader].born) /\ proc[Leader].parent = "init"
            \/ proc'[Leader] = [proc[Leader] EXCEPT !.state = "zombie", !.writes = FALSE]
        <5>1. CASE Leader = p
          BY <2>1, <5>1, <4>1
        <5>2. CASE Leader # p
          BY <2>1, <5>2, <4>1, StopConstants
        <5> QED BY <5>1, <5>2
      <4> QED BY <4>1, <4>2
    <3>2. proc[Leader] \in Entries /\ Leader \in Pids
      BY <2>2, StopConstants
    <3>3. /\ proc'[Leader].own = proc[Leader].own /\ proc'[Leader].group = proc[Leader].group
          /\ proc'[Leader].parent = proc[Leader].parent
          /\ proc[Leader].state # "free" => proc'[Leader].state # "free"
      BY <3>1, <3>2 DEF Entries
    <3> QED BY <1>2, <3>3 DEF LeaderStays, LeaderKept
  <2> QED BY <1>2, <2>6, <2>7
<1>6. CASE P!Collect(p)
  <2>1. p # Leader /\ proc' = [proc EXCEPT ![p] = P!Free(proc[p].born)]
    BY <1>6 DEF P!Collect
  <2>2. P!Free(proc[p].born) \in Entries
    BY <1>0, FreeTyped DEF Tables, Entries
  <2>3. proc' \in Tables /\ \A q \in Pids : proc'[q] = proc[q] \/ proc'[q] = P!Free(proc[q].born)
    BY <1>0, <2>1, <2>2 DEF Tables
  <2>4. Fades
    BY <1>2, <2>3 DEF Fades, P!Free
  <2>5. LeaderStays
    BY <1>0, <1>2, <2>1, StopConstants DEF LeaderStays, LeaderKept, Tables
  <2> QED BY <1>2, <2>4, <2>5
<1> QED BY <1>1, <1>3, <1>4, <1>5, <1>6

\* A process is started at a PID that is free and names no group: a child of one of the
\* command that runs, or a process of another program.
Born(c) ==
  /\ proc[c].state = "free" /\ births' = births + 1 /\ births < MaxBirths
  /\ \A p \in Pids : proc[p].group # c
  /\ SlowReuse => P!Asleep \/ proc[c].born = 0
  /\ proc' \in Tables /\ \A q \in Pids \ {c} : proc'[q] = proc[q]
  /\ proc'[c].born = births + 1 /\ proc'[c].state = "running" /\ ~proc'[c].killed
  /\ \/ /\ proc'[c].own
        /\ \E p \in Pids : proc[p].own /\ proc[p].state = "running" /\ proc'[c].group = proc[p].group
                             /\ proc'[c].writes = proc[p].writes
     \/ ~proc'[c].own /\ proc'[c].group = c /\ proc'[c].parent = "init"

\* Every step that starts a process does so.
LEMMA StartsBorn ==
  ASSUME StopTyped, Lineage, LeaderKept, Starts
  PROVE  /\ UNCHANGED <<piped, reaped, seen, walk, stopCancelled, expired, stopAt, cause,
                        stopped, stopOutcome>>
         /\ \E c \in Pids : Born(c)
<1>0. proc \in Tables /\ births \in 1 .. MaxBirths
  BY DEF StopTyped, P!TypeInvariant
<1>1. CASE \E p, c \in Pids : P!Fork(p, c)
  <2>1. PICK p, c \in Pids : P!Fork(p, c)
    BY <1>1
  <2>2. /\ proc[p].state = "running" /\ proc[p].own /\ ~proc[p].killed
        /\ proc[c].state = "free" /\ \A q \in Pids : proc[q].group # c
        /\ births < MaxBirths /\ (SlowReuse => P!Asleep \/ proc[c].born = 0)
        /\ births' = births + 1
        /\ proc' = [proc EXCEPT ![c] = [proc[p] EXCEPT !.parent = p, !.born = births + 1]]
    BY <2>1 DEF P!Fork, P!Running, P!Available
  <2>3. births + 1 \in 0 .. MaxBirths
    BY <1>0, <2>2, StopConstants
  <2>4. [proc[p] EXCEPT !.parent = p, !.born = births + 1] \in Entries
    BY <1>0, <2>3 DEF Tables, Entries
  <2>5. /\ proc' \in Tables /\ \A q \in Pids \ {c} : proc'[q] = proc[q]
        /\ proc'[c] = [proc[p] EXCEPT !.parent = p, !.born = births + 1]
    BY <1>0, <2>2, <2>4 DEF Tables
  <2>6. Born(c)
    BY <1>0, <2>2, <2>5 DEF Born, Tables, Entries
  <2>7. UNCHANGED <<piped, reaped, seen, walk, stopCancelled, expired, stopAt, cause,
                    stopped, stopOutcome>>
    BY <2>1 DEF P!Fork, P!ownerVars
  <2> QED BY <2>6, <2>7
<1>2. CASE \E c \in Pids : P!StartForeign(c)
  <2>1. PICK c \in Pids : P!StartForeign(c)
    BY <1>2
  <2>2. /\ proc[c].state = "free" /\ \A q \in Pids : proc[q].group # c
        /\ births < MaxBirths /\ (SlowReuse => P!Asleep \/ proc[c].born = 0)
        /\ births' = births + 1
        /\ proc' = [proc EXCEPT ![c] =
                      [P!Free(births + 1) EXCEPT !.state = "running", !.group = c]]
    BY <2>1 DEF P!StartForeign, P!Available
  <2>3. births + 1 \in 0 .. MaxBirths
    BY <1>0, <2>2, StopConstants
  <2>4. [P!Free(births + 1) EXCEPT !.state = "running", !.group = c] \in Entries
    BY <2>3 DEF Entries, P!Free, States
  <2>5. /\ proc' \in Tables /\ \A q \in Pids \ {c} : proc'[q] = proc[q]
        /\ proc'[c] = [P!Free(births + 1) EXCEPT !.state = "running", !.group = c]
    BY <1>0, <2>2, <2>4 DEF Tables
  <2>6. /\ proc'[c].born = births + 1 /\ proc'[c].state = "running" /\ ~proc'[c].killed
        /\ ~proc'[c].own /\ proc'[c].group = c /\ proc'[c].parent = "init"
    <3> DEFINE free == P!Free(births + 1)
    <3>1. free = [state |-> "free", own |-> FALSE, parent |-> "init", group |-> "none",
                  born |-> births + 1, writes |-> FALSE, killed |-> FALSE]
      BY DEF P!Free
    <3>2. proc'[c] = [free EXCEPT !.state = "running", !.group = c]
      BY <2>5
    <3> QED BY <3>1, <3>2
  <2>7. Born(c)
    BY <2>2, <2>5, <2>6 DEF Born
  <2>8. UNCHANGED <<piped, reaped, seen, walk, stopCancelled, expired, stopAt, cause,
                    stopped, stopOutcome>>
    BY <2>1 DEF P!StartForeign, P!ownerVars
  <2> QED BY <2>7, <2>8
<1> QED BY <1>1, <1>2 DEF Starts

-----------------------------------------------------------------------------
(* Every step keeps the invariant *)

\* The tables are typed, since a step fades or starts processes; the rest is in the actions.
LEMMA OwnerTyped ==
  ASSUME StopTyped, Watches \/ Reaps \/ Kills
  PROVE  /\ seen' \in [Pids -> 0 .. MaxBirths] /\ walk' \subseteq Pids
         /\ stopAt' \in {"sample", "identify", "poll", "check", "sleep", "writers", "group",
                         "signal", "reap", "confirm", "drain", "report", "tree", "treekill",
                         "treewait", "ended"}
         /\ cause' \in {"none", "cancelled", "timeout"}
         /\ stopOutcome' \in {"none", "exited", "cancelled", "timeout"}
         /\ {reaped', stopped', piped', stopCancelled', expired'} \subseteq BOOLEAN
<1>0. /\ seen \in [Pids -> 0 .. MaxBirths] /\ walk \subseteq Pids
      /\ stopAt \in {"sample", "identify", "poll", "check", "sleep", "writers", "group",
                     "signal", "reap", "confirm", "drain", "report", "tree", "treekill",
                     "treewait", "ended"}
      /\ cause \in {"none", "cancelled", "timeout"}
      /\ stopOutcome \in {"none", "exited", "cancelled", "timeout"}
      /\ reaped \in BOOLEAN /\ stopped \in BOOLEAN /\ piped \in BOOLEAN
      /\ stopCancelled \in BOOLEAN /\ expired \in BOOLEAN
  BY DEF StopTyped, P!TypeInvariant
<1>1. \A found : P!Remember(found) \in [Pids -> 0 .. MaxBirths]
  BY <1>0 DEF StopTyped, P!Remember, Tables, Entries
<1>2. P!Dead \in BOOLEAN /\ P!Descendants \subseteq Pids
  BY <1>0 DEF P!Dead, P!Zombie, P!Descendants
<1>3. CASE P!Sample
  BY <1>0, <1>2, <1>3 DEF P!Sample, P!worldVars
<1>4. CASE P!Identify
  BY <1>0, <1>1, <1>4 DEF P!Identify, P!worldVars
<1>5. CASE P!Check \/ P!SliceEnds \/ P!Signalled \/ P!Report
  BY <1>0, <1>5 DEF P!Check, P!SliceEnds, P!Signalled, P!Report, P!Return, P!worldVars
<1>6. CASE P!RememberWriters
  BY <1>0, <1>1, <1>6 DEF P!RememberWriters, P!worldVars
<1>7. CASE P!ReapExpires \/ P!Confirm \/ P!ConfirmExpires \/ P!Drain \/ P!DrainExpires
  BY <1>0, <1>7 DEF P!ReapExpires, P!Confirm, P!ConfirmExpires, P!Drain, P!DrainExpires,
                    P!Give, P!worldVars
<1>8. CASE P!Cancel \/ P!Expire \/ P!Ended
  BY <1>0, <1>8 DEF P!Cancel, P!Expire, P!Ended, P!ownerVars, P!worldVars, P!vars
<1>9. CASE Reaps
  BY <1>0, <1>2, <1>9 DEF Reaps, P!Poll, P!Finish, P!ReapLeader, P!WaitLeader, P!Return, P!worldVars
<1>10. CASE P!KillGroup
  BY <1>0, <1>2, <1>10 DEF P!KillGroup, P!worldVars
<1>11. CASE \E p \in Pids : P!Signal(p)
  BY <1>0, <1>11 DEF P!Signal, P!worldVars
<1>12. CASE P!KillTree \/ P!KillChildren
  BY <1>0, <1>2, <1>12 DEF P!KillTree, P!KillChildren, P!worldVars
<1> QED BY <1>3, <1>4, <1>5, <1>6, <1>7, <1>8, <1>9, <1>10, <1>11, <1>12 DEF Watches, Kills

\* A step that starts no process fades those there are.
LEMMA OthersFade ==
  ASSUME StopTyped, Lineage, LeaderKept, IdentityKept, WalkKept, NotReaped,
         Watches \/ Reaps \/ Kills \/ Ends
  PROVE  Fades /\ LeaderStays
BY WatchFades, ReapFades, KillFades, EndFades

\* What a process does leaves the owner where it is.
LEMMA EndsApart ==
  ASSUME Ends
  PROVE  UNCHANGED <<births, piped, reaped, seen, walk, stopCancelled, expired, stopAt, cause,
                     stopped, stopOutcome>>
BY DEF Ends, P!Detach, P!CloseOutput, P!Exit, P!Collect, P!worldVars, P!ownerVars

\* The table keeps its types.
LEMMA TypedNext ==
  ASSUME StopTyped, Lineage, LeaderKept, IdentityKept, WalkKept, NotReaped, ProcessNext
  PROVE  StopTyped'
<1>1. CASE Starts
  <2>1. PICK c \in Pids : Born(c)
    BY <1>1, StartsBorn
  <2>2. proc' \in Tables /\ births' \in 1 .. MaxBirths
    BY <2>1, StopConstants DEF Born, StopTyped, P!TypeInvariant
  <2> QED
    BY <1>1, <2>2, StartsBorn DEF StopTyped, P!TypeInvariant, Tables, Entries, States
<1>2. CASE ~Starts
  <2>1. proc' \in Tables /\ births' \in 1 .. MaxBirths
    BY <1>2, StepsOfStop, OthersFade DEF Fades, StopTyped, P!TypeInvariant
  <2>2. CASE Ends
    BY <2>1, <2>2, EndsApart DEF StopTyped, P!TypeInvariant, Tables, Entries, States
  <2>3. CASE ~Ends
    BY <1>2, <2>1, <2>3, StepsOfStop, OwnerTyped
       DEF StopTyped, P!TypeInvariant, Tables, Entries, States
  <2> QED BY <2>2, <2>3
<1> QED BY <1>1, <1>2

\* The processes of the command stay its own, and only they are signalled.
LEMMA LineageNext ==
  ASSUME StopTyped, Lineage, LeaderKept, IdentityKept, WalkKept, NotReaped, ProcessNext
  PROVE  Lineage'
<1>0. \A p \in Pids : proc[p] \in Entries
  BY DEF StopTyped, Tables
<1>1. CASE Starts
  <2>1. PICK c \in Pids : Born(c)
    BY <1>1, StartsBorn
  <2>2. births \in Nat
    BY DEF StopTyped, P!TypeInvariant
  <2>3. ASSUME NEW p \in Pids, p # c
        PROVE  proc'[p] = proc[p]
    BY <2>1, <2>3 DEF Born
  <2>4. /\ proc'[c].state = "running" /\ proc'[c].born # 0 /\ ~proc'[c].killed
        /\ proc'[c].own \/ (proc'[c].group = c /\ proc'[c].parent = "init")
    BY <2>1, <2>2 DEF Born
  <2> QED BY <2>3, <2>4, StopConstants DEF Lineage
<1>2. CASE ~Starts
  <2>1. Fades
    BY <1>2, StepsOfStop, OthersFade
  <2>2. ASSUME NEW p \in Pids
        PROVE  /\ proc'[p].state = "free" => proc'[p] = P!Free(proc'[p].born)
               /\ proc'[p].state # "free" => proc'[p].born # 0
               /\ proc'[p].parent \in Pids => proc'[p].own
               /\ ~proc'[p].own => proc'[p].group \in {p, "none"}
               /\ proc'[p].killed => proc'[p].own
    <3>1. CASE proc'[p] = proc[p]
      BY <3>1 DEF Lineage
    <3>2. CASE proc'[p] = P!Free(proc[p].born)
      BY <3>2, StopConstants DEF P!Free
    <3>3. CASE proc'[p] # proc[p] /\ proc'[p] # P!Free(proc[p].born)
      BY <2>1, <3>3, StopConstants DEF Fades, Lineage
    <3> QED BY <3>1, <3>2, <3>3
  <2> QED BY <2>2 DEF Lineage
<1> QED BY <1>1, <1>2

\* The PID of the leader is the command's, or of whoever came when the group was gone.
LEMMA LeaderNext ==
  ASSUME StopTyped, Lineage, LeaderKept, IdentityKept, WalkKept, NotReaped, ProcessNext
  PROVE  LeaderKept'
<1>1. CASE Starts
  <2>1. PICK c \in Pids : Born(c)
    BY <1>1, StartsBorn
  <2>2. reaped' = reaped
    BY <1>1, StartsBorn
  <2>3. ASSUME NEW p \in Pids, p # c
        PROVE  proc'[p] = proc[p]
    BY <2>1, <2>3 DEF Born
  <2>4. \A p \in Pids : proc[p].group # c /\ proc[c].state = "free"
    BY <2>1 DEF Born
  <2>5. CASE c = Leader
    BY <2>2, <2>3, <2>4, <2>5, StopConstants DEF LeaderKept
  <2>6. CASE c # Leader
    <3>1. proc'[Leader] = proc[Leader]
      BY <2>3, <2>6, StopConstants
    <3>2. proc[Leader].state # "free" /\ ~proc[Leader].own => proc'[c].group # Leader
      BY <2>1, <2>6, StopConstants DEF Born, LeaderKept, Lineage
    <3> QED BY <2>2, <2>3, <3>1, <3>2 DEF LeaderKept
  <2> QED BY <2>5, <2>6
<1>2. CASE ~Starts
  <2>1. Fades /\ LeaderStays
    BY <1>2, StepsOfStop, OthersFade
  <2>2. ASSUME proc'[Leader].state # "free", ~proc'[Leader].own, NEW p \in Pids \ {Leader}
        PROVE  proc'[p].group # Leader
    <3>1. proc[Leader].state # "free" /\ ~proc[Leader].own
      <4>1. CASE proc'[Leader] = proc[Leader]
        BY <2>2, <4>1
      <4>2. CASE proc'[Leader] = P!Free(proc[Leader].born)
        BY <2>2, <4>2 DEF P!Free
      <4>3. CASE proc'[Leader] # proc[Leader] /\ proc'[Leader] # P!Free(proc[Leader].born)
        BY <2>1, <2>2, <4>3, StopConstants DEF Fades
      <4> QED BY <4>1, <4>2, <4>3
    <3>2. proc[p].group # Leader
      BY <3>1 DEF LeaderKept
    <3>3. CASE proc'[p] = P!Free(proc[p].born)
      BY <3>3, StopConstants DEF P!Free
    <3>4. CASE proc'[p] # P!Free(proc[p].born)
      BY <2>1, <3>2, <3>4 DEF Fades
    <3> QED BY <3>3, <3>4
  <2> QED BY <2>1, <2>2 DEF LeaderKept, LeaderStays
<1> QED BY <1>1, <1>2

\* What of a process that fades is seen or can write: no more than before.
LEMMA FadesShow ==
  ASSUME StopTyped, Fades, NEW p \in Pids
  PROVE  /\ proc'[p].state # "free" => proc[p].state # "free" /\ (proc'[p].own <=> proc[p].own)
         /\ proc'[p].state = "running" => proc[p].state = "running"
         /\ proc'[p].writes => proc[p].writes
<1>0. proc[p] \in Entries /\ proc'[p] \in Entries
  BY DEF StopTyped, Fades, Tables
<1>1. CASE proc'[p] = proc[p]
  BY <1>1
<1>2. CASE proc'[p] = P!Free(proc[p].born)
  BY <1>2 DEF P!Free
<1>3. CASE proc'[p] # proc[p] /\ proc'[p] # P!Free(proc[p].born)
  BY <1>0, <1>3 DEF Fades, Entries
<1> QED BY <1>1, <1>2, <1>3

\* The start times remembered are those of processes of the command.
LEMMA RememberOwn ==
  ASSUME StopTyped, IdentityKept, NEW found,
         \A p \in Pids : p \in found => (proc[p].state # "free" => proc[p].own),
         NEW p \in Pids
  PROVE  /\ P!Remember(found)[p] <= births
         /\ P!Remember(found)[p] # 0 /\ proc[p].state # "free"
              /\ proc[p].born = P!Remember(found)[p] => proc[p].own
BY DEF IdentityKept, P!Remember, P!Identified

\* A start time that was remembered names a process of the command, or none.
LEMMA IdentityNext ==
  ASSUME StopTyped, Lineage, LeaderKept, IdentityKept, WalkKept, NotReaped, ProcessNext
  PROVE  IdentityKept'
<1>0. births \in Nat /\ births' \in Nat /\ \A p \in Pids : proc[p].born \in Nat /\ seen[p] \in Nat
  BY TypedNext DEF StopTyped, P!TypeInvariant
<1>1. CASE Starts
  <2>1. PICK c \in Pids : Born(c)
    BY <1>1, StartsBorn
  <2>2. seen' = seen /\ births' = births + 1
    BY <1>1, <2>1, StartsBorn DEF Born
  <2>3. ASSUME NEW p \in Pids
        PROVE  /\ proc'[p].born <= births' /\ seen'[p] <= births'
               /\ P!Identified(p)' => proc'[p].own
    <3>1. CASE p = c
      <4>1. proc'[p].born = births + 1 /\ seen[p] <= births
        BY <2>1, <3>1 DEF Born, IdentityKept
      <4> QED BY <1>0, <2>2, <4>1 DEF P!Identified
    <3>2. CASE p # c
      <4>1. proc'[p] = proc[p]
        BY <2>1, <3>2 DEF Born
      <4> QED BY <1>0, <2>2, <4>1 DEF P!Identified, IdentityKept
    <3> QED BY <3>1, <3>2
  <2> QED BY <2>3 DEF IdentityKept
<1>2. CASE ~Starts
  <2>1. Fades
    BY <1>2, StepsOfStop, OthersFade
  <2>2. ASSUME NEW p \in Pids
        PROVE  seen'[p] <= births
                 /\ (seen'[p] # 0 /\ proc[p].state # "free" /\ proc[p].born = seen'[p] => proc[p].own)
    <3>1. CASE P!Identify
      <4>1. seen' = P!Remember(walk)
        BY <3>1 DEF P!Identify
      <4>2. \A q \in Pids : q \in walk => (proc[q].state # "free" => proc[q].own)
        BY <3>1 DEF P!Identify, WalkKept
      <4> QED BY <4>1, <4>2, RememberOwn
    <3>2. CASE P!RememberWriters
      <4>1. seen' = P!Remember(P!Writers) \/ seen' = seen
        BY <3>2 DEF P!RememberWriters
      <4>2. \A q \in Pids : q \in P!Writers => (proc[q].state # "free" => proc[q].own)
        BY DEF P!Writers
      <4>3. CASE seen' = P!Remember(P!Writers)
        BY <4>3, <4>2, RememberOwn
      <4>4. CASE seen' = seen
        BY <4>4 DEF IdentityKept, P!Identified
      <4> QED BY <4>1, <4>3, <4>4
    <3>3. CASE ~(P!Identify \/ P!RememberWriters)
      <4>1. seen' = seen
        BY <1>2, <3>3, StepsOfStop, EndsApart
           DEF Watches, Reaps, Kills, P!Sample, P!Check, P!SliceEnds, P!Signalled,
               P!ReapExpires, P!Confirm, P!ConfirmExpires, P!Drain, P!DrainExpires, P!Report,
               P!Cancel, P!Expire, P!Ended, P!Give, P!Poll, P!Finish, P!ReapLeader,
               P!WaitLeader, P!KillGroup, P!Signal, P!KillTree, P!KillChildren, P!ownerVars, P!vars
      <4> QED BY <4>1 DEF IdentityKept, P!Identified
    <3> QED BY <3>1, <3>2, <3>3
  <2>3. ASSUME NEW p \in Pids
        PROVE  /\ proc'[p].born <= births' /\ seen'[p] <= births'
               /\ P!Identified(p)' => proc'[p].own
    <3>1. proc'[p].born = proc[p].born /\ births' = births /\ proc[p].born <= births
      BY <2>1 DEF Fades, IdentityKept
    <3>2. proc'[p].state # "free" => proc[p].state # "free" /\ (proc'[p].own <=> proc[p].own)
      BY <2>1, FadesShow
    <3> QED BY <2>2, <3>1, <3>2 DEF P!Identified
  <2> QED BY <2>3 DEF IdentityKept
<1> QED BY <1>1, <1>2

\* The walk that waits to be used: every PID in it had its process, and no other gets it.
LEMMA WalkNext ==
  ASSUME SlowReuse, StopTyped, Lineage, LeaderKept, IdentityKept, WalkKept, NotReaped, ProcessNext
  PROVE  WalkKept'
<1> SUFFICES ASSUME stopAt' \in {"identify", "treekill"}, NEW p \in Pids, p \in walk'
             PROVE  proc'[p].born # 0 /\ (proc'[p].state # "free" => proc'[p].own)
  BY TypedNext DEF WalkKept, StopTyped, P!TypeInvariant
<1>1. CASE Starts
  <2>1. PICK c \in Pids : Born(c)
    BY <1>1, StartsBorn
  <2>2. walk' = walk /\ stopAt' = stopAt
    BY <1>1, StartsBorn
  <2>3. proc[c].born = 0
    BY <2>1, <2>2 DEF Born, P!Asleep
  <2>4. p # c
    BY <2>2, <2>3 DEF WalkKept
  <2> QED BY <2>1, <2>2, <2>4 DEF Born, WalkKept
<1>2. CASE ~Starts
  <2>1. Fades
    BY <1>2, StepsOfStop, OthersFade
  <2>2. proc[p].born # 0 /\ (proc[p].state # "free" => proc[p].own)
    <3>1. CASE P!Sample
      <4>1. p \in P!Descendants /\ ~reaped
        BY <3>1 DEF P!Sample
      <4> QED BY <4>1, DescendantsOwn
    <3>2. CASE P!KillTree
      <4>1. p \in P!Descendants /\ ~reaped
        BY <3>2 DEF P!KillTree, NotReaped, StopTyped, P!TypeInvariant
      <4> QED BY <4>1, DescendantsOwn
    <3>3. CASE ~(P!Sample \/ P!KillTree)
      <4>1. stopAt' = stopAt /\ walk' = walk
        BY <1>2, <3>3, StepsOfStop, EndsApart
           DEF Watches, Reaps, Kills, P!Identify, P!RememberWriters, P!Check, P!SliceEnds,
               P!Signalled, P!ReapExpires, P!Confirm, P!ConfirmExpires, P!Drain,
               P!DrainExpires, P!Report, P!Cancel, P!Expire, P!Ended, P!Give, P!Return, P!Poll,
               P!Finish, P!ReapLeader, P!WaitLeader, P!KillGroup, P!Signal, P!KillChildren,
               P!ownerVars, P!vars
      <4> QED BY <4>1 DEF WalkKept
    <3> QED BY <3>1, <3>2, <3>3
  <2>3. proc'[p].born = proc[p].born
    BY <2>1 DEF Fades
  <2> QED BY <2>1, <2>2, <2>3, FadesShow
<1> QED BY <1>1, <1>2

\* The owner of a shell command goes on watching only while the leader was not reaped.
LEMMA NotReapedNext ==
  ASSUME StopTyped, NotReaped, ProcessNext
  PROVE  NotReaped'
<1>0. piped \in BOOLEAN /\ reaped \in BOOLEAN
  BY DEF StopTyped, P!TypeInvariant
<1>1. CASE Starts \/ Ends
  <2>1. stopAt' = stopAt /\ piped' = piped /\ reaped' = reaped
    BY <1>1 DEF Starts, Ends, P!Fork, P!StartForeign, P!Detach, P!CloseOutput, P!Exit,
                P!Collect, P!ownerVars
  <2> QED BY <2>1 DEF NotReaped
<1>2. CASE Watches
  BY <1>0, <1>2
     DEF NotReaped, Watches, P!Sample, P!Identify, P!Check, P!SliceEnds, P!RememberWriters,
         P!Signalled, P!ReapExpires, P!Confirm, P!ConfirmExpires, P!Drain, P!DrainExpires,
         P!Report, P!Cancel, P!Expire, P!Ended, P!Give, P!Return, P!ownerVars, P!vars
<1>3. CASE P!Poll
  <2>1. reaped' = P!Dead /\ piped' = piped /\ stopAt' \in {"ended", "check"}
        /\ (stopAt' = "check" => ~(P!Dead /\ ~piped))
    BY <1>3 DEF P!Poll, P!Return
  <2> QED BY <1>0, <2>1 DEF NotReaped
<1>4. CASE P!Finish \/ P!ReapLeader \/ P!WaitLeader
  BY <1>0, <1>4 DEF NotReaped, P!Finish, P!ReapLeader, P!WaitLeader, P!Return
<1>5. CASE Kills
  <2>1. /\ piped' = piped
        /\ \/ stopAt' = "signal"
           \/ /\ stopAt \in {"tree", "treekill"} /\ stopAt' \in {"treekill", "treewait"}
              /\ reaped' = reaped
    BY <1>5 DEF Kills, P!KillGroup, P!Signal, P!KillTree, P!KillChildren
  <2> QED BY <1>0, <2>1 DEF NotReaped
<1> QED BY <1>1, <1>2, <1>3, <1>4, <1>5, StepsOfStop DEF Reaps

\* What was found at the end of a stop stays: no process that was seen runs again, and only
\* one that can write to the output starts another that can.
LEMMA ChecksNext ==
  ASSUME StopTyped, Lineage, LeaderKept, IdentityKept, WalkKept, NotReaped, StopsChecked, ProcessNext
  PROVE  StopsChecked'
<1>0. /\ piped \in BOOLEAN /\ stopped \in BOOLEAN /\ births \in Nat
      /\ \A p \in Pids : proc[p].born \in Nat /\ seen[p] \in Nat /\ proc[p] \in Entries
  BY DEF StopTyped, P!TypeInvariant, Tables
<1>1. seen' = seen => P!SeenRunning' \subseteq P!SeenRunning
  <2> SUFFICES ASSUME seen' = seen, NEW p \in P!SeenRunning' PROVE p \in P!SeenRunning
    OBVIOUS
  <2>1. /\ p \in Pids /\ seen[p] # 0 /\ proc'[p].state = "running" /\ proc'[p].born = seen[p]
    BY DEF P!SeenRunning, P!Identified, P!Running
  <2>2. CASE Starts
    <3>1. PICK c \in Pids : Born(c)
      BY <2>2, StartsBorn
    <3>2. p # c
      BY <1>0, <2>1, <3>1 DEF Born, IdentityKept
    <3>3. proc'[p] = proc[p]
      BY <2>1, <3>1, <3>2 DEF Born
    <3> QED BY <2>1, <3>3 DEF P!SeenRunning, P!Identified, P!Running
  <2>3. CASE ~Starts
    <3>1. Fades
      BY <2>3, StepsOfStop, OthersFade
    <3>2. proc[p].state = "running" /\ proc[p].born = seen[p]
      BY <2>1, <3>1, FadesShow DEF Fades
    <3> QED BY <2>1, <3>2 DEF P!SeenRunning, P!Identified, P!Running
  <2> QED BY <2>2, <2>3
<1>2. P!Writers = {} => P!Writers' = {}
  <2> SUFFICES ASSUME P!Writers = {}, NEW p \in P!Writers' PROVE FALSE
    OBVIOUS
  <2>1. p \in Pids /\ proc'[p].state = "running" /\ proc'[p].own /\ proc'[p].writes
    BY DEF P!Writers, P!Running
  <2>2. \A q \in Pids : ~(proc[q].state = "running" /\ proc[q].own /\ proc[q].writes)
    BY DEF P!Writers, P!Running
  <2>3. CASE Starts
    <3>1. PICK c \in Pids : Born(c)
      BY <2>3, StartsBorn
    <3>2. CASE p = c
      BY <2>1, <2>2, <3>1, <3>2 DEF Born
    <3>3. CASE p # c
      BY <2>1, <2>2, <3>1, <3>3 DEF Born
    <3> QED BY <3>2, <3>3
  <2>4. CASE ~Starts
    <3>1. Fades
      BY <2>4, StepsOfStop, OthersFade
    <3> QED BY <2>1, <2>2, <3>1, FadesShow
  <2> QED BY <2>3, <2>4
<1>3. CASE Starts \/ Ends
  <2>1. UNCHANGED <<piped, seen, stopAt, stopped>>
    BY <1>3, StartsBorn, EndsApart
  <2> QED BY <1>1, <1>2, <2>1 DEF StopsChecked
<1>4. CASE P!Identify \/ P!RememberWriters
  <2>1. UNCHANGED <<piped, stopped>> /\ stopAt' \in {"poll", "writers", "group"} /\ ~stopped
    BY <1>0, <1>4 DEF P!Identify, P!RememberWriters, StopsChecked
  <2> QED BY <2>1 DEF StopsChecked
<1>5. CASE P!Confirm
  <2>1. /\ UNCHANGED <<piped, seen>> /\ P!SeenRunning = {}
        /\ \/ piped /\ stopAt' = "drain" /\ stopped' = stopped /\ ~stopped
           \/ ~piped /\ stopAt' = "report"
    BY <1>0, <1>5 DEF P!Confirm, P!Give, StopsChecked
  <2> QED BY <1>1, <2>1 DEF StopsChecked
<1>6. CASE P!Drain
  <2>1. UNCHANGED <<piped, seen>> /\ P!SeenRunning = {} /\ P!Writers = {} /\ stopAt' = "report"
    BY <1>6 DEF P!Drain, P!Give, StopsChecked
  <2> QED BY <1>1, <1>2, <2>1 DEF StopsChecked
<1>7. CASE P!ReapExpires \/ P!ConfirmExpires \/ P!DrainExpires
  <2>1. piped' = piped /\ ~stopped' /\ stopAt' = "report"
    BY <1>7 DEF P!ReapExpires, P!ConfirmExpires, P!DrainExpires, P!Give
  <2> QED BY <2>1 DEF StopsChecked
<1>8. CASE P!Report \/ P!Cancel \/ P!Expire \/ P!Ended
  <2>1. UNCHANGED <<piped, seen, stopped>> /\ (stopAt' = stopAt \/ stopAt' = "ended")
    BY <1>8 DEF P!Report, P!Return, P!Cancel, P!Expire, P!Ended, P!ownerVars, P!vars
  <2> QED BY <1>1, <1>2, <2>1 DEF StopsChecked
<1>9. CASE P!Sample \/ P!Check \/ P!SliceEnds \/ P!Signalled \/ Reaps \/ Kills
  <2>1. UNCHANGED <<piped, stopped>> /\ stopAt' # "drain" /\ ~stopped
    BY <1>0, <1>9 DEF P!Sample, P!Check, P!SliceEnds, P!Signalled, Reaps, Kills, P!Poll,
         P!Finish, P!ReapLeader, P!WaitLeader, P!KillGroup, P!Signal, P!KillTree,
         P!KillChildren, P!Return, StopsChecked
  <2> QED BY <2>1 DEF StopsChecked
<1> QED BY <1>3, <1>4, <1>5, <1>6, <1>7, <1>8, <1>9, StepsOfStop DEF Watches

-----------------------------------------------------------------------------
(* The theorem *)

StopInv == StopTyped /\ Lineage /\ LeaderKept /\ IdentityKept /\ WalkKept /\ NotReaped /\ StopsChecked

\* A command that was just started satisfies the invariant.
LEMMA StopStarts == P!Init => StopInv
<1> SUFFICES ASSUME P!Init PROVE StopInv
  OBVIOUS
<1> DEFINE leads == [state |-> "running", own |-> TRUE, parent |-> "owner", group |-> Leader,
                     born |-> 1, writes |-> TRUE, killed |-> FALSE]
<1>1. /\ proc = [p \in Pids |-> IF p # Leader THEN P!Free(0) ELSE leads]
      /\ births = 1 /\ piped \in BOOLEAN
      /\ reaped = FALSE /\ seen = [p \in Pids |-> 0] /\ walk = {}
      /\ stopCancelled = FALSE /\ expired = FALSE
      /\ stopAt = "sample" /\ cause = "none" /\ stopped = FALSE /\ stopOutcome = "none"
  BY DEF P!Init
<1>2. leads \in Entries /\ P!Free(0) \in Entries
  BY StopConstants, FreeTyped DEF Entries, States
<1>3. proc[Leader] = leads /\ \A p \in Pids \ {Leader} : proc[p] = P!Free(0)
  BY <1>1, StopConstants
<1>4. proc \in Tables
  BY <1>1, <1>2 DEF Tables
<1>5. StopTyped
  <2>1. births \in 1 .. MaxBirths /\ seen \in [Pids -> 0 .. MaxBirths]
    BY <1>1, StopConstants
  <2>2. {reaped, stopped, piped, stopCancelled, expired} \subseteq BOOLEAN
    BY <1>1
  <2> QED BY <1>1, <1>4, <2>1, <2>2 DEF StopTyped, P!TypeInvariant, Tables, Entries, States
<1>6. \A p \in Pids \ {Leader} :
        /\ proc[p].state = "free" /\ proc[p].born = 0 /\ proc[p].parent = "init"
        /\ ~proc[p].own /\ proc[p].group = "none" /\ ~proc[p].killed
  BY <1>3 DEF P!Free
<1>7. Lineage
  BY <1>3, <1>6, StopConstants DEF Lineage
<1>8. LeaderKept
  BY <1>3, <1>6, StopConstants DEF LeaderKept
<1>9. IdentityKept
  BY <1>1, <1>3, <1>6, StopConstants DEF IdentityKept, P!Identified
<1>10. WalkKept /\ NotReaped /\ StopsChecked
  BY <1>1 DEF WalkKept, NotReaped, StopsChecked
<1> QED BY <1>5, <1>7, <1>8, <1>9, <1>10 DEF StopInv

\* The invariant is what is claimed of a stop, and more.
LEMMA StopInvSound == StopInv => P!TypeInvariant /\ P!NoForeignKilled /\ P!StopConfirmed
<1> SUFFICES ASSUME StopInv PROVE P!NoForeignKilled /\ P!StopConfirmed
  BY DEF StopInv, StopTyped
<1>1. P!NoForeignKilled
  BY DEF StopInv, Lineage, P!NoForeignKilled
<1>2. P!StopConfirmed
  BY DEF StopInv, StopsChecked, P!StopConfirmed, P!SeenRunning, P!Writers, P!Survivors
<1> QED BY <1>1, <1>2

\* While the owner of a process is explored, the invariant is kept; it says nothing of the
\* variables at rest otherwise.
LEMMA StopNext ==
  ASSUME SlowReuse, part = "process" => StopInv, [PartsNext]_PartsVars
  PROVE  part' = "process" => StopInv'
<1>1. CASE ProcessNext
  <2>1. part = "process"
    BY <1>1 DEF ProcessNext, Process, Only
  <2> QED
    BY <1>1, <2>1, TypedNext, LineageNext, LeaderNext, IdentityNext, WalkNext, NotReapedNext,
       ChecksNext DEF StopInv
<1>2. CASE RepositoryNext \/ DeletionNext \/ SearchNext \/ HistoryNext \/ ShellNext
  BY <1>2 DEF RepositoryNext, DeletionNext, SearchNext, HistoryNext, ShellNext, Repository,
              Deletion, Searching, History, Shelling, Only
<1>3. CASE UNCHANGED PartsVars
  <2>1. part' = part /\ UNCHANGED stopVars
    BY <1>3 DEF PartsVars
  <2> QED
    BY <2>1 DEF stopVars, StopInv, StopTyped, P!TypeInvariant, Lineage, LeaderKept, IdentityKept,
                WalkKept, NotReaped, StopsChecked, P!Identified, P!SeenRunning, P!Writers, P!Running
<1> QED BY <1>1, <1>2, <1>3 DEF PartsNext

\* Whatever becomes of the processes of a command and of their PIDs, as long as a PID comes
\* round again only while the owner sleeps: no process of another program is signalled, and
\* a stop that is confirmed left no process that was seen running, nor one that can write.
THEOREM StopIsSound == SlowReuse => (PartsSpec => []StopSound)
<1> SUFFICES ASSUME SlowReuse PROVE PartsSpec => []StopSound
  OBVIOUS
<1> DEFINE Sound == part = "process" => StopInv
<1>1. PartsInit => Sound
  BY StopStarts DEF PartsInit
<1>2. Sound /\ [PartsNext]_PartsVars => Sound'
  BY StopNext
<1>3. Sound => StopSound
  BY StopInvSound DEF StopSound
<1> HIDE DEF Sound
<1> QED BY <1>1, <1>2, <1>3, PTL DEF PartsSpec

-----------------------------------------------------------------------------
(* The shell: what nested watches keep, for every set of Runs and of commands and any     *)
(* number of lines and of Ctrl-C.                                                         *)

Frames == [run : Runs, own : BOOLEAN, gives : BOOLEAN, seen : S!Statuses]
Owners == [run : Runs \union {NoRun}, call : {"none", "run", "answer", "resume", "continue"},
           at : {"none", "begin", "work", "done", "dead"}, failed : BOOLEAN]
Owed == [kind : {"run", "resume", "settle", "answer", "continue"}, run : Runs,
            gives : BOOLEAN]

\* The types.
ShellTyped ==
  /\ status \in [Runs -> S!Statuses] /\ interrupts \in [Runs -> BOOLEAN] /\ foreign \subseteq Runs
  /\ runner \in Owners
  /\ shellAt \in {"prompt", "ask", "build", "watch", "line", "check", "handle", "rewatch",
                  "exited", "crashed"}
  /\ base \in {"dispatch", "handler", "rewatch"}
  /\ frames \in Seq(Frames)
  /\ currentRun \in Runs \union {NoRun} /\ exiting \in BOOLEAN /\ correcting \in BOOLEAN
  /\ queue \in S!Lines \union {S!NoLine, S!Eof}
  /\ reader \in {"reading", "stopped", "ended"}
  /\ lines \in 0 .. MaxLines /\ signals \in Nat

\* Where the main thread is, when it is in a watch, and what is below the watches.
Nested ==
  /\ (shellAt \in {"watch", "line", "check"} <=> frames # <<>>) \/ shellAt \in {"ask", "build", "crashed"}
  /\ shellAt = "prompt" => base = "dispatch" /\ frames = <<>>
  /\ shellAt \in {"handle", "rewatch"} => base = "handler" /\ frames = <<>>
  /\ shellAt = "ask" /\ frames = <<>> => base = "dispatch"

\* Every watch was opened by a line of its own, also the one about to be opened, and the one
\* that the handler of Ctrl-C opens.
Waiting == IF queue = S!NoLine THEN 0 ELSE 1
Opened ==
  /\ Len(frames) + (IF shellAt \in {"ask", "build"} THEN 1 ELSE 0) + Waiting <= lines
  /\ currentRun # NoRun => 1 + Waiting <= lines

\* A watch, a question and an owner are of a shell that has a current Run.
HasRun ==
  /\ frames # <<>> => currentRun # NoRun
  /\ shellAt = "ask" => currentRun # NoRun
  /\ runner.at # "none" => currentRun # NoRun /\ runner.run \in Runs

\* The owner about to be started is for a Run, and to settle or to answer it is for the
\* current one.
Starting ==
  shellAt = "build" =>
    /\ start \in Owed
    /\ start.kind \in {"settle", "answer"} => start.run = currentRun
    /\ start.kind = "continue" => currentRun # NoRun

\* The Run an owner works at runs here, and the ones of other processes there.
Running ==
  /\ \A r \in foreign : status[r] = "running"
  /\ runner.at = "work" => status[runner.run] = "running" /\ runner.run \notin foreign

\* The user controls the Run of the owner that was asked for.
OwnsCurrent == S!Working /\ runner.call # "continue" => currentRun = runner.run

\* Where no owner is expected there is none, unless after Ctrl-C.
Expected ==
  /\ shellAt = "ask" => ~S!Active
  /\ shellAt = "handle" /\ S!Active => signals > 0

\* A Run that was in the store when it was read is there.
Stored == shellAt = "line" /\ S!Top.seen # "absent" => status[S!Top.run] # "absent"

\* An owner was started for a Run that has not ended, and if it is for a correction, it is
\* for the current one.
Minded ==
  /\ runner.at = "work" \/ (runner.at = "begin" /\ status[runner.run] # "ended")
  /\ runner.call = "continue" => currentRun = runner.run

\* The innermost watch is for the owner as soon as it has been started.
Watched ==
  Minded => \/ shellAt \in {"watch", "line", "check"} /\ S!Top.own /\ S!Top.run = runner.run
            \/ shellAt \in {"handle", "rewatch"} \/ (shellAt = "crashed" /\ signals > 0)

ShellInv ==
  /\ ShellTyped /\ Nested /\ Opened /\ HasRun /\ Starting /\ Running /\ OwnsCurrent
  /\ Expected /\ Stored /\ Watched

\* The line of a command is none of the two marks.
LEMMA ShellConstants ==
  /\ NoRun \notin Runs /\ MaxLines \in Nat /\ MaxSignals \in Nat
  /\ S!NoLine # S!Eof /\ S!NoLine \notin S!Lines /\ S!Eof \notin S!Lines
  /\ \A line \in S!Lines : line.do \in {"run", "resume", "attach", "show"} => line.run \in Runs
<1>1. /\ NoRun \notin Runs /\ MaxLines \in Nat /\ MaxSignals \in Nat
      /\ Commands \subseteq {"text", "interrupt", "correct", "quit", "run", "resume", "answer",
                             "attach", "show"}
  BY PartsAssumption DEF PartsAssumption, S!ShellAssumption
<1>2. S!NoLine # S!Eof /\ S!NoLine \notin S!Lines /\ S!Eof \notin S!Lines
  <2>1. "none" \notin Commands /\ "eof" \notin Commands
    BY <1>1
  <2>2. \A line \in S!Lines : line.do \in Commands
    BY DEF S!Lines, S!Line
  <2>3. S!NoLine.do = "none" /\ S!Eof.do = "eof"
    BY DEF S!NoLine, S!Eof, S!Line
  <2> QED BY <2>1, <2>2, <2>3
<1>3. \A line \in S!Lines : line.do \in {"run", "resume", "attach", "show"} => line.run \in Runs
  BY DEF S!Lines, S!Line, S!About
<1> QED BY <1>1, <1>2, <1>3

\* What a nonempty sequence of watches is made of.
LEMMA Innermost ==
  ASSUME frames \in Seq(Frames), frames # <<>>
  PROVE  /\ Len(frames) \in Nat /\ Len(frames) >= 1
         /\ S!Top \in Frames
         /\ S!Below \in Seq(Frames) /\ Len(S!Below) = Len(frames) - 1
<1>1. Len(frames) \in Nat /\ Len(frames) >= 1
  OBVIOUS
<1>2. S!Top \in Frames
  BY <1>1 DEF S!Top
<1>3. S!Below \in Seq(Frames) /\ Len(S!Below) = Len(frames) - 1
  <2>1. ASSUME NEW n \in Int, \A i \in 1 .. n : frames[i] \in Frames
        PROVE  /\ SubSeq(frames, 1, n) \in Seq(Frames)
               /\ Len(SubSeq(frames, 1, n)) = IF 1 <= n THEN n - 1 + 1 ELSE 0
    BY <2>1, SubSeqProperties
  <2>2. Len(frames) - 1 \in Int /\ \A i \in 1 .. Len(frames) - 1 : frames[i] \in Frames
    BY <1>1
  <2>3. /\ SubSeq(frames, 1, Len(frames) - 1) \in Seq(Frames)
        /\ Len(SubSeq(frames, 1, Len(frames) - 1)) =
             IF 1 <= Len(frames) - 1 THEN Len(frames) - 1 - 1 + 1 ELSE 0
    BY <2>1, <2>2
  <2>4. ASSUME NEW l \in Nat, l >= 1
        PROVE  (IF 1 <= l - 1 THEN l - 1 - 1 + 1 ELSE 0) = l - 1
    BY <2>4
  <2>5. S!Below = SubSeq(frames, 1, Len(frames) - 1)
    BY Zenon DEF S!Below
  <2> QED BY <1>1, <2>3, <2>4, <2>5, Zenon
<1> QED BY <1>1, <1>2, <1>3

\* To open a watch.
LEMMA Opens ==
  ASSUME frames \in Seq(Frames), NEW r \in Runs, NEW own \in BOOLEAN, NEW gives \in BOOLEAN,
         S!Watch(r, own, gives)
  PROVE  /\ frames' \in Seq(Frames) /\ frames' # <<>> /\ Len(frames') = Len(frames) + 1
         /\ S!Top' = [run |-> r, own |-> own, gives |-> gives, seen |-> "absent"]
         /\ shellAt' = "watch" /\ base' = base
<1> DEFINE f == [run |-> r, own |-> own, gives |-> gives, seen |-> "absent"]
<1>1. f \in Frames
  BY DEF Frames, S!Statuses
<1>2. frames' = Append(frames, f) /\ shellAt' = "watch" /\ base' = base
  BY DEF S!Watch
<1>3. frames' \in Seq(Frames) /\ frames' # <<>> /\ Len(frames') = Len(frames) + 1
      /\ frames'[Len(frames')] = f
  BY <1>1, <1>2
<1> QED BY <1>2, <1>3 DEF S!Top

-----------------------------------------------------------------------------
(* The owner and the other processes *)

\* What a step of theirs leaves, and what it may change.
LEMMA WorldSteps ==
  ASSUME ShellInv,
         \/ S!OwnerBegins \/ (\E how \in S!Statuses : S!OwnerStops(how)) \/ S!OwnerBreaks
         \/ S!ThreadEnds \/ (\E r \in Runs, how \in S!Statuses : S!OtherStops(r, how))
  PROVE  /\ UNCHANGED <<shellAt, base, frames, start, currentRun, exiting, correcting, queue,
                        reader, lines, signals>>
         /\ status' \in [Runs -> S!Statuses] /\ interrupts' \in [Runs -> BOOLEAN]
         /\ foreign' \subseteq Runs /\ runner' \in Owners
         /\ runner'.run = runner.run /\ runner'.call = runner.call
         /\ runner'.at # "none" => runner.at # "none"
         /\ S!Working' => S!Working
         /\ S!Active' => S!Active
         /\ \A r \in Runs : status'[r] = "absent" => status[r] = "absent"
         /\ runner'.at = "begin" => runner.at = "begin" /\ (status[runner.run] = "ended" => status'[runner.run] = "ended")
         /\ runner'.at = "work" => runner.at = "work" \/ status[runner.run] # "ended"
         /\ Running'
<1> USE ShellConstants DEF S!MainIdle, S!mainVars, S!flagVars, S!inputVars, S!storeVars
<1>0. /\ status \in [Runs -> S!Statuses] /\ interrupts \in [Runs -> BOOLEAN]
      /\ foreign \subseteq Runs /\ runner \in Owners
      /\ \A r \in foreign : status[r] = "running"
      /\ runner.at = "work" => status[runner.run] = "running" /\ runner.run \notin foreign
      /\ runner.at # "none" => runner.run \in Runs
  BY DEF ShellInv, ShellTyped, Running, HasRun
<1>1. CASE S!OwnerBegins
  <2>1. UNCHANGED <<shellAt, base, frames, start, currentRun, exiting, correcting, queue,
                    reader, lines, signals, foreign>>
        /\ runner.at = "begin" /\ runner.run \in Runs
    BY <1>0, <1>1 DEF S!OwnerBegins
  <2>2. \/ S!OwnerEnds(TRUE) /\ UNCHANGED <<status, interrupts>>
        \/ /\ S!OwnerEnds(FALSE) /\ interrupts' = [interrupts EXCEPT ![runner.run] = FALSE]
           /\ runner.run \notin foreign /\ status[runner.run] # "ended"
           /\ \E how \in {"asking", "paused"} : status' = [status EXCEPT ![runner.run] = how]
        \/ /\ runner' = [runner EXCEPT !.at = "work"]
           /\ runner.run \notin foreign /\ status[runner.run] # "ended"
           /\ status' = [status EXCEPT ![runner.run] = "running"] /\ UNCHANGED interrupts
    BY <1>1 DEF S!OwnerBegins
  <2>3. CASE S!OwnerEnds(TRUE) /\ UNCHANGED <<status, interrupts>>
    BY <1>0, <2>1, <2>3 DEF S!OwnerEnds, Owners, S!Working, S!Active, Running
  <2>4. CASE /\ S!OwnerEnds(FALSE) /\ interrupts' = [interrupts EXCEPT ![runner.run] = FALSE]
             /\ runner.run \notin foreign /\ status[runner.run] # "ended"
             /\ \E how \in {"asking", "paused"} : status' = [status EXCEPT ![runner.run] = how]
    BY <1>0, <2>1, <2>4 DEF S!OwnerEnds, Owners, S!Working, S!Active, Running, S!Statuses
  <2>5. CASE /\ runner' = [runner EXCEPT !.at = "work"]
             /\ runner.run \notin foreign /\ status[runner.run] # "ended"
             /\ status' = [status EXCEPT ![runner.run] = "running"] /\ UNCHANGED interrupts
    BY <1>0, <2>1, <2>5 DEF Owners, S!Working, S!Active, Running, S!Statuses
  <2> QED BY <2>2, <2>3, <2>4, <2>5
<1>2. CASE \E how \in S!Statuses : S!OwnerStops(how)
  <2>1. PICK how \in S!Statuses : S!OwnerStops(how)
    BY <1>2
  <2>2. /\ UNCHANGED <<shellAt, base, frames, start, currentRun, exiting, correcting, queue,
                       reader, lines, signals, foreign>>
        /\ runner.at = "work" /\ runner' = [runner EXCEPT !.at = "done", !.failed = FALSE]
        /\ how # "absent" /\ status' = [status EXCEPT ![runner.run] = how]
        /\ interrupts' = [interrupts EXCEPT ![runner.run] = @ /\ how # "paused"]
    BY <2>1 DEF S!OwnerStops, S!Stops, S!OwnerEnds
  <2> QED BY <1>0, <2>2 DEF Owners, S!Working, S!Active, Running
<1>3. CASE S!OwnerBreaks
  BY <1>0, <1>3 DEF S!OwnerBreaks, S!OwnerEnds, Owners, S!Working, S!Active, Running
<1>4. CASE S!ThreadEnds
  BY <1>0, <1>4 DEF S!ThreadEnds, Owners, S!Working, S!Active, Running
<1>5. CASE \E r \in Runs, how \in S!Statuses : S!OtherStops(r, how)
  <2>1. PICK r \in Runs, how \in S!Statuses : S!OtherStops(r, how)
    BY <1>5
  <2>2. /\ UNCHANGED <<shellAt, base, frames, start, currentRun, exiting, correcting, queue,
                       reader, lines, signals, runner>>
        /\ r \in foreign /\ foreign' = foreign \ {r}
        /\ how # "absent" /\ status' = [status EXCEPT ![r] = how]
        /\ interrupts' = [interrupts EXCEPT ![r] = @ /\ how # "paused"]
    BY <2>1 DEF S!OtherStops, S!Stops
  <2>3. status[r] = "running"
    BY <1>0, <2>2
  <2>4. status' \in [Runs -> S!Statuses] /\ interrupts' \in [Runs -> BOOLEAN]
    BY <1>0, <2>2
  <2> QED BY <1>0, <2>2, <2>3, <2>4 DEF S!Working, S!Active, Running
<1> QED BY <1>1, <1>2, <1>3, <1>4, <1>5

\* They keep the invariant.
LEMMA WorldKeeps ==
  ASSUME ShellInv,
         \/ S!OwnerBegins \/ (\E how \in S!Statuses : S!OwnerStops(how)) \/ S!OwnerBreaks
         \/ S!ThreadEnds \/ (\E r \in Runs, how \in S!Statuses : S!OtherStops(r, how))
  PROVE  ShellInv'
<1>1. UNCHANGED <<shellAt, base, frames, start, currentRun, exiting, correcting, queue, reader,
                  lines, signals>>
  BY WorldSteps
<1>2. ShellTyped'
  BY <1>1, WorldSteps DEF ShellInv, ShellTyped
<1>3. Nested' /\ Opened' /\ Starting'
  BY <1>1 DEF ShellInv, Nested, Opened, Waiting, Starting
<1>4. HasRun' /\ OwnsCurrent' /\ Expected'
  BY <1>1, WorldSteps DEF ShellInv, HasRun, OwnsCurrent, Expected
<1>5. Stored'
  <2> SUFFICES ASSUME shellAt = "line", S!Top.seen # "absent" PROVE status'[S!Top.run] # "absent"
    BY <1>1 DEF Stored, S!Top
  <2>1. status[S!Top.run] # "absent" /\ frames # <<>>
    BY DEF ShellInv, Stored, Nested
  <2>2. S!Top.run \in Runs
    BY <2>1, Innermost DEF ShellInv, ShellTyped, Frames
  <2> QED BY <2>1, <2>2, WorldSteps
<1>6. Watched'
  <2>1. S!Top' = S!Top
    BY <1>1 DEF S!Top
  <2>2. /\ runner'.run = runner.run /\ runner'.call = runner.call
        /\ runner'.at = "begin" => runner.at = "begin" /\ (status[runner.run] = "ended" => status'[runner.run] = "ended")
        /\ runner'.at = "work" => S!Working /\ (runner.at = "work" \/ status[runner.run] # "ended")
    BY WorldSteps DEF S!Working
  <2> QED BY <1>1, <2>1, <2>2 DEF ShellInv, Watched, Minded, S!Working
<1> QED BY <1>2, <1>3, <1>4, <1>5, <1>6, WorldSteps DEF ShellInv

-----------------------------------------------------------------------------
(* The main thread: where a step of it may lead *)

\* A step of the main thread, or Ctrl-C, leaves the owner and the store as they are, and
\* selects another Run only while no owner is active.
Moves ==
  /\ UNCHANGED <<status, foreign, runner, lines>>
  /\ signals' \in {signals, signals + 1} /\ queue' \in {queue, S!NoLine}
  /\ interrupts' \in [Runs -> BOOLEAN] /\ exiting' \in BOOLEAN /\ correcting' \in BOOLEAN
  /\ reader' \in {"reading", "stopped", "ended"}
  /\ \/ currentRun' = currentRun
     \/ ~S!Active /\ currentRun' \in Runs /\ queue # S!NoLine /\ queue' = S!NoLine

\* What such a step leaves true, wherever it leads.
LEMMA Moved ==
  ASSUME ShellInv, Moves
  PROVE  /\ Running' /\ OwnsCurrent' /\ (Minded' => Minded) /\ (S!Active' <=> S!Active)
         /\ runner'.at # "none" => currentRun' # NoRun /\ runner'.run \in Runs
         /\ currentRun' \in Runs \union {NoRun} /\ (currentRun # NoRun => currentRun' # NoRun)
         /\ currentRun' # NoRun => 1 + Waiting' <= lines
         /\ Waiting' \in {0, 1} /\ Waiting' <= Waiting
         /\ signals' \in Nat /\ signals' >= signals
<1>1. Running' /\ (S!Active' <=> S!Active)
  BY DEF ShellInv, Moves, Running, S!Active, S!Working
<1>2. OwnsCurrent' /\ (Minded' => Minded)
  BY DEF ShellInv, Moves, OwnsCurrent, Minded, S!Active, S!Working
<1>3. /\ runner'.at # "none" => currentRun' # NoRun /\ runner'.run \in Runs
      /\ currentRun' \in Runs \union {NoRun} /\ (currentRun # NoRun => currentRun' # NoRun)
  BY ShellConstants DEF ShellInv, Moves, HasRun, ShellTyped
<1>4. Waiting' \in {0, 1} /\ Waiting' <= Waiting /\ signals' \in Nat /\ signals' >= signals
  BY DEF ShellInv, Moves, Waiting, ShellTyped
<1>5. currentRun' # NoRun => 1 + Waiting' <= lines
  <2>1. CASE currentRun' = currentRun
    BY <1>4, <2>1 DEF ShellInv, Opened, ShellTyped, Waiting
  <2>2. CASE queue # S!NoLine /\ queue' = S!NoLine
    <3>1. Len(frames) \in Nat /\ lines \in Nat
      BY ShellConstants DEF ShellInv, ShellTyped
    <3>2. Len(frames) + (IF shellAt \in {"ask", "build"} THEN 1 ELSE 0) + 1 <= lines
      BY <2>2 DEF ShellInv, Opened, Waiting
    <3>3. Waiting' = 0
      BY <2>2 DEF Waiting
    <3> QED BY <3>1, <3>2, <3>3
  <2> QED BY <2>1, <2>2 DEF Moves
<1> QED BY <1>1, <1>2, <1>3, <1>4, <1>5

\* A command or the handler is over, and the innermost watch goes on or what is below it.
LEMMA Settles ==
  ASSUME ShellInv, Moves, UNCHANGED <<base, frames, start>>,
         shellAt \in {"prompt", "watch", "line", "check", "handle"} \/ (shellAt \in {"ask", "build"} /\ ~Minded),
         \/ shellAt' = S!Settled /\ (frames = <<>> => base \in {"dispatch", "handler"})
         \/ shellAt' = "exited" /\ frames = <<>> /\ ~Minded
         \/ shellAt' = "crashed" /\ (Minded => shellAt = "handle" /\ signals > 0)
         \/ shellAt' = "watch" /\ frames # <<>>
  PROVE  ShellInv'
<1>1. ShellTyped'
  BY Moved DEF ShellInv, Moves, ShellTyped, S!Settled
<1>2. Nested'
  BY DEF ShellInv, ShellTyped, Nested, S!Settled
<1>3. Opened'
  <2>1. Len(frames) + Waiting' <= lines
    <3>1. Len(frames) \in Nat /\ lines \in Nat
      BY ShellConstants DEF ShellInv, ShellTyped
    <3>2. Len(frames) + (IF shellAt \in {"ask", "build"} THEN 1 ELSE 0) + Waiting <= lines
      BY DEF ShellInv, Opened
    <3>3. Waiting \in {0, 1}
      BY DEF Waiting
    <3> QED BY <3>1, <3>2, <3>3, Moved
  <2>2. shellAt' \notin {"ask", "build"} /\ lines' = lines /\ frames' = frames
    BY DEF S!Settled, Moves
  <2> QED BY <2>1, <2>2, Moved, ShellConstants DEF Opened, ShellInv, ShellTyped
<1>4. HasRun' /\ Starting' /\ Expected' /\ Stored'
  BY Moved DEF ShellInv, HasRun, Starting, Expected, Stored, S!Settled
<1>5. Watched'
  <2>1. S!Top' = S!Top /\ runner' = runner
    BY DEF S!Top, Moves
  <2>2. SUFFICES ASSUME Minded
                 PROVE  \/ shellAt' \in {"watch", "line", "check"} /\ S!Top.own /\ S!Top.run = runner.run
                        \/ shellAt' \in {"handle", "rewatch"} \/ (shellAt' = "crashed" /\ signals' > 0)
    BY <2>1, Moved DEF Watched
  <2>3. CASE shellAt = "handle"
    BY <2>2, <2>3, Moved DEF ShellInv, ShellTyped, Nested, S!Settled
  <2>4. CASE shellAt \in {"watch", "line", "check"}
    BY <2>2, <2>4, Moved DEF ShellInv, Watched, Nested, S!Settled
  <2> QED BY <2>2, <2>3, <2>4 DEF ShellInv, Watched
<1> QED BY <1>1, <1>2, <1>3, <1>4, <1>5, Moved DEF ShellInv

\* An owner is about to be started.
LEMMA Builds ==
  ASSUME ShellInv, Moves, shellAt' = "build", UNCHANGED <<base, currentRun>>,
         frames' = frames \/ (frames # <<>> /\ frames' = S!Below),
         Len(frames') + 1 + Waiting' <= lines, ~Minded,
         start' \in Owed, start'.kind \in {"settle", "answer"} => start'.run = currentRun,
         start'.kind = "continue" => currentRun # NoRun
  PROVE  ShellInv'
<1>1. frames' \in Seq(Frames) /\ (frames' # <<>> => frames # <<>>)
  BY Innermost DEF ShellInv, ShellTyped
<1>2. ShellTyped'
  BY <1>1, Moved DEF ShellInv, Moves, ShellTyped
<1>3. Nested' /\ HasRun' /\ Starting' /\ Expected' /\ Stored' /\ Watched'
  BY <1>1, Moved DEF ShellInv, Nested, HasRun, Starting, Expected, Stored, Watched
<1>4. Opened'
  BY <1>1, Moved, ShellConstants DEF Opened, Moves, ShellInv, ShellTyped
<1> QED BY <1>2, <1>3, <1>4, Moved DEF ShellInv

\* A watch is opened: by the user for a Run of any process, or for the owner just started.
LEMMA Attaches ==
  ASSUME ShellInv, Moves, NEW r \in Runs, S!Watch(r, FALSE, FALSE), UNCHANGED start,
         currentRun' = r, ~Minded, queue # S!NoLine, queue' = S!NoLine
  PROVE  ShellInv'
<1>1. /\ frames' \in Seq(Frames) /\ frames' # <<>> /\ Len(frames') = Len(frames) + 1
      /\ S!Top' = [run |-> r, own |-> FALSE, gives |-> FALSE, seen |-> "absent"]
      /\ shellAt' = "watch" /\ base' = base
  BY Opens DEF ShellInv, ShellTyped
<1>2. ShellTyped'
  BY <1>1, Moved DEF ShellInv, Moves, ShellTyped
<1>3. Nested' /\ HasRun' /\ Starting' /\ Expected' /\ Stored' /\ Watched'
  BY <1>1, Moved, ShellConstants DEF ShellInv, Nested, HasRun, Starting, Expected, Stored, Watched
<1>4. Opened'
  <2>1. Len(frames) \in Nat /\ lines \in Nat
    BY ShellConstants DEF ShellInv, ShellTyped
  <2>2. Len(frames) + (IF shellAt \in {"ask", "build"} THEN 1 ELSE 0) + 1 <= lines
    BY DEF ShellInv, Opened, Waiting
  <2>3. Len(frames') + 0 + 0 <= lines
    BY <1>1, <2>1, <2>2
  <2>4. Waiting' = 0 /\ lines' = lines
    BY DEF Waiting, Moves
  <2> QED BY <1>1, <2>3, <2>4, Moved DEF Opened
<1> QED BY <1>2, <1>3, <1>4, Moved DEF ShellInv

\* An owner starts, and its watch opens.
LEMMA StartOwnerKeeps ==
  ASSUME ShellInv, S!StartOwner
  PROVE  ShellInv'
<1>1. /\ shellAt = "build" /\ ~S!Active
      /\ runner' = [run |-> start.run, at |-> "begin", failed |-> FALSE,
                    call |-> IF start.kind = "settle" THEN "resume" ELSE start.kind]
      /\ currentRun' = IF start.kind \in {"run", "resume"} THEN start.run ELSE currentRun
      /\ S!Watch(start.run, TRUE, start.gives)
      /\ UNCHANGED <<status, interrupts, foreign, exiting, correcting, queue, reader, lines, signals>>
  BY DEF S!StartOwner, S!storeVars, S!inputVars
<1>2. /\ start.kind \in {"run", "resume", "settle", "answer", "continue"}
      /\ start.run \in Runs /\ start.gives \in BOOLEAN
      /\ start.kind \in {"settle", "answer"} => start.run = currentRun
      /\ start.kind = "continue" => currentRun # NoRun
  BY <1>1 DEF ShellInv, Starting, Owed
<1>3. /\ frames' \in Seq(Frames) /\ frames' # <<>> /\ Len(frames') = Len(frames) + 1
      /\ S!Top' = [run |-> start.run, own |-> TRUE, gives |-> start.gives, seen |-> "absent"]
      /\ shellAt' = "watch" /\ base' = base
  BY <1>1, <1>2, Opens DEF ShellInv, ShellTyped
<1>4. /\ runner' \in Owners /\ runner'.run = start.run /\ runner'.at = "begin"
      /\ runner'.call = IF start.kind = "settle" THEN "resume" ELSE start.kind
  BY <1>1, <1>2 DEF Owners
<1>5. currentRun' \in Runs /\ (start.kind # "continue" => currentRun' = start.run)
  BY <1>1, <1>2, ShellConstants DEF ShellInv, ShellTyped
<1>6. ShellTyped'
  BY <1>1, <1>3, <1>4, <1>5 DEF ShellInv, ShellTyped
<1>7. Nested' /\ HasRun' /\ Starting' /\ Expected' /\ Stored'
  BY <1>2, <1>3, <1>4, <1>5, ShellConstants
     DEF ShellInv, Nested, HasRun, Starting, Expected, Stored
<1>8. Running' /\ OwnsCurrent' /\ Watched'
  BY <1>1, <1>2, <1>3, <1>4, <1>5 DEF ShellInv, Running, OwnsCurrent, Watched
<1>9. Opened'
  <2>1. Len(frames) \in Nat /\ lines \in Nat /\ Waiting \in {0, 1}
    BY ShellConstants DEF ShellInv, ShellTyped, Waiting
  <2>2. Len(frames) + 1 + Waiting <= lines
    BY <1>1 DEF ShellInv, Opened
  <2>3. Waiting' = Waiting /\ lines' = lines
    BY <1>1 DEF Waiting
  <2>4. Len(frames') + 0 + Waiting' <= lines' /\ 1 + Waiting' <= lines'
    BY <1>3, <2>1, <2>2, <2>3
  <2> QED BY <1>3, <2>4 DEF Opened
<1> QED BY <1>6, <1>7, <1>8, <1>9 DEF ShellInv

\* The innermost watch is over, and it was not the one of an owner that works.
LEMMA Closes ==
  ASSUME ShellInv, Moves, frames # <<>>, frames' = S!Below, ~Minded, UNCHANGED <<start, currentRun>>,
         \/ /\ base' = IF S!Below = <<>> /\ base = "rewatch" THEN "dispatch" ELSE base
            /\ shellAt' = IF S!Below # <<>> THEN "check"
                          ELSE CASE base = "handler" -> "rewatch"
                                 [] base = "rewatch" -> "prompt"
                                 [] OTHER -> IF S!Top.gives /\ exiting THEN "exited" ELSE "prompt"
         \/ /\ base' = base
            /\ shellAt' = IF S!Below # <<>> THEN "check"
                          ELSE IF base = "dispatch" THEN "prompt" ELSE "crashed"
  PROVE  ShellInv'
<1>1. frames' \in Seq(Frames) /\ Len(frames') = Len(frames) - 1 /\ Len(frames) \in Nat
  BY Innermost DEF ShellInv, ShellTyped
<1>2. shellAt' \in {"check", "rewatch", "prompt", "exited", "crashed"}
  OBVIOUS
<1>3. ShellTyped'
  BY <1>1, <1>2, Moved DEF ShellInv, Moves, ShellTyped
<1>4. Nested'
  BY DEF ShellInv, ShellTyped, Nested
<1>5. HasRun' /\ Starting' /\ Expected' /\ Stored' /\ Watched'
  BY <1>2, Moved DEF ShellInv, HasRun, Starting, Expected, Stored, Watched
<1>6. Opened'
  <2>1. lines \in Nat /\ lines' = lines /\ Waiting \in {0, 1}
    BY ShellConstants DEF ShellInv, ShellTyped, Moves, Waiting
  <2>2. Len(frames) + (IF shellAt \in {"ask", "build"} THEN 1 ELSE 0) + Waiting <= lines
    BY DEF ShellInv, Opened
  <2>3. Len(frames') + 0 + Waiting' <= lines'
    BY <1>1, <2>1, <2>2, Moved
  <2> QED BY <1>2, <2>1, <2>3, Moved DEF Opened
<1> QED BY <1>3, <1>4, <1>5, <1>6, Moved DEF ShellInv

-----------------------------------------------------------------------------
(* The commands *)

\* What is known when a line of the user is dispatched.
LEMMA AtDispatch ==
  ASSUME ShellInv, shellAt \in {"prompt", "line"}, queue # S!NoLine, queue' = S!NoLine,
         UNCHANGED lines
  PROVE  /\ Len(frames) \in Nat /\ lines \in Nat
         /\ Len(frames) + 1 + Waiting' <= lines
         /\ shellAt = "prompt" => ~Minded
         /\ frames = <<>> => base = "dispatch"
         /\ S!Settled \in {"prompt", "check"}
<1>1. Len(frames) \in Nat /\ lines \in Nat
  BY ShellConstants DEF ShellInv, ShellTyped
<1>2. Len(frames) + 0 + 1 <= lines /\ Waiting' = 0
  BY DEF ShellInv, Opened, Waiting
<1>3. shellAt = "prompt" => ~Minded
  BY DEF ShellInv, Watched
<1>4. frames = <<>> => base = "dispatch"
  BY DEF ShellInv, Nested
<1>5. S!Settled \in {"prompt", "check"}
  BY <1>4 DEF S!Settled
<1> QED BY <1>1, <1>2, <1>3, <1>4, <1>5

\* Nobody is watched over who is not active.
LEMMA IdleUnminded == ~S!Active => ~Minded
BY DEF S!Active, S!Working, Minded

\* A command that fails, or that is done at once, goes back to where it was typed.
LEMMA GoesBack ==
  ASSUME ShellInv, Moves, shellAt \in {"prompt", "line"}, queue # S!NoLine, queue' = S!NoLine,
         S!Fail \/ S!Back
  PROVE  ShellInv'
<1>1. UNCHANGED lines
  BY DEF Moves
<1>2. shellAt' = S!Settled /\ UNCHANGED <<base, frames, start>>
      /\ (frames = <<>> => base \in {"dispatch", "handler"})
  BY <1>1, AtDispatch DEF S!Fail, S!Back
<1> QED BY <1>2, Settles

\* A line of the user is dispatched.
LEMMA DispatchKeeps ==
  ASSUME ShellInv, shellAt \in {"prompt", "line"}, queue \in S!Lines, S!TakeLine,
         S!Dispatch(queue)
  PROVE  ShellInv'
<1>0. /\ queue # S!NoLine /\ queue' = S!NoLine /\ UNCHANGED <<lines, signals>>
      /\ interrupts \in [Runs -> BOOLEAN] /\ exiting \in BOOLEAN /\ correcting \in BOOLEAN
      /\ reader \in {"reading", "stopped", "ended"} /\ currentRun \in Runs \union {NoRun}
      /\ queue.do \in {"run", "resume", "attach", "show"} => queue.run \in Runs
  BY ShellConstants DEF ShellInv, ShellTyped, S!TakeLine
<1> USE DEF S!Unchanged, S!storeVars, S!flagVars
<1>1. CASE S!Quit(queue)
  <2>1. CASE S!Active
    BY <1>0, <1>1, <2>1, GoesBack DEF S!Quit, Moves
  <2>2. CASE ~S!Active
    <3>1. /\ Moves /\ UNCHANGED <<base, frames, start>>
          /\ shellAt' = IF frames = <<>> THEN "exited" ELSE "check"
      BY <1>0, <1>1, <2>2 DEF S!Quit, Moves
    <3>2. ~Minded
      BY <2>2, IdleUnminded
    <3> QED BY <3>1, <3>2, Settles DEF S!Settled
  <2> QED BY <2>1, <2>2
<1>2. CASE S!Advance(queue) /\ UNCHANGED reader
  <2>1. CASE S!Fail /\ S!Unchanged
    BY <1>0, <1>2, <2>1, GoesBack DEF Moves
  <2>2. CASE ~S!Active /\ S!Build(queue.do, queue.run, TRUE) /\ S!Unchanged
    <3>1. queue.do \in {"run", "resume"}
      BY <1>2 DEF S!Advance
    <3>2. /\ Moves /\ shellAt' = "build" /\ UNCHANGED <<base, frames, currentRun>>
          /\ start' = [kind |-> queue.do, run |-> queue.run, gives |-> TRUE] /\ start' \in Owed
      BY <1>0, <1>2, <2>2, <3>1 DEF S!Build, Moves, Owed
    <3>3. Len(frames') + 1 + Waiting' <= lines /\ ~Minded
      BY <1>0, <2>2, <3>2, AtDispatch, IdleUnminded
    <3> QED BY <3>1, <3>2, <3>3, Builds
  <2> QED BY <1>2, <2>1, <2>2 DEF S!Advance
<1>3. CASE S!Answer(queue) /\ UNCHANGED reader
  <2>1. CASE S!Fail
    BY <1>0, <1>3, <2>1, GoesBack DEF Moves, S!Answer
  <2>2. CASE ~S!Active /\ currentRun # NoRun /\ shellAt' = "ask" /\ UNCHANGED <<base, frames, start>>
    <3>1. Moves
      BY <1>0, <1>3 DEF Moves, S!Answer
    <3>2. Len(frames) + 1 + Waiting' <= lines /\ ~Minded /\ (frames = <<>> => base = "dispatch")
      BY <1>0, <2>2, AtDispatch, IdleUnminded
    <3>3. ShellTyped' /\ Opened'
      BY <2>2, <3>1, <3>2, Moved DEF ShellInv, ShellTyped, Moves, Opened
    <3>4. Nested' /\ HasRun' /\ Starting' /\ Expected' /\ Stored' /\ Watched'
      BY <2>2, <3>1, <3>2, Moved DEF ShellInv, Nested, HasRun, Starting, Expected, Stored, Watched
    <3> QED BY <3>1, <3>3, <3>4, Moved DEF ShellInv
  <2> QED BY <1>3, <2>1, <2>2 DEF S!Answer
<1>4. CASE S!Attach(queue) /\ UNCHANGED reader
  <2>0. queue.run \in Runs
    BY <1>0, <1>4 DEF S!Attach
  <2>1. CASE S!Fail /\ UNCHANGED currentRun
    BY <1>0, <1>4, <2>1, GoesBack DEF Moves, S!Attach
  <2>2. CASE ~S!Active /\ S!Watch(queue.run, FALSE, FALSE) /\ currentRun' = queue.run /\ UNCHANGED start
    <3>1. Moves /\ ~Minded
      BY <1>0, <1>4, <2>0, <2>2, IdleUnminded DEF Moves, S!Attach
    <3> QED BY <1>0, <2>0, <2>2, <3>1, Attaches
  <2> QED BY <1>4, <2>1, <2>2 DEF S!Attach
<1>5. CASE S!Show(queue) /\ UNCHANGED reader
  <2>1. queue.run \in Runs /\ (S!Fail \/ S!Back)
        /\ (currentRun' = currentRun \/ (~S!Active /\ currentRun' = queue.run))
        /\ UNCHANGED <<status, interrupts, foreign, runner, exiting, correcting>>
    BY <1>0, <1>5 DEF S!Show
  <2>2. Moves
    BY <1>0, <1>5, <2>1 DEF Moves
  <2> QED BY <1>0, <2>1, <2>2, GoesBack
<1>6. CASE S!Control(queue) /\ UNCHANGED reader
  <2>1. CASE (S!Fail \/ S!Back) /\ S!Unchanged
    BY <1>0, <1>6, <2>1, GoesBack DEF Moves
  <2>2. CASE S!CanControl /\ S!RequestInterrupt(queue.do = "correct")
    <3>1. currentRun \in Runs
      BY <1>0, <2>2 DEF S!CanControl
    <3>2. Moves /\ UNCHANGED currentRun
      BY <1>0, <1>6, <2>2, <3>1 DEF Moves, S!RequestInterrupt
    <3>3. CASE S!Back
      BY <1>0, <3>2, <3>3, GoesBack
    <3>4. CASE ~S!Active /\ S!Build("settle", currentRun, FALSE)
      <4>1. /\ shellAt' = "build" /\ UNCHANGED <<base, frames>>
            /\ start' = [kind |-> "settle", run |-> currentRun, gives |-> FALSE] /\ start' \in Owed
        BY <3>1, <3>4 DEF S!Build, Owed
      <4>2. Len(frames') + 1 + Waiting' <= lines /\ ~Minded
        BY <1>0, <3>4, <4>1, AtDispatch, IdleUnminded
      <4> QED BY <3>1, <3>2, <4>1, <4>2, Builds
    <3> QED BY <2>2, <3>3, <3>4 DEF S!RequestInterrupt
  <2> QED BY <1>6, <2>1, <2>2 DEF S!Control
<1> QED BY <1>1, <1>2, <1>3, <1>4, <1>5, <1>6 DEF S!Dispatch

-----------------------------------------------------------------------------
(* The steps of the main thread *)

\* The line taken is one of the user, or the end of input.
LEMMA Taken ==
  ASSUME ShellInv, S!TakeLine
  PROVE  /\ queue # S!NoLine /\ queue' = S!NoLine /\ UNCHANGED <<lines, signals>>
         /\ queue # S!Eof => queue \in S!Lines
BY DEF ShellInv, ShellTyped, S!TakeLine

\* At the prompt the line is dispatched, and the end of input ends the shell.
LEMMA AtPromptKeeps == ASSUME ShellInv, S!AtPrompt PROVE ShellInv'
<1>1. shellAt = "prompt" /\ S!TakeLine
  BY DEF S!AtPrompt
<1>2. CASE queue = S!Eof
  <2>1. /\ Moves /\ shellAt' = "exited" /\ UNCHANGED <<base, frames, start>>
    BY <1>1, <1>2, Taken DEF S!AtPrompt, S!Unchanged, S!storeVars, S!flagVars, Moves, ShellInv, ShellTyped
  <2>2. frames = <<>> /\ ~Minded
    BY <1>1 DEF ShellInv, Nested, Watched
  <2> QED BY <1>1, <2>1, <2>2, Settles
<1>3. CASE queue # S!Eof
  BY <1>1, <1>3, Taken, DispatchKeeps DEF S!AtPrompt
<1> QED BY <1>2, <1>3

\* A line typed in a watch is dispatched inside it.
LEMMA WatchLineKeeps == ASSUME ShellInv, S!WatchLine PROVE ShellInv'
BY Taken, DispatchKeeps DEF S!WatchLine

\* The question for a field is answered, interrupted, or left without an answer.
LEMMA AskAnswerKeeps == ASSUME ShellInv, S!AskAnswer PROVE ShellInv'
<1>1. /\ shellAt = "ask" /\ S!TakeLine /\ UNCHANGED reader /\ S!Unchanged /\ ~S!Active
      /\ currentRun \in Runs
  BY DEF S!AskAnswer, ShellInv, Expected, HasRun, ShellTyped
<1>2. Moves /\ UNCHANGED currentRun
  BY <1>1, Taken DEF S!Unchanged, S!storeVars, S!flagVars, Moves, ShellInv, ShellTyped
<1>3. CASE S!Fail
  <2>1. frames = <<>> => base = "dispatch"
    BY <1>1 DEF ShellInv, Nested
  <2> QED BY <1>1, <1>2, <1>3, <2>1, Settles, IdleUnminded DEF S!Fail
<1>4. CASE shellAt' = "handle" /\ base' = "handler" /\ frames' = <<>> /\ UNCHANGED start
  <2>1. ShellTyped' /\ Nested' /\ HasRun' /\ Starting' /\ Stored' /\ Watched'
    BY <1>2, <1>4, Moved
       DEF ShellInv, ShellTyped, Moves, Nested, HasRun, Starting, Stored, Watched
  <2>2. Expected'
    BY <1>1, <1>2, <1>4, Moved DEF Expected
  <2>3. Opened'
    <3>1. Len(frames') = 0 /\ lines' = lines /\ lines \in Nat
      BY <1>2, <1>4, ShellConstants DEF ShellInv, ShellTyped, Moves
    <3>2. 1 + Waiting' <= lines
      BY <1>1, <1>2, Moved, ShellConstants
    <3> QED BY <1>4, <3>1, <3>2, Moved, <1>2 DEF Opened
  <2> QED BY <1>2, <2>1, <2>2, <2>3, Moved DEF ShellInv
<1>5. CASE S!Build("answer", currentRun, TRUE)
  <2>1. /\ shellAt' = "build" /\ UNCHANGED <<base, frames>>
        /\ start' = [kind |-> "answer", run |-> currentRun, gives |-> TRUE] /\ start' \in Owed
    BY <1>1, <1>5 DEF S!Build, Owed
  <2>2. Len(frames') + 1 + Waiting' <= lines
    <3>1. Len(frames) \in Nat /\ lines \in Nat /\ Waiting \in {0, 1}
      BY ShellConstants DEF ShellInv, ShellTyped, Waiting
    <3>2. Len(frames) + 1 + Waiting <= lines
      BY <1>1 DEF ShellInv, Opened
    <3> QED BY <1>2, <2>1, <3>1, <3>2, Moved
  <2> QED BY <1>1, <1>2, <2>1, <2>2, Builds, IdleUnminded
<1> QED BY <1>3, <1>4, <1>5 DEF S!AskAnswer

\* The application for an owner is not built: the command fails.
LEMMA StartFailsKeeps == ASSUME ShellInv, S!StartFails PROVE ShellInv'
<1>1. /\ shellAt = "build" /\ S!Fail /\ Moves /\ ~Minded
  BY DEF S!StartFails, S!storeVars, S!flagVars, S!inputVars, Moves, ShellInv, ShellTyped, Watched
<1> QED BY <1>1, Settles DEF S!Fail

\* The innermost watch reads its Run.
LEMMA PollKeeps == ASSUME ShellInv, S!Poll PROVE ShellInv'
<1>1. /\ shellAt = "watch" /\ shellAt' = "line" /\ Moves /\ UNCHANGED <<base, start, queue, signals, currentRun>>
      /\ frames' = [frames EXCEPT ![Len(frames)].seen = status[S!Top.run]]
  BY DEF S!Poll, S!storeVars, S!flagVars, S!inputVars, Moves, ShellInv, ShellTyped
<1>2. frames \in Seq(Frames) /\ frames # <<>> /\ status \in [Runs -> S!Statuses]
  BY <1>1 DEF ShellInv, Nested, ShellTyped
<1>3. S!Top \in Frames /\ Len(frames) \in Nat /\ Len(frames) >= 1
  BY <1>2, Innermost
<1> DEFINE top == [S!Top EXCEPT !.seen = status[S!Top.run]]
<1>4. top \in Frames
  BY <1>2, <1>3 DEF Frames
<1>5. frames' = [frames EXCEPT ![Len(frames)] = top]
  BY <1>1 DEF S!Top
<1>6. frames' \in Seq(Frames) /\ Len(frames') = Len(frames) /\ frames' # <<>>
      /\ frames'[Len(frames)] = top
  BY <1>2, <1>3, <1>4, <1>5
<1>7. S!Top' = top
  BY <1>6 DEF S!Top
<1>8. top.own = S!Top.own /\ top.run = S!Top.run /\ top.seen = status[S!Top.run]
  BY <1>3 DEF Frames
<1>9. ShellTyped' /\ Nested' /\ HasRun' /\ Starting' /\ Expected'
  BY <1>1, <1>2, <1>6, Moved DEF ShellInv, ShellTyped, Moves, Nested, HasRun, Starting, Expected
<1>10. Opened'
  BY <1>1, <1>6 DEF ShellInv, Opened, Waiting, Moves
<1>11. Stored' /\ Watched'
  BY <1>1, <1>7, <1>8, Moved DEF ShellInv, Stored, Watched, Moves
<1> QED BY <1>1, <1>9, <1>10, <1>11, Moved DEF ShellInv

\* No line came.
LEMMA NoInputKeeps == ASSUME ShellInv, S!NoInput PROVE ShellInv'
<1>1. /\ shellAt = "line" /\ shellAt' = "check" /\ Moves /\ UNCHANGED <<base, frames, start>>
  BY DEF S!NoInput, S!storeVars, S!flagVars, S!inputVars, Moves, ShellInv, ShellTyped
<1>2. frames # <<>>
  BY <1>1 DEF ShellInv, Nested
<1> QED BY <1>1, <1>2, Settles DEF S!Settled


\* The end of input does not end the watch of an owner that is minded: its Run is the
\* current one and can be asked to stop.
LEMMA WatchEofKeeps == ASSUME ShellInv, S!WatchEof PROVE ShellInv'
<1>1. /\ shellAt = "line" /\ S!TakeLine /\ UNCHANGED <<status, foreign, runner, currentRun, reader>>
      /\ queue # S!NoLine /\ queue' = S!NoLine /\ UNCHANGED <<lines, signals>>
      /\ frames # <<>> /\ exiting' = TRUE
  BY Taken DEF S!WatchEof, ShellInv, Nested
<1>2. Moves
  BY <1>1 DEF S!WatchEof, Moves, ShellInv, ShellTyped
<1>3. currentRun \in Runs
  BY <1>1 DEF ShellInv, HasRun, ShellTyped
<1>4. CASE shellAt' = "check" /\ UNCHANGED <<base, frames, start>>
  BY <1>1, <1>2, <1>4, Settles DEF S!Settled
<1>5. CASE S!Top.seen = "running" /\ ~S!CanControl /\ S!Raise
  <2>1. ~Minded
    <3> SUFFICES ASSUME Minded PROVE FALSE
      OBVIOUS
    <3>1. S!Top.run = runner.run /\ currentRun = runner.run
      BY <1>1 DEF ShellInv, Watched, Minded, OwnsCurrent, S!Working
    <3>2. status[currentRun] \notin {"absent", "ended"}
      BY <1>1, <1>5, <3>1 DEF ShellInv, Stored, Running, Minded
    <3>3. status[currentRun] \in S!Statuses
      BY <1>3 DEF ShellInv, ShellTyped
    <3> QED BY <1>3, <1>5, <3>2, <3>3, ShellConstants DEF S!CanControl, S!Statuses
  <2> QED BY <1>1, <1>2, <1>5, <2>1, Closes DEF S!Raise
<1>6. CASE S!Back
  BY <1>1, <1>2, <1>6, Settles DEF S!Back
<1>7. CASE ~S!Active /\ S!Build("settle", currentRun, FALSE)
  <2>1. /\ shellAt' = "build" /\ UNCHANGED <<base, frames>>
        /\ start' = [kind |-> "settle", run |-> currentRun, gives |-> FALSE] /\ start' \in Owed
    BY <1>3, <1>7 DEF S!Build, Owed
  <2>2. Len(frames') + 1 + Waiting' <= lines /\ ~Minded
    BY <1>1, <1>7, <2>1, AtDispatch, IdleUnminded
  <2> QED BY <1>1, <1>2, <1>3, <2>1, <2>2, Builds
<1> QED BY <1>4, <1>5, <1>6, <1>7 DEF S!WatchEof

\* The watch of a Run that stopped: the Run is continued, or the watch is over.
LEMMA StoppedKeeps ==
  ASSUME ShellInv, Moves, shellAt = "check", ~Minded, UNCHANGED <<currentRun, queue>>,
         NEW r \in Runs, NEW finish, S!Stopped(r, finish)
  PROVE  ShellInv'
<1>1. frames # <<>> /\ frames \in Seq(Frames)
  BY DEF ShellInv, Nested, ShellTyped
<1>2. CASE S!Return
  BY <1>1, <1>2, Closes DEF S!Return
<1>3. CASE /\ shellAt' = "build" /\ frames' = S!Below /\ UNCHANGED base
           /\ start' = [kind |-> "continue", run |-> r, gives |-> S!Top.gives]
  <2>1. start' \in Owed /\ currentRun # NoRun
    BY <1>1, <1>3, Innermost DEF Owed, Frames, ShellInv, HasRun
  <2>2. Len(frames') + 1 + Waiting' <= lines
    <3>1. Len(frames) + 0 + Waiting <= lines /\ lines \in Nat
      BY ShellConstants DEF ShellInv, Opened, ShellTyped
    <3>2. Len(frames') = Len(frames) - 1 /\ Len(frames) \in Nat
      BY <1>1, <1>3, Innermost
    <3>3. Waiting' = Waiting /\ Waiting \in {0, 1}
      BY DEF Waiting
    <3> QED BY <3>1, <3>2, <3>3
  <2> QED BY <1>1, <1>3, <2>1, <2>2, Builds
<1> QED BY <1>2, <1>3 DEF S!Stopped

\* The watch of the owner goes on until it is done.
LEMMA WatchOwnKeeps == ASSUME ShellInv, S!WatchOwn PROVE ShellInv'
<1>1. /\ shellAt = "check" /\ UNCHANGED <<currentRun, queue, lines, signals>> /\ frames # <<>>
      /\ UNCHANGED <<status, interrupts, foreign, runner, exiting, reader>>
  BY DEF S!WatchOwn, S!storeVars, S!inputVars, ShellInv, Nested
<1>2. Moves
  BY <1>1 DEF S!WatchOwn, S!Stopped, Moves, ShellInv, ShellTyped
<1>3. CASE ~S!Done
  BY <1>1, <1>2, <1>3, Settles DEF S!WatchOwn
<1>4. CASE S!Done
  <2>1. ~Minded /\ runner.run \in Runs
    BY <1>4 DEF S!Done, Minded, ShellInv, HasRun
  <2>2. CASE S!Raise
    BY <1>1, <1>2, <2>1, <2>2, Closes DEF S!Raise
  <2>3. CASE S!Stopped(runner.run, status[runner.run])
    BY <1>1, <1>2, <2>1, <2>3, StoppedKeeps
  <2> QED BY <1>4, <2>2, <2>3 DEF S!WatchOwn
<1> QED BY <1>3, <1>4

\* A watch of a Run of another process ends with the Run, and was not the owner's.
LEMMA WatchOtherKeeps == ASSUME ShellInv, S!WatchOther PROVE ShellInv'
<1>1. /\ shellAt = "check" /\ UNCHANGED <<currentRun, queue, lines, signals>> /\ frames # <<>>
      /\ UNCHANGED <<status, interrupts, foreign, runner, exiting, reader>> /\ ~S!Top.own
  BY DEF S!WatchOther, S!storeVars, S!inputVars, ShellInv, Nested
<1>2. Moves
  BY <1>1 DEF S!WatchOther, S!Stopped, Moves, ShellInv, ShellTyped
<1>3. ~Minded
  BY <1>1 DEF ShellInv, Watched
<1>4. S!Top.run \in Runs
  BY <1>1, Innermost DEF ShellInv, ShellTyped, Frames
<1>5. CASE S!Stopped(S!Top.run, S!Top.seen)
  BY <1>1, <1>2, <1>3, <1>4, <1>5, StoppedKeeps
<1>6. CASE shellAt' = "watch" /\ UNCHANGED <<base, frames, start>>
  BY <1>1, <1>2, <1>6, Settles
<1> QED BY <1>5, <1>6 DEF S!WatchOther

\* Ctrl-C leads to the handler, or out of the shell.
LEMMA SignalKeeps == ASSUME ShellInv, S!Signal PROVE ShellInv'
<1>1. /\ UNCHANGED <<status, interrupts, foreign, runner, currentRun, exiting, correcting, queue,
                     reader, lines>>
      /\ signals' = signals + 1 /\ signals' > 0 /\ signals' \in Nat
  BY DEF S!Signal, S!storeVars, S!flagVars, ShellInv, ShellTyped
<1>2. Moves
  BY <1>1 DEF Moves, ShellInv, ShellTyped
<1>3. CASE UNCHANGED <<shellAt, base, frames, start>>
  <2>1. S!Top' = S!Top /\ Waiting' = Waiting
    BY <1>1, <1>3 DEF S!Top, Waiting
  <2>2. ShellTyped' /\ Nested' /\ Opened' /\ HasRun' /\ Starting'
    BY <1>1, <1>3, <2>1 DEF ShellInv, ShellTyped, Nested, Opened, HasRun, Starting
  <2>3. Expected' /\ Stored' /\ Watched'
    BY <1>1, <1>2, <1>3, <2>1, Moved DEF ShellInv, Expected, Stored, Watched
  <2> QED BY <1>2, <2>2, <2>3, Moved DEF ShellInv
<1>4. CASE shellAt' = "crashed" /\ UNCHANGED <<base, frames, start>>
  <2>1. ShellTyped' /\ Nested' /\ HasRun' /\ Starting' /\ Expected' /\ Stored' /\ Watched'
    BY <1>1, <1>2, <1>4, Moved
       DEF ShellInv, ShellTyped, Nested, HasRun, Starting, Expected, Stored, Watched
  <2>2. Opened'
    <3>1. Len(frames) + (IF shellAt \in {"ask", "build"} THEN 1 ELSE 0) + Waiting <= lines
          /\ Len(frames) \in Nat /\ lines \in Nat
      BY ShellConstants DEF ShellInv, Opened, ShellTyped
    <3>2. Waiting' = Waiting /\ Waiting \in {0, 1}
      BY <1>1 DEF Waiting
    <3>3. Len(frames) + 0 + Waiting <= lines
      BY <3>1, <3>2
    <3> QED BY <1>1, <1>2, <1>4, <3>2, <3>3, Moved DEF Opened
  <2> QED BY <1>2, <2>1, <2>2, Moved DEF ShellInv
<1>5. CASE shellAt' = "handle" /\ base' = "handler" /\ frames' = <<>> /\ UNCHANGED start
  <2>1. ShellTyped' /\ Nested' /\ HasRun' /\ Starting' /\ Expected' /\ Stored' /\ Watched'
    BY <1>1, <1>2, <1>5, Moved
       DEF ShellInv, ShellTyped, Nested, HasRun, Starting, Expected, Stored, Watched
  <2>2. Opened'
    <3>1. Len(frames) + (IF shellAt \in {"ask", "build"} THEN 1 ELSE 0) + Waiting <= lines
          /\ Len(frames) \in Nat /\ lines \in Nat
      BY ShellConstants DEF ShellInv, Opened, ShellTyped
    <3>2. Waiting' = Waiting /\ Waiting \in {0, 1} /\ Len(frames') = 0
      BY <1>1, <1>5 DEF Waiting
    <3>3. 0 + 0 + Waiting <= lines
      BY <3>1, <3>2
    <3> QED BY <1>1, <1>2, <1>5, <3>2, <3>3, Moved DEF Opened
  <2> QED BY <1>2, <2>1, <2>2, Moved DEF ShellInv
<1> QED BY <1>3, <1>4, <1>5 DEF S!Signal, S!mainVars

\* The handler asks the current Run to stop, returns to the prompt, or ends the shell.
LEMMA HandleKeeps == ASSUME ShellInv, S!Handle PROVE ShellInv'
<1>1. /\ shellAt = "handle" /\ UNCHANGED <<queue, reader, lines, signals>>
      /\ base = "handler" /\ frames = <<>>
  BY DEF S!Handle, S!inputVars, ShellInv, Nested
<1>2. Minded => S!Active /\ signals > 0
  BY <1>1 DEF Minded, S!Active, S!Working, ShellInv, Expected
<1>3. CASE /\ currentRun = NoRun /\ shellAt' = "prompt" /\ base' = "dispatch"
           /\ UNCHANGED <<frames, start>> /\ S!Unchanged
  <2>1. Moves /\ ~Minded
    BY <1>1, <1>3 DEF Moves, S!Unchanged, S!storeVars, S!flagVars, ShellInv, ShellTyped, HasRun, Minded
  <2>2. ShellTyped' /\ Nested' /\ HasRun' /\ Starting' /\ Expected' /\ Stored' /\ Watched'
    BY <1>1, <1>3, <2>1, Moved
       DEF ShellInv, ShellTyped, Moves, Nested, HasRun, Starting, Expected, Stored, Watched
  <2>3. Opened'
    BY <1>1, <1>3, <2>1, Moved DEF ShellInv, Opened, Moves, Waiting
  <2> QED BY <2>1, <2>2, <2>3, Moved DEF ShellInv
<1>4. CASE S!Fail /\ S!Unchanged
  <2>1. /\ Moves /\ shellAt' = "crashed" /\ UNCHANGED <<base, frames, start>>
    BY <1>1, <1>4 DEF S!Fail, Moves, S!Unchanged, S!storeVars, S!flagVars, ShellInv, ShellTyped
  <2> QED BY <1>1, <1>2, <2>1, Settles
<1>5. CASE S!CanControl /\ S!RequestInterrupt(FALSE)
  <2>1. currentRun \in Runs /\ UNCHANGED currentRun
    BY <1>5 DEF S!CanControl, S!RequestInterrupt, ShellInv, ShellTyped
  <2>2. Moves
    BY <1>1, <1>5, <2>1 DEF Moves, S!RequestInterrupt, ShellInv, ShellTyped
  <2>3. CASE S!Back
    BY <1>1, <2>2, <2>3, Settles DEF S!Back
  <2>4. CASE ~S!Active /\ S!Build("settle", currentRun, FALSE)
    <3>1. /\ shellAt' = "build" /\ UNCHANGED <<base, frames>>
          /\ start' = [kind |-> "settle", run |-> currentRun, gives |-> FALSE] /\ start' \in Owed
      BY <2>1, <2>4 DEF S!Build, Owed
    <3>2. Len(frames') + 1 + Waiting' <= lines
      <4>1. Len(frames') = 0 /\ lines \in Nat
        BY <1>1, <3>1, ShellConstants DEF ShellInv, ShellTyped
      <4>2. 1 + Waiting' <= lines
        BY <2>1, <2>2, Moved, ShellConstants
      <4> QED BY <2>2, <4>1, <4>2, Moved
    <3> QED BY <1>1, <2>1, <2>2, <2>4, <3>1, <3>2, Builds, IdleUnminded
  <2> QED BY <1>5, <2>3, <2>4 DEF S!RequestInterrupt
<1> QED BY <1>3, <1>4, <1>5 DEF S!Handle

\* After the handler, an owner that is active is watched again.
LEMMA RewatchKeeps == ASSUME ShellInv, S!Rewatch PROVE ShellInv'
<1>1. /\ shellAt = "rewatch" /\ base = "handler" /\ frames = <<>>
      /\ UNCHANGED <<start, currentRun, queue, signals>>
  BY DEF S!Rewatch, S!flagVars, S!inputVars, ShellInv, Nested
<1>2. Moves
  BY DEF S!Rewatch, S!storeVars, S!flagVars, S!inputVars, Moves, ShellInv, ShellTyped
<1>3. CASE S!Active
  <2> DEFINE f == [run |-> currentRun, own |-> TRUE, gives |-> FALSE, seen |-> "absent"]
  <2>1. shellAt' = "watch" /\ base' = "rewatch" /\ frames' = <<f>> /\ currentRun \in Runs
    BY <1>3 DEF S!Rewatch, S!Active, S!Working, ShellInv, HasRun, ShellTyped
  <2>2. f \in Frames
    BY <2>1 DEF Frames, S!Statuses
  <2>3. frames' \in Seq(Frames) /\ Len(frames') = 1 /\ frames' # <<>> /\ frames'[1] = f
    BY <2>1, <2>2
  <2>4. S!Top' = f
    BY <2>3 DEF S!Top
  <2>5. Minded => currentRun = runner.run
    BY DEF Minded, S!Working, ShellInv, OwnsCurrent
  <2>6. ShellTyped' /\ Nested' /\ HasRun' /\ Starting' /\ Expected' /\ Stored' /\ Watched'
    BY <1>1, <1>2, <2>1, <2>3, <2>4, <2>5, Moved, ShellConstants
       DEF ShellInv, ShellTyped, Moves, Nested, HasRun, Starting, Expected, Stored, Watched
  <2>7. Opened'
    <3>1. 1 + Waiting' <= lines /\ lines' = lines
      BY <1>2, <2>1, Moved, ShellConstants DEF Moves
    <3>2. lines \in Nat
      BY ShellConstants DEF ShellInv, ShellTyped
    <3>3. 1 + 0 + Waiting' <= lines'
      BY <1>2, <3>1, <3>2, Moved
    <3> QED BY <1>2, <2>1, <2>3, <3>1, <3>3, Moved DEF Opened
  <2> QED BY <1>2, <2>6, <2>7, Moved DEF ShellInv
<1>4. CASE ~S!Active
  <2>1. shellAt' = "prompt" /\ base' = "dispatch" /\ UNCHANGED frames /\ ~Minded
    BY <1>4, IdleUnminded DEF S!Rewatch
  <2>2. ShellTyped' /\ Nested' /\ HasRun' /\ Starting' /\ Expected' /\ Stored' /\ Watched'
    BY <1>1, <1>2, <2>1, Moved
       DEF ShellInv, ShellTyped, Moves, Nested, HasRun, Starting, Expected, Stored, Watched
  <2>3. Opened'
    BY <1>1, <1>2, <2>1, Moved DEF ShellInv, Opened, Moves, Waiting
  <2> QED BY <1>2, <2>2, <2>3, Moved DEF ShellInv
<1> QED BY <1>3, <1>4

\* A line comes in while none waits.
LEMMA TypeKeeps ==
  ASSUME ShellInv, NEW line \in S!Lines \union {S!Eof}, S!Type(line)
  PROVE  ShellInv'
<1>1. /\ UNCHANGED <<status, interrupts, foreign, runner, shellAt, base, frames, start, currentRun,
                     exiting, correcting, signals>>
      /\ queue = S!NoLine /\ queue' = line /\ line # S!NoLine
      /\ lines < MaxLines /\ lines' = lines + 1 /\ reader' \in {"reading", "stopped", "ended"}
  BY ShellConstants DEF S!Type, S!storeVars, S!mainVars, S!flagVars, ShellInv, ShellTyped
<1>2. S!Top' = S!Top /\ Waiting = 0 /\ Waiting' = 1
  BY <1>1 DEF S!Top, Waiting
<1>3. ShellTyped'
  BY <1>1, ShellConstants DEF ShellInv, ShellTyped
<1>4. Nested' /\ HasRun' /\ Starting' /\ Running'
  BY <1>1 DEF ShellInv, Nested, HasRun, Starting, Running
<1>5. OwnsCurrent' /\ Expected' /\ Stored' /\ Watched'
  BY <1>1, <1>2 DEF ShellInv, OwnsCurrent, S!Working, Expected, S!Active, Stored, Watched, Minded
<1>6. Opened'
  <2>1. Len(frames) \in Nat /\ lines \in Nat
    BY ShellConstants DEF ShellInv, ShellTyped
  <2>2. /\ Len(frames) + (IF shellAt \in {"ask", "build"} THEN 1 ELSE 0) + 0 <= lines
        /\ currentRun # NoRun => 1 + 0 <= lines
    BY <1>2 DEF ShellInv, Opened
  <2>3. /\ Len(frames) + (IF shellAt \in {"ask", "build"} THEN 1 ELSE 0) + 1 <= lines + 1
        /\ currentRun # NoRun => 1 + 1 <= lines + 1
    BY <2>1, <2>2
  <2> QED BY <1>1, <1>2, <2>3 DEF Opened
<1> QED BY <1>3, <1>4, <1>5, <1>6 DEF ShellInv

-----------------------------------------------------------------------------
(* The theorems *)

\* A shell that was just started satisfies the invariant.
LEMMA ShellStarts == S!Init => ShellInv
<1> SUFFICES ASSUME S!Init PROVE ShellInv
  OBVIOUS
<1>1. /\ status \in [Runs -> S!Statuses \ {"ended"}]
      /\ foreign = {r \in Runs : status[r] = "running"} /\ interrupts = [r \in Runs |-> FALSE]
      /\ runner = [run |-> NoRun, call |-> "none", at |-> "none", failed |-> FALSE]
      /\ shellAt = "prompt" /\ base = "dispatch" /\ frames = <<>>
      /\ currentRun = NoRun /\ exiting = FALSE /\ correcting = FALSE
      /\ queue = S!NoLine /\ reader = "reading" /\ lines = 0 /\ signals = 0
  BY DEF S!Init
<1>2. ShellTyped
  <2>1. /\ status \in [Runs -> S!Statuses] /\ interrupts \in [Runs -> BOOLEAN] /\ foreign \subseteq Runs
    BY <1>1
  <2>2. runner \in Owners /\ frames \in Seq(Frames) /\ lines \in 0 .. MaxLines /\ signals \in Nat
    BY <1>1, ShellConstants DEF Owners
  <2> QED BY <1>1, <2>1, <2>2 DEF ShellTyped
<1>3. Nested /\ Opened /\ HasRun /\ Starting
  BY <1>1 DEF Nested, Opened, Waiting, HasRun, Starting
<1>4. Running /\ OwnsCurrent /\ Expected /\ Stored /\ Watched
  BY <1>1 DEF Running, OwnsCurrent, Expected, Stored, Watched, Minded, S!Working, S!Active
<1> QED BY <1>2, <1>3, <1>4 DEF ShellInv

\* Nothing the invariant speaks of is changed by a step that leaves the shell alone.
LEMMA ShellRested == ASSUME ShellInv, UNCHANGED shellVars PROVE ShellInv'
<1>1. ShellTyped'
  BY DEF ShellInv, shellVars, ShellTyped
<1>2. Nested' /\ Opened' /\ HasRun' /\ Starting'
  BY DEF ShellInv, shellVars, Nested, Opened, Waiting, HasRun, Starting
<1>3. Running' /\ OwnsCurrent' /\ Expected' /\ Stored' /\ Watched'
  BY DEF ShellInv, shellVars, Running, OwnsCurrent, Expected, Stored, Watched, Minded,
         S!Working, S!Active, S!Top
<1> QED BY <1>1, <1>2, <1>3 DEF ShellInv

\* Every step of the shell keeps the invariant; of the other parts it says nothing.
LEMMA ShellSteps ==
  ASSUME part = "shell" => ShellInv, [PartsNext]_PartsVars
  PROVE  part' = "shell" => ShellInv'
<1>1. CASE ShellNext
  <2>1. ShellInv
    BY <1>1 DEF ShellNext, Only
  <2>2. CASE \/ S!AtPrompt \/ S!AskAnswer \/ S!StartOwner \/ S!StartFails \/ S!Poll \/ S!NoInput
             \/ S!WatchLine \/ S!WatchEof \/ S!WatchOwn \/ S!WatchOther \/ S!Handle \/ S!Rewatch
             \/ S!Signal
    BY <2>1, <2>2, AtPromptKeeps, AskAnswerKeeps, StartOwnerKeeps, StartFailsKeeps, PollKeeps,
       NoInputKeeps, WatchLineKeeps, WatchEofKeeps, WatchOwnKeeps, WatchOtherKeeps, HandleKeeps,
       RewatchKeeps, SignalKeeps
  <2>3. CASE \/ S!OwnerBegins \/ (\E how \in S!Statuses : S!OwnerStops(how)) \/ S!OwnerBreaks
             \/ S!ThreadEnds \/ (\E r \in Runs, how \in S!Statuses : S!OtherStops(r, how))
    BY <2>1, <2>3, WorldKeeps
  <2>4. CASE \E line \in S!Lines \union {S!Eof} : S!Type(line)
    BY <2>1, <2>4, TypeKeeps
  <2>5. CASE S!Rest
    <3>1. UNCHANGED shellVars
      BY <2>5 DEF S!Rest, S!vars, S!storeVars, S!mainVars, S!flagVars, S!inputVars, shellVars
    <3> QED BY <2>1, <3>1, ShellRested
  <2> QED BY <1>1, <2>2, <2>3, <2>4, <2>5 DEF ShellNext
<1>2. CASE RepositoryNext \/ ProcessNext \/ DeletionNext \/ SearchNext \/ HistoryNext
  BY <1>2 DEF RepositoryNext, ProcessNext, DeletionNext, SearchNext, HistoryNext, Repository,
              Process, Deletion, Searching, History, Only
<1>3. CASE UNCHANGED PartsVars
  <2>1. part' = part /\ UNCHANGED shellVars
    BY <1>3 DEF PartsVars
  <2> QED BY <2>1, ShellRested
<1> QED BY <1>1, <1>2, <1>3 DEF PartsNext

\* The invariant is what is claimed of the shell, and more.
LEMMA ShellInvSound == ShellInv => S!TypeInvariant /\ S!OwnerWatched /\ S!ControlsReachOwner
<1> SUFFICES ASSUME ShellInv PROVE S!TypeInvariant /\ S!OwnerWatched /\ S!ControlsReachOwner
  OBVIOUS
<1>1. S!TypeInvariant
  <2>1. Len(frames) <= MaxLines
    <3>1. Len(frames) \in Nat /\ lines \in 0 .. MaxLines /\ MaxLines \in Nat /\ Waiting \in {0, 1}
      BY ShellConstants DEF ShellInv, ShellTyped, Waiting
    <3>2. Len(frames) + (IF shellAt \in {"ask", "build"} THEN 1 ELSE 0) + Waiting <= lines
      BY DEF ShellInv, Opened
    <3> QED BY <3>1, <3>2
  <2> QED BY <2>1 DEF ShellInv, ShellTyped, Owners, Frames, Nested, S!TypeInvariant
<1>2. S!OwnerWatched
  <2> SUFFICES ASSUME Minded, runner.at = "work"
               PROVE  \/ \E i \in 1 .. Len(frames) : frames[i].own
                      \/ shellAt \in {"handle", "rewatch"} \/ (shellAt = "crashed" /\ signals > 0)
    BY DEF S!OwnerWatched, Minded
  <2>1. CASE shellAt \in {"watch", "line", "check"} /\ S!Top.own
    <3>1. frames \in Seq(Frames) /\ frames # <<>>
      BY <2>1 DEF ShellInv, ShellTyped, Nested
    <3>2. Len(frames) \in 1 .. Len(frames) /\ frames[Len(frames)].own
      BY <2>1, <3>1 DEF S!Top
    <3> QED BY <3>2
  <2> QED BY <2>1 DEF ShellInv, Watched
<1>3. S!ControlsReachOwner
  BY DEF ShellInv, OwnsCurrent, S!ControlsReachOwner
<1> QED BY <1>1, <1>2, <1>3

\* Whatever is typed, and however the owner and the other processes fare: the invariant of
\* the shell holds at every moment.
THEOREM ShellInvariant == PartsSpec => [](part = "shell" => ShellInv)
<1> DEFINE Kept == part = "shell" => ShellInv
<1>1. PartsInit => Kept
  BY ShellStarts DEF PartsInit
<1>2. Kept /\ [PartsNext]_PartsVars => Kept'
  BY ShellSteps
<1> HIDE DEF Kept
<1> QED BY <1>1, <1>2, PTL DEF PartsSpec, Kept

\* However deep commands are typed inside watches, the shell does not lose the one that
\* waits for its owner: a Run it works at is watched, or Ctrl-C was pressed.
THEOREM ShellIsSound == PartsSpec => []ShellSound
<1>1. (part = "shell" => ShellInv) => ShellSound
  BY ShellInvSound DEF ShellSound
<1> QED BY <1>1, ShellInvariant, PTL

\* What is typed in the watch of an owner the user started goes to the Run of that owner.
THEOREM ControlsReach == PartsSpec => []ControlsReachOwner
<1>1. (part = "shell" => ShellInv) => ControlsReachOwner
  BY ShellInvSound DEF ControlsReachOwner
<1> QED BY <1>1, ShellInvariant, PTL

-----------------------------------------------------------------------------
(* Searching literature: what Literature keeps, for every number of threads, sources and  *)
(* attempts.                                                                              *)

\* What the constants of the search are.
LEMMA SearchConstants ==
  /\ Order \in Seq(L!Providers) /\ Order # <<>> /\ "auto" \notin L!Providers
  /\ \A j, k \in 1 .. Len(Order) : Order[j] = Order[k] => j = k
  /\ Interval \in [L!Providers -> Nat] /\ MaxAttempts \in Nat \ {0}
  /\ \A n \in 0 .. MaxAttempts : L!Backoff(n) \in Nat
  /\ Cooldown \in Nat /\ LongRetry \in Nat /\ Deadline \in Nat /\ MaxSearches \in Nat
  /\ NoOne \notin Clients
BY PartsAssumption DEF L!LiteratureAssumption

\* The types, with those of the functions of the clients.
SearchTyped ==
  /\ L!TypeInvariant /\ rest \in [Clients -> Seq(L!Providers)]
  /\ attempts \in [Clients -> L!Told] /\ heard \in [Clients -> L!Told]

\* Who waits at a source, or for its answer, has its lock; the requests at it are theirs.
Holds(c) == clientAt[c] \in {"cool", "space", "sent"}
LockKept ==
  /\ \A c \in Clients : Holds(c) => rest[c] # <<>> /\ owner[L!Source(c)] = c
  /\ \A s \in L!Providers, c \in Clients :
       c \in inFlight[s] <=> clientAt[c] = "sent" /\ L!Source(c) = s

\* The quiet a source asked for is over when its cooldown and its spacing are; both are when
\* a request is made.
QuietKept ==
  /\ \A s \in L!Providers : quietIn[s] <= nextIn[s] \/ quietIn[s] <= coolIn[s]
  /\ \A c \in Clients :
       /\ clientAt[c] \in {"space", "sent"} => coolIn[L!Source(c)] = 0
       /\ clientAt[c] = "sent" => quietIn[L!Source(c)] = 0

\* The requests of a search, told as it heard of them, that were made to a source.
Asked(told, s) == {k \in 1 .. Len(told) : told[k].source = s}
AllFailed(told) == \A k \in 1 .. Len(told) : told[k].status = "unavailable"

\* A search that goes on has had no answer. Each source that is left is left once, and not
\* asked yet; for "auto", each source is left, or has failed.
Trying(wants, left, said, told) ==
  /\ left # <<>> /\ AllFailed(said) /\ AllFailed(told)
  /\ \A j, k \in 1 .. Len(left) : left[j] = left[k] => j = k
  /\ \A k \in 2 .. Len(left) : Asked(told, left[k]) = {}
  /\ wants = "auto" => \A s \in L!Providers :
       \/ \E k \in 1 .. Len(said) : said[k].source = s
       \/ \E k \in 1 .. Len(left) : left[k] = s

\* A search that ended says what it was told.
Settled(wants, said, how, told) ==
  /\ how = "success" =>
       /\ told # <<>> /\ said # <<>>
       /\ told[Len(told)] = said[Len(said)] /\ told[Len(told)].status = "success"
       /\ \A k \in 1 .. Len(said) - 1 : said[k].status = "unavailable"
  /\ how = "unavailable" /\ wants = "auto" =>
       \A s \in L!Providers : \E k \in 1 .. Len(said) : said[k].source = s
  /\ \A k \in 1 .. Len(told) : told[k].status # "unavailable" => k = Len(told)

\* The attempts are counted, and the source that is asked now was not asked before.
Progress(place, wants, left, try, said, how, told) ==
  /\ \A s \in L!Providers : Cardinality(Asked(told, s)) <= MaxAttempts
  /\ place # "idle" => Trying(wants, left, said, told)
  /\ place \in {"acquire", "cool"} => Asked(told, Head(left)) = {}
  /\ place = "cool" => try = 0
  /\ place \in {"space", "sent"} =>
       try < MaxAttempts /\ Cardinality(Asked(told, Head(left))) = try
  /\ place = "idle" => Settled(wants, said, how, told)
ClientKept(c) ==
  Progress(clientAt[c], want[c], rest[c], attempt[c], attempts[c], clientOutcome[c], heard[c])

SearchInv ==
  SearchTyped /\ LockKept /\ QuietKept /\ \A c \in Clients : ClientKept(c)

(* What a search remembers of the sources. *)

\* One request more is one more of its source, and none of another.
LEMMA AskedMore ==
  ASSUME NEW told \in L!Told, NEW s \in L!Providers, NEW st \in L!Statuses
  PROVE  LET more == Append(told, [source |-> s, status |-> st]) IN
         /\ Cardinality(Asked(told, s)) \in Nat
         /\ Cardinality(Asked(more, s)) = Cardinality(Asked(told, s)) + 1
         /\ \A x \in L!Providers \ {s} : Asked(more, x) = Asked(told, x)
<1> DEFINE more == Append(told, [source |-> s, status |-> st])
<1>1. /\ Len(told) \in Nat /\ Len(more) = Len(told) + 1
      /\ \A k \in 1 .. Len(told) : more[k] = told[k]
      /\ more[Len(told) + 1] = [source |-> s, status |-> st]
  BY DEF L!Told
<1> HIDE DEF more
<1>2. Asked(more, s) = Asked(told, s) \union {Len(told) + 1}
  BY <1>1 DEF Asked
<1>3. Len(told) + 1 \notin Asked(told, s)
  BY <1>1 DEF Asked
<1>4. IsFiniteSet(Asked(told, s))
  <2>1. IsFiniteSet(1 .. Len(told))
    BY <1>1, FS_Interval
  <2> QED BY <2>1, FS_Subset DEF Asked
<1>5. \A x \in L!Providers \ {s} : Asked(more, x) = Asked(told, x)
  BY <1>1 DEF Asked
<1> QED BY <1>2, <1>3, <1>4, <1>5, FS_AddElement, FS_CardinalityType DEF more

\* A request that failed leaves the bounds of every other source as they were.
LEMMA BoundKept ==
  ASSUME NEW told \in L!Told, NEW s \in L!Providers, NEW st \in L!Statuses,
         NEW more \in L!Told, more = Append(told, [source |-> s, status |-> st]),
         \A x \in L!Providers : Cardinality(Asked(told, x)) <= MaxAttempts,
         NEW try \in Nat, Cardinality(Asked(told, s)) = try, try < MaxAttempts
  PROVE  \A x \in L!Providers : Cardinality(Asked(more, x)) <= MaxAttempts
<1> SUFFICES ASSUME NEW x \in L!Providers PROVE Cardinality(Asked(more, x)) <= MaxAttempts
  OBVIOUS
<1>0. /\ Cardinality(Asked(more, s)) = Cardinality(Asked(told, s)) + 1
      /\ \A y \in L!Providers \ {s} : Asked(more, y) = Asked(told, y)
  BY AskedMore
<1>1. CASE x = s
  <2>2. try + 1 <= MaxAttempts
    BY SearchConstants
  <2> QED BY <1>1, <1>0, <2>2
<1>2. CASE x # s
  <2>1. Asked(more, x) = Asked(told, x)
    BY <1>2, <1>0
  <2> QED BY <2>1
<1> QED BY <1>1, <1>2

\* A source that failed is left, and the next one is one that was not asked.
LEMMA NextSource ==
  ASSUME NEW wants, NEW left \in Seq(L!Providers), NEW said \in L!Told, NEW told \in L!Told,
         NEW more \in L!Told, Trying(wants, left, said, told), Len(left) > 1,
         AllFailed(more), \A x \in L!Providers \ {Head(left)} : Asked(more, x) = Asked(told, x)
  PROVE  /\ Trying(wants, Tail(left),
                   Append(said, [source |-> Head(left), status |-> "unavailable"]), more)
         /\ Asked(more, Head(Tail(left))) = {}
<1> DEFINE next == Append(said, [source |-> Head(left), status |-> "unavailable"])
<1>1. /\ Len(left) \in Nat /\ Len(Tail(left)) = Len(left) - 1 /\ Tail(left) \in Seq(L!Providers)
      /\ \A k \in 1 .. Len(Tail(left)) : Tail(left)[k] = left[k + 1]
      /\ Head(left) = left[1] /\ Head(Tail(left)) = left[2]
      /\ \A k \in 1 .. Len(left) : left[k] \in L!Providers
  OBVIOUS
<1>2. /\ Len(said) \in Nat /\ Len(next) = Len(said) + 1
      /\ \A k \in 1 .. Len(said) : next[k] = said[k]
      /\ next[Len(said) + 1] = [source |-> Head(left), status |-> "unavailable"]
  BY DEF L!Told
<1>3. AllFailed(next)
  BY <1>2 DEF AllFailed, Trying
<1>4. \A j, k \in 1 .. Len(Tail(left)) : Tail(left)[j] = Tail(left)[k] => j = k
  <2> SUFFICES ASSUME NEW j \in 1 .. Len(Tail(left)), NEW k \in 1 .. Len(Tail(left)),
                      Tail(left)[j] = Tail(left)[k]
               PROVE  j = k
    OBVIOUS
  <2>1. j + 1 \in 1 .. Len(left) /\ k + 1 \in 1 .. Len(left) /\ left[j + 1] = left[k + 1]
    BY <1>1
  <2>2. j + 1 = k + 1
    BY <2>1 DEF Trying
  <2> QED BY <2>2
<1>5. \A k \in 2 .. Len(left) : left[k] # Head(left) /\ Asked(more, left[k]) = {}
  <2> SUFFICES ASSUME NEW k \in 2 .. Len(left)
               PROVE  left[k] # Head(left) /\ Asked(more, left[k]) = {}
    OBVIOUS
  <2>1. k \in 1 .. Len(left) /\ 1 \in 1 .. Len(left) /\ k # 1
    BY <1>1
  <2>2. left[k] # Head(left) /\ left[k] \in L!Providers
    BY <1>1, <2>1 DEF Trying
  <2>3. Asked(told, left[k]) = {}
    BY DEF Trying
  <2> QED BY <2>2, <2>3
<1>6. wants = "auto" => \A s \in L!Providers :
        \/ \E k \in 1 .. Len(next) : next[k].source = s
        \/ \E k \in 1 .. Len(Tail(left)) : Tail(left)[k] = s
  <2> SUFFICES ASSUME wants = "auto", NEW s \in L!Providers
               PROVE  \/ \E k \in 1 .. Len(next) : next[k].source = s
                      \/ \E k \in 1 .. Len(Tail(left)) : Tail(left)[k] = s
    OBVIOUS
  <2>1. CASE \E k \in 1 .. Len(said) : said[k].source = s
    BY <2>1, <1>2
  <2>2. CASE \E k \in 1 .. Len(left) : left[k] = s
    <3>1. PICK k \in 1 .. Len(left) : left[k] = s
      BY <2>2
    <3>2. CASE k = 1
      BY <3>1, <3>2, <1>1, <1>2
    <3>3. CASE k # 1
      <4>1. k - 1 \in 1 .. Len(Tail(left)) /\ Tail(left)[k - 1] = s
        BY <3>1, <3>3, <1>1
      <4> QED BY <4>1
    <3> QED BY <3>2, <3>3
  <2> QED BY <2>1, <2>2 DEF Trying
<1>7. Tail(left) # <<>> /\ Asked(more, Head(Tail(left))) = {}
  <2>1. 2 \in 2 .. Len(left) /\ Len(Tail(left)) # 0
    BY <1>1
  <2>2. Asked(more, left[2]) = {}
    BY <2>1, <1>5
  <2>3. Tail(left) # <<>>
    BY <1>1, <2>1, EmptySeq
  <2>4. Head(Tail(left)) = left[2]
    BY <1>1
  <2> QED BY <2>2, <2>3, <2>4
<1>8. \A k \in 2 .. Len(Tail(left)) : Asked(more, Tail(left)[k]) = {}
  <2> SUFFICES ASSUME NEW k \in 2 .. Len(Tail(left)) PROVE Asked(more, Tail(left)[k]) = {}
    OBVIOUS
  <2>1. k + 1 \in 2 .. Len(left) /\ Tail(left)[k] = left[k + 1]
    BY <1>1
  <2> QED BY <2>1, <1>5
<1> HIDE DEF next
<1>9. Trying(wants, Tail(left), next, more)
  BY <1>3, <1>4, <1>6, <1>7, <1>8 DEF Trying
<1> QED BY <1>7, <1>9 DEF next

\* The round of the sources names each of them once.
LEMMA IndicesNameEach ==
  ASSUME NEW c \in Clients, current[c] \in 1 .. Len(Order), NEW s \in L!Providers \union {"auto"}
  PROVE  LET round == L!Indices(c, s) IN
         /\ round \in Seq(L!Providers) /\ round # <<>>
         /\ \A j, k \in 1 .. Len(round) : round[j] = round[k] => j = k
         /\ s = "auto" => \A p \in L!Providers : \E k \in 1 .. Len(round) : round[k] = p
<1>1. CASE s = "auto"
  <2> DEFINE n == Len(Order)
             begin_ == current[c]
             at_(k) == L!Round(begin_ + k - 1)
             round == [k \in 1 .. n |-> Order[at_(k)]]
  <2>1. n \in Nat \ {0} /\ \A k \in 1 .. n : Order[k] \in L!Providers
    BY SearchConstants, EmptySeq
  <2>2. \A k \in 1 .. n : at_(k) \in 1 .. n
    BY <2>1 DEF L!Round
  <2>3. \A j, k \in 1 .. n : at_(j) = at_(k) => j = k
    BY <2>1 DEF L!Round
  <2>4. \A i \in 1 .. n : \E k \in 1 .. n : at_(k) = i
    <3> SUFFICES ASSUME NEW i \in 1 .. n PROVE \E k \in 1 .. n : at_(k) = i
      OBVIOUS
    <3>1. CASE i >= begin_
      <4>1. i - begin_ + 1 \in 1 .. n /\ at_(i - begin_ + 1) = i
        BY <3>1, <2>1 DEF L!Round
      <4> QED BY <4>1
    <3>2. CASE i < begin_
      <4>1. n - begin_ + i + 1 \in 1 .. n /\ at_(n - begin_ + i + 1) = i
        BY <3>2, <2>1 DEF L!Round
      <4> QED BY <4>1
    <3> QED BY <3>1, <3>2, <2>1
  <2> HIDE DEF at_
  <2>5. round \in Seq(L!Providers) /\ Len(round) = n
    BY <2>1, <2>2
  <2>6. \A j, k \in 1 .. n : round[j] = round[k] => j = k
    BY <2>2, <2>3, SearchConstants
  <2>7. \A p \in L!Providers : \E k \in 1 .. n : round[k] = p
    <3> SUFFICES ASSUME NEW p \in L!Providers PROVE \E k \in 1 .. n : round[k] = p
      OBVIOUS
    <3>1. PICK i \in 1 .. n : Order[i] = p
      BY SearchConstants DEF L!Providers, L!Range
    <3> QED BY <3>1, <2>4
  <2>8. round # <<>>
    BY <2>1, <2>5, EmptySeq
  <2>9. L!Indices(c, s) = round
    BY <1>1 DEF L!Indices, at_
  <2> HIDE DEF round
  <2> QED BY <2>5, <2>6, <2>7, <2>8, <2>9
<1>2. CASE s # "auto"
  <2>1. L!Indices(c, s) = <<s>>
    BY <1>2 DEF L!Indices
  <2>2. /\ <<s>> \in Seq(L!Providers) /\ <<s>> # <<>> /\ Len(<<s>>) = 1
        /\ \A j, k \in 1 .. 1 : j = k
    BY <1>2
  <2> QED BY <1>2, <2>1, <2>2
<1> QED BY <1>1, <1>2

\* A search begins with no attempt made.
LEMMA BeginProgress ==
  ASSUME NEW wants, NEW left \in Seq(L!Providers), left # <<>>, NEW try, NEW how,
         \A j, k \in 1 .. Len(left) : left[j] = left[k] => j = k,
         wants = "auto" => \A p \in L!Providers : \E k \in 1 .. Len(left) : left[k] = p
  PROVE  Progress("acquire", wants, left, try, <<>>, how, <<>>)
<1>1. \A s : Asked(<<>>, s) = {}
  BY DEF Asked
<1>2. Trying(wants, left, <<>>, <<>>)
  BY <1>1 DEF Trying, AllFailed
<1>3. \A s : Cardinality(Asked(<<>>, s)) <= MaxAttempts
  <2>1. Cardinality({}) = 0 /\ 0 <= MaxAttempts
    BY FS_EmptySet, SearchConstants
  <2> QED BY <1>1, <2>1
<1> QED BY <1>1, <1>2, <1>3 DEF Progress

\* The end of a search that neither found, nor exhausted the sources.
LEMMA EndProgress ==
  ASSUME NEW wants, NEW try, NEW said, NEW told \in L!Told, NEW how,
         how \notin {"success", "unavailable"},
         \A s \in L!Providers : Cardinality(Asked(told, s)) <= MaxAttempts,
         \A k \in 1 .. Len(told) : told[k].status # "unavailable" => k = Len(told)
  PROVE  Progress("idle", wants, <<>>, try, said, how, told)
BY DEF Progress, Settled

\* What becomes of a search that was failed by a source.
LEMMA RaiseProgress ==
  ASSUME NEW wants, NEW left \in Seq(L!Providers), NEW try, NEW said \in L!Told,
         NEW told \in L!Told, NEW more \in L!Told, NEW how,
         NEW error \in {"unavailable", "rejected"}, NEW next,
         next = Append(said, [source |-> Head(left), status |-> error]),
         Trying(wants, left, said, told),
         \A s \in L!Providers : Cardinality(Asked(more, s)) <= MaxAttempts,
         \A s \in L!Providers \ {Head(left)} : Asked(more, s) = Asked(told, s),
         error = "unavailable" => AllFailed(more),
         \A k \in 1 .. Len(more) : more[k].status # "unavailable" => k = Len(more)
  PROVE  /\ wants = "auto" /\ error = "unavailable" /\ Len(left) > 1 =>
              Progress("acquire", wants, Tail(left), try, next, how, more)
         /\ ~(wants = "auto" /\ error = "unavailable" /\ Len(left) > 1) =>
              Progress("idle", wants, <<>>, try, next, error, more)
<1>1. CASE wants = "auto" /\ error = "unavailable" /\ Len(left) > 1
  <2>1. Trying(wants, Tail(left), next, more) /\ Asked(more, Head(Tail(left))) = {}
    BY <1>1, NextSource
  <2> QED BY <1>1, <2>1 DEF Progress
<1>2. CASE ~(wants = "auto" /\ error = "unavailable" /\ Len(left) > 1)
  <2>1. error = "unavailable" /\ wants = "auto" =>
          \A s \in L!Providers : \E k \in 1 .. Len(next) : next[k].source = s
    <3> SUFFICES ASSUME error = "unavailable", wants = "auto", NEW s \in L!Providers
                 PROVE  \E k \in 1 .. Len(next) : next[k].source = s
      OBVIOUS
    <3>1. Len(left) = 1 /\ Head(left) = left[1]
      <4>1. left # <<>>
        BY DEF Trying
      <4>2. Len(left) \in Nat /\ Len(left) # 0
        BY <4>1, EmptySeq
      <4>3. Len(left) = 1
        <5>1. ~(Len(left) > 1)
          BY <1>2
        <5>2. \A n \in Nat : n # 0 /\ ~(n > 1) => n = 1
          OBVIOUS
        <5> QED BY <4>2, <5>1, <5>2
      <4> QED BY <4>1, <4>3
    <3>2. /\ Len(said) \in Nat /\ Len(next) = Len(said) + 1
          /\ \A k \in 1 .. Len(said) : next[k] = said[k]
          /\ next[Len(said) + 1] = [source |-> Head(left), status |-> error]
      BY DEF L!Told
    <3>3. CASE \E k \in 1 .. Len(said) : said[k].source = s
      BY <3>2, <3>3
    <3>4. CASE left[1] = s
      BY <3>1, <3>2, <3>4
    <3> QED BY <3>1, <3>3, <3>4 DEF Trying
  <2>2. Settled(wants, next, error, more)
    BY <2>1 DEF Settled
  <2> QED BY <1>2, <2>2 DEF Progress
<1> QED BY <1>1, <1>2

(* The locks and the quiet of the sources. *)

\* What a client who has the lock of a source does to the locks and the quiet: it keeps the
\* lock, or gives it up, and no other source is touched.
LEMMA LockMoves ==
  ASSUME SearchInv, NEW c \in Clients, NEW s \in L!Providers, Holds(c), s = L!Source(c),
         SearchTyped',
         \A d \in Clients \ {c} : clientAt'[d] = clientAt[d] /\ rest'[d] = rest[d],
         \A x \in L!Providers \ {s} :
           /\ owner'[x] = owner[x] /\ inFlight'[x] = inFlight[x]
           /\ coolIn'[x] = coolIn[x] /\ nextIn'[x] = nextIn[x] /\ quietIn'[x] = quietIn[x],
         \A d \in Clients \ {c} : d \in inFlight'[s] <=> d \in inFlight[s],
         \/ clientAt'[c] \in {"acquire", "idle"} /\ c \notin inFlight'[s]
         \/ /\ clientAt'[c] \in {"space", "sent"} /\ rest'[c] = rest[c] /\ owner'[s] = c
            /\ c \in inFlight'[s] <=> clientAt'[c] = "sent"
            /\ coolIn'[s] = 0 /\ (clientAt'[c] = "sent" => quietIn'[s] = 0),
         quietIn'[s] <= nextIn'[s] \/ quietIn'[s] <= coolIn'[s]
  PROVE  LockKept' /\ QuietKept'
<1>1. \A d \in Clients \ {c} : Holds(d) => L!Source(d) \in L!Providers \ {s}
  <2> SUFFICES ASSUME NEW d \in Clients \ {c}, Holds(d)
               PROVE  L!Source(d) \in L!Providers /\ L!Source(d) # s
    OBVIOUS
  <2>1. rest[d] # <<>> /\ owner[L!Source(d)] = d /\ owner[s] = c
    BY DEF SearchInv, LockKept
  <2>2. L!Source(d) \in L!Providers
    BY <2>1 DEF SearchInv, SearchTyped, L!Source
  <2> QED BY <2>1, <2>2
<1>2. \A d \in Clients \ {c} : Holds(d)' <=> Holds(d)
  BY DEF Holds
<1>3. \A d \in Clients \ {c} : L!Source(d)' = L!Source(d)
  BY DEF L!Source
<1>4. Holds(c)' => rest'[c] # <<>> /\ owner'[s] = c /\ L!Source(c)' = s /\ clientAt'[c] \in {"space", "sent"}
  BY DEF Holds, L!Source, SearchInv, LockKept
<1>5. \A d \in Clients : Holds(d)' => rest'[d] # <<>> /\ owner'[L!Source(d)'] = d
  BY <1>1, <1>2, <1>3, <1>4 DEF SearchInv, LockKept
<1>6. \A x \in L!Providers, d \in Clients :
        d \in inFlight'[x] <=> clientAt'[d] = "sent" /\ L!Source(d)' = x
  <2> SUFFICES ASSUME NEW x \in L!Providers, NEW d \in Clients
               PROVE  d \in inFlight'[x] <=> clientAt'[d] = "sent" /\ L!Source(d)' = x
    OBVIOUS
  <2>1. d \in inFlight[x] <=> clientAt[d] = "sent" /\ L!Source(d) = x
    BY DEF SearchInv, LockKept
  <2>2. CASE d # c
    BY <2>1, <2>2, <1>3
  <2>3. CASE d = c /\ x = s
    BY <2>3, <1>4 DEF Holds
  <2>4. CASE d = c /\ x # s
    BY <2>1, <2>4, <1>4 DEF Holds
  <2> QED BY <2>2, <2>3, <2>4
<1>7. \A x \in L!Providers : quietIn'[x] <= nextIn'[x] \/ quietIn'[x] <= coolIn'[x]
  BY DEF SearchInv, QuietKept
<1>8. \A d \in Clients :
        /\ clientAt'[d] \in {"space", "sent"} => coolIn'[L!Source(d)'] = 0
        /\ clientAt'[d] = "sent" => quietIn'[L!Source(d)'] = 0
  <2> SUFFICES ASSUME NEW d \in Clients
               PROVE  /\ clientAt'[d] \in {"space", "sent"} => coolIn'[L!Source(d)'] = 0
                      /\ clientAt'[d] = "sent" => quietIn'[L!Source(d)'] = 0
    OBVIOUS
  <2>1. CASE d # c
    BY <2>1, <1>1, <1>3 DEF SearchInv, QuietKept, Holds
  <2>2. CASE d = c
    BY <2>2, <1>4 DEF Holds
  <2> QED BY <2>1, <2>2
<1> QED BY <1>5, <1>6, <1>7, <1>8 DEF LockKept, QuietKept

\* A client without a lock that gets none changes nothing of the sources.
LEMMA LockRests ==
  ASSUME SearchInv, NEW c \in Clients, ~Holds(c), clientAt'[c] \in {"acquire", "idle"},
         \A d \in Clients \ {c} : clientAt'[d] = clientAt[d] /\ rest'[d] = rest[d],
         UNCHANGED <<owner, nextIn, coolIn, inFlight, quietIn>>
  PROVE  LockKept' /\ QuietKept'
<1>1. \A d \in Clients \ {c} : (Holds(d)' <=> Holds(d)) /\ L!Source(d)' = L!Source(d)
  BY DEF Holds, L!Source
<1>2. ~Holds(c)' /\ clientAt[c] # "sent"
  BY DEF Holds
<1>3. LockKept'
  BY <1>1, <1>2 DEF SearchInv, LockKept, Holds
<1>4. QuietKept'
  BY <1>1, <1>2 DEF SearchInv, QuietKept, Holds
<1> QED BY <1>3, <1>4

\* A search in which nothing happened is as it was.
LEMMA ClientRests ==
  ASSUME NEW c, ClientKept(c), clientAt'[c] = clientAt[c], want'[c] = want[c],
         rest'[c] = rest[c], attempt'[c] = attempt[c], attempts'[c] = attempts[c],
         clientOutcome'[c] = clientOutcome[c], heard'[c] = heard[c]
  PROVE  ClientKept(c)'
BY DEF ClientKept

(* The steps of a search. *)

\* A call to the backend that begins to try sources.
LEMMA BeginKeeps ==
  ASSUME SearchInv, NEW c \in Clients, NEW s \in L!Providers \union {"auto"},
         NEW left \in Seq(L!Providers), left # <<>>,
         \A j, k \in 1 .. Len(left) : left[j] = left[k] => j = k,
         s = "auto" => \A p \in L!Providers : \E k \in 1 .. Len(left) : left[k] = p,
         L!Called(c), L!Begin(c, s, left)
  PROVE  SearchInv'
<1>1. /\ want' = [want EXCEPT ![c] = s] /\ rest' = [rest EXCEPT ![c] = left]
      /\ clientAt' = [clientAt EXCEPT ![c] = "acquire"]
      /\ clientOutcome' = [clientOutcome EXCEPT ![c] = "none"]
      /\ attempts' = [attempts EXCEPT ![c] = <<>>] /\ heard' = [heard EXCEPT ![c] = <<>>]
      /\ searches' = searches + 1 /\ searches < MaxSearches /\ clientAt[c] = "idle"
      /\ UNCHANGED <<owner, nextIn, coolIn, current, attempt, clientCancelled, deadlineIn,
                     inFlight, quietIn>>
  BY DEF L!Called, L!Begin, L!Go, L!sourceVars, L!tokenVars
<1>2. SearchTyped'
  <2>1. /\ want' \in [Clients -> L!Providers \union {"auto"}] /\ rest' \in [Clients -> Seq(L!Providers)]
        /\ clientAt' \in [Clients -> {"idle", "acquire", "cool", "space", "sent"}]
        /\ clientOutcome' \in [Clients -> L!Statuses \union {"none", "invalid", "cancelled", "deadline"}]
    BY <1>1 DEF SearchInv, SearchTyped, L!TypeInvariant
  <2>2. attempts' \in [Clients -> L!Told] /\ heard' \in [Clients -> L!Told]
    <3>1. <<>> \in L!Told
      BY DEF L!Told
    <3> QED BY <1>1, <3>1 DEF SearchInv, SearchTyped
  <2>3. searches' \in 0 .. MaxSearches
    BY <1>1, SearchConstants DEF SearchInv, SearchTyped, L!TypeInvariant
  <2> QED BY <1>1, <2>1, <2>2, <2>3 DEF SearchInv, SearchTyped, L!TypeInvariant
<1>3. LockKept' /\ QuietKept'
  <2>1. ~Holds(c) /\ clientAt'[c] \in {"acquire", "idle"}
    BY <1>1 DEF SearchInv, SearchTyped, L!TypeInvariant, Holds
  <2>2. \A d \in Clients \ {c} : clientAt'[d] = clientAt[d] /\ rest'[d] = rest[d]
    BY <1>1 DEF SearchInv, SearchTyped, L!TypeInvariant
  <2> QED BY <1>1, <2>1, <2>2, LockRests
<1>4. \A d \in Clients : ClientKept(d)'
  <2> SUFFICES ASSUME NEW d \in Clients PROVE ClientKept(d)'
    OBVIOUS
  <2>1. CASE d # c
    BY <1>1, <2>1, ClientRests DEF SearchInv, SearchTyped, L!TypeInvariant
  <2>2. CASE d = c
    <3>1. Progress("acquire", s, left, attempt[c], <<>>, "none", <<>>)
      BY BeginProgress
    <3>2. /\ clientAt'[c] = "acquire" /\ want'[c] = s /\ rest'[c] = left
          /\ attempt'[c] = attempt[c] /\ attempts'[c] = <<>> /\ clientOutcome'[c] = "none"
          /\ heard'[c] = <<>>
      BY <1>1 DEF SearchInv, SearchTyped, L!TypeInvariant
    <3> QED BY <2>2, <3>1, <3>2 DEF ClientKept
  <2> QED BY <2>1, <2>2
<1> QED BY <1>2, <1>3, <1>4 DEF SearchInv

\* search, with an argument that is refused or not.
LEMMA SearchKeeps ==
  ASSUME SearchInv, NEW c \in Clients, NEW s \in L!Providers \union {"auto"}, NEW page,
         L!Search(c, s, page)
  PROVE  SearchInv'
<1>1. CASE L!Valid(s, page)
  <2>1. L!Called(c) /\ L!Begin(c, s, L!Indices(c, s))
    BY <1>1 DEF L!Search
  <2>2. current[c] \in 1 .. Len(Order)
    BY DEF SearchInv, SearchTyped, L!TypeInvariant
  <2>3. LET round == L!Indices(c, s) IN
        /\ round \in Seq(L!Providers) /\ round # <<>>
        /\ \A j, k \in 1 .. Len(round) : round[j] = round[k] => j = k
        /\ s = "auto" => \A p \in L!Providers : \E k \in 1 .. Len(round) : round[k] = p
    BY <2>2, IndicesNameEach
  <2> QED BY <2>1, <2>3, BeginKeeps
<1>2. CASE ~L!Valid(s, page)
  <2>1. /\ want' = [want EXCEPT ![c] = s] /\ rest' = [rest EXCEPT ![c] = <<>>]
        /\ clientAt' = [clientAt EXCEPT ![c] = "idle"]
        /\ clientOutcome' = [clientOutcome EXCEPT ![c] = "invalid"]
        /\ attempts' = [attempts EXCEPT ![c] = <<>>] /\ heard' = [heard EXCEPT ![c] = <<>>]
        /\ searches' = searches + 1 /\ searches < MaxSearches /\ clientAt[c] = "idle"
        /\ UNCHANGED <<owner, nextIn, coolIn, current, attempt, clientCancelled, deadlineIn,
                       inFlight, quietIn>>
    BY <1>2 DEF L!Search, L!Called, L!End, L!Go, L!sourceVars, L!tokenVars
  <2>2. SearchTyped'
    <3>1. /\ want' \in [Clients -> L!Providers \union {"auto"}] /\ rest' \in [Clients -> Seq(L!Providers)]
          /\ clientAt' \in [Clients -> {"idle", "acquire", "cool", "space", "sent"}]
          /\ clientOutcome' \in [Clients -> L!Statuses \union {"none", "invalid", "cancelled", "deadline"}]
      BY <2>1 DEF SearchInv, SearchTyped, L!TypeInvariant
    <3>2. attempts' \in [Clients -> L!Told] /\ heard' \in [Clients -> L!Told]
      <4>1. <<>> \in L!Told
        BY DEF L!Told
      <4> QED BY <2>1, <4>1 DEF SearchInv, SearchTyped
    <3>3. searches' \in 0 .. MaxSearches
      BY <2>1, SearchConstants DEF SearchInv, SearchTyped, L!TypeInvariant
    <3> QED BY <2>1, <3>1, <3>2, <3>3 DEF SearchInv, SearchTyped, L!TypeInvariant
  <2>3. LockKept' /\ QuietKept'
    <3>1. ~Holds(c) /\ clientAt'[c] \in {"acquire", "idle"}
      BY <2>1 DEF SearchInv, SearchTyped, L!TypeInvariant, Holds
    <3>2. \A d \in Clients \ {c} : clientAt'[d] = clientAt[d] /\ rest'[d] = rest[d]
      BY <2>1 DEF SearchInv, SearchTyped, L!TypeInvariant
    <3> QED BY <2>1, <3>1, <3>2, LockRests
  <2>4. \A d \in Clients : ClientKept(d)'
    <3> SUFFICES ASSUME NEW d \in Clients PROVE ClientKept(d)'
      OBVIOUS
    <3>1. CASE d # c
      BY <2>1, <3>1, ClientRests DEF SearchInv, SearchTyped, L!TypeInvariant
    <3>2. CASE d = c
      <4>1. \A x : Cardinality(Asked(<<>>, x)) <= MaxAttempts
        <5>1. Cardinality({}) = 0 /\ 0 <= MaxAttempts
          BY FS_EmptySet, SearchConstants
        <5>2. \A x : Asked(<<>>, x) = {}
          BY DEF Asked
        <5> QED BY <5>1, <5>2
      <4>2. <<>> \in L!Told /\ \A k \in 1 .. Len(<<>>) : FALSE
        BY DEF L!Told
      <4>3. Progress("idle", s, <<>>, attempt[c], <<>>, "invalid", <<>>)
        BY <4>1, <4>2, EndProgress
      <4>4. /\ clientAt'[c] = "idle" /\ want'[c] = s /\ rest'[c] = <<>>
            /\ attempt'[c] = attempt[c] /\ attempts'[c] = <<>> /\ clientOutcome'[c] = "invalid"
            /\ heard'[c] = <<>>
        BY <2>1 DEF SearchInv, SearchTyped, L!TypeInvariant
      <4> QED BY <3>2, <4>3, <4>4 DEF ClientKept
    <3> QED BY <3>1, <3>2
  <2> QED BY <2>2, <2>3, <2>4 DEF SearchInv
<1> QED BY <1>1, <1>2

\* resolve: a paper of one source.
LEMMA ResolveKeeps ==
  ASSUME SearchInv, NEW c \in Clients, NEW s \in L!Providers, L!Resolve(c, s)
  PROVE  SearchInv'
<1>1. L!Called(c) /\ L!Begin(c, s, <<s>>)
  BY DEF L!Resolve
<1>2. /\ <<s>> \in Seq(L!Providers) /\ <<s>> # <<>> /\ s # "auto"
      /\ \A j, k \in 1 .. Len(<<s>>) : <<s>>[j] = <<s>>[k] => j = k
  BY SearchConstants
<1> QED BY <1>1, <1>2, BeginKeeps

\* A client gets the lock of a source.
LEMMA AcquireKeeps ==
  ASSUME SearchInv, NEW c \in Clients, L!Acquire(c)
  PROVE  SearchInv'
<1> DEFINE s == L!Source(c)
<1>1. /\ clientAt[c] = "acquire" /\ owner[s] = NoOne /\ owner' = [owner EXCEPT ![s] = c]
      /\ attempt' = [attempt EXCEPT ![c] = 0] /\ clientAt' = [clientAt EXCEPT ![c] = "cool"]
      /\ UNCHANGED <<nextIn, coolIn, current, want, rest, attempts, clientOutcome,
                     clientCancelled, deadlineIn, inFlight, quietIn, heard, searches>>
  BY DEF L!Acquire, L!Go, L!tokenVars, L!worldVars
<1>2. rest[c] # <<>> /\ s \in L!Providers
  <2>1. ClientKept(c) /\ rest[c] \in Seq(L!Providers)
    BY DEF SearchInv, SearchTyped
  <2>2. rest[c] # <<>>
    BY <1>1, <2>1 DEF ClientKept, Progress, Trying
  <2> QED BY <2>1, <2>2 DEF L!Source
<1>3. \A d \in Clients : L!Source(d)' = L!Source(d)
  BY <1>1 DEF L!Source
<1> HIDE DEF s
<1>4. SearchTyped'
  <2>1. /\ owner' \in [L!Providers -> Clients \union {NoOne}]
        /\ clientAt' \in [Clients -> {"idle", "acquire", "cool", "space", "sent"}]
    BY <1>1, <1>2 DEF SearchInv, SearchTyped, L!TypeInvariant
  <2>2. attempt' \in [Clients -> 0 .. MaxAttempts]
    <3>1. 0 \in 0 .. MaxAttempts
      BY SearchConstants
    <3> QED BY <1>1, <3>1 DEF SearchInv, SearchTyped, L!TypeInvariant
  <2> QED BY <1>1, <2>1, <2>2 DEF SearchInv, SearchTyped, L!TypeInvariant
<1>5. /\ clientAt'[c] = "cool" /\ owner'[s] = c /\ attempt'[c] = 0
      /\ \A d \in Clients \ {c} : clientAt'[d] = clientAt[d] /\ attempt'[d] = attempt[d]
      /\ \A x \in L!Providers \ {s} : owner'[x] = owner[x]
  BY <1>1, <1>2 DEF SearchInv, SearchTyped, L!TypeInvariant
<1>6. LockKept'
  <2>1. \A d \in Clients : Holds(d)' => rest'[d] # <<>> /\ owner'[L!Source(d)'] = d
    <3> SUFFICES ASSUME NEW d \in Clients, Holds(d)'
                 PROVE  rest'[d] # <<>> /\ owner'[L!Source(d)'] = d
      OBVIOUS
    <3>1. CASE d = c
      BY <1>1, <1>2, <1>3, <1>5, <3>1 DEF s
    <3>2. CASE d # c
      <4>1. Holds(d)
        BY <3>2, <1>5 DEF Holds
      <4>2. rest[d] # <<>> /\ owner[L!Source(d)] = d
        BY <4>1 DEF SearchInv, LockKept
      <4>3. L!Source(d) # s /\ L!Source(d) \in L!Providers
        BY <4>2, <1>1, SearchConstants DEF SearchInv, SearchTyped, L!Source
      <4> QED BY <4>2, <4>3, <1>1, <1>3, <1>5
    <3> QED BY <3>1, <3>2
  <2>2. \A x \in L!Providers, d \in Clients :
          d \in inFlight'[x] <=> clientAt'[d] = "sent" /\ L!Source(d)' = x
    BY <1>1, <1>3, <1>5 DEF SearchInv, LockKept
  <2> QED BY <2>1, <2>2 DEF LockKept
<1>7. QuietKept'
  BY <1>1, <1>3, <1>5 DEF SearchInv, QuietKept
<1>8. \A d \in Clients : ClientKept(d)'
  <2> SUFFICES ASSUME NEW d \in Clients PROVE ClientKept(d)'
    OBVIOUS
  <2>1. CASE d # c
    BY <1>1, <1>5, <2>1, ClientRests DEF SearchInv
  <2>2. CASE d = c
    <3>1. Progress("acquire", want[c], rest[c], attempt[c], attempts[c], clientOutcome[c], heard[c])
      BY <1>1 DEF SearchInv, ClientKept
    <3>2. Progress("cool", want[c], rest[c], 0, attempts[c], clientOutcome[c], heard[c])
      BY <3>1 DEF Progress
    <3> QED BY <1>1, <1>5, <2>2, <3>2 DEF ClientKept
  <2> QED BY <2>1, <2>2
<1> QED BY <1>4, <1>6, <1>7, <1>8 DEF SearchInv

\* A client that has the lock of a source is at a source that is left to it.
LEMMA HeldSource ==
  ASSUME SearchInv, NEW c \in Clients, clientAt[c] # "idle"
  PROVE  /\ rest[c] \in Seq(L!Providers) /\ rest[c] # <<>> /\ L!Source(c) = Head(rest[c])
         /\ L!Source(c) \in L!Providers
         /\ Trying(want[c], rest[c], attempts[c], heard[c])
<1>1. ClientKept(c) /\ rest[c] \in Seq(L!Providers)
  BY DEF SearchInv, SearchTyped
<1>2. Trying(want[c], rest[c], attempts[c], heard[c]) /\ rest[c] # <<>>
  BY <1>1 DEF ClientKept, Progress, Trying
<1> QED BY <1>1, <1>2 DEF L!Source

\* The end of a search without an answer: cancelled, or late.
LEMMA EndMoves ==
  ASSUME SearchInv, NEW c \in Clients, NEW how \in L!Statuses \union {"cancelled", "deadline"},
         L!End(c, how)
  PROVE  /\ clientAt' \in [Clients -> {"idle", "acquire", "cool", "space", "sent"}]
         /\ rest' \in [Clients -> Seq(L!Providers)]
         /\ clientOutcome' \in [Clients -> L!Statuses \union {"none", "invalid", "cancelled", "deadline"}]
         /\ \A d \in Clients \ {c} :
              clientAt'[d] = clientAt[d] /\ rest'[d] = rest[d] /\ clientOutcome'[d] = clientOutcome[d]
         /\ clientAt'[c] = "idle" /\ rest'[c] = <<>> /\ clientOutcome'[c] = how
BY DEF SearchInv, SearchTyped, L!TypeInvariant, L!End, L!Go

\* What a source that fails makes of a search: the next source, or the end.
LEMMA RaiseMoves ==
  ASSUME SearchInv, NEW c \in Clients, clientAt[c] # "idle",
         NEW error \in {"unavailable", "rejected"}, L!Raise(c, error),
         NEW more \in L!Told, \A x \in L!Providers : Cardinality(Asked(more, x)) <= MaxAttempts,
         \A x \in L!Providers \ {L!Source(c)} : Asked(more, x) = Asked(heard[c], x),
         error = "unavailable" => AllFailed(more),
         \A k \in 1 .. Len(more) : more[k].status # "unavailable" => k = Len(more)
  PROVE  /\ clientAt' \in [Clients -> {"idle", "acquire", "cool", "space", "sent"}]
         /\ rest' \in [Clients -> Seq(L!Providers)] /\ attempts' \in [Clients -> L!Told]
         /\ clientOutcome' \in [Clients -> L!Statuses \union {"none", "invalid", "cancelled", "deadline"}]
         /\ \A d \in Clients \ {c} :
              /\ clientAt'[d] = clientAt[d] /\ rest'[d] = rest[d]
              /\ attempts'[d] = attempts[d] /\ clientOutcome'[d] = clientOutcome[d]
         /\ clientAt'[c] \in {"acquire", "idle"}
         /\ \A try : Progress(clientAt'[c], want[c], rest'[c], try, attempts'[c],
                              clientOutcome'[c], more)
<1> DEFINE next == Append(attempts[c], [source |-> Head(rest[c]), status |-> error])
           goes == want[c] = "auto" /\ error = "unavailable" /\ Len(rest[c]) > 1
<1>1. /\ rest[c] \in Seq(L!Providers) /\ rest[c] # <<>> /\ L!Source(c) = Head(rest[c])
      /\ Head(rest[c]) \in L!Providers /\ attempts[c] \in L!Told /\ heard[c] \in L!Told
      /\ Trying(want[c], rest[c], attempts[c], heard[c])
  BY HeldSource DEF SearchInv, SearchTyped
<1>2. attempts' = [attempts EXCEPT ![c] = next]
  BY DEF L!Raise, L!Record, L!Source
<1>3. next \in L!Told
  BY <1>1 DEF L!Told, L!Statuses
<1>4. /\ attempts' \in [Clients -> L!Told] /\ attempts'[c] = next
      /\ \A d \in Clients \ {c} : attempts'[d] = attempts[d]
  <2> HIDE DEF next
  <2> QED BY <1>2, <1>3 DEF SearchInv, SearchTyped
<1>5. \A try, how :
        /\ goes => Progress("acquire", want[c], Tail(rest[c]), try, next, how, more)
        /\ ~goes => Progress("idle", want[c], <<>>, try, next, error, more)
  <2> SUFFICES ASSUME NEW try, NEW how
               PROVE  /\ goes => Progress("acquire", want[c], Tail(rest[c]), try, next, how, more)
                      /\ ~goes => Progress("idle", want[c], <<>>, try, next, error, more)
    OBVIOUS
  <2> QED BY <1>1, RaiseProgress
<1> HIDE DEF next
<1>6. CASE goes
  <2>1. /\ rest' = [rest EXCEPT ![c] = Tail(rest[c])] /\ clientAt' = [clientAt EXCEPT ![c] = "acquire"]
        /\ UNCHANGED clientOutcome
    BY <1>6 DEF L!Raise, L!Go
  <2>2. Tail(rest[c]) \in Seq(L!Providers)
    BY <1>1
  <2>3. /\ clientAt' \in [Clients -> {"idle", "acquire", "cool", "space", "sent"}]
        /\ rest' \in [Clients -> Seq(L!Providers)]
        /\ clientAt'[c] = "acquire" /\ rest'[c] = Tail(rest[c])
        /\ \A d \in Clients \ {c} : clientAt'[d] = clientAt[d] /\ rest'[d] = rest[d]
    BY <2>1, <2>2 DEF SearchInv, SearchTyped, L!TypeInvariant
  <2> QED BY <1>4, <1>5, <1>6, <2>1, <2>3 DEF SearchInv, SearchTyped, L!TypeInvariant
<1>7. CASE ~goes
  <2>1. L!End(c, error)
    BY <1>7 DEF L!Raise
  <2>2. error \in L!Statuses
    BY DEF L!Statuses
  <2> QED BY <1>4, <1>5, <1>7, <2>1, <2>2, EndMoves
<1> QED BY <1>6, <1>7

\* Who is cancelled, or late, while it waits for the lock, or for the next request.
LEMMA GiveUpKeeps ==
  ASSUME SearchInv, NEW c \in Clients, L!GiveUp(c)
  PROVE  SearchInv'
<1> DEFINE how == IF clientCancelled[c] THEN "cancelled" ELSE "deadline"
           s == L!Source(c)
<1>1. /\ clientAt[c] \in {"acquire", "space"} /\ L!End(c, how)
      /\ IF clientAt[c] = "space" THEN owner' = [owner EXCEPT ![s] = NoOne] ELSE UNCHANGED owner
      /\ UNCHANGED <<nextIn, coolIn, current, want, attempt, attempts, clientCancelled, deadlineIn,
                     inFlight, quietIn, heard, searches>>
  BY DEF L!GiveUp, L!Release, L!tokenVars, L!worldVars
<1>2. s \in L!Providers
  BY <1>1, HeldSource
<1> HIDE DEF s
<1>3. /\ clientAt' \in [Clients -> {"idle", "acquire", "cool", "space", "sent"}]
      /\ rest' \in [Clients -> Seq(L!Providers)]
      /\ clientOutcome' \in [Clients -> L!Statuses \union {"none", "invalid", "cancelled", "deadline"}]
      /\ \A d \in Clients \ {c} :
           clientAt'[d] = clientAt[d] /\ rest'[d] = rest[d] /\ clientOutcome'[d] = clientOutcome[d]
      /\ clientAt'[c] = "idle" /\ rest'[c] = <<>> /\ clientOutcome'[c] = how
  BY <1>1, EndMoves
<1>4. /\ owner' \in [L!Providers -> Clients \union {NoOne}]
      /\ \A x \in L!Providers \ {s} : owner'[x] = owner[x]
  BY <1>1, <1>2 DEF SearchInv, SearchTyped, L!TypeInvariant
<1>5. SearchTyped'
  BY <1>1, <1>3, <1>4 DEF SearchInv, SearchTyped, L!TypeInvariant
<1>6. LockKept' /\ QuietKept'
  <2>1. CASE clientAt[c] = "acquire"
    <3>1. ~Holds(c)
      BY <2>1 DEF Holds
    <3>2. UNCHANGED <<owner, nextIn, coolIn, inFlight, quietIn>>
      BY <1>1, <2>1
    <3> QED BY <1>3, <3>1, <3>2, LockRests
  <2>2. CASE clientAt[c] = "space"
    <3>1. Holds(c) /\ s = L!Source(c)
      BY <2>2 DEF Holds, s
    <3>2. c \notin inFlight'[s]
      BY <1>1, <1>2, <2>2 DEF SearchInv, LockKept
    <3>3. quietIn'[s] <= nextIn'[s] \/ quietIn'[s] <= coolIn'[s]
      BY <1>1, <1>2 DEF SearchInv, QuietKept
    <3> QED BY <1>1, <1>2, <1>3, <1>4, <1>5, <3>1, <3>2, <3>3, LockMoves
  <2> QED BY <1>1, <2>1, <2>2
<1>7. \A d \in Clients : ClientKept(d)'
  <2> SUFFICES ASSUME NEW d \in Clients PROVE ClientKept(d)'
    OBVIOUS
  <2>1. CASE d # c
    BY <1>1, <1>3, <2>1, ClientRests DEF SearchInv
  <2>2. CASE d = c
    <3>1. /\ \A x \in L!Providers : Cardinality(Asked(heard[c], x)) <= MaxAttempts
          /\ AllFailed(heard[c]) /\ heard[c] \in L!Told
      BY <1>1 DEF SearchInv, SearchTyped, ClientKept, Progress, Trying
    <3>2. Progress("idle", want[c], <<>>, attempt[c], attempts[c], how, heard[c])
      BY <3>1, EndProgress DEF AllFailed
    <3> QED BY <1>1, <1>3, <2>2, <3>2 DEF ClientKept
  <2> QED BY <2>1, <2>2
<1> QED BY <1>5, <1>6, <1>7 DEF SearchInv

\* Whoever has the lock looks at the cooldown of the source.
LEMMA CheckCooldownKeeps ==
  ASSUME SearchInv, NEW c \in Clients, L!CheckCooldown(c)
  PROVE  SearchInv'
<1> DEFINE s == L!Source(c)
<1>1. /\ clientAt[c] = "cool"
      /\ UNCHANGED <<nextIn, coolIn, current, want, attempt, clientCancelled, deadlineIn,
                     inFlight, quietIn, heard, searches>>
  BY DEF L!CheckCooldown, L!tokenVars, L!worldVars
<1>2. s \in L!Providers /\ Holds(c) /\ heard[c] \in L!Told
      /\ Trying(want[c], rest[c], attempts[c], heard[c])
  BY <1>1, HeldSource DEF Holds, SearchInv, SearchTyped
<1>3. c \notin inFlight[s] /\ (quietIn[s] <= nextIn[s] \/ quietIn[s] <= coolIn[s])
      /\ coolIn[s] \in Nat
  BY <1>1, <1>2 DEF SearchInv, LockKept, QuietKept, SearchTyped, L!TypeInvariant
<1>4. CASE coolIn[s] > 0
  <2>1. L!Raise(c, "unavailable") /\ owner' = [owner EXCEPT ![s] = NoOne]
    BY <1>4 DEF L!CheckCooldown, L!Release
  <2>2. /\ \A x \in L!Providers : Cardinality(Asked(heard[c], x)) <= MaxAttempts
        /\ AllFailed(heard[c]) /\ \A k \in 1 .. Len(heard[c]) : heard[c][k].status # "unavailable" => k = Len(heard[c])
    BY <1>2 DEF SearchInv, ClientKept, Progress, Trying, AllFailed
  <2>3. /\ clientAt' \in [Clients -> {"idle", "acquire", "cool", "space", "sent"}]
        /\ rest' \in [Clients -> Seq(L!Providers)] /\ attempts' \in [Clients -> L!Told]
        /\ clientOutcome' \in [Clients -> L!Statuses \union {"none", "invalid", "cancelled", "deadline"}]
        /\ \A d \in Clients \ {c} :
             /\ clientAt'[d] = clientAt[d] /\ rest'[d] = rest[d]
             /\ attempts'[d] = attempts[d] /\ clientOutcome'[d] = clientOutcome[d]
        /\ clientAt'[c] \in {"acquire", "idle"}
        /\ \A try : Progress(clientAt'[c], want[c], rest'[c], try, attempts'[c],
                             clientOutcome'[c], heard[c])
    BY <1>1, <1>2, <2>1, <2>2, RaiseMoves
  <2> HIDE DEF s
  <2>4. /\ owner' \in [L!Providers -> Clients \union {NoOne}]
        /\ \A x \in L!Providers \ {s} : owner'[x] = owner[x]
    BY <1>2, <2>1 DEF SearchInv, SearchTyped, L!TypeInvariant
  <2>5. SearchTyped'
    BY <1>1, <2>3, <2>4 DEF SearchInv, SearchTyped, L!TypeInvariant
  <2>6. LockKept' /\ QuietKept'
    BY <1>1, <1>2, <1>3, <2>3, <2>4, <2>5, LockMoves DEF s
  <2>7. \A d \in Clients : ClientKept(d)'
    BY <1>1, <2>3, ClientRests DEF SearchInv, ClientKept
  <2> QED BY <2>5, <2>6, <2>7 DEF SearchInv
<1>5. CASE ~(coolIn[s] > 0)
  <2>1. clientAt' = [clientAt EXCEPT ![c] = "space"] /\ UNCHANGED <<owner, attempts, rest, clientOutcome>>
    BY <1>5 DEF L!CheckCooldown, L!Go
  <2>2. /\ clientAt' \in [Clients -> {"idle", "acquire", "cool", "space", "sent"}]
        /\ clientAt'[c] = "space" /\ \A d \in Clients \ {c} : clientAt'[d] = clientAt[d]
    BY <2>1 DEF SearchInv, SearchTyped, L!TypeInvariant
  <2>3. SearchTyped'
    BY <1>1, <2>1, <2>2 DEF SearchInv, SearchTyped, L!TypeInvariant
  <2>4. coolIn[s] = 0 /\ owner[s] = c
    BY <1>2, <1>3, <1>5 DEF SearchInv, LockKept
  <2> HIDE DEF s
  <2>5. LockKept' /\ QuietKept'
    BY <1>1, <1>2, <1>3, <2>1, <2>2, <2>3, <2>4, LockMoves DEF s
  <2>6. Progress("space", want[c], rest[c], attempt[c], attempts[c], clientOutcome[c], heard[c])
    <3>1. Progress("cool", want[c], rest[c], attempt[c], attempts[c], clientOutcome[c], heard[c])
      BY <1>1 DEF SearchInv, ClientKept
    <3>2. attempt[c] = 0 /\ Cardinality(Asked(heard[c], Head(rest[c]))) = 0 /\ 0 < MaxAttempts
      <4>1. attempt[c] = 0 /\ Asked(heard[c], Head(rest[c])) = {}
        BY <3>1 DEF Progress
      <4>2. Cardinality({}) = 0 /\ 0 < MaxAttempts
        BY FS_EmptySet, SearchConstants
      <4> QED BY <4>1, <4>2
    <3> QED BY <3>1, <3>2 DEF Progress
  <2>7. \A d \in Clients : ClientKept(d)'
    BY <1>1, <2>1, <2>2, <2>6, ClientRests DEF SearchInv, ClientKept
  <2> QED BY <2>3, <2>5, <2>7 DEF SearchInv
<1> QED BY <1>4, <1>5

\* A request is made when both the spacing and the quiet are over.
LEMMA SendKeeps ==
  ASSUME SearchInv, NEW c \in Clients, L!Send(c)
  PROVE  SearchInv' /\ \A x \in L!Providers : inFlight'[x] \ inFlight[x] # {} => quietIn[x] = 0
<1> DEFINE s == L!Source(c)
<1>1. /\ clientAt[c] = "space" /\ nextIn[s] = 0
      /\ inFlight' = [inFlight EXCEPT ![s] = inFlight[s] \union {c}]
      /\ clientAt' = [clientAt EXCEPT ![c] = "sent"]
      /\ UNCHANGED <<owner, nextIn, coolIn, current, want, rest, attempt, attempts, clientOutcome,
                     clientCancelled, deadlineIn, quietIn, heard, searches>>
  BY DEF L!Send, L!Go, L!sourceVars, L!tokenVars
<1>2. s \in L!Providers /\ Holds(c) /\ owner[s] = c /\ coolIn[s] = 0
  BY <1>1, HeldSource DEF Holds, SearchInv, LockKept, QuietKept
<1>3. quietIn[s] = 0
  <2>1. quietIn[s] \in Nat /\ (quietIn[s] <= 0)
    BY <1>1, <1>2 DEF SearchInv, QuietKept, SearchTyped, L!TypeInvariant
  <2> QED BY <2>1
<1> HIDE DEF s
<1>4. /\ clientAt' \in [Clients -> {"idle", "acquire", "cool", "space", "sent"}]
      /\ clientAt'[c] = "sent" /\ \A d \in Clients \ {c} : clientAt'[d] = clientAt[d]
      /\ inFlight' \in [L!Providers -> SUBSET Clients]
      /\ inFlight'[s] = inFlight[s] \union {c}
      /\ \A x \in L!Providers \ {s} : inFlight'[x] = inFlight[x]
  BY <1>1, <1>2 DEF SearchInv, SearchTyped, L!TypeInvariant
<1>5. SearchTyped'
  BY <1>1, <1>4 DEF SearchInv, SearchTyped, L!TypeInvariant
<1>6. LockKept' /\ QuietKept'
  BY <1>1, <1>2, <1>3, <1>4, <1>5, LockMoves DEF s
<1>7. Progress("sent", want[c], rest[c], attempt[c], attempts[c], clientOutcome[c], heard[c])
  <2>1. Progress("space", want[c], rest[c], attempt[c], attempts[c], clientOutcome[c], heard[c])
    BY <1>1 DEF SearchInv, ClientKept
  <2> QED BY <2>1 DEF Progress
<1>8. \A d \in Clients : ClientKept(d)'
  BY <1>1, <1>4, <1>7, ClientRests DEF SearchInv, ClientKept
<1>9. \A x \in L!Providers : inFlight'[x] \ inFlight[x] # {} => quietIn[x] = 0
  BY <1>3, <1>4
<1> QED BY <1>5, <1>6, <1>8, <1>9 DEF SearchInv

\* What a search depends on is what it was: only its token, its time or its sources' changed.
LEMMA SameSearches ==
  ASSUME SearchInv, SearchTyped', QuietKept',
         UNCHANGED <<owner, clientAt, want, rest, attempt, attempts, clientOutcome, inFlight, heard>>
  PROVE  SearchInv'
<1>1. \A c : L!Source(c)' = L!Source(c) /\ (Holds(c)' <=> Holds(c))
  BY DEF L!Source, Holds
<1>2. LockKept'
  BY <1>1 DEF SearchInv, LockKept
<1>3. \A c \in Clients : ClientKept(c)'
  BY DEF SearchInv, ClientKept
<1> QED BY <1>2, <1>3 DEF SearchInv

\* A token is cancelled.
LEMMA CancelKeeps ==
  ASSUME SearchInv, NEW c \in Clients, L!Cancel(c)
  PROVE  SearchInv' /\ UNCHANGED inFlight
<1>1. /\ clientCancelled' = [clientCancelled EXCEPT ![c] = TRUE]
      /\ UNCHANGED <<owner, nextIn, coolIn, current, clientAt, want, rest, attempt, attempts,
                     clientOutcome, deadlineIn, inFlight, quietIn, heard, searches>>
  BY DEF L!Cancel, L!sourceVars, L!worldVars
<1>2. SearchTyped'
  BY <1>1 DEF SearchInv, SearchTyped, L!TypeInvariant
<1>3. QuietKept'
  BY <1>1 DEF SearchInv, QuietKept, L!Source
<1> QED BY <1>1, <1>2, <1>3, SameSearches

\* A tick takes as much from the quiet as from what keeps it.
LEMMA TickKeeps ==
  ASSUME SearchInv, L!Tick
  PROVE  SearchInv' /\ UNCHANGED inFlight
<1>1. /\ nextIn' = [s \in L!Providers |-> L!Less(nextIn[s])]
      /\ coolIn' = [s \in L!Providers |-> L!Less(coolIn[s])]
      /\ quietIn' = [s \in L!Providers |-> L!Less(quietIn[s])]
      /\ deadlineIn' = [c \in Clients |-> IF deadlineIn[c] = L!Never THEN L!Never ELSE L!Less(deadlineIn[c])]
      /\ UNCHANGED <<owner, current, clientAt, want, rest, attempt, attempts, clientOutcome,
                     clientCancelled, inFlight, heard, searches>>
  BY DEF L!Tick
<1>2. \A n \in Nat : L!Less(n) \in Nat /\ L!Less(n) <= n
  BY DEF L!Less
<1>3. \A m, n \in Nat : m <= n => L!Less(m) <= L!Less(n)
  BY DEF L!Less
<1>4. L!Less(0) = 0
  BY DEF L!Less
<1>5. SearchTyped'
  <2>1. /\ nextIn' \in [L!Providers -> Nat] /\ coolIn' \in [L!Providers -> Nat]
        /\ quietIn' \in [L!Providers -> Nat]
    BY <1>1, <1>2 DEF SearchInv, SearchTyped, L!TypeInvariant
  <2>2. deadlineIn' \in [Clients -> 0 .. L!Never]
    <3>1. \A n \in 0 .. L!Never : (IF n = L!Never THEN L!Never ELSE L!Less(n)) \in 0 .. L!Never
      BY SearchConstants DEF L!Less, L!Never
    <3>2. deadlineIn \in [Clients -> 0 .. L!Never]
      BY DEF SearchInv, SearchTyped, L!TypeInvariant
    <3> QED BY <1>1, <3>1, <3>2
  <2> QED BY <1>1, <2>1, <2>2 DEF SearchInv, SearchTyped, L!TypeInvariant
<1>6. QuietKept'
  <2>1. \A s \in L!Providers : nextIn[s] \in Nat /\ coolIn[s] \in Nat /\ quietIn[s] \in Nat
    BY DEF SearchInv, SearchTyped, L!TypeInvariant
  <2>2. \A s \in L!Providers :
          /\ nextIn'[s] = L!Less(nextIn[s]) /\ coolIn'[s] = L!Less(coolIn[s])
          /\ quietIn'[s] = L!Less(quietIn[s])
    BY <1>1
  <2>3. \A s \in L!Providers : quietIn'[s] <= nextIn'[s] \/ quietIn'[s] <= coolIn'[s]
    BY <1>3, <2>1, <2>2 DEF SearchInv, QuietKept
  <2>4. \A c \in Clients : clientAt[c] \in {"space", "sent"} =>
          L!Source(c)' = L!Source(c) /\ L!Source(c) \in L!Providers
    BY <1>1, HeldSource DEF L!Source
  <2>5. \A c \in Clients :
          /\ clientAt[c] \in {"space", "sent"} => coolIn[L!Source(c)] = 0
          /\ clientAt[c] = "sent" => quietIn[L!Source(c)] = 0
    BY DEF SearchInv, QuietKept
  <2>6. \A c \in Clients :
          /\ clientAt'[c] \in {"space", "sent"} => coolIn'[L!Source(c)'] = 0
          /\ clientAt'[c] = "sent" => quietIn'[L!Source(c)'] = 0
    BY <1>1, <1>4, <2>2, <2>4, <2>5
  <2> QED BY <2>3, <2>6 DEF QuietKept
<1> QED BY <1>1, <1>5, <1>6, SameSearches

(* The ends of a request. *)

\* What every end of a request does: the source is told of it, and is left alone for as long
\* as it asked for, by its spacing or by the cooldown that is set with it.
LEMMA EndsMoves ==
  ASSUME SearchInv, NEW c \in Clients, NEW s, s = L!Source(c),
         NEW st \in L!Statuses, NEW quiet \in Nat, NEW next \in Nat, L!Ends(c, st, quiet, next)
  PROVE  /\ clientAt[c] = "sent" /\ Holds(c) /\ s \in L!Providers
         /\ inFlight' \in [L!Providers -> SUBSET Clients] /\ quietIn' \in [L!Providers -> Nat]
         /\ nextIn' \in [L!Providers -> Nat] /\ heard' \in [Clients -> L!Told]
         /\ \A x \in L!Providers \ {s} :
              inFlight'[x] = inFlight[x] /\ quietIn'[x] = quietIn[x] /\ nextIn'[x] = nextIn[x]
         /\ inFlight'[s] = inFlight[s] \ {c}
         /\ quietIn'[s] <= quiet \/ quietIn'[s] <= nextIn'[s]
         /\ heard'[c] = Append(heard[c], [source |-> s, status |-> st])
         /\ \A d \in Clients \ {c} : heard'[d] = heard[d]
         /\ UNCHANGED <<want, clientCancelled, deadlineIn, searches>>
<1>1. /\ clientAt[c] = "sent"
      /\ inFlight' = [inFlight EXCEPT ![s] = inFlight[s] \ {c}]
      /\ quietIn' = [quietIn EXCEPT ![s] = L!Longer(L!Longer(quietIn[s], quiet), Interval[s])]
      /\ heard' = [heard EXCEPT ![c] = Append(heard[c], [source |-> s, status |-> st])]
      /\ nextIn' = [nextIn EXCEPT ![s] = L!Longer(Interval[s], next)]
      /\ UNCHANGED <<want, clientCancelled, deadlineIn, searches>>
  BY DEF L!Ends, L!Hear, L!tokenVars
<1>2. Holds(c) /\ s \in L!Providers /\ quietIn[s] = 0
  BY <1>1, HeldSource DEF Holds, SearchInv, QuietKept
<1>3. \A m, n \in Nat : L!Longer(m, n) \in Nat /\ m <= L!Longer(m, n)
                        /\ (L!Longer(m, n) = m \/ L!Longer(m, n) = n)
  BY DEF L!Longer
<1>4. Interval[s] \in Nat
  BY <1>2, SearchConstants
<1>5. /\ L!Longer(L!Longer(quietIn[s], quiet), Interval[s]) \in Nat
      /\ L!Longer(Interval[s], next) \in Nat /\ Interval[s] <= L!Longer(Interval[s], next)
      /\ \/ L!Longer(L!Longer(quietIn[s], quiet), Interval[s]) <= quiet
         \/ L!Longer(L!Longer(quietIn[s], quiet), Interval[s]) <= Interval[s]
  <2>1. L!Longer(quietIn[s], quiet) = quiet
    BY <1>2 DEF L!Longer
  <2>2. \A m, n \in Nat :
          /\ L!Longer(m, n) <= m \/ L!Longer(m, n) <= n
          /\ L!Longer(m, n) \in Nat /\ m <= L!Longer(m, n)
    BY DEF L!Longer
  <2>3. quiet \in Nat /\ next \in Nat /\ Interval[s] \in Nat
    BY <1>4
  <2> QED BY <2>1, <2>2, <2>3
<1>6. /\ inFlight' \in [L!Providers -> SUBSET Clients] /\ inFlight'[s] = inFlight[s] \ {c}
      /\ quietIn' \in [L!Providers -> Nat] /\ nextIn' \in [L!Providers -> Nat]
      /\ quietIn'[s] = L!Longer(L!Longer(quietIn[s], quiet), Interval[s])
      /\ nextIn'[s] = L!Longer(Interval[s], next)
      /\ \A x \in L!Providers \ {s} :
           inFlight'[x] = inFlight[x] /\ quietIn'[x] = quietIn[x] /\ nextIn'[x] = nextIn[x]
  BY <1>1, <1>2, <1>5 DEF SearchInv, SearchTyped, L!TypeInvariant
<1>7. quietIn'[s] <= quiet \/ quietIn'[s] <= nextIn'[s]
  <2>1. CASE quietIn'[s] <= quiet
    BY <2>1
  <2>2. CASE quietIn'[s] <= Interval[s]
    <3>1. \A k, m, n \in Nat : k <= m /\ m <= n => k <= n
      OBVIOUS
    <3> QED BY <2>2, <3>1, <1>2, <1>4, <1>5, <1>6
  <2> QED BY <2>1, <2>2, <1>5, <1>6
<1>8. /\ heard' \in [Clients -> L!Told]
      /\ heard'[c] = Append(heard[c], [source |-> s, status |-> st])
      /\ \A d \in Clients \ {c} : heard'[d] = heard[d]
  <2>1. Append(heard[c], [source |-> s, status |-> st]) \in L!Told
    <3>1. heard[c] \in L!Told
      BY DEF SearchInv, SearchTyped
    <3> QED BY <3>1, <1>2 DEF L!Told
  <2> QED BY <1>1, <2>1 DEF SearchInv, SearchTyped
<1> QED BY <1>1, <1>2, <1>6, <1>7, <1>8

\* What a client has heard, with the end of its request.
LEMMA HeardMore ==
  ASSUME SearchInv, NEW c \in Clients, clientAt[c] = "sent", NEW st \in L!Statuses, heard'[c] \in L!Told,
         heard'[c] = Append(heard[c], [source |-> L!Source(c), status |-> st])
  PROVE  /\ \A x \in L!Providers : Cardinality(Asked(heard'[c], x)) <= MaxAttempts
         /\ \A x \in L!Providers \ {L!Source(c)} : Asked(heard'[c], x) = Asked(heard[c], x)
         /\ Cardinality(Asked(heard'[c], L!Source(c))) = attempt[c] + 1
         /\ attempt[c] \in Nat /\ attempt[c] < MaxAttempts
         /\ st = "unavailable" => AllFailed(heard'[c])
         /\ \A k \in 1 .. Len(heard'[c]) : heard'[c][k].status # "unavailable" => k = Len(heard'[c])
         /\ heard'[c] # <<>> /\ heard'[c][Len(heard'[c])] = [source |-> L!Source(c), status |-> st]
<1> DEFINE s == L!Source(c)
           more == heard'[c]
<1>10. s = L!Source(c)
  OBVIOUS
<1> HIDE DEF more, s
<1>0. more \in L!Told /\ more = Append(heard[c], [source |-> s, status |-> st])
  BY <1>10 DEF more
<1>1. /\ s \in L!Providers /\ s = Head(rest[c]) /\ heard[c] \in L!Told
      /\ Trying(want[c], rest[c], attempts[c], heard[c])
  BY <1>10, HeldSource DEF SearchInv, SearchTyped
<1>2. attempt[c] \in Nat
  BY SearchConstants DEF SearchInv, SearchTyped, L!TypeInvariant
<1>3. /\ attempt[c] < MaxAttempts /\ Cardinality(Asked(heard[c], s)) = attempt[c]
      /\ \A x \in L!Providers : Cardinality(Asked(heard[c], x)) <= MaxAttempts
  BY <1>1 DEF SearchInv, ClientKept, Progress
<1>4. /\ Cardinality(Asked(more, s)) = Cardinality(Asked(heard[c], s)) + 1
      /\ \A x \in L!Providers \ {s} : Asked(more, x) = Asked(heard[c], x)
  BY <1>0, <1>1, AskedMore
<1>5. \A x \in L!Providers : Cardinality(Asked(more, x)) <= MaxAttempts
  BY <1>0, <1>1, <1>2, <1>3, BoundKept
<1>6. /\ Len(heard[c]) \in Nat /\ Len(more) = Len(heard[c]) + 1
      /\ \A k \in 1 .. Len(heard[c]) : more[k] = heard[c][k]
      /\ more[Len(heard[c]) + 1] = [source |-> s, status |-> st]
  BY <1>0, <1>1 DEF L!Told
<1>7. \A k \in 1 .. Len(heard[c]) : heard[c][k].status = "unavailable"
  BY <1>1 DEF Trying, AllFailed
<1>8. /\ st = "unavailable" => AllFailed(more)
      /\ \A k \in 1 .. Len(more) : more[k].status # "unavailable" => k = Len(more)
  BY <1>6, <1>7 DEF AllFailed
<1>9. more # <<>>
  BY <1>0, <1>6, EmptySeq DEF L!Told
<1> QED BY <1>2, <1>3, <1>4, <1>5, <1>6, <1>8, <1>9 DEF more, s

\* A request that ends a search, or moves it to the next source, gives the lock back.
LEMMA ReleaseKeeps ==
  ASSUME SearchInv, NEW c \in Clients, NEW s \in L!Providers, s = L!Source(c), Holds(c),
         owner' = [owner EXCEPT ![s] = NoOne],
         inFlight' \in [L!Providers -> SUBSET Clients], quietIn' \in [L!Providers -> Nat],
         nextIn' \in [L!Providers -> Nat], coolIn' \in [L!Providers -> Nat],
         heard' \in [Clients -> L!Told], attempts' \in [Clients -> L!Told],
         attempt' \in [Clients -> 0 .. MaxAttempts], current' \in [Clients -> 1 .. Len(Order)],
         clientAt' \in [Clients -> {"idle", "acquire", "cool", "space", "sent"}],
         rest' \in [Clients -> Seq(L!Providers)],
         clientOutcome' \in [Clients -> L!Statuses \union {"none", "invalid", "cancelled", "deadline"}],
         UNCHANGED <<want, clientCancelled, deadlineIn, searches>>,
         \A d \in Clients \ {c} :
           /\ clientAt'[d] = clientAt[d] /\ rest'[d] = rest[d] /\ attempt'[d] = attempt[d]
           /\ attempts'[d] = attempts[d] /\ clientOutcome'[d] = clientOutcome[d]
           /\ heard'[d] = heard[d],
         \A x \in L!Providers \ {s} :
           /\ inFlight'[x] = inFlight[x] /\ quietIn'[x] = quietIn[x]
           /\ nextIn'[x] = nextIn[x] /\ coolIn'[x] = coolIn[x],
         inFlight'[s] = inFlight[s] \ {c},
         quietIn'[s] <= nextIn'[s] \/ quietIn'[s] <= coolIn'[s],
         clientAt'[c] \in {"acquire", "idle"},
         Progress(clientAt'[c], want[c], rest'[c], attempt'[c], attempts'[c],
                  clientOutcome'[c], heard'[c])
  PROVE  SearchInv'
<1>1. /\ owner' \in [L!Providers -> Clients \union {NoOne}]
      /\ \A x \in L!Providers \ {s} : owner'[x] = owner[x]
  BY DEF SearchInv, SearchTyped, L!TypeInvariant
<1>2. SearchTyped'
  BY <1>1 DEF SearchInv, SearchTyped, L!TypeInvariant
<1>3. LockKept' /\ QuietKept'
  BY <1>1, <1>2, LockMoves
<1>4. \A d \in Clients : ClientKept(d)'
  <2> SUFFICES ASSUME NEW d \in Clients PROVE ClientKept(d)'
    OBVIOUS
  <2>1. CASE d # c
    BY <2>1, ClientRests DEF SearchInv
  <2>2. CASE d = c
    BY <2>2 DEF ClientKept
  <2> QED BY <2>1, <2>2
<1> QED BY <1>2, <1>3, <1>4 DEF SearchInv

\* A source fails a request, and the search is at its next source, or at its end.
LEMMA FailKeeps ==
  ASSUME SearchInv, NEW c \in Clients, NEW st \in {"unavailable", "rejected"}, NEW quiet \in Nat,
         NEW next \in Nat, L!Ends(c, st, quiet, next), L!Raise(c, st), L!Release(L!Source(c)),
         attempt' \in [Clients -> 0 .. MaxAttempts],
         \A d \in Clients \ {c} : attempt'[d] = attempt[d],
         UNCHANGED current, coolIn' \in [L!Providers -> Nat],
         \A x \in L!Providers \ {L!Source(c)} : coolIn'[x] = coolIn[x],
         quiet = 0 \/ quiet <= coolIn'[L!Source(c)]
  PROVE  SearchInv'
<1> DEFINE s == L!Source(c)
<1>1. st \in L!Statuses
  BY DEF L!Statuses
<1>2. /\ clientAt[c] = "sent" /\ Holds(c) /\ s \in L!Providers
      /\ inFlight' \in [L!Providers -> SUBSET Clients] /\ quietIn' \in [L!Providers -> Nat]
      /\ nextIn' \in [L!Providers -> Nat] /\ heard' \in [Clients -> L!Told]
      /\ \A x \in L!Providers \ {s} :
           inFlight'[x] = inFlight[x] /\ quietIn'[x] = quietIn[x] /\ nextIn'[x] = nextIn[x]
      /\ inFlight'[s] = inFlight[s] \ {c}
      /\ quietIn'[s] <= quiet \/ quietIn'[s] <= nextIn'[s]
      /\ heard'[c] = Append(heard[c], [source |-> s, status |-> st])
      /\ \A d \in Clients \ {c} : heard'[d] = heard[d]
      /\ UNCHANGED <<want, clientCancelled, deadlineIn, searches>>
  BY <1>1, EndsMoves
<1>3. heard'[c] \in L!Told
  BY <1>2
<1>4. /\ \A x \in L!Providers : Cardinality(Asked(heard'[c], x)) <= MaxAttempts
      /\ \A x \in L!Providers \ {s} : Asked(heard'[c], x) = Asked(heard[c], x)
      /\ st = "unavailable" => AllFailed(heard'[c])
      /\ \A k \in 1 .. Len(heard'[c]) : heard'[c][k].status # "unavailable" => k = Len(heard'[c])
  BY <1>1, <1>2, <1>3, HeardMore
<1>5. /\ clientAt' \in [Clients -> {"idle", "acquire", "cool", "space", "sent"}]
      /\ rest' \in [Clients -> Seq(L!Providers)] /\ attempts' \in [Clients -> L!Told]
      /\ clientOutcome' \in [Clients -> L!Statuses \union {"none", "invalid", "cancelled", "deadline"}]
      /\ \A d \in Clients \ {c} :
           /\ clientAt'[d] = clientAt[d] /\ rest'[d] = rest[d]
           /\ attempts'[d] = attempts[d] /\ clientOutcome'[d] = clientOutcome[d]
      /\ clientAt'[c] \in {"acquire", "idle"}
      /\ \A try : Progress(clientAt'[c], want[c], rest'[c], try, attempts'[c],
                           clientOutcome'[c], heard'[c])
  BY <1>2, <1>3, <1>4, RaiseMoves
<1>6. quietIn'[s] <= nextIn'[s] \/ quietIn'[s] <= coolIn'[s]
  <2>1. quietIn'[s] \in Nat /\ nextIn'[s] \in Nat /\ coolIn'[s] \in Nat
    BY <1>2
  <2>2. CASE quietIn'[s] <= quiet /\ quiet = 0
    BY <2>1, <2>2
  <2>3. CASE quietIn'[s] <= quiet /\ quiet <= coolIn'[s]
    BY <2>1, <2>3
  <2> QED BY <1>2, <2>2, <2>3
<1>7. owner' = [owner EXCEPT ![s] = NoOne] /\ current' \in [Clients -> 1 .. Len(Order)]
  BY DEF L!Release, SearchInv, SearchTyped, L!TypeInvariant
<1>8. Progress(clientAt'[c], want[c], rest'[c], attempt'[c], attempts'[c], clientOutcome'[c], heard'[c])
  BY <1>5
<1> QED BY <1>2, <1>5, <1>6, <1>7, <1>8, ReleaseKeeps

\* The numbers of attempts, and the cooldowns, that do not change.
LEMMA SameCounts ==
  ASSUME SearchInv, UNCHANGED <<coolIn, attempt>>
  PROVE  /\ attempt' \in [Clients -> 0 .. MaxAttempts] /\ coolIn' \in [L!Providers -> Nat]
         /\ \A d : attempt'[d] = attempt[d]
         /\ \A x : coolIn'[x] = coolIn[x]
BY DEF SearchInv, SearchTyped, L!TypeInvariant

\* A body that is not what was asked for, or a request that the source rejects.
LEMMA RejectedKeeps ==
  ASSUME SearchInv, NEW c \in Clients, L!Rejected(c)
  PROVE  SearchInv'
<1>1. /\ L!Ends(c, "rejected", 0, 0) /\ L!Raise(c, "rejected") /\ L!Release(L!Source(c))
      /\ UNCHANGED <<coolIn, current, attempt>>
  BY DEF L!Rejected
<1> QED BY <1>1, SameCounts, FailKeeps

\* A source that cannot serve the request.
LEMMA UnservedKeeps ==
  ASSUME SearchInv, NEW c \in Clients, L!Unserved(c)
  PROVE  SearchInv'
<1>1. /\ L!Ends(c, "unavailable", 0, 0) /\ L!Raise(c, "unavailable") /\ L!Release(L!Source(c))
      /\ UNCHANGED <<coolIn, current, attempt>>
  BY DEF L!Unserved
<1> QED BY <1>1, SameCounts, FailKeeps

\* A cooldown that is set.
LEMMA CoolMoves ==
  ASSUME SearchInv, NEW c \in Clients, L!Source(c) \in L!Providers, NEW ticks \in Nat,
         L!Cools(c, ticks)
  PROVE  /\ coolIn' \in [L!Providers -> Nat] /\ coolIn'[L!Source(c)] = ticks
         /\ \A x \in L!Providers \ {L!Source(c)} : coolIn'[x] = coolIn[x]
BY DEF SearchInv, SearchTyped, L!TypeInvariant, L!Cools

\* A source that limits its clients, or has failed and says when to come back.
LEMMA LimitedKeeps ==
  ASSUME SearchInv, NEW c \in Clients, NEW quiet \in L!RetryAfters \union L!QuotaCooldowns,
         L!Limited(c, quiet)
  PROVE  SearchInv'
<1>1. /\ L!Ends(c, "unavailable", quiet, 0) /\ L!Cools(c, L!Longer(Cooldown, quiet))
      /\ L!Raise(c, "unavailable") /\ L!Release(L!Source(c)) /\ UNCHANGED <<current, attempt>>
  BY DEF L!Limited
<1>2. quiet \in Nat
  BY SearchConstants DEF L!RetryAfters, L!QuotaCooldowns
<1>3. L!Longer(Cooldown, quiet) \in Nat /\ quiet <= L!Longer(Cooldown, quiet)
  BY <1>2, SearchConstants DEF L!Longer
<1>4. L!Source(c) \in L!Providers
  <2>1. clientAt[c] # "idle"
    BY <1>1 DEF L!Ends
  <2> QED BY <2>1, HeldSource
<1>5. /\ coolIn' \in [L!Providers -> Nat] /\ coolIn'[L!Source(c)] = L!Longer(Cooldown, quiet)
      /\ \A x \in L!Providers \ {L!Source(c)} : coolIn'[x] = coolIn[x]
  BY <1>1, <1>3, <1>4, CoolMoves
<1>6. attempt' \in [Clients -> 0 .. MaxAttempts] /\ \A d \in Clients : attempt'[d] = attempt[d]
  BY <1>1 DEF SearchInv, SearchTyped, L!TypeInvariant
<1> QED BY <1>1, <1>2, <1>3, <1>5, <1>6, FailKeeps

\* A failure that may pass: the request is made again, as long as attempts are left.
LEMMA TransientKeeps ==
  ASSUME SearchInv, NEW c \in Clients, L!Transient(c)
  PROVE  SearchInv'
<1> DEFINE s == L!Source(c)
           next == IF attempt[c] + 1 < MaxAttempts THEN L!Backoff(attempt[c]) ELSE 0
<1>1. /\ L!Ends(c, "unavailable", 0, next) /\ attempt' = [attempt EXCEPT ![c] = attempt[c] + 1]
      /\ UNCHANGED current /\ clientAt[c] = "sent"
  BY DEF L!Transient, L!Ends
<1>2. s \in L!Providers /\ Holds(c)
  BY <1>1, HeldSource DEF Holds
<1>3. attempt[c] \in Nat /\ attempt[c] < MaxAttempts /\ attempt[c] \in 0 .. MaxAttempts
  <2>1. attempt[c] \in 0 .. MaxAttempts
    BY DEF SearchInv, SearchTyped, L!TypeInvariant
  <2>2. attempt[c] < MaxAttempts
    BY <1>1 DEF SearchInv, ClientKept, Progress
  <2> QED BY <2>1, <2>2
<1>4. next \in Nat
  <2>1. L!Backoff(attempt[c]) \in Nat
    BY <1>3, SearchConstants
  <2> QED BY <2>1
<1>5. /\ attempt' \in [Clients -> 0 .. MaxAttempts] /\ attempt'[c] = attempt[c] + 1
      /\ \A d \in Clients \ {c} : attempt'[d] = attempt[d]
  <2>1. attempt[c] + 1 \in 0 .. MaxAttempts
    BY <1>3, SearchConstants
  <2> QED BY <1>1, <2>1 DEF SearchInv, SearchTyped, L!TypeInvariant
<1> HIDE DEF next
<1>6. CASE ~(attempt[c] + 1 < MaxAttempts)
  <2>1. L!Cools(c, Cooldown) /\ L!Raise(c, "unavailable") /\ L!Release(s)
    BY <1>6 DEF L!Transient
  <2>2. /\ coolIn' \in [L!Providers -> Nat]
        /\ \A x \in L!Providers \ {s} : coolIn'[x] = coolIn[x]
    BY <1>2, <2>1, SearchConstants, CoolMoves
  <2> QED BY <1>1, <1>4, <1>5, <2>1, <2>2, FailKeeps
<1>7. CASE attempt[c] + 1 < MaxAttempts
  <2> HIDE DEF s
  <2>1. /\ clientAt' = [clientAt EXCEPT ![c] = "space"]
        /\ UNCHANGED <<owner, coolIn, attempts, rest, clientOutcome>>
    BY <1>7 DEF L!Transient, L!Go
  <2>2. "unavailable" \in L!Statuses /\ 0 \in Nat /\ s = L!Source(c)
    BY DEF L!Statuses, s
  <2>3. /\ inFlight' \in [L!Providers -> SUBSET Clients] /\ quietIn' \in [L!Providers -> Nat]
        /\ nextIn' \in [L!Providers -> Nat] /\ heard' \in [Clients -> L!Told]
        /\ \A x \in L!Providers \ {s} :
             inFlight'[x] = inFlight[x] /\ quietIn'[x] = quietIn[x] /\ nextIn'[x] = nextIn[x]
        /\ inFlight'[s] = inFlight[s] \ {c}
        /\ quietIn'[s] <= 0 \/ quietIn'[s] <= nextIn'[s]
        /\ heard'[c] = Append(heard[c], [source |-> s, status |-> "unavailable"])
        /\ \A d \in Clients \ {c} : heard'[d] = heard[d]
        /\ UNCHANGED <<want, clientCancelled, deadlineIn, searches>>
    BY <1>1, <1>4, <2>2, EndsMoves
  <2>4. /\ clientAt' \in [Clients -> {"idle", "acquire", "cool", "space", "sent"}]
        /\ clientAt'[c] = "space" /\ \A d \in Clients \ {c} : clientAt'[d] = clientAt[d]
    BY <2>1 DEF SearchInv, SearchTyped, L!TypeInvariant
  <2>5. SearchTyped'
    BY <1>1, <1>5, <2>1, <2>3, <2>4 DEF SearchInv, SearchTyped, L!TypeInvariant
  <2>6. owner[s] = c /\ coolIn[s] = 0 /\ quietIn'[s] \in Nat /\ nextIn'[s] \in Nat
    BY <1>1, <1>2, <2>2, <2>3 DEF SearchInv, LockKept, QuietKept
  <2>7. quietIn'[s] <= nextIn'[s] \/ quietIn'[s] <= coolIn'[s]
    <3>1. \A m, n \in Nat : m <= 0 => m <= n
      OBVIOUS
    <3> QED BY <2>3, <2>6, <3>1
  <2>8. LockKept' /\ QuietKept'
    <3>1. /\ \A d \in Clients \ {c} : clientAt'[d] = clientAt[d] /\ rest'[d] = rest[d]
          /\ \A x \in L!Providers \ {s} :
               /\ owner'[x] = owner[x] /\ inFlight'[x] = inFlight[x]
               /\ coolIn'[x] = coolIn[x] /\ nextIn'[x] = nextIn[x] /\ quietIn'[x] = quietIn[x]
          /\ \A d \in Clients \ {c} : d \in inFlight'[s] <=> d \in inFlight[s]
      BY <2>1, <2>3, <2>4
    <3>2. /\ clientAt'[c] = "space" /\ rest'[c] = rest[c] /\ owner'[s] = c
          /\ c \notin inFlight'[s] /\ coolIn'[s] = 0
      BY <2>1, <2>3, <2>4, <2>6
    <3> QED BY <1>2, <2>2, <2>5, <2>7, <3>1, <3>2, LockMoves
  <2>9. Progress("space", want[c], rest[c], attempt[c] + 1, attempts[c], clientOutcome[c], heard'[c])
    <3>1. heard'[c] \in L!Told
      BY <2>3
    <3>2. /\ \A x \in L!Providers : Cardinality(Asked(heard'[c], x)) <= MaxAttempts
          /\ \A x \in L!Providers \ {s} : Asked(heard'[c], x) = Asked(heard[c], x)
          /\ Cardinality(Asked(heard'[c], s)) = attempt[c] + 1
          /\ AllFailed(heard'[c])
      BY <1>1, <2>2, <2>3, <3>1, HeardMore
    <3>3. /\ Trying(want[c], rest[c], attempts[c], heard[c]) /\ s = Head(rest[c])
          /\ rest[c] \in Seq(L!Providers) /\ rest[c] # <<>>
      BY <1>1, <2>2, HeldSource
    <3>4. \A k \in 2 .. Len(rest[c]) : Asked(heard'[c], rest[c][k]) = {}
      <4> SUFFICES ASSUME NEW k \in 2 .. Len(rest[c]) PROVE Asked(heard'[c], rest[c][k]) = {}
        OBVIOUS
      <4>1. Len(rest[c]) \in Nat /\ s = rest[c][1]
        BY <3>3
      <4>2. k \in 1 .. Len(rest[c]) /\ 1 \in 1 .. Len(rest[c]) /\ k # 1
        BY <4>1
      <4>3. rest[c][k] # s /\ rest[c][k] \in L!Providers
        BY <3>3, <4>1, <4>2 DEF Trying
      <4>4. Asked(heard[c], rest[c][k]) = {}
        BY <3>3 DEF Trying
      <4> QED BY <3>2, <4>3, <4>4
    <3>5. Trying(want[c], rest[c], attempts[c], heard'[c])
      BY <3>2, <3>3, <3>4 DEF Trying
    <3> QED BY <1>7, <3>2, <3>3, <3>5 DEF Progress
  <2>10. \A d \in Clients : ClientKept(d)'
    <3> SUFFICES ASSUME NEW d \in Clients PROVE ClientKept(d)'
      OBVIOUS
    <3>1. CASE d # c
      BY <1>5, <2>1, <2>3, <2>4, <3>1, ClientRests DEF SearchInv
    <3>2. CASE d = c
      BY <1>5, <2>1, <2>3, <2>4, <2>9, <3>2 DEF ClientKept
    <3> QED BY <3>1, <3>2
  <2> QED BY <2>5, <2>8, <2>10 DEF SearchInv
<1> QED BY <1>6, <1>7

\* A source has the answer.
LEMMA FoundKeeps ==
  ASSUME SearchInv, NEW c \in Clients, L!Found(c)
  PROVE  SearchInv'
<1> DEFINE s == L!Source(c)
<1>1. /\ L!Ends(c, "success", 0, 0) /\ L!Record(c, "success") /\ L!End(c, "success")
      /\ owner' = [owner EXCEPT ![s] = NoOne] /\ UNCHANGED <<coolIn, attempt>>
      /\ IF want[c] = "auto" THEN current' = [current EXCEPT ![c] = CHOOSE k \in 1 .. Len(Order) : Order[k] = s]
                             ELSE UNCHANGED current
  BY DEF L!Found, L!Release
<1>2. "success" \in L!Statuses /\ 0 \in Nat
  BY DEF L!Statuses
<1>3. /\ clientAt[c] = "sent" /\ Holds(c) /\ s \in L!Providers
      /\ inFlight' \in [L!Providers -> SUBSET Clients] /\ quietIn' \in [L!Providers -> Nat]
      /\ nextIn' \in [L!Providers -> Nat] /\ heard' \in [Clients -> L!Told]
      /\ \A x \in L!Providers \ {s} :
           inFlight'[x] = inFlight[x] /\ quietIn'[x] = quietIn[x] /\ nextIn'[x] = nextIn[x]
      /\ inFlight'[s] = inFlight[s] \ {c}
      /\ quietIn'[s] <= 0 \/ quietIn'[s] <= nextIn'[s]
      /\ heard'[c] = Append(heard[c], [source |-> s, status |-> "success"])
      /\ \A d \in Clients \ {c} : heard'[d] = heard[d]
      /\ UNCHANGED <<want, clientCancelled, deadlineIn, searches>>
  BY <1>1, <1>2, EndsMoves
<1>4. /\ clientAt' \in [Clients -> {"idle", "acquire", "cool", "space", "sent"}]
      /\ rest' \in [Clients -> Seq(L!Providers)]
      /\ clientOutcome' \in [Clients -> L!Statuses \union {"none", "invalid", "cancelled", "deadline"}]
      /\ \A d \in Clients \ {c} :
           clientAt'[d] = clientAt[d] /\ rest'[d] = rest[d] /\ clientOutcome'[d] = clientOutcome[d]
      /\ clientAt'[c] = "idle" /\ rest'[c] = <<>> /\ clientOutcome'[c] = "success"
  BY <1>1, <1>2, EndMoves
<1>5. current' \in [Clients -> 1 .. Len(Order)]
  <2>1. \E k \in 1 .. Len(Order) : Order[k] = s
    BY <1>3, SearchConstants DEF L!Providers, L!Range
  <2>2. (CHOOSE k \in 1 .. Len(Order) : Order[k] = s) \in 1 .. Len(Order)
    BY <2>1
  <2> QED BY <1>1, <2>2 DEF SearchInv, SearchTyped, L!TypeInvariant
<1>6. /\ attempts[c] \in L!Told /\ heard[c] \in L!Told /\ heard'[c] \in L!Told
      /\ Trying(want[c], rest[c], attempts[c], heard[c])
  BY <1>3, HeldSource DEF SearchInv, SearchTyped
<1>7. /\ attempts' \in [Clients -> L!Told]
      /\ attempts'[c] = Append(attempts[c], [source |-> s, status |-> "success"])
      /\ \A d \in Clients \ {c} : attempts'[d] = attempts[d]
  <2>1. Append(attempts[c], [source |-> s, status |-> "success"]) \in L!Told
    BY <1>2, <1>3, <1>6 DEF L!Told
  <2>2. attempts' = [attempts EXCEPT ![c] = Append(attempts[c], [source |-> s, status |-> "success"])]
    BY <1>1 DEF L!Record
  <2> QED BY <2>1, <2>2 DEF SearchInv, SearchTyped
<1>8. Progress("idle", want[c], <<>>, attempt[c], attempts'[c], "success", heard'[c])
  <2>1. /\ \A x \in L!Providers : Cardinality(Asked(heard'[c], x)) <= MaxAttempts
        /\ \A k \in 1 .. Len(heard'[c]) : heard'[c][k].status # "unavailable" => k = Len(heard'[c])
        /\ heard'[c] # <<>> /\ heard'[c][Len(heard'[c])] = [source |-> s, status |-> "success"]
    BY <1>2, <1>3, <1>6, HeardMore
  <2>2. /\ Len(attempts[c]) \in Nat /\ Len(attempts'[c]) = Len(attempts[c]) + 1
        /\ \A k \in 1 .. Len(attempts[c]) : attempts'[c][k] = attempts[c][k]
        /\ attempts'[c][Len(attempts[c]) + 1] = [source |-> s, status |-> "success"]
    BY <1>6, <1>7 DEF L!Told
  <2>3. attempts'[c] # <<>> /\ attempts'[c][Len(attempts'[c])] = [source |-> s, status |-> "success"]
    <3>1. Len(attempts'[c]) # 0
      BY <2>2
    <3>2. attempts'[c] \in L!Told
      BY <1>7
    <3>3. attempts'[c] # <<>>
      BY <3>1, <3>2, EmptySeq DEF L!Told
    <3> QED BY <2>2, <3>3
  <2>4. \A k \in 1 .. Len(attempts'[c]) - 1 : attempts'[c][k].status = "unavailable"
    BY <1>6, <2>2 DEF Trying, AllFailed
  <2>5. Settled(want[c], attempts'[c], "success", heard'[c])
    BY <2>1, <2>3, <2>4 DEF Settled
  <2> QED BY <2>1, <2>5 DEF Progress
<1>9. quietIn'[s] <= nextIn'[s] \/ quietIn'[s] <= coolIn'[s]
  <2>1. quietIn'[s] \in Nat /\ nextIn'[s] \in Nat
    BY <1>3
  <2>2. \A m, n \in Nat : m <= 0 => m <= n
    OBVIOUS
  <2> QED BY <1>3, <2>1, <2>2
<1>10. /\ attempt' \in [Clients -> 0 .. MaxAttempts] /\ coolIn' \in [L!Providers -> Nat]
       /\ \A d : attempt'[d] = attempt[d]
       /\ \A x : coolIn'[x] = coolIn[x]
  BY <1>1, SameCounts
<1>11. Progress(clientAt'[c], want[c], rest'[c], attempt'[c], attempts'[c], clientOutcome'[c], heard'[c])
  BY <1>4, <1>8, <1>10
<1> QED BY <1>1, <1>3, <1>4, <1>5, <1>7, <1>9, <1>10, <1>11, ReleaseKeeps

\* A request that is given up: cancelled, or late.
LEMMA InterruptedKeeps ==
  ASSUME SearchInv, NEW c \in Clients, L!Interrupted(c)
  PROVE  SearchInv'
<1> DEFINE s == L!Source(c)
           how == IF clientCancelled[c] THEN "cancelled" ELSE "deadline"
<1>1. /\ L!Ends(c, "interrupted", 0, 0) /\ L!End(c, how)
      /\ owner' = [owner EXCEPT ![s] = NoOne] /\ UNCHANGED <<coolIn, attempt, attempts, current>>
  BY DEF L!Interrupted, L!Release
<1>2. "interrupted" \in L!Statuses /\ 0 \in Nat /\ how \in {"cancelled", "deadline"}
  BY DEF L!Statuses
<1>3. /\ clientAt[c] = "sent" /\ Holds(c) /\ s \in L!Providers
      /\ inFlight' \in [L!Providers -> SUBSET Clients] /\ quietIn' \in [L!Providers -> Nat]
      /\ nextIn' \in [L!Providers -> Nat] /\ heard' \in [Clients -> L!Told]
      /\ \A x \in L!Providers \ {s} :
           inFlight'[x] = inFlight[x] /\ quietIn'[x] = quietIn[x] /\ nextIn'[x] = nextIn[x]
      /\ inFlight'[s] = inFlight[s] \ {c}
      /\ quietIn'[s] <= 0 \/ quietIn'[s] <= nextIn'[s]
      /\ heard'[c] = Append(heard[c], [source |-> s, status |-> "interrupted"])
      /\ \A d \in Clients \ {c} : heard'[d] = heard[d]
      /\ UNCHANGED <<want, clientCancelled, deadlineIn, searches>>
  BY <1>1, <1>2, EndsMoves
<1> HIDE DEF how
<1>4. /\ clientAt' \in [Clients -> {"idle", "acquire", "cool", "space", "sent"}]
      /\ rest' \in [Clients -> Seq(L!Providers)]
      /\ clientOutcome' \in [Clients -> L!Statuses \union {"none", "invalid", "cancelled", "deadline"}]
      /\ \A d \in Clients \ {c} :
           clientAt'[d] = clientAt[d] /\ rest'[d] = rest[d] /\ clientOutcome'[d] = clientOutcome[d]
      /\ clientAt'[c] = "idle" /\ rest'[c] = <<>> /\ clientOutcome'[c] = how
  BY <1>1, <1>2, EndMoves
<1>5. /\ attempts' \in [Clients -> L!Told] /\ current' \in [Clients -> 1 .. Len(Order)]
      /\ \A d \in Clients : attempts'[d] = attempts[d]
  BY <1>1 DEF SearchInv, SearchTyped, L!TypeInvariant
<1>6. Progress("idle", want[c], <<>>, attempt[c], attempts[c], how, heard'[c])
  <2>1. heard'[c] \in L!Told
    BY <1>3
  <2>2. /\ \A x \in L!Providers : Cardinality(Asked(heard'[c], x)) <= MaxAttempts
        /\ \A k \in 1 .. Len(heard'[c]) : heard'[c][k].status # "unavailable" => k = Len(heard'[c])
    BY <1>2, <1>3, <2>1, HeardMore
  <2>3. how \notin {"success", "unavailable"}
    BY <1>2
  <2> QED BY <2>1, <2>2, <2>3, EndProgress
<1>7. quietIn'[s] <= nextIn'[s] \/ quietIn'[s] <= coolIn'[s]
  <2>1. quietIn'[s] \in Nat /\ nextIn'[s] \in Nat
    BY <1>3
  <2>2. \A m, n \in Nat : m <= 0 => m <= n
    OBVIOUS
  <2> QED BY <1>3, <2>1, <2>2
<1>8. /\ attempt' \in [Clients -> 0 .. MaxAttempts] /\ coolIn' \in [L!Providers -> Nat]
      /\ \A d : attempt'[d] = attempt[d]
      /\ \A x : coolIn'[x] = coolIn[x]
  BY <1>1, SameCounts
<1>9. Progress(clientAt'[c], want[c], rest'[c], attempt'[c], attempts'[c], clientOutcome'[c], heard'[c])
  BY <1>4, <1>5, <1>6, <1>8
<1> QED BY <1>1, <1>3, <1>4, <1>5, <1>7, <1>8, <1>9, ReleaseKeeps

(* The invariant, and what it says of the search. *)

\* Searches begin with no client at any source.
LEMMA SearchStarts == L!Init => SearchInv
<1> SUFFICES ASSUME L!Init PROVE SearchInv
  OBVIOUS
<1>1. <<>> \in L!Told /\ <<>> \in Seq(L!Providers) /\ Len(<<>>) = 0
  BY DEF L!Told
<1>2. SearchTyped
  <2>1. 1 \in 1 .. Len(Order)
    BY SearchConstants, EmptySeq
  <2>2. 0 \in 0 .. MaxAttempts /\ 0 \in 0 .. MaxSearches
    BY SearchConstants
  <2>3. deadlineIn \in [Clients -> 0 .. L!Never]
    <3>1. {Deadline, L!Never} \subseteq 0 .. L!Never
      BY SearchConstants DEF L!Never
    <3>2. deadlineIn \in [Clients -> {Deadline, L!Never}]
      BY DEF L!Init
    <3> QED BY <3>1, <3>2
  <2>4. /\ owner \in [L!Providers -> Clients \union {NoOne}] /\ current = [c \in Clients |-> 1]
        /\ nextIn \in [L!Providers -> Nat] /\ coolIn \in [L!Providers -> Nat]
        /\ quietIn \in [L!Providers -> Nat] /\ inFlight \in [L!Providers -> SUBSET Clients]
    BY DEF L!Init
  <2>5. /\ clientAt \in [Clients -> {"idle", "acquire", "cool", "space", "sent"}]
        /\ want \in [Clients -> L!Providers \union {"auto"}]
        /\ clientOutcome \in [Clients -> L!Statuses \union {"none", "invalid", "cancelled", "deadline"}]
        /\ clientCancelled \in [Clients -> BOOLEAN]
    BY DEF L!Init
  <2>6. attempt \in [Clients -> 0 .. MaxAttempts] /\ searches \in 0 .. MaxSearches
    BY <2>2 DEF L!Init
  <2>7. /\ rest \in [Clients -> Seq(L!Providers)]
        /\ attempts \in [Clients -> L!Told] /\ heard \in [Clients -> L!Told]
    BY <1>1 DEF L!Init
  <2> QED BY <2>1, <2>3, <2>4, <2>5, <2>6, <2>7 DEF SearchTyped, L!TypeInvariant
<1>3. LockKept /\ QuietKept
  BY DEF L!Init, LockKept, QuietKept, Holds
<1>4. \A c \in Clients : ClientKept(c)
  <2> SUFFICES ASSUME NEW c \in Clients PROVE ClientKept(c)
    OBVIOUS
  <2>1. \A x : Cardinality(Asked(<<>>, x)) <= MaxAttempts
    <3>1. Cardinality({}) = 0 /\ 0 <= MaxAttempts
      BY FS_EmptySet, SearchConstants
    <3>2. \A x : Asked(<<>>, x) = {}
      BY DEF Asked
    <3> QED BY <3>1, <3>2
  <2>2. Progress("idle", "auto", <<>>, 0, <<>>, "none", <<>>)
    BY <1>1, <2>1, EndProgress
  <2> QED BY <2>2 DEF L!Init, ClientKept
<1> QED BY <1>2, <1>3, <1>4 DEF SearchInv

\* Every step of the search keeps the invariant; a request is made only in quiet.
LEMMA SearchSteps ==
  ASSUME part = "search" => SearchInv, [PartsNext]_PartsVars
  PROVE  /\ part' = "search" => SearchInv'
         /\ part = "search" =>
              \A s \in L!Providers : inFlight'[s] \ inFlight[s] # {} => quietIn[s] = 0
<1> DEFINE InQuiet == \A s \in L!Providers : inFlight'[s] \ inFlight[s] # {} => quietIn[s] = 0
<1>1. CASE SearchNext
  <2>1. SearchInv
    BY <1>1 DEF SearchNext, Only
  <2>2. CASE \E c \in Clients : L!Send(c)
    BY <2>1, <2>2, SendKeeps
  <2>3. CASE \/ \E c \in Clients, s \in L!Providers \union {"auto"}, page \in {1, 2} : L!Search(c, s, page)
             \/ \E c \in Clients, s \in L!Providers : L!Resolve(c, s)
    <3>1. SearchInv'
      BY <2>1, <2>3, SearchKeeps, ResolveKeeps
    <3>2. UNCHANGED inFlight
      BY <2>3 DEF L!Search, L!Resolve, L!Called
    <3> QED BY <3>1, <3>2
  <2>4. CASE \E c \in Clients : L!Acquire(c) \/ L!GiveUp(c) \/ L!CheckCooldown(c)
    <3>1. SearchInv'
      BY <2>1, <2>4, AcquireKeeps, GiveUpKeeps, CheckCooldownKeeps
    <3>2. UNCHANGED inFlight
      BY <2>4 DEF L!Acquire, L!GiveUp, L!CheckCooldown, L!worldVars
    <3> QED BY <3>1, <3>2
  <2>5. CASE \/ \E c \in Clients : \/ L!Found(c) \/ L!Rejected(c) \/ L!Unserved(c)
                                   \/ L!Transient(c) \/ L!Interrupted(c)
             \/ \E c \in Clients, quiet \in L!RetryAfters \union L!QuotaCooldowns : L!Limited(c, quiet)
    <3>1. SearchInv'
      BY <2>1, <2>5, FoundKeeps, RejectedKeeps, UnservedKeeps, TransientKeeps, InterruptedKeeps,
         LimitedKeeps
    <3>2. PICK c \in Clients, st \in L!Statuses : \E quiet, next : L!Ends(c, st, quiet, next)
      BY <2>5 DEF L!Found, L!Rejected, L!Unserved, L!Transient, L!Interrupted, L!Limited, L!Statuses
    <3>3. inFlight' = [inFlight EXCEPT ![L!Source(c)] = inFlight[L!Source(c)] \ {c}]
      BY <3>2 DEF L!Ends
    <3>4. \A s \in L!Providers : inFlight'[s] \subseteq inFlight[s]
      BY <2>1, <3>3 DEF SearchInv, SearchTyped, L!TypeInvariant
    <3> QED BY <3>1, <3>4
  <2>6. CASE (\E c \in Clients : L!Cancel(c)) \/ L!Tick
    BY <2>1, <2>6, CancelKeeps, TickKeeps
  <2>7. CASE L!Done
    <3>1. UNCHANGED searchVars
      BY <2>7 DEF L!Done, L!vars, L!sourceVars, L!tokenVars, L!worldVars, searchVars
    <3>2. SearchTyped' /\ QuietKept'
      BY <2>1, <3>1 DEF searchVars, SearchInv, SearchTyped, QuietKept, L!TypeInvariant, L!Source
    <3> QED BY <2>1, <3>1, <3>2, SameSearches DEF searchVars
  <2> QED BY <1>1, <2>2, <2>3, <2>4, <2>5, <2>6, <2>7 DEF SearchNext
<1>2. CASE RepositoryNext \/ ProcessNext \/ DeletionNext \/ HistoryNext \/ ShellNext
  BY <1>2 DEF RepositoryNext, ProcessNext, DeletionNext, HistoryNext, ShellNext, Repository,
              Process, Deletion, History, Shelling, Only
<1>3. CASE UNCHANGED PartsVars
  <2>1. part' = part /\ UNCHANGED searchVars
    BY <1>3 DEF PartsVars
  <2>2. part = "search" => SearchTyped' /\ QuietKept'
    BY <2>1 DEF searchVars, SearchInv, SearchTyped, QuietKept, L!TypeInvariant, L!Source
  <2>3. part' = "search" => SearchInv'
    BY <2>1, <2>2, SameSearches DEF searchVars
  <2> QED BY <2>1, <2>3 DEF searchVars
<1> QED BY <1>1, <1>2, <1>3 DEF PartsNext

\* The instance of the module counts as this module does.
LEMMA SameCardinality == \A set : L!Cardinality(set) = Cardinality(set)
BY DEF L!Cardinality, Cardinality

\* The invariant is what is claimed of the searches at every moment, and more.
LEMMA SearchInvSound ==
  SearchInv => L!TypeInvariant /\ L!Serialized /\ L!OutcomesTrue /\ L!TriesBounded
<1> SUFFICES ASSUME SearchInv PROVE L!Serialized /\ L!OutcomesTrue /\ L!TriesBounded
  BY DEF SearchInv, SearchTyped
<1>1. L!Serialized
  <2> SUFFICES ASSUME NEW s \in L!Providers PROVE Cardinality(inFlight[s]) <= 1
    BY SameCardinality DEF L!Serialized
  <2>1. \A c, d \in inFlight[s] : c = d
    BY DEF SearchInv, SearchTyped, L!TypeInvariant, LockKept, Holds
  <2>2. CASE inFlight[s] = {}
    BY <2>2, FS_EmptySet
  <2>3. CASE inFlight[s] # {}
    <3>1. PICK c \in inFlight[s] : inFlight[s] = {c}
      BY <2>1, <2>3
    <3> QED BY <3>1, FS_Singleton
  <2> QED BY <2>2, <2>3
<1>2. \A c \in Clients : attempts[c] \in L!Told /\ heard[c] \in L!Told
  BY DEF SearchInv, SearchTyped
<1>3. L!OutcomesTrue
  <2> SUFFICES ASSUME NEW c \in Clients, clientAt[c] = "idle"
               PROVE  /\ clientOutcome[c] = "success" =>
                           /\ heard[c] # <<>> /\ attempts[c] # <<>>
                           /\ heard[c][Len(heard[c])] = attempts[c][Len(attempts[c])]
                           /\ heard[c][Len(heard[c])].status = "success"
                           /\ \A k \in 1 .. Len(attempts[c]) - 1 : attempts[c][k].status = "unavailable"
                      /\ clientOutcome[c] = "unavailable" /\ want[c] = "auto" =>
                           {a.source : a \in L!Range(attempts[c])} = L!Providers
    BY DEF L!OutcomesTrue
  <2>1. Settled(want[c], attempts[c], clientOutcome[c], heard[c])
    BY DEF SearchInv, ClientKept, Progress
  <2>2. clientOutcome[c] = "success" =>
          /\ heard[c] # <<>> /\ attempts[c] # <<>>
          /\ heard[c][Len(heard[c])] = attempts[c][Len(attempts[c])]
          /\ heard[c][Len(heard[c])].status = "success"
          /\ \A k \in 1 .. Len(attempts[c]) - 1 : attempts[c][k].status = "unavailable"
    BY <2>1 DEF Settled
  <2>3. ASSUME clientOutcome[c] = "unavailable", want[c] = "auto"
        PROVE  {a.source : a \in L!Range(attempts[c])} = L!Providers
    <3>1. \A k \in 1 .. Len(attempts[c]) : attempts[c][k].source \in L!Providers
      <4>1. attempts[c] \in Seq([source : L!Providers, status : L!Statuses])
        BY <1>2 DEF L!Told
      <4>2. \A k \in 1 .. Len(attempts[c]) : attempts[c][k] \in [source : L!Providers, status : L!Statuses]
        BY <4>1, ElementOfSeq
      <4> QED BY <4>2
    <3>2. L!Range(attempts[c]) = {attempts[c][k] : k \in 1 .. Len(attempts[c])}
      BY <1>2 DEF L!Range, L!Told
    <3>3. \A s \in L!Providers : \E k \in 1 .. Len(attempts[c]) : attempts[c][k].source = s
      BY <2>1, <2>3 DEF Settled
    <3> QED BY <3>1, <3>2, <3>3
  <2> QED BY <2>2, <2>3
<1>4. L!TriesBounded
  <2> SUFFICES ASSUME NEW c \in Clients
               PROVE  /\ \A s \in L!Providers :
                           Cardinality({k \in 1 .. Len(heard[c]) : heard[c][k].source = s}) <= MaxAttempts
                      /\ \A k \in 1 .. Len(heard[c]) : heard[c][k].status # "unavailable" =>
                           k = Len(heard[c]) /\ clientAt[c] = "idle"
    BY SameCardinality DEF L!TriesBounded
  <2>1. \A s \in L!Providers : Cardinality(Asked(heard[c], s)) <= MaxAttempts
    BY DEF SearchInv, ClientKept, Progress
  <2>2. CASE clientAt[c] = "idle"
    <3>1. Settled(want[c], attempts[c], clientOutcome[c], heard[c])
      BY <2>2 DEF SearchInv, ClientKept, Progress
    <3> QED BY <2>1, <2>2, <3>1 DEF Settled, Asked
  <2>3. CASE clientAt[c] # "idle"
    <3>1. AllFailed(heard[c])
      BY <2>3, HeldSource DEF Trying
    <3> QED BY <2>1, <3>1 DEF AllFailed, Asked
  <2> QED BY <2>2, <2>3
<1> QED BY <1>1, <1>3, <1>4

\* Whatever the threads ask for, the sources answer and the tokens do: a source has at most
\* one request, and none before the quiet it asked for is over; it hears no more of a search
\* than its retries; and a search is told as empty, or failed, only when it was.
THEOREM SearchesAreTrue == PartsSpec => SearchesTrue
<1> DEFINE Kept == part = "search" => SearchInv
           InQuiet == part = "search" =>
             \A s \in L!Providers : inFlight'[s] \ inFlight[s] # {} => quietIn[s] = 0
           Sound == part = "search" =>
             L!TypeInvariant /\ L!Serialized /\ L!OutcomesTrue /\ L!TriesBounded
<1>1. PartsInit => Kept
  BY SearchStarts DEF PartsInit
<1>2. Kept /\ [PartsNext]_PartsVars => Kept' /\ InQuiet
  BY SearchSteps
<1>3. Kept => Sound
  BY SearchInvSound
<1>4. Kept /\ [PartsNext]_PartsVars => [InQuiet]_inFlight
  BY <1>2
<1>5. SearchesTrue <=> []Sound /\ [][InQuiet]_inFlight
  BY DEF SearchesTrue
<1> HIDE DEF Kept, InQuiet, Sound
<1> QED BY <1>1, <1>2, <1>3, <1>4, <1>5, PTL DEF PartsSpec

-----------------------------------------------------------------------------
(* The history of a Session: what Compaction keeps, for all sizes of its parts and however *)
(* many turns, calls and deaths. Two of its operators are defined by recursion, the sum of *)
(* a history and the turn a planner keeps from; what they are is found by the smallest    *)
(* counterexample.                                                                        *)

\* A set of numbers up to n has a least one.
LEMMA LeastOf ==
  ASSUME NEW n \in Nat, NEW T \in SUBSET (0 .. n), T # {}
  PROVE  \E x \in T : \A y \in T : x <= y
<1> DEFINE Dom == 0 .. n
           U == {0 .. t : t \in T}
           R == StrictSubsetOrdering(Dom)
<1>1. IsFiniteSet(Dom)
  BY FS_Interval
<1>2. IsWellFoundedOn(R, SUBSET Dom)
  <2>1. FiniteSubsetsOf(Dom) = SUBSET Dom
    BY <1>1, FS_FiniteSubsetsOfFinite
  <2>2. IsWellFoundedOn(R, FiniteSubsetsOf(Dom))
    BY FS_StrictSubsetOrderingWellFounded
  <2> QED BY <2>1, <2>2
<1>3. U \subseteq SUBSET Dom
  <2>1. \A t \in T : 0 .. t \in SUBSET (0 .. n)
    OBVIOUS
  <2> QED BY <2>1
<1>4. U # {}
  OBVIOUS
<1>5. PICK u \in U : \A v \in U : <<v, u>> \notin R
  <2> HIDE DEF Dom, U, R
  <2> QED BY <1>2, <1>3, <1>4, WFMin
<1>6. PICK x \in T : u = 0 .. x
  OBVIOUS
<1>7. \A y \in T : ~ (y < x)
  <2> SUFFICES ASSUME NEW y \in T, y < x PROVE FALSE
    OBVIOUS
  <2>1. 0 .. y \in U
    OBVIOUS
  <2>2. 0 .. y \subseteq 0 .. x /\ x \in 0 .. x /\ x \notin 0 .. y
    OBVIOUS
  <2>3. 0 .. y # u /\ 0 .. y \subseteq u
    BY <2>2, <1>6
  <2>4. 0 .. y \in SUBSET Dom /\ u \in SUBSET Dom
    BY <2>1, <1>3
  <2>5. <<0 .. y, u>> \in R
    BY <2>3, <2>4 DEF StrictSubsetOrdering
  <2> QED BY <2>1, <2>5, <1>5
<1>8. \A y \in T : y \in Int /\ x \in Int
  OBVIOUS
<1> QED BY <1>7, <1>8

\* The sets of places of a history of n turns are finite, and have up to n places.
LEMMA PlacesFinite ==
  ASSUME NEW n \in Nat, NEW s \in SUBSET (1 .. n)
  PROVE  IsFiniteSet(s) /\ Cardinality(s) \in Nat /\ Cardinality(s) <= n
<1>1. IsFiniteSet(1 .. n)
  BY FS_Interval
<1>2. Cardinality(1 .. n) = n
  BY FS_Interval
<1> QED BY <1>1, <1>2, FS_Subset, FS_CardinalityType

\* The place that a sum takes next from a set, and the places that are left.
PlaceOf(s) == CHOOSE x \in s : TRUE
OtherPlaces(s) == s \ {PlaceOf(s)}

\* They are one less.
LEMMA OthersFewer ==
  ASSUME NEW n \in Nat, NEW s \in SUBSET (1 .. n), s # {}
  PROVE  /\ PlaceOf(s) \in 1 .. n
         /\ OtherPlaces(s) \in SUBSET (1 .. n)
         /\ Cardinality(OtherPlaces(s)) = Cardinality(s) - 1
<1>1. PlaceOf(s) \in s
  BY DEF PlaceOf
<1>2. IsFiniteSet(s)
  BY PlacesFinite
<1>3. Cardinality(OtherPlaces(s)) = Cardinality(s) - 1
  BY <1>1, <1>2, FS_RemoveElement DEF OtherPlaces
<1> QED BY <1>1, <1>3 DEF OtherPlaces

\* The sums that Tokens unfolds to, over the sets of places of a history.
Sums(f, h, Dom) == f = [s \in Dom |-> IF s = {} THEN 0 ELSE h[PlaceOf(s)] + f[OtherPlaces(s)]]

\* The sets of up to m places of a history of n turns.
Upto(n, m) == {s \in SUBSET (1 .. n) : Cardinality(s) <= m}

\* The sums over sets of m places follow from those over sets of fewer.
LEMMA SumsGrow ==
  ASSUME NEW h, NEW n \in Nat, NEW m \in Nat, m # 0, NEW f, Sums(f, h, Upto(n, m - 1))
  PROVE  \E g : Sums(g, h, Upto(n, m))
<1> DEFINE Rule(k, s) == IF s = {} THEN 0 ELSE h[PlaceOf(s)] + k[OtherPlaces(s)]
           g == [s \in Upto(n, m) |-> Rule(f, s)]
<1>1. \A s \in Upto(n, m - 1) : f[s] = Rule(f, s)
  <2> DEFINE Dom == Upto(n, m - 1)
  <2>1. f = [s \in Dom |-> Rule(f, s)]
    BY DEF Sums
  <2> HIDE DEF Dom, Rule
  <2>2. \A s \in Dom : f[s] = Rule(f, s)
    BY <2>1
  <2> QED BY <2>2 DEF Dom
<1>2. \A s \in Upto(n, m - 1) : s \in Upto(n, m)
  BY PlacesFinite DEF Upto
<1>3. \A s \in Upto(n, m - 1) : g[s] = f[s]
  <2> HIDE DEF Rule
  <2> QED BY <1>1, <1>2
<1>4. \A s \in Upto(n, m) : s # {} => OtherPlaces(s) \in Upto(n, m - 1)
  <2> SUFFICES ASSUME NEW s \in SUBSET (1 .. n), Cardinality(s) <= m, s # {}
               PROVE  OtherPlaces(s) \in Upto(n, m - 1)
    BY DEF Upto
  <2>1. OtherPlaces(s) \in SUBSET (1 .. n) /\ Cardinality(OtherPlaces(s)) = Cardinality(s) - 1
    BY OthersFewer
  <2>2. Cardinality(s) \in Nat
    BY PlacesFinite
  <2> QED BY <2>1, <2>2 DEF Upto
<1>5. \A s \in Upto(n, m) : Rule(g, s) = Rule(f, s)
  <2> HIDE DEF g
  <2> QED BY <1>3, <1>4
<1>6. g = [s \in Upto(n, m) |-> Rule(g, s)]
  <2> DEFINE Dom == Upto(n, m)
  <2>1. \A s \in Dom : Rule(g, s) = Rule(f, s)
    BY <1>5
  <2> HIDE DEF Rule, Dom
  <2>2. [s \in Dom |-> Rule(f, s)] = [s \in Dom |-> Rule(g, s)]
    BY <2>1
  <2> QED BY <2>2 DEF Dom
<1>7. Sums(g, h, Upto(n, m))
  BY <1>6 DEF Sums
<1> QED BY <1>7

\* Such sums exist.
LEMMA SumsExist ==
  ASSUME NEW h, NEW n \in Nat
  PROVE  \E f : Sums(f, h, SUBSET (1 .. n))
<1> DEFINE Bad == {m \in 0 .. n : ~ \E f : Sums(f, h, Upto(n, m))}
<1>1. ASSUME Bad # {} PROVE FALSE
  <2>1. PICK m \in Bad : \A k \in Bad : m <= k
    <3>1. Bad \in SUBSET (0 .. n)
      OBVIOUS
    <3> HIDE DEF Bad
    <3> QED BY <1>1, <3>1, LeastOf
  <2>2. CASE m = 0
    <3> DEFINE f == [s \in Upto(n, 0) |-> 0]
    <3>1. \A s \in Upto(n, 0) : s = {}
      <4> SUFFICES ASSUME NEW s \in SUBSET (1 .. n), Cardinality(s) <= 0 PROVE s = {}
        BY DEF Upto
      <4>1. Cardinality(s) = 0 /\ IsFiniteSet(s)
        BY PlacesFinite
      <4> QED BY <4>1, FS_EmptySet
    <3>2. Sums(f, h, Upto(n, 0))
      BY <3>1 DEF Sums
    <3> QED BY <2>2, <3>2
  <2>3. CASE m # 0
    <3>1. m - 1 \in 0 .. n /\ ~ (m <= m - 1) /\ m \in Nat
      BY <2>3
    <3>2. m - 1 \notin Bad
      BY <2>1, <3>1
    <3>3. PICK f : Sums(f, h, Upto(n, m - 1))
      BY <3>1, <3>2
    <3>4. \E g : Sums(g, h, Upto(n, m))
      BY <2>3, <3>1, <3>3, SumsGrow
    <3> QED BY <3>4
  <2> QED BY <2>2, <2>3
<1>2. n \notin Bad
  BY <1>1
<1>3. \A s \in SUBSET (1 .. n) : Cardinality(s) <= n
  BY PlacesFinite
<1>4. Upto(n, n) = SUBSET (1 .. n)
  BY <1>3 DEF Upto
<1>5. \E f : Sums(f, h, Upto(n, n))
  BY <1>2
<1> QED BY <1>4, <1>5

\* What sums to a number of tokens at each place is a number.
LEMMA SumsNatural ==
  ASSUME NEW h \in Seq(Nat), NEW f, Sums(f, h, SUBSET (1 .. Len(h)))
  PROVE  f[1 .. Len(h)] \in Nat
<1> DEFINE n == Len(h)
           Bad == {m \in 0 .. n : \E s \in SUBSET (1 .. n) : Cardinality(s) = m /\ f[s] \notin Nat}
<1>1. \A s \in SUBSET (1 .. n) : f[s] = IF s = {} THEN 0 ELSE h[PlaceOf(s)] + f[OtherPlaces(s)]
  <2> DEFINE Dom == SUBSET (1 .. n)
  <2>1. f = [s \in Dom |-> IF s = {} THEN 0 ELSE h[PlaceOf(s)] + f[OtherPlaces(s)]]
    BY DEF Sums
  <2> HIDE DEF Dom
  <2>2. \A s \in Dom : f[s] = IF s = {} THEN 0 ELSE h[PlaceOf(s)] + f[OtherPlaces(s)]
    BY <2>1
  <2> QED BY <2>2 DEF Dom
<1>2. ASSUME Bad # {} PROVE FALSE
  <2>1. PICK m \in Bad : \A k \in Bad : m <= k
    <3>1. Bad \in SUBSET (0 .. n) /\ n \in Nat
      OBVIOUS
    <3> HIDE DEF Bad, n
    <3> QED BY <1>2, <3>1, LeastOf
  <2>2. PICK s \in SUBSET (1 .. n) : Cardinality(s) = m /\ f[s] \notin Nat
    OBVIOUS
  <2>3. s # {}
    <3>1. f[s] = IF s = {} THEN 0 ELSE h[PlaceOf(s)] + f[OtherPlaces(s)]
      BY <1>1
    <3> QED BY <2>2, <3>1
  <2>4. h[PlaceOf(s)] \in Nat
    BY <2>3, OthersFewer, ElementOfSeq
  <2>5. f[s] = h[PlaceOf(s)] + f[OtherPlaces(s)]
    BY <1>1, <2>3
  <2>6. OtherPlaces(s) \in SUBSET (1 .. n) /\ Cardinality(OtherPlaces(s)) = m - 1
    BY <2>2, <2>3, OthersFewer
  <2>7. m - 1 \in 0 .. n /\ ~ (m <= m - 1)
    <3>1. Cardinality(s) # 0
      BY <2>3, PlacesFinite, FS_EmptySet
    <3> QED BY <2>2, <3>1
  <2>8. f[OtherPlaces(s)] \in Nat
    BY <2>1, <2>6, <2>7
  <2> QED BY <2>2, <2>4, <2>5, <2>8
<1>3. Cardinality(1 .. n) \in 0 .. n
  BY PlacesFinite
<1> QED BY <1>2, <1>3

\* What FirstKept unfolds to, for a history of which the suffixes from the turns of Big on
\* are too long.
Keeps(f, last, Big) ==
  f = [k \in 0 .. last |-> IF k = 0 \/ k \in Big THEN k ELSE f[k - 1]]

\* There is such a function: its value at a place follows from the one before.
LEMMA KeepsExist ==
  ASSUME NEW n \in Nat, NEW Big
  PROVE  \E f : Keeps(f, n, Big)
<1> DEFINE Bad == {m \in 0 .. n : ~ \E f : Keeps(f, m, Big)}
<1>1. ASSUME Bad # {} PROVE FALSE
  <2>1. PICK m \in Bad : \A k \in Bad : m <= k
    <3>1. Bad \in SUBSET (0 .. n)
      OBVIOUS
    <3> HIDE DEF Bad
    <3> QED BY <1>1, <3>1, LeastOf
  <2>2. CASE m = 0
    <3> DEFINE f == [k \in 0 .. 0 |-> 0]
    <3>1. Keeps(f, 0, Big)
      BY DEF Keeps
    <3> QED BY <2>2, <3>1
  <2>3. CASE m # 0
    <3>1. m - 1 \in 0 .. n /\ ~ (m <= m - 1)
      BY <2>3
    <3>2. m - 1 \notin Bad
      BY <2>1, <3>1
    <3>3. PICK f : Keeps(f, m - 1, Big)
      BY <3>1, <3>2
    <3> DEFINE Rule(g, k) == IF k = 0 \/ k \in Big THEN k ELSE g[k - 1]
               Dom == 0 .. m
               E == 0 .. m - 1
               h == [k \in Dom |-> Rule(f, k)]
    <3>4. \A k \in E : f[k] = Rule(f, k)
      <4>1. f = [k \in E |-> Rule(f, k)]
        BY <3>3 DEF Keeps
      <4> HIDE DEF E, Rule
      <4> QED BY <4>1
    <3>5. E \subseteq Dom /\ \A k \in Dom : k # 0 => k - 1 \in E
      BY <2>3
    <3>6. \A k \in E : h[k] = f[k]
      <4> HIDE DEF Dom, E, Rule
      <4> QED BY <3>4, <3>5
    <3>7. \A k \in Dom : Rule(h, k) = Rule(f, k)
      <4> HIDE DEF Dom, E, h
      <4> QED BY <3>5, <3>6
    <3>8. h = [k \in Dom |-> Rule(h, k)]
      <4>1. [k \in Dom |-> Rule(f, k)] = [k \in Dom |-> Rule(h, k)]
        <5> HIDE DEF Dom, Rule, h
        <5> QED BY <3>7
      <4> HIDE DEF Rule, Dom
      <4> QED BY <4>1
    <3>9. Keeps(h, m, Big)
      <4> HIDE DEF h
      <4> QED BY <3>8 DEF Keeps
    <3> QED BY <3>9
  <2> QED BY <2>2, <2>3
<1> QED BY <1>1

\* It finds the last place of Big, or 0 when there is none.
LEMMA KeepsLast ==
  ASSUME NEW n \in Nat, NEW Big, NEW f, Keeps(f, n, Big)
  PROVE  /\ f[n] \in 0 .. n
         /\ f[n] = 0 \/ f[n] \in Big
         /\ \A j \in 0 .. n : j > f[n] => j \notin Big
<1> DEFINE Right(m) == /\ f[m] \in 0 .. m
                       /\ f[m] = 0 \/ f[m] \in Big
                       /\ \A j \in 0 .. m : j > f[m] => j \notin Big
           Bad == {m \in 0 .. n : ~ Right(m)}
<1>1. \A k \in 0 .. n : f[k] = IF k = 0 \/ k \in Big THEN k ELSE f[k - 1]
  <2> DEFINE Dom == 0 .. n
  <2>1. f = [k \in Dom |-> IF k = 0 \/ k \in Big THEN k ELSE f[k - 1]]
    BY DEF Keeps
  <2> HIDE DEF Dom
  <2>2. \A k \in Dom : f[k] = IF k = 0 \/ k \in Big THEN k ELSE f[k - 1]
    BY <2>1
  <2> QED BY <2>2 DEF Dom
<1>2. ASSUME Bad # {} PROVE FALSE
  <2>1. PICK m \in Bad : \A k \in Bad : m <= k
    <3>1. Bad \in SUBSET (0 .. n)
      OBVIOUS
    <3> HIDE DEF Bad
    <3> QED BY <1>2, <3>1, LeastOf
  <2>2. m \in 0 .. n /\ ~ Right(m)
    OBVIOUS
  <2>3. f[m] = IF m = 0 \/ m \in Big THEN m ELSE f[m - 1]
    BY <1>1, <2>2
  <2>4. CASE m = 0 \/ m \in Big
    BY <2>2, <2>3, <2>4
  <2>5. CASE m # 0 /\ m \notin Big
    <3>1. m - 1 \in 0 .. n /\ ~ (m <= m - 1)
      BY <2>5
    <3>2. Right(m - 1)
      <4> HIDE DEF Right
      <4> QED BY <2>1, <3>1
    <3> QED BY <2>2, <2>3, <2>5, <3>2
  <2> QED BY <2>4, <2>5
<1>3. Right(n)
  <2> HIDE DEF Right
  <2> QED BY <1>2
<1> QED BY <1>3

\* The tokens of a history are a number.
LEMMA TokensNatural ==
  ASSUME NEW h \in Seq(Nat)
  PROVE  C!Tokens(h) \in Nat
<1> DEFINE f == CHOOSE g : Sums(g, h, SUBSET (1 .. Len(h)))
<1>1. \E g : Sums(g, h, SUBSET (1 .. Len(h)))
  <2>1. Len(h) \in Nat
    OBVIOUS
  <2> QED BY <2>1, SumsExist
<1>2. Sums(f, h, SUBSET (1 .. Len(h)))
  BY <1>1
<1>3. C!Tokens(h) = f[1 .. Len(h)]
  <2>1. DOMAIN h = 1 .. Len(h)
    OBVIOUS
  <2>2. C!Tokens(h) = f[DOMAIN h]
    BY <2>1, Zenon DEF C!Tokens, C!FoldFunction, C!FoldFunctionOnSet, C!MapThenFoldSet,
          Sums, PlaceOf, OtherPlaces
  <2> QED BY <2>1, <2>2
<1> QED BY <1>2, <1>3, SumsNatural

\* FirstKept is the last turn from which on a history is longer than there is room for, or 0.
LEMMA FirstKeptLast ==
  ASSUME NEW h, NEW n \in Nat, Len(h) = n + 1, NEW room,
         NEW p, p = C!FirstKept(h, room)
  PROVE  /\ p \in 0 .. n
         /\ p = 0 \/ C!Tokens(C!Drop(h, p - 1)) > room
         /\ \A j \in 1 .. n : j > p => ~ (C!Tokens(C!Drop(h, j - 1)) > room)
<1> DEFINE Long == {k \in 1 .. n : C!Tokens(C!Drop(h, k - 1)) > room}
           f == CHOOSE g : Keeps(g, n, Long)
<1>1. \E g : Keeps(g, n, Long)
  BY KeepsExist
<1>2. Keeps(f, n, Long)
  BY <1>1
<1>3. p = f[n]
  <2>1. \A k \in 0 .. n : k = 0 \/ k \in Long <=> k = 0 \/ C!Tokens(C!Drop(h, k - 1)) > room
    OBVIOUS
  <2> DEFINE e(g) == [k \in 0 .. n |-> IF k = 0 \/ k \in Long THEN k ELSE g[k - 1]]
             d(g) == [k \in 0 .. n |-> IF k = 0 \/ C!Tokens(C!Drop(h, k - 1)) > room
                                       THEN k ELSE g[k - 1]]
  <2>2. \A g : e(g) = d(g)
    BY <2>1
  <2>3. p = (CHOOSE g : g = d(g))[n]
    <3>1. Len(h) - 1 = n
      OBVIOUS
    <3> QED BY <3>1, Zenon DEF C!FirstKept
  <2>4. f = CHOOSE g : g = e(g)
    BY DEF Keeps
  <2>5. (CHOOSE g : g = e(g)) = (CHOOSE g : g = d(g))
    <3> HIDE DEF e, d
    <3> QED BY <2>2
  <2> QED BY <2>3, <2>4, <2>5
<1>4. /\ f[n] \in 0 .. n
      /\ f[n] = 0 \/ f[n] \in Long
      /\ \A j \in 0 .. n : j > f[n] => j \notin Long
  <2> HIDE DEF f, Long
  <2> QED BY <1>2, KeepsLast
<1>5. \A k \in 0 .. n : k \in Long <=> k # 0 /\ C!Tokens(C!Drop(h, k - 1)) > room
  OBVIOUS
<1>6. /\ p \in 0 .. n
      /\ p = 0 \/ p \in Long
      /\ \A j \in 0 .. n : j > p => j \notin Long
  <2> HIDE DEF f, Long
  <2> QED BY <1>3, <1>4
<1> HIDE DEF f, Long
<1> QED BY <1>5, <1>6

\* The types, with those of the records.
HistoryTyped ==
  /\ turns \in Seq(TurnSizes) /\ used \in 0 .. MaxRequests /\ plan \in 0 .. Len(turns)
  /\ fixed \in FixedSizes \union {0}
  /\ checkpoint.start \in 0 .. Len(turns) /\ checkpoint.size \in SummarySizes \union {0}
  /\ summary.size \in SummarySizes \union {0}
  /\ loopAt \in {"loop", "plan", "summarise", "publish", "request", "failed"}
  /\ failure \in {"none", "capacity", "calls", "summary"}

\* What a round has come to know: a call is left while it goes on, the boundary planned is
\* past the one there is, the summary received covers all up to it, and a request fits.
RoundKept ==
  /\ loopAt \in {"plan", "publish", "request"} => used < MaxRequests
  /\ loopAt = "summarise" => used + 1 < MaxRequests
  /\ loopAt \in {"summarise", "publish"} => checkpoint.start <= plan
  /\ loopAt = "publish" => summary.covers = [i \in 1 .. plan |-> i]
                             /\ summary.size \in SummarySizes
  /\ loopAt = "request" => C!RequestFits

\* What HistoryKept needs to be inductive.
HistoryInv == HistoryTyped /\ RoundKept /\ C!NothingForgotten

\* The suffix of a history is one of its turns.
LEMMA DropTyped ==
  ASSUME NEW h \in Seq(Nat), NEW k \in 0 .. Len(h)
  PROVE  C!Drop(h, k) \in Seq(Nat) /\ Len(C!Drop(h, k)) = Len(h) - k
BY DEF C!Drop

\* The sizes are numbers, and what the target is made of are.
LEMMA HistoryNumbers ==
  ASSUME HistoryTyped
  PROVE  /\ turns \in Seq(Nat) /\ C!Active \in Seq(Nat)
         /\ Len(C!Active) = Len(turns) - checkpoint.start
         /\ fixed < Limit => C!Target \in Nat
<1>1. TurnSizes \subseteq Nat /\ FixedSizes \subseteq Nat /\ Limit \in Nat
  BY PartsAssumption DEF C!CompactionAssumption
<1>2. turns \in Seq(Nat)
  BY <1>1, SeqMonotonic DEF HistoryTyped
<1>3. checkpoint.start \in 0 .. Len(turns)
  BY DEF HistoryTyped
<1>4. fixed \in Nat
  BY <1>1 DEF HistoryTyped
<1>5. fixed < Limit => C!Target \in Nat
  BY <1>1, <1>4 DEF C!Target, C!Allowance
<1> QED BY <1>2, <1>3, <1>5, DropTyped DEF C!Active

\* The boundary planned lies within the turns that are not summarised yet, before the newest.
LEMMA PlannedWithin ==
  ASSUME HistoryTyped
  PROVE  /\ C!Planned \in Nat
         /\ C!Planned > 0 => checkpoint.start + C!Planned < Len(turns)
<1>1. checkpoint.start \in 0 .. Len(turns) /\ Len(turns) \in Nat
  BY DEF HistoryTyped
<1>2. CASE C!Wanted /\ Len(C!Active) >= 2 /\ fixed < Limit
  <2>1. Len(C!Active) = Len(turns) - checkpoint.start
    BY HistoryNumbers
  <2> DEFINE n == Len(C!Active) - 1
  <2>2. n \in Nat /\ Len(C!Active) = n + 1
    BY <1>1, <1>2, <2>1
  <2>3. C!Planned = C!FirstKept(C!Active, C!Target)
    BY <1>2 DEF C!Planned
  <2>4. C!FirstKept(C!Active, C!Target) \in 0 .. n
    <3> HIDE DEF n
    <3> QED BY <2>2, FirstKeptLast
  <2> QED BY <1>1, <2>1, <2>2, <2>3, <2>4
<1>3. CASE ~ (C!Wanted /\ Len(C!Active) >= 2 /\ fixed < Limit)
  BY <1>3 DEF C!Planned
<1> QED BY <1>2, <1>3

\* What the planner keeps is the longest suffix within the target.
LEMMA PlannerKeepsLongest ==
  ASSUME HistoryTyped
  PROVE  C!KeepsLongest
<1> SUFFICES ASSUME C!Planned > 0
             PROVE  /\ C!Planned = Len(C!Active) - 1 \/ C!Tokens(C!Drop(C!Active, C!Planned)) <= C!Target
                    /\ C!Tokens(C!Drop(C!Active, C!Planned - 1)) > C!Target
  BY DEF C!KeepsLongest
<1> DEFINE p == C!Planned
           n == Len(C!Active) - 1
<1>1. C!Wanted /\ Len(C!Active) >= 2 /\ fixed < Limit
  BY DEF C!Planned
<1>2. p = C!FirstKept(C!Active, C!Target)
  BY <1>1 DEF C!Planned
<1>3. C!Active \in Seq(Nat) /\ C!Target \in Nat
  BY <1>1, HistoryNumbers
<1>4. n \in Nat /\ Len(C!Active) = n + 1 /\ p \in Nat /\ p # 0
  BY <1>1, <1>3, PlannedWithin
<1>5. /\ p \in 0 .. n
      /\ p = 0 \/ C!Tokens(C!Drop(C!Active, p - 1)) > C!Target
      /\ \A j \in 1 .. n : j > p => ~ (C!Tokens(C!Drop(C!Active, j - 1)) > C!Target)
  <2> HIDE DEF n, p
  <2> QED BY <1>2, <1>4, FirstKeptLast
<1>6. p = n \/ C!Tokens(C!Drop(C!Active, p)) <= C!Target
  <2> SUFFICES ASSUME p # n PROVE C!Tokens(C!Drop(C!Active, p)) <= C!Target
    OBVIOUS
  <2>1. p + 1 \in 1 .. n /\ p + 1 > p /\ p + 1 - 1 = p /\ p \in 0 .. Len(C!Active)
    <3>1. p \in 0 .. n /\ p # n /\ n \in Nat /\ Len(C!Active) = n + 1
      BY <1>4, <1>5
    <3> HIDE DEF n, p
    <3> QED BY <3>1
  <2>2. ~ (C!Tokens(C!Drop(C!Active, p)) > C!Target)
    <3> HIDE DEF n, p
    <3> QED BY <1>5, <2>1
  <2>3. C!Tokens(C!Drop(C!Active, p)) \in Nat
    <3> HIDE DEF n, p
    <3> QED BY <1>3, <2>1, DropTyped, TokensNatural
  <2> QED BY <1>3, <2>2, <2>3
<1> QED BY <1>4, <1>5, <1>6

\* A history begins without turns.
LEMMA HistoryStarts == PartsInit /\ part = "history" => HistoryInv
<1> SUFFICES ASSUME C!Init PROVE HistoryInv
  BY DEF PartsInit
<1>1. turns = << >> /\ Len(turns) = 0 /\ turns \in Seq(TurnSizes)
  BY EmptySeq DEF C!Init
<1>2. HistoryTyped
  BY <1>1, PartsAssumption DEF C!Init, HistoryTyped, C!NoCheckpoint, C!NoSummary, C!CompactionAssumption
<1>3. RoundKept
  BY DEF C!Init, RoundKept
<1>4. C!NothingForgotten
  BY DEF C!Init, C!NothingForgotten, C!NoCheckpoint
<1> QED BY <1>2, <1>3, <1>4 DEF HistoryInv

\* A round that fails has changed nothing but its charges.
LEMMA FailKeepsHistory ==
  ASSUME HistoryInv, used' \in 0 .. MaxRequests, NEW reason,
         reason \in {"capacity", "calls", "summary"}, C!Fail(reason)
  PROVE  HistoryInv'
<1>1. HistoryTyped'
  BY DEF HistoryInv, HistoryTyped, C!Fail
<1>2. RoundKept'
  BY DEF RoundKept, C!Fail
<1>3. C!NothingForgotten'
  BY DEF HistoryInv, C!NothingForgotten, C!Fail
<1> QED BY <1>1, <1>2, <1>3 DEF HistoryInv

\* The steps that neither add a turn nor replace the checkpoint.
LEMMA RoundKeepsHistory ==
  ASSUME HistoryInv,
         C!BeginRound \/ C!KeepHistory \/ C!ContextBudgetExceeded \/ C!PlanCompaction \/ C!Crash
  PROVE  HistoryInv'
<1>1. CASE C!BeginRound
  <2>1. HistoryTyped'
    BY <1>1 DEF HistoryInv, HistoryTyped, C!BeginRound, C!GoTo
  <2>2. RoundKept'
    BY <1>1 DEF RoundKept, C!BeginRound, C!GoTo
  <2>3. C!NothingForgotten'
    BY <1>1 DEF HistoryInv, C!NothingForgotten, C!BeginRound
  <2> QED BY <2>1, <2>2, <2>3 DEF HistoryInv
<1>2. CASE C!KeepHistory
  <2>1. HistoryTyped'
    BY <1>2 DEF HistoryInv, HistoryTyped, C!KeepHistory, C!GoTo
  <2>2. C!RequestFits'
    BY <1>2 DEF C!KeepHistory, C!Composes, C!RequestFits, C!Request
  <2>3. RoundKept'
    BY <1>2, <2>2 DEF HistoryInv, RoundKept, C!KeepHistory, C!GoTo
  <2>4. C!NothingForgotten'
    BY <1>2 DEF HistoryInv, C!NothingForgotten, C!KeepHistory
  <2> QED BY <2>1, <2>3, <2>4 DEF HistoryInv
<1>3. CASE C!ContextBudgetExceeded
  BY <1>3, FailKeepsHistory DEF C!ContextBudgetExceeded, HistoryInv, HistoryTyped
<1>4. CASE C!PlanCompaction
  <2>1. CASE MaxRequests - used < 2
    BY <1>4, <2>1, FailKeepsHistory DEF C!PlanCompaction, HistoryInv, HistoryTyped
  <2>2. CASE ~ (MaxRequests - used < 2)
    <3>1. checkpoint.start + C!Planned < Len(turns) /\ C!Planned \in Nat
      BY <1>4, PlannedWithin DEF HistoryInv, C!PlanCompaction
    <3>2. used \in Nat /\ MaxRequests \in Nat /\ checkpoint.start \in Nat /\ Len(turns) \in Nat
      BY PartsAssumption DEF HistoryInv, HistoryTyped, C!CompactionAssumption
    <3>3. plan' \in 0 .. Len(turns) /\ checkpoint.start <= plan'
      BY <1>4, <2>2, <3>1, <3>2 DEF C!PlanCompaction
    <3>4. HistoryTyped'
      BY <1>4, <2>2, <3>3 DEF HistoryInv, HistoryTyped, C!PlanCompaction, C!GoTo
    <3>5. used + 1 < MaxRequests
      BY <2>2, <3>2
    <3>6. RoundKept'
      BY <1>4, <2>2, <3>3, <3>5 DEF RoundKept, C!PlanCompaction, C!GoTo
    <3>7. C!NothingForgotten'
      BY <1>4, <2>2 DEF HistoryInv, C!NothingForgotten, C!PlanCompaction
    <3> QED BY <3>4, <3>6, <3>7 DEF HistoryInv
  <2> QED BY <2>1, <2>2
<1>5. CASE C!Crash
  <2>1. HistoryTyped'
    BY <1>5 DEF HistoryInv, HistoryTyped, C!Crash, C!NoSummary
  <2>2. RoundKept'
    BY <1>5 DEF RoundKept, C!Crash
  <2>3. C!NothingForgotten'
    BY <1>5 DEF HistoryInv, C!NothingForgotten, C!Crash
  <2> QED BY <2>1, <2>2, <2>3 DEF HistoryInv
<1> QED BY <1>1, <1>2, <1>3, <1>4, <1>5

\* The summary received covers what the one before did, and the turns up to the boundary.
LEMMA SummariseKeepsHistory ==
  ASSUME HistoryInv, C!Summarise
  PROVE  HistoryInv'
<1>1. used \in Nat /\ MaxRequests \in Nat
  BY PartsAssumption DEF HistoryInv, HistoryTyped, C!CompactionAssumption
<1>2. used' \in 0 .. MaxRequests /\ used' < MaxRequests
  BY <1>1 DEF C!Summarise, C!SummaryAttempts
<1>3. CASE C!Fail("summary")
  BY <1>2, <1>3, FailKeepsHistory
<1>4. CASE ~ C!Fail("summary")
  <2>1. /\ \E size \in SummarySizes : summary' = [size |-> size, covers |-> C!Handoff]
        /\ loopAt' = "publish"
        /\ UNCHANGED <<turns, checkpoint, fixed, plan, failure, restarts>>
    BY <1>1, <1>2, <1>4 DEF C!Summarise, C!GoTo
  <2>2. checkpoint.start \in Nat /\ plan \in Nat /\ checkpoint.start <= plan
    BY DEF HistoryInv, HistoryTyped, RoundKept, C!Summarise
  <2>3. checkpoint.covers = [i \in 1 .. checkpoint.start |-> i]
    BY DEF HistoryInv, C!NothingForgotten
  <2>4. C!Handoff = [i \in 1 .. plan |-> i]
    <3>1. ASSUME NEW a \in Nat, NEW b \in Nat, a <= b
          PROVE  [i \in 1 .. a |-> i] \o [i \in 1 .. (b - a) |-> a + i] = [i \in 1 .. b |-> i]
      <4> DEFINE s == [i \in 1 .. a |-> i]
                 t == [i \in 1 .. (b - a) |-> a + i]
                 u == [i \in 1 .. b |-> i]
      <4>1. s \in Seq(Nat) /\ t \in Seq(Nat) /\ u \in Seq(Nat)
        BY <3>1
      <4>2. Len(s) = a /\ Len(t) = b - a /\ Len(u) = b
        BY <3>1
      <4>3. s \o t \in Seq(Nat) /\ Len(s \o t) = b
        <5> HIDE DEF s, t, u
        <5>1. s \o t \in Seq(Nat) /\ Len(s \o t) = Len(s) + Len(t)
          BY <4>1, ConcatProperties
        <5> QED BY <5>1, <4>2
      <4>4. \A i \in 1 .. b : (s \o t)[i] = u[i]
        BY <3>1, <4>1, <4>2
      <4> HIDE DEF s, t, u
      <4>5. s \o t = u
        BY <4>1, <4>2, <4>3, <4>4, SeqEqual
      <4> QED BY <4>5 DEF s, t, u
    <3> QED BY <2>2, <2>3, <3>1 DEF C!Handoff
  <2>5. HistoryTyped'
    BY <1>2, <2>1 DEF HistoryInv, HistoryTyped
  <2>6. RoundKept'
    BY <1>2, <2>1, <2>2, <2>4 DEF RoundKept
  <2>7. C!NothingForgotten'
    BY <2>1 DEF HistoryInv, C!NothingForgotten
  <2> QED BY <2>5, <2>6, <2>7 DEF HistoryInv
<1> QED BY <1>3, <1>4

\* The checkpoint is replaced once the request fits with it.
LEMMA PublishKeepsHistory ==
  ASSUME HistoryInv, C!Publish
  PROVE  HistoryInv'
<1>1. CASE C!Request(plan, summary.size) > Limit
  BY <1>1, FailKeepsHistory DEF C!Publish, HistoryInv, HistoryTyped
<1>2. CASE ~ (C!Request(plan, summary.size) > Limit)
  <2>1. /\ checkpoint' = [start |-> plan, size |-> summary.size, covers |-> summary.covers]
        /\ loopAt' = "request"
        /\ UNCHANGED <<turns, used, fixed, plan, summary, failure, restarts>>
    BY <1>2 DEF C!Publish, C!GoTo
  <2>2. HistoryTyped'
    BY <2>1 DEF HistoryInv, HistoryTyped
  <2>3. summary.covers = [i \in 1 .. plan |-> i] /\ used < MaxRequests
    BY DEF HistoryInv, RoundKept, C!Publish
  <2>4. C!RequestFits'
    <3>1. turns \in Seq(Nat)
      BY HistoryNumbers DEF HistoryInv
    <3>2. plan \in 0 .. Len(turns)
      BY DEF HistoryInv, HistoryTyped
    <3>3. C!Tokens(C!Drop(turns, plan)) \in Nat
      BY <3>1, <3>2, DropTyped, TokensNatural
    <3>4. fixed \in Nat /\ summary.size \in Nat /\ Limit \in Nat
      <4>1. FixedSizes \subseteq Nat /\ Limit \in Nat
        BY PartsAssumption DEF C!CompactionAssumption
      <4>2. fixed \in FixedSizes \union {0} /\ summary.size \in SummarySizes \union {0}
        BY DEF HistoryInv, HistoryTyped
      <4>3. fixed \in Nat
        BY <4>1, <4>2
      <4>4. SummarySizes \subseteq Nat /\ 0 \in Nat
        BY PartsAssumption DEF C!CompactionAssumption
      <4>5. summary.size \in Nat
        BY <4>2, <4>4, Zenon
      <4> QED BY <4>1, <4>3, <4>5
    <3>5. C!Request(plan, summary.size) <= Limit
      BY <1>2, <3>3, <3>4 DEF C!Request
    <3> QED BY <2>1, <3>5 DEF C!RequestFits, C!Request
  <2>5. RoundKept'
    BY <2>1, <2>3, <2>4 DEF RoundKept
  <2>6. C!NothingForgotten'
    BY <2>1, <2>3 DEF C!NothingForgotten
  <2> QED BY <2>2, <2>5, <2>6 DEF HistoryInv
<1> QED BY <1>1, <1>2

\* A reply adds a turn.
LEMMA ReplyKeepsHistory ==
  ASSUME HistoryInv, C!Reply
  PROVE  HistoryInv'
<1>1. PICK size \in TurnSizes : turns' = Append(turns, size)
  BY DEF C!Reply
<1>2. turns \in Seq(TurnSizes) /\ Len(turns) \in Nat
  BY DEF HistoryInv, HistoryTyped
<1>3. turns' \in Seq(TurnSizes) /\ Len(turns') = Len(turns) + 1
  BY <1>1, <1>2
<1>4. used' \in 0 .. MaxRequests
  <2>1. used \in Nat /\ MaxRequests \in Nat
    BY PartsAssumption DEF HistoryInv, HistoryTyped, C!CompactionAssumption
  <2> QED BY <2>1 DEF C!Reply
<1>5. plan \in 0 .. Len(turns') /\ checkpoint.start \in 0 .. Len(turns')
  BY <1>2, <1>3 DEF HistoryInv, HistoryTyped
<1>6. HistoryTyped'
  BY <1>3, <1>4, <1>5 DEF HistoryInv, HistoryTyped, C!Reply, C!GoTo
<1>7. RoundKept'
  BY DEF RoundKept, C!Reply, C!GoTo
<1>8. C!NothingForgotten'
  BY DEF HistoryInv, C!NothingForgotten, C!Reply
<1> QED BY <1>6, <1>7, <1>8 DEF HistoryInv

\* No step of the exploration breaks it.
LEMMA HistorySteps ==
  ASSUME part = "history" => HistoryInv, [PartsNext]_PartsVars
  PROVE  (part = "history" => HistoryInv)'
<1>1. ASSUME UNCHANGED <<part, historyVars>> PROVE (part = "history" => HistoryInv)'
  <2> SUFFICES ASSUME part = "history", UNCHANGED historyVars, HistoryInv PROVE HistoryInv'
    BY <1>1
  <2>1. HistoryTyped'
    BY DEF historyVars, HistoryInv, HistoryTyped
  <2>2. C!NothingForgotten'
    BY DEF historyVars, HistoryInv, C!NothingForgotten
  <2>3. RoundKept'
    BY DEF historyVars, HistoryInv, RoundKept, C!RequestFits, C!Request
  <2> QED BY <2>1, <2>2, <2>3 DEF HistoryInv
<1>2. CASE UNCHANGED PartsVars
  BY <1>1, <1>2 DEF PartsVars
<1>3. CASE RepositoryNext \/ ProcessNext \/ DeletionNext \/ SearchNext \/ ShellNext
  BY <1>1, <1>3 DEF RepositoryNext, ProcessNext, DeletionNext, SearchNext, ShellNext,
     Repository, Process, Deletion, Searching, Shelling
<1>4. CASE HistoryNext
  <2>1. part = "history" /\ part' = part
    BY <1>4 DEF HistoryNext, Only, History
  <2>2. C!BeginRound \/ C!KeepHistory \/ C!ContextBudgetExceeded \/ C!PlanCompaction
        \/ C!Summarise \/ C!Publish \/ C!Reply \/ C!Crash \/ C!Done
    BY <1>4 DEF HistoryNext
  <2>3. C!Done => UNCHANGED historyVars
    BY DEF C!Done, C!vars, historyVars
  <2> QED BY <2>1, <2>2, <2>3, <1>1, RoundKeepsHistory, SummariseKeepsHistory,
             PublishKeepsHistory, ReplyKeepsHistory
<1> QED BY <1>2, <1>3, <1>4 DEF PartsNext

\* Whatever the sizes of turns, summaries and fixed context, and wherever the owner dies: the
\* summary stands for every turn it replaces, once and in order; the planner keeps the
\* longest suffix within its target; what is asked of the model fits; and the calls spent on
\* a summary leave one for its request.
THEOREM HistoryIsKept == PartsSpec => []HistoryKept
<1> DEFINE Kept == part = "history" => HistoryInv
<1>1. PartsInit => Kept
  BY HistoryStarts
<1>2. Kept /\ [PartsNext]_PartsVars => Kept'
  BY HistorySteps
<1>3. Kept => HistoryKept
  <2> SUFFICES ASSUME HistoryInv PROVE C!TypeInvariant /\ C!NothingForgotten /\ C!KeepsLongest
                                       /\ C!RequestFits /\ C!SummaryNotInVain
    BY DEF HistoryKept
  <2>1. C!TypeInvariant
    BY DEF HistoryInv, HistoryTyped, C!TypeInvariant
  <2>2. C!KeepsLongest
    BY PlannerKeepsLongest DEF HistoryInv
  <2>3. C!RequestFits /\ C!SummaryNotInVain
    BY DEF HistoryInv, HistoryTyped, RoundKept, C!RequestFits, C!SummaryNotInVain
  <2> QED BY <2>1, <2>2, <2>3 DEF HistoryInv
<1> HIDE DEF Kept
<1> QED BY <1>1, <1>2, <1>3, PTL DEF PartsSpec

-----------------------------------------------------------------------------
(* The preparation of a repository: its safety for every set of sources and every number *)
(* of invocations, deaths and failures.                                                  *)

Building == {"stage", "build", "built", "open", "write", "promote", "clean"}

\* While the repository is built none is in the workspace, and the staging directory, if
\* nobody removed it, holds what was built for this source.  A repository in the workspace
\* and metadata that can be read agree.
Agrees ==
  /\ NeverHalfBuilt
  /\ at # "idle" => result = "none"
  /\ at \in Building => workspace.holds # "repo"
  /\ at = "verify" => workspace.holds = "repo"
  /\ at = "built" => staging \in {Absent, Directory("part", source), Directory("repo", source)}
  /\ at \in {"open", "write", "promote"} => staging \in {Absent, Directory("repo", source)}
  /\ at = "promote" => metadata = source
  /\ (workspace.holds = "repo" /\ metadata \in Sources) => metadata = workspace.of

RepositoryInv == TypeInvariant /\ Agrees

USE MaterializerAssumption
USE DEF NoSource, Torn, Directory, Absent, Empty, Others, Directories, diskVars, worldVars

\* The marks for no metadata and for torn metadata are no sources.
LEMMA MarksAreNoSources == NoSource \notin Sources /\ Torn \notin Sources /\ NoSource # Torn
<1>1. \A s \in Sources : s.kind \in Kinds
  OBVIOUS
<1>2. "none" \notin Kinds /\ "torn" \notin Kinds
  BY DEF Kinds
<1> QED BY <1>1, <1>2

\* The initial states satisfy the invariant.
LEMMA RepositoryStarts == Init => RepositoryInv
<1> SUFFICES ASSUME Init PROVE RepositoryInv
  OBVIOUS
<1>1. TypeInvariant
  BY MarksAreNoSources DEF Init, TypeInvariant
<1>2. Agrees
  BY MarksAreNoSources DEF Init, Agrees, NeverHalfBuilt, Building
<1> QED BY <1>1, <1>2 DEF RepositoryInv

-----------------------------------------------------------------------------
(* Every step keeps the invariant *)

\* Each step keeps the types.
LEMMA NextTyped == TypeInvariant /\ [Next]_vars => TypeInvariant'
<1> SUFFICES ASSUME TypeInvariant, [Next]_vars PROVE TypeInvariant'
  OBVIOUS
<1> USE MarksAreNoSources DEF TypeInvariant, Goto, Return
<1>1. CASE \E s \in Sources : Call(s)
  BY <1>1 DEF Call
<1>2. CASE CheckSource
  BY <1>2 DEF CheckSource
<1>3. CASE FindRoot
  BY <1>3 DEF FindRoot
<1>4. CASE Verify
  BY <1>4 DEF Verify
<1>5. CASE CheckContent
  BY <1>5 DEF CheckContent, HasContent
<1>6. CASE ClearStaging
  BY <1>6 DEF ClearStaging
<1>7. CASE StartBuild
  BY <1>7 DEF StartBuild
<1>8. CASE Built
  BY <1>8 DEF Built
<1>9. CASE OpenMetadata
  BY <1>9 DEF OpenMetadata
<1>10. CASE WriteMetadata
  BY <1>10 DEF WriteMetadata
<1>11. CASE Promote
  BY <1>11 DEF Promote, CanReplace
<1>12. CASE Clean
  BY <1>12 DEF Clean
<1>13. CASE RefuseSource
  BY <1>13 DEF RefuseSource, Fault
<1>14. CASE MissRoot
  BY <1>14 DEF MissRoot, Fault
<1>15. CASE ClearFails
  BY <1>15 DEF ClearFails, Fault
<1>16. CASE BuildFails
  BY <1>16 DEF BuildFails
<1>17. CASE BuildLeft
  BY <1>17 DEF BuildLeft
<1>18. CASE WriteFails
  BY <1>18 DEF WriteFails, Fault
<1>19. CASE PromoteFails
  BY <1>19 DEF PromoteFails, Fault
<1>20. CASE CleanFails
  BY <1>20 DEF CleanFails, Fault
<1>21. CASE Crash
  BY <1>21 DEF Crash
<1>22. CASE OrphanEnds
  BY <1>22 DEF OrphanEnds
<1>23. CASE Intrude
  BY <1>23 DEF Intrude
<1>24. CASE Done \/ UNCHANGED vars
  BY <1>24 DEF Done, vars
<1> QED
  BY <1>1, <1>2, <1>3, <1>4, <1>5, <1>6, <1>7, <1>8, <1>9, <1>10, <1>11, <1>12, <1>13, <1>14, <1>15, <1>16, <1>17, <1>18, <1>19, <1>20, <1>21, <1>22, <1>23, <1>24 DEF Next, Step, Failure

\* Each step keeps the directories, the metadata and the point in agreement.
LEMMA NextAgrees == TypeInvariant /\ Agrees /\ [Next]_vars => Agrees'
<1> SUFFICES ASSUME TypeInvariant, Agrees, [Next]_vars PROVE Agrees'
  OBVIOUS
<1> USE MarksAreNoSources DEF TypeInvariant, Agrees, NeverHalfBuilt, Building, Goto, Return
<1>1. CASE \E s \in Sources : Call(s)
  BY <1>1 DEF Call
<1>2. CASE CheckSource
  BY <1>2 DEF CheckSource
<1>3. CASE FindRoot
  BY <1>3 DEF FindRoot
<1>4. CASE Verify
  BY <1>4 DEF Verify
<1>5. CASE CheckContent
  BY <1>5 DEF CheckContent, HasContent
<1>6. CASE ClearStaging
  BY <1>6 DEF ClearStaging
<1>7. CASE StartBuild
  BY <1>7 DEF StartBuild
<1>8. CASE Built
  BY <1>8 DEF Built
<1>9. CASE OpenMetadata
  BY <1>9 DEF OpenMetadata
<1>10. CASE WriteMetadata
  BY <1>10 DEF WriteMetadata
<1>11. CASE Promote
  BY <1>11 DEF Promote, CanReplace
<1>12. CASE Clean
  BY <1>12 DEF Clean
<1>13. CASE RefuseSource
  BY <1>13 DEF RefuseSource, Fault
<1>14. CASE MissRoot
  BY <1>14 DEF MissRoot, Fault
<1>15. CASE ClearFails
  BY <1>15 DEF ClearFails, Fault
<1>16. CASE BuildFails
  BY <1>16 DEF BuildFails
<1>17. CASE BuildLeft
  BY <1>17 DEF BuildLeft
<1>18. CASE WriteFails
  BY <1>18 DEF WriteFails, Fault
<1>19. CASE PromoteFails
  BY <1>19 DEF PromoteFails, Fault
<1>20. CASE CleanFails
  BY <1>20 DEF CleanFails, Fault
<1>21. CASE Crash
  BY <1>21 DEF Crash
<1>22. CASE OrphanEnds
  BY <1>22 DEF OrphanEnds
<1>23. CASE Intrude
  BY <1>23 DEF Intrude
<1>24. CASE Done \/ UNCHANGED vars
  BY <1>24 DEF Done, vars
<1> QED
  BY <1>1, <1>2, <1>3, <1>4, <1>5, <1>6, <1>7, <1>8, <1>9, <1>10, <1>11, <1>12, <1>13, <1>14, <1>15, <1>16, <1>17, <1>18, <1>19, <1>20, <1>21, <1>22, <1>23, <1>24 DEF Next, Step, Failure

\* The invariant holds in every reachable state.
LEMMA Invariance == Spec => []RepositoryInv
<1>1. RepositoryInv /\ [Next]_vars => RepositoryInv'
  BY NextTyped, NextAgrees DEF RepositoryInv
<1> QED BY RepositoryStarts, <1>1, PTL DEF Spec

-----------------------------------------------------------------------------
(* The properties *)

\* The types hold in every reachable state: materialize and its failures leave the
\* directories and the metadata in one of the conditions the code distinguishes.
THEOREM TypeCorrect == Spec => []TypeInvariant
<1>1. RepositoryInv => TypeInvariant
  BY DEF RepositoryInv
<1> QED BY Invariance, <1>1, PTL

\* Part of a repository is never in the workspace: what a death or a clone left behind
\* stays in the staging directory, which is removed before it is used.
THEOREM NoHalfBuilt == Spec => []NeverHalfBuilt
<1>1. RepositoryInv => NeverHalfBuilt
  BY DEF RepositoryInv, Agrees
<1> QED BY Invariance, <1>1, PTL

\* Whatever invocations, deaths and clones came before, an invocation that succeeds gives
\* a repository of the source it was asked for: _verify_metadata and the rebuilt staging.
THEOREM ReadyIsFromSource == Spec => ReadyFromSource
<1>1. RepositoryInv /\ [Next]_vars =>
        [(at # "idle" /\ result' = "ready")
            => (workspace'.holds = "repo" /\ workspace'.of = source)]_vars
  <2> SUFFICES ASSUME RepositoryInv, Next, at # "idle", result' = "ready"
               PROVE  workspace'.holds = "repo" /\ workspace'.of = source
    OBVIOUS
  <2>1. Verify \/ Promote
    BY DEF RepositoryInv, Agrees, Next, Step, Failure, Call, CheckSource, FindRoot, CheckContent,
           ClearStaging, StartBuild, Built, OpenMetadata, WriteMetadata, Clean, RefuseSource,
           MissRoot, ClearFails, BuildFails, BuildLeft, WriteFails, PromoteFails, CleanFails,
           Crash, OrphanEnds, Intrude, Done, vars, Goto, Return, Fault
  <2>2. CASE Verify
    <3>1. metadata = source /\ source \in Sources /\ workspace.holds = "repo"
      BY <2>2, MarksAreNoSources DEF Verify, Return, RepositoryInv, TypeInvariant, Agrees
    <3> QED BY <3>1, <2>2 DEF Verify, RepositoryInv, Agrees
  <2>3. CASE Promote
    <3>1. staging = Directory("repo", source)
      BY <2>3 DEF Promote, CanReplace, RepositoryInv, Agrees
    <3> QED BY <3>1, <2>3 DEF Promote
  <2> QED BY <2>1, <2>2, <2>3
<1> QED BY Invariance, <1>1, PTL DEF Spec, ReadyFromSource

\* A repository that is moved into place has metadata that names it, and keeps it: the
\* metadata is written before the move and not while a repository is there.
THEOREM MetadataFirst == Spec => NeverWithoutMetadata
<1>1. RepositoryInv /\ [Next]_vars =>
        [(workspace'.holds = "repo" /\ (workspace' # workspace \/ metadata = workspace.of))
            => metadata' = workspace'.of]_vars
  <2> SUFFICES ASSUME RepositoryInv, Next, workspace'.holds = "repo",
                      workspace' # workspace \/ metadata = workspace.of
               PROVE  metadata' = workspace'.of
    OBVIOUS
  <2>1. CASE Promote
    <3>1. staging = Directory("repo", source) /\ metadata = source
      BY <2>1 DEF Promote, CanReplace, RepositoryInv, Agrees
    <3> QED BY <3>1, <2>1 DEF Promote
  <2>2. CASE OpenMetadata \/ WriteMetadata
    BY <2>2 DEF OpenMetadata, WriteMetadata, RepositoryInv, Agrees, Building
  <2>3. CASE ~(Promote \/ OpenMetadata \/ WriteMetadata)
    <3>1. metadata' = metadata /\ (workspace' = workspace \/ workspace'.holds # "repo")
      BY <2>3 DEF Next, Step, Failure, Call, CheckSource, FindRoot, Verify, CheckContent,
           ClearStaging, StartBuild, Built, Clean, RefuseSource, MissRoot, ClearFails,
           BuildFails, BuildLeft, WriteFails, PromoteFails, CleanFails, Crash, OrphanEnds,
           Intrude, Done, vars, Goto, Return
    <3> QED BY <3>1
  <2> QED BY <2>1, <2>2, <2>3
<1> QED BY Invariance, <1>1, PTL DEF Spec, NeverWithoutMetadata

\* No invocation replaces a workspace with content: os.replace moves onto an absent or an
\* empty directory only, so a repository that git failed to recognise is kept.
THEOREM ContentIsKept == Spec => ContentKept
<1>1. [Next]_vars => [at # "idle" /\ HasContent => workspace' = workspace]_vars
  <2> SUFFICES ASSUME Next, at # "idle", HasContent PROVE workspace' = workspace
    OBVIOUS
  <2> QED
    BY DEF Next, Step, Failure, Call, CheckSource, FindRoot, Verify, CheckContent,
           ClearStaging, StartBuild, Built, OpenMetadata, WriteMetadata, Promote, CanReplace,
           HasContent, Clean, RefuseSource, MissRoot, ClearFails, BuildFails, BuildLeft,
           WriteFails, PromoteFails, CleanFails, Crash, OrphanEnds, Intrude, Done, vars,
           Goto, Return
<1> QED BY <1>1, PTL DEF Spec, ContentKept

\* The four together, for every set of sources and any number of calls, deaths and failures.
THEOREM RepositoryIsSound == Spec => RepositorySound
<1> QED BY TypeCorrect, NoHalfBuilt, ReadyIsFromSource, MetadataFirst, ContentIsKept, PTL
        DEF RepositorySound

\* The steps of the other parts leave the repository alone.
LEMMA PartsPrepare == PartsSpec => Spec
<1>1. PartsInit => Init
  BY DEF PartsInit
<1>2. [PartsNext]_PartsVars => [Next]_vars
  <2>1. CASE RepositoryNext
    BY <2>1 DEF RepositoryNext, Next, Step, Failure
  <2>2. CASE ProcessNext \/ DeletionNext \/ SearchNext \/ HistoryNext \/ ShellNext
    BY <2>2 DEF ProcessNext, DeletionNext, SearchNext, HistoryNext, ShellNext, Process, Deletion,
                Searching, History, Shelling
  <2>3. CASE UNCHANGED PartsVars
    BY <2>3 DEF PartsVars
  <2> QED BY <2>1, <2>2, <2>3 DEF PartsNext
<1> QED BY <1>1, <1>2, PTL DEF PartsSpec, Spec

\* So the parts that are explored together keep them too.
THEOREM PreparationIsSound == PartsSpec => RepositorySound
BY PartsPrepare, RepositoryIsSound, PTL
=============================================================================
