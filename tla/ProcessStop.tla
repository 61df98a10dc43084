----------------------------- MODULE ProcessStop -----------------------------
(* A managed command and how it is stopped.  The owner starts the command in *)
(* a session of its own and watches it in slices; the processes of the        *)
(* command fork, leave the group, close their output and exit, and the system *)
(* hands their PIDs out again.  An interrupt or a deadline may come any time. *)
EXTENDS Naturals, FiniteSets

CONSTANTS
  Pids, Leader,    \* process identifiers, and the one Popen returned
  MaxBirths,       \* processes started, the command's and others
  SlowReuse        \* PIDs only come round again while the owner sleeps

\* What the constants are.
ProcessAssumption ==
  /\ Leader \in Pids /\ {"init", "owner", "none"} \intersect Pids = {}
  /\ MaxBirths \in Nat \ {0} /\ SlowReuse \in BOOLEAN

VARIABLES
  proc,        \* the process table
  births,
  piped,       \* run_process reads the output through pipes; a shell logs to files
  reaped,      \* process.returncode is known
  seen,        \* identities: the start time of each process remembered
  walk,        \* the last walk of the process tree
  cancelled, expired,
  at, cause, stopped, outcome

worldVars == <<births, cancelled, expired>>
ownerVars == <<reaped, seen, walk, at, cause, stopped, outcome, piped>>
vars == <<proc, worldVars, ownerVars>>

Free(born) == [state |-> "free", own |-> FALSE, parent |-> "init", group |-> "none",
               born |-> born, writes |-> FALSE, killed |-> FALSE]

Init ==
  /\ proc = [p \in Pids |-> IF p # Leader THEN Free(0) ELSE
               [state |-> "running", own |-> TRUE, parent |-> "owner", group |-> Leader,
                born |-> 1, writes |-> TRUE, killed |-> FALSE]]
  /\ births = 1 /\ piped \in BOOLEAN
  /\ reaped = FALSE /\ seen = [p \in Pids |-> 0] /\ walk = {}
  /\ cancelled = FALSE /\ expired = FALSE
  /\ at = "sample" /\ cause = "none" /\ stopped = FALSE /\ outcome = "none"

Running(p) == proc[p].state = "running"
Zombie(p) == proc[p].state = "zombie"

-----------------------------------------------------------------------------
(* The processes *)

\* A PID that still names a group is not handed out.
Asleep == at \in {"sleep", "reap", "confirm", "drain", "treewait", "ended"}
Available(c) ==
  /\ proc[c].state = "free" /\ \A p \in Pids : proc[p].group # c
  /\ births < MaxBirths
  /\ SlowReuse => Asleep \/ proc[c].born = 0

Fork(p, c) ==
  /\ Running(p) /\ proc[p].own /\ ~proc[p].killed /\ Available(c)
  /\ births' = births + 1
  /\ proc' = [proc EXCEPT ![c] = [proc[p] EXCEPT !.parent = p, !.born = births + 1]]
  /\ UNCHANGED <<cancelled, expired, ownerVars>>

\* Another program gets the PID.
StartForeign(c) ==
  /\ Available(c)
  /\ births' = births + 1
  /\ proc' = [proc EXCEPT ![c] =
       [Free(births + 1) EXCEPT !.state = "running", !.group = c]]
  /\ UNCHANGED <<cancelled, expired, ownerVars>>

Detach(p) ==
  /\ Running(p) /\ proc[p].own /\ ~proc[p].killed /\ p # Leader /\ proc[p].group # p
  /\ proc' = [proc EXCEPT ![p].group = p]
  /\ UNCHANGED <<worldVars, ownerVars>>

CloseOutput(p) ==
  /\ Running(p) /\ proc[p].writes /\ ~proc[p].killed
  /\ proc' = [proc EXCEPT ![p].writes = FALSE]
  /\ UNCHANGED <<worldVars, ownerVars>>

\* Children of the dead go to init, which reaps them; the owner reaps the leader.
Exit(p) ==
  /\ Running(p)
  /\ proc' = [q \in Pids |->
       CASE q = p /\ proc[p].parent = "init" -> Free(proc[p].born)
         [] q = p /\ proc[p].parent # "init" ->
              [proc[p] EXCEPT !.state = "zombie", !.writes = FALSE]
         [] q # p /\ proc[q].parent = p /\ Zombie(q) -> Free(proc[q].born)
         [] q # p /\ proc[q].parent = p /\ Running(q) -> [proc[q] EXCEPT !.parent = "init"]
         [] OTHER -> proc[q]]
  /\ UNCHANGED <<worldVars, ownerVars>>

Collect(p) ==
  /\ Zombie(p) /\ p # Leader
  /\ proc' = [proc EXCEPT ![p] = Free(proc[p].born)]
  /\ UNCHANGED <<worldVars, ownerVars>>

\* Neither is looked at again once the owner has a cause to stop.
Cancel ==
  /\ ~cancelled /\ cause = "none" /\ at # "ended"
  /\ cancelled' = TRUE
  /\ UNCHANGED <<proc, births, expired, ownerVars>>

Expire ==
  /\ ~expired /\ cause = "none" /\ at # "ended"
  /\ expired' = TRUE
  /\ UNCHANGED <<proc, births, cancelled, ownerVars>>

-----------------------------------------------------------------------------
(* Watching *)

\* The zombies of a walk count; whatever is reparented is out of sight.
Descendants ==
  {c \in Pids : \A S \in SUBSET Pids :
     {p \in Pids : proc[p].parent \in S \union {Leader}} \subseteq S => c \in S}

\* _process_identity of a PID is its start time.
Identified(p) == seen[p] # 0 /\ proc[p].state # "free" /\ proc[p].born = seen[p]

\* Mutant: the bare PID is kept.
RememberBare(found) ==
  [p \in Pids |-> IF seen[p] = 0 /\ p \in found /\ proc[p].state # "free"
                  THEN p ELSE seen[p]]

Remember(found) ==
  [p \in Pids |-> IF seen[p] = 0 /\ p \in found /\ proc[p].state # "free"
                  THEN proc[p].born ELSE seen[p]]
SeenRunning == {p \in Pids : Identified(p) /\ Running(p)}
Writers == {p \in Pids : Running(p) /\ proc[p].own /\ proc[p].writes}

Reap(table) == IF reaped \/ table[Leader].state # "zombie" THEN table
               ELSE [table EXCEPT ![Leader] = Free(table[Leader].born)]
Dead == reaped \/ Zombie(Leader)

Return(result) == at' = "ended" /\ outcome' = result

Sample ==
  /\ at = "sample"
  /\ walk' = IF reaped THEN {} ELSE Descendants
  /\ at' = "identify"
  /\ UNCHANGED <<proc, worldVars, reaped, seen, cause, stopped, outcome, piped>>

Identify ==
  /\ at = "identify"
  /\ seen' = Remember(walk) /\ walk' = {}
  /\ at' = IF cause = "none" THEN "poll" ELSE "writers"
  /\ UNCHANGED <<proc, worldVars, reaped, cause, stopped, outcome, piped>>

Poll ==
  /\ at = "poll"
  /\ reaped' = Dead /\ proc' = Reap(proc)
  /\ IF Dead /\ ~piped THEN Return("exited") ELSE at' = "check" /\ UNCHANGED outcome
  /\ UNCHANGED <<worldVars, seen, walk, cause, stopped, piped>>

Check ==
  /\ at = "check"
  /\ \/ cancelled /\ cause' = "cancelled" /\ at' = "sample"
     \/ ~cancelled /\ expired /\ cause' = "timeout" /\ at' = IF piped THEN "sample" ELSE "tree"
     \/ ~cancelled /\ ~expired /\ at' = "sleep" /\ UNCHANGED cause
  /\ UNCHANGED <<proc, worldVars, reaped, seen, walk, stopped, outcome, piped>>

SliceEnds ==
  /\ at = "sleep" /\ at' = "sample"
  /\ UNCHANGED <<proc, worldVars, reaped, seen, walk, cause, stopped, outcome, piped>>

\* process.wait returns, or communicate does: both outputs closed, leader dead.
Finish ==
  /\ at = "sleep" /\ Dead /\ (piped => Writers = {})
  /\ reaped' = TRUE /\ proc' = Reap(proc)
  /\ Return("exited")
  /\ UNCHANGED <<worldVars, seen, walk, cause, stopped, piped>>

-----------------------------------------------------------------------------
(* _stop_process, which has sampled the tree once more *)

RememberWriters ==
  /\ at = "writers"
  /\ seen' = IF piped THEN Remember(Writers) ELSE seen
  /\ at' = "group"
  /\ UNCHANGED <<proc, worldVars, reaped, walk, cause, stopped, outcome, piped>>

Kill(table, pids) ==
  [p \in Pids |-> IF p \in pids /\ table[p].state = "running"
                  THEN [table[p] EXCEPT !.killed = TRUE] ELSE table[p]]
InGroup == {p \in Pids : proc[p].group = Leader}

\* Mutant: the group is signalled by its number alone.
KillGroupUnowned ==
  /\ at = "group"
  /\ reaped' = Dead
  /\ proc' = Kill(Reap(proc), InGroup)
  /\ walk' = {p \in Pids : seen[p] # 0} /\ at' = "signal"
  /\ UNCHANGED <<worldVars, seen, cause, stopped, outcome, piped>>

KillGroup ==
  /\ at = "group"
  /\ reaped' = Dead
  /\ LET owned == ~Dead \/ \E p \in InGroup : Identified(p)
     IN proc' = IF owned THEN Kill(Reap(proc), InGroup) ELSE Reap(proc)
  /\ walk' = {p \in Pids : seen[p] # 0} /\ at' = "signal"
  /\ UNCHANGED <<worldVars, seen, cause, stopped, outcome, piped>>

Signal(p) ==
  /\ at = "signal" /\ p \in walk
  /\ proc' = IF Identified(p) THEN Kill(proc, {p}) ELSE proc
  /\ walk' = walk \ {p}
  /\ UNCHANGED <<worldVars, reaped, seen, at, cause, stopped, outcome, piped>>

Signalled ==
  /\ at = "signal" /\ walk = {} /\ at' = "reap"
  /\ UNCHANGED <<proc, worldVars, reaped, seen, walk, cause, stopped, outcome, piped>>

Give(up) ==
  /\ stopped' = ~up
  /\ at' = "report"
  /\ UNCHANGED <<worldVars, seen, walk, cause, outcome, piped>>

ReapLeader ==
  /\ at = "reap" /\ Dead
  /\ reaped' = TRUE /\ proc' = Reap(proc) /\ at' = "confirm"
  /\ UNCHANGED <<worldVars, seen, walk, cause, stopped, outcome, piped>>

ReapExpires == at = "reap" /\ ~Dead /\ Give(TRUE) /\ UNCHANGED <<proc, reaped>>

\* Mutant: what was signalled counts as stopped.
ConfirmSignalled ==
  /\ at = "confirm"
  /\ IF piped THEN at' = "drain" /\ UNCHANGED <<worldVars, seen, walk, cause, stopped, outcome, piped>>
              ELSE Give(FALSE)
  /\ UNCHANGED <<proc, reaped>>

Confirm ==
  /\ at = "confirm" /\ SeenRunning = {}
  /\ IF piped THEN at' = "drain" /\ UNCHANGED <<worldVars, seen, walk, cause, stopped, outcome, piped>>
              ELSE Give(FALSE)
  /\ UNCHANGED <<proc, reaped>>

ConfirmExpires == at = "confirm" /\ SeenRunning # {} /\ Give(TRUE) /\ UNCHANGED <<proc, reaped>>
Drain == at = "drain" /\ Writers = {} /\ Give(FALSE) /\ UNCHANGED <<proc, reaped>>
DrainExpires == at = "drain" /\ Writers # {} /\ Give(TRUE) /\ UNCHANGED <<proc, reaped>>

Report ==
  /\ at = "report" /\ Return(cause)
  /\ UNCHANGED <<proc, worldVars, reaped, seen, walk, cause, stopped, piped>>

-----------------------------------------------------------------------------
(* _kill_process_tree, when a shell command runs out of time *)

KillTree ==
  /\ at = "tree"
  /\ walk' = Descendants /\ proc' = Kill(proc, InGroup) /\ at' = "treekill"
  /\ UNCHANGED <<worldVars, reaped, seen, cause, stopped, outcome, piped>>

KillChildren ==
  /\ at = "treekill"
  /\ proc' = Kill(proc, walk) /\ walk' = {} /\ at' = "treewait"
  /\ UNCHANGED <<worldVars, reaped, seen, cause, stopped, outcome, piped>>

WaitLeader ==
  /\ at = "treewait" /\ Zombie(Leader)
  /\ reaped' = TRUE /\ proc' = Reap(proc) /\ Return("timeout")
  /\ UNCHANGED <<worldVars, seen, walk, cause, stopped, piped>>

Owner ==
  \/ Sample \/ Identify \/ Poll \/ Check \/ SliceEnds \/ Finish
  \/ RememberWriters \/ KillGroup \/ (\E p \in Pids : Signal(p)) \/ Signalled
  \/ ReapLeader \/ ReapExpires \/ Confirm \/ ConfirmExpires \/ Drain \/ DrainExpires \/ Report
  \/ KillTree \/ KillChildren \/ WaitLeader

Processes ==
  \E p \in Pids :
    \/ \E c \in Pids : Fork(p, c)
    \/ StartForeign(p) \/ Detach(p) \/ CloseOutput(p) \/ Exit(p) \/ Collect(p)

Ended == at = "ended" /\ UNCHANGED vars

Next == Owner \/ Processes \/ Cancel \/ Expire \/ Ended

Spec == Init /\ [][Next]_vars
-----------------------------------------------------------------------------
\* The variables keep to the values the code gives them.
TypeInvariant ==
  /\ births \in 1..MaxBirths /\ seen \in [Pids -> 0..MaxBirths] /\ walk \subseteq Pids
  /\ \A p \in Pids :
       /\ proc[p].state \in {"free", "running", "zombie"} /\ proc[p].born \in 0..MaxBirths
       /\ proc[p].parent \in Pids \union {"init", "owner"}
       /\ proc[p].group \in Pids \union {"none"}
  /\ at \in {"sample", "identify", "poll", "check", "sleep", "writers", "group", "signal",
             "reap", "confirm", "drain", "report", "tree", "treekill", "treewait", "ended"}
  /\ cause \in {"none", "cancelled", "timeout"}
  /\ outcome \in {"none", "exited", "cancelled", "timeout"}
  /\ {reaped, stopped, piped, cancelled, expired} \subseteq BOOLEAN

\* Whatever becomes of a PID, no process of another program is ever signalled.
NoForeignKilled == \A p \in Pids : proc[p].killed => proc[p].own

Survivors == {p \in Pids : Running(p) /\ proc[p].own}

\* When a stop is confirmed, no process that was ever seen below the command
\* still runs, and none is left that could write to the output being collected.
StopConfirmed ==
  outcome = "cancelled" /\ stopped =>
    \A p \in Survivors : ~Identified(p) /\ ~(piped /\ proc[p].writes)
=============================================================================
