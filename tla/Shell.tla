-------------------------------- MODULE Shell --------------------------------
(* The interactive shell: a main thread that dispatches commands and watches  *)
(* Runs, a thread that reads lines, and a daemon thread that owns at most one *)
(* Run.  Lines typed during a watch are dispatched inside it, so watches can  *)
(* nest; Ctrl-C unwinds all of them and asks the current Run to stop.         *)
EXTENDS Naturals, Sequences

CONSTANTS
  Runs, NoRun,
  Commands,      \* the commands the user knows
  MaxLines, MaxSignals     \* lines typed, Ctrl-C pressed

\* What the constants are.
ShellAssumption ==
  /\ NoRun \notin Runs /\ MaxLines \in Nat /\ MaxSignals \in Nat
  /\ Commands \subseteq {"text", "interrupt", "correct", "quit", "run", "resume", "answer",
                         "attach", "show"}

Line(do, r) == [do |-> do, run |-> r]
NoLine == Line("none", NoRun)
Eof == Line("eof", NoRun)
About == {"run", "resume", "attach", "show"}     \* commands that name a Run
Lines == {Line(do, r) : do \in Commands \intersect About, r \in Runs}
           \union {Line(do, NoRun) : do \in Commands \ About}

\* "asking" is a paused Run with a question for the user.
Statuses == {"absent", "running", "paused", "asking", "ended"}
Paused == {"paused", "asking"}
NoStart == [kind |-> "none", run |-> NoRun, gives |-> FALSE]

VARIABLES
  status, interrupts,     \* of each Run in the store: its status, an unread interrupt
  foreign,                \* the Runs other processes execute
  owner,                  \* the Runner: its Run, the call it makes, how far it is, its error
  at, base,               \* the main thread: its place, and below the watches
  frames,                 \* the watches, innermost last, with the Run each last read
  start,                  \* the owner about to be started
  current, exiting, correcting,     \* current_run_id and the two flags of the Shell
  queue, reader,          \* the line read, and the thread that reads
  lines, signals

storeVars == <<status, interrupts, foreign>>
mainVars == <<at, base, frames, start>>
flagVars == <<current, exiting, correcting>>
inputVars == <<queue, reader, lines, signals>>
vars == <<storeVars, owner, mainVars, flagVars, inputVars>>

Init ==
  /\ status \in [Runs -> Statuses \ {"ended"}]
  /\ foreign = {r \in Runs : status[r] = "running"}
  /\ interrupts = [r \in Runs |-> FALSE]
  /\ owner = [run |-> NoRun, call |-> "none", at |-> "none", failed |-> FALSE]
  /\ at = "prompt" /\ base = "dispatch" /\ frames = <<>> /\ start = NoStart
  /\ current = NoRun /\ exiting = FALSE /\ correcting = FALSE
  /\ queue = NoLine /\ reader = "reading"
  /\ lines = 0 /\ signals = 0

\* Runner.active and Runner.done: the thread is alive a little longer than its work.
Working == owner.at \in {"begin", "work"}
Active == Working \/ owner.at = "done"
Done == owner.at \in {"done", "dead"}

-----------------------------------------------------------------------------
(* Where the main thread goes *)

Top == frames[Len(frames)]
Below == SubSeq(frames, 1, Len(frames) - 1)

\* Mutant: a command typed in a watch returns to the prompt.
SettledAtPrompt == IF base = "handler" THEN "rewatch" ELSE "prompt"

\* A command is over: the watch it was typed in goes on, or the prompt returns.
Settled == IF frames # <<>> THEN "check" ELSE IF base = "handler" THEN "rewatch" ELSE "prompt"
Back == at' = Settled /\ UNCHANGED <<base, frames, start>>

\* An exception of a command is printed; in the handler of Ctrl-C it is not caught.
Fail ==
  /\ at' = IF frames = <<>> /\ base # "dispatch" THEN "crashed" ELSE Settled
  /\ UNCHANGED <<base, frames, start>>

Build(kind, r, gives) ==
  /\ at' = "build" /\ start' = [kind |-> kind, run |-> r, gives |-> gives]
  /\ UNCHANGED <<base, frames>>

Watch(r, own, gives) ==
  /\ frames' = Append(frames, [run |-> r, own |-> own, gives |-> gives, seen |-> "absent"])
  /\ at' = "watch" /\ UNCHANGED base

\* The innermost watch returns to the command that opened it.
Return ==
  /\ frames' = Below
  /\ at' = IF Below # <<>> THEN "check"
           ELSE CASE base = "handler" -> "rewatch"
                  [] base = "rewatch" -> "prompt"
                  [] OTHER -> IF Top.gives /\ exiting THEN "exited" ELSE "prompt"
  /\ base' = IF Below = <<>> /\ base = "rewatch" THEN "dispatch" ELSE base
  /\ UNCHANGED start

Raise ==
  /\ frames' = Below
  /\ at' = IF Below # <<>> THEN "check" ELSE IF base = "dispatch" THEN "prompt" ELSE "crashed"
  /\ UNCHANGED <<base, start>>

-----------------------------------------------------------------------------
(* Commands *)

CanControl == current # NoRun /\ status[current] \in {"running", "paused", "asking"}

\* The interrupt is published, and a paused Run gets an owner that settles it.
RequestInterrupt(text) ==
  /\ interrupts' = [interrupts EXCEPT ![current] = TRUE]
  /\ correcting' = text
  /\ UNCHANGED <<status, foreign, current, exiting, owner>>
  /\ IF status[current] \in Paused /\ ~Active
     THEN Build("settle", current, FALSE) ELSE Back

Unchanged == UNCHANGED <<storeVars, owner, flagVars>>

Quit(line) ==
  /\ line.do = "quit"
  /\ IF Active THEN Fail /\ Unchanged /\ UNCHANGED reader
     ELSE /\ exiting' = TRUE
          /\ at' = IF frames = <<>> THEN "exited" ELSE "check"
          /\ reader' = "stopped"
          /\ UNCHANGED <<storeVars, owner, base, frames, start, current, correcting>>

\* Commands that start an owner. Whether the identity of a new Run is taken is only seen
\* when create_run is called.
Advance(line) ==
  /\ line.do \in {"run", "resume"}
  /\ IF Active \/ (line.do = "resume" /\ status[line.run] = "absent")
     THEN Fail /\ Unchanged
     ELSE Build(line.do, line.run, TRUE) /\ Unchanged

Answer(line) ==
  /\ line.do = "answer"
  /\ IF Active \/ current = NoRun THEN Fail
     ELSE IF status[current] # "asking" THEN Fail
     ELSE at' = "ask" /\ UNCHANGED <<base, frames, start>>
  /\ Unchanged

Attach(line) ==
  /\ line.do = "attach"
  /\ IF Active \/ status[line.run] = "absent" THEN Fail /\ UNCHANGED current
     ELSE Watch(line.run, FALSE, FALSE) /\ current' = line.run /\ UNCHANGED start
  /\ UNCHANGED <<storeVars, owner, exiting, correcting>>

Show(line) ==
  /\ line.do = "show"
  /\ IF status[line.run] = "absent" THEN Fail /\ UNCHANGED current
     ELSE current' = (IF Active THEN current ELSE line.run) /\ Back
  /\ UNCHANGED <<storeVars, owner, exiting, correcting>>

Control(line) ==
  /\ line.do \in {"text", "interrupt", "correct"}
  /\ IF ~CanControl THEN Fail /\ Unchanged
     ELSE IF line.do = "text" THEN Back /\ Unchanged
     ELSE RequestInterrupt(line.do = "correct")

Dispatch(line) ==
  \/ Quit(line)
  \/ Advance(line) /\ UNCHANGED reader
  \/ Answer(line) /\ UNCHANGED reader
  \/ Attach(line) /\ UNCHANGED reader
  \/ Show(line) /\ UNCHANGED reader
  \/ Control(line) /\ UNCHANGED reader

-----------------------------------------------------------------------------
(* The main thread *)

TakeLine == queue # NoLine /\ queue' = NoLine /\ UNCHANGED <<lines, signals>>

AtPrompt ==
  /\ at = "prompt" /\ TakeLine
  /\ IF queue = Eof
     THEN at' = "exited" /\ UNCHANGED <<base, frames, start, reader>> /\ Unchanged
     ELSE Dispatch(queue)

\* _prompt_answer: a value for the field, an interrupt, or no more input.
AskAnswer ==
  /\ at = "ask" /\ TakeLine /\ UNCHANGED reader
  /\ IF queue = Eof THEN Fail /\ Unchanged
     ELSE IF queue.do = "interrupt"
          THEN /\ at' = "handle" /\ base' = "handler" /\ frames' = <<>>
               /\ UNCHANGED start /\ Unchanged
          ELSE Build("answer", current, TRUE) /\ Unchanged

\* Mutant: the Run started is not made the current one.
StartUnselected ==
  /\ at = "build" /\ ~Active
  /\ owner' = [run |-> start.run, at |-> "begin", failed |-> FALSE,
               call |-> IF start.kind = "settle" THEN "resume" ELSE start.kind]
  /\ Watch(start.run, TRUE, start.gives) /\ start' = NoStart
  /\ UNCHANGED <<storeVars, flagVars, inputVars>>

\* The application is built before the thread starts.
StartOwner ==
  /\ at = "build" /\ ~Active
  /\ owner' = [run |-> start.run, at |-> "begin", failed |-> FALSE,
               call |-> IF start.kind = "settle" THEN "resume" ELSE start.kind]
  /\ current' = IF start.kind \in {"run", "resume"} THEN start.run ELSE current
  /\ Watch(start.run, TRUE, start.gives) /\ start' = NoStart
  /\ UNCHANGED <<storeVars, exiting, correcting, inputVars>>

StartFails ==
  /\ at = "build" /\ Fail
  /\ UNCHANGED <<storeVars, owner, flagVars, inputVars>>

Poll ==
  /\ at = "watch"
  /\ frames' = [frames EXCEPT ![Len(frames)].seen = status[Top.run]] /\ at' = "line"
  /\ UNCHANGED <<storeVars, owner, base, start, flagVars, inputVars>>

NoInput ==
  /\ at = "line" /\ queue = NoLine /\ at' = "check"
  /\ UNCHANGED <<storeVars, owner, base, frames, start, flagVars, inputVars>>

WatchLine ==
  /\ at = "line" /\ queue # Eof /\ TakeLine /\ Dispatch(queue)

\* No more input: the current Run is asked to stop when the watched one runs.
WatchEof ==
  /\ at = "line" /\ queue = Eof /\ TakeLine /\ UNCHANGED reader
  /\ exiting' = TRUE
  /\ IF Top.seen # "running"
     THEN /\ at' = "check" /\ UNCHANGED <<base, frames, start, correcting, interrupts>>
     ELSE IF ~CanControl
          THEN Raise /\ UNCHANGED <<correcting, interrupts>>
          ELSE /\ interrupts' = [interrupts EXCEPT ![current] = TRUE] /\ correcting' = FALSE
               /\ IF status[current] \in Paused /\ ~Active
                  THEN Build("settle", current, FALSE) ELSE Back
  /\ UNCHANGED <<status, foreign, owner, current>>

\* _continue_after_confirmed_stop
Stopped(r, result) ==
  /\ correcting' = FALSE
  /\ IF correcting /\ result = "paused"
     THEN /\ at' = "build" /\ frames' = Below
          /\ start' = [kind |-> "continue", run |-> r, gives |-> Top.gives]
          /\ UNCHANGED base
     ELSE Return

WatchOwn ==
  /\ at = "check" /\ Top.own
  /\ IF ~Done THEN at' = "watch" /\ UNCHANGED <<base, frames, start, correcting>>
     ELSE IF owner.failed THEN Raise /\ UNCHANGED correcting
     ELSE Stopped(owner.run, status[owner.run])
  /\ UNCHANGED <<storeVars, owner, current, exiting, inputVars>>

WatchOther ==
  /\ at = "check" /\ ~Top.own
  /\ IF Top.seen \in Paused \union {"ended"} THEN Stopped(Top.run, Top.seen)
     ELSE at' = "watch" /\ UNCHANGED <<base, frames, start, correcting>>
  /\ UNCHANGED <<storeVars, owner, current, exiting, inputVars>>

-----------------------------------------------------------------------------
(* Ctrl-C *)

\* At the prompt it only ends the line; in its own handler nothing catches it.
Signal ==
  /\ signals < MaxSignals /\ at \notin {"exited", "crashed"}
  /\ signals' = signals + 1
  /\ CASE at = "prompt" -> UNCHANGED mainVars
       [] at # "prompt" /\ base # "dispatch" ->
            at' = "crashed" /\ UNCHANGED <<base, frames, start>>
       [] OTHER -> /\ at' = "handle" /\ base' = "handler" /\ frames' = <<>>
                   /\ UNCHANGED start
  /\ UNCHANGED <<storeVars, owner, flagVars, queue, reader, lines>>

Handle ==
  /\ at = "handle"
  /\ IF current = NoRun
     THEN at' = "prompt" /\ base' = "dispatch" /\ UNCHANGED <<frames, start>> /\ Unchanged
     ELSE IF ~CanControl THEN Fail /\ Unchanged
     ELSE RequestInterrupt(FALSE)
  /\ UNCHANGED inputVars

\* Mutant: the prompt returns as soon as the interrupt is published.
RewatchNever ==
  /\ at = "rewatch"
  /\ at' = "prompt" /\ base' = "dispatch" /\ UNCHANGED frames
  /\ UNCHANGED <<storeVars, owner, start, flagVars, inputVars>>

Rewatch ==
  /\ at = "rewatch"
  /\ IF Active
     THEN /\ at' = "watch" /\ base' = "rewatch"
          /\ frames' = <<[run |-> current, own |-> TRUE, gives |-> FALSE, seen |-> "absent"]>>
     ELSE at' = "prompt" /\ base' = "dispatch" /\ UNCHANGED frames
  /\ UNCHANGED <<storeVars, owner, start, flagVars, inputVars>>

-----------------------------------------------------------------------------
(* The thread that reads, the owner, and the other processes *)

Type(line) ==
  /\ reader = "reading" /\ queue = NoLine /\ lines < MaxLines
  /\ queue' = line /\ lines' = lines + 1
  /\ reader' = IF line = Eof THEN "ended" ELSE reader
  /\ UNCHANGED <<storeVars, owner, mainVars, flagVars, signals>>

OwnerEnds(failed) == owner' = [owner EXCEPT !.at = "done", !.failed = failed]
MainIdle == UNCHANGED <<mainVars, flagVars, inputVars>>

\* create_run, resume_run or answer_question is called.
OwnerBegins ==
  /\ owner.at = "begin"
  /\ LET r == owner.run
         wanted == CASE owner.call = "run" -> {"absent"}
                     [] owner.call = "answer" -> {"asking"}
                     [] OTHER -> IF interrupts[r] THEN {"running", "paused", "asking"}
                                 ELSE {"running", "paused"}
     IN IF r \in foreign \/ status[r] \notin wanted
        THEN OwnerEnds(TRUE) /\ UNCHANGED <<status, interrupts>>
        ELSE IF owner.call \in {"resume", "continue"} /\ interrupts[r]
        THEN /\ OwnerEnds(FALSE) /\ interrupts' = [interrupts EXCEPT ![r] = FALSE]
             /\ status' = [status EXCEPT ![r] = IF status[r] = "asking" THEN "asking" ELSE "paused"]
        ELSE /\ owner' = [owner EXCEPT !.at = "work"]
             /\ status' = [status EXCEPT ![r] = "running"] /\ UNCHANGED interrupts
  /\ UNCHANGED foreign /\ MainIdle

\* A Run that works pauses for an interrupt or a question, or ends.
Stops(r, result) ==
  /\ result \in {"paused", "asking", "ended"}
  /\ (result = "paused") => interrupts[r]
  /\ (result = "ended") => ~interrupts[r]
  /\ status' = [status EXCEPT ![r] = result]
  /\ interrupts' = [interrupts EXCEPT ![r] = @ /\ result # "paused"]

OwnerStops(result) ==
  /\ owner.at = "work" /\ Stops(owner.run, result) /\ OwnerEnds(FALSE)
  /\ UNCHANGED foreign /\ MainIdle

OwnerBreaks ==
  /\ owner.at = "work" /\ OwnerEnds(TRUE) /\ UNCHANGED storeVars /\ MainIdle

ThreadEnds ==
  /\ owner.at = "done" /\ owner' = [owner EXCEPT !.at = "dead"]
  /\ UNCHANGED storeVars /\ MainIdle

OtherStops(r, result) ==
  /\ r \in foreign /\ Stops(r, result) /\ foreign' = foreign \ {r}
  /\ UNCHANGED owner /\ MainIdle

Main ==
  \/ AtPrompt \/ AskAnswer \/ StartOwner \/ Poll \/ NoInput \/ WatchLine \/ WatchEof
  \/ WatchOwn \/ WatchOther \/ Handle \/ Rewatch
Owner == OwnerBegins \/ (\E result \in Statuses : OwnerStops(result)) \/ ThreadEnds
Other(r) == \E result \in Statuses : OtherStops(r, result)

\* The shell is over, or waits for a line.
Rest == at \in {"prompt", "ask", "exited", "crashed"} /\ UNCHANGED vars

Next ==
  \/ Main \/ StartFails \/ Signal \/ Owner \/ OwnerBreaks
  \/ \E r \in Runs : Other(r)
  \/ \E line \in Lines \union {Eof} : Type(line)
  \/ Rest
Spec == Init /\ [][Next]_vars
\* The main thread polls, and a Run ends within the limits of its budget.
FairSpec == Spec /\ WF_vars(Main) /\ WF_vars(Owner) /\ \A r \in Runs : WF_vars(Other(r))

-----------------------------------------------------------------------------
\* The variables keep to the values the code gives them.
TypeInvariant ==
  /\ status \in [Runs -> Statuses] /\ interrupts \in [Runs -> BOOLEAN] /\ foreign \subseteq Runs
  /\ owner \in [run : Runs \union {NoRun}, call : {"none", "run", "answer", "resume", "continue"},
                at : {"none", "begin", "work", "done", "dead"}, failed : BOOLEAN]
  /\ at \in {"prompt", "ask", "build", "watch", "line", "check", "handle", "rewatch",
             "exited", "crashed"}
  /\ base \in {"dispatch", "handler", "rewatch"} /\ (at = "prompt" => base = "dispatch")
  /\ frames \in Seq([run : Runs, own : BOOLEAN, gives : BOOLEAN, seen : Statuses]) /\ Len(frames) <= MaxLines
  /\ (at \in {"watch", "line", "check"} <=> frames # <<>>) \/ at \in {"ask", "build", "crashed"}
  /\ current \in Runs \union {NoRun} /\ {exiting, correcting} \subseteq BOOLEAN
  /\ reader \in {"reading", "stopped", "ended"}

\* While the Run of the shell advances, the shell waits for it: no command, error
\* or end of input returns to the prompt or leaves; only Ctrl-C may break it off.
\* An owner that continues a corrected Run which is not the current one is excepted:
\* the end of input is then for another Run and may break its watch off.
OwnerWatched ==
  owner.at = "work" /\ (owner.call = "continue" => current = owner.run) =>
    \/ \E i \in 1..Len(frames) : frames[i].own
    \/ at \in {"handle", "rewatch"} \/ (at = "crashed" /\ signals > 0)

\* What the user types in the watch of an owner the user started is for the Run of that
\* owner, whatever was selected in the watches inside and around it.  The owner that
\* continues a corrected Run is excepted: see ControlsReachCorrected.
ControlsReachOwner ==
  Working /\ frames # <<>> /\ Top.own /\ owner.call # "continue" => current = owner.run

-----------------------------------------------------------------------------
(* What the texts of the repository say and the code does not keep. *)

\* The same without the exception.
ContinuedWatched ==
  owner.at = "work" => \/ \E i \in 1..Len(frames) : frames[i].own
                       \/ at \in {"handle", "rewatch"} \/ (at = "crashed" /\ signals > 0)

\* The Run continued after a correction is the one the user controls: a correction whose
\* owner failed is still noted when an outer watch of another Run ends, which is continued.
ControlsReachCorrected ==
  Working /\ frames # <<>> /\ Top.own /\ owner.call = "continue" => current = owner.run

\* No Ctrl-C makes the shell leave a Run it owns.
NeverAbandoned == at = "crashed" => ~Working

\* An accepted /quit leaves the shell.
QuitExits == reader = "stopped" ~> at \in {"exited", "crashed"}
=============================================================================
