--------------------------- MODULE AgentLoopProofs ---------------------------
(* What a Session keeps, for any Agents, budgets, batches, deaths and          *)
(* interventions.                                                              *)
EXTENDS AgentLoopProperties, SequenceTheorems, TLAPS

(* The calls of a history, by what its turns say of them. *)

AskedIn(ts) == {c \in Calls : c[1] \in DOMAIN ts /\ c[2] \in DOMAIN ts[c[1]].calls}
KindIn(ts, c) == ts[c[1]].calls[c[2]]
ReceiptIn(ts, c) ==
  IF c[1] \in DOMAIN ts /\ c[2] \in DOMAIN ts[c[1]].receipts
  THEN ts[c[1]].receipts[c[2]] ELSE "none"
OpenIn(ts) == {c \in AskedIn(ts) : ReceiptIn(ts, c) = "none"}
RunningIn(ts) == {c \in AskedIn(ts) : ts[c[1]].running = c[2]}

TurnRecords == [calls : Seq(AllCallKinds), receipts : Seq(Receipts), running : Nat]

\* A turn has a receipt for each of its calls, which the Agent may make, and the one
\* that runs is open.
TurnTyped(turn, n, kinds) ==
  /\ Len(turn.receipts) = Len(turn.calls) /\ Len(turn.calls) <= MaxBatch
  /\ \A i \in 1..Len(turn.calls) : n <= MaxTurns /\ turn.calls[i] \in kinds
  /\ turn.running # 0 =>
       turn.running <= Len(turn.calls) /\ turn.receipts[turn.running] = "none"

TurnsTyped(ts, kinds) ==
  ts \in Seq(TurnRecords) /\ \A n \in 1..Len(ts) : TurnTyped(ts[n], n, kinds)

Statuses == {"absent", "active", "paused", "completed", "failed", "cancelled"}
Results == [kind : ResultKinds, control : Controls]

\* The values of the fields other than the history: those the Session saves, the world and
\* the Run, the owner, and the invocation.
SavedFields ==
  /\ profile \in Profiles /\ status \in Statuses
  /\ control \in Controls /\ operation \in Calls \union {NoCall}
  /\ checkpoint \in Nat /\ terminal \in Results /\ seen \in Nat
  /\ authorized \subseteq Calls /\ cache \in [Calls \union {NoCall} -> Results]
WorldFields ==
  /\ used \in 0..profile.calls
  /\ effects \in [Calls -> Nat] /\ approved \subseteq Calls
  /\ materials \in [Calls -> {"none", "bound", "listed"}]
OwnerFields ==
  /\ received \in Seq(Controls) /\ resolved \subseteq Calls /\ published \in Nat
  /\ texts \in BOOLEAN /\ attention \in BOOLEAN /\ interventions \in Nat
  /\ crashes \in 0..profile.crashes
LocalFields ==
  /\ request \in Request /\ index \in Nat /\ failures \in 0..FailureLimit
  /\ recovered \in BOOLEAN /\ token \in BOOLEAN /\ boundary \in BOOLEAN
  /\ result \in Results

FieldsInv == SavedFields /\ WorldFields /\ OwnerFields /\ LocalFields
TypesInv == FieldsInv /\ TurnsTyped(turns, CallKinds)

-----------------------------------------------------------------------------
(* Where the invocation stands in the history. *)

\* Points at which a call of the last turn is marked as running, those of a task's approved
\* operation, those of a batch that may start calls, and those of any batch.
RunningPoints == {"execute", "observe", "receipt"}
ApprovedPoints == {"approved", "ran"}
StartingPoints == {"call", "reviewing", "succeeded", "tried"} \union RunningPoints
BatchPoints == {"refuse", "break"} \union StartingPoints

\* The call the point is about.
CurrentInv ==
  /\ index <= Len(turns) + MaxBatch + 1
  /\ at \in BatchPoints => turns # <<>>
  /\ at \in RunningPoints \union ApprovedPoints => Current \in RunningIn(turns)
  /\ at = "reviewing" => Current \in OpenIn(turns)
  /\ at \in {"succeeded", "tried", "controlled", "finished"} =>
       Current \in AskedIn(turns) \ OpenIn(turns)
  /\ at = "call" => index \in 1..(Len(LastTurn.calls) + 1)
  /\ at \in ApprovedPoints \union {"reviewing"} => KindIn(turns, Current) = "guarded"
  /\ at = "receipt" => KindIn(turns, Current) \in ControlKinds

\* What runs, what is open and what is whole around it.
WholeInv ==
  /\ at \in {"refuse", "break", "call", "reviewing", "succeeded", "tried"} =>
       RunningIn(turns) = {}
  /\ at \in RunningPoints => RunningIn(turns) = {Current}
  /\ at \in BatchPoints => \A c \in OpenIn(turns) : c[1] = Len(turns)
  /\ at \in StartingPoints =>
       /\ Acceptable(LastTurn.calls)
       /\ \A c \in AskedIn(turns) \ OpenIn(turns) : c[1] = Len(turns) => c[2] <= index
  /\ at = "call" =>
       \A c \in AskedIn(turns) \ OpenIn(turns) : c[1] = Len(turns) => c[2] < index
  /\ at \in {"loop", "replying", "finished"} => OpenIn(turns) = {}
  /\ at = "recover" => index \in 1..(Len(turns) + 1) /\ \A c \in OpenIn(turns) : c[1] >= index
  /\ at = "recovered" => index \in 1..Len(turns) /\ \A c \in OpenIn(turns) : c[1] > index
  /\ checkpoint <= Len(turns) /\ (checkpoint # 0 => checkpoint < Len(turns))
  /\ \A c \in OpenIn(turns) : c[1] > checkpoint

-----------------------------------------------------------------------------
(* What the calls did, and what is told of them. *)

EffectsInv ==
  /\ EffectCalls \subseteq AskedIn(turns)
  /\ \A c \in EffectCalls : KindIn(turns, c) \in {"tool", "guarded"}
  /\ \A c \in AskedIn(turns) : ReceiptIn(turns, c) = "ok" => c \in EffectCalls
  /\ EffectCalls \intersect OpenIn(turns) \subseteq RunningIn(turns)
  /\ at \in {"execute", "approved"} => Current \notin EffectCalls
  /\ at = "ran" => Current \in EffectCalls
  /\ at = "observe" /\ KindIn(turns, Current) \in {"tool", "guarded"} => Current \in EffectCalls
  /\ at \in {"execute", "approved"} /\ KindIn(turns, Current) = "guarded" => Current \in approved
  /\ \A c \in EffectCalls : KindIn(turns, c) = "guarded" => c \in approved

\* Outside of an invocation no call of a task that did not die is running.
TaskInv ==
  ~Scientific /\ crashes = 0 =>
    \A c \in RunningIn(turns) :
      c[1] = Len(turns) /\ at \in RunningPoints \union ApprovedPoints \union {"failing"}

\* No call that began is said not to have.
Truthful == \A c \in EffectCalls : ReceiptIn(turns, c) \notin DidNotRun

-----------------------------------------------------------------------------
(* Controls, the request and its result. *)

UncontrolledPoints ==
  ApprovedPoints \union {"recover", "recovered", "loop", "replying", "finished"}
    \union (BatchPoints \ {"receipt"})

\* A control names the call it came from, whose kind says what it asks for.
Names(ts, k) ==
  /\ k.call \in AskedIn(ts)
  /\ k.action = IF KindIn(ts, k.call) = "guarded" THEN "approve" ELSE KindIn(ts, k.call)
  /\ k.action \in {"approve"} \union ControlKinds

ReceivedCalls == {received[i].call : i \in DOMAIN received}

ControlInv ==
  /\ at \in UncontrolledPoints => control = NoControl
  /\ control # NoControl => Names(turns, control)
  /\ at \in {"receipt", "controlled"} => control.call = Current /\ control.action \in ControlKinds
  /\ at = "controlled" => ReceiptIn(turns, control.call) = "accepted"
  /\ control.action \in ControlKinds =>
       \/ ReceiptIn(turns, control.call) \in {"none", "accepted"}
       \/ LastReceived \notin {NoCall, control.call}
  /\ at = "failing" /\ control # NoControl => LastReceived \notin {NoCall, control.call}
  /\ result.kind = "control" =>
       /\ control # NoControl
       /\ control.action \in ControlKinds => ReceiptIn(turns, control.call) = "accepted"

\* What the owner received was told accepted, but for approvals.
ReceivedInv ==
  \A i \in DOMAIN received :
    /\ Names(turns, received[i])
    /\ received[i].action \in ControlKinds => ReceiptIn(turns, received[i].call) = "accepted"

\* The approval a task waits for: its call is open, in the last turn, and nothing runs.
ApprovalInv ==
  /\ control.action = "approve" =>
       /\ operation = control.call /\ control.call \in OpenIn(turns)
       /\ control.call[1] = Len(turns) /\ RunningIn(turns) = {} /\ at # "failing"
  /\ \A i \in DOMAIN received : received[i].action = "approve" =>
       \/ received[i] = control
       \/ received[i].call \notin OpenIn(turns) \ RunningIn(turns)

\* A task is served until it dies, each time with the control it received last.
OwnerInv ==
  ~Scientific =>
    /\ published = 0 /\ ~texts /\ ~attention /\ ~boundary
    /\ crashes > 0 => at = "idle" /\ result.kind = "none"
    /\ crashes = 0 /\ control # NoControl =>
         /\ at \in {"resume", "notices", "control"} => LastReceived = control.call
         /\ at = "idle" /\ result.kind = "none" => LastReceived = control.call
    /\ result.kind = "control" \/ at \in {"receipt", "controlled"} =>
         control \notin Range(received) \/ LastReceived = control.call

StatusInv ==
  /\ status \in {"completed", "failed", "cancelled"} => at \in {"idle", "resume", "returning"}
  /\ at \in {"receipt", "controlled"} => status = "paused"
  /\ terminal = IF status \in {"completed", "failed"} THEN Result(status) ELSE NoResult
  /\ result.kind # "none" => at \in {"idle", "returning"}
  /\ at = "returning" => result.kind # "none"
  /\ status = "completed" => OpenIn(turns) = {}

\* What the request says is what the owner knows until the invocation returns.
RequestInv ==
  /\ seen <= published
  /\ at # "idle" =>
       /\ request.acknowledges = LastReceived /\ request.notices = published
       /\ request.answers = resolved /\ request.release = attention
       /\ request.cached = (published = 0 /\ ~texts)

Agrees(r) ==
  /\ r.kind = "control" => status = "paused" /\ control = r.control /\ control # NoControl
  /\ r.kind \in {"yielded", "interrupted"} => status = "paused"
  /\ r.kind \in {"completed", "failed"} => status = r.kind

\* The answer kept for the request the owner would make again is still true, and
\* nothing is kept while the request is served.
CacheInv ==
  /\ \A k \in Calls \union {NoCall} :
       cache[k].kind # "none" => Scientific /\ k \in ReceivedCalls \union {NoCall}
  /\ published = 0 /\ ~texts =>
       /\ Agrees(cache[LastReceived])
       /\ cache[LastReceived].kind = "control" /\ control.action \in ControlKinds =>
            ReceiptIn(turns, control.call) = "accepted"
       /\ at \notin {"idle", "resume"} => cache[LastReceived].kind = "none"

-----------------------------------------------------------------------------
(* Artifacts. *)

Succeeded ==
  {c \in AskedIn(turns) : ReceiptIn(turns, c) \in {"ok", "registered"} /\ materials[c] # "none"}
Unlisted == {c \in Succeeded : materials[c] # "listed"}

\* What a successful call froze is authorized at once, and listed before the model is
\* asked again.
MaterialsInv ==
  /\ \A c \in Calls : materials[c] # "none" => Scientific /\ c \in EffectCalls
  /\ \A c \in Calls : materials[c] = "listed" => ReceiptIn(turns, c) # "none"
  /\ Succeeded \subseteq authorized
  /\ at \in {"loop", "replying", "finished", "refuse", "break", "call", "reviewing"}
            \union RunningPoints
       \/ status = "completed" => Unlisted = {}
  /\ at \in {"succeeded", "tried"} => Unlisted \subseteq {Current}
  /\ at \in {"recover", "recovered"} => \A c \in Unlisted : c[1] >= index
-----------------------------------------------------------------------------
(* How a history may change *)

\* The calls of S are told what told says of them, and nothing else of a call changes.
Tells(ts, us, S, told) ==
  /\ S \subseteq OpenIn(ts) /\ \A c \in S : told[c] \in Receipts \ {"none"}
  /\ AskedIn(us) = AskedIn(ts)
  /\ OpenIn(us) = OpenIn(ts) \ S /\ RunningIn(us) = RunningIn(ts) \ S
  /\ \A c \in AskedIn(ts) :
       /\ KindIn(us, c) = KindIn(ts, c)
       /\ ReceiptIn(us, c) = IF c \in S THEN told[c] ELSE ReceiptIn(ts, c)

\* A call is marked as running, instead of what ran in its turn.
Marks(ts, us, c) ==
  /\ AskedIn(us) = AskedIn(ts) /\ OpenIn(us) = OpenIn(ts)
  /\ RunningIn(us) = {d \in RunningIn(ts) : d[1] # c[1]} \union {c}
  /\ \A d \in AskedIn(ts) :
       KindIn(us, d) = KindIn(ts, d) /\ ReceiptIn(us, d) = ReceiptIn(ts, d)

\* New calls are asked for, which are open.
Asks(ts, us, new) ==
  /\ AskedIn(ts) \intersect new = {} /\ AskedIn(us) = AskedIn(ts) \union new
  /\ OpenIn(us) = OpenIn(ts) \union new /\ RunningIn(us) = RunningIn(ts)
  /\ \A d \in AskedIn(ts) :
       KindIn(us, d) = KindIn(ts, d) /\ ReceiptIn(us, d) = ReceiptIn(ts, d)

\* Whatever a history of typed turns says is said of a call in it.
LEMMA CallsIn ==
  ASSUME NEW ts, NEW kinds, TurnsTyped(ts, kinds)
  PROVE  /\ Len(ts) \in Nat /\ DOMAIN ts = 1..Len(ts)
         /\ \A c : c \in AskedIn(ts) <=>
              c \in Calls /\ c[1] \in 1..Len(ts) /\ c[2] \in 1..Len(ts[c[1]].calls)
         /\ \A n \in 1..Len(ts) : \A i \in 1..Len(ts[n].calls) : <<n, i>> \in AskedIn(ts)
         /\ \A c \in AskedIn(ts) : ReceiptIn(ts, c) = ts[c[1]].receipts[c[2]]
         /\ \A c \in Calls \ AskedIn(ts) : ReceiptIn(ts, c) = "none"
         /\ \A c \in AskedIn(ts) : ReceiptIn(ts, c) \in Receipts /\ KindIn(ts, c) \in kinds
<1>1. ts \in Seq(TurnRecords) /\ Len(ts) \in Nat /\ DOMAIN ts = 1..Len(ts)
  BY DEF TurnsTyped
<1>2. \A n \in 1..Len(ts) :
        /\ ts[n] \in TurnRecords /\ TurnTyped(ts[n], n, kinds)
        /\ DOMAIN ts[n].calls = 1..Len(ts[n].calls)
        /\ DOMAIN ts[n].receipts = 1..Len(ts[n].calls) /\ Len(ts[n].calls) \in Nat
  <2> SUFFICES ASSUME NEW n \in 1..Len(ts)
               PROVE  /\ ts[n] \in TurnRecords /\ TurnTyped(ts[n], n, kinds)
                      /\ DOMAIN ts[n].calls = 1..Len(ts[n].calls)
                      /\ DOMAIN ts[n].receipts = 1..Len(ts[n].calls) /\ Len(ts[n].calls) \in Nat
    OBVIOUS
  <2>1. ts[n] \in TurnRecords /\ TurnTyped(ts[n], n, kinds)
    BY <1>1 DEF TurnsTyped
  <2>2. ts[n].calls \in Seq(AllCallKinds) /\ ts[n].receipts \in Seq(Receipts)
    BY <2>1 DEF TurnRecords
  <2> QED BY <2>1, <2>2 DEF TurnTyped
<1>3. \A c : c \in AskedIn(ts) <=>
        c \in Calls /\ c[1] \in 1..Len(ts) /\ c[2] \in 1..Len(ts[c[1]].calls)
  BY <1>1, <1>2 DEF AskedIn
<1>4. ASSUME NEW n \in 1..Len(ts), NEW i \in 1..Len(ts[n].calls)
      PROVE  <<n, i>> \in AskedIn(ts)
  <2>1. n \in 1..MaxTurns /\ i \in 1..MaxBatch
    BY <1>1, <1>2, LimitsAssumption DEF TurnTyped
  <2> QED BY <2>1, <1>3 DEF Calls
<1>5. \A c \in AskedIn(ts) : ReceiptIn(ts, c) = ts[c[1]].receipts[c[2]]
  BY <1>1, <1>2, <1>3 DEF ReceiptIn
<1>6. \A c \in Calls \ AskedIn(ts) : ReceiptIn(ts, c) = "none"
  BY <1>1, <1>2, <1>3 DEF ReceiptIn
<1>7. \A n \in 1..Len(ts) : \A i \in 1..Len(ts[n].calls) :
        ts[n].receipts[i] \in Receipts /\ ts[n].calls[i] \in kinds
  BY <1>2 DEF TurnRecords, TurnTyped
<1>8. \A c \in AskedIn(ts) : ReceiptIn(ts, c) \in Receipts /\ KindIn(ts, c) \in kinds
  BY <1>3, <1>5, <1>7 DEF KindIn
<1> QED BY <1>1, <1>3, <1>4, <1>5, <1>6, <1>8

\* A call that runs is open, and the only one of its turn.
LEMMA RunningIsOpen ==
  ASSUME NEW ts, NEW kinds, TurnsTyped(ts, kinds)
  PROVE  /\ RunningIn(ts) \subseteq OpenIn(ts)
         /\ \A c, d \in RunningIn(ts) : c[1] = d[1] => c = d
         /\ \A n \in 1..Len(ts) : ts[n].running # 0 => <<n, ts[n].running>> \in RunningIn(ts)
<1>1. \A c \in AskedIn(ts) :
        /\ c[1] \in 1..Len(ts) /\ c[2] \in 1..Len(ts[c[1]].calls) /\ c = <<c[1], c[2]>>
        /\ ReceiptIn(ts, c) = ts[c[1]].receipts[c[2]]
  BY CallsIn DEF Calls
<1>2. \A n \in 1..Len(ts) :
        /\ ts[n].running \in Nat /\ Len(ts[n].calls) \in Nat
        /\ ts[n].running # 0 =>
             ts[n].running <= Len(ts[n].calls) /\ ts[n].receipts[ts[n].running] = "none"
  <2> SUFFICES ASSUME NEW n \in 1..Len(ts)
               PROVE  /\ ts[n].running \in Nat /\ Len(ts[n].calls) \in Nat
                      /\ ts[n].running # 0 =>
                           /\ ts[n].running <= Len(ts[n].calls)
                           /\ ts[n].receipts[ts[n].running] = "none"
    OBVIOUS
  <2>1. ts[n] \in TurnRecords /\ TurnTyped(ts[n], n, kinds)
    BY DEF TurnsTyped
  <2> QED BY <2>1 DEF TurnTyped, TurnRecords
<1>3. RunningIn(ts) \subseteq OpenIn(ts)
  <2> SUFFICES ASSUME NEW c \in AskedIn(ts), ts[c[1]].running = c[2]
               PROVE  ReceiptIn(ts, c) = "none"
    BY DEF RunningIn, OpenIn
  <2> QED BY <1>1, <1>2
<1>4. \A c, d \in RunningIn(ts) : c[1] = d[1] => c = d
  <2> SUFFICES ASSUME NEW c \in RunningIn(ts), NEW d \in RunningIn(ts), c[1] = d[1]
               PROVE  c = d
    OBVIOUS
  <2>1. c \in AskedIn(ts) /\ d \in AskedIn(ts) /\ c[2] = d[2]
    BY DEF RunningIn
  <2> QED BY <2>1, <1>1
<1>5. ASSUME NEW n \in 1..Len(ts), ts[n].running # 0
      PROVE  <<n, ts[n].running>> \in RunningIn(ts)
  <2>1. ts[n].running \in 1..Len(ts[n].calls)
    BY <1>2, <1>5
  <2>2. <<n, ts[n].running>> \in AskedIn(ts)
    BY <2>1, CallsIn
  <2> QED BY <2>2 DEF RunningIn
<1> QED BY <1>3, <1>4, <1>5

\* The calls of S are told what told says, said of the turns.
TurnsTell(ts, us, S, told) ==
  /\ us \in Seq(TurnRecords) /\ Len(us) = Len(ts)
  /\ S \subseteq OpenIn(ts) /\ \A c \in S : told[c] \in Receipts \ {"none"}
  /\ \A n \in 1..Len(ts) :
       /\ us[n].calls = ts[n].calls /\ Len(us[n].receipts) = Len(ts[n].receipts)
       /\ us[n].running = IF <<n, ts[n].running>> \in S THEN 0 ELSE ts[n].running
  /\ \A n \in 1..Len(ts) : \A i \in 1..Len(ts[n].calls) :
       us[n].receipts[i] = IF <<n, i>> \in S THEN told[<<n, i>>] ELSE ts[n].receipts[i]

\* What is said of the turns is what is said of their calls.
LEMMA TurnsTellCalls ==
  ASSUME NEW ts, NEW us, NEW kinds, NEW S, NEW told, TurnsTyped(ts, kinds),
         TurnsTell(ts, us, S, told)
  PROVE  TurnsTyped(us, kinds) /\ Tells(ts, us, S, told)
<1> USE DEF TurnsTell
<1>1. \A n \in 1..Len(ts) : TurnTyped(ts[n], n, kinds) /\ ts[n].running \in Nat
  <2> SUFFICES ASSUME NEW n \in 1..Len(ts)
               PROVE  TurnTyped(ts[n], n, kinds) /\ ts[n].running \in Nat
    OBVIOUS
  <2>1. ts[n] \in TurnRecords /\ TurnTyped(ts[n], n, kinds)
    BY DEF TurnsTyped
  <2> QED BY <2>1 DEF TurnRecords
<1>2. ASSUME NEW n \in 1..Len(us) PROVE TurnTyped(us[n], n, kinds)
  <2>1. n \in 1..Len(ts) /\ TurnTyped(ts[n], n, kinds) /\ ts[n].running \in Nat
        /\ Len(ts[n].calls) \in Nat
    <3>1. n \in 1..Len(ts) /\ ts[n] \in TurnRecords
      BY DEF TurnsTyped
    <3> QED BY <3>1, <1>1 DEF TurnRecords
  <2>2. ASSUME us[n].running # 0
        PROVE  us[n].running <= Len(us[n].calls) /\ us[n].receipts[us[n].running] = "none"
    <3>1. /\ us[n].running = ts[n].running /\ <<n, ts[n].running>> \notin S
          /\ ts[n].running \in 1..Len(ts[n].calls) /\ ts[n].receipts[ts[n].running] = "none"
      BY <2>1, <2>2 DEF TurnTyped
    <3> QED BY <2>1, <3>1
  <2> QED BY <2>1, <2>2 DEF TurnTyped
<1>3. TurnsTyped(us, kinds)
  BY <1>2 DEF TurnsTyped
<1>4. AskedIn(us) = AskedIn(ts)
  <2>1. \A c : c \in AskedIn(us) <=>
               c \in Calls /\ c[1] \in 1..Len(us) /\ c[2] \in 1..Len(us[c[1]].calls)
    BY <1>3, CallsIn
  <2>2. \A c : c \in AskedIn(ts) <=>
               c \in Calls /\ c[1] \in 1..Len(ts) /\ c[2] \in 1..Len(ts[c[1]].calls)
    BY CallsIn
  <2>3. \A c : c \in AskedIn(us) <=> c \in AskedIn(ts)
    BY <2>1, <2>2
  <2> QED BY <2>3
<1>5. ASSUME NEW c \in AskedIn(ts)
      PROVE  /\ KindIn(us, c) = KindIn(ts, c)
             /\ ReceiptIn(us, c) = IF c \in S THEN told[c] ELSE ReceiptIn(ts, c)
  <2>1. PICK n \in 1..Len(ts) : \E i \in 1..Len(ts[n].calls) : c = <<n, i>>
    BY CallsIn DEF Calls
  <2>2. PICK i \in 1..Len(ts[n].calls) : c = <<n, i>>
    BY <2>1
  <2>3. c[1] = n /\ c[2] = i
    BY <2>2
  <2>4. ReceiptIn(us, c) = us[n].receipts[i] /\ ReceiptIn(ts, c) = ts[n].receipts[i]
    BY <1>3, <1>4, <2>3, CallsIn
  <2>5. KindIn(us, c) = us[n].calls[i] /\ KindIn(ts, c) = ts[n].calls[i]
    BY <2>3 DEF KindIn
  <2> QED BY <2>2, <2>4, <2>5
<1>6. OpenIn(us) = OpenIn(ts) \ S
  BY <1>4, <1>5 DEF OpenIn
<1>7. RunningIn(us) = RunningIn(ts) \ S
  <2>1. ASSUME NEW c \in AskedIn(ts)
        PROVE  us[c[1]].running = c[2] <=> ts[c[1]].running = c[2] /\ c \notin S
    <3>1. PICK n \in 1..Len(ts) : \E i \in 1..Len(ts[n].calls) : c = <<n, i>>
      BY CallsIn DEF Calls
    <3>2. PICK i \in 1..Len(ts[n].calls) : c = <<n, i>>
      BY <3>1
    <3>3. c[1] = n /\ c[2] = i /\ i # 0
      BY <3>2
    <3>4. us[n].running = IF <<n, ts[n].running>> \in S THEN 0 ELSE ts[n].running
      OBVIOUS
    <3>5. CASE ts[n].running = i
      BY <3>2, <3>3, <3>4, <3>5
    <3>6. CASE ts[n].running # i
      BY <3>3, <3>4, <3>6
    <3> QED BY <3>5, <3>6
  <2> QED BY <2>1, <1>4 DEF RunningIn
<1> QED BY <1>3, <1>4, <1>5, <1>6, <1>7 DEF Tells

\* Settle gives one receipt.
LEMMA SettledTurn ==
  ASSUME NEW turn \in TurnRecords, NEW i \in 1..Len(turn.receipts), NEW receipt \in Receipts
  PROVE  /\ Settle(turn, i, receipt) \in TurnRecords
         /\ Settle(turn, i, receipt).calls = turn.calls
         /\ Len(Settle(turn, i, receipt).receipts) = Len(turn.receipts)
         /\ \A j \in 1..Len(turn.receipts) :
              Settle(turn, i, receipt).receipts[j] = IF j = i THEN receipt ELSE turn.receipts[j]
         /\ Settle(turn, i, receipt).running = IF turn.running = i THEN 0 ELSE turn.running
<1> DEFINE rs == [turn.receipts EXCEPT ![i] = receipt]
           new == [turn EXCEPT !.receipts = rs,
                               !.running = IF turn.running = i THEN 0 ELSE turn.running]
<1>1. Settle(turn, i, receipt) = new
  BY DEF Settle, TurnRecords
<1>2. turn.receipts \in Seq(Receipts) /\ turn.running \in Nat /\ turn.calls \in Seq(AllCallKinds)
  BY DEF TurnRecords
<1>3. rs \in Seq(Receipts) /\ Len(rs) = Len(turn.receipts)
      /\ \A j \in 1..Len(turn.receipts) : rs[j] = IF j = i THEN receipt ELSE turn.receipts[j]
  BY <1>2
<1> HIDE DEF rs
<1>4. new \in TurnRecords /\ new.calls = turn.calls /\ new.receipts = rs
      /\ new.running = IF turn.running = i THEN 0 ELSE turn.running
  BY <1>2, <1>3 DEF TurnRecords
<1> QED BY <1>1, <1>3, <1>4

\* SettleAll gives every open call a receipt.
LEMMA SettledTurnAll ==
  ASSUME NEW turn \in TurnRecords, NEW started \in Receipts, NEW unstarted \in Receipts
  PROVE  /\ SettleAll(turn, started, unstarted) \in TurnRecords
         /\ SettleAll(turn, started, unstarted).calls = turn.calls
         /\ Len(SettleAll(turn, started, unstarted).receipts) = Len(turn.receipts)
         /\ \A j \in 1..Len(turn.receipts) :
              SettleAll(turn, started, unstarted).receipts[j] =
                IF turn.receipts[j] # "none" THEN turn.receipts[j]
                ELSE IF j = turn.running THEN started ELSE unstarted
         /\ SettleAll(turn, started, unstarted).running = 0
<1> DEFINE rs == [j \in 1..Len(turn.receipts) |->
                    IF turn.receipts[j] # "none" THEN turn.receipts[j]
                    ELSE IF j = turn.running THEN started ELSE unstarted]
           new == [turn EXCEPT !.receipts = rs, !.running = 0]
<1>1. turn.receipts \in Seq(Receipts) /\ turn.running \in Nat /\ turn.calls \in Seq(AllCallKinds)
      /\ DOMAIN turn.receipts = 1..Len(turn.receipts) /\ Len(turn.receipts) \in Nat
      /\ \A j \in 1..Len(turn.receipts) : turn.receipts[j] \in Receipts
  BY DEF TurnRecords
<1>2. SettleAll(turn, started, unstarted) = new
  BY <1>1 DEF SettleAll, TurnRecords
<1>3. rs \in Seq(Receipts) /\ Len(rs) = Len(turn.receipts)
  BY <1>1
<1>4. \A j \in 1..Len(turn.receipts) : rs[j] =
        IF turn.receipts[j] # "none" THEN turn.receipts[j]
        ELSE IF j = turn.running THEN started ELSE unstarted
  OBVIOUS
<1> HIDE DEF rs
<1>5. new \in TurnRecords /\ new.calls = turn.calls /\ new.receipts = rs /\ new.running = 0
  BY <1>1, <1>3 DEF TurnRecords
<1> QED BY <1>2, <1>3, <1>4, <1>5

\* What calls are told: all the same, or the open ones by whether they run.
Told(S, receipt) == [c \in S |-> receipt]
ToldOpen(ts, started, unstarted) ==
  [c \in OpenIn(ts) |-> IF c \in RunningIn(ts) THEN started ELSE unstarted]
OpenOf(ts, N) == {c \in OpenIn(ts) : c[1] \in N}

\* One call is settled, or the turns N are.
SettlesCall(ts, us, n, i, receipt) == us = [ts EXCEPT ![n] = Settle(@, i, receipt)]
SettlesTurns(ts, us, N, started, unstarted) ==
  us = [m \in 1..Len(ts) |-> IF m \in N THEN SettleAll(ts[m], started, unstarted) ELSE ts[m]]

\* What a history tells after one of its calls got its receipt.
LEMMA SettleTells ==
  ASSUME NEW ts, NEW kinds, TurnsTyped(ts, kinds), NEW n \in 1..Len(ts),
         NEW i \in 1..Len(ts[n].calls), ts[n].receipts[i] = "none",
         NEW receipt \in Receipts \ {"none"}, NEW us,
         SettlesCall(ts, us, n, i, receipt)
  PROVE  /\ TurnsTyped(us, kinds) /\ Len(us) = Len(ts)
         /\ \A m \in 1..Len(ts) : us[m].calls = ts[m].calls
         /\ Tells(ts, us, {<<n, i>>}, Told({<<n, i>>}, receipt))
<1> DEFINE S == {<<n, i>>}
           told == Told(S, receipt)
<1>told. \A c \in S : told[c] = receipt
  BY DEF Told
<1>1. ts \in Seq(TurnRecords) /\ ts[n] \in TurnRecords /\ Len(ts[n].receipts) = Len(ts[n].calls)
  BY DEF TurnsTyped, TurnTyped
<1>2. us \in Seq(TurnRecords) /\ Len(us) = Len(ts)
      /\ \A m \in 1..Len(ts) : us[m] = IF m = n THEN Settle(ts[n], i, receipt) ELSE ts[m]
  BY <1>1, SettledTurn DEF SettlesCall
<1>3. <<n, i>> \in OpenIn(ts)
  <2>1. <<n, i>> \in AskedIn(ts)
    BY CallsIn
  <2>2. ReceiptIn(ts, <<n, i>>) = "none"
    BY <2>1, CallsIn
  <2> QED BY <2>1, <2>2 DEF OpenIn
<1>4. ASSUME NEW m \in 1..Len(ts)
      PROVE  /\ us[m].calls = ts[m].calls /\ Len(us[m].receipts) = Len(ts[m].receipts)
             /\ us[m].running = IF <<m, ts[m].running>> \in S THEN 0 ELSE ts[m].running
  BY <1>1, <1>2, SettledTurn
<1>5. ASSUME NEW m \in 1..Len(ts), NEW j \in 1..Len(ts[m].calls)
      PROVE  us[m].receipts[j] = IF <<m, j>> \in S THEN told[<<m, j>>] ELSE ts[m].receipts[j]
  <2>1. us[m].receipts[j] = IF m = n /\ j = i THEN receipt ELSE ts[m].receipts[j]
    <3>1. CASE m = n
      <4>1. us[m] = Settle(ts[n], i, receipt) /\ i \in 1..Len(ts[n].receipts)
            /\ j \in 1..Len(ts[n].receipts)
        BY <1>1, <1>2, <3>1
      <4> QED BY <1>1, <3>1, <4>1, SettledTurn
    <3>2. CASE m # n
      BY <1>2, <3>2
    <3> QED BY <3>1, <3>2
  <2>2. <<m, j>> \in S <=> m = n /\ j = i
    OBVIOUS
  <2> HIDE DEF S, told
  <2> QED BY <1>told, <2>1, <2>2
<1>6. S \subseteq OpenIn(ts) /\ \A c \in S : told[c] \in Receipts \ {"none"}
  BY <1>3, <1>told
<1> HIDE DEF S, told
<1>7. TurnsTyped(us, kinds) /\ Tells(ts, us, S, told)
  <2>1. \A m \in 1..Len(ts) :
          /\ us[m].calls = ts[m].calls /\ Len(us[m].receipts) = Len(ts[m].receipts)
          /\ us[m].running = IF <<m, ts[m].running>> \in S THEN 0 ELSE ts[m].running
    BY <1>4
  <2>2. \A m \in 1..Len(ts) : \A j \in 1..Len(ts[m].calls) :
          us[m].receipts[j] = IF <<m, j>> \in S THEN told[<<m, j>>] ELSE ts[m].receipts[j]
    BY <1>5
  <2>3. TurnsTell(ts, us, S, told)
    BY <1>2, <1>6, <2>1, <2>2 DEF TurnsTell
  <2> QED BY <2>3, TurnsTellCalls
<1> QED BY <1>2, <1>4, <1>7 DEF S, told

\* What a history tells after all open calls of the turns N were settled, but those of
\* kept.
LEMMA SettleAllTells ==
  ASSUME NEW ts, NEW kinds, TurnsTyped(ts, kinds), NEW N \in SUBSET (1..Len(ts)),
         NEW started \in Receipts \ {"none"}, NEW unstarted \in Receipts \ {"none"}, NEW us,
         SettlesTurns(ts, us, N, started, unstarted)
  PROVE  /\ TurnsTyped(us, kinds) /\ Len(us) = Len(ts)
         /\ \A m \in 1..Len(ts) : us[m].calls = ts[m].calls
         /\ Tells(ts, us, OpenOf(ts, N), ToldOpen(ts, started, unstarted))
<1> DEFINE S == OpenOf(ts, N)
           told == ToldOpen(ts, started, unstarted)
<1>set. S = {c \in OpenIn(ts) : c[1] \in N}
  BY DEF OpenOf
<1>told. \A c \in OpenIn(ts) : told[c] = IF c \in RunningIn(ts) THEN started ELSE unstarted
  BY DEF ToldOpen
<1> HIDE DEF S, told
<1>1. ts \in Seq(TurnRecords) /\ Len(ts) \in Nat
      /\ \A m \in 1..Len(ts) : ts[m] \in TurnRecords /\ Len(ts[m].receipts) = Len(ts[m].calls)
  BY DEF TurnsTyped, TurnTyped
<1>2. us \in Seq(TurnRecords) /\ Len(us) = Len(ts)
      /\ \A m \in 1..Len(ts) :
           us[m] = IF m \in N THEN SettleAll(ts[m], started, unstarted) ELSE ts[m]
  BY <1>1, SettledTurnAll DEF SettlesTurns
<1>3. ASSUME NEW m \in 1..Len(ts), NEW j \in 1..Len(ts[m].calls)
      PROVE  /\ <<m, j>> \in S <=> m \in N /\ ts[m].receipts[j] = "none"
             /\ <<m, j>> \in RunningIn(ts) <=> ts[m].running = j
  <2>1. <<m, j>> \in AskedIn(ts)
    BY CallsIn
  <2>2. ReceiptIn(ts, <<m, j>>) = ts[m].receipts[j]
    BY <2>1, CallsIn
  <2> QED BY <1>set, <2>1, <2>2 DEF OpenIn, RunningIn
<1>4. ASSUME NEW m \in 1..Len(ts)
      PROVE  /\ us[m].calls = ts[m].calls /\ Len(us[m].receipts) = Len(ts[m].receipts)
             /\ us[m].running = IF <<m, ts[m].running>> \in S THEN 0 ELSE ts[m].running
  <2>1. us[m].calls = ts[m].calls /\ Len(us[m].receipts) = Len(ts[m].receipts)
    <3>1. ts[m] \in TurnRecords
      BY <1>1
    <3>2. CASE m \in N
      <4>1. us[m] = SettleAll(ts[m], started, unstarted)
        BY <1>2, <3>2
      <4> QED BY <3>1, <4>1, SettledTurnAll
    <3>3. CASE m \notin N
      BY <1>2, <3>3
    <3> QED BY <3>2, <3>3
  <2>2. CASE m \in N
    <3>1. us[m].running = 0
      BY <1>1, <1>2, <2>2, SettledTurnAll
    <3>2. ASSUME ts[m].running # 0 PROVE <<m, ts[m].running>> \in S
      <4>1. <<m, ts[m].running>> \in OpenIn(ts)
        BY <3>2, RunningIsOpen
      <4> QED BY <1>set, <4>1, <2>2
    <3> QED BY <2>1, <3>1, <3>2
  <2>3. CASE m \notin N
    <3>1. us[m] = ts[m]
      BY <1>2, <2>3
    <3>2. <<m, ts[m].running>> \notin S
      BY <1>set, <2>3
    <3> QED BY <2>1, <3>1, <3>2
  <2> QED BY <2>2, <2>3
<1>5. ASSUME NEW m \in 1..Len(ts), NEW j \in 1..Len(ts[m].calls)
      PROVE  us[m].receipts[j] = IF <<m, j>> \in S THEN told[<<m, j>>] ELSE ts[m].receipts[j]
  <2>1. CASE m \in N
    <3>1. us[m].receipts[j] = IF ts[m].receipts[j] # "none" THEN ts[m].receipts[j]
                              ELSE IF j = ts[m].running THEN started ELSE unstarted
      <4>1. /\ ts[m] \in TurnRecords /\ us[m] = SettleAll(ts[m], started, unstarted)
            /\ j \in 1..Len(ts[m].receipts)
        BY <1>1, <1>2, <2>1
      <4> QED BY <4>1, SettledTurnAll
    <3>2. <<m, j>> \in S => told[<<m, j>>] = IF ts[m].running = j THEN started ELSE unstarted
      BY <1>3, <1>set, <1>told
    <3> QED BY <1>3, <2>1, <3>1, <3>2
  <2>2. CASE m \notin N
    BY <1>2, <1>3, <2>2
  <2> QED BY <2>1, <2>2
<1>6. S \subseteq OpenIn(ts) /\ \A c \in S : told[c] \in Receipts \ {"none"}
  BY <1>set, <1>told
<1>7. TurnsTyped(us, kinds) /\ Tells(ts, us, S, told)
  <2>1. \A m \in 1..Len(ts) :
          /\ us[m].calls = ts[m].calls /\ Len(us[m].receipts) = Len(ts[m].receipts)
          /\ us[m].running = IF <<m, ts[m].running>> \in S THEN 0 ELSE ts[m].running
    BY <1>4
  <2>2. \A m \in 1..Len(ts) : \A j \in 1..Len(ts[m].calls) :
          us[m].receipts[j] = IF <<m, j>> \in S THEN told[<<m, j>>] ELSE ts[m].receipts[j]
    BY <1>5
  <2>3. TurnsTell(ts, us, S, told)
    BY <1>2, <1>6, <2>1, <2>2 DEF TurnsTell
  <2> QED BY <2>3, TurnsTellCalls
<1> QED BY <1>2, <1>4, <1>7 DEF S, told

\* A history that keeps its turns says the same of their calls, when the later ones are
\* open and none of them runs.
LEMMA LaterTurnsAsk ==
  ASSUME NEW ts, NEW us, NEW kinds, TurnsTyped(ts, kinds), TurnsTyped(us, kinds),
         Len(us) >= Len(ts), \A m \in 1..Len(ts) : us[m] = ts[m],
         \A c \in AskedIn(us) : c[1] > Len(ts) => c \in OpenIn(us) \ RunningIn(us)
  PROVE  Asks(ts, us, {c \in AskedIn(us) : c[1] > Len(ts)})
<1> DEFINE new == {c \in AskedIn(us) : c[1] > Len(ts)}
<1>1. Len(ts) \in Nat /\ Len(us) \in Nat
  BY CallsIn
<1>2. \A c : c \in AskedIn(ts) <=> c \in AskedIn(us) /\ c[1] <= Len(ts)
  <2> SUFFICES ASSUME NEW c \in Calls
               PROVE  c \in AskedIn(ts) <=> c \in AskedIn(us) /\ c[1] <= Len(ts)
    BY CallsIn
  <2>1. c[1] \in Nat \ {0}
    BY LimitsAssumption DEF Calls
  <2>2. c \in AskedIn(us) <=> c[1] \in 1..Len(us) /\ c[2] \in 1..Len(us[c[1]].calls)
    BY CallsIn
  <2>3. c \in AskedIn(ts) <=> c[1] \in 1..Len(ts) /\ c[2] \in 1..Len(ts[c[1]].calls)
    BY CallsIn
  <2>4. c[1] <= Len(ts) => c[1] \in 1..Len(ts) /\ c[1] \in 1..Len(us)
    BY <1>1, <2>1
  <2>5. c[1] \in 1..Len(ts) => c[1] <= Len(ts) /\ us[c[1]] = ts[c[1]]
    BY <1>1
  <2> QED BY <2>2, <2>3, <2>4, <2>5
<1>3. ASSUME NEW c \in AskedIn(ts)
      PROVE  /\ KindIn(us, c) = KindIn(ts, c) /\ ReceiptIn(us, c) = ReceiptIn(ts, c)
             /\ c \in RunningIn(us) <=> c \in RunningIn(ts)
  <2>1. c \in AskedIn(us) /\ c[1] \in 1..Len(ts) /\ us[c[1]] = ts[c[1]]
    BY <1>2, CallsIn
  <2> QED BY <2>1, CallsIn DEF KindIn, RunningIn
<1>4. AskedIn(ts) \intersect new = {} /\ AskedIn(us) = AskedIn(ts) \union new
  <2>1. \A c \in AskedIn(us) : c[1] \in Nat
    BY CallsIn, LimitsAssumption DEF Calls
  <2>2. \A c \in AskedIn(us) : c[1] <= Len(ts) <=> ~(c[1] > Len(ts))
    BY <1>1, <2>1
  <2> QED BY <1>2, <2>2
<1>5. OpenIn(us) = OpenIn(ts) \union new
  BY <1>3, <1>4 DEF OpenIn
<1>6. RunningIn(us) = RunningIn(ts)
  <2>1. RunningIn(us) \subseteq AskedIn(us) /\ RunningIn(ts) \subseteq AskedIn(ts)
    BY DEF RunningIn
  <2> QED BY <1>3, <1>4, <2>1
<1> QED BY <1>3, <1>4, <1>5, <1>6 DEF Asks

\* A Notice has no calls, and a new Turn leaves all of them open.
LEMMA NewTurnTyped ==
  ASSUME NEW kinds \in Seq(AllCallKinds)
  PROVE  /\ Turn(kinds) \in TurnRecords /\ Turn(kinds).calls = kinds
         /\ Turn(kinds).running = 0 /\ Len(Turn(kinds).receipts) = Len(kinds)
         /\ \A i \in 1..Len(kinds) : Turn(kinds).receipts[i] = "none"
<1>1. [i \in 1..Len(kinds) |-> "none"] \in Seq(Receipts)
      /\ Len([i \in 1..Len(kinds) |-> "none"]) = Len(kinds)
  BY DEF Receipts
<1> QED BY <1>1 DEF Turn, TurnRecords

\* Notices add nothing to the calls of a history.
LEMMA NoticesQuiet ==
  ASSUME NEW ts, NEW kinds, TurnsTyped(ts, kinds), NEW us, us \in Seq(TurnRecords),
         Len(us) >= Len(ts), \A m \in 1..Len(ts) : us[m] = ts[m],
         \A m \in 1..Len(us) : m > Len(ts) => us[m] = Notice
  PROVE  TurnsTyped(us, kinds) /\ Asks(ts, us, {})
<1>1. Len(ts) \in Nat /\ Len(us) \in Nat /\ DOMAIN us = 1..Len(us)
  BY CallsIn
<1>2. Len(Notice.calls) = 0 /\ Len(Notice.receipts) = 0 /\ Notice.running = 0
  <2>1. <<>> \in Seq(AllCallKinds) /\ Len(<<>>) = 0
    OBVIOUS
  <2> QED BY <2>1, NewTurnTyped DEF Notice
<1>3. ASSUME NEW m \in 1..Len(us) PROVE TurnTyped(us[m], m, kinds)
  <2>1. CASE m <= Len(ts)
    <3>1. m \in 1..Len(ts) /\ us[m] = ts[m]
      BY <1>1, <2>1
    <3> QED BY <3>1 DEF TurnsTyped
  <2>2. CASE m > Len(ts)
    <3>1. us[m] = Notice
      BY <2>2
    <3> QED BY <3>1, <1>2, LimitsAssumption DEF TurnTyped
  <2> QED BY <1>1, <2>1, <2>2
<1>4. TurnsTyped(us, kinds)
  BY <1>3 DEF TurnsTyped
<1>5. \A c \in AskedIn(us) : ~(c[1] > Len(ts))
  <2> SUFFICES ASSUME NEW c \in AskedIn(us), c[1] > Len(ts) PROVE FALSE
    OBVIOUS
  <2>1. c[1] \in 1..Len(us) /\ c[2] \in 1..Len(us[c[1]].calls)
    BY <1>4, CallsIn
  <2>2. us[c[1]] = Notice
    BY <2>1
  <2> QED BY <1>2, <2>1, <2>2
<1>6. {c \in AskedIn(us) : c[1] > Len(ts)} = {}
  BY <1>5
<1>7. Asks(ts, us, {c \in AskedIn(us) : c[1] > Len(ts)})
  BY <1>4, <1>5, LaterTurnsAsk
<1> QED BY <1>4, <1>6, <1>7

\* One notice more.
LEMMA NoticeQuiet ==
  ASSUME NEW ts, NEW kinds, TurnsTyped(ts, kinds)
  PROVE  /\ TurnsTyped(Append(ts, Notice), kinds) /\ Asks(ts, Append(ts, Notice), {})
         /\ Len(Append(ts, Notice)) = Len(ts) + 1
<1>1. Notice \in TurnRecords
  <2>1. <<>> \in Seq(AllCallKinds)
    OBVIOUS
  <2> QED BY <2>1, NewTurnTyped DEF Notice
<1>2. ts \in Seq(TurnRecords) /\ Len(ts) \in Nat
  BY DEF TurnsTyped
<1> DEFINE us == Append(ts, Notice)
<1>3. /\ us \in Seq(TurnRecords) /\ Len(us) = Len(ts) + 1
      /\ \A m \in 1..Len(ts) : us[m] = ts[m]
      /\ \A m \in 1..Len(us) : m > Len(ts) => us[m] = Notice
  BY <1>1, <1>2
<1> HIDE DEF us
<1>4. TurnsTyped(us, kinds) /\ Asks(ts, us, {})
  BY <1>2, <1>3, NoticesQuiet
<1> QED BY <1>3, <1>4 DEF us

\* What was told stays told when a notice follows.
LEMMA TellsQuiet ==
  ASSUME NEW ts, NEW ms, NEW us, NEW S, NEW told, Tells(ts, ms, S, told), Asks(ms, us, {})
  PROVE  Tells(ts, us, S, told)
BY DEF Tells, Asks

\* The calls of the turns that were added.
AskedAfter(ts, us) == {c \in AskedIn(us) : c[1] > Len(ts)}

\* A turn is added.
GrowsBy(ts, us, batch) == us = Append(ts, Turn(batch))

\* A new turn asks for its calls.
LEMMA TurnAsks ==
  ASSUME NEW ts, NEW kinds \in SUBSET AllCallKinds, TurnsTyped(ts, kinds), Len(ts) < MaxTurns,
         NEW batch \in Seq(kinds), Len(batch) <= MaxBatch, NEW us,
         GrowsBy(ts, us, batch)
  PROVE  /\ TurnsTyped(us, kinds) /\ Len(us) = Len(ts) + 1 /\ us[Len(us)].calls = batch
         /\ \A m \in 1..Len(ts) : us[m].calls = ts[m].calls
         /\ Asks(ts, us, AskedAfter(ts, us))
         /\ \A i \in 1..Len(batch) : <<Len(us), i>> \in AskedIn(us)
<1>1. batch \in Seq(AllCallKinds) /\ Turn(batch) \in TurnRecords /\ Turn(batch).calls = batch
      /\ Turn(batch).running = 0 /\ Len(Turn(batch).receipts) = Len(batch)
      /\ \A i \in 1..Len(batch) : Turn(batch).receipts[i] = "none" /\ batch[i] \in kinds
  BY NewTurnTyped
<1>2. ts \in Seq(TurnRecords) /\ Len(ts) \in Nat /\ \A m \in 1..Len(ts) : TurnTyped(ts[m], m, kinds)
  BY DEF TurnsTyped
<1>3. /\ us \in Seq(TurnRecords) /\ Len(us) = Len(ts) + 1 /\ DOMAIN us = 1..Len(us)
      /\ \A m \in 1..Len(ts) : us[m] = ts[m]
      /\ us[Len(us)] = Turn(batch)
  BY <1>1, <1>2 DEF GrowsBy
<1>4. ASSUME NEW m \in 1..Len(us) PROVE TurnTyped(us[m], m, kinds)
  <2>1. CASE m \in 1..Len(ts)
    BY <1>2, <1>3, <2>1
  <2>2. CASE m = Len(us)
    <3>1. us[m] = Turn(batch) /\ m <= MaxTurns
      BY <1>2, <1>3, <2>2, LimitsAssumption
    <3> QED BY <1>1, <3>1 DEF TurnTyped
  <2> QED BY <1>2, <1>3, <2>1, <2>2
<1>5. TurnsTyped(us, kinds)
  BY <1>3, <1>4 DEF TurnsTyped
<1>6. ASSUME NEW c \in AskedIn(us), c[1] > Len(ts)
      PROVE  c \in OpenIn(us) \ RunningIn(us)
  <2>1. c[1] \in 1..Len(us) /\ c[2] \in 1..Len(us[c[1]].calls)
        /\ ReceiptIn(us, c) = us[c[1]].receipts[c[2]]
    BY <1>5, CallsIn
  <2>2. c[1] = Len(us)
    BY <1>2, <1>3, <1>6, <2>1
  <2>3. us[c[1]].calls = batch /\ us[c[1]].running = 0 /\ us[c[1]].receipts = Turn(batch).receipts
    BY <1>1, <1>3, <2>2
  <2>4. c[2] \in 1..Len(batch) /\ c[2] # 0
    BY <2>1, <2>3
  <2>5. ReceiptIn(us, c) = "none"
    BY <1>1, <2>1, <2>3, <2>4
  <2> QED BY <2>3, <2>4, <2>5 DEF OpenIn, RunningIn
<1>7. Asks(ts, us, AskedAfter(ts, us))
  <2>1. Len(us) >= Len(ts)
    BY <1>2, <1>3
  <2> QED BY <1>3, <1>5, <1>6, <2>1, LaterTurnsAsk DEF AskedAfter
<1>8. Len(us) \in 1..Len(us) /\ us[Len(us)].calls = batch
  BY <1>1, <1>2, <1>3
<1>9. \A i \in 1..Len(batch) : <<Len(us), i>> \in AskedIn(us)
  BY <1>5, <1>8, CallsIn
<1> QED BY <1>3, <1>5, <1>7, <1>8, <1>9

\* A call is marked as the one that runs.
RunsAt(ts, us, n, i) == us = [ts EXCEPT ![n].running = i]

\* An open call is marked as running.
LEMMA MarkRunning ==
  ASSUME NEW ts, NEW kinds, TurnsTyped(ts, kinds), NEW n \in 1..Len(ts),
         NEW i \in 1..Len(ts[n].calls), ts[n].receipts[i] = "none", NEW us,
         RunsAt(ts, us, n, i)
  PROVE  /\ TurnsTyped(us, kinds) /\ Len(us) = Len(ts)
         /\ \A m \in 1..Len(ts) : us[m].calls = ts[m].calls
         /\ Marks(ts, us, <<n, i>>)
<1>1. /\ ts \in Seq(TurnRecords) /\ ts[n] \in TurnRecords /\ Len(ts[n].calls) \in Nat
      /\ \A m \in 1..Len(ts) : TurnTyped(ts[m], m, kinds)
  <2>1. ts \in Seq(TurnRecords) /\ \A m \in 1..Len(ts) : TurnTyped(ts[m], m, kinds)
    BY DEF TurnsTyped
  <2>2. ts[n] \in TurnRecords
    BY <2>1
  <2> QED BY <2>1, <2>2 DEF TurnRecords
<1>2. [ts[n] EXCEPT !.running = i] \in TurnRecords
  <2>1. i \in Nat
    OBVIOUS
  <2> DEFINE t == ts[n]
  <2>2. t \in TurnRecords
    BY <1>1
  <2> HIDE DEF t
  <2>3. [t EXCEPT !.running = i] \in TurnRecords
    BY <2>1, <2>2 DEF TurnRecords
  <2> QED BY <2>3 DEF t
<1>3. /\ us \in Seq(TurnRecords) /\ Len(us) = Len(ts)
      /\ \A m \in 1..Len(ts) : us[m] = IF m = n THEN [ts[n] EXCEPT !.running = i] ELSE ts[m]
  BY <1>1, <1>2 DEF RunsAt
<1>4. ASSUME NEW m \in 1..Len(ts)
      PROVE  /\ us[m].calls = ts[m].calls /\ us[m].receipts = ts[m].receipts
             /\ us[m].running = IF m = n THEN i ELSE ts[m].running
             /\ TurnTyped(us[m], m, kinds)
  <2>1. ts[m] \in TurnRecords
    BY <1>1
  <2>2. us[m].calls = ts[m].calls /\ us[m].receipts = ts[m].receipts
        /\ us[m].running = IF m = n THEN i ELSE ts[m].running
    BY <1>1, <1>3, <2>1 DEF TurnRecords
  <2> QED BY <1>1, <2>2 DEF TurnTyped
<1>5. TurnsTyped(us, kinds)
  BY <1>3, <1>4 DEF TurnsTyped
<1>6. AskedIn(us) = AskedIn(ts)
  <2>1. \A c : c \in AskedIn(us) <=>
               c \in Calls /\ c[1] \in 1..Len(us) /\ c[2] \in 1..Len(us[c[1]].calls)
    BY <1>5, CallsIn
  <2>2. \A c : c \in AskedIn(ts) <=>
               c \in Calls /\ c[1] \in 1..Len(ts) /\ c[2] \in 1..Len(ts[c[1]].calls)
    BY CallsIn
  <2>3. \A m \in 1..Len(ts) : us[m].calls = ts[m].calls
    BY <1>4
  <2>4. Len(us) = Len(ts)
    BY <1>3
  <2>5. \A c : c \in AskedIn(us) <=> c \in AskedIn(ts)
    BY <2>1, <2>2, <2>3, <2>4
  <2> QED BY <2>5
<1>7. ASSUME NEW d \in AskedIn(ts)
      PROVE  KindIn(us, d) = KindIn(ts, d) /\ ReceiptIn(us, d) = ReceiptIn(ts, d)
             /\ (d \in RunningIn(us) <=> IF d[1] = n THEN d = <<n, i>> ELSE d \in RunningIn(ts))
  <2>1. PICK m \in 1..Len(ts) : \E j \in 1..Len(ts[m].calls) : d = <<m, j>>
    BY CallsIn DEF Calls
  <2>2. PICK j \in 1..Len(ts[m].calls) : d = <<m, j>>
    BY <2>1
  <2>3. d[1] = m /\ d[2] = j
    BY <2>2
  <2>4. KindIn(us, d) = KindIn(ts, d)
    BY <1>4, <2>3 DEF KindIn
  <2>5. ReceiptIn(us, d) = ReceiptIn(ts, d)
    <3>1. ReceiptIn(us, d) = us[m].receipts[j]
      BY <1>5, <1>6, <2>3, CallsIn
    <3>2. ReceiptIn(ts, d) = ts[m].receipts[j]
      BY <2>3, CallsIn
    <3> QED BY <1>4, <3>1, <3>2
  <2>6. d \in RunningIn(us) <=> us[m].running = j
    BY <1>6, <2>3 DEF RunningIn
  <2>7. d \in RunningIn(ts) <=> ts[m].running = j
    BY <2>3 DEF RunningIn
  <2> QED BY <1>4, <2>2, <2>3, <2>4, <2>5, <2>6, <2>7
<1>8. OpenIn(us) = OpenIn(ts)
  BY <1>6, <1>7 DEF OpenIn
<1>9. RunningIn(us) = {d \in RunningIn(ts) : d[1] # n} \union {<<n, i>>}
  <2>1. RunningIn(us) \subseteq AskedIn(ts) /\ RunningIn(ts) \subseteq AskedIn(ts)
        /\ <<n, i>> \in AskedIn(ts)
    BY <1>6, CallsIn DEF RunningIn
  <2>2. <<n, i>>[1] = n
    OBVIOUS
  <2> QED BY <1>7, <2>1, <2>2
<1> QED BY <1>3, <1>4, <1>5, <1>6, <1>7, <1>8, <1>9 DEF Marks

\* All open calls of a turn are settled but one.
PausesAt(ts, us, n, i, receipt) ==
  us = [ts EXCEPT ![n] = [SettleAll(@, receipt, receipt) EXCEPT !.receipts[i] = "none"]]

\* What a history tells when nothing of the turn runs.
LEMMA PauseTells ==
  ASSUME NEW ts, NEW kinds, TurnsTyped(ts, kinds), NEW n \in 1..Len(ts),
         NEW i \in 1..Len(ts[n].calls), ts[n].receipts[i] = "none", ts[n].running = 0,
         NEW receipt \in Receipts \ {"none"}, NEW us,
         PausesAt(ts, us, n, i, receipt)
  PROVE  /\ TurnsTyped(us, kinds) /\ Len(us) = Len(ts)
         /\ \A m \in 1..Len(ts) : us[m].calls = ts[m].calls
         /\ Tells(ts, us, OpenOf(ts, {n}) \ {<<n, i>>}, Told(OpenIn(ts), receipt))
<1> DEFINE S == OpenOf(ts, {n}) \ {<<n, i>>}
           told == Told(OpenIn(ts), receipt)
           all == SettleAll(ts[n], receipt, receipt)
           new == [all EXCEPT !.receipts[i] = "none"]
<1>1. /\ ts \in Seq(TurnRecords) /\ ts[n] \in TurnRecords /\ Len(ts[n].calls) \in Nat
      /\ Len(ts[n].receipts) = Len(ts[n].calls)
  <2>1. ts \in Seq(TurnRecords) /\ TurnTyped(ts[n], n, kinds)
    BY DEF TurnsTyped
  <2>2. ts[n] \in TurnRecords
    BY <2>1
  <2> QED BY <2>1, <2>2 DEF TurnRecords, TurnTyped
<1>2. /\ all \in TurnRecords /\ all.calls = ts[n].calls
      /\ Len(all.receipts) = Len(ts[n].receipts) /\ all.running = 0
      /\ \A j \in 1..Len(ts[n].receipts) :
           all.receipts[j] = IF ts[n].receipts[j] # "none" THEN ts[n].receipts[j] ELSE receipt
  BY <1>1, SettledTurnAll
<1> HIDE DEF all
<1>3. /\ new \in TurnRecords /\ new.calls = ts[n].calls
      /\ Len(new.receipts) = Len(ts[n].receipts) /\ new.running = 0
      /\ \A j \in 1..Len(ts[n].receipts) :
           new.receipts[j] = IF ts[n].receipts[j] # "none" THEN ts[n].receipts[j]
                             ELSE IF j = i THEN "none" ELSE receipt
  <2> DEFINE rs == [all.receipts EXCEPT ![i] = "none"]
  <2>1. all.receipts \in Seq(Receipts) /\ "none" \in Receipts
    BY <1>2 DEF TurnRecords, Receipts
  <2>2. rs \in Seq(Receipts) /\ Len(rs) = Len(all.receipts)
        /\ \A j \in 1..Len(all.receipts) : rs[j] = IF j = i THEN "none" ELSE all.receipts[j]
    <3> DEFINE old == all.receipts
    <3>1. old \in Seq(Receipts) /\ "none" \in Receipts /\ rs = [old EXCEPT ![i] = "none"]
      BY <2>1
    <3>2. rs = [old EXCEPT ![i] = "none"]
      OBVIOUS
    <3> HIDE DEF old, rs
    <3>3. DOMAIN old = 1..Len(old) /\ Len(old) \in Nat /\ DOMAIN rs = 1..Len(old)
      BY <3>1
    <3>4. \A j \in 1..Len(old) : rs[j] = (IF j = i THEN "none" ELSE old[j]) /\ rs[j] \in Receipts
      BY <3>1, <3>3
    <3>5. rs = [j \in 1..Len(old) |-> rs[j]]
      BY <3>2, <3>3
    <3>6. rs \in Seq(Receipts) /\ Len(rs) = Len(old)
      BY <3>3, <3>4, <3>5
    <3> QED BY <3>4, <3>6 DEF old
  <2>3. new = [all EXCEPT !.receipts = rs]
    BY <1>2 DEF TurnRecords
  <2> HIDE DEF rs
  <2>4. new \in TurnRecords /\ new.calls = all.calls /\ new.receipts = rs /\ new.running = all.running
    BY <1>2, <2>2, <2>3 DEF TurnRecords
  <2> HIDE DEF new
  <2> QED BY <1>1, <1>2, <2>2, <2>4
<1>4. us = [ts EXCEPT ![n] = new]
  BY DEF all, PausesAt
<1> HIDE DEF new
<1>5. us \in Seq(TurnRecords) /\ Len(us) = Len(ts)
      /\ \A m \in 1..Len(ts) : us[m] = IF m = n THEN new ELSE ts[m]
  <2>1. new \in TurnRecords
    BY <1>3
  <2> QED BY <1>1, <1>4, <2>1
<1>6. ASSUME NEW m \in 1..Len(ts), NEW j \in 1..Len(ts[m].calls)
      PROVE  <<m, j>> \in OpenIn(ts) <=> ts[m].receipts[j] = "none"
  <2>1. <<m, j>> \in AskedIn(ts)
    BY CallsIn
  <2>2. ReceiptIn(ts, <<m, j>>) = ts[m].receipts[j]
    BY <2>1, CallsIn
  <2> QED BY <2>1, <2>2 DEF OpenIn
<1>7. ASSUME NEW m \in 1..Len(ts)
      PROVE  /\ us[m].calls = ts[m].calls /\ Len(us[m].receipts) = Len(ts[m].receipts)
             /\ us[m].running = IF <<m, ts[m].running>> \in S THEN 0 ELSE ts[m].running
  <2>1. CASE m = n
    BY <1>3, <1>5, <2>1
  <2>2. CASE m # n
    BY <1>5, <2>2 DEF OpenOf
  <2> QED BY <2>1, <2>2
<1>8. ASSUME NEW m \in 1..Len(ts), NEW j \in 1..Len(ts[m].calls)
      PROVE  us[m].receipts[j] = IF <<m, j>> \in S THEN told[<<m, j>>] ELSE ts[m].receipts[j]
  <2>1. <<m, j>> \in S <=> ts[m].receipts[j] = "none" /\ m = n /\ j # i
    BY <1>6 DEF OpenOf
  <2>2. <<m, j>> \in S => told[<<m, j>>] = receipt
    BY DEF OpenOf, Told
  <2> HIDE DEF S, told
  <2>3. CASE m = n
    <3>1. us[m].receipts[j] = IF ts[n].receipts[j] # "none" THEN ts[n].receipts[j]
                              ELSE IF j = i THEN "none" ELSE receipt
      BY <1>1, <1>3, <1>5, <2>3
    <3> QED BY <2>1, <2>2, <2>3, <3>1
  <2>4. CASE m # n
    BY <1>5, <2>1, <2>4
  <2> QED BY <2>3, <2>4
<1>9. S \subseteq OpenIn(ts) /\ \A c \in S : told[c] \in Receipts \ {"none"}
  BY DEF OpenOf, Told
<1> HIDE DEF S, told
<1>10. TurnsTell(ts, us, S, told)
  BY <1>5, <1>7, <1>8, <1>9 DEF TurnsTell
<1>11. TurnsTyped(us, kinds) /\ Tells(ts, us, S, told)
  BY <1>10, TurnsTellCalls
<1> QED BY <1>5, <1>7, <1>11 DEF S, told

\* A history that stays tells nobody anything.
LEMMA NothingTold ==
  ASSUME NEW ts, NEW told
  PROVE  Tells(ts, ts, {}, told) /\ Asks(ts, ts, {})
BY DEF Tells, Asks

\* Calls that are told something stay what they are otherwise.
LEMMA LastTurnCalls ==
  ASSUME NEW ts, NEW kinds, TurnsTyped(ts, kinds), NEW c \in AskedIn(ts), c[1] = Len(ts)
  PROVE  /\ Len(ts) \in 1..Len(ts) /\ c[2] \in 1..Len(ts[Len(ts)].calls) /\ c = <<Len(ts), c[2]>>
         /\ c \in OpenIn(ts) => ts[Len(ts)].receipts[c[2]] = "none"
<1>1. c[1] \in 1..Len(ts) /\ c[2] \in 1..Len(ts[c[1]].calls)
      /\ ReceiptIn(ts, c) = ts[c[1]].receipts[c[2]]
  BY CallsIn
<1>2. c = <<c[1], c[2]>>
  BY DEF AskedIn, Calls
<1> QED BY <1>1, <1>2 DEF OpenIn

\* One call of the last turn gets its receipt.
LEMMA CallSettled ==
  ASSUME NEW ts, NEW kinds, TurnsTyped(ts, kinds), NEW c \in OpenIn(ts), c[1] = Len(ts),
         NEW receipt \in Receipts \ {"none"}, NEW us,
         SettlesCall(ts, us, Len(ts), c[2], receipt)
  PROVE  /\ TurnsTyped(us, kinds) /\ Len(us) = Len(ts)
         /\ \A m \in 1..Len(ts) : us[m].calls = ts[m].calls
         /\ Tells(ts, us, {c}, Told({c}, receipt))
<1>1. c \in AskedIn(ts)
  BY DEF OpenIn
<1>2. Len(ts) \in 1..Len(ts) /\ c[2] \in 1..Len(ts[Len(ts)].calls)
      /\ ts[Len(ts)].receipts[c[2]] = "none" /\ c = <<Len(ts), c[2]>>
  BY <1>1, LastTurnCalls
<1>3. /\ TurnsTyped(us, kinds) /\ Len(us) = Len(ts)
      /\ \A m \in 1..Len(ts) : us[m].calls = ts[m].calls
      /\ Tells(ts, us, {<<Len(ts), c[2]>>}, Told({<<Len(ts), c[2]>>}, receipt))
  BY <1>2, SettleTells
<1> QED BY <1>2, <1>3

\* The open calls of one turn get their receipts.
LEMMA TurnSettled ==
  ASSUME NEW ts, NEW kinds, TurnsTyped(ts, kinds), NEW n \in 1..Len(ts),
         NEW started \in Receipts \ {"none"}, NEW unstarted \in Receipts \ {"none"}, NEW us,
         us = [ts EXCEPT ![n] = SettleAll(@, started, unstarted)]
  PROVE  /\ TurnsTyped(us, kinds) /\ Len(us) = Len(ts)
         /\ \A m \in 1..Len(ts) : us[m].calls = ts[m].calls
         /\ Tells(ts, us, OpenOf(ts, {n}), ToldOpen(ts, started, unstarted))
<1>1. ts \in Seq(TurnRecords) /\ Len(ts) \in Nat /\ DOMAIN ts = 1..Len(ts)
  BY DEF TurnsTyped
<1>2. SettlesTurns(ts, us, {n}, started, unstarted)
  BY <1>1 DEF SettlesTurns
<1>3. {n} \in SUBSET (1..Len(ts))
  OBVIOUS
<1> QED BY <1>2, <1>3, SettleAllTells

\* The open calls of the last turn get their receipts.
LEMMA LastSettled ==
  ASSUME TurnsTyped(turns, CallKinds), NEW started \in Receipts \ {"none"},
         NEW unstarted \in Receipts \ {"none"}, NEW us, us = SettleLast(started, unstarted)
  PROVE  /\ TurnsTyped(us, CallKinds) /\ Len(us) = Len(turns)
         /\ \A m \in 1..Len(turns) : us[m].calls = turns[m].calls
         /\ Tells(turns, us, OpenOf(turns, {Len(turns)}),
                  ToldOpen(turns, started, unstarted))
<1>1. turns \in Seq(TurnRecords) /\ Len(turns) \in Nat
  BY DEF TurnsTyped
<1>2. CASE turns = <<>>
  <2>1. us = turns /\ AskedIn(turns) = {}
    BY <1>2 DEF SettleLast, AskedIn
  <2>2. OpenOf(turns, {Len(turns)}) = {}
    BY <2>1 DEF OpenIn, OpenOf
  <2> QED BY <2>1, <2>2, NothingTold
<1>3. CASE turns # <<>>
  <2>1. Len(turns) \in 1..Len(turns)
    BY <1>1, <1>3
  <2>2. us = [turns EXCEPT ![Len(turns)] = SettleAll(@, started, unstarted)]
    BY <1>3 DEF SettleLast
  <2> QED BY <2>1, <2>2, TurnSettled
<1> QED BY <1>2, <1>3

\* The last turn is settled and a notice follows.
LEMMA LastSettledNoted ==
  ASSUME TurnsTyped(turns, CallKinds), NEW started \in Receipts \ {"none"},
         NEW unstarted \in Receipts \ {"none"}, NEW us,
         us = Append(SettleLast(started, unstarted), Notice)
  PROVE  /\ TurnsTyped(us, CallKinds) /\ Len(us) = Len(turns) + 1
         /\ Tells(turns, us, OpenOf(turns, {Len(turns)}),
                  ToldOpen(turns, started, unstarted))
<1> DEFINE ms == SettleLast(started, unstarted)
           S == OpenOf(turns, {Len(turns)})
           told == ToldOpen(turns, started, unstarted)
<1>1. TurnsTyped(ms, CallKinds) /\ Len(ms) = Len(turns) /\ Tells(turns, ms, S, told)
  BY LastSettled
<1>2. us = Append(ms, Notice)
  OBVIOUS
<1> HIDE DEF ms, S, told
<1>3. TurnsTyped(us, CallKinds) /\ Asks(ms, us, {}) /\ Len(us) = Len(turns) + 1
  BY <1>1, <1>2, NoticeQuiet
<1>4. Tells(turns, us, S, told)
  BY <1>1, <1>3, TellsQuiet
<1> QED BY <1>3, <1>4 DEF S, told

\* A terminated Session tells every open call the same.
LEMMA AllSettledNoted ==
  ASSUME NEW ts, NEW kinds, TurnsTyped(ts, kinds), NEW receipt \in Receipts \ {"none"}, NEW ms,
         SettlesTurns(ts, ms, 1..Len(ts), receipt, receipt)
  PROVE  /\ TurnsTyped(Append(ms, Notice), kinds) /\ Len(Append(ms, Notice)) = Len(ts) + 1
         /\ Tells(ts, Append(ms, Notice), OpenIn(ts), ToldOpen(ts, receipt, receipt))
<1>n. PICK N : N = 1..Len(ts)
  OBVIOUS
<1>1. N \in SUBSET (1..Len(ts)) /\ SettlesTurns(ts, ms, N, receipt, receipt)
  BY <1>n
<1>2. OpenOf(ts, N) = OpenIn(ts)
  BY <1>n, CallsIn DEF OpenIn, OpenOf
<1>3. /\ TurnsTyped(ms, kinds) /\ Len(ms) = Len(ts)
      /\ Tells(ts, ms, OpenOf(ts, N), ToldOpen(ts, receipt, receipt))
  BY <1>1, SettleAllTells
<1>4. /\ TurnsTyped(Append(ms, Notice), kinds) /\ Asks(ms, Append(ms, Notice), {})
      /\ Len(Append(ms, Notice)) = Len(ts) + 1
  BY <1>3, NoticeQuiet
<1> QED BY <1>2, <1>3, <1>4, TellsQuiet

-----------------------------------------------------------------------------
(* The invariant *)

IInv ==
  /\ TypesInv /\ CurrentInv /\ WholeInv /\ EffectsInv /\ TaskInv /\ ControlInv
  /\ ReceivedInv /\ ApprovalInv /\ OwnerInv /\ StatusInv /\ ResultCurrent /\ RequestInv /\ CacheInv
  /\ MaterialsInv

\* The state speaks of the calls in the history.
LEMMA StateOfHistory ==
  AskedCalls = AskedIn(turns) /\ \A c : ReceiptOf(c) = ReceiptIn(turns, c)
BY DEF AskedCalls, AskedIn, ReceiptOf, ReceiptIn

\* Values that have their types.
LEMMA ValuesTyped ==
  /\ NoControl \in Controls /\ NoCall \notin Calls
  /\ \A kind \in ResultKinds : Result(kind) \in Results /\ Result(kind).kind = kind
  /\ \A k \in Controls : [kind |-> "control", control |-> k] \in Results
  /\ \A c \in Calls : c[1] \in 1..MaxTurns /\ c[2] \in 1..MaxBatch /\ c = <<c[1], c[2]>>
<1>1. NoControl \in Controls
  BY DEF NoControl, Controls
<1>2. NoCall \notin Calls
  BY LimitsAssumption DEF NoCall, Calls
<1> QED BY <1>1, <1>2 DEF Results, Result, ResultKinds, Calls

\* The profile bounds the Agent.
LEMMA ProfileTyped ==
  ASSUME profile \in Profiles
  PROVE  /\ CallKinds \subseteq AllCallKinds /\ Scientific \in BOOLEAN
         /\ Scientific => "guarded" \notin CallKinds
         /\ ~Scientific => "work" \notin CallKinds /\ "reply" \notin CallKinds
         /\ profile.turns \in Nat /\ profile.turns <= MaxTurns
         /\ profile.batch \in Nat /\ profile.batch <= MaxBatch
         /\ profile.calls \in Nat /\ profile.crashes \in Nat /\ profile.interventions \in Nat
BY ProfilesAssumption, LimitsAssumption DEF CallKinds, Scientific

\* The call a batch is at was not served.
LEMMA AtCallOpen ==
  ASSUME TypesInv, CurrentInv, WholeInv, at = "call", index <= Len(LastTurn.calls)
  PROVE  Current \in OpenIn(turns) /\ Kind = KindIn(turns, Current)
<1>1. TurnsTyped(turns, CallKinds) /\ turns # <<>> /\ index \in 1..(Len(LastTurn.calls) + 1)
  BY DEF TypesInv, CurrentInv, BatchPoints, StartingPoints
<1>2. Len(turns) \in 1..Len(turns) /\ turns[Len(turns)] \in TurnRecords
  BY <1>1 DEF TurnsTyped
<1>3. index \in 1..Len(turns[Len(turns)].calls)
  BY <1>1, <1>2 DEF LastTurn, TurnRecords
<1>4. Current \in AskedIn(turns) /\ Current[1] = Len(turns) /\ Current[2] = index
  BY <1>1, <1>2, <1>3, CallsIn DEF Current, CallAt
<1>5. ASSUME Current \notin OpenIn(turns) PROVE FALSE
  <2>1. Current[2] < index
    BY <1>4, <1>5 DEF WholeInv
  <2> QED BY <1>3, <1>4, <2>1
<1> QED BY <1>4, <1>5 DEF Kind, KindIn, LastTurn

\* The call a point is about, by the turn it is in.
LEMMA CurrentTyped ==
  ASSUME TypesInv, Current \in AskedIn(turns)
  PROVE  /\ Current \in Calls /\ Current[1] = Len(turns) /\ Current[2] = index
         /\ Kind = KindIn(turns, Current) /\ Kind \in CallKinds
         /\ Len(turns) \in 1..Len(turns) /\ turns # <<>>
         /\ index \in 1..Len(LastTurn.calls) /\ Len(LastTurn.calls) <= MaxBatch
<1>1. TurnsTyped(turns, CallKinds)
  BY DEF TypesInv
<1>2. Current[1] = Len(turns) /\ Current[2] = index
  BY DEF Current, CallAt
<1>3. Current \in Calls /\ Len(turns) \in 1..Len(turns) /\ index \in 1..Len(turns[Len(turns)].calls)
  BY <1>1, <1>2, CallsIn
<1>4. Kind = KindIn(turns, Current) /\ Kind \in CallKinds
  BY <1>1, <1>2, CallsIn DEF Kind, KindIn, LastTurn
<1>5. Len(turns[Len(turns)].calls) <= MaxBatch /\ turns # <<>>
  BY <1>1, <1>3 DEF TurnsTyped, TurnTyped
<1> QED BY <1>2, <1>3, <1>4, <1>5 DEF LastTurn

\* At these points the current call is one of the history.
LEMMA CurrentAsked ==
  ASSUME TypesInv, CurrentInv, WholeInv,
         at \in RunningPoints \union ApprovedPoints \union
                {"reviewing", "succeeded", "tried", "controlled", "finished"}
  PROVE  /\ Current \in AskedIn(turns)
         /\ at \in RunningPoints \union ApprovedPoints \union {"reviewing"} =>
              Current \in OpenIn(turns)
<1>1. TurnsTyped(turns, CallKinds)
  BY DEF TypesInv
<1>2. RunningIn(turns) \subseteq OpenIn(turns)
  BY <1>1, RunningIsOpen
<1> QED BY <1>2 DEF CurrentInv, OpenIn

\* A control the owner knows is of a call.
LEMMA ReceivedTyped ==
  ASSUME TypesInv, ReceivedInv
  PROVE  /\ LastReceived \in Calls \union {NoCall}
         /\ \A i \in DOMAIN received : received[i] \in Controls /\ received[i].call \in Calls
         /\ Unresolved \subseteq Calls
         /\ received # <<>> => LastReceived \in ReceivedCalls
         /\ LastReceived = NoCall => received = <<>>
         /\ received = <<>> => LastReceived = NoCall
         /\ ReceivedCalls \subseteq Calls
<1>1. received \in Seq(Controls)
  BY DEF TypesInv, FieldsInv, OwnerFields
<1>2. \A i \in DOMAIN received : received[i].call \in AskedIn(turns)
  BY DEF ReceivedInv, Names
<1>3. \A i \in DOMAIN received : received[i] \in Controls /\ received[i].call \in Calls
  BY <1>1, <1>2 DEF AskedIn
<1>4. received # <<>> => Len(received) \in DOMAIN received
  BY <1>1
<1>5. NoCall \notin Calls
  BY ValuesTyped
<1>6. Unresolved \subseteq Calls /\ ReceivedCalls \subseteq Calls
  BY <1>3 DEF Unresolved, ReceivedCalls
<1> QED BY <1>3, <1>4, <1>5, <1>6 DEF LastReceived, ReceivedCalls

-----------------------------------------------------------------------------
(* The fields keep their types *)

\* Every step writes values of the types of the fields.
LEMMA FieldsStep ==
  ASSUME IInv, [Next]_vars
  PROVE  FieldsInv'
<1>fld. /\ SavedFields /\ WorldFields /\ OwnerFields /\ LocalFields
        /\ ControlInv /\ ReceivedInv /\ TypesInv /\ CurrentInv /\ WholeInv
  BY DEF IInv, TypesInv, FieldsInv
<1>rcv. LastReceived \in Calls \union {NoCall} /\ Unresolved \subseteq Calls
  BY <1>fld, ReceivedTyped
<1>req. NoRequest \in Request /\ NoResult \in Results
  BY ValuesTyped DEF NoRequest, Request, NoResult, ResultKinds
<1>ctl. control # NoControl => control.call \in Calls /\ control.call[2] \in Nat
  BY <1>fld, ValuesTyped, LimitsAssumption DEF ControlInv, Names, AskedIn
<1>res. result.control \in Controls
  BY <1>fld DEF LocalFields, Results
<1>cur. at \in RunningPoints \union ApprovedPoints \union
                {"reviewing", "succeeded", "tried", "controlled", "finished"}
        \/ (at = "call" /\ index <= Len(LastTurn.calls)) =>
          Current \in Calls /\ Kind \in CallKinds
  BY <1>fld, CurrentAsked, CurrentTyped, AtCallOpen DEF OpenIn
<1>lim. FailureLimit \in Nat /\ Len(turns) \in Nat
        /\ profile.calls \in Nat /\ profile.crashes \in Nat
  BY <1>fld, LimitsAssumption, ProfileTyped DEF TypesInv, TurnsTyped, SavedFields
<1>val. /\ NoControl \in Controls
        /\ \A kind \in ResultKinds : Result(kind) \in Results
        /\ \A k \in Controls : [kind |-> "control", control |-> k] \in Results
  BY ValuesTyped
<1>ans. /\ request.acknowledges \in Calls \union {NoCall} /\ request.notices \in Nat
        /\ cache[request.acknowledges] \in Results /\ terminal \in Results
        /\ control \in Controls /\ result \in Results
  BY <1>fld DEF SavedFields, LocalFields, Request
<1>kinds. /\ Result("raised") \in Results /\ Result("yielded") \in Results
          /\ Result("interrupted") \in Results /\ Result("completed") \in Results
          /\ Result("failed") \in Results
  BY <1>val DEF ResultKinds
<1>ret. ASSUME NEW outcome \in Results, Return(outcome)
        PROVE  LocalFields'
  <2>1. request' \in Request /\ result' \in Results
    BY <1>ret, <1>req DEF Return
  <2>2. index' \in Nat /\ failures' \in 0..FailureLimit
    BY <1>ret, <1>lim DEF Return
  <2>3. recovered' \in BOOLEAN /\ token' \in BOOLEAN /\ boundary' \in BOOLEAN
    BY <1>ret, <1>fld DEF Return, LocalFields
  <2> QED BY <2>1, <2>2, <2>3 DEF LocalFields
<1>1. CASE ReturnSaved
  <2>1. SavedFields'
    BY <1>1, <1>fld, <1>val, <1>kinds
        DEF SavedFields, ReturnSaved, Return, Answer, NoRequest, Request, vars, sessionVars,
      worldVars, ownerVars, localVars
  <2>2. WorldFields'
    BY <1>1, <1>fld, <1>lim
        DEF WorldFields, ReturnSaved, Return, Answer, NoRequest, Request, vars, sessionVars,
      worldVars, ownerVars, localVars
  <2>3. OwnerFields'
    BY <1>1, <1>fld, <1>res, <1>rcv, <1>lim
        DEF OwnerFields, ReturnSaved, Return, Answer, NoRequest, Request, vars, sessionVars,
      worldVars, ownerVars, localVars
  <2>4. LocalFields'
    <3>1. CASE Return(cache[request.acknowledges])
      BY <3>1, <1>ret, <1>ans
    <3>2. CASE Answer(terminal)
      BY <3>2, <1>fld, <1>ans DEF Answer, LocalFields
    <3> QED BY <1>1, <3>1, <3>2 DEF ReturnSaved
  <2> QED BY <2>1, <2>2, <2>3, <2>4 DEF FieldsInv
<1>2. CASE ReturnAnswer
  <2>1. SavedFields'
    BY <1>2, <1>fld, <1>val, <1>kinds, <1>ans, <1>ctl, <1>rcv, <1>cur
        DEF SavedFields, ReturnAnswer, Return, vars, sessionVars, worldVars, ownerVars,
      localVars, RunningPoints, ApprovedPoints
  <2>2. WorldFields'
    BY <1>2, <1>fld, <1>lim
    DEF WorldFields, ReturnAnswer, Return, vars, sessionVars, worldVars, ownerVars, localVars
  <2>3. OwnerFields'
    BY <1>2, <1>fld, <1>res, <1>rcv, <1>lim
    DEF OwnerFields, ReturnAnswer, Return, vars, sessionVars, worldVars, ownerVars, localVars
  <2>4. LocalFields'
    BY <1>2, <1>ret, <1>req, <1>kinds, <1>ans DEF ReturnAnswer
  <2> QED BY <2>1, <2>2, <2>3, <2>4 DEF FieldsInv
<1>3. CASE Resume
  <2>1. SavedFields'
    BY <1>3, <1>fld, <1>val, <1>kinds
        DEF SavedFields, Resume, GoTo, UnchangedButTurns, Statuses, vars, sessionVars,
      worldVars, ownerVars, localVars
  <2>2. WorldFields'
    BY <1>3, <1>fld, <1>lim
        DEF WorldFields, Resume, GoTo, UnchangedButTurns, Statuses, vars, sessionVars,
      worldVars, ownerVars, localVars
  <2>3. OwnerFields'
    BY <1>3, <1>fld, <1>res, <1>rcv, <1>lim
        DEF OwnerFields, Resume, GoTo, UnchangedButTurns, Statuses, vars, sessionVars,
      worldVars, ownerVars, localVars
  <2>4. LocalFields'
    BY <1>3, <1>fld, <1>lim, <1>req, <1>val, <1>kinds, <1>ans
        DEF LocalFields, Resume, GoTo, UnchangedButTurns, Statuses, vars, sessionVars,
      worldVars, ownerVars, localVars
  <2> QED BY <2>1, <2>2, <2>3, <2>4 DEF FieldsInv
<1>4. CASE AcceptNotices
  <2>1. SavedFields'
    BY <1>4, <1>fld, <1>val, <1>kinds, <1>ans
        DEF SavedFields, AcceptNotices, GoTo, Saved, Statuses, Request, vars, sessionVars,
      worldVars, ownerVars, localVars
  <2>2. WorldFields'
    BY <1>4, <1>fld, <1>lim
        DEF WorldFields, AcceptNotices, GoTo, Saved, Statuses, Request, vars, sessionVars,
      worldVars, ownerVars, localVars
  <2>3. OwnerFields'
    BY <1>4, <1>fld, <1>res, <1>rcv, <1>lim
        DEF OwnerFields, AcceptNotices, GoTo, Saved, Statuses, Request, vars, sessionVars,
      worldVars, ownerVars, localVars
  <2>4. LocalFields'
    BY <1>4, <1>fld, <1>lim, <1>req, <1>val, <1>kinds, <1>ans
        DEF LocalFields, AcceptNotices, GoTo, Saved, Statuses, Request, vars, sessionVars,
      worldVars, ownerVars, localVars
  <2> QED BY <2>1, <2>2, <2>3, <2>4 DEF FieldsInv
<1>5. CASE ResumeWithout
  <2>1. SavedFields'
    BY <1>5, <1>fld, <1>val, <1>kinds
    DEF SavedFields, ResumeWithout, Visit, vars, sessionVars, worldVars, ownerVars, localVars
  <2>2. WorldFields'
    BY <1>5, <1>fld, <1>lim
    DEF WorldFields, ResumeWithout, Visit, vars, sessionVars, worldVars, ownerVars, localVars
  <2>3. OwnerFields'
    BY <1>5, <1>fld, <1>res, <1>rcv, <1>lim
    DEF OwnerFields, ResumeWithout, Visit, vars, sessionVars, worldVars, ownerVars, localVars
  <2>4. LocalFields'
    BY <1>5, <1>fld, <1>lim, <1>req, <1>val, <1>kinds, <1>ans
    DEF LocalFields, ResumeWithout, Visit, vars, sessionVars, worldVars, ownerVars, localVars
  <2> QED BY <2>1, <2>2, <2>3, <2>4 DEF FieldsInv
<1>6. CASE AcknowledgesOther
  <2>1. SavedFields'
    BY <1>6, <1>fld, <1>val, <1>kinds
        DEF SavedFields, AcknowledgesOther, GoTo, vars, sessionVars, worldVars, ownerVars,
      localVars
  <2>2. WorldFields'
    BY <1>6, <1>fld, <1>lim
        DEF WorldFields, AcknowledgesOther, GoTo, vars, sessionVars, worldVars, ownerVars,
      localVars
  <2>3. OwnerFields'
    BY <1>6, <1>fld, <1>res, <1>rcv, <1>lim
        DEF OwnerFields, AcknowledgesOther, GoTo, vars, sessionVars, worldVars, ownerVars,
      localVars
  <2>4. LocalFields'
    BY <1>6, <1>fld, <1>lim, <1>req, <1>val, <1>kinds, <1>ans
        DEF LocalFields, AcknowledgesOther, GoTo, vars, sessionVars, worldVars, ownerVars,
      localVars
  <2> QED BY <2>1, <2>2, <2>3, <2>4 DEF FieldsInv
<1>7. CASE ReleaseControl
  <2>1. SavedFields'
    BY <1>7, <1>fld, <1>val, <1>kinds
        DEF SavedFields, ReleaseControl, Visit, Saved, Statuses, vars, sessionVars, worldVars,
      ownerVars, localVars
  <2>2. WorldFields'
    BY <1>7, <1>fld, <1>lim
        DEF WorldFields, ReleaseControl, Visit, Saved, Statuses, vars, sessionVars, worldVars,
      ownerVars, localVars
  <2>3. OwnerFields'
    BY <1>7, <1>fld, <1>res, <1>rcv, <1>lim
        DEF OwnerFields, ReleaseControl, Visit, Saved, Statuses, vars, sessionVars, worldVars,
      ownerVars, localVars
  <2>4. LocalFields'
    BY <1>7, <1>fld, <1>lim, <1>req, <1>val, <1>kinds, <1>ans
        DEF LocalFields, ReleaseControl, Visit, Saved, Statuses, vars, sessionVars, worldVars,
      ownerVars, localVars
  <2> QED BY <2>1, <2>2, <2>3, <2>4 DEF FieldsInv
<1>8. CASE ResumeRaises
  <2>1. SavedFields'
    BY <1>8, <1>fld, <1>val, <1>kinds
        DEF SavedFields, ResumeRaises, Return, ResultKinds, vars, sessionVars, worldVars,
      ownerVars, localVars
  <2>2. WorldFields'
    BY <1>8, <1>fld, <1>lim
        DEF WorldFields, ResumeRaises, Return, ResultKinds, vars, sessionVars, worldVars,
      ownerVars, localVars
  <2>3. OwnerFields'
    BY <1>8, <1>fld, <1>res, <1>rcv, <1>lim
        DEF OwnerFields, ResumeRaises, Return, ResultKinds, vars, sessionVars, worldVars,
      ownerVars, localVars
  <2>4. LocalFields'
    BY <1>8, <1>ret, <1>req, <1>kinds, <1>ans DEF ResumeRaises
  <2> QED BY <2>1, <2>2, <2>3, <2>4 DEF FieldsInv
<1>9. CASE ResumeUnanswered
  <2>1. SavedFields'
    BY <1>9, <1>fld, <1>val, <1>kinds
        DEF SavedFields, ResumeUnanswered, Answer, UnchangedButTurns, Statuses, Results,
      ResultKinds, vars, sessionVars, worldVars, ownerVars, localVars
  <2>2. WorldFields'
    BY <1>9, <1>fld, <1>lim
        DEF WorldFields, ResumeUnanswered, Answer, UnchangedButTurns, Statuses, Results,
      ResultKinds, vars, sessionVars, worldVars, ownerVars, localVars
  <2>3. OwnerFields'
    BY <1>9, <1>fld, <1>res, <1>rcv, <1>lim
        DEF OwnerFields, ResumeUnanswered, Answer, UnchangedButTurns, Statuses, Results,
      ResultKinds, vars, sessionVars, worldVars, ownerVars, localVars
  <2>4. LocalFields'
    BY <1>9, <1>fld, <1>lim, <1>req, <1>val, <1>kinds, <1>ans
        DEF LocalFields, ResumeUnanswered, Answer, UnchangedButTurns, Statuses, Results,
      ResultKinds, vars, sessionVars, worldVars, ownerVars, localVars
  <2> QED BY <2>1, <2>2, <2>3, <2>4 DEF FieldsInv
<1>10. CASE ResumeAnswered
  <2>1. SavedFields'
    BY <1>10, <1>fld, <1>val, <1>kinds
        DEF SavedFields, ResumeAnswered, Visit, Saved, Statuses, vars, sessionVars, worldVars,
      ownerVars, localVars
  <2>2. WorldFields'
    BY <1>10, <1>fld, <1>lim
        DEF WorldFields, ResumeAnswered, Visit, Saved, Statuses, vars, sessionVars, worldVars,
      ownerVars, localVars
  <2>3. OwnerFields'
    BY <1>10, <1>fld, <1>res, <1>rcv, <1>lim
        DEF OwnerFields, ResumeAnswered, Visit, Saved, Statuses, vars, sessionVars, worldVars,
      ownerVars, localVars
  <2>4. LocalFields'
    BY <1>10, <1>fld, <1>lim, <1>req, <1>val, <1>kinds, <1>ans
        DEF LocalFields, ResumeAnswered, Visit, Saved, Statuses, vars, sessionVars, worldVars,
      ownerVars, localVars
  <2> QED BY <2>1, <2>2, <2>3, <2>4 DEF FieldsInv
<1>11. CASE OperationAllowed
  <2>1. SavedFields'
    BY <1>11, <1>fld, <1>val, <1>kinds
        DEF SavedFields, OperationAllowed, ResumesOperation, AnswersControl, ResumingControl,
      Visit, Saved, Statuses, vars, sessionVars, worldVars, ownerVars, localVars
  <2>2. WorldFields'
    BY <1>11, <1>fld, <1>lim
        DEF WorldFields, OperationAllowed, ResumesOperation, AnswersControl, ResumingControl,
      Visit, Saved, Statuses, vars, sessionVars, worldVars, ownerVars, localVars
  <2>3. OwnerFields'
    BY <1>11, <1>fld, <1>res, <1>rcv, <1>lim
        DEF OwnerFields, OperationAllowed, ResumesOperation, AnswersControl, ResumingControl,
      Visit, Saved, Statuses, vars, sessionVars, worldVars, ownerVars, localVars
  <2>4. LocalFields'
    BY <1>11, <1>fld, <1>lim, <1>req, <1>val, <1>kinds, <1>ans, <1>ctl
        DEF LocalFields, OperationAllowed, ResumesOperation, AnswersControl, ResumingControl,
      Visit, Saved, Statuses, vars, sessionVars, worldVars, ownerVars, localVars
  <2> QED BY <2>1, <2>2, <2>3, <2>4 DEF FieldsInv
<1>12. CASE OperationDenied
  <2>1. SavedFields'
    BY <1>12, <1>fld, <1>val, <1>kinds
        DEF SavedFields, OperationDenied, ResumesOperation, Visit, Saved, Statuses, vars,
      sessionVars, worldVars, ownerVars, localVars
  <2>2. WorldFields'
    BY <1>12, <1>fld, <1>lim
        DEF WorldFields, OperationDenied, ResumesOperation, Visit, Saved, Statuses, vars,
      sessionVars, worldVars, ownerVars, localVars
  <2>3. OwnerFields'
    BY <1>12, <1>fld, <1>res, <1>rcv, <1>lim
        DEF OwnerFields, OperationDenied, ResumesOperation, Visit, Saved, Statuses, vars,
      sessionVars, worldVars, ownerVars, localVars
  <2>4. LocalFields'
    BY <1>12, <1>fld, <1>lim, <1>req, <1>val, <1>kinds, <1>ans
        DEF LocalFields, OperationDenied, ResumesOperation, Visit, Saved, Statuses, vars,
      sessionVars, worldVars, ownerVars, localVars
  <2> QED BY <2>1, <2>2, <2>3, <2>4 DEF FieldsInv
<1>13. CASE RunApproved
  <2>1. SavedFields'
    BY <1>13, <1>fld, <1>val, <1>kinds
    DEF SavedFields, RunApproved, GoTo, vars, sessionVars, worldVars, ownerVars, localVars
  <2>2. WorldFields'
    BY <1>13, <1>fld, <1>cur, <1>rcv, <1>lim
        DEF WorldFields, RunApproved, GoTo, vars, sessionVars, worldVars, ownerVars,
      localVars, RunningPoints, ApprovedPoints
  <2>3. OwnerFields'
    BY <1>13, <1>fld, <1>res, <1>rcv, <1>lim
    DEF OwnerFields, RunApproved, GoTo, vars, sessionVars, worldVars, ownerVars, localVars
  <2>4. LocalFields'
    BY <1>13, <1>fld, <1>lim, <1>req, <1>val, <1>kinds, <1>ans
    DEF LocalFields, RunApproved, GoTo, vars, sessionVars, worldVars, ownerVars, localVars
  <2> QED BY <2>1, <2>2, <2>3, <2>4 DEF FieldsInv
<1>14. CASE RecordApproved
  <2>1. SavedFields'
    BY <1>14, <1>fld, <1>val, <1>kinds
        DEF SavedFields, RecordApproved, Visit, Saved, UnchangedButTurns, Statuses, vars,
      sessionVars, worldVars, ownerVars, localVars
  <2>2. WorldFields'
    BY <1>14, <1>fld, <1>lim
        DEF WorldFields, RecordApproved, Visit, Saved, UnchangedButTurns, Statuses, vars,
      sessionVars, worldVars, ownerVars, localVars
  <2>3. OwnerFields'
    BY <1>14, <1>fld, <1>res, <1>rcv, <1>lim
        DEF OwnerFields, RecordApproved, Visit, Saved, UnchangedButTurns, Statuses, vars,
      sessionVars, worldVars, ownerVars, localVars
  <2>4. LocalFields'
    BY <1>14, <1>fld, <1>lim, <1>req, <1>val, <1>kinds, <1>ans
        DEF LocalFields, RecordApproved, Visit, Saved, UnchangedButTurns, Statuses, vars,
      sessionVars, worldVars, ownerVars, localVars
  <2> QED BY <2>1, <2>2, <2>3, <2>4 DEF FieldsInv
<1>15. CASE RecoverTurn
  <2>1. SavedFields'
    BY <1>15, <1>fld, <1>val, <1>kinds, <1>ctl, <1>rcv, <1>cur
        DEF SavedFields, RecoverTurn, Visit, GoTo, Saved, Statuses, Acknowledge, vars,
      sessionVars, worldVars, ownerVars, localVars, RunningPoints, ApprovedPoints
  <2>2. WorldFields'
    BY <1>15, <1>fld, <1>lim
        DEF WorldFields, RecoverTurn, Visit, GoTo, Saved, Statuses, Acknowledge, vars,
      sessionVars, worldVars, ownerVars, localVars
  <2>3. OwnerFields'
    BY <1>15, <1>fld, <1>res, <1>rcv, <1>lim
        DEF OwnerFields, RecoverTurn, Visit, GoTo, Saved, Statuses, Acknowledge, vars,
      sessionVars, worldVars, ownerVars, localVars
  <2>4. LocalFields'
    BY <1>15, <1>fld, <1>lim, <1>req, <1>val, <1>kinds, <1>ans
        DEF LocalFields, RecoverTurn, Visit, GoTo, Saved, Statuses, Acknowledge, vars,
      sessionVars, worldVars, ownerVars, localVars
  <2> QED BY <2>1, <2>2, <2>3, <2>4 DEF FieldsInv
<1>16. CASE AcknowledgeRecovered
  <2>1. SavedFields'
    BY <1>16, <1>fld, <1>val, <1>kinds
        DEF SavedFields, AcknowledgeRecovered, Acknowledge, vars, sessionVars, worldVars,
      ownerVars, localVars
  <2>2. WorldFields'
    BY <1>16, <1>fld, <1>lim
        DEF WorldFields, AcknowledgeRecovered, Acknowledge, vars, sessionVars, worldVars,
      ownerVars, localVars
  <2>3. OwnerFields'
    BY <1>16, <1>fld, <1>res, <1>rcv, <1>lim
        DEF OwnerFields, AcknowledgeRecovered, Acknowledge, vars, sessionVars, worldVars,
      ownerVars, localVars
  <2>4. LocalFields'
    BY <1>16, <1>fld, <1>lim, <1>req, <1>val, <1>kinds, <1>ans
        DEF LocalFields, AcknowledgeRecovered, Acknowledge, vars, sessionVars, worldVars,
      ownerVars, localVars
  <2> QED BY <2>1, <2>2, <2>3, <2>4 DEF FieldsInv
<1>17. CASE RecoveryEnds
  <2>1. SavedFields'
    BY <1>17, <1>fld, <1>val, <1>kinds
        DEF SavedFields, RecoveryEnds, Visit, Saved, UnchangedButTurns, Statuses, vars,
      sessionVars, worldVars, ownerVars, localVars
  <2>2. WorldFields'
    BY <1>17, <1>fld, <1>lim
        DEF WorldFields, RecoveryEnds, Visit, Saved, UnchangedButTurns, Statuses, vars,
      sessionVars, worldVars, ownerVars, localVars
  <2>3. OwnerFields'
    BY <1>17, <1>fld, <1>res, <1>rcv, <1>lim
        DEF OwnerFields, RecoveryEnds, Visit, Saved, UnchangedButTurns, Statuses, vars,
      sessionVars, worldVars, ownerVars, localVars
  <2>4. LocalFields'
    BY <1>17, <1>fld, <1>lim, <1>req, <1>val, <1>kinds, <1>ans
        DEF LocalFields, RecoveryEnds, Visit, Saved, UnchangedButTurns, Statuses, vars,
      sessionVars, worldVars, ownerVars, localVars
  <2> QED BY <2>1, <2>2, <2>3, <2>4 DEF FieldsInv
<1>18. CASE LoopFails
  <2>1. SavedFields'
    BY <1>18, <1>fld, <1>val, <1>kinds
    DEF SavedFields, LoopFails, Fail, GoTo, vars, sessionVars, worldVars, ownerVars, localVars
  <2>2. WorldFields'
    BY <1>18, <1>fld, <1>lim
    DEF WorldFields, LoopFails, Fail, GoTo, vars, sessionVars, worldVars, ownerVars, localVars
  <2>3. OwnerFields'
    BY <1>18, <1>fld, <1>res, <1>rcv, <1>lim
    DEF OwnerFields, LoopFails, Fail, GoTo, vars, sessionVars, worldVars, ownerVars, localVars
  <2>4. LocalFields'
    BY <1>18, <1>fld, <1>lim, <1>req, <1>val, <1>kinds, <1>ans
    DEF LocalFields, LoopFails, Fail, GoTo, vars, sessionVars, worldVars, ownerVars, localVars
  <2> QED BY <2>1, <2>2, <2>3, <2>4 DEF FieldsInv
<1>19. CASE RequestFails
  <2>1. SavedFields'
    BY <1>19, <1>fld, <1>val, <1>kinds
        DEF SavedFields, RequestFails, Fail, GoTo, vars, sessionVars, worldVars, ownerVars,
      localVars
  <2>2. WorldFields'
    BY <1>19, <1>fld, <1>lim
        DEF WorldFields, RequestFails, Fail, GoTo, vars, sessionVars, worldVars, ownerVars,
      localVars
  <2>3. OwnerFields'
    BY <1>19, <1>fld, <1>res, <1>rcv, <1>lim
        DEF OwnerFields, RequestFails, Fail, GoTo, vars, sessionVars, worldVars, ownerVars,
      localVars
  <2>4. LocalFields'
    BY <1>19, <1>fld, <1>lim, <1>req, <1>val, <1>kinds, <1>ans
        DEF LocalFields, RequestFails, Fail, GoTo, vars, sessionVars, worldVars, ownerVars,
      localVars
  <2> QED BY <2>1, <2>2, <2>3, <2>4 DEF FieldsInv
<1>20. CASE CallTimesOut
  <2>1. SavedFields'
    BY <1>20, <1>fld, <1>val, <1>kinds
        DEF SavedFields, CallTimesOut, Fail, GoTo, vars, sessionVars, worldVars, ownerVars,
      localVars
  <2>2. WorldFields'
    BY <1>20, <1>fld, <1>lim
        DEF WorldFields, CallTimesOut, Fail, GoTo, vars, sessionVars, worldVars, ownerVars,
      localVars
  <2>3. OwnerFields'
    BY <1>20, <1>fld, <1>res, <1>rcv, <1>lim
        DEF OwnerFields, CallTimesOut, Fail, GoTo, vars, sessionVars, worldVars, ownerVars,
      localVars
  <2>4. LocalFields'
    BY <1>20, <1>fld, <1>lim, <1>req, <1>val, <1>kinds, <1>ans
        DEF LocalFields, CallTimesOut, Fail, GoTo, vars, sessionVars, worldVars, ownerVars,
      localVars
  <2> QED BY <2>1, <2>2, <2>3, <2>4 DEF FieldsInv
<1>21. CASE ReviewUnpaid
  <2>1. SavedFields'
    BY <1>21, <1>fld, <1>val, <1>kinds
        DEF SavedFields, ReviewUnpaid, Fail, GoTo, vars, sessionVars, worldVars, ownerVars,
      localVars
  <2>2. WorldFields'
    BY <1>21, <1>fld, <1>lim
        DEF WorldFields, ReviewUnpaid, Fail, GoTo, vars, sessionVars, worldVars, ownerVars,
      localVars
  <2>3. OwnerFields'
    BY <1>21, <1>fld, <1>res, <1>rcv, <1>lim
        DEF OwnerFields, ReviewUnpaid, Fail, GoTo, vars, sessionVars, worldVars, ownerVars,
      localVars
  <2>4. LocalFields'
    BY <1>21, <1>fld, <1>lim, <1>req, <1>val, <1>kinds, <1>ans
        DEF LocalFields, ReviewUnpaid, Fail, GoTo, vars, sessionVars, worldVars, ownerVars,
      localVars
  <2> QED BY <2>1, <2>2, <2>3, <2>4 DEF FieldsInv
<1>22. CASE FinishFails
  <2>1. SavedFields'
    BY <1>22, <1>fld, <1>val, <1>kinds
        DEF SavedFields, FinishFails, Fail, GoTo, vars, sessionVars, worldVars, ownerVars,
      localVars
  <2>2. WorldFields'
    BY <1>22, <1>fld, <1>lim
        DEF WorldFields, FinishFails, Fail, GoTo, vars, sessionVars, worldVars, ownerVars,
      localVars
  <2>3. OwnerFields'
    BY <1>22, <1>fld, <1>res, <1>rcv, <1>lim
        DEF OwnerFields, FinishFails, Fail, GoTo, vars, sessionVars, worldVars, ownerVars,
      localVars
  <2>4. LocalFields'
    BY <1>22, <1>fld, <1>lim, <1>req, <1>val, <1>kinds, <1>ans
        DEF LocalFields, FinishFails, Fail, GoTo, vars, sessionVars, worldVars, ownerVars,
      localVars
  <2> QED BY <2>1, <2>2, <2>3, <2>4 DEF FieldsInv
<1>23. CASE Yield
  <2>1. SavedFields'
    BY <1>23, <1>fld, <1>val, <1>kinds
        DEF SavedFields, Yield, Answer, UnchangedButTurns, Statuses, ResultKinds, vars,
      sessionVars, worldVars, ownerVars, localVars
  <2>2. WorldFields'
    BY <1>23, <1>fld, <1>lim
        DEF WorldFields, Yield, Answer, UnchangedButTurns, Statuses, ResultKinds, vars,
      sessionVars, worldVars, ownerVars, localVars
  <2>3. OwnerFields'
    BY <1>23, <1>fld, <1>res, <1>rcv, <1>lim
        DEF OwnerFields, Yield, Answer, UnchangedButTurns, Statuses, ResultKinds, vars,
      sessionVars, worldVars, ownerVars, localVars
  <2>4. LocalFields'
    BY <1>23, <1>fld, <1>lim, <1>req, <1>val, <1>kinds, <1>ans
        DEF LocalFields, Yield, Answer, UnchangedButTurns, Statuses, ResultKinds, vars,
      sessionVars, worldVars, ownerVars, localVars
  <2> QED BY <2>1, <2>2, <2>3, <2>4 DEF FieldsInv
<1>24. CASE CompactHistory
  <2>1. SavedFields'
    BY <1>24, <1>fld, <1>val, <1>kinds
        DEF SavedFields, CompactHistory, MayRequest, GoTo, Saved, Statuses, vars, sessionVars,
      worldVars, ownerVars, localVars
  <2>2. WorldFields'
    BY <1>24, <1>fld, <1>lim
        DEF WorldFields, CompactHistory, MayRequest, GoTo, Saved, Statuses, vars, sessionVars,
      worldVars, ownerVars, localVars
  <2>3. OwnerFields'
    BY <1>24, <1>fld, <1>res, <1>rcv, <1>lim
        DEF OwnerFields, CompactHistory, MayRequest, GoTo, Saved, Statuses, vars, sessionVars,
      worldVars, ownerVars, localVars
  <2>4. LocalFields'
    BY <1>24, <1>fld, <1>lim, <1>req, <1>val, <1>kinds, <1>ans
        DEF LocalFields, CompactHistory, MayRequest, GoTo, Saved, Statuses, vars, sessionVars,
      worldVars, ownerVars, localVars
  <2> QED BY <2>1, <2>2, <2>3, <2>4 DEF FieldsInv
<1>25. CASE RequestModel
  <2>1. SavedFields'
    BY <1>25, <1>fld, <1>val, <1>kinds
        DEF SavedFields, RequestModel, MayRequest, GoTo, vars, sessionVars, worldVars,
      ownerVars, localVars
  <2>2. WorldFields'
    BY <1>25, <1>fld, <1>lim
        DEF WorldFields, RequestModel, MayRequest, GoTo, vars, sessionVars, worldVars,
      ownerVars, localVars
  <2>3. OwnerFields'
    BY <1>25, <1>fld, <1>res, <1>rcv, <1>lim
        DEF OwnerFields, RequestModel, MayRequest, GoTo, vars, sessionVars, worldVars,
      ownerVars, localVars
  <2>4. LocalFields'
    BY <1>25, <1>fld, <1>lim, <1>req, <1>val, <1>kinds, <1>ans
        DEF LocalFields, RequestModel, MayRequest, GoTo, vars, sessionVars, worldVars,
      ownerVars, localVars
  <2> QED BY <2>1, <2>2, <2>3, <2>4 DEF FieldsInv
<1>26. CASE ReplyMalformed
  <2>1. SavedFields'
    BY <1>26, <1>fld, <1>val, <1>kinds
        DEF SavedFields, ReplyMalformed, NoteFailure, Saved, UnchangedButTurns, Statuses,
      vars, sessionVars, worldVars, ownerVars, localVars
  <2>2. WorldFields'
    BY <1>26, <1>fld, <1>lim
        DEF WorldFields, ReplyMalformed, NoteFailure, Saved, UnchangedButTurns, Statuses,
      vars, sessionVars, worldVars, ownerVars, localVars
  <2>3. OwnerFields'
    BY <1>26, <1>fld, <1>res, <1>rcv, <1>lim
        DEF OwnerFields, ReplyMalformed, NoteFailure, Saved, UnchangedButTurns, Statuses,
      vars, sessionVars, worldVars, ownerVars, localVars
  <2>4. LocalFields'
    BY <1>26, <1>fld, <1>lim, <1>req, <1>val, <1>kinds, <1>ans
        DEF LocalFields, ReplyMalformed, NoteFailure, Saved, UnchangedButTurns, Statuses,
      vars, sessionVars, worldVars, ownerVars, localVars
  <2> QED BY <2>1, <2>2, <2>3, <2>4 DEF FieldsInv
<1>27. CASE AcceptBatch
  <2>1. SavedFields'
    BY <1>27, <1>fld, <1>val, <1>kinds
        DEF SavedFields, AcceptBatch, SaveReply, Visit, Saved, UnchangedButTurns, Statuses,
      vars, sessionVars, worldVars, ownerVars, localVars
  <2>2. WorldFields'
    BY <1>27, <1>fld, <1>lim
        DEF WorldFields, AcceptBatch, SaveReply, Visit, Saved, UnchangedButTurns, Statuses,
      vars, sessionVars, worldVars, ownerVars, localVars
  <2>3. OwnerFields'
    BY <1>27, <1>fld, <1>res, <1>rcv, <1>lim
        DEF OwnerFields, AcceptBatch, SaveReply, Visit, Saved, UnchangedButTurns, Statuses,
      vars, sessionVars, worldVars, ownerVars, localVars
  <2>4. LocalFields'
    BY <1>27, <1>fld, <1>lim, <1>req, <1>val, <1>kinds, <1>ans
        DEF LocalFields, AcceptBatch, SaveReply, Visit, Saved, UnchangedButTurns, Statuses,
      vars, sessionVars, worldVars, ownerVars, localVars
  <2> QED BY <2>1, <2>2, <2>3, <2>4 DEF FieldsInv
<1>28. CASE RefuseBatch
  <2>1. SavedFields'
    BY <1>28, <1>fld, <1>val, <1>kinds
        DEF SavedFields, RefuseBatch, SaveReply, GoTo, Saved, UnchangedButTurns, Statuses,
      vars, sessionVars, worldVars, ownerVars, localVars
  <2>2. WorldFields'
    BY <1>28, <1>fld, <1>lim
        DEF WorldFields, RefuseBatch, SaveReply, GoTo, Saved, UnchangedButTurns, Statuses,
      vars, sessionVars, worldVars, ownerVars, localVars
  <2>3. OwnerFields'
    BY <1>28, <1>fld, <1>res, <1>rcv, <1>lim
        DEF OwnerFields, RefuseBatch, SaveReply, GoTo, Saved, UnchangedButTurns, Statuses,
      vars, sessionVars, worldVars, ownerVars, localVars
  <2>4. LocalFields'
    BY <1>28, <1>fld, <1>lim, <1>req, <1>val, <1>kinds, <1>ans
        DEF LocalFields, RefuseBatch, SaveReply, GoTo, Saved, UnchangedButTurns, Statuses,
      vars, sessionVars, worldVars, ownerVars, localVars
  <2> QED BY <2>1, <2>2, <2>3, <2>4 DEF FieldsInv
<1>29. CASE RecordRefusal
  <2>1. SavedFields'
    BY <1>29, <1>fld, <1>val, <1>kinds
        DEF SavedFields, RecordRefusal, RecordReceipt, NoteFailure, Saved, UnchangedButTurns,
      Statuses, vars, sessionVars, worldVars, ownerVars, localVars
  <2>2. WorldFields'
    BY <1>29, <1>fld, <1>lim
        DEF WorldFields, RecordRefusal, RecordReceipt, NoteFailure, Saved, UnchangedButTurns,
      Statuses, vars, sessionVars, worldVars, ownerVars, localVars
  <2>3. OwnerFields'
    BY <1>29, <1>fld, <1>res, <1>rcv, <1>lim
        DEF OwnerFields, RecordRefusal, RecordReceipt, NoteFailure, Saved, UnchangedButTurns,
      Statuses, vars, sessionVars, worldVars, ownerVars, localVars
  <2>4. LocalFields'
    BY <1>29, <1>fld, <1>lim, <1>req, <1>val, <1>kinds, <1>ans
        DEF LocalFields, RecordRefusal, RecordReceipt, NoteFailure, Saved, UnchangedButTurns,
      Statuses, vars, sessionVars, worldVars, ownerVars, localVars
  <2> QED BY <2>1, <2>2, <2>3, <2>4 DEF FieldsInv
<1>30. CASE RefuseCall
  <2>1. SavedFields'
    BY <1>30, <1>fld, <1>val, <1>kinds
        DEF SavedFields, RefuseCall, RecordReceipt, NoteFailure, Saved, UnchangedButTurns,
      Statuses, vars, sessionVars, worldVars, ownerVars, localVars
  <2>2. WorldFields'
    BY <1>30, <1>fld, <1>lim
        DEF WorldFields, RefuseCall, RecordReceipt, NoteFailure, Saved, UnchangedButTurns,
      Statuses, vars, sessionVars, worldVars, ownerVars, localVars
  <2>3. OwnerFields'
    BY <1>30, <1>fld, <1>res, <1>rcv, <1>lim
        DEF OwnerFields, RefuseCall, RecordReceipt, NoteFailure, Saved, UnchangedButTurns,
      Statuses, vars, sessionVars, worldVars, ownerVars, localVars
  <2>4. LocalFields'
    BY <1>30, <1>fld, <1>lim, <1>req, <1>val, <1>kinds, <1>ans
        DEF LocalFields, RefuseCall, RecordReceipt, NoteFailure, Saved, UnchangedButTurns,
      Statuses, vars, sessionVars, worldVars, ownerVars, localVars
  <2> QED BY <2>1, <2>2, <2>3, <2>4 DEF FieldsInv
<1>31. CASE ReviewInvalidated
  <2>1. SavedFields'
    BY <1>31, <1>fld, <1>val, <1>kinds
        DEF SavedFields, ReviewInvalidated, RecordReceipt, NoteFailure, Saved,
      UnchangedButTurns, Statuses, vars, sessionVars, worldVars, ownerVars, localVars
  <2>2. WorldFields'
    BY <1>31, <1>fld, <1>lim
        DEF WorldFields, ReviewInvalidated, RecordReceipt, NoteFailure, Saved,
      UnchangedButTurns, Statuses, vars, sessionVars, worldVars, ownerVars, localVars
  <2>3. OwnerFields'
    BY <1>31, <1>fld, <1>res, <1>rcv, <1>lim
        DEF OwnerFields, ReviewInvalidated, RecordReceipt, NoteFailure, Saved,
      UnchangedButTurns, Statuses, vars, sessionVars, worldVars, ownerVars, localVars
  <2>4. LocalFields'
    BY <1>31, <1>fld, <1>lim, <1>req, <1>val, <1>kinds, <1>ans
        DEF LocalFields, ReviewInvalidated, RecordReceipt, NoteFailure, Saved,
      UnchangedButTurns, Statuses, vars, sessionVars, worldVars, ownerVars, localVars
  <2> QED BY <2>1, <2>2, <2>3, <2>4 DEF FieldsInv
<1>32. CASE ToolRaises
  <2>1. SavedFields'
    BY <1>32, <1>fld, <1>val, <1>kinds
        DEF SavedFields, ToolRaises, RecordReceipt, NoteFailure, Saved, UnchangedButTurns,
      Statuses, vars, sessionVars, worldVars, ownerVars, localVars
  <2>2. WorldFields'
    BY <1>32, <1>fld, <1>lim
        DEF WorldFields, ToolRaises, RecordReceipt, NoteFailure, Saved, UnchangedButTurns,
      Statuses, vars, sessionVars, worldVars, ownerVars, localVars
  <2>3. OwnerFields'
    BY <1>32, <1>fld, <1>res, <1>rcv, <1>lim
        DEF OwnerFields, ToolRaises, RecordReceipt, NoteFailure, Saved, UnchangedButTurns,
      Statuses, vars, sessionVars, worldVars, ownerVars, localVars
  <2>4. LocalFields'
    BY <1>32, <1>fld, <1>lim, <1>req, <1>val, <1>kinds, <1>ans
        DEF LocalFields, ToolRaises, RecordReceipt, NoteFailure, Saved, UnchangedButTurns,
      Statuses, vars, sessionVars, worldVars, ownerVars, localVars
  <2> QED BY <2>1, <2>2, <2>3, <2>4 DEF FieldsInv
<1>33. CASE FinishRefused
  <2>1. SavedFields'
    BY <1>33, <1>fld, <1>val, <1>kinds
        DEF SavedFields, FinishRefused, RecordReceipt, NoteFailure, Saved, UnchangedButTurns,
      Statuses, vars, sessionVars, worldVars, ownerVars, localVars
  <2>2. WorldFields'
    BY <1>33, <1>fld, <1>lim
        DEF WorldFields, FinishRefused, RecordReceipt, NoteFailure, Saved, UnchangedButTurns,
      Statuses, vars, sessionVars, worldVars, ownerVars, localVars
  <2>3. OwnerFields'
    BY <1>33, <1>fld, <1>res, <1>rcv, <1>lim
        DEF OwnerFields, FinishRefused, RecordReceipt, NoteFailure, Saved, UnchangedButTurns,
      Statuses, vars, sessionVars, worldVars, ownerVars, localVars
  <2>4. LocalFields'
    BY <1>33, <1>fld, <1>lim, <1>req, <1>val, <1>kinds, <1>ans
        DEF LocalFields, FinishRefused, RecordReceipt, NoteFailure, Saved, UnchangedButTurns,
      Statuses, vars, sessionVars, worldVars, ownerVars, localVars
  <2> QED BY <2>1, <2>2, <2>3, <2>4 DEF FieldsInv
<1>34. CASE StartCall
  <2>1. SavedFields'
    BY <1>34, <1>fld, <1>val, <1>kinds
        DEF SavedFields, StartCall, StartRunning, GoTo, Saved, UnchangedButTurns, Statuses,
      vars, sessionVars, worldVars, ownerVars, localVars
  <2>2. WorldFields'
    BY <1>34, <1>fld, <1>lim
        DEF WorldFields, StartCall, StartRunning, GoTo, Saved, UnchangedButTurns, Statuses,
      vars, sessionVars, worldVars, ownerVars, localVars
  <2>3. OwnerFields'
    BY <1>34, <1>fld, <1>res, <1>rcv, <1>lim
        DEF OwnerFields, StartCall, StartRunning, GoTo, Saved, UnchangedButTurns, Statuses,
      vars, sessionVars, worldVars, ownerVars, localVars
  <2>4. LocalFields'
    BY <1>34, <1>fld, <1>lim, <1>req, <1>val, <1>kinds, <1>ans
        DEF LocalFields, StartCall, StartRunning, GoTo, Saved, UnchangedButTurns, Statuses,
      vars, sessionVars, worldVars, ownerVars, localVars
  <2> QED BY <2>1, <2>2, <2>3, <2>4 DEF FieldsInv
<1>35. CASE RequestReview
  <2>1. SavedFields'
    BY <1>35, <1>fld, <1>val, <1>kinds
    DEF SavedFields, RequestReview, GoTo, vars, sessionVars, worldVars, ownerVars, localVars
  <2>2. WorldFields'
    BY <1>35, <1>fld, <1>lim
    DEF WorldFields, RequestReview, GoTo, vars, sessionVars, worldVars, ownerVars, localVars
  <2>3. OwnerFields'
    BY <1>35, <1>fld, <1>res, <1>rcv, <1>lim
    DEF OwnerFields, RequestReview, GoTo, vars, sessionVars, worldVars, ownerVars, localVars
  <2>4. LocalFields'
    BY <1>35, <1>fld, <1>lim, <1>req, <1>val, <1>kinds, <1>ans
    DEF LocalFields, RequestReview, GoTo, vars, sessionVars, worldVars, ownerVars, localVars
  <2> QED BY <2>1, <2>2, <2>3, <2>4 DEF FieldsInv
<1>36. CASE ReviewAllows
  <2>1. SavedFields'
    BY <1>36, <1>fld, <1>val, <1>kinds
        DEF SavedFields, ReviewAllows, GoTo, Saved, UnchangedButTurns, Statuses, vars,
      sessionVars, worldVars, ownerVars, localVars
  <2>2. WorldFields'
    BY <1>36, <1>fld, <1>cur, <1>rcv, <1>lim
        DEF WorldFields, ReviewAllows, GoTo, Saved, UnchangedButTurns, Statuses, vars,
      sessionVars, worldVars, ownerVars, localVars, RunningPoints, ApprovedPoints
  <2>3. OwnerFields'
    BY <1>36, <1>fld, <1>res, <1>rcv, <1>lim
        DEF OwnerFields, ReviewAllows, GoTo, Saved, UnchangedButTurns, Statuses, vars,
      sessionVars, worldVars, ownerVars, localVars
  <2>4. LocalFields'
    BY <1>36, <1>fld, <1>lim, <1>req, <1>val, <1>kinds, <1>ans
        DEF LocalFields, ReviewAllows, GoTo, Saved, UnchangedButTurns, Statuses, vars,
      sessionVars, worldVars, ownerVars, localVars
  <2> QED BY <2>1, <2>2, <2>3, <2>4 DEF FieldsInv
<1>37. CASE PauseApproval
  <2>1. SavedFields'
    BY <1>37, <1>fld, <1>val, <1>kinds, <1>ctl, <1>rcv, <1>cur
        DEF SavedFields, PauseApproval, Answer, Statuses, Results, ResultKinds, Controls,
      vars, sessionVars, worldVars, ownerVars, localVars, RunningPoints, ApprovedPoints,
      AtCall
  <2>2. WorldFields'
    BY <1>37, <1>fld, <1>lim
        DEF WorldFields, PauseApproval, Answer, Statuses, Results, ResultKinds, Controls,
      vars, sessionVars, worldVars, ownerVars, localVars
  <2>3. OwnerFields'
    BY <1>37, <1>fld, <1>res, <1>rcv, <1>lim
        DEF OwnerFields, PauseApproval, Answer, Statuses, Results, ResultKinds, Controls,
      vars, sessionVars, worldVars, ownerVars, localVars
  <2>4. LocalFields'
    BY <1>37, <1>fld, <1>lim, <1>req, <1>val, <1>kinds, <1>ans, <1>cur
        DEF LocalFields, PauseApproval, Answer, Statuses, Results, ResultKinds, Controls,
      vars, sessionVars, worldVars, ownerVars, localVars, RunningPoints, ApprovedPoints,
      AtCall
  <2> QED BY <2>1, <2>2, <2>3, <2>4 DEF FieldsInv
<1>38. CASE Execute
  <2>1. SavedFields'
    BY <1>38, <1>fld, <1>val, <1>kinds
    DEF SavedFields, Execute, GoTo, vars, sessionVars, worldVars, ownerVars, localVars
  <2>2. WorldFields'
    BY <1>38, <1>fld, <1>cur, <1>rcv, <1>lim
        DEF WorldFields, Execute, GoTo, vars, sessionVars, worldVars, ownerVars, localVars,
      RunningPoints, ApprovedPoints
  <2>3. OwnerFields'
    BY <1>38, <1>fld, <1>res, <1>rcv, <1>lim
    DEF OwnerFields, Execute, GoTo, vars, sessionVars, worldVars, ownerVars, localVars
  <2>4. LocalFields'
    BY <1>38, <1>fld, <1>lim, <1>req, <1>val, <1>kinds, <1>ans
    DEF LocalFields, Execute, GoTo, vars, sessionVars, worldVars, ownerVars, localVars
  <2> QED BY <2>1, <2>2, <2>3, <2>4 DEF FieldsInv
<1>39. CASE RecordSuccess
  <2>1. SavedFields'
    BY <1>39, <1>fld, <1>val, <1>kinds, <1>ctl, <1>rcv, <1>cur
        DEF SavedFields, RecordSuccess, RecordResult, RecordReceipt, GoTo, Saved, Statuses,
      vars, sessionVars, worldVars, ownerVars, localVars, RunningPoints, ApprovedPoints
  <2>2. WorldFields'
    BY <1>39, <1>fld, <1>lim
        DEF WorldFields, RecordSuccess, RecordResult, RecordReceipt, GoTo, Saved, Statuses,
      vars, sessionVars, worldVars, ownerVars, localVars
  <2>3. OwnerFields'
    BY <1>39, <1>fld, <1>res, <1>rcv, <1>lim
        DEF OwnerFields, RecordSuccess, RecordResult, RecordReceipt, GoTo, Saved, Statuses,
      vars, sessionVars, worldVars, ownerVars, localVars
  <2>4. LocalFields'
    BY <1>39, <1>fld, <1>lim, <1>req, <1>val, <1>kinds, <1>ans
        DEF LocalFields, RecordSuccess, RecordResult, RecordReceipt, GoTo, Saved, Statuses,
      vars, sessionVars, worldVars, ownerVars, localVars
  <2> QED BY <2>1, <2>2, <2>3, <2>4 DEF FieldsInv
<1>40. CASE RecordFailure
  <2>1. SavedFields'
    BY <1>40, <1>fld, <1>val, <1>kinds, <1>ctl, <1>rcv, <1>cur
        DEF SavedFields, RecordFailure, RecordResult, RecordReceipt, GoTo, Saved, Statuses,
      vars, sessionVars, worldVars, ownerVars, localVars, RunningPoints, ApprovedPoints
  <2>2. WorldFields'
    BY <1>40, <1>fld, <1>lim
        DEF WorldFields, RecordFailure, RecordResult, RecordReceipt, GoTo, Saved, Statuses,
      vars, sessionVars, worldVars, ownerVars, localVars
  <2>3. OwnerFields'
    BY <1>40, <1>fld, <1>res, <1>rcv, <1>lim
        DEF OwnerFields, RecordFailure, RecordResult, RecordReceipt, GoTo, Saved, Statuses,
      vars, sessionVars, worldVars, ownerVars, localVars
  <2>4. LocalFields'
    BY <1>40, <1>fld, <1>lim, <1>req, <1>val, <1>kinds, <1>ans
        DEF LocalFields, RecordFailure, RecordResult, RecordReceipt, GoTo, Saved, Statuses,
      vars, sessionVars, worldVars, ownerVars, localVars
  <2> QED BY <2>1, <2>2, <2>3, <2>4 DEF FieldsInv
<1>41. CASE AcknowledgeCall
  <2>1. SavedFields'
    BY <1>41, <1>fld, <1>val, <1>kinds
        DEF SavedFields, AcknowledgeCall, Acknowledge, NoteFailure, vars, sessionVars,
      worldVars, ownerVars, localVars
  <2>2. WorldFields'
    BY <1>41, <1>fld, <1>lim
        DEF WorldFields, AcknowledgeCall, Acknowledge, NoteFailure, vars, sessionVars,
      worldVars, ownerVars, localVars
  <2>3. OwnerFields'
    BY <1>41, <1>fld, <1>res, <1>rcv, <1>lim
        DEF OwnerFields, AcknowledgeCall, Acknowledge, NoteFailure, vars, sessionVars,
      worldVars, ownerVars, localVars
  <2>4. LocalFields'
    BY <1>41, <1>fld, <1>lim, <1>req, <1>val, <1>kinds, <1>ans
        DEF LocalFields, AcknowledgeCall, Acknowledge, NoteFailure, vars, sessionVars,
      worldVars, ownerVars, localVars
  <2> QED BY <2>1, <2>2, <2>3, <2>4 DEF FieldsInv
<1>42. CASE BatchEnds
  <2>1. SavedFields'
    BY <1>42, <1>fld, <1>val, <1>kinds
        DEF SavedFields, BatchEnds, Visit, UnchangedButTurns, Statuses, vars, sessionVars,
      worldVars, ownerVars, localVars
  <2>2. WorldFields'
    BY <1>42, <1>fld, <1>lim
        DEF WorldFields, BatchEnds, Visit, UnchangedButTurns, Statuses, vars, sessionVars,
      worldVars, ownerVars, localVars
  <2>3. OwnerFields'
    BY <1>42, <1>fld, <1>res, <1>rcv, <1>lim
        DEF OwnerFields, BatchEnds, Visit, UnchangedButTurns, Statuses, vars, sessionVars,
      worldVars, ownerVars, localVars
  <2>4. LocalFields'
    BY <1>42, <1>fld, <1>lim, <1>req, <1>val, <1>kinds, <1>ans
        DEF LocalFields, BatchEnds, Visit, UnchangedButTurns, Statuses, vars, sessionVars,
      worldVars, ownerVars, localVars
  <2> QED BY <2>1, <2>2, <2>3, <2>4 DEF FieldsInv
<1>43. CASE AcceptControl
  <2>1. SavedFields'
    BY <1>43, <1>fld, <1>val, <1>kinds, <1>ctl, <1>rcv, <1>cur
        DEF SavedFields, AcceptControl, ControlAllowed, GoTo, Statuses, Controls, vars,
      sessionVars, worldVars, ownerVars, localVars, RunningPoints, ApprovedPoints
  <2>2. WorldFields'
    BY <1>43, <1>fld, <1>lim
        DEF WorldFields, AcceptControl, ControlAllowed, GoTo, Statuses, Controls, vars,
      sessionVars, worldVars, ownerVars, localVars
  <2>3. OwnerFields'
    BY <1>43, <1>fld, <1>res, <1>rcv, <1>lim
        DEF OwnerFields, AcceptControl, ControlAllowed, GoTo, Statuses, Controls, vars,
      sessionVars, worldVars, ownerVars, localVars
  <2>4. LocalFields'
    BY <1>43, <1>fld, <1>lim, <1>req, <1>val, <1>kinds, <1>ans
        DEF LocalFields, AcceptControl, ControlAllowed, GoTo, Statuses, Controls, vars,
      sessionVars, worldVars, ownerVars, localVars
  <2> QED BY <2>1, <2>2, <2>3, <2>4 DEF FieldsInv
<1>44. CASE RecordControlReceipt
  <2>1. SavedFields'
    BY <1>44, <1>fld, <1>val, <1>kinds
        DEF SavedFields, RecordControlReceipt, GoTo, UnchangedButTurns, Statuses, vars,
      sessionVars, worldVars, ownerVars, localVars
  <2>2. WorldFields'
    BY <1>44, <1>fld, <1>lim
        DEF WorldFields, RecordControlReceipt, GoTo, UnchangedButTurns, Statuses, vars,
      sessionVars, worldVars, ownerVars, localVars
  <2>3. OwnerFields'
    BY <1>44, <1>fld, <1>res, <1>rcv, <1>lim
        DEF OwnerFields, RecordControlReceipt, GoTo, UnchangedButTurns, Statuses, vars,
      sessionVars, worldVars, ownerVars, localVars
  <2>4. LocalFields'
    BY <1>44, <1>fld, <1>lim, <1>req, <1>val, <1>kinds, <1>ans
        DEF LocalFields, RecordControlReceipt, GoTo, UnchangedButTurns, Statuses, vars,
      sessionVars, worldVars, ownerVars, localVars
  <2> QED BY <2>1, <2>2, <2>3, <2>4 DEF FieldsInv
<1>45. CASE ReturnControl
  <2>1. SavedFields'
    BY <1>45, <1>fld, <1>val, <1>kinds
    DEF SavedFields, ReturnControl, Answer, vars, sessionVars, worldVars, ownerVars, localVars
  <2>2. WorldFields'
    BY <1>45, <1>fld, <1>lim
    DEF WorldFields, ReturnControl, Answer, vars, sessionVars, worldVars, ownerVars, localVars
  <2>3. OwnerFields'
    BY <1>45, <1>fld, <1>res, <1>rcv, <1>lim
    DEF OwnerFields, ReturnControl, Answer, vars, sessionVars, worldVars, ownerVars, localVars
  <2>4. LocalFields'
    BY <1>45, <1>fld, <1>lim, <1>req, <1>val, <1>kinds, <1>ans
    DEF LocalFields, ReturnControl, Answer, vars, sessionVars, worldVars, ownerVars, localVars
  <2> QED BY <2>1, <2>2, <2>3, <2>4 DEF FieldsInv
<1>46. CASE FinishAccepted
  <2>1. SavedFields'
    BY <1>46, <1>fld, <1>val, <1>kinds
        DEF SavedFields, FinishAccepted, RecordReceipt, Saved, GoTo, UnchangedButTurns,
      Statuses, vars, sessionVars, worldVars, ownerVars, localVars
  <2>2. WorldFields'
    BY <1>46, <1>fld, <1>lim
        DEF WorldFields, FinishAccepted, RecordReceipt, Saved, GoTo, UnchangedButTurns,
      Statuses, vars, sessionVars, worldVars, ownerVars, localVars
  <2>3. OwnerFields'
    BY <1>46, <1>fld, <1>res, <1>rcv, <1>lim
        DEF OwnerFields, FinishAccepted, RecordReceipt, Saved, GoTo, UnchangedButTurns,
      Statuses, vars, sessionVars, worldVars, ownerVars, localVars
  <2>4. LocalFields'
    BY <1>46, <1>fld, <1>lim, <1>req, <1>val, <1>kinds, <1>ans
        DEF LocalFields, FinishAccepted, RecordReceipt, Saved, GoTo, UnchangedButTurns,
      Statuses, vars, sessionVars, worldVars, ownerVars, localVars
  <2> QED BY <2>1, <2>2, <2>3, <2>4 DEF FieldsInv
<1>47. CASE DeferFinish
  <2>1. SavedFields'
    BY <1>47, <1>fld, <1>val, <1>kinds
        DEF SavedFields, DeferFinish, Answer, UnchangedButTurns, Statuses, ResultKinds, vars,
      sessionVars, worldVars, ownerVars, localVars
  <2>2. WorldFields'
    BY <1>47, <1>fld, <1>lim
        DEF WorldFields, DeferFinish, Answer, UnchangedButTurns, Statuses, ResultKinds, vars,
      sessionVars, worldVars, ownerVars, localVars
  <2>3. OwnerFields'
    BY <1>47, <1>fld, <1>res, <1>rcv, <1>lim
        DEF OwnerFields, DeferFinish, Answer, UnchangedButTurns, Statuses, ResultKinds, vars,
      sessionVars, worldVars, ownerVars, localVars
  <2>4. LocalFields'
    BY <1>47, <1>fld, <1>lim, <1>req, <1>val, <1>kinds, <1>ans
        DEF LocalFields, DeferFinish, Answer, UnchangedButTurns, Statuses, ResultKinds, vars,
      sessionVars, worldVars, ownerVars, localVars
  <2> QED BY <2>1, <2>2, <2>3, <2>4 DEF FieldsInv
<1>48. CASE CompleteSession
  <2>1. SavedFields'
    BY <1>48, <1>fld, <1>val, <1>kinds
        DEF SavedFields, CompleteSession, Answer, Statuses, ResultKinds, vars, sessionVars,
      worldVars, ownerVars, localVars
  <2>2. WorldFields'
    BY <1>48, <1>fld, <1>lim
        DEF WorldFields, CompleteSession, Answer, Statuses, ResultKinds, vars, sessionVars,
      worldVars, ownerVars, localVars
  <2>3. OwnerFields'
    BY <1>48, <1>fld, <1>res, <1>rcv, <1>lim
        DEF OwnerFields, CompleteSession, Answer, Statuses, ResultKinds, vars, sessionVars,
      worldVars, ownerVars, localVars
  <2>4. LocalFields'
    BY <1>48, <1>fld, <1>lim, <1>req, <1>val, <1>kinds, <1>ans
        DEF LocalFields, CompleteSession, Answer, Statuses, ResultKinds, vars, sessionVars,
      worldVars, ownerVars, localVars
  <2> QED BY <2>1, <2>2, <2>3, <2>4 DEF FieldsInv
<1>49. CASE SettleFailing
  <2>1. SavedFields'
    BY <1>49, <1>fld, <1>val, <1>kinds
        DEF SavedFields, SettleFailing, GoTo, Saved, UnchangedButTurns, Statuses, vars,
      sessionVars, worldVars, ownerVars, localVars
  <2>2. WorldFields'
    BY <1>49, <1>fld, <1>lim
        DEF WorldFields, SettleFailing, GoTo, Saved, UnchangedButTurns, Statuses, vars,
      sessionVars, worldVars, ownerVars, localVars
  <2>3. OwnerFields'
    BY <1>49, <1>fld, <1>res, <1>rcv, <1>lim
        DEF OwnerFields, SettleFailing, GoTo, Saved, UnchangedButTurns, Statuses, vars,
      sessionVars, worldVars, ownerVars, localVars
  <2>4. LocalFields'
    BY <1>49, <1>fld, <1>lim, <1>req, <1>val, <1>kinds, <1>ans
        DEF LocalFields, SettleFailing, GoTo, Saved, UnchangedButTurns, Statuses, vars,
      sessionVars, worldVars, ownerVars, localVars
  <2> QED BY <2>1, <2>2, <2>3, <2>4 DEF FieldsInv
<1>50. CASE FailSession
  <2>1. SavedFields'
    BY <1>50, <1>fld, <1>val, <1>kinds
        DEF SavedFields, FailSession, Answer, Statuses, ResultKinds, vars, sessionVars,
      worldVars, ownerVars, localVars
  <2>2. WorldFields'
    BY <1>50, <1>fld, <1>lim
        DEF WorldFields, FailSession, Answer, Statuses, ResultKinds, vars, sessionVars,
      worldVars, ownerVars, localVars
  <2>3. OwnerFields'
    BY <1>50, <1>fld, <1>res, <1>rcv, <1>lim
        DEF OwnerFields, FailSession, Answer, Statuses, ResultKinds, vars, sessionVars,
      worldVars, ownerVars, localVars
  <2>4. LocalFields'
    BY <1>50, <1>fld, <1>lim, <1>req, <1>val, <1>kinds, <1>ans
        DEF LocalFields, FailSession, Answer, Statuses, ResultKinds, vars, sessionVars,
      worldVars, ownerVars, localVars
  <2> QED BY <2>1, <2>2, <2>3, <2>4 DEF FieldsInv
<1>51. CASE Suspend
  <2>1. SavedFields'
    BY <1>51, <1>fld, <1>val, <1>kinds
        DEF SavedFields, Suspend, Answer, Statuses, ResultKinds, vars, sessionVars, worldVars,
      ownerVars, localVars
  <2>2. WorldFields'
    BY <1>51, <1>fld, <1>lim
        DEF WorldFields, Suspend, Answer, Statuses, ResultKinds, vars, sessionVars, worldVars,
      ownerVars, localVars
  <2>3. OwnerFields'
    BY <1>51, <1>fld, <1>res, <1>rcv, <1>lim
        DEF OwnerFields, Suspend, Answer, Statuses, ResultKinds, vars, sessionVars, worldVars,
      ownerVars, localVars
  <2>4. LocalFields'
    BY <1>51, <1>fld, <1>lim, <1>req, <1>val, <1>kinds, <1>ans
        DEF LocalFields, Suspend, Answer, Statuses, ResultKinds, vars, sessionVars, worldVars,
      ownerVars, localVars
  <2> QED BY <2>1, <2>2, <2>3, <2>4 DEF FieldsInv
<1>52. CASE StopUnconfirmed
  <2>1. SavedFields'
    BY <1>52, <1>fld, <1>val, <1>kinds
        DEF SavedFields, StopUnconfirmed, RecordReceipt, Saved, GoTo, UnchangedButTurns,
      Statuses, vars, sessionVars, worldVars, ownerVars, localVars
  <2>2. WorldFields'
    BY <1>52, <1>fld, <1>lim
        DEF WorldFields, StopUnconfirmed, RecordReceipt, Saved, GoTo, UnchangedButTurns,
      Statuses, vars, sessionVars, worldVars, ownerVars, localVars
  <2>3. OwnerFields'
    BY <1>52, <1>fld, <1>res, <1>rcv, <1>lim
        DEF OwnerFields, StopUnconfirmed, RecordReceipt, Saved, GoTo, UnchangedButTurns,
      Statuses, vars, sessionVars, worldVars, ownerVars, localVars
  <2>4. LocalFields'
    BY <1>52, <1>fld, <1>lim, <1>req, <1>val, <1>kinds, <1>ans
        DEF LocalFields, StopUnconfirmed, RecordReceipt, Saved, GoTo, UnchangedButTurns,
      Statuses, vars, sessionVars, worldVars, ownerVars, localVars
  <2> QED BY <2>1, <2>2, <2>3, <2>4 DEF FieldsInv
<1>53. CASE Invoke
  <2>1. SavedFields'
    BY <1>53, <1>fld, <1>val, <1>kinds
    DEF SavedFields, Invoke, Request, vars, sessionVars, worldVars, ownerVars, localVars
  <2>2. WorldFields'
    BY <1>53, <1>fld, <1>lim
    DEF WorldFields, Invoke, Request, vars, sessionVars, worldVars, ownerVars, localVars
  <2>3. OwnerFields'
    BY <1>53, <1>fld, <1>res, <1>rcv, <1>lim
    DEF OwnerFields, Invoke, Request, vars, sessionVars, worldVars, ownerVars, localVars
  <2>4. LocalFields'
    <3>1. /\ attention' \in BOOLEAN /\ texts' \in BOOLEAN /\ published \in Nat
          /\ resolved \in SUBSET Calls
      BY <1>53, <1>fld DEF Invoke, OwnerFields, LocalFields
    <3>2. (published = 0 /\ ~texts') \in BOOLEAN
      OBVIOUS
    <3>3. request' \in Request
      BY <1>53, <1>rcv, <3>1, <3>2 DEF Invoke, Request
    <3> QED BY <1>53, <1>fld, <3>3 DEF Invoke, LocalFields, localVars
  <2> QED BY <2>1, <2>2, <2>3, <2>4 DEF FieldsInv
<1>54. CASE ReceiveControl
  <2>1. SavedFields'
    BY <1>54, <1>fld, <1>val, <1>kinds
        DEF SavedFields, ReceiveControl, NoResult, ResultKinds, vars, sessionVars, worldVars,
      ownerVars, localVars
  <2>2. WorldFields'
    BY <1>54, <1>fld, <1>lim
        DEF WorldFields, ReceiveControl, NoResult, ResultKinds, vars, sessionVars, worldVars,
      ownerVars, localVars
  <2>3. OwnerFields'
    <3>1. received' \in Seq(Controls)
      <4>1. CASE received' = received
        BY <4>1, <1>fld DEF OwnerFields
      <4>2. CASE received' = Append(received, result.control)
        BY <4>2, <1>fld, <1>res DEF OwnerFields
      <4> QED BY <1>54, <4>1, <4>2 DEF ReceiveControl
    <3>2. attention' \in BOOLEAN
      BY <1>54, <1>fld DEF ReceiveControl, OwnerFields
    <3> QED BY <1>54, <1>fld, <3>1, <3>2 DEF ReceiveControl, OwnerFields, localVars
  <2>4. LocalFields'
    BY <1>54, <1>fld, <1>lim, <1>req, <1>val, <1>kinds, <1>ans
        DEF LocalFields, ReceiveControl, NoResult, ResultKinds, vars, sessionVars, worldVars,
      ownerVars, localVars
  <2> QED BY <2>1, <2>2, <2>3, <2>4 DEF FieldsInv
<1>55. CASE Resolve
  <2>1. SavedFields'
    BY <1>55, <1>fld, <1>val, <1>kinds
    DEF SavedFields, Resolve, vars, sessionVars, worldVars, ownerVars, localVars
  <2>2. WorldFields'
    BY <1>55, <1>fld, <1>cur, <1>rcv, <1>lim
        DEF WorldFields, Resolve, vars, sessionVars, worldVars, ownerVars, localVars,
      RunningPoints, ApprovedPoints
  <2>3. OwnerFields'
    BY <1>55, <1>fld, <1>res, <1>rcv, <1>lim
    DEF OwnerFields, Resolve, vars, sessionVars, worldVars, ownerVars, localVars
  <2>4. LocalFields'
    BY <1>55, <1>fld, <1>lim, <1>req, <1>val, <1>kinds, <1>ans
    DEF LocalFields, Resolve, vars, sessionVars, worldVars, ownerVars, localVars
  <2> QED BY <2>1, <2>2, <2>3, <2>4 DEF FieldsInv
<1>56. CASE ReceivePause
  <2>1. SavedFields'
    BY <1>56, <1>fld, <1>val, <1>kinds
        DEF SavedFields, ReceivePause, NoResult, ResultKinds, vars, sessionVars, worldVars,
      ownerVars, localVars
  <2>2. WorldFields'
    BY <1>56, <1>fld, <1>lim
        DEF WorldFields, ReceivePause, NoResult, ResultKinds, vars, sessionVars, worldVars,
      ownerVars, localVars
  <2>3. OwnerFields'
    BY <1>56, <1>fld, <1>res, <1>rcv, <1>lim
        DEF OwnerFields, ReceivePause, NoResult, ResultKinds, vars, sessionVars, worldVars,
      ownerVars, localVars
  <2>4. LocalFields'
    BY <1>56, <1>fld, <1>lim, <1>req, <1>val, <1>kinds, <1>ans
        DEF LocalFields, ReceivePause, NoResult, ResultKinds, vars, sessionVars, worldVars,
      ownerVars, localVars
  <2> QED BY <2>1, <2>2, <2>3, <2>4 DEF FieldsInv
<1>57. CASE DeferCompletion
  <2>1. SavedFields'
    BY <1>57, <1>fld, <1>val, <1>kinds
        DEF SavedFields, DeferCompletion, NoResult, ResultKinds, Statuses, vars, sessionVars,
      worldVars, ownerVars, localVars
  <2>2. WorldFields'
    BY <1>57, <1>fld, <1>lim
        DEF WorldFields, DeferCompletion, NoResult, ResultKinds, Statuses, vars, sessionVars,
      worldVars, ownerVars, localVars
  <2>3. OwnerFields'
    BY <1>57, <1>fld, <1>res, <1>rcv, <1>lim
        DEF OwnerFields, DeferCompletion, NoResult, ResultKinds, Statuses, vars, sessionVars,
      worldVars, ownerVars, localVars
  <2>4. LocalFields'
    BY <1>57, <1>fld, <1>lim, <1>req, <1>val, <1>kinds, <1>ans
        DEF LocalFields, DeferCompletion, NoResult, ResultKinds, Statuses, vars, sessionVars,
      worldVars, ownerVars, localVars
  <2> QED BY <2>1, <2>2, <2>3, <2>4 DEF FieldsInv
<1>58. CASE TerminateSession
  <2>1. SavedFields'
    BY <1>58, <1>fld, <1>val, <1>kinds
        DEF SavedFields, TerminateSession, NoResult, ResultKinds, Intervene, Statuses, vars,
      sessionVars, worldVars, ownerVars, localVars
  <2>2. WorldFields'
    BY <1>58, <1>fld, <1>lim
        DEF WorldFields, TerminateSession, NoResult, ResultKinds, Intervene, Statuses, vars,
      sessionVars, worldVars, ownerVars, localVars
  <2>3. OwnerFields'
    BY <1>58, <1>fld, <1>res, <1>rcv, <1>lim
        DEF OwnerFields, TerminateSession, NoResult, ResultKinds, Intervene, Statuses, vars,
      sessionVars, worldVars, ownerVars, localVars
  <2>4. LocalFields'
    BY <1>58, <1>fld, <1>lim, <1>req, <1>val, <1>kinds, <1>ans
        DEF LocalFields, TerminateSession, NoResult, ResultKinds, Intervene, Statuses, vars,
      sessionVars, worldVars, ownerVars, localVars
  <2> QED BY <2>1, <2>2, <2>3, <2>4 DEF FieldsInv
<1>59. CASE ReceiveText
  <2>1. SavedFields'
    BY <1>59, <1>fld, <1>val, <1>kinds
        DEF SavedFields, ReceiveText, Intervene, vars, sessionVars, worldVars, ownerVars,
      localVars
  <2>2. WorldFields'
    BY <1>59, <1>fld, <1>lim
        DEF WorldFields, ReceiveText, Intervene, vars, sessionVars, worldVars, ownerVars,
      localVars
  <2>3. OwnerFields'
    BY <1>59, <1>fld, <1>res, <1>rcv, <1>lim
        DEF OwnerFields, ReceiveText, Intervene, vars, sessionVars, worldVars, ownerVars,
      localVars
  <2>4. LocalFields'
    BY <1>59, <1>fld, <1>lim, <1>req, <1>val, <1>kinds, <1>ans
        DEF LocalFields, ReceiveText, Intervene, vars, sessionVars, worldVars, ownerVars,
      localVars
  <2> QED BY <2>1, <2>2, <2>3, <2>4 DEF FieldsInv
<1>60. CASE PauseIdle
  <2>1. SavedFields'
    BY <1>60, <1>fld, <1>val, <1>kinds
    DEF SavedFields, PauseIdle, Intervene, vars, sessionVars, worldVars, ownerVars, localVars
  <2>2. WorldFields'
    BY <1>60, <1>fld, <1>lim
    DEF WorldFields, PauseIdle, Intervene, vars, sessionVars, worldVars, ownerVars, localVars
  <2>3. OwnerFields'
    BY <1>60, <1>fld, <1>res, <1>rcv, <1>lim
    DEF OwnerFields, PauseIdle, Intervene, vars, sessionVars, worldVars, ownerVars, localVars
  <2>4. LocalFields'
    BY <1>60, <1>fld, <1>lim, <1>req, <1>val, <1>kinds, <1>ans
    DEF LocalFields, PauseIdle, Intervene, vars, sessionVars, worldVars, ownerVars, localVars
  <2> QED BY <2>1, <2>2, <2>3, <2>4 DEF FieldsInv
<1>61. CASE Interrupt
  <2>1. SavedFields'
    BY <1>61, <1>fld, <1>val, <1>kinds
    DEF SavedFields, Interrupt, Intervene, vars, sessionVars, worldVars, ownerVars, localVars
  <2>2. WorldFields'
    BY <1>61, <1>fld, <1>lim
    DEF WorldFields, Interrupt, Intervene, vars, sessionVars, worldVars, ownerVars, localVars
  <2>3. OwnerFields'
    BY <1>61, <1>fld, <1>res, <1>rcv, <1>lim
    DEF OwnerFields, Interrupt, Intervene, vars, sessionVars, worldVars, ownerVars, localVars
  <2>4. LocalFields'
    BY <1>61, <1>fld, <1>lim, <1>req, <1>val, <1>kinds, <1>ans
    DEF LocalFields, Interrupt, Intervene, vars, sessionVars, worldVars, ownerVars, localVars
  <2> QED BY <2>1, <2>2, <2>3, <2>4 DEF FieldsInv
<1>62. CASE Crash
  <2>1. SavedFields'
    BY <1>62, <1>fld, <1>val, <1>kinds
        DEF SavedFields, Crash, Return, NoResult, ResultKinds, vars, sessionVars, worldVars,
      ownerVars, localVars
  <2>2. WorldFields'
    BY <1>62, <1>fld, <1>lim
        DEF WorldFields, Crash, Return, NoResult, ResultKinds, vars, sessionVars, worldVars,
      ownerVars, localVars
  <2>3. OwnerFields'
    BY <1>62, <1>fld, <1>res, <1>rcv, <1>lim
        DEF OwnerFields, Crash, Return, NoResult, ResultKinds, vars, sessionVars, worldVars,
      ownerVars, localVars
  <2>4. LocalFields'
    BY <1>62, <1>ret, <1>req, <1>kinds, <1>ans DEF Crash
  <2> QED BY <2>1, <2>2, <2>3, <2>4 DEF FieldsInv
<1>63. CASE UNCHANGED vars
    BY <1>63, <1>fld DEF FieldsInv, SavedFields, WorldFields, OwnerFields, LocalFields, vars,
    sessionVars, worldVars, ownerVars, localVars
<1> QED
    BY <1>1, <1>2, <1>3, <1>4, <1>5, <1>6, <1>7, <1>8, <1>9, <1>10, <1>11, <1>12, <1>13,
    <1>14, <1>15, <1>16, <1>17, <1>18, <1>19, <1>20, <1>21, <1>22, <1>23, <1>24, <1>25, <1>26,
    <1>27, <1>28, <1>29, <1>30, <1>31, <1>32, <1>33, <1>34, <1>35, <1>36, <1>37, <1>38, <1>39,
    <1>40, <1>41, <1>42, <1>43, <1>44, <1>45, <1>46, <1>47, <1>48, <1>49, <1>50, <1>51, <1>52,
    <1>53, <1>54, <1>55, <1>56, <1>57, <1>58, <1>59, <1>60, <1>61, <1>62, <1>63 DEF Next,
    Serving, Owning

-----------------------------------------------------------------------------
(* What each step does to the history *)

\* The open calls of S are settled, those that ran otherwise than the rest.
Settles(ts, us, S, started, unstarted) ==
  /\ S \subseteq OpenIn(ts) /\ AskedIn(us) = AskedIn(ts)
  /\ OpenIn(us) = OpenIn(ts) \ S /\ RunningIn(us) = RunningIn(ts) \ S
  /\ \A c \in AskedIn(ts) :
       /\ KindIn(us, c) = KindIn(ts, c)
       /\ ReceiptIn(us, c) = IF c \notin S THEN ReceiptIn(ts, c)
                             ELSE IF c \in RunningIn(ts) THEN started ELSE unstarted

\* The turns keep their calls, and none is added.
KeepsTurns == Len(turns') = Len(turns) /\ \A m \in 1..Len(turns) : turns'[m].calls = turns[m].calls

\* Nobody but a new Session changes the Agent.
LEMMA ProfileStays ==
  ASSUME [Next]_vars
  PROVE  profile' = profile
<1>1. CASE Owning
  BY <1>1 DEF Owning, Invoke, ReceiveControl, Resolve, ReceivePause, DeferCompletion,
    TerminateSession, ReceiveText, PauseIdle, Interrupt, Crash, Return, localVars
<1>2. CASE Serving
  <2>1. CASE \/ ReturnSaved \/ ReturnAnswer \/ Resume \/ AcceptNotices \/ ResumeWithout
             \/ AcknowledgesOther \/ ReleaseControl \/ ResumeRaises \/ ResumeUnanswered
             \/ ResumeAnswered \/ OperationAllowed \/ OperationDenied \/ RunApproved
             \/ RecordApproved \/ RecoverTurn \/ AcknowledgeRecovered \/ RecoveryEnds
             \/ LoopFails \/ Yield \/ CompactHistory \/ RequestModel \/ ReplyMalformed
    BY <2>1 DEF ReturnSaved, ReturnAnswer, Resume, AcceptNotices, ResumeWithout,
      AcknowledgesOther, ReleaseControl, ResumeRaises, ResumeUnanswered, ResumeAnswered,
      OperationAllowed, OperationDenied, RunApproved, RecordApproved, RecoverTurn,
      AcknowledgeRecovered, RecoveryEnds, LoopFails, Yield, CompactHistory, RequestModel,
      ReplyMalformed, Return, Answer, GoTo, Visit, Fail, NoteFailure
  <2>2. CASE \/ RequestFails \/ AcceptBatch \/ RefuseBatch \/ RecordRefusal \/ RefuseCall
             \/ CallTimesOut \/ StartCall \/ RequestReview \/ ReviewUnpaid \/ ReviewAllows
             \/ ReviewInvalidated \/ PauseApproval \/ Execute \/ ToolRaises \/ RecordSuccess
    BY <2>2 DEF RequestFails, AcceptBatch, RefuseBatch, RecordRefusal, RefuseCall,
      CallTimesOut, StartCall, StartRunning, RequestReview, ReviewUnpaid, ReviewAllows,
      ReviewInvalidated, PauseApproval, Execute, ToolRaises, RecordSuccess, RecordResult,
      Answer, GoTo, Visit, Fail, NoteFailure
  <2>3. CASE \/ RecordFailure \/ AcknowledgeCall \/ BatchEnds \/ AcceptControl
             \/ RecordControlReceipt \/ ReturnControl \/ FinishRefused \/ FinishAccepted
             \/ FinishFails \/ DeferFinish \/ CompleteSession \/ SettleFailing \/ FailSession
             \/ Suspend \/ StopUnconfirmed
    BY <2>3 DEF RecordFailure, RecordResult, AcknowledgeCall, BatchEnds, AcceptControl,
      RecordControlReceipt, ReturnControl, FinishRefused, FinishAccepted, FinishFails,
      DeferFinish, CompleteSession, SettleFailing, FailSession, Suspend, StopUnconfirmed,
      Answer, GoTo, Visit, Fail, NoteFailure
  <2> QED BY <1>2, <2>1, <2>2, <2>3 DEF Serving
<1>3. CASE UNCHANGED vars
  BY <1>3 DEF vars, localVars
<1> QED BY <1>1, <1>2, <1>3 DEF Next

\* What is told is what is settled.
LEMMA TellsSettles ==
  ASSUME NEW ts, NEW us, NEW S, NEW told, NEW started, NEW unstarted, Tells(ts, us, S, told),
         \A c \in S : told[c] = IF c \in RunningIn(ts) THEN started ELSE unstarted
  PROVE  Settles(ts, us, S, started, unstarted)
BY DEF Tells, Settles

\* A call of the last turn gets its receipt.
LEMMA CallGets ==
  ASSUME TypesInv, NEW c \in OpenIn(turns), c[1] = Len(turns),
         NEW receipt \in Receipts \ {"none"}, NEW us,
         SettlesCall(turns, us, Len(turns), c[2], receipt)
  PROVE  /\ TurnsTyped(us, CallKinds) /\ Len(us) = Len(turns)
         /\ \A m \in 1..Len(turns) : us[m].calls = turns[m].calls
         /\ Settles(turns, us, {c}, receipt, receipt)
<1>3. TurnsTyped(turns, CallKinds)
  BY DEF TypesInv
<1>4. /\ TurnsTyped(us, CallKinds) /\ Len(us) = Len(turns)
      /\ \A m \in 1..Len(turns) : us[m].calls = turns[m].calls
      /\ Tells(turns, us, {c}, Told({c}, receipt))
  BY <1>3, CallSettled
<1>5. \A d \in {c} : Told({c}, receipt)[d] = receipt
  BY DEF Told
<1> QED BY <1>4, <1>5, TellsSettles

\* The call the point is about gets its receipt.
LEMMA CurrentGets ==
  ASSUME TypesInv, Current \in OpenIn(turns), NEW receipt \in Receipts \ {"none"}, NEW us,
         SettlesCall(turns, us, Len(turns), index, receipt)
  PROVE  /\ TurnsTyped(us, CallKinds) /\ Len(us) = Len(turns)
         /\ \A m \in 1..Len(turns) : us[m].calls = turns[m].calls
         /\ Settles(turns, us, {Current}, receipt, receipt)
<1>1. Current[1] = Len(turns) /\ Current[2] = index
  BY DEF Current, CallAt
<1>2. SettlesCall(turns, us, Len(turns), Current[2], receipt)
  BY <1>1
<1> QED BY <1>1, <1>2, CallGets

\* The open calls of the last turn get their receipts.
LEMMA LastSettles ==
  ASSUME TypesInv, NEW started \in Receipts \ {"none"},
         NEW unstarted \in Receipts \ {"none"}, NEW us, us = SettleLast(started, unstarted)
  PROVE  /\ TurnsTyped(us, CallKinds) /\ Len(us) = Len(turns)
         /\ \A m \in 1..Len(turns) : us[m].calls = turns[m].calls
         /\ Settles(turns, us, OpenOf(turns, {Len(turns)}), started, unstarted)
<1>1. /\ TurnsTyped(us, CallKinds) /\ Len(us) = Len(turns)
      /\ \A m \in 1..Len(turns) : us[m].calls = turns[m].calls
      /\ Tells(turns, us, OpenOf(turns, {Len(turns)}), ToldOpen(turns, started, unstarted))
  <2>1. TurnsTyped(turns, CallKinds)
    BY DEF TypesInv
  <2> QED BY <2>1, LastSettled
<1>2. \A c \in OpenOf(turns, {Len(turns)}) : ToldOpen(turns, started, unstarted)[c] =
        IF c \in RunningIn(turns) THEN started ELSE unstarted
  BY DEF ToldOpen, OpenOf
<1> QED BY <1>1, <1>2, TellsSettles

\* What the steps that give one receipt to the current call tell.
LEMMA ReceiptGiven ==
  ASSUME IInv, NEW receipt \in Receipts \ {"none"}, Current \in OpenIn(turns), [Next]_vars,
         SettlesCall(turns, turns', Len(turns), index, receipt)
  PROVE  /\ TurnsTyped(turns, CallKinds)' /\ KeepsTurns
         /\ Settles(turns, turns', {Current}, receipt, receipt)
<1>1. TypesInv /\ CallKinds' = CallKinds
  BY ProfileStays DEF IInv, CallKinds
<1>2. /\ TurnsTyped(turns', CallKinds) /\ Len(turns') = Len(turns)
      /\ \A m \in 1..Len(turns) : turns'[m].calls = turns[m].calls
      /\ Settles(turns, turns', {Current}, receipt, receipt)
  BY <1>1, CurrentGets
<1> QED BY <1>1, <1>2 DEF KeepsTurns

\* What the steps that settle the last turn tell.
LEMMA LastGiven ==
  ASSUME IInv, NEW started \in Receipts \ {"none"}, NEW unstarted \in Receipts \ {"none"},
         [Next]_vars, turns' = SettleLast(started, unstarted)
  PROVE  /\ TurnsTyped(turns, CallKinds)' /\ KeepsTurns
         /\ Settles(turns, turns', OpenOf(turns, {Len(turns)}), started, unstarted)
<1>1. TypesInv
  BY DEF IInv
<1>3. CallKinds' = CallKinds
  BY ProfileStays DEF CallKinds
<1>2. /\ TurnsTyped(turns', CallKinds) /\ Len(turns') = Len(turns)
      /\ \A m \in 1..Len(turns) : turns'[m].calls = turns[m].calls
      /\ Settles(turns, turns', OpenOf(turns, {Len(turns)}), started, unstarted)
  BY <1>1, LastSettles
<1> QED BY <1>2, <1>3 DEF KeepsTurns

\* What holds of the turns when a step adds to them nothing but notices.
LEMMA Noticed ==
  ASSUME IInv, [Next]_vars, turns' \in Seq(TurnRecords), Len(turns') >= Len(turns),
         \A m \in 1..Len(turns) : turns'[m] = turns[m],
         \A m \in 1..Len(turns') : m > Len(turns) => turns'[m] = Notice
  PROVE  TurnsTyped(turns, CallKinds)' /\ Asks(turns, turns', {})
<1>1. TurnsTyped(turns, CallKinds) /\ CallKinds' = CallKinds
  BY ProfileStays DEF IInv, TypesInv, CallKinds
<1>2. TurnsTyped(turns', CallKinds) /\ Asks(turns, turns', {})
  BY <1>1, NoticesQuiet
<1> QED BY <1>1, <1>2

\* One notice more.
LEMMA OneNotice ==
  ASSUME IInv, [Next]_vars, turns' = Append(turns, Notice)
  PROVE  /\ TurnsTyped(turns, CallKinds)' /\ Asks(turns, turns', {})
         /\ Len(turns') = Len(turns) + 1
<1>1. TurnsTyped(turns, CallKinds) /\ CallKinds' = CallKinds
  BY ProfileStays DEF IInv, TypesInv, CallKinds
<1>2. /\ TurnsTyped(Append(turns, Notice), CallKinds) /\ Asks(turns, Append(turns, Notice), {})
      /\ Len(Append(turns, Notice)) = Len(turns) + 1
  BY <1>1, NoticeQuiet
<1> QED BY <1>1, <1>2

\* The history stays.
LEMMA SameTurns ==
  ASSUME IInv, [Next]_vars, turns' = turns
  PROVE  /\ TurnsTyped(turns, CallKinds)' /\ KeepsTurns /\ LastTurn' = LastTurn
         /\ Asks(turns, turns', {})
<1>1. TurnsTyped(turns, CallKinds) /\ CallKinds' = CallKinds
  BY ProfileStays DEF IInv, TypesInv, CallKinds
<1> QED BY <1>1, NothingTold DEF KeepsTurns, LastTurn

\* What is settled and followed by a notice.
LEMMA SettlesQuiet ==
  ASSUME NEW ts, NEW ms, NEW us, NEW S, NEW started, NEW unstarted,
         Settles(ts, ms, S, started, unstarted), Asks(ms, us, {})
  PROVE  Settles(ts, us, S, started, unstarted)
BY DEF Settles, Asks

\* Suspend settles the last turn and adds a notice.
LEMMA SuspendGives ==
  ASSUME IInv, [Next]_vars, Suspend
  PROVE  /\ TurnsTyped(turns, CallKinds)' /\ Len(turns') = Len(turns) + 1
         /\ Settles(turns, turns', OpenOf(turns, {Len(turns)}), "interrupted", "notExecuted")
<1> DEFINE ms == SettleLast("interrupted", "notExecuted")
<1>1. TypesInv /\ CallKinds' = CallKinds
  BY ProfileStays DEF IInv, CallKinds
<1>2. "interrupted" \in Receipts \ {"none"} /\ "notExecuted" \in Receipts \ {"none"}
  BY DEF Receipts
<1>3. /\ TurnsTyped(ms, CallKinds) /\ Len(ms) = Len(turns)
      /\ Settles(turns, ms, OpenOf(turns, {Len(turns)}), "interrupted", "notExecuted")
  BY <1>1, <1>2, LastSettles
<1>4. turns' = Append(ms, Notice)
  BY DEF Suspend
<1> HIDE DEF ms
<1>5. /\ TurnsTyped(Append(ms, Notice), CallKinds) /\ Asks(ms, Append(ms, Notice), {})
      /\ Len(Append(ms, Notice)) = Len(turns) + 1
  BY <1>3, NoticeQuiet
<1>6. Settles(turns, Append(ms, Notice), OpenOf(turns, {Len(turns)}), "interrupted", "notExecuted")
  BY <1>3, <1>5, SettlesQuiet
<1> QED BY <1>1, <1>4, <1>5, <1>6

\* TerminateSession settles every turn and adds a notice.
LEMMA TerminateGives ==
  ASSUME IInv, [Next]_vars, TerminateSession
  PROVE  /\ TurnsTyped(turns, CallKinds)' /\ Len(turns') = Len(turns) + 1
         /\ Settles(turns, turns', OpenIn(turns), "notExecuted", "notExecuted")
<1> DEFINE ms == [n \in DOMAIN turns |-> SettleAll(turns[n], "notExecuted", "notExecuted")]
<1>1. TurnsTyped(turns, CallKinds) /\ CallKinds' = CallKinds
  BY ProfileStays DEF IInv, TypesInv, CallKinds
<1>2. "notExecuted" \in Receipts \ {"none"}
  BY DEF Receipts
<1>3. SettlesTurns(turns, ms, 1..Len(turns), "notExecuted", "notExecuted")
  <2>1. DOMAIN turns = 1..Len(turns)
    BY <1>1, CallsIn
  <2> QED BY <2>1 DEF SettlesTurns
<1>4. turns' = Append(ms, Notice)
  BY DEF TerminateSession
<1> HIDE DEF ms
<1>5. /\ TurnsTyped(Append(ms, Notice), CallKinds) /\ Len(Append(ms, Notice)) = Len(turns) + 1
      /\ Tells(turns, Append(ms, Notice), OpenIn(turns), ToldOpen(turns, "notExecuted", "notExecuted"))
  BY <1>1, <1>2, <1>3, AllSettledNoted
<1>6. \A c \in OpenIn(turns) : ToldOpen(turns, "notExecuted", "notExecuted")[c] =
        IF c \in RunningIn(turns) THEN "notExecuted" ELSE "notExecuted"
  BY DEF ToldOpen
<1>7. Settles(turns, Append(ms, Notice), OpenIn(turns), "notExecuted", "notExecuted")
  BY <1>5, <1>6, TellsSettles
<1> QED BY <1>1, <1>4, <1>5, <1>7

\* What the running call of a turn that is recovered is told.
Recovered(n) ==
  IF turns[n].running # 0 /\ materials[<<n, turns[n].running>>] = "bound"
  THEN "registered" ELSE "unknown"

\* RecoverTurn settles the turn it is at.
LEMMA RecoverGives ==
  ASSUME IInv, [Next]_vars, RecoverTurn
  PROVE  /\ TurnsTyped(turns, CallKinds)' /\ KeepsTurns /\ index \in 1..Len(turns)
         /\ Complete(turns[index]) <=> OpenOf(turns, {index}) = {}
         /\ Settles(turns, turns', OpenOf(turns, {index}), Recovered(index), "notExecuted")
<1>1. TurnsTyped(turns, CallKinds) /\ CallKinds' = CallKinds
  BY ProfileStays DEF IInv, TypesInv, CallKinds
<1>2. index \in 1..Len(turns)
  <2>1. index \in 1..(Len(turns) + 1) /\ index <= Len(turns) /\ Len(turns) \in Nat
    BY <1>1, CallsIn DEF IInv, WholeInv, RecoverTurn
  <2> QED BY <2>1
<1>3. Recovered(index) \in Receipts \ {"none"} /\ "notExecuted" \in Receipts \ {"none"}
  BY DEF Receipts, Recovered
<1>4. Complete(turns[index]) <=> OpenOf(turns, {index}) = {}
  <2>1. turns[index].receipts \in Seq(Receipts) /\ Len(turns[index].receipts) = Len(turns[index].calls)
    <3>1. turns[index] \in TurnRecords /\ TurnTyped(turns[index], index, CallKinds)
      BY <1>1, <1>2 DEF TurnsTyped
    <3> QED BY <3>1 DEF TurnRecords, TurnTyped
  <2>2. DOMAIN turns[index].receipts = 1..Len(turns[index].calls)
    BY <2>1
  <2>3. ASSUME NEW i \in 1..Len(turns[index].calls)
        PROVE  <<index, i>> \in OpenIn(turns) <=> turns[index].receipts[i] = "none"
    <3>1. <<index, i>> \in AskedIn(turns)
      BY <1>1, <1>2, CallsIn
    <3>2. ReceiptIn(turns, <<index, i>>) = turns[index].receipts[i]
      BY <1>1, <3>1, CallsIn
    <3> QED BY <3>1, <3>2 DEF OpenIn
  <2>4. ASSUME NEW c \in OpenIn(turns), c[1] = index
        PROVE  c[2] \in 1..Len(turns[index].calls) /\ c = <<index, c[2]>>
    <3>1. c \in AskedIn(turns) /\ c \in Calls
      BY <1>1, CallsIn DEF OpenIn
    <3> QED BY <1>1, <2>4, <3>1, CallsIn DEF Calls
  <2>5. ASSUME NEW i \in 1..Len(turns[index].calls), turns[index].receipts[i] = "none"
        PROVE  OpenOf(turns, {index}) # {}
    <3>1. <<index, i>> \in OpenIn(turns) /\ <<index, i>>[1] = index
      BY <2>3, <2>5
    <3>2. <<index, i>> \in OpenOf(turns, {index})
      BY <3>1 DEF OpenOf
    <3> QED BY <3>2
  <2>6. ASSUME NEW c \in OpenOf(turns, {index}) PROVE ~Complete(turns[index])
    <3>1. c \in OpenIn(turns) /\ c[1] = index
      BY DEF OpenOf
    <3> QED BY <2>2, <2>3, <2>4, <3>1 DEF Complete
  <2> QED BY <2>2, <2>5, <2>6 DEF Complete
<1>5. CASE Complete(turns[index])
  <2>1. turns' = turns
    BY <1>5 DEF RecoverTurn
  <2>2. Settles(turns, turns, {}, Recovered(index), "notExecuted")
    BY DEF Settles
  <2> QED BY <1>1, <1>2, <1>4, <1>5, <2>1, <2>2 DEF KeepsTurns
<1>6. CASE ~Complete(turns[index])
  <2>1. turns' = [turns EXCEPT ![index] = SettleAll(@, Recovered(index), "notExecuted")]
    BY <1>6 DEF RecoverTurn, RecoveredTurn, Recovered
  <2>2. SettlesTurns(turns, turns', {index}, Recovered(index), "notExecuted")
    <3>1. DOMAIN turns = 1..Len(turns) /\ turns \in Seq(TurnRecords)
      BY <1>1, CallsIn DEF TurnsTyped
    <3> QED BY <1>2, <2>1, <3>1 DEF SettlesTurns
  <2>3. {index} \in SUBSET (1..Len(turns))
    BY <1>2
  <2>4. /\ TurnsTyped(turns', CallKinds) /\ Len(turns') = Len(turns)
        /\ \A m \in 1..Len(turns) : turns'[m].calls = turns[m].calls
        /\ Tells(turns, turns', OpenOf(turns, {index}), ToldOpen(turns, Recovered(index), "notExecuted"))
    BY <1>1, <1>3, <2>2, <2>3, SettleAllTells
  <2>5. \A c \in OpenOf(turns, {index}) : ToldOpen(turns, Recovered(index), "notExecuted")[c] =
          IF c \in RunningIn(turns) THEN Recovered(index) ELSE "notExecuted"
    BY DEF ToldOpen, OpenOf
  <2>6. Settles(turns, turns', OpenOf(turns, {index}), Recovered(index), "notExecuted")
    BY <2>4, <2>5, TellsSettles
  <2> QED BY <1>1, <1>2, <1>4, <2>4, <2>6 DEF KeepsTurns
<1> QED BY <1>5, <1>6

\* A control that resumes gets the receipt it lacks.
LEMMA ControlGives ==
  ASSUME IInv, [Next]_vars, control # NoControl, MayReceiptControl, ReceiptControl
  PROVE  /\ TurnsTyped(turns, CallKinds)' /\ KeepsTurns
         /\ Settles(turns, turns', {control.call} \intersect OpenIn(turns), "accepted", "accepted")
<1>1. TurnsTyped(turns, CallKinds) /\ CallKinds' = CallKinds /\ TypesInv
  BY ProfileStays DEF IInv, TypesInv, CallKinds
<1>2. control.call \in AskedIn(turns) /\ ReceiptOf(control.call) = ReceiptIn(turns, control.call)
  BY StateOfHistory DEF IInv, ControlInv, Names
<1>3. CASE ReceiptOf(control.call) = "none"
  <2>1. control.call \in OpenIn(turns) /\ control.call[1] = Len(turns)
    BY <1>2, <1>3 DEF OpenIn, MayReceiptControl
  <2>2. SettlesCall(turns, turns', Len(turns), control.call[2], "accepted")
    BY <1>3 DEF ReceiptControl, SettlesCall
  <2>3. "accepted" \in Receipts \ {"none"}
    BY DEF Receipts
  <2>4. /\ TurnsTyped(turns', CallKinds) /\ Len(turns') = Len(turns)
        /\ \A m \in 1..Len(turns) : turns'[m].calls = turns[m].calls
        /\ Settles(turns, turns', {control.call}, "accepted", "accepted")
    BY <1>1, <2>1, <2>2, <2>3, CallGets
  <2>5. {control.call} \intersect OpenIn(turns) = {control.call}
    BY <2>1
  <2> QED BY <1>1, <2>4, <2>5 DEF KeepsTurns
<1>4. CASE ReceiptOf(control.call) # "none"
  <2>1. turns' = turns
    BY <1>4 DEF ReceiptControl
  <2>2. {control.call} \intersect OpenIn(turns) = {}
    BY <1>2, <1>4 DEF OpenIn
  <2>3. Settles(turns, turns, {}, "accepted", "accepted")
    BY DEF Settles
  <2> QED BY <1>1, <2>1, <2>2, <2>3 DEF KeepsTurns
<1> QED BY <1>3, <1>4

\* What ResumesOperation finds.
LEMMA OperationWaits ==
  ASSUME IInv, ResumesOperation
  PROVE  /\ at = "control" /\ control # NoControl /\ control.action = "approve"
         /\ control.call \in OpenIn(turns) /\ control.call[1] = Len(turns)
         /\ KindIn(turns, control.call) = "guarded" /\ RunningIn(turns) = {}
         /\ control.call \in AskedIn(turns) /\ control.call = <<Len(turns), control.call[2]>>
         /\ Len(turns) \in 1..Len(turns) /\ control.call[2] \in 1..Len(turns[Len(turns)].calls)
         /\ turns[Len(turns)].receipts[control.call[2]] = "none"
<1>1. /\ at = "control" /\ control # NoControl /\ control.action = "approve"
  BY DEF ResumesOperation, AnswersControl, ResumingControl
<1>2. control.call \in OpenIn(turns) /\ control.call[1] = Len(turns) /\ RunningIn(turns) = {}
  BY <1>1 DEF IInv, ApprovalInv
<1>3. Names(turns, control)
  BY <1>1 DEF IInv, ControlInv
<1>4. KindIn(turns, control.call) = "guarded"
  <2>1. KindIn(turns, control.call) \in AllCallKinds
    BY <1>3, CallsIn, ProfileTyped DEF IInv, TypesInv, FieldsInv, SavedFields, Names
  <2>2. KindIn(turns, control.call) # "approve"
    BY <2>1 DEF AllCallKinds, ControlKinds
  <2> QED BY <1>1, <1>3, <2>2 DEF Names
<1>5. TurnsTyped(turns, CallKinds) /\ control.call \in AskedIn(turns)
  BY <1>2 DEF IInv, TypesInv, OpenIn
<1> QED BY <1>1, <1>2, <1>4, <1>5, LastTurnCalls

\* A denied operation did not run.
LEMMA DeniedGives ==
  ASSUME IInv, [Next]_vars, OperationDenied
  PROVE  /\ TurnsTyped(turns, CallKinds)' /\ KeepsTurns
         /\ Settles(turns, turns', {control.call}, "notExecuted", "notExecuted")
<1>1. TypesInv /\ CallKinds' = CallKinds
  BY ProfileStays DEF IInv, CallKinds
<1>2. control.call \in OpenIn(turns) /\ control.call[1] = Len(turns)
  BY OperationWaits DEF OperationDenied
<1>3. SettlesCall(turns, turns', Len(turns), control.call[2], "notExecuted")
  BY DEF OperationDenied, SettlesCall
<1>4. "notExecuted" \in Receipts \ {"none"}
  BY DEF Receipts
<1>5. /\ TurnsTyped(turns', CallKinds) /\ Len(turns') = Len(turns)
      /\ \A m \in 1..Len(turns) : turns'[m].calls = turns[m].calls
      /\ Settles(turns, turns', {control.call}, "notExecuted", "notExecuted")
  BY <1>1, <1>2, <1>3, <1>4, CallGets
<1> QED BY <1>1, <1>5 DEF KeepsTurns

\* An open call of the last turn is marked as running.
LEMMA MarkGives ==
  ASSUME IInv, [Next]_vars, NEW c \in OpenIn(turns), c[1] = Len(turns),
         RunsAt(turns, turns', Len(turns), c[2])
  PROVE  /\ TurnsTyped(turns, CallKinds)' /\ KeepsTurns
         /\ Marks(turns, turns', c)
<1>1. TurnsTyped(turns, CallKinds) /\ CallKinds' = CallKinds
  BY ProfileStays DEF IInv, TypesInv, CallKinds
<1>2. c \in AskedIn(turns)
  BY DEF OpenIn
<1>3. Len(turns) \in 1..Len(turns) /\ c[2] \in 1..Len(turns[Len(turns)].calls)
      /\ turns[Len(turns)].receipts[c[2]] = "none" /\ c = <<Len(turns), c[2]>>
  BY <1>1, <1>2, LastTurnCalls
<1>5. /\ TurnsTyped(turns', CallKinds) /\ Len(turns') = Len(turns)
      /\ \A m \in 1..Len(turns) : turns'[m].calls = turns[m].calls
      /\ Marks(turns, turns', <<Len(turns), c[2]>>)
  BY <1>1, <1>3, MarkRunning
<1> QED BY <1>1, <1>3, <1>5 DEF KeepsTurns

\* The reply asks for the calls of a new turn.
LEMMA ReplyGives ==
  ASSUME IInv, [Next]_vars, NEW accepted, SaveReply(accepted)
  PROVE  /\ TurnsTyped(turns, CallKinds)' /\ Len(turns') = Len(turns) + 1
         /\ \A m \in 1..Len(turns) : turns'[m].calls = turns[m].calls
         /\ Asks(turns, turns', AskedAfter(turns, turns'))
         /\ accepted => Acceptable(LastTurn'.calls)
         /\ Len(LastTurn'.calls) \in Nat \ {0}
<1>1. TurnsTyped(turns, CallKinds) /\ CallKinds' = CallKinds /\ CallKinds \in SUBSET AllCallKinds
      /\ profile.turns <= MaxTurns /\ profile.batch \in Nat /\ profile.batch <= MaxBatch
      /\ profile.turns \in Nat
  BY ProfileStays, ProfileTyped DEF IInv, TypesInv, FieldsInv, SavedFields, CallKinds
<1>2. PICK kinds \in Batches : /\ accepted => Acceptable(kinds)
                               /\ GrowsBy(turns, turns', kinds)
  BY DEF SaveReply, GrowsBy
<1>3. kinds \in Seq(CallKinds) /\ Len(kinds) \in Nat \ {0} /\ Len(kinds) <= MaxBatch
  <2>1. PICK n \in 1..profile.batch : kinds \in [1..n -> CallKinds]
    BY <1>2 DEF Batches
  <2>2. kinds \in Seq(CallKinds) /\ Len(kinds) = n
    BY <1>1, <2>1
  <2> QED BY <1>1, <2>1, <2>2, LimitsAssumption
<1>4. Len(turns) < MaxTurns
  BY <1>1, CallsIn, LimitsAssumption DEF SaveReply
<1>5. /\ TurnsTyped(turns', CallKinds) /\ Len(turns') = Len(turns) + 1
      /\ turns'[Len(turns')].calls = kinds
      /\ \A m \in 1..Len(turns) : turns'[m].calls = turns[m].calls
      /\ Asks(turns, turns', AskedAfter(turns, turns'))
  BY <1>1, <1>2, <1>3, <1>4, TurnAsks
<1> QED BY <1>1, <1>2, <1>3, <1>5 DEF LastTurn

\* The calls of the turn that waits for approval are settled but that one.
LEMMA PauseGives ==
  ASSUME IInv, [Next]_vars, PauseApproval
  PROVE  /\ TurnsTyped(turns, CallKinds)' /\ KeepsTurns
         /\ Current \in OpenIn(turns) /\ Current[1] = Len(turns) /\ KindIn(turns, Current) = "guarded"
         /\ Settles(turns, turns', OpenOf(turns, {Len(turns)}) \ {Current}, "notExecuted",
                    "notExecuted")
<1>1. TurnsTyped(turns, CallKinds) /\ CallKinds' = CallKinds /\ TypesInv
  BY ProfileStays DEF IInv, TypesInv, CallKinds
<1>2. Current \in OpenIn(turns) /\ Kind = KindIn(turns, Current) /\ RunningIn(turns) = {}
      /\ KindIn(turns, Current) = "guarded"
  <2>1. CASE AtCall({"guarded"})
    BY <2>1, AtCallOpen DEF AtCall, IInv, WholeInv
  <2>2. CASE at = "reviewing"
    <3>1. Current \in OpenIn(turns) /\ KindIn(turns, Current) = "guarded" /\ RunningIn(turns) = {}
      BY <2>2 DEF IInv, CurrentInv, WholeInv
    <3>2. Current \in AskedIn(turns)
      BY <3>1 DEF OpenIn
    <3> QED BY <1>1, <3>1, <3>2, CurrentTyped
  <2> QED BY <2>1, <2>2 DEF PauseApproval
<1>3. Current[1] = Len(turns) /\ Current[2] = index /\ Current \in AskedIn(turns)
  BY <1>2 DEF Current, CallAt, OpenIn
<1>4. Len(turns) \in 1..Len(turns) /\ index \in 1..Len(turns[Len(turns)].calls)
      /\ turns[Len(turns)].receipts[index] = "none" /\ Current = <<Len(turns), index>>
  BY <1>1, <1>2, <1>3, LastTurnCalls
<1>5. turns[Len(turns)].running = 0
  BY <1>1, <1>2, <1>4, RunningIsOpen
<1>6. PausesAt(turns, turns', Len(turns), index, "notExecuted")
  BY DEF PauseApproval, PausesAt
<1>7. "notExecuted" \in Receipts \ {"none"}
  BY DEF Receipts
<1>8. /\ TurnsTyped(turns', CallKinds) /\ Len(turns') = Len(turns)
      /\ \A m \in 1..Len(turns) : turns'[m].calls = turns[m].calls
      /\ Tells(turns, turns', OpenOf(turns, {Len(turns)}) \ {<<Len(turns), index>>},
               Told(OpenIn(turns), "notExecuted"))
  BY <1>1, <1>4, <1>5, <1>6, <1>7, PauseTells
<1>9. \A c \in OpenOf(turns, {Len(turns)}) \ {<<Len(turns), index>>} :
        Told(OpenIn(turns), "notExecuted")[c] =
          IF c \in RunningIn(turns) THEN "notExecuted" ELSE "notExecuted"
  BY DEF Told, OpenOf
<1>10. Settles(turns, turns', OpenOf(turns, {Len(turns)}) \ {<<Len(turns), index>>},
               "notExecuted", "notExecuted")
  BY <1>8, <1>9, TellsSettles
<1> QED BY <1>1, <1>2, <1>3, <1>4, <1>8, <1>10 DEF KeepsTurns

\* A call gets its receipt.
Given(c, receipt) ==
  /\ TurnsTyped(turns, CallKinds)' /\ KeepsTurns
  /\ c \in OpenIn(turns) /\ c \in AskedIn(turns) /\ c[1] = Len(turns) /\ c[2] = index
  /\ Settles(turns, turns', {c}, receipt, receipt)

\* What the steps that give the current call its receipt say.
LEMMA ReceiptSteps ==
  ASSUME IInv, [Next]_vars
  PROVE  /\ RefuseCall \/ ReviewInvalidated \/ FinishRefused => Given(Current, "rejected")
         /\ ToolRaises \/ RecordFailure => Given(Current, "failed")
         /\ RecordSuccess => Given(Current, "ok")
         /\ RecordControlReceipt \/ FinishAccepted => Given(Current, "accepted")
         /\ StopUnconfirmed => Given(Current, "unknown")
         /\ RecordApproved => \E receipt \in {"ok", "failed", "unknown"} :
              /\ Given(Current, receipt)
              /\ Visit(IF receipt = "unknown" THEN "failing" ELSE "recover", 1)
<1>1. TypesInv /\ CurrentInv /\ WholeInv
  BY DEF IInv
<1>2. ASSUME \/ RefuseCall \/ ReviewInvalidated \/ FinishRefused \/ ToolRaises \/ RecordFailure
             \/ RecordSuccess \/ RecordControlReceipt \/ FinishAccepted \/ StopUnconfirmed
             \/ RecordApproved
      PROVE  Current \in OpenIn(turns)
  <2>1. CASE RefuseCall
    BY <1>1, <2>1, AtCallOpen DEF RefuseCall, AtCall
  <2>2. CASE \/ ReviewInvalidated \/ FinishRefused \/ ToolRaises \/ RecordFailure
             \/ RecordSuccess \/ RecordControlReceipt \/ FinishAccepted \/ StopUnconfirmed
             \/ RecordApproved
    <3>1. at \in {"reviewing", "observe", "receipt", "ran"}
      BY <2>2 DEF ReviewInvalidated, FinishRefused, ToolRaises, RecordFailure, RecordSuccess,
        RecordResult, RecordControlReceipt, FinishAccepted, StopUnconfirmed, RecordApproved
    <3> QED BY <1>1, <3>1, CurrentAsked DEF RunningPoints, ApprovedPoints
  <2> QED BY <1>2, <2>1, <2>2
<1>3. ASSUME Current \in OpenIn(turns), NEW receipt \in Receipts \ {"none"},
             SettlesCall(turns, turns', Len(turns), index, receipt)
      PROVE  Given(Current, receipt)
  <2>2. /\ TurnsTyped(turns, CallKinds)' /\ KeepsTurns
        /\ Settles(turns, turns', {Current}, receipt, receipt)
    BY <1>3, ReceiptGiven
  <2>3. Current \in AskedIn(turns) /\ Current[1] = Len(turns) /\ Current[2] = index
    BY <1>3 DEF OpenIn, Current, CallAt
  <2> QED BY <1>3, <2>2, <2>3 DEF Given
<1>4. \A receipt \in {"rejected", "failed", "ok", "accepted", "unknown"} :
        receipt \in Receipts \ {"none"}
  BY DEF Receipts
<1>5. RefuseCall \/ ReviewInvalidated \/ FinishRefused => Given(Current, "rejected")
  <2>1. RefuseCall \/ ReviewInvalidated \/ FinishRefused => SettlesCall(turns, turns', Len(turns), index, "rejected")
    BY DEF RefuseCall, ReviewInvalidated, FinishRefused, RecordReceipt, SettlesCall
  <2> QED BY <1>2, <1>3, <1>4, <2>1
<1>6. ToolRaises \/ RecordFailure => Given(Current, "failed")
  <2>1. ToolRaises \/ RecordFailure => SettlesCall(turns, turns', Len(turns), index, "failed")
    BY DEF ToolRaises, RecordFailure, RecordResult, RecordReceipt, SettlesCall
  <2> QED BY <1>2, <1>3, <1>4, <2>1
<1>7. RecordSuccess => Given(Current, "ok")
  <2>1. RecordSuccess => SettlesCall(turns, turns', Len(turns), index, "ok")
    BY DEF RecordSuccess, RecordResult, RecordReceipt, SettlesCall
  <2> QED BY <1>2, <1>3, <1>4, <2>1
<1>8. RecordControlReceipt \/ FinishAccepted => Given(Current, "accepted")
  <2>1. RecordControlReceipt \/ FinishAccepted => SettlesCall(turns, turns', Len(turns), index, "accepted")
    BY DEF RecordControlReceipt, FinishAccepted, RecordReceipt, SettlesCall
  <2> QED BY <1>2, <1>3, <1>4, <2>1
<1>9. StopUnconfirmed => Given(Current, "unknown")
  <2>1. StopUnconfirmed => SettlesCall(turns, turns', Len(turns), index, "unknown")
    BY DEF StopUnconfirmed, RecordReceipt, SettlesCall
  <2> QED BY <1>2, <1>3, <1>4, <2>1
<1>10. RecordApproved => \E receipt \in {"ok", "failed", "unknown"} :
         /\ Given(Current, receipt)
         /\ Visit(IF receipt = "unknown" THEN "failing" ELSE "recover", 1)
  <2> SUFFICES ASSUME RecordApproved
               PROVE  \E receipt \in {"ok", "failed", "unknown"} :
                        /\ Given(Current, receipt)
                        /\ Visit(IF receipt = "unknown" THEN "failing" ELSE "recover", 1)
    OBVIOUS
  <2>1. PICK receipt \in {"ok", "failed", "unknown"} :
          /\ SettlesCall(turns, turns', Len(turns), index, receipt)
          /\ Visit(IF receipt = "unknown" THEN "failing" ELSE "recover", 1)
    BY DEF RecordApproved, SettlesCall
  <2>2. Given(Current, receipt)
    BY <1>2, <1>3, <1>4, <2>1
  <2> QED BY <2>1, <2>2
<1> QED BY <1>5, <1>6, <1>7, <1>8, <1>9, <1>10

\* What the steps that start a call say.
Started(c) ==
  /\ TurnsTyped(turns, CallKinds)' /\ KeepsTurns
  /\ c \in OpenIn(turns) /\ c \in AskedIn(turns) /\ c[1] = Len(turns) /\ c \in Calls
  /\ Marks(turns, turns', c)

\* A step that starts a call keeps the turns' types and what was asked, marks that call, and that call was
\* asked for in the last turn and not answered yet.
LEMMA StartSteps ==
  ASSUME IInv, [Next]_vars
  PROVE  /\ StartCall => Started(Current) /\ RunningIn(turns) = {}
                         /\ KindIn(turns, Current) \in CallKinds \ {"guarded"}
         /\ ReviewAllows => Started(Current) /\ RunningIn(turns) = {}
                            /\ KindIn(turns, Current) = "guarded"
         /\ OperationAllowed => Started(control.call) /\ RunningIn(turns) = {}
                                /\ KindIn(turns, control.call) = "guarded"
                                /\ Current' = control.call
<1>1. TypesInv /\ CurrentInv /\ WholeInv /\ TurnsTyped(turns, CallKinds)
  BY DEF IInv, TypesInv
<1>2. ASSUME NEW c \in OpenIn(turns), c[1] = Len(turns),
             turns' = [turns EXCEPT ![Len(turns)].running = c[2]]
      PROVE  Started(c)
  <2>1. RunsAt(turns, turns', Len(turns), c[2])
    BY <1>2 DEF RunsAt
  <2>2. TurnsTyped(turns, CallKinds)' /\ KeepsTurns /\ Marks(turns, turns', c)
    BY <1>2, <2>1, MarkGives
  <2>3. c \in AskedIn(turns) /\ c \in Calls
    BY <1>1, CallsIn DEF OpenIn
  <2> QED BY <1>2, <2>2, <2>3 DEF Started
<1>3. Current[1] = Len(turns) /\ Current[2] = index
  BY DEF Current, CallAt
<1>4. ASSUME StartCall
      PROVE  Started(Current) /\ RunningIn(turns) = {}
             /\ KindIn(turns, Current) \in CallKinds \ {"guarded"}
  <2>1. Current \in OpenIn(turns) /\ Kind = KindIn(turns, Current) /\ RunningIn(turns) = {}
        /\ Kind # "guarded"
    BY <1>1, <1>4, AtCallOpen DEF StartCall, AtCall, WholeInv
  <2>2. Started(Current)
    BY <1>2, <1>3, <1>4, <2>1 DEF StartCall, StartRunning
  <2>3. KindIn(turns, Current) \in CallKinds
    BY <1>1, <2>1, CallsIn DEF OpenIn
  <2> QED BY <2>1, <2>2, <2>3
<1>5. ASSUME ReviewAllows
      PROVE  Started(Current) /\ RunningIn(turns) = {} /\ KindIn(turns, Current) = "guarded"
  <2>1. Current \in OpenIn(turns) /\ KindIn(turns, Current) = "guarded" /\ RunningIn(turns) = {}
    BY <1>1, <1>5 DEF ReviewAllows, CurrentInv, WholeInv
  <2> QED BY <1>2, <1>3, <1>5, <2>1 DEF ReviewAllows
<1>6. ASSUME OperationAllowed
      PROVE  Started(control.call) /\ RunningIn(turns) = {}
             /\ KindIn(turns, control.call) = "guarded" /\ Current' = control.call
  <2>1. /\ control.call \in OpenIn(turns) /\ control.call[1] = Len(turns)
        /\ KindIn(turns, control.call) = "guarded" /\ RunningIn(turns) = {}
        /\ control.call = <<Len(turns), control.call[2]>>
    BY <1>6, OperationWaits DEF OperationAllowed
  <2>2. turns' = [turns EXCEPT ![Len(turns)].running = control.call[2]]
    BY <1>6, <2>1 DEF OperationAllowed
  <2>3. Started(control.call)
    BY <1>2, <2>1, <2>2
  <2>4. Current' = control.call
    BY <1>6, <2>1, <2>3 DEF OperationAllowed, Visit, Current, CallAt, Started, KeepsTurns
  <2> QED BY <2>1, <2>3, <2>4
<1> QED BY <1>4, <1>5, <1>6

\* What the steps that settle the last turn say.
LEMMA LastSteps ==
  ASSUME IInv, [Next]_vars
  PROVE  /\ RecordRefusal =>
              /\ TurnsTyped(turns, CallKinds)' /\ KeepsTurns
              /\ Settles(turns, turns', OpenOf(turns, {Len(turns)}), "rejected", "rejected")
         /\ BatchEnds \/ SettleFailing =>
              /\ TurnsTyped(turns, CallKinds)' /\ KeepsTurns
              /\ Settles(turns, turns', OpenOf(turns, {Len(turns)}), "unknown", "notExecuted")
<1>1. \A receipt \in {"rejected", "notExecuted", "unknown"} : receipt \in Receipts \ {"none"}
  BY DEF Receipts
<1>2. ASSUME RecordRefusal
      PROVE  /\ TurnsTyped(turns, CallKinds)' /\ KeepsTurns
             /\ Settles(turns, turns', OpenOf(turns, {Len(turns)}), "rejected", "rejected")
  BY <1>1, <1>2, LastGiven DEF RecordRefusal
<1>3. ASSUME BatchEnds \/ SettleFailing
      PROVE  /\ TurnsTyped(turns, CallKinds)' /\ KeepsTurns
             /\ Settles(turns, turns', OpenOf(turns, {Len(turns)}), "unknown", "notExecuted")
  BY <1>1, <1>3, LastGiven DEF BatchEnds, SettleFailing
<1> QED BY <1>2, <1>3

\* What the steps that add a notice say.
LEMMA NoticeSteps ==
  ASSUME IInv, [Next]_vars, AcceptNotices \/ RecoveryEnds \/ ReplyMalformed \/ DeferCompletion
  PROVE  /\ TurnsTyped(turns, CallKinds)' /\ Asks(turns, turns', {})
         /\ Len(turns') >= Len(turns) /\ (Len(turns') = Len(turns) => turns' = turns)
<1>1. TurnsTyped(turns, CallKinds) /\ Len(turns) \in Nat /\ turns \in Seq(TurnRecords)
  BY DEF IInv, TypesInv, TurnsTyped
<1>2. CASE turns' = turns
  BY <1>1, <1>2, SameTurns
<1>3. CASE turns' = Append(turns, Notice)
  <2>1. /\ TurnsTyped(turns, CallKinds)' /\ Asks(turns, turns', {})
        /\ Len(turns') = Len(turns) + 1
    BY <1>3, OneNotice
  <2> QED BY <1>1, <2>1
<1>4. CASE AcceptNotices /\ request.notices > 0
  <2> DEFINE k == request.notices - seen
             more == [i \in 1..k |-> Notice]
  <2>1. k \in Nat
    BY <1>4 DEF AcceptNotices, IInv, RequestInv, TypesInv, FieldsInv, SavedFields, OwnerFields
  <2>2. turns' = turns \o more
    BY <1>4 DEF AcceptNotices
  <2>3. Notice \in TurnRecords
    <3>1. <<>> \in Seq(AllCallKinds)
      OBVIOUS
    <3> QED BY <3>1, NewTurnTyped DEF Notice
  <2>4. more \in Seq(TurnRecords) /\ Len(more) = k /\ \A i \in 1..k : more[i] = Notice
    BY <2>1, <2>3
  <2> HIDE DEF more, k
  <2>5. /\ turns' \in Seq(TurnRecords) /\ Len(turns') = Len(turns) + k
        /\ \A m \in 1..(Len(turns) + k) :
             turns'[m] = IF m <= Len(turns) THEN turns[m] ELSE more[m - Len(turns)]
    BY <1>1, <2>2, <2>4, ConcatProperties
  <2>6. \A m \in 1..Len(turns) : turns'[m] = turns[m]
    BY <1>1, <2>1, <2>5
  <2>7. ASSUME NEW m \in 1..Len(turns'), m > Len(turns) PROVE turns'[m] = Notice
    <3>1. turns'[m] = more[m - Len(turns)]
      BY <1>1, <2>1, <2>5, <2>7
    <3>2. m - Len(turns) \in 1..k
      BY <1>1, <2>1, <2>5, <2>7
    <3> QED BY <2>4, <3>1, <3>2
  <2>8. Len(turns') >= Len(turns)
    BY <1>1, <2>1, <2>5
  <2>9. TurnsTyped(turns, CallKinds)' /\ Asks(turns, turns', {})
    BY <2>5, <2>6, <2>7, <2>8, Noticed
  <2>10. Len(turns') = Len(turns) => turns' = turns
    BY <1>1, <2>5, <2>6
  <2> QED BY <2>8, <2>9, <2>10
<1> QED BY <1>2, <1>3, <1>4 DEF AcceptNotices, RecoveryEnds, ReplyMalformed, DeferCompletion

-----------------------------------------------------------------------------
(* What every step starts from *)

\* What the invariant says of the calls, in one place.
LEMMA StateFacts ==
  ASSUME IInv
  PROVE  /\ RunningIn(turns) \subseteq OpenIn(turns) /\ OpenIn(turns) \subseteq AskedIn(turns)
         /\ AskedIn(turns) \subseteq Calls /\ NoCall \notin Calls
         /\ \A c, d \in RunningIn(turns) : c[1] = d[1] => c = d
         /\ \A c \in AskedIn(turns) :
              /\ c[1] \in Nat /\ c[1] <= Len(turns) /\ c[2] \in Nat /\ c[1] > 0 /\ c[2] > 0
              /\ KindIn(turns, c) \in CallKinds
              /\ c[1] = Len(turns) => c = <<Len(turns), c[2]>> /\ c[2] <= Len(LastTurn.calls)
              /\ c[2] <= MaxBatch /\ (KindIn(turns, c) = "guarded" => ~Scientific)
         /\ Len(turns) \in Nat /\ index \in Nat /\ FailureLimit \in Nat /\ MaxBatch \in Nat
         /\ turns # <<>> <=> Len(turns) > 0
         /\ crashes \in Nat /\ published \in Nat /\ seen \in Nat /\ checkpoint \in Nat
         /\ \A c \in Calls : c \notin OpenIn(turns) => ReceiptIn(turns, c) # "none" \/ c \notin AskedIn(turns)
         /\ \A c \in OpenIn(turns) : ReceiptIn(turns, c) = "none"
<1>1. TypesInv /\ TurnsTyped(turns, CallKinds) /\ FieldsInv
  BY DEF IInv, TypesInv
<1>2. /\ RunningIn(turns) \subseteq OpenIn(turns)
      /\ \A c, d \in RunningIn(turns) : c[1] = d[1] => c = d
  BY <1>1, RunningIsOpen
<1>3. OpenIn(turns) \subseteq AskedIn(turns) /\ AskedIn(turns) \subseteq Calls
  BY DEF OpenIn, AskedIn
<1>4. ASSUME NEW c \in AskedIn(turns)
      PROVE  /\ c[1] \in Nat /\ c[1] <= Len(turns) /\ c[2] \in Nat /\ c[1] > 0 /\ c[2] > 0
             /\ KindIn(turns, c) \in CallKinds
             /\ c[1] = Len(turns) => c = <<Len(turns), c[2]>> /\ c[2] <= Len(LastTurn.calls)
             /\ c[2] <= MaxBatch /\ (KindIn(turns, c) = "guarded" => ~Scientific)
  <2>1. c \in Calls /\ c[1] \in 1..Len(turns) /\ c[2] \in 1..Len(turns[c[1]].calls)
        /\ KindIn(turns, c) \in CallKinds /\ Len(turns) \in Nat
    BY <1>1, CallsIn
  <2>2. c = <<c[1], c[2]>> /\ c[1] \in 1..MaxTurns /\ c[2] \in 1..MaxBatch
    BY <2>1, ValuesTyped
  <2>3. turns[c[1]] \in TurnRecords
    BY <1>1, <2>1 DEF TurnsTyped
  <2>4. Len(turns[c[1]].calls) \in Nat
    BY <2>3 DEF TurnRecords
  <2>5. KindIn(turns, c) = "guarded" => ~Scientific
    BY <1>1, <2>1, ProfileTyped DEF FieldsInv, SavedFields
  <2> QED BY <2>1, <2>2, <2>4, <2>5, LimitsAssumption DEF LastTurn
<1>5. Len(turns) \in Nat /\ index \in Nat /\ FailureLimit \in Nat /\ MaxBatch \in Nat
  BY <1>1, LimitsAssumption, CallsIn DEF FieldsInv, LocalFields
<1>7. turns # <<>> <=> Len(turns) > 0
  BY <1>1 DEF TurnsTyped
<1>6. crashes \in Nat /\ published \in Nat /\ seen \in Nat /\ checkpoint \in Nat
  BY <1>1, ProfileTyped DEF FieldsInv, SavedFields, OwnerFields
<1> QED BY <1>2, <1>3, <1>4, <1>5, <1>6, <1>7, ValuesTyped DEF OpenIn

\* The call a point is about, at the points it has one.
LEMMA PointFacts ==
  ASSUME IInv
  PROVE  /\ at \in RunningPoints \union ApprovedPoints \union {"reviewing"} => Current \in OpenIn(turns)
         /\ at \in {"succeeded", "tried", "controlled", "finished"} =>
              Current \in AskedIn(turns) /\ Current \notin OpenIn(turns)
         /\ at = "call" /\ index <= Len(LastTurn.calls) => Current \in OpenIn(turns)
         /\ \A c \in AskedIn(turns) : c = Current => Kind = KindIn(turns, c)
         /\ Current = <<Len(turns), index>> /\ Current[1] = Len(turns) /\ Current[2] = index
<1>1. TypesInv /\ CurrentInv /\ WholeInv
  BY DEF IInv
<1>2. at \in RunningPoints \union ApprovedPoints \union {"reviewing"} => Current \in OpenIn(turns)
  BY <1>1, CurrentAsked
<1>3. at \in {"succeeded", "tried", "controlled", "finished"} =>
              Current \in AskedIn(turns) /\ Current \notin OpenIn(turns)
  BY <1>1 DEF CurrentInv
<1>4. at = "call" /\ index <= Len(LastTurn.calls) => Current \in OpenIn(turns)
  BY <1>1, AtCallOpen
<1>5. \A c \in AskedIn(turns) : c = Current => Kind = KindIn(turns, c)
  BY <1>1, CurrentTyped
<1> QED BY <1>2, <1>3, <1>4, <1>5 DEF Current, CallAt

\* Whatever a step does, calls stay asked for, keep their kind and the receipt they have.
Keeps(ts, us) ==
  /\ AskedIn(ts) \subseteq AskedIn(us)
  /\ \A c \in AskedIn(ts) :
       /\ KindIn(us, c) = KindIn(ts, c)
       /\ ReceiptIn(ts, c) # "none" => ReceiptIn(us, c) = ReceiptIn(ts, c)
  /\ \A k : Names(ts, k) => Names(us, k)
  /\ \A k : Names(ts, k) => k.call \in AskedIn(ts)

\* An approval is of a call the policy asks about, which only a task makes.
LEMMA ApprovalOf ==
  ASSUME IInv, NEW k, Names(turns, k), k.action = "approve"
  PROVE  ~Scientific /\ KindIn(turns, k.call) = "guarded" /\ k.call \in AskedIn(turns)
<1>1. k.call \in AskedIn(turns) /\ KindIn(turns, k.call) \in CallKinds
  BY StateFacts DEF Names
<1>2. profile \in Profiles
  BY DEF IInv, TypesInv, FieldsInv, SavedFields
<1>3. KindIn(turns, k.call) # "approve"
  BY <1>1, <1>2, ProfileTyped DEF AllCallKinds, ControlKinds
<1>4. KindIn(turns, k.call) = "guarded"
  BY <1>3 DEF Names
<1> QED BY <1>1, <1>2, <1>4, ProfileTyped

\* What acknowledging the receipts of a turn lists.
LEMMA Acknowledged ==
  ASSUME TurnsTyped(turns, CallKinds), NEW n \in 1..Len(turns)
  PROVE  \A c \in Calls :
           Acknowledge(ReceiptedCalls(n))[c] =
             IF c \in AskedIn(turns) \ OpenIn(turns) /\ c[1] = n /\ materials[c] = "bound"
             THEN "listed" ELSE materials[c]
<1>1. \A c \in Calls : c \in ReceiptedCalls(n) <=> c \in AskedIn(turns) \ OpenIn(turns) /\ c[1] = n
  <2> SUFFICES ASSUME NEW c \in Calls
               PROVE  c \in ReceiptedCalls(n) <=> c \in AskedIn(turns) \ OpenIn(turns) /\ c[1] = n
    OBVIOUS
  <2>1. c \in AskedIn(turns) <=> c[1] \in 1..Len(turns) /\ c[2] \in 1..Len(turns[c[1]].calls)
    BY CallsIn
  <2>2. ReceiptOf(c) = ReceiptIn(turns, c)
    BY StateOfHistory
  <2>3. turns[n] \in TurnRecords /\ TurnTyped(turns[n], n, CallKinds)
    BY DEF TurnsTyped
  <2>4. DOMAIN turns[n].receipts = 1..Len(turns[n].calls)
    BY <2>3 DEF TurnRecords, TurnTyped
  <2> QED BY <2>1, <2>2, <2>4 DEF ReceiptedCalls, OpenIn
<1> QED BY <1>1 DEF Acknowledge

\* Settling, asking and marking keep it so.
LEMMA KeepsSteps ==
  ASSUME NEW ts, NEW us
  PROVE  /\ \A S, started, unstarted : Settles(ts, us, S, started, unstarted) => Keeps(ts, us)
         /\ \A new : Asks(ts, us, new) => Keeps(ts, us)
         /\ \A c : Marks(ts, us, c) => Keeps(ts, us)
<1>1. ASSUME NEW S, NEW started, NEW unstarted, Settles(ts, us, S, started, unstarted)
      PROVE  Keeps(ts, us)
  BY <1>1 DEF Settles, Keeps, Names, OpenIn
<1>2. ASSUME NEW new, Asks(ts, us, new) PROVE Keeps(ts, us)
  BY <1>2 DEF Asks, Keeps, Names
<1>3. ASSUME NEW c, Marks(ts, us, c) PROVE Keeps(ts, us)
  BY <1>3 DEF Marks, Keeps, Names
<1> QED BY <1>1, <1>2, <1>3

\* Resuming a Session keeps the invariant.
LEMMA ResumingSteps ==
  ASSUME IInv, [Next]_vars,
         ReturnSaved \/ ReturnAnswer \/ Resume \/ AcceptNotices \/ ResumeWithout \/
         AcknowledgesOther \/ ReleaseControl \/ ResumeRaises \/ ResumeUnanswered \/
         ResumeAnswered \/ OperationAllowed \/ OperationDenied \/ RunApproved \/
         RecordApproved
  PROVE  IInv'
<1>inv. /\ TypesInv /\ CurrentInv /\ WholeInv /\ EffectsInv /\ TaskInv /\ ControlInv
        /\ ReceivedInv /\ ApprovalInv /\ OwnerInv /\ StatusInv /\ ResultCurrent /\ RequestInv /\ CacheInv
        /\ MaterialsInv
  BY DEF IInv
<1>types. FieldsInv'
  BY FieldsStep
<1>facts. /\ RunningIn(turns) \subseteq OpenIn(turns) /\ OpenIn(turns) \subseteq AskedIn(turns)
          /\ AskedIn(turns) \subseteq Calls /\ NoCall \notin Calls
          /\ \A c, d \in RunningIn(turns) : c[1] = d[1] => c = d
          /\ \A c \in AskedIn(turns) :
               /\ c[1] \in Nat /\ c[1] <= Len(turns) /\ c[2] \in Nat /\ c[1] > 0 /\ c[2] > 0
               /\ KindIn(turns, c) \in CallKinds
               /\ c[1] = Len(turns) => c = <<Len(turns), c[2]>> /\ c[2] <= Len(LastTurn.calls)
               /\ c[2] <= MaxBatch /\ (KindIn(turns, c) = "guarded" => ~Scientific)
          /\ Len(turns) \in Nat /\ index \in Nat /\ FailureLimit \in Nat /\ MaxBatch \in Nat
          /\ turns # <<>> <=> Len(turns) > 0
          /\ crashes \in Nat /\ published \in Nat /\ seen \in Nat /\ checkpoint \in Nat
          /\ \A c \in OpenIn(turns) : ReceiptIn(turns, c) = "none"
  BY StateFacts
<1>point. /\ at \in RunningPoints \union ApprovedPoints \union {"reviewing"} =>
               Current \in OpenIn(turns)
          /\ at \in {"succeeded", "tried", "controlled", "finished"} =>
               Current \in AskedIn(turns) /\ Current \notin OpenIn(turns)
          /\ at = "call" /\ index <= Len(LastTurn.calls) => Current \in OpenIn(turns)
          /\ \A c \in AskedIn(turns) : c = Current => Kind = KindIn(turns, c)
          /\ Current = <<Len(turns), index>> /\ Current[1] = Len(turns) /\ Current[2] = index
  BY PointFacts
<1>owner. /\ LastReceived \in Calls \union {NoCall} /\ Unresolved \subseteq Calls
          /\ received # <<>> => LastReceived \in ReceivedCalls
          /\ LastReceived = NoCall <=> received = <<>>
          /\ ReceivedCalls \subseteq Calls
  BY <1>inv, ReceivedTyped
<1>approve. /\ control.action = "approve" => ~Scientific /\ KindIn(turns, control.call) = "guarded"
            /\ \A i \in DOMAIN received : received[i].action = "approve" =>
                 ~Scientific /\ received[i].call \in AskedIn(turns)
  BY <1>inv, ApprovalOf, ValuesTyped DEF ControlInv, ReceivedInv, NoControl
<1>eff. effects \in [Calls -> Nat]
  BY <1>inv DEF TypesInv, FieldsInv, WorldFields
<1>mat. materials \in [Calls -> {"none", "bound", "listed"}]
  BY <1>inv DEF TypesInv, FieldsInv, WorldFields
<1>cache. cache \in [Calls \union {NoCall} -> Results] /\ NoCall \notin Calls
  BY <1>inv, <1>facts DEF TypesInv, FieldsInv, SavedFields
<1>none. /\ NoControl.action = "none" /\ NoControl.call = NoCall
         /\ "none" \notin ControlKinds /\ "approve" \notin ControlKinds
         /\ NoResult.kind = "none" /\ NoResult.control = NoControl
         /\ \A kind : Result(kind).kind = kind /\ Result(kind).control = NoControl
  BY DEF NoControl, ControlKinds, NoResult, Result
<1>1. CASE ReturnSaved
  <2>1. /\ at = "resume"
        /\ \/ /\ at' = "idle" /\ result' = cache[request.acknowledges] /\ index' = 0
              /\ Scientific /\ request.cached /\ result'.kind # "none"
           \/ /\ at' = "returning" /\ result' = terminal /\ status \in {"completed", "failed"}
              /\ UNCHANGED <<request, index>>
              /\ ~(Scientific /\ request.cached /\ cache[request.acknowledges].kind # "none")
        /\ UNCHANGED <<turns, status, control, operation, checkpoint, terminal, seen,
                      authorized, cache, used, effects, approved, materials, received, resolved,
                      published, texts, attention, interventions, crashes, boundary, profile>>
    BY <1>1 DEF ReturnSaved, Return, Answer, vars, sessionVars, worldVars, ownerVars, localVars
  <2>2. TurnsTyped(turns, CallKinds)' /\ KeepsTurns /\ LastTurn' = LastTurn
    BY <1>1, <2>1, SameTurns
  <2>3. /\ Scientific' = Scientific
        /\ CallKinds' = CallKinds
        /\ LastReceived' = LastReceived /\ ReceivedCalls' = ReceivedCalls
        /\ EffectCalls' = EffectCalls
        /\ Current' = <<Len(turns'), index'>>
    BY <2>1, <2>2 DEF Scientific, CallKinds, LastReceived, ReceivedCalls, EffectCalls, Current,
      CallAt
  <2>saved. \/ result' = cache[LastReceived] /\ published = 0 /\ ~texts
            \/ result' = terminal /\ status \in {"completed", "failed"}
    BY <2>1, <1>inv DEF RequestInv
  <2>4. CurrentInv' /\ WholeInv'
    BY <2>1, <2>2, <2>3, LimitsAssumption, <1>inv, <1>facts, <1>point DEF CurrentInv, WholeInv,
      RunningPoints, ApprovedPoints, StartingPoints, BatchPoints, KeepsTurns
  <2>5. EffectsInv' /\ TaskInv' /\ ReceivedInv' /\ StatusInv' /\ ResultCurrent' /\ RequestInv'
    BY <2>1, <2>2, <2>3, <1>inv, <1>facts, <1>point, <1>none, <1>owner, <2>saved DEF
      EffectsInv, CurrentInv, WholeInv, RunningPoints, ApprovedPoints, StartingPoints,
      BatchPoints, KeepsTurns, TaskInv, OwnerInv, ReceivedInv, StatusInv, ResultCurrent,
      CacheInv, Agrees, RequestInv
  <2>6. ControlInv'
    BY <2>1, <2>2, <2>3, <1>inv, <1>facts, <1>point, <1>none, <1>owner, <2>saved DEF
      ControlInv, OwnerInv, StatusInv, RunningPoints, ApprovedPoints, StartingPoints,
      BatchPoints, UncontrolledPoints, KeepsTurns, CacheInv, Agrees
  <2>7. ApprovalInv'
    BY <2>1, <2>2, <2>3, <1>inv, <1>facts, <1>point, <1>none, <1>owner DEF ApprovalInv,
      ControlInv, WholeInv, RunningPoints, ApprovedPoints, StartingPoints, BatchPoints,
      UncontrolledPoints, KeepsTurns
  <2>8. OwnerInv'
    BY <2>1, <2>2, <2>3, <1>inv, <1>facts, <1>point, <1>none, <1>owner DEF OwnerInv,
      ControlInv, StatusInv, RunningPoints, ApprovedPoints, StartingPoints, BatchPoints,
      UncontrolledPoints, KeepsTurns
  <2>9. CacheInv'
    BY <2>1, <2>2, <2>3, <1>inv, <1>facts, <1>point, <1>none, <1>owner DEF CacheInv,
      ControlInv, StatusInv, RequestInv, OwnerInv, RunningPoints, ApprovedPoints, StartingPoints,
      BatchPoints, UncontrolledPoints, Agrees, KeepsTurns
  <2>10. MaterialsInv'
    BY <2>1, <2>2, <2>3, <1>inv, <1>facts, <1>point DEF MaterialsInv, CurrentInv, WholeInv,
      EffectsInv, RunningPoints, ApprovedPoints, StartingPoints, BatchPoints, Succeeded,
      Unlisted, KeepsTurns
  <2> QED BY <2>2, <2>3, <2>4, <2>5, <2>6, <2>7, <2>8, <2>9, <2>10, <1>types DEF IInv, TypesInv
<1>2. CASE ReturnAnswer
  <2>1. /\ at = "returning" /\ at' = "idle" /\ index' = 0
        /\ cache' = IF Scientific /\ request.cached
                    THEN [cache EXCEPT ![request.acknowledges] = result] ELSE cache
        /\ UNCHANGED <<turns, status, control, operation, checkpoint, terminal, seen,
                      authorized, used, effects, approved, materials, received, resolved, published,
                      texts, attention, interventions, crashes, boundary, profile, result>>
    BY <1>2 DEF ReturnAnswer, Return, vars, sessionVars, worldVars, ownerVars, localVars
  <2>2. TurnsTyped(turns, CallKinds)' /\ KeepsTurns /\ LastTurn' = LastTurn
    BY <1>2, <2>1, SameTurns
  <2>3. /\ Scientific' = Scientific
        /\ CallKinds' = CallKinds
        /\ LastReceived' = LastReceived /\ ReceivedCalls' = ReceivedCalls
        /\ EffectCalls' = EffectCalls
        /\ Current' = <<Len(turns'), index'>>
    BY <2>1, <2>2 DEF Scientific, CallKinds, LastReceived, ReceivedCalls, EffectCalls, Current,
      CallAt
  <2>4. CurrentInv' /\ WholeInv'
    BY <2>1, <2>2, <2>3, LimitsAssumption, <1>inv, <1>facts, <1>point DEF CurrentInv, WholeInv,
      RunningPoints, ApprovedPoints, StartingPoints, BatchPoints, KeepsTurns
  <2>5. EffectsInv' /\ TaskInv' /\ ReceivedInv' /\ StatusInv' /\ ResultCurrent' /\ RequestInv'
    BY <2>1, <2>2, <2>3, <1>inv, <1>facts, <1>point, <1>none, <1>owner DEF EffectsInv,
      CurrentInv, WholeInv, RunningPoints, ApprovedPoints, StartingPoints, BatchPoints,
      KeepsTurns, TaskInv, OwnerInv, ReceivedInv, StatusInv, ResultCurrent, RequestInv
  <2>6. ControlInv'
    BY <2>1, <2>2, <2>3, <1>inv, <1>facts, <1>point, <1>none, <1>owner DEF ControlInv,
      OwnerInv, StatusInv, RunningPoints, ApprovedPoints, StartingPoints, BatchPoints,
      UncontrolledPoints, KeepsTurns
  <2>7. ApprovalInv' /\ OwnerInv'
    BY <2>1, <2>2, <2>3, <1>inv, <1>facts, <1>point, <1>none, <1>owner DEF ApprovalInv,
      ControlInv, WholeInv, RunningPoints, ApprovedPoints, StartingPoints, BatchPoints,
      UncontrolledPoints, KeepsTurns, OwnerInv, StatusInv
  <2>8. CacheInv'
    BY <2>1, <2>2, <2>3, <1>inv, <1>facts, <1>point, <1>none, <1>owner, <1>cache DEF CacheInv,
      ControlInv, StatusInv, RequestInv, OwnerInv, RunningPoints, ApprovedPoints, StartingPoints,
      BatchPoints, UncontrolledPoints, Agrees, KeepsTurns, ResultCurrent
  <2>9. MaterialsInv'
    BY <2>1, <2>2, <2>3, <1>inv, <1>facts, <1>point DEF MaterialsInv, CurrentInv, WholeInv,
      EffectsInv, RunningPoints, ApprovedPoints, StartingPoints, BatchPoints, Succeeded,
      Unlisted, KeepsTurns
  <2> QED BY <2>2, <2>3, <2>4, <2>5, <2>6, <2>7, <2>8, <2>9, <1>types DEF IInv, TypesInv
<1>3. CASE Resume
  <2>1. /\ at = "resume" /\ at' = "notices" /\ status \notin {"completed", "failed", "cancelled"}
        /\ status' = IF status = "absent" THEN "active" ELSE status
        /\ Scientific /\ request.cached => cache[request.acknowledges].kind = "none"
        /\ UNCHANGED <<turns, control, operation, checkpoint, terminal, seen, authorized,
                      cache, used, effects, approved, materials, received, resolved, published, texts,
                      attention, interventions, crashes, request, index, failures, recovered, token,
                      boundary, profile, result>>
    BY <1>3 DEF Resume, GoTo, UnchangedButTurns, vars, sessionVars, worldVars, ownerVars,
      localVars
  <2>2. TurnsTyped(turns, CallKinds)' /\ KeepsTurns /\ LastTurn' = LastTurn
    BY <1>3, <2>1, SameTurns
  <2>3. /\ Scientific' = Scientific
        /\ CallKinds' = CallKinds
        /\ LastReceived' = LastReceived /\ ReceivedCalls' = ReceivedCalls
        /\ EffectCalls' = EffectCalls
        /\ Current' = Current
    BY <2>1, <2>2 DEF Scientific, CallKinds, LastReceived, ReceivedCalls, EffectCalls, Current,
      CallAt, KeepsTurns
  <2>4. CurrentInv' /\ WholeInv'
    BY <2>1, <2>2, <2>3, LimitsAssumption, <1>inv, <1>facts, <1>point DEF CurrentInv, WholeInv,
      RunningPoints, ApprovedPoints, StartingPoints, BatchPoints, KeepsTurns
  <2>5. EffectsInv' /\ TaskInv' /\ ReceivedInv' /\ StatusInv' /\ ResultCurrent' /\ RequestInv'
    BY <2>1, <2>2, <2>3, <1>inv, <1>facts, <1>point, <1>none, <1>owner DEF EffectsInv,
      CurrentInv, WholeInv, RunningPoints, ApprovedPoints, StartingPoints, BatchPoints,
      KeepsTurns, TaskInv, OwnerInv, ReceivedInv, StatusInv, ResultCurrent, RequestInv
  <2>6. ControlInv'
    BY <2>1, <2>2, <2>3, <1>inv, <1>facts, <1>point, <1>none, <1>owner DEF ControlInv,
      OwnerInv, StatusInv, RunningPoints, ApprovedPoints, StartingPoints, BatchPoints,
      UncontrolledPoints, KeepsTurns
  <2>7. ApprovalInv' /\ OwnerInv'
    BY <2>1, <2>2, <2>3, <1>inv, <1>facts, <1>point, <1>none, <1>owner DEF ApprovalInv,
      ControlInv, WholeInv, RunningPoints, ApprovedPoints, StartingPoints, BatchPoints,
      UncontrolledPoints, KeepsTurns, OwnerInv, StatusInv
  <2>8. CacheInv'
    BY <2>1, <2>2, <2>3, <1>inv, <1>facts, <1>point, <1>none, <1>owner DEF CacheInv,
      ControlInv, StatusInv, RequestInv, OwnerInv, RunningPoints, ApprovedPoints, StartingPoints,
      BatchPoints, UncontrolledPoints, Agrees, KeepsTurns
  <2>9. MaterialsInv'
    BY <2>1, <2>2, <2>3, <1>inv, <1>facts, <1>point DEF MaterialsInv, CurrentInv, WholeInv,
      EffectsInv, RunningPoints, ApprovedPoints, StartingPoints, BatchPoints, Succeeded,
      Unlisted, KeepsTurns
  <2> QED BY <2>2, <2>3, <2>4, <2>5, <2>6, <2>7, <2>8, <2>9, <1>types DEF IInv, TypesInv
<1>4. CASE AcceptNotices
  <2>1. /\ at = "notices" /\ at' = "control"
        /\ seen' \in {seen, request.notices} /\ status' \in {status, "active"}
        /\ request.notices = 0 => turns' = turns
        /\ UNCHANGED <<control, operation, checkpoint, terminal, authorized, cache, used,
                      effects, approved, materials, received, resolved, published, texts, attention,
                      interventions, crashes, request, index, failures, recovered, token, boundary,
                      profile, result>>
    BY <1>4 DEF AcceptNotices, GoTo, Saved, vars, sessionVars, worldVars, ownerVars, localVars
  <2>2. /\ TurnsTyped(turns, CallKinds)' /\ Asks(turns, turns', {})
        /\ Len(turns') >= Len(turns) /\ (Len(turns') = Len(turns) => turns' = turns)
    BY <1>4, <2>1, NoticeSteps
  <2>3. /\ Scientific' = Scientific
        /\ CallKinds' = CallKinds
        /\ LastReceived' = LastReceived /\ ReceivedCalls' = ReceivedCalls
        /\ EffectCalls' = EffectCalls
        /\ Keeps(turns, turns')
        /\ Len(turns') \in Nat
        /\ Current' = <<Len(turns'), index'>>
    BY <2>1, <2>2, KeepsSteps DEF Scientific, CallKinds, LastReceived, ReceivedCalls,
      EffectCalls, Current, CallAt, TurnsTyped
  <2>4. CurrentInv' /\ WholeInv'
    BY <2>1, <2>2, <2>3, LimitsAssumption, <1>inv, <1>facts, <1>point DEF CurrentInv, WholeInv,
      RunningPoints, ApprovedPoints, StartingPoints, BatchPoints, Asks
  <2>5. EffectsInv' /\ TaskInv' /\ ReceivedInv' /\ StatusInv' /\ ResultCurrent' /\ RequestInv'
    BY <2>1, <2>2, <2>3, <1>inv, <1>facts, <1>point, <1>none, <1>owner DEF EffectsInv,
      CurrentInv, WholeInv, RunningPoints, ApprovedPoints, StartingPoints, BatchPoints, Asks,
      TaskInv, OwnerInv, ReceivedInv, Keeps, StatusInv, ResultCurrent, RequestInv
  <2>6. ControlInv'
    BY <2>1, <2>2, <2>3, <1>inv, <1>facts, <1>point, <1>none, <1>owner DEF ControlInv,
      OwnerInv, StatusInv, RunningPoints, ApprovedPoints, StartingPoints, BatchPoints,
      UncontrolledPoints, Asks, Keeps
  <2>7. ApprovalInv' /\ OwnerInv'
    BY <2>1, <2>2, <2>3, <1>inv, <1>facts, <1>point, <1>none, <1>owner, <1>approve DEF
      ApprovalInv, ControlInv, WholeInv, RunningPoints, ApprovedPoints, StartingPoints,
      BatchPoints, UncontrolledPoints, Asks, Keeps, OwnerInv, RequestInv, StatusInv
  <2>8. CacheInv'
    BY <2>1, <2>2, <2>3, <1>inv, <1>facts, <1>point, <1>none, <1>owner DEF CacheInv,
      ControlInv, StatusInv, RequestInv, OwnerInv, RunningPoints, ApprovedPoints, StartingPoints,
      BatchPoints, UncontrolledPoints, Agrees, Asks, Keeps
  <2>9. MaterialsInv'
    BY <2>1, <2>2, <2>3, <1>inv, <1>facts, <1>point DEF MaterialsInv, CurrentInv, WholeInv,
      EffectsInv, RunningPoints, ApprovedPoints, StartingPoints, BatchPoints, Succeeded,
      Unlisted, Asks
  <2> QED BY <2>2, <2>3, <2>4, <2>5, <2>6, <2>7, <2>8, <2>9, <1>types DEF IInv, TypesInv
<1>5. CASE ResumeWithout
  <2>1. /\ at = "control" /\ at' = "recover" /\ index' = 1 /\ control = NoControl
        /\ UNCHANGED <<turns, status, control, operation, checkpoint, terminal, seen,
                      authorized, cache, used, effects, approved, materials, received, resolved,
                      published, texts, attention, interventions, crashes, request, failures,
                      recovered, token, boundary, profile, result>>
    BY <1>5 DEF ResumeWithout, Visit, vars, sessionVars, worldVars, ownerVars, localVars
  <2>2. TurnsTyped(turns, CallKinds)' /\ KeepsTurns /\ LastTurn' = LastTurn
    BY <1>5, <2>1, SameTurns
  <2>3. /\ Scientific' = Scientific
        /\ CallKinds' = CallKinds
        /\ LastReceived' = LastReceived /\ ReceivedCalls' = ReceivedCalls
        /\ EffectCalls' = EffectCalls
        /\ Current' = <<Len(turns'), index'>>
    BY <2>1, <2>2 DEF Scientific, CallKinds, LastReceived, ReceivedCalls, EffectCalls, Current,
      CallAt
  <2>4. CurrentInv' /\ WholeInv'
    BY <2>1, <2>2, <2>3, LimitsAssumption, <1>inv, <1>facts, <1>point DEF CurrentInv, WholeInv,
      RunningPoints, ApprovedPoints, StartingPoints, BatchPoints, KeepsTurns
  <2>5. EffectsInv' /\ TaskInv' /\ ReceivedInv' /\ StatusInv' /\ ResultCurrent' /\ RequestInv'
    BY <2>1, <2>2, <2>3, <1>inv, <1>facts, <1>point, <1>none, <1>owner DEF EffectsInv,
      CurrentInv, WholeInv, RunningPoints, ApprovedPoints, StartingPoints, BatchPoints,
      KeepsTurns, TaskInv, OwnerInv, ReceivedInv, StatusInv, ResultCurrent, RequestInv
  <2>6. ControlInv'
    BY <2>1, <2>2, <2>3, <1>inv, <1>facts, <1>point, <1>none, <1>owner DEF ControlInv,
      OwnerInv, StatusInv, RunningPoints, ApprovedPoints, StartingPoints, BatchPoints,
      UncontrolledPoints, KeepsTurns
  <2>7. ApprovalInv' /\ OwnerInv'
    BY <2>1, <2>2, <2>3, <1>inv, <1>facts, <1>point, <1>none, <1>owner DEF ApprovalInv,
      ControlInv, WholeInv, RunningPoints, ApprovedPoints, StartingPoints, BatchPoints,
      UncontrolledPoints, KeepsTurns, OwnerInv, StatusInv
  <2>8. CacheInv'
    BY <2>1, <2>2, <2>3, <1>inv, <1>facts, <1>point, <1>none, <1>owner DEF CacheInv,
      ControlInv, StatusInv, RequestInv, OwnerInv, RunningPoints, ApprovedPoints, StartingPoints,
      BatchPoints, UncontrolledPoints, Agrees, KeepsTurns
  <2>9. MaterialsInv'
    BY <2>1, <2>2, <2>3, <1>inv, <1>facts, <1>point DEF MaterialsInv, CurrentInv, WholeInv,
      EffectsInv, RunningPoints, ApprovedPoints, StartingPoints, BatchPoints, Succeeded,
      Unlisted, KeepsTurns
  <2> QED BY <2>2, <2>3, <2>4, <2>5, <2>6, <2>7, <2>8, <2>9, <1>types DEF IInv, TypesInv
<1>6. CASE AcknowledgesOther
  <2>1. /\ at = "control" /\ at' = "failing" /\ control # NoControl
        /\ request.acknowledges \notin {NoCall, control.call}
        /\ UNCHANGED <<turns, status, control, operation, checkpoint, terminal, seen,
                      authorized, cache, used, effects, approved, materials, received, resolved,
                      published, texts, attention, interventions, crashes, request, index, failures,
                      recovered, token, boundary, profile, result>>
    BY <1>6 DEF AcknowledgesOther, ResumingControl, GoTo, vars, sessionVars, worldVars,
      ownerVars, localVars
  <2>2. TurnsTyped(turns, CallKinds)' /\ KeepsTurns /\ LastTurn' = LastTurn
    BY <1>6, <2>1, SameTurns
  <2>3. /\ Scientific' = Scientific
        /\ CallKinds' = CallKinds
        /\ LastReceived' = LastReceived /\ ReceivedCalls' = ReceivedCalls
        /\ EffectCalls' = EffectCalls
        /\ Current' = Current
    BY <2>1, <2>2 DEF Scientific, CallKinds, LastReceived, ReceivedCalls, EffectCalls, Current,
      CallAt, KeepsTurns
  <2>4. CurrentInv' /\ WholeInv'
    BY <2>1, <2>2, <2>3, LimitsAssumption, <1>inv, <1>facts, <1>point DEF CurrentInv, WholeInv,
      RunningPoints, ApprovedPoints, StartingPoints, BatchPoints, KeepsTurns
  <2>5. EffectsInv' /\ TaskInv' /\ ReceivedInv' /\ StatusInv' /\ ResultCurrent' /\ RequestInv'
    BY <2>1, <2>2, <2>3, <1>inv, <1>facts, <1>point, <1>none, <1>owner DEF EffectsInv,
      CurrentInv, WholeInv, RunningPoints, ApprovedPoints, StartingPoints, BatchPoints,
      KeepsTurns, TaskInv, OwnerInv, ReceivedInv, StatusInv, ResultCurrent, RequestInv
  <2>6. ControlInv'
    BY <2>1, <2>2, <2>3, <1>inv, <1>facts, <1>point, <1>none, <1>owner DEF ControlInv,
      OwnerInv, StatusInv, RunningPoints, ApprovedPoints, StartingPoints, BatchPoints,
      UncontrolledPoints, KeepsTurns, RequestInv
  <2>7. ApprovalInv' /\ OwnerInv'
    BY <2>1, <2>2, <2>3, <1>inv, <1>facts, <1>point, <1>none, <1>owner, <1>approve DEF
      ApprovalInv, ControlInv, WholeInv, RunningPoints, ApprovedPoints, StartingPoints,
      BatchPoints, UncontrolledPoints, KeepsTurns, RequestInv, OwnerInv, StatusInv
  <2>8. CacheInv'
    BY <2>1, <2>2, <2>3, <1>inv, <1>facts, <1>point, <1>none, <1>owner DEF CacheInv,
      ControlInv, StatusInv, RequestInv, OwnerInv, RunningPoints, ApprovedPoints, StartingPoints,
      BatchPoints, UncontrolledPoints, Agrees, KeepsTurns
  <2>9. MaterialsInv'
    BY <2>1, <2>2, <2>3, <1>inv, <1>facts, <1>point DEF MaterialsInv, CurrentInv, WholeInv,
      EffectsInv, RunningPoints, ApprovedPoints, StartingPoints, BatchPoints, Succeeded,
      Unlisted, KeepsTurns
  <2> QED BY <2>2, <2>3, <2>4, <2>5, <2>6, <2>7, <2>8, <2>9, <1>types DEF IInv, TypesInv
<1>7. CASE ReleaseControl
  <2>1. /\ at = "control" /\ at' = "recover" /\ index' = 1 /\ control # NoControl
        /\ control' = NoControl /\ status' = "active" /\ (control.action = "reply" \/ request.release)
        /\ UNCHANGED <<turns, operation, checkpoint, terminal, seen, authorized, cache,
                      used, effects, approved, materials, received, resolved, published, texts,
                      attention, interventions, crashes, request, failures, recovered, token,
                      boundary, profile, result>>
    BY <1>7 DEF ReleaseControl, AnswersControl, ResumingControl, Saved, Visit, vars,
      sessionVars, worldVars, ownerVars, localVars
  <2>2. TurnsTyped(turns, CallKinds)' /\ KeepsTurns /\ LastTurn' = LastTurn
    BY <1>7, <2>1, SameTurns
  <2>3. /\ Scientific' = Scientific
        /\ CallKinds' = CallKinds
        /\ LastReceived' = LastReceived /\ ReceivedCalls' = ReceivedCalls
        /\ EffectCalls' = EffectCalls
        /\ Current' = <<Len(turns'), index'>>
    BY <2>1, <2>2 DEF Scientific, CallKinds, LastReceived, ReceivedCalls, EffectCalls, Current,
      CallAt
  <2>4. CurrentInv' /\ WholeInv'
    BY <2>1, <2>2, <2>3, LimitsAssumption, <1>inv, <1>facts, <1>point DEF CurrentInv, WholeInv,
      RunningPoints, ApprovedPoints, StartingPoints, BatchPoints, KeepsTurns
  <2>5. EffectsInv' /\ TaskInv' /\ ReceivedInv' /\ StatusInv' /\ ResultCurrent' /\ RequestInv'
    BY <2>1, <2>2, <2>3, <1>inv, <1>facts, <1>point, <1>none, <1>owner DEF EffectsInv,
      CurrentInv, WholeInv, RunningPoints, ApprovedPoints, StartingPoints, BatchPoints,
      KeepsTurns, TaskInv, OwnerInv, ReceivedInv, StatusInv, ResultCurrent, RequestInv
  <2>6. ControlInv'
    BY <2>1, <2>2, <2>3, <1>inv, <1>facts, <1>point, <1>none, <1>owner DEF ControlInv,
      OwnerInv, StatusInv, RunningPoints, ApprovedPoints, StartingPoints, BatchPoints,
      UncontrolledPoints, KeepsTurns
  <2>7. ApprovalInv' /\ OwnerInv'
    BY <2>1, <2>2, <2>3, <1>inv, <1>facts, <1>point, <1>none, <1>owner, <1>approve DEF
      ApprovalInv, ControlInv, WholeInv, RunningPoints, ApprovedPoints, StartingPoints,
      BatchPoints, UncontrolledPoints, KeepsTurns, RequestInv, OwnerInv, StatusInv
  <2>8. CacheInv'
    BY <2>1, <2>2, <2>3, <1>inv, <1>facts, <1>point, <1>none, <1>owner DEF CacheInv,
      ControlInv, StatusInv, RequestInv, OwnerInv, RunningPoints, ApprovedPoints, StartingPoints,
      BatchPoints, UncontrolledPoints, Agrees, KeepsTurns
  <2>9. MaterialsInv'
    BY <2>1, <2>2, <2>3, <1>inv, <1>facts, <1>point DEF MaterialsInv, CurrentInv, WholeInv,
      EffectsInv, RunningPoints, ApprovedPoints, StartingPoints, BatchPoints, Succeeded,
      Unlisted, KeepsTurns
  <2> QED BY <2>2, <2>3, <2>4, <2>5, <2>6, <2>7, <2>8, <2>9, <1>types DEF IInv, TypesInv
<1>8. CASE ResumeRaises
  <2>1. /\ at = "control" /\ at' = "idle" /\ index' = 0 /\ result' = Result("raised")
        /\ control.action \in {"ask", "work"}
        /\ UNCHANGED <<turns, status, control, operation, checkpoint, terminal, seen,
                      authorized, cache, used, effects, approved, materials, received, resolved,
                      published, texts, attention, interventions, crashes, boundary, profile>>
    BY <1>8 DEF ResumeRaises, AnswersControl, ResumingControl, Return, vars, sessionVars,
      worldVars, ownerVars, localVars
  <2>2. TurnsTyped(turns, CallKinds)' /\ KeepsTurns /\ LastTurn' = LastTurn
    BY <1>8, <2>1, SameTurns
  <2>3. /\ Scientific' = Scientific
        /\ CallKinds' = CallKinds
        /\ LastReceived' = LastReceived /\ ReceivedCalls' = ReceivedCalls
        /\ EffectCalls' = EffectCalls
        /\ Current' = <<Len(turns'), index'>>
    BY <2>1, <2>2 DEF Scientific, CallKinds, LastReceived, ReceivedCalls, EffectCalls, Current,
      CallAt
  <2>4. CurrentInv' /\ WholeInv'
    BY <2>1, <2>2, <2>3, LimitsAssumption, <1>inv, <1>facts, <1>point DEF CurrentInv, WholeInv,
      RunningPoints, ApprovedPoints, StartingPoints, BatchPoints, KeepsTurns
  <2>5. EffectsInv' /\ TaskInv' /\ ReceivedInv' /\ StatusInv' /\ ResultCurrent' /\ RequestInv'
    BY <2>1, <2>2, <2>3, <1>inv, <1>facts, <1>point, <1>none, <1>owner DEF EffectsInv,
      CurrentInv, WholeInv, RunningPoints, ApprovedPoints, StartingPoints, BatchPoints,
      KeepsTurns, TaskInv, OwnerInv, ReceivedInv, StatusInv, ResultCurrent, RequestInv
  <2>6. ControlInv'
    BY <2>1, <2>2, <2>3, <1>inv, <1>facts, <1>point, <1>none, <1>owner DEF ControlInv,
      OwnerInv, StatusInv, RunningPoints, ApprovedPoints, StartingPoints, BatchPoints,
      UncontrolledPoints, KeepsTurns
  <2>7. ApprovalInv' /\ OwnerInv'
    BY <2>1, <2>2, <2>3, <1>inv, <1>facts, <1>point, <1>none, <1>owner DEF ApprovalInv,
      ControlInv, WholeInv, RunningPoints, ApprovedPoints, StartingPoints, BatchPoints,
      UncontrolledPoints, KeepsTurns, OwnerInv, StatusInv
  <2>8. CacheInv'
    BY <2>1, <2>2, <2>3, <1>inv, <1>facts, <1>point, <1>none, <1>owner DEF CacheInv,
      ControlInv, StatusInv, RequestInv, OwnerInv, RunningPoints, ApprovedPoints, StartingPoints,
      BatchPoints, UncontrolledPoints, Agrees, KeepsTurns
  <2>9. MaterialsInv'
    BY <2>1, <2>2, <2>3, <1>inv, <1>facts, <1>point DEF MaterialsInv, CurrentInv, WholeInv,
      EffectsInv, RunningPoints, ApprovedPoints, StartingPoints, BatchPoints, Succeeded,
      Unlisted, KeepsTurns
  <2> QED BY <2>2, <2>3, <2>4, <2>5, <2>6, <2>7, <2>8, <2>9, <1>types DEF IInv, TypesInv
<1>9. CASE ResumeUnanswered
  <2>1. /\ at = "control" /\ at' = "returning" /\ status' = "paused" /\ control # NoControl
        /\ control.action \in {"ask", "work"} /\ request.acknowledges \in {NoCall, control.call}
        /\ result' = [kind |-> "control", control |-> control]
        /\ UNCHANGED <<control, operation, checkpoint, terminal, seen, authorized, cache,
                      used, effects, approved, materials, received, resolved, published, texts,
                      attention, interventions, crashes, request, index, failures, recovered, token,
                      boundary, profile>>
    BY <1>9 DEF ResumeUnanswered, ResumeWaits, AnswersControl, ResumingControl,
      UnchangedButTurns, Answer, vars, sessionVars, worldVars, ownerVars, localVars
  <2>2. /\ TurnsTyped(turns, CallKinds)' /\ KeepsTurns
        /\ Settles(turns, turns', {control.call} \intersect OpenIn(turns), "accepted", "accepted")
    BY <1>9, <2>1, ControlGives DEF ResumeUnanswered, ResumeWaits, AnswersControl,
      ResumingControl
  <2>3. /\ Scientific' = Scientific
        /\ CallKinds' = CallKinds
        /\ LastReceived' = LastReceived /\ ReceivedCalls' = ReceivedCalls
        /\ EffectCalls' = EffectCalls
        /\ Keeps(turns, turns')
        /\ Len(turns') \in Nat
        /\ turns # <<>> => LastTurn'.calls = LastTurn.calls /\ turns' # <<>>
        /\ Current' = Current
    BY <2>1, <2>2, <1>facts, KeepsSteps DEF Scientific, CallKinds, LastReceived, ReceivedCalls,
      EffectCalls, LastTurn, Current, CallAt, KeepsTurns, TurnsTyped
  <2>told. ReceiptIn(turns', control.call) = "accepted" /\ control.call \in AskedIn(turns)
    BY <2>1, <2>2, <1>inv DEF ControlInv, RequestInv, Names, Settles, OpenIn
  <2>4. CurrentInv' /\ WholeInv'
    BY <2>1, <2>2, <2>3, LimitsAssumption, <1>inv, <1>facts, <1>point DEF CurrentInv, WholeInv,
      RunningPoints, ApprovedPoints, StartingPoints, BatchPoints, KeepsTurns, Settles
  <2>5. EffectsInv' /\ TaskInv' /\ ReceivedInv' /\ StatusInv' /\ ResultCurrent' /\ RequestInv'
    BY <2>1, <2>2, <2>3, <1>inv, <1>facts, <1>point, <1>none, <1>owner DEF EffectsInv,
      CurrentInv, WholeInv, RunningPoints, ApprovedPoints, StartingPoints, BatchPoints,
      KeepsTurns, Settles, TaskInv, OwnerInv, ReceivedInv, Keeps, StatusInv, ResultCurrent,
      RequestInv
  <2>6. ControlInv'
    BY <2>1, <2>2, <2>3, <1>inv, <1>facts, <1>point, <1>none, <1>owner, <2>told DEF ControlInv,
      OwnerInv, StatusInv, RunningPoints, ApprovedPoints, StartingPoints, BatchPoints,
      UncontrolledPoints, KeepsTurns, Settles, Keeps, RequestInv
  <2>7. ApprovalInv' /\ OwnerInv'
    BY <2>1, <2>2, <2>3, <1>inv, <1>facts, <1>point, <1>none, <1>owner DEF ApprovalInv,
      ControlInv, WholeInv, RunningPoints, ApprovedPoints, StartingPoints, BatchPoints,
      UncontrolledPoints, KeepsTurns, Settles, Keeps, OwnerInv, StatusInv
  <2>8. CacheInv'
    BY <2>1, <2>2, <2>3, <1>inv, <1>facts, <1>point, <1>none, <1>owner DEF CacheInv,
      ControlInv, StatusInv, RequestInv, OwnerInv, RunningPoints, ApprovedPoints, StartingPoints,
      BatchPoints, UncontrolledPoints, Agrees, KeepsTurns, Settles, Keeps
  <2>9. MaterialsInv'
    BY <2>1, <2>2, <2>3, <1>inv, <1>facts, <1>point DEF MaterialsInv, CurrentInv, WholeInv,
      EffectsInv, RunningPoints, ApprovedPoints, StartingPoints, BatchPoints, Succeeded,
      Unlisted, KeepsTurns, Settles
  <2> QED BY <2>2, <2>3, <2>4, <2>5, <2>6, <2>7, <2>8, <2>9, <1>types DEF IInv, TypesInv
<1>10. CASE ResumeAnswered
  <2>1. /\ at = "control" /\ at' = "recover" /\ status' = "active" /\ control # NoControl
        /\ control.action \in {"ask", "work"} /\ control' = NoControl /\ index' = 1
        /\ UNCHANGED <<operation, checkpoint, terminal, seen, authorized, cache, used,
                      effects, approved, materials, received, resolved, published, texts, attention,
                      interventions, crashes, request, failures, recovered, token, boundary, profile,
                      result>>
    BY <1>10 DEF ResumeAnswered, ResumeWaits, AnswersControl, ResumingControl, Saved, Visit,
      vars, sessionVars, worldVars, ownerVars, localVars
  <2>2. /\ TurnsTyped(turns, CallKinds)' /\ KeepsTurns
        /\ Settles(turns, turns', {control.call} \intersect OpenIn(turns), "accepted", "accepted")
    BY <1>10, <2>1, ControlGives DEF ResumeAnswered, ResumeWaits, AnswersControl,
      ResumingControl
  <2>3. /\ Scientific' = Scientific
        /\ CallKinds' = CallKinds
        /\ LastReceived' = LastReceived /\ ReceivedCalls' = ReceivedCalls
        /\ EffectCalls' = EffectCalls
        /\ Keeps(turns, turns')
        /\ Len(turns') \in Nat
        /\ turns # <<>> => LastTurn'.calls = LastTurn.calls /\ turns' # <<>>
        /\ Current' = <<Len(turns'), index'>>
    BY <2>1, <2>2, <1>facts, KeepsSteps DEF Scientific, CallKinds, LastReceived, ReceivedCalls,
      EffectCalls, LastTurn, Current, CallAt, TurnsTyped, KeepsTurns
  <2>4. CurrentInv' /\ WholeInv'
    BY <2>1, <2>2, <2>3, LimitsAssumption, <1>inv, <1>facts, <1>point DEF CurrentInv, WholeInv,
      RunningPoints, ApprovedPoints, StartingPoints, BatchPoints, KeepsTurns, Settles
  <2>5. EffectsInv' /\ TaskInv' /\ ReceivedInv' /\ StatusInv' /\ ResultCurrent' /\ RequestInv'
    BY <2>1, <2>2, <2>3, <1>inv, <1>facts, <1>point, <1>none, <1>owner DEF EffectsInv,
      CurrentInv, WholeInv, RunningPoints, ApprovedPoints, StartingPoints, BatchPoints,
      KeepsTurns, Settles, TaskInv, OwnerInv, ReceivedInv, Keeps, StatusInv, ResultCurrent,
      RequestInv
  <2>6. ControlInv'
    BY <2>1, <2>2, <2>3, <1>inv, <1>facts, <1>point, <1>none, <1>owner DEF ControlInv,
      OwnerInv, StatusInv, RunningPoints, ApprovedPoints, StartingPoints, BatchPoints,
      UncontrolledPoints, KeepsTurns, Settles, Keeps
  <2>7. ApprovalInv' /\ OwnerInv'
    BY <2>1, <2>2, <2>3, <1>inv, <1>facts, <1>point, <1>none, <1>owner DEF ApprovalInv,
      ControlInv, WholeInv, RunningPoints, ApprovedPoints, StartingPoints, BatchPoints,
      UncontrolledPoints, KeepsTurns, Settles, Keeps, OwnerInv, StatusInv
  <2>8. CacheInv'
    BY <2>1, <2>2, <2>3, <1>inv, <1>facts, <1>point, <1>none, <1>owner DEF CacheInv,
      ControlInv, StatusInv, RequestInv, OwnerInv, RunningPoints, ApprovedPoints, StartingPoints,
      BatchPoints, UncontrolledPoints, Agrees, KeepsTurns, Settles, Keeps
  <2>9. MaterialsInv'
    BY <2>1, <2>2, <2>3, <1>inv, <1>facts, <1>point DEF MaterialsInv, CurrentInv, WholeInv,
      EffectsInv, RunningPoints, ApprovedPoints, StartingPoints, BatchPoints, Succeeded,
      Unlisted, KeepsTurns, Settles
  <2> QED BY <2>2, <2>3, <2>4, <2>5, <2>6, <2>7, <2>8, <2>9, <1>types DEF IInv, TypesInv
<1>11. CASE OperationAllowed
  <2>1. /\ at = "control" /\ at' = "approved" /\ status' = "active" /\ control # NoControl
        /\ control.action = "approve" /\ control' = NoControl /\ operation' = NoCall
        /\ control.call \in approved /\ index' = control.call[2]
        /\ UNCHANGED <<checkpoint, terminal, seen, authorized, cache, used, effects,
                      approved, materials, received, resolved, published, texts, attention,
                      interventions, crashes, request, failures, recovered, token, boundary, profile,
                      result>>
    BY <1>11 DEF OperationAllowed, ResumesOperation, AnswersControl, ResumingControl, Saved,
      Visit, vars, sessionVars, worldVars, ownerVars, localVars
  <2>2. /\ Started(control.call) /\ RunningIn(turns) = {} /\ Current' = control.call
        /\ KindIn(turns, control.call) = "guarded"
    BY <1>11, <2>1, StartSteps
  <2>3. /\ Scientific' = Scientific
        /\ CallKinds' = CallKinds
        /\ LastReceived' = LastReceived /\ ReceivedCalls' = ReceivedCalls
        /\ EffectCalls' = EffectCalls
        /\ Keeps(turns, turns')
        /\ Len(turns') \in Nat
        /\ turns # <<>> => LastTurn'.calls = LastTurn.calls /\ turns' # <<>>
        /\ Current' = <<Len(turns'), index'>>
    BY <2>1, <2>2, <1>facts, KeepsSteps DEF Scientific, CallKinds, LastReceived, ReceivedCalls,
      EffectCalls, LastTurn, Current, CallAt, TurnsTyped, Started, KeepsTurns
  <2>4. CurrentInv' /\ WholeInv'
    BY <2>1, <2>2, <2>3, LimitsAssumption, <1>inv, <1>facts, <1>point DEF CurrentInv, WholeInv,
      RunningPoints, ApprovedPoints, StartingPoints, BatchPoints, Started, KeepsTurns, Marks
  <2>5. EffectsInv' /\ TaskInv' /\ ReceivedInv' /\ StatusInv' /\ ResultCurrent' /\ RequestInv'
    BY <2>1, <2>2, <2>3, <1>inv, <1>facts, <1>point, <1>none, <1>owner DEF EffectsInv,
      CurrentInv, WholeInv, RunningPoints, ApprovedPoints, StartingPoints, BatchPoints, Started,
      KeepsTurns, Marks, TaskInv, OwnerInv, ReceivedInv, Keeps, StatusInv, ResultCurrent,
      RequestInv
  <2>6. ControlInv'
    BY <2>1, <2>2, <2>3, <1>inv, <1>facts, <1>point, <1>none, <1>owner DEF ControlInv,
      OwnerInv, StatusInv, RunningPoints, ApprovedPoints, StartingPoints, BatchPoints,
      UncontrolledPoints, Started, KeepsTurns, Marks, Keeps
  <2>7. ApprovalInv' /\ OwnerInv'
    BY <2>1, <2>2, <2>3, <1>inv, <1>facts, <1>point, <1>none, <1>owner DEF ApprovalInv,
      ControlInv, WholeInv, RunningPoints, ApprovedPoints, StartingPoints, BatchPoints,
      UncontrolledPoints, Started, KeepsTurns, Marks, Keeps, OwnerInv, StatusInv
  <2>8. CacheInv'
    BY <2>1, <2>2, <2>3, <1>inv, <1>facts, <1>point, <1>none, <1>owner DEF CacheInv,
      ControlInv, StatusInv, RequestInv, OwnerInv, RunningPoints, ApprovedPoints, StartingPoints,
      BatchPoints, UncontrolledPoints, Agrees, Started, KeepsTurns, Marks, Keeps
  <2>9. MaterialsInv'
    BY <2>1, <2>2, <2>3, <1>inv, <1>facts, <1>point DEF MaterialsInv, CurrentInv, WholeInv,
      EffectsInv, RunningPoints, ApprovedPoints, StartingPoints, BatchPoints, Succeeded,
      Unlisted, Started, KeepsTurns, Marks
  <2> QED BY <2>2, <2>3, <2>4, <2>5, <2>6, <2>7, <2>8, <2>9, <1>types DEF IInv, TypesInv, Started
<1>12. CASE OperationDenied
  <2>1. /\ at = "control" /\ at' = "recover" /\ status' = "active" /\ control # NoControl
        /\ control.action = "approve" /\ control' = NoControl /\ operation' = NoCall /\ index' = 1
        /\ UNCHANGED <<checkpoint, terminal, seen, authorized, cache, used, effects,
                      approved, materials, received, resolved, published, texts, attention,
                      interventions, crashes, request, failures, recovered, token, boundary, profile,
                      result>>
    BY <1>12 DEF OperationDenied, ResumesOperation, AnswersControl, ResumingControl, Saved,
      Visit, vars, sessionVars, worldVars, ownerVars, localVars
  <2>2. /\ TurnsTyped(turns, CallKinds)' /\ KeepsTurns /\ control.call \in OpenIn(turns)
        /\ Settles(turns, turns', {control.call}, "notExecuted", "notExecuted")
    BY <1>12, <2>1, DeniedGives, OperationWaits DEF OperationDenied
  <2>3. /\ Scientific' = Scientific
        /\ CallKinds' = CallKinds
        /\ LastReceived' = LastReceived /\ ReceivedCalls' = ReceivedCalls
        /\ EffectCalls' = EffectCalls
        /\ Keeps(turns, turns')
        /\ Len(turns') \in Nat
        /\ turns # <<>> => LastTurn'.calls = LastTurn.calls /\ turns' # <<>>
        /\ Current' = <<Len(turns'), index'>>
    BY <2>1, <2>2, <1>facts, KeepsSteps DEF Scientific, CallKinds, LastReceived, ReceivedCalls,
      EffectCalls, LastTurn, Current, CallAt, TurnsTyped, KeepsTurns
  <2>4. CurrentInv' /\ WholeInv'
    BY <2>1, <2>2, <2>3, LimitsAssumption, <1>inv, <1>facts, <1>point DEF CurrentInv, WholeInv,
      RunningPoints, ApprovedPoints, StartingPoints, BatchPoints, KeepsTurns, Settles
  <2>5. EffectsInv' /\ TaskInv' /\ ReceivedInv' /\ StatusInv' /\ ResultCurrent' /\ RequestInv'
    BY <2>1, <2>2, <2>3, <1>inv, <1>facts, <1>point, <1>none, <1>owner DEF EffectsInv,
      CurrentInv, WholeInv, RunningPoints, ApprovedPoints, StartingPoints, BatchPoints,
      KeepsTurns, Settles, TaskInv, OwnerInv, ReceivedInv, Keeps, StatusInv, ResultCurrent,
      RequestInv
  <2>6. ControlInv'
    BY <2>1, <2>2, <2>3, <1>inv, <1>facts, <1>point, <1>none, <1>owner DEF ControlInv,
      OwnerInv, StatusInv, RunningPoints, ApprovedPoints, StartingPoints, BatchPoints,
      UncontrolledPoints, KeepsTurns, Settles, Keeps
  <2>7. ApprovalInv' /\ OwnerInv'
    BY <2>1, <2>2, <2>3, <1>inv, <1>facts, <1>point, <1>none, <1>owner DEF ApprovalInv,
      ControlInv, WholeInv, RunningPoints, ApprovedPoints, StartingPoints, BatchPoints,
      UncontrolledPoints, KeepsTurns, Settles, Keeps, OwnerInv, StatusInv
  <2>8. CacheInv'
    BY <2>1, <2>2, <2>3, <1>inv, <1>facts, <1>point, <1>none, <1>owner DEF CacheInv,
      ControlInv, StatusInv, RequestInv, OwnerInv, RunningPoints, ApprovedPoints, StartingPoints,
      BatchPoints, UncontrolledPoints, Agrees, KeepsTurns, Settles, Keeps
  <2>9. MaterialsInv'
    BY <2>1, <2>2, <2>3, <1>inv, <1>facts, <1>point DEF MaterialsInv, CurrentInv, WholeInv,
      EffectsInv, RunningPoints, ApprovedPoints, StartingPoints, BatchPoints, Succeeded,
      Unlisted, KeepsTurns, Settles
  <2> QED BY <2>2, <2>3, <2>4, <2>5, <2>6, <2>7, <2>8, <2>9, <1>types DEF IInv, TypesInv
<1>13. CASE RunApproved
  <2>1. /\ at = "approved" /\ at' = "ran"
        /\ effects' = [effects EXCEPT ![Current] = @ + 1]
        /\ UNCHANGED <<turns, status, control, operation, checkpoint, terminal, seen,
                      authorized, cache, used, approved, materials, received, resolved, published,
                      texts, attention, interventions, crashes, request, index, failures, recovered,
                      token, boundary, profile, result>>
    BY <1>13 DEF RunApproved, GoTo, vars, sessionVars, worldVars, ownerVars, localVars
  <2>2. TurnsTyped(turns, CallKinds)' /\ KeepsTurns /\ LastTurn' = LastTurn
    BY <1>13, <2>1, SameTurns
  <2>3. /\ Scientific' = Scientific
        /\ CallKinds' = CallKinds
        /\ LastReceived' = LastReceived /\ ReceivedCalls' = ReceivedCalls
        /\ EffectCalls' = EffectCalls \union {Current}
        /\ Current' = Current
    BY <2>1, <2>2, <1>eff, <1>facts, <1>point DEF Scientific, CallKinds, LastReceived,
      ReceivedCalls, EffectCalls, ApprovedPoints, Current, CallAt, KeepsTurns
  <2>4. CurrentInv' /\ WholeInv'
    BY <2>1, <2>2, <2>3, LimitsAssumption, <1>inv, <1>facts, <1>point DEF CurrentInv, WholeInv,
      RunningPoints, ApprovedPoints, StartingPoints, BatchPoints, KeepsTurns
  <2>5. EffectsInv'
    BY <2>1, <2>2, <2>3, <1>inv, <1>facts, <1>point DEF EffectsInv, CurrentInv, WholeInv,
      RunningPoints, ApprovedPoints, StartingPoints, BatchPoints, KeepsTurns
  <2>6. TaskInv'
    BY <2>1, <2>2, <2>3, <1>inv, <1>facts, <1>point DEF TaskInv, CurrentInv, WholeInv,
      OwnerInv, RunningPoints, ApprovedPoints, StartingPoints, BatchPoints, KeepsTurns
  <2>7. ControlInv'
    BY <2>1, <2>2, <2>3, <1>inv, <1>facts, <1>point, <1>none, <1>owner DEF ControlInv,
      OwnerInv, StatusInv, RunningPoints, ApprovedPoints, StartingPoints, BatchPoints,
      UncontrolledPoints, KeepsTurns
  <2>8. ReceivedInv'
    BY <2>1, <2>2, <2>3, <1>inv, <1>facts, <1>point, <1>none, <1>owner DEF ReceivedInv,
      KeepsTurns
  <2>9. ApprovalInv' /\ OwnerInv'
    BY <2>1, <2>2, <2>3, <1>inv, <1>facts, <1>point, <1>none, <1>owner DEF ApprovalInv,
      ControlInv, WholeInv, RunningPoints, ApprovedPoints, StartingPoints, BatchPoints,
      UncontrolledPoints, KeepsTurns, OwnerInv, StatusInv
  <2>10. StatusInv'
    BY <2>1, <2>2, <2>3, <1>inv, <1>facts, <1>point, <1>none DEF StatusInv, WholeInv,
      RunningPoints, ApprovedPoints, StartingPoints, BatchPoints, KeepsTurns
  <2>11. ResultCurrent'
    BY <2>1, <2>2, <2>3, <1>inv, <1>facts, <1>point, <1>none DEF ResultCurrent, StatusInv,
      KeepsTurns
  <2>12. RequestInv'
    BY <2>1, <2>2, <2>3, <1>inv, <1>facts, <1>point DEF RequestInv, KeepsTurns
  <2>13. CacheInv'
    BY <2>1, <2>2, <2>3, <1>inv, <1>facts, <1>point, <1>none, <1>owner DEF CacheInv,
      ControlInv, StatusInv, RequestInv, OwnerInv, RunningPoints, ApprovedPoints, StartingPoints,
      BatchPoints, UncontrolledPoints, Agrees, KeepsTurns
  <2>14. MaterialsInv'
    BY <2>1, <2>2, <2>3, <1>inv, <1>facts, <1>point, <1>mat DEF MaterialsInv, CurrentInv,
      WholeInv, EffectsInv, RunningPoints, ApprovedPoints, StartingPoints, BatchPoints,
      Succeeded, Unlisted, KeepsTurns
  <2> QED BY <2>2, <2>3, <2>4, <2>5, <2>6, <2>7, <2>8, <2>9, <2>10, <2>11, <2>12, <2>13, <2>14,
    <1>types DEF IInv, TypesInv
<1>14. CASE RecordApproved
  <2>1. /\ at = "ran" /\ status' = "active"
        /\ UNCHANGED <<control, operation, checkpoint, terminal, seen, authorized, cache,
                      used, effects, approved, materials, received, resolved, published, texts,
                      attention, interventions, crashes>>
    BY <1>14 DEF RecordApproved, Saved, UnchangedButTurns, Visit, vars, sessionVars, worldVars,
      ownerVars, localVars
  <2>2. PICK receipt \in {"ok", "failed", "unknown"} :
          /\ Given(Current, receipt) /\ at' \in {"failing", "recover"} /\ index' = 1
          /\ UNCHANGED <<request, failures, recovered, token, boundary, profile, result>>
    BY <1>14, <2>1, ReceiptSteps DEF Visit
  <2>3. /\ Scientific' = Scientific
        /\ CallKinds' = CallKinds
        /\ LastReceived' = LastReceived /\ ReceivedCalls' = ReceivedCalls
        /\ EffectCalls' = EffectCalls
        /\ Keeps(turns, turns')
        /\ Len(turns') \in Nat
        /\ turns # <<>> => LastTurn'.calls = LastTurn.calls /\ turns' # <<>>
        /\ Current' = <<Len(turns'), index'>>
    BY <2>1, <2>2, <1>facts, KeepsSteps DEF Scientific, CallKinds, LastReceived, ReceivedCalls,
      EffectCalls, LastTurn, Current, CallAt, TurnsTyped, Given, KeepsTurns
  <2>4. CurrentInv' /\ WholeInv'
    BY <2>1, <2>2, <2>3, LimitsAssumption, <1>inv, <1>facts, <1>point DEF CurrentInv, WholeInv,
      RunningPoints, ApprovedPoints, StartingPoints, BatchPoints, Given, KeepsTurns, Settles
  <2>5. EffectsInv'
    BY <2>1, <2>2, <2>3, <1>inv, <1>facts, <1>point DEF EffectsInv, CurrentInv, WholeInv,
      RunningPoints, ApprovedPoints, StartingPoints, BatchPoints, Given, KeepsTurns, Settles
  <2>6. TaskInv' /\ ReceivedInv' /\ StatusInv' /\ ResultCurrent' /\ RequestInv'
    BY <2>1, <2>2, <2>3, <1>inv, <1>facts, <1>point, <1>none, <1>owner DEF TaskInv, CurrentInv,
      WholeInv, OwnerInv, RunningPoints, ApprovedPoints, StartingPoints, BatchPoints, Given,
      KeepsTurns, Settles, ReceivedInv, Keeps, StatusInv, ResultCurrent, RequestInv
  <2>7. ControlInv'
    BY <2>1, <2>2, <2>3, <1>inv, <1>facts, <1>point, <1>none, <1>owner DEF ControlInv,
      OwnerInv, StatusInv, RunningPoints, ApprovedPoints, StartingPoints, BatchPoints,
      UncontrolledPoints, Given, KeepsTurns, Settles, Keeps
  <2>8. ApprovalInv'
    BY <2>1, <2>2, <2>3, <1>inv, <1>facts, <1>point, <1>none, <1>owner DEF ApprovalInv,
      ControlInv, WholeInv, RunningPoints, ApprovedPoints, StartingPoints, BatchPoints,
      UncontrolledPoints, Given, KeepsTurns, Settles, Keeps
  <2>9. OwnerInv'
    BY <2>1, <2>2, <2>3, <1>inv, <1>facts, <1>point, <1>none, <1>owner DEF OwnerInv,
      ControlInv, StatusInv, RunningPoints, ApprovedPoints, StartingPoints, BatchPoints,
      UncontrolledPoints, Given, KeepsTurns, Settles, Keeps
  <2>10. CacheInv'
    BY <2>1, <2>2, <2>3, <1>inv, <1>facts, <1>point, <1>none, <1>owner DEF CacheInv,
      ControlInv, StatusInv, RequestInv, OwnerInv, RunningPoints, ApprovedPoints, StartingPoints,
      BatchPoints, UncontrolledPoints, Agrees, Given, KeepsTurns, Settles, Keeps
  <2>11. MaterialsInv'
    BY <2>1, <2>2, <2>3, <1>inv, <1>facts, <1>point DEF MaterialsInv, CurrentInv, WholeInv,
      EffectsInv, RunningPoints, ApprovedPoints, StartingPoints, BatchPoints, Succeeded,
      Unlisted, Given, KeepsTurns, Settles
  <2> QED BY <2>2, <2>3, <2>4, <2>5, <2>6, <2>7, <2>8, <2>9, <2>10, <2>11, <1>types DEF IInv, TypesInv,
    Given
<1> QED BY <1>1, <1>2, <1>3, <1>4, <1>5, <1>6, <1>7, <1>8, <1>9, <1>10, <1>11, <1>12, <1>13, <1>14

\* Recovering interrupted turns keeps the invariant.
LEMMA RecoveringSteps ==
  ASSUME IInv, [Next]_vars,
         RecoverTurn \/ AcknowledgeRecovered \/ RecoveryEnds
  PROVE  IInv'
<1>inv. /\ TypesInv /\ CurrentInv /\ WholeInv /\ EffectsInv /\ TaskInv /\ ControlInv
        /\ ReceivedInv /\ ApprovalInv /\ OwnerInv /\ StatusInv /\ ResultCurrent /\ RequestInv /\ CacheInv
        /\ MaterialsInv
  BY DEF IInv
<1>types. FieldsInv'
  BY FieldsStep
<1>facts. /\ RunningIn(turns) \subseteq OpenIn(turns) /\ OpenIn(turns) \subseteq AskedIn(turns)
          /\ AskedIn(turns) \subseteq Calls /\ NoCall \notin Calls
          /\ \A c, d \in RunningIn(turns) : c[1] = d[1] => c = d
          /\ \A c \in AskedIn(turns) :
               /\ c[1] \in Nat /\ c[1] <= Len(turns) /\ c[2] \in Nat /\ c[1] > 0 /\ c[2] > 0
               /\ KindIn(turns, c) \in CallKinds
               /\ c[1] = Len(turns) => c = <<Len(turns), c[2]>> /\ c[2] <= Len(LastTurn.calls)
               /\ c[2] <= MaxBatch /\ (KindIn(turns, c) = "guarded" => ~Scientific)
          /\ Len(turns) \in Nat /\ index \in Nat /\ FailureLimit \in Nat /\ MaxBatch \in Nat
          /\ turns # <<>> <=> Len(turns) > 0
          /\ crashes \in Nat /\ published \in Nat /\ seen \in Nat /\ checkpoint \in Nat
          /\ \A c \in OpenIn(turns) : ReceiptIn(turns, c) = "none"
  BY StateFacts
<1>point. /\ at \in RunningPoints \union ApprovedPoints \union {"reviewing"} =>
               Current \in OpenIn(turns)
          /\ at \in {"succeeded", "tried", "controlled", "finished"} =>
               Current \in AskedIn(turns) /\ Current \notin OpenIn(turns)
          /\ at = "call" /\ index <= Len(LastTurn.calls) => Current \in OpenIn(turns)
          /\ \A c \in AskedIn(turns) : c = Current => Kind = KindIn(turns, c)
          /\ Current = <<Len(turns), index>> /\ Current[1] = Len(turns) /\ Current[2] = index
  BY PointFacts
<1>owner. /\ LastReceived \in Calls \union {NoCall} /\ Unresolved \subseteq Calls
          /\ received # <<>> => LastReceived \in ReceivedCalls
          /\ LastReceived = NoCall <=> received = <<>>
          /\ ReceivedCalls \subseteq Calls
  BY <1>inv, ReceivedTyped
<1>approve. /\ control.action = "approve" => ~Scientific /\ KindIn(turns, control.call) = "guarded"
            /\ \A i \in DOMAIN received : received[i].action = "approve" =>
                 ~Scientific /\ received[i].call \in AskedIn(turns)
  BY <1>inv, ApprovalOf, ValuesTyped DEF ControlInv, ReceivedInv, NoControl
<1>eff. effects \in [Calls -> Nat]
  BY <1>inv DEF TypesInv, FieldsInv, WorldFields
<1>mat. materials \in [Calls -> {"none", "bound", "listed"}]
  BY <1>inv DEF TypesInv, FieldsInv, WorldFields
<1>cache. cache \in [Calls \union {NoCall} -> Results] /\ NoCall \notin Calls
  BY <1>inv, <1>facts DEF TypesInv, FieldsInv, SavedFields
<1>none. /\ NoControl.action = "none" /\ NoControl.call = NoCall
         /\ "none" \notin ControlKinds /\ "approve" \notin ControlKinds
         /\ NoResult.kind = "none" /\ NoResult.control = NoControl
         /\ \A kind : Result(kind).kind = kind /\ Result(kind).control = NoControl
  BY DEF NoControl, ControlKinds, NoResult, Result
<1>1. CASE RecoverTurn
  <2>1. /\ at = "recover" /\ materials' = Acknowledge(ReceiptedCalls(index))
        /\ \/ /\ Complete(turns[index]) /\ at' = "recover" /\ index' = index + 1
              /\ UNCHANGED <<turns, status, authorized>>
           \/ /\ ~Complete(turns[index]) /\ at' = "recovered" /\ index' = index /\ status' = "active"
              /\ authorized' = authorized \union
                   {c \in Calls : c = <<index, turns[index].running>> /\ materials[c] = "bound"}
        /\ UNCHANGED <<control, operation, checkpoint, terminal, seen, cache, used,
                      effects, approved, received, resolved, published, texts, attention,
                      interventions, crashes, request, failures, recovered, token, boundary, profile,
                      result>>
    BY <1>1 DEF RecoverTurn, Saved, Visit, GoTo, vars, sessionVars, worldVars, ownerVars,
      localVars
  <2>2. /\ TurnsTyped(turns, CallKinds)' /\ KeepsTurns /\ index \in 1..Len(turns)
        /\ Complete(turns[index]) <=> OpenOf(turns, {index}) = {}
        /\ Recovered(index) \in {"registered", "unknown"}
        /\ Settles(turns, turns', OpenOf(turns, {index}), Recovered(index), "notExecuted")
    BY <1>1, <2>1, RecoverGives DEF Recovered
  <2>3. /\ Scientific' = Scientific
        /\ CallKinds' = CallKinds
        /\ LastReceived' = LastReceived /\ ReceivedCalls' = ReceivedCalls
        /\ EffectCalls' = EffectCalls
        /\ Keeps(turns, turns')
        /\ Len(turns') \in Nat
        /\ turns # <<>> => LastTurn'.calls = LastTurn.calls /\ turns' # <<>>
        /\ Current' = <<Len(turns'), index'>>
    BY <2>1, <2>2, <1>facts, KeepsSteps DEF Scientific, CallKinds, LastReceived, ReceivedCalls,
      EffectCalls, LastTurn, Current, CallAt, TurnsTyped, KeepsTurns
  <2>4. CurrentInv'
    BY <2>1, <2>2, <2>3, LimitsAssumption, <1>inv, <1>facts, <1>point DEF CurrentInv, WholeInv,
      RunningPoints, ApprovedPoints, StartingPoints, BatchPoints, KeepsTurns, Settles, OpenOf
  <2>5. WholeInv'
    BY <2>1, <2>2, <2>3, <1>inv, <1>facts, <1>point DEF WholeInv, CurrentInv, RunningPoints,
      ApprovedPoints, StartingPoints, BatchPoints, KeepsTurns, Settles, OpenOf
  <2>6. EffectsInv'
    BY <2>1, <2>2, <2>3, <1>inv, <1>facts, <1>point DEF EffectsInv, CurrentInv, WholeInv,
      RunningPoints, ApprovedPoints, StartingPoints, BatchPoints, KeepsTurns, Settles, OpenOf
  <2>7. TaskInv'
    BY <2>1, <2>2, <2>3, <1>inv, <1>facts, <1>point DEF TaskInv, CurrentInv, WholeInv,
      OwnerInv, RunningPoints, ApprovedPoints, StartingPoints, BatchPoints, KeepsTurns, Settles,
      OpenOf
  <2>8. ControlInv'
    BY <2>1, <2>2, <2>3, <1>inv, <1>facts, <1>point, <1>none, <1>owner DEF ControlInv,
      OwnerInv, StatusInv, RunningPoints, ApprovedPoints, StartingPoints, BatchPoints,
      UncontrolledPoints, KeepsTurns, Settles, OpenOf, Keeps
  <2>9. ReceivedInv'
    BY <2>1, <2>2, <2>3, <1>inv, <1>facts, <1>point, <1>none, <1>owner DEF ReceivedInv,
      KeepsTurns, Settles, OpenOf, Keeps
  <2>10. ApprovalInv' /\ OwnerInv'
    BY <2>1, <2>2, <2>3, <1>inv, <1>facts, <1>point, <1>none, <1>owner DEF ApprovalInv,
      ControlInv, WholeInv, RunningPoints, ApprovedPoints, StartingPoints, BatchPoints,
      UncontrolledPoints, KeepsTurns, Settles, OpenOf, Keeps, OwnerInv, StatusInv
  <2>11. StatusInv'
    BY <2>1, <2>2, <2>3, <1>inv, <1>facts, <1>point, <1>none DEF StatusInv, WholeInv,
      RunningPoints, ApprovedPoints, StartingPoints, BatchPoints, KeepsTurns, Settles, OpenOf
  <2>12. ResultCurrent'
    BY <2>1, <2>2, <2>3, <1>inv, <1>facts, <1>point, <1>none DEF ResultCurrent, StatusInv,
      KeepsTurns, Settles, OpenOf
  <2>13. RequestInv'
    BY <2>1, <2>2, <2>3, <1>inv, <1>facts, <1>point DEF RequestInv, KeepsTurns, Settles, OpenOf
  <2>14. CacheInv'
    BY <2>1, <2>2, <2>3, <1>inv, <1>facts, <1>point, <1>none, <1>owner DEF CacheInv,
      ControlInv, StatusInv, RequestInv, OwnerInv, RunningPoints, ApprovedPoints, StartingPoints,
      BatchPoints, UncontrolledPoints, Agrees, KeepsTurns, Settles, OpenOf, Keeps
  <2>15. MaterialsInv'
    <3> DEFINE S == OpenOf(turns, {index})
    <3>1. /\ \A c \in Calls : materials'[c] =
               IF c \in AskedIn(turns) \ OpenIn(turns) /\ c[1] = index /\ materials[c] = "bound"
               THEN "listed" ELSE materials[c]
          /\ \A c : c \in S <=> c \in OpenIn(turns) /\ c[1] = index
      BY <2>1, <2>2, <1>inv, Acknowledged DEF TypesInv, OpenOf
    <3>2. ASSUME NEW c \in S \intersect RunningIn(turns), Recovered(index) = "registered"
          PROVE  c \in Calls /\ c = <<index, turns[index].running>> /\ materials[c] = "bound"
      <4>1. c \in Calls /\ c[1] = index /\ turns[index].running = c[2]
        BY <3>1, <3>2, <1>facts DEF RunningIn
      <4> QED BY <3>2, <4>1, ValuesTyped DEF Recovered
    <3>3. \A c \in AskedIn(turns) :
            ReceiptIn(turns', c) =
              IF c \notin S THEN ReceiptIn(turns, c)
              ELSE IF c \in RunningIn(turns) THEN Recovered(index) ELSE "notExecuted"
      BY <2>2 DEF Settles
    <3>4. AskedIn(turns') = AskedIn(turns) /\ S \subseteq OpenIn(turns)
      BY <2>2, <3>1 DEF Settles
    <3> HIDE DEF S
    <3>5. S # {} => /\ at' = "recovered" /\ index' = index
                    /\ \A c \in Calls :
                         c = <<index, turns[index].running>> /\ materials[c] = "bound" =>
                           c \in authorized'
      BY <2>1, <2>2 DEF S
    <3>6. authorized \subseteq authorized' /\ (S = {} => authorized' = authorized)
      BY <2>1, <2>2 DEF S
    <3>7. ASSUME NEW c \in Calls
          PROVE  /\ materials'[c] # "none" => Scientific' /\ c \in EffectCalls'
                 /\ materials'[c] = "listed" => ReceiptIn(turns', c) # "none"
      <4>1. materials[c] # "none" => Scientific /\ c \in EffectCalls /\ c \in AskedIn(turns)
        BY <1>inv DEF MaterialsInv, EffectsInv
      <4>2. materials'[c] = "listed" => c \in AskedIn(turns) /\ ReceiptIn(turns, c) # "none"
        BY <3>1, <4>1, <1>inv DEF MaterialsInv, OpenIn
      <4>3. materials'[c] # "none" => materials[c] # "none"
        BY <3>1
      <4> QED BY <2>3, <4>1, <4>2, <4>3 DEF Keeps
    <3>8. ASSUME NEW c \in Succeeded'
          PROVE  c \in authorized' /\ (c \in Unlisted' => c[1] >= index')
      <4>1. c \in AskedIn(turns) /\ c \in Calls /\ materials[c] # "none"
            /\ ReceiptIn(turns', c) \in {"ok", "registered"}
        BY <3>1, <3>4, <1>facts DEF Succeeded
      <4>2. CASE c \in S
        <5>1. c \in RunningIn(turns) /\ Recovered(index) = "registered"
          BY <2>2, <3>3, <4>1, <4>2
        <5> QED BY <3>1, <3>2, <3>5, <4>2, <5>1, <2>2, <1>facts
      <4>3. CASE c \notin S
        <5>1. c \in Succeeded /\ c \in authorized /\ c \notin OpenIn(turns)
          BY <3>3, <4>1, <4>3, <1>inv DEF MaterialsInv, Succeeded, OpenIn
        <5>2. c \in Unlisted' => c \in Unlisted /\ c[1] # index
          BY <3>1, <4>1, <5>1, <1>mat DEF Unlisted
        <5>3. c \in Unlisted' => c[1] >= index /\ c[1] # index
          BY <2>1, <5>2, <1>inv DEF MaterialsInv
        <5> QED BY <2>1, <3>6, <4>1, <5>1, <5>3, <1>facts
      <4> QED BY <4>2, <4>3
    <3> QED BY <2>1, <3>7, <3>8, <1>inv DEF MaterialsInv, Unlisted, RunningPoints, StatusInv
  <2> QED BY <2>2, <2>3, <2>4, <2>5, <2>6, <2>7, <2>8, <2>9, <2>10, <2>11, <2>12, <2>13, <2>14, <2>15,
    <1>types DEF IInv, TypesInv
<1>2. CASE AcknowledgeRecovered
  <2>1. /\ at = "recovered" /\ at' = "recover" /\ index' = index + 1
        /\ materials' = Acknowledge(ReceiptedCalls(index))
        /\ UNCHANGED <<turns, status, control, operation, checkpoint, terminal, seen,
                      authorized, cache, used, effects, approved, received, resolved, published,
                      texts, attention, interventions, crashes, request, failures, token, boundary,
                      profile, result>>
    BY <1>2 DEF AcknowledgeRecovered, vars, sessionVars, worldVars, ownerVars, localVars
  <2>2. TurnsTyped(turns, CallKinds)' /\ KeepsTurns /\ LastTurn' = LastTurn
    BY <1>2, <2>1, SameTurns
  <2>3. /\ Scientific' = Scientific
        /\ CallKinds' = CallKinds
        /\ LastReceived' = LastReceived /\ ReceivedCalls' = ReceivedCalls
        /\ EffectCalls' = EffectCalls
        /\ Current' = <<Len(turns'), index'>>
    BY <2>1, <2>2 DEF Scientific, CallKinds, LastReceived, ReceivedCalls, EffectCalls, Current,
      CallAt
  <2>4. CurrentInv' /\ WholeInv'
    BY <2>1, <2>2, <2>3, LimitsAssumption, <1>inv, <1>facts, <1>point DEF CurrentInv, WholeInv,
      RunningPoints, ApprovedPoints, StartingPoints, BatchPoints, KeepsTurns
  <2>5. EffectsInv' /\ TaskInv' /\ ReceivedInv' /\ StatusInv' /\ ResultCurrent' /\ RequestInv'
    BY <2>1, <2>2, <2>3, <1>inv, <1>facts, <1>point, <1>none, <1>owner DEF EffectsInv,
      CurrentInv, WholeInv, RunningPoints, ApprovedPoints, StartingPoints, BatchPoints,
      KeepsTurns, TaskInv, OwnerInv, ReceivedInv, StatusInv, ResultCurrent, RequestInv
  <2>6. ControlInv'
    BY <2>1, <2>2, <2>3, <1>inv, <1>facts, <1>point, <1>none, <1>owner DEF ControlInv,
      OwnerInv, StatusInv, RunningPoints, ApprovedPoints, StartingPoints, BatchPoints,
      UncontrolledPoints, KeepsTurns
  <2>7. ApprovalInv' /\ OwnerInv'
    BY <2>1, <2>2, <2>3, <1>inv, <1>facts, <1>point, <1>none, <1>owner DEF ApprovalInv,
      ControlInv, WholeInv, RunningPoints, ApprovedPoints, StartingPoints, BatchPoints,
      UncontrolledPoints, KeepsTurns, OwnerInv, StatusInv
  <2>8. CacheInv'
    BY <2>1, <2>2, <2>3, <1>inv, <1>facts, <1>point, <1>none, <1>owner DEF CacheInv,
      ControlInv, StatusInv, RequestInv, OwnerInv, RunningPoints, ApprovedPoints, StartingPoints,
      BatchPoints, UncontrolledPoints, Agrees, KeepsTurns
  <2>9. MaterialsInv'
    <3>1. \A c \in Calls : materials'[c] =
            IF c \in AskedIn(turns) \ OpenIn(turns) /\ c[1] = index /\ materials[c] = "bound"
            THEN "listed" ELSE materials[c]
      BY <2>1, <1>inv, Acknowledged DEF TypesInv, WholeInv
    <3>2. \A c \in Calls : (materials'[c] # "none" => Scientific' /\ c \in EffectCalls')
                        /\ (materials'[c] = "listed" => ReceiptIn(turns', c) # "none")
      BY <2>1, <2>3, <3>1, <1>inv DEF MaterialsInv, OpenIn
    <3>3. Succeeded' = Succeeded
      BY <2>1, <3>1, <1>facts DEF Succeeded
    <3>4. \A c \in Unlisted' : c[1] >= index'
      <4> SUFFICES ASSUME NEW c \in Unlisted' PROVE c[1] >= index'
        OBVIOUS
      <4>1. c \in Unlisted /\ c \in AskedIn(turns) \ OpenIn(turns) /\ c \in Calls
        BY <3>1, <3>3, <1>facts DEF Unlisted, Succeeded
      <4>2. c[1] >= index /\ c[1] # index
        BY <2>1, <3>1, <4>1, <1>mat, <1>inv DEF MaterialsInv, Unlisted, Succeeded
      <4> QED BY <2>1, <4>1, <4>2, <1>facts
    <3> QED BY <2>1, <3>2, <3>3, <3>4, <1>inv DEF MaterialsInv, RunningPoints, StatusInv
  <2> QED BY <2>2, <2>3, <2>4, <2>5, <2>6, <2>7, <2>8, <2>9, <1>types DEF IInv, TypesInv
<1>3. CASE RecoveryEnds
  <2>1. /\ at = "recover" /\ at' = "loop" /\ index' = 0 /\ index > Len(turns)
        /\ status' \in {status, "active"}
        /\ UNCHANGED <<control, operation, checkpoint, terminal, seen, authorized, cache,
                      used, effects, approved, materials, received, resolved, published, texts,
                      attention, interventions, crashes, request, failures, recovered, token,
                      boundary, profile, result>>
    BY <1>3 DEF RecoveryEnds, Saved, UnchangedButTurns, Visit, vars, sessionVars, worldVars,
      ownerVars, localVars
  <2>2. /\ TurnsTyped(turns, CallKinds)' /\ Asks(turns, turns', {})
        /\ Len(turns') >= Len(turns) /\ (Len(turns') = Len(turns) => turns' = turns)
    BY <1>3, <2>1, NoticeSteps
  <2>3. /\ Scientific' = Scientific
        /\ CallKinds' = CallKinds
        /\ LastReceived' = LastReceived /\ ReceivedCalls' = ReceivedCalls
        /\ EffectCalls' = EffectCalls
        /\ Keeps(turns, turns')
        /\ Len(turns') \in Nat
        /\ Current' = <<Len(turns'), index'>>
    BY <2>1, <2>2, KeepsSteps DEF Scientific, CallKinds, LastReceived, ReceivedCalls,
      EffectCalls, Current, CallAt, TurnsTyped
  <2>4. CurrentInv' /\ WholeInv'
    BY <2>1, <2>2, <2>3, LimitsAssumption, <1>inv, <1>facts, <1>point DEF CurrentInv, WholeInv,
      RunningPoints, ApprovedPoints, StartingPoints, BatchPoints, Asks
  <2>5. EffectsInv' /\ TaskInv' /\ ReceivedInv' /\ StatusInv' /\ ResultCurrent' /\ RequestInv'
    BY <2>1, <2>2, <2>3, <1>inv, <1>facts, <1>point, <1>none, <1>owner DEF EffectsInv,
      CurrentInv, WholeInv, RunningPoints, ApprovedPoints, StartingPoints, BatchPoints, Asks,
      TaskInv, OwnerInv, ReceivedInv, Keeps, StatusInv, ResultCurrent, RequestInv
  <2>6. ControlInv'
    BY <2>1, <2>2, <2>3, <1>inv, <1>facts, <1>point, <1>none, <1>owner DEF ControlInv,
      OwnerInv, StatusInv, RunningPoints, ApprovedPoints, StartingPoints, BatchPoints,
      UncontrolledPoints, Asks, Keeps
  <2>7. ApprovalInv' /\ OwnerInv'
    BY <2>1, <2>2, <2>3, <1>inv, <1>facts, <1>point, <1>none, <1>owner DEF ApprovalInv,
      ControlInv, WholeInv, RunningPoints, ApprovedPoints, StartingPoints, BatchPoints,
      UncontrolledPoints, Asks, Keeps, OwnerInv, StatusInv
  <2>8. CacheInv'
    BY <2>1, <2>2, <2>3, <1>inv, <1>facts, <1>point, <1>none, <1>owner DEF CacheInv,
      ControlInv, StatusInv, RequestInv, OwnerInv, RunningPoints, ApprovedPoints, StartingPoints,
      BatchPoints, UncontrolledPoints, Agrees, Asks, Keeps
  <2>9. MaterialsInv'
    BY <2>1, <2>2, <2>3, <1>inv, <1>facts, <1>point DEF MaterialsInv, CurrentInv, WholeInv,
      EffectsInv, RunningPoints, ApprovedPoints, StartingPoints, BatchPoints, Succeeded,
      Unlisted, Asks
  <2> QED BY <2>2, <2>3, <2>4, <2>5, <2>6, <2>7, <2>8, <2>9, <1>types DEF IInv, TypesInv
<1> QED BY <1>1, <1>2, <1>3

\* The loop and its batches keeps the invariant.
LEMMA LoopSteps ==
  ASSUME IInv, [Next]_vars,
         LoopFails \/ RequestFails \/ CallTimesOut \/ ReviewUnpaid \/ FinishFails \/ Yield \/
         CompactHistory \/ RequestModel \/ ReplyMalformed \/ AcceptBatch \/ RefuseBatch \/
         RecordRefusal \/ RefuseCall \/ ReviewInvalidated \/ ToolRaises \/ FinishRefused \/
         StartCall \/ RequestReview \/ ReviewAllows \/ PauseApproval \/ Execute \/
         RecordSuccess \/ RecordFailure \/ AcknowledgeCall \/ BatchEnds
  PROVE  IInv'
<1>inv. /\ TypesInv /\ CurrentInv /\ WholeInv /\ EffectsInv /\ TaskInv /\ ControlInv
        /\ ReceivedInv /\ ApprovalInv /\ OwnerInv /\ StatusInv /\ ResultCurrent /\ RequestInv /\ CacheInv
        /\ MaterialsInv
  BY DEF IInv
<1>types. FieldsInv'
  BY FieldsStep
<1>facts. /\ RunningIn(turns) \subseteq OpenIn(turns) /\ OpenIn(turns) \subseteq AskedIn(turns)
          /\ AskedIn(turns) \subseteq Calls /\ NoCall \notin Calls
          /\ \A c, d \in RunningIn(turns) : c[1] = d[1] => c = d
          /\ \A c \in AskedIn(turns) :
               /\ c[1] \in Nat /\ c[1] <= Len(turns) /\ c[2] \in Nat /\ c[1] > 0 /\ c[2] > 0
               /\ KindIn(turns, c) \in CallKinds
               /\ c[1] = Len(turns) => c = <<Len(turns), c[2]>> /\ c[2] <= Len(LastTurn.calls)
               /\ c[2] <= MaxBatch /\ (KindIn(turns, c) = "guarded" => ~Scientific)
          /\ Len(turns) \in Nat /\ index \in Nat /\ FailureLimit \in Nat /\ MaxBatch \in Nat
          /\ turns # <<>> <=> Len(turns) > 0
          /\ crashes \in Nat /\ published \in Nat /\ seen \in Nat /\ checkpoint \in Nat
          /\ \A c \in OpenIn(turns) : ReceiptIn(turns, c) = "none"
  BY StateFacts
<1>point. /\ at \in RunningPoints \union ApprovedPoints \union {"reviewing"} =>
               Current \in OpenIn(turns)
          /\ at \in {"succeeded", "tried", "controlled", "finished"} =>
               Current \in AskedIn(turns) /\ Current \notin OpenIn(turns)
          /\ at = "call" /\ index <= Len(LastTurn.calls) => Current \in OpenIn(turns)
          /\ \A c \in AskedIn(turns) : c = Current => Kind = KindIn(turns, c)
          /\ Current = <<Len(turns), index>> /\ Current[1] = Len(turns) /\ Current[2] = index
  BY PointFacts
<1>owner. /\ LastReceived \in Calls \union {NoCall} /\ Unresolved \subseteq Calls
          /\ received # <<>> => LastReceived \in ReceivedCalls
          /\ LastReceived = NoCall <=> received = <<>>
          /\ ReceivedCalls \subseteq Calls
  BY <1>inv, ReceivedTyped
<1>approve. /\ control.action = "approve" => ~Scientific /\ KindIn(turns, control.call) = "guarded"
            /\ \A i \in DOMAIN received : received[i].action = "approve" =>
                 ~Scientific /\ received[i].call \in AskedIn(turns)
  BY <1>inv, ApprovalOf, ValuesTyped DEF ControlInv, ReceivedInv, NoControl
<1>eff. effects \in [Calls -> Nat]
  BY <1>inv DEF TypesInv, FieldsInv, WorldFields
<1>mat. materials \in [Calls -> {"none", "bound", "listed"}]
  BY <1>inv DEF TypesInv, FieldsInv, WorldFields
<1>cache. cache \in [Calls \union {NoCall} -> Results] /\ NoCall \notin Calls
  BY <1>inv, <1>facts DEF TypesInv, FieldsInv, SavedFields
<1>none. /\ NoControl.action = "none" /\ NoControl.call = NoCall
         /\ "none" \notin ControlKinds /\ "approve" \notin ControlKinds
         /\ NoResult.kind = "none" /\ NoResult.control = NoControl
         /\ \A kind : Result(kind).kind = kind /\ Result(kind).control = NoControl
  BY DEF NoControl, ControlKinds, NoResult, Result
<1>1. CASE LoopFails
  <2>1. /\ at = "loop" /\ at' = "failing"
        /\ UNCHANGED <<turns, status, control, operation, checkpoint, terminal, seen,
                      authorized, cache, used, effects, approved, materials, received, resolved,
                      published, texts, attention, interventions, crashes, request, index, failures,
                      recovered, token, boundary, profile, result>>
    BY <1>1 DEF LoopFails, Fail, GoTo, vars, sessionVars, worldVars, ownerVars, localVars
  <2>2. TurnsTyped(turns, CallKinds)' /\ KeepsTurns /\ LastTurn' = LastTurn
    BY <1>1, <2>1, SameTurns
  <2>3. /\ Scientific' = Scientific
        /\ CallKinds' = CallKinds
        /\ LastReceived' = LastReceived /\ ReceivedCalls' = ReceivedCalls
        /\ EffectCalls' = EffectCalls
        /\ Current' = Current
    BY <2>1, <2>2 DEF Scientific, CallKinds, LastReceived, ReceivedCalls, EffectCalls, Current,
      CallAt, KeepsTurns
  <2>4. CurrentInv' /\ WholeInv'
    BY <2>1, <2>2, <2>3, LimitsAssumption, <1>inv, <1>facts, <1>point DEF CurrentInv, WholeInv,
      RunningPoints, ApprovedPoints, StartingPoints, BatchPoints, KeepsTurns
  <2>5. EffectsInv' /\ TaskInv' /\ ReceivedInv' /\ StatusInv' /\ ResultCurrent' /\ RequestInv'
    BY <2>1, <2>2, <2>3, <1>inv, <1>facts, <1>point, <1>none, <1>owner DEF EffectsInv,
      CurrentInv, WholeInv, RunningPoints, ApprovedPoints, StartingPoints, BatchPoints,
      KeepsTurns, TaskInv, OwnerInv, ReceivedInv, StatusInv, ResultCurrent, RequestInv
  <2>6. ControlInv'
    BY <2>1, <2>2, <2>3, <1>inv, <1>facts, <1>point, <1>none, <1>owner DEF ControlInv,
      OwnerInv, StatusInv, RunningPoints, ApprovedPoints, StartingPoints, BatchPoints,
      UncontrolledPoints, KeepsTurns
  <2>7. ApprovalInv' /\ OwnerInv'
    BY <2>1, <2>2, <2>3, <1>inv, <1>facts, <1>point, <1>none, <1>owner DEF ApprovalInv,
      ControlInv, WholeInv, RunningPoints, ApprovedPoints, StartingPoints, BatchPoints,
      UncontrolledPoints, KeepsTurns, OwnerInv, StatusInv
  <2>8. CacheInv'
    BY <2>1, <2>2, <2>3, <1>inv, <1>facts, <1>point, <1>none, <1>owner DEF CacheInv,
      ControlInv, StatusInv, RequestInv, OwnerInv, RunningPoints, ApprovedPoints, StartingPoints,
      BatchPoints, UncontrolledPoints, Agrees, KeepsTurns
  <2>9. MaterialsInv'
    BY <2>1, <2>2, <2>3, <1>inv, <1>facts, <1>point DEF MaterialsInv, CurrentInv, WholeInv,
      EffectsInv, RunningPoints, ApprovedPoints, StartingPoints, BatchPoints, Succeeded,
      Unlisted, KeepsTurns
  <2> QED BY <2>2, <2>3, <2>4, <2>5, <2>6, <2>7, <2>8, <2>9, <1>types DEF IInv, TypesInv
<1>2. CASE RequestFails
  <2>1. /\ at = "replying" /\ at' = "failing"
        /\ UNCHANGED <<turns, status, control, operation, checkpoint, terminal, seen,
                      authorized, cache, used, effects, approved, materials, received, resolved,
                      published, texts, attention, interventions, crashes, request, index, failures,
                      recovered, token, boundary, profile, result>>
    BY <1>2 DEF RequestFails, Fail, GoTo, vars, sessionVars, worldVars, ownerVars, localVars
  <2>2. TurnsTyped(turns, CallKinds)' /\ KeepsTurns /\ LastTurn' = LastTurn
    BY <1>2, <2>1, SameTurns
  <2>3. /\ Scientific' = Scientific
        /\ CallKinds' = CallKinds
        /\ LastReceived' = LastReceived /\ ReceivedCalls' = ReceivedCalls
        /\ EffectCalls' = EffectCalls
        /\ Current' = Current
    BY <2>1, <2>2 DEF Scientific, CallKinds, LastReceived, ReceivedCalls, EffectCalls, Current,
      CallAt, KeepsTurns
  <2>4. CurrentInv' /\ WholeInv'
    BY <2>1, <2>2, <2>3, LimitsAssumption, <1>inv, <1>facts, <1>point DEF CurrentInv, WholeInv,
      RunningPoints, ApprovedPoints, StartingPoints, BatchPoints, KeepsTurns
  <2>5. EffectsInv' /\ TaskInv' /\ ReceivedInv' /\ StatusInv' /\ ResultCurrent' /\ RequestInv'
    BY <2>1, <2>2, <2>3, <1>inv, <1>facts, <1>point, <1>none, <1>owner DEF EffectsInv,
      CurrentInv, WholeInv, RunningPoints, ApprovedPoints, StartingPoints, BatchPoints,
      KeepsTurns, TaskInv, OwnerInv, ReceivedInv, StatusInv, ResultCurrent, RequestInv
  <2>6. ControlInv'
    BY <2>1, <2>2, <2>3, <1>inv, <1>facts, <1>point, <1>none, <1>owner DEF ControlInv,
      OwnerInv, StatusInv, RunningPoints, ApprovedPoints, StartingPoints, BatchPoints,
      UncontrolledPoints, KeepsTurns
  <2>7. ApprovalInv' /\ OwnerInv'
    BY <2>1, <2>2, <2>3, <1>inv, <1>facts, <1>point, <1>none, <1>owner DEF ApprovalInv,
      ControlInv, WholeInv, RunningPoints, ApprovedPoints, StartingPoints, BatchPoints,
      UncontrolledPoints, KeepsTurns, OwnerInv, StatusInv
  <2>8. CacheInv'
    BY <2>1, <2>2, <2>3, <1>inv, <1>facts, <1>point, <1>none, <1>owner DEF CacheInv,
      ControlInv, StatusInv, RequestInv, OwnerInv, RunningPoints, ApprovedPoints, StartingPoints,
      BatchPoints, UncontrolledPoints, Agrees, KeepsTurns
  <2>9. MaterialsInv'
    BY <2>1, <2>2, <2>3, <1>inv, <1>facts, <1>point DEF MaterialsInv, CurrentInv, WholeInv,
      EffectsInv, RunningPoints, ApprovedPoints, StartingPoints, BatchPoints, Succeeded,
      Unlisted, KeepsTurns
  <2> QED BY <2>2, <2>3, <2>4, <2>5, <2>6, <2>7, <2>8, <2>9, <1>types DEF IInv, TypesInv
<1>3. CASE CallTimesOut
  <2>1. /\ at = "call" /\ at' = "failing"
        /\ UNCHANGED <<turns, status, control, operation, checkpoint, terminal, seen,
                      authorized, cache, used, effects, approved, materials, received, resolved,
                      published, texts, attention, interventions, crashes, request, index, failures,
                      recovered, token, boundary, profile, result>>
    BY <1>3 DEF CallTimesOut, AtCall, Fail, GoTo, vars, sessionVars, worldVars, ownerVars,
      localVars
  <2>2. TurnsTyped(turns, CallKinds)' /\ KeepsTurns /\ LastTurn' = LastTurn
    BY <1>3, <2>1, SameTurns
  <2>3. /\ Scientific' = Scientific
        /\ CallKinds' = CallKinds
        /\ LastReceived' = LastReceived /\ ReceivedCalls' = ReceivedCalls
        /\ EffectCalls' = EffectCalls
        /\ Current' = Current
    BY <2>1, <2>2 DEF Scientific, CallKinds, LastReceived, ReceivedCalls, EffectCalls, Current,
      CallAt, KeepsTurns
  <2>4. CurrentInv' /\ WholeInv'
    BY <2>1, <2>2, <2>3, LimitsAssumption, <1>inv, <1>facts, <1>point DEF CurrentInv, WholeInv,
      RunningPoints, ApprovedPoints, StartingPoints, BatchPoints, KeepsTurns
  <2>5. EffectsInv' /\ TaskInv' /\ ReceivedInv' /\ StatusInv' /\ ResultCurrent' /\ RequestInv'
    BY <2>1, <2>2, <2>3, <1>inv, <1>facts, <1>point, <1>none, <1>owner DEF EffectsInv,
      CurrentInv, WholeInv, RunningPoints, ApprovedPoints, StartingPoints, BatchPoints,
      KeepsTurns, TaskInv, OwnerInv, ReceivedInv, StatusInv, ResultCurrent, RequestInv
  <2>6. ControlInv'
    BY <2>1, <2>2, <2>3, <1>inv, <1>facts, <1>point, <1>none, <1>owner DEF ControlInv,
      OwnerInv, StatusInv, RunningPoints, ApprovedPoints, StartingPoints, BatchPoints,
      UncontrolledPoints, KeepsTurns
  <2>7. ApprovalInv' /\ OwnerInv'
    BY <2>1, <2>2, <2>3, <1>inv, <1>facts, <1>point, <1>none, <1>owner DEF ApprovalInv,
      ControlInv, WholeInv, RunningPoints, ApprovedPoints, StartingPoints, BatchPoints,
      UncontrolledPoints, KeepsTurns, OwnerInv, StatusInv
  <2>8. CacheInv'
    BY <2>1, <2>2, <2>3, <1>inv, <1>facts, <1>point, <1>none, <1>owner DEF CacheInv,
      ControlInv, StatusInv, RequestInv, OwnerInv, RunningPoints, ApprovedPoints, StartingPoints,
      BatchPoints, UncontrolledPoints, Agrees, KeepsTurns
  <2>9. MaterialsInv'
    BY <2>1, <2>2, <2>3, <1>inv, <1>facts, <1>point DEF MaterialsInv, CurrentInv, WholeInv,
      EffectsInv, RunningPoints, ApprovedPoints, StartingPoints, BatchPoints, Succeeded,
      Unlisted, KeepsTurns
  <2> QED BY <2>2, <2>3, <2>4, <2>5, <2>6, <2>7, <2>8, <2>9, <1>types DEF IInv, TypesInv
<1>4. CASE ReviewUnpaid
  <2>1. /\ at = "call" /\ at' = "failing"
        /\ UNCHANGED <<turns, status, control, operation, checkpoint, terminal, seen,
                      authorized, cache, used, effects, approved, materials, received, resolved,
                      published, texts, attention, interventions, crashes, request, index, failures,
                      recovered, token, boundary, profile, result>>
    BY <1>4 DEF ReviewUnpaid, AtCall, Fail, GoTo, vars, sessionVars, worldVars, ownerVars,
      localVars
  <2>2. TurnsTyped(turns, CallKinds)' /\ KeepsTurns /\ LastTurn' = LastTurn
    BY <1>4, <2>1, SameTurns
  <2>3. /\ Scientific' = Scientific
        /\ CallKinds' = CallKinds
        /\ LastReceived' = LastReceived /\ ReceivedCalls' = ReceivedCalls
        /\ EffectCalls' = EffectCalls
        /\ Current' = Current
    BY <2>1, <2>2 DEF Scientific, CallKinds, LastReceived, ReceivedCalls, EffectCalls, Current,
      CallAt, KeepsTurns
  <2>4. CurrentInv' /\ WholeInv'
    BY <2>1, <2>2, <2>3, LimitsAssumption, <1>inv, <1>facts, <1>point DEF CurrentInv, WholeInv,
      RunningPoints, ApprovedPoints, StartingPoints, BatchPoints, KeepsTurns
  <2>5. EffectsInv' /\ TaskInv' /\ ReceivedInv' /\ StatusInv' /\ ResultCurrent' /\ RequestInv'
    BY <2>1, <2>2, <2>3, <1>inv, <1>facts, <1>point, <1>none, <1>owner DEF EffectsInv,
      CurrentInv, WholeInv, RunningPoints, ApprovedPoints, StartingPoints, BatchPoints,
      KeepsTurns, TaskInv, OwnerInv, ReceivedInv, StatusInv, ResultCurrent, RequestInv
  <2>6. ControlInv'
    BY <2>1, <2>2, <2>3, <1>inv, <1>facts, <1>point, <1>none, <1>owner DEF ControlInv,
      OwnerInv, StatusInv, RunningPoints, ApprovedPoints, StartingPoints, BatchPoints,
      UncontrolledPoints, KeepsTurns
  <2>7. ApprovalInv' /\ OwnerInv'
    BY <2>1, <2>2, <2>3, <1>inv, <1>facts, <1>point, <1>none, <1>owner DEF ApprovalInv,
      ControlInv, WholeInv, RunningPoints, ApprovedPoints, StartingPoints, BatchPoints,
      UncontrolledPoints, KeepsTurns, OwnerInv, StatusInv
  <2>8. CacheInv'
    BY <2>1, <2>2, <2>3, <1>inv, <1>facts, <1>point, <1>none, <1>owner DEF CacheInv,
      ControlInv, StatusInv, RequestInv, OwnerInv, RunningPoints, ApprovedPoints, StartingPoints,
      BatchPoints, UncontrolledPoints, Agrees, KeepsTurns
  <2>9. MaterialsInv'
    BY <2>1, <2>2, <2>3, <1>inv, <1>facts, <1>point DEF MaterialsInv, CurrentInv, WholeInv,
      EffectsInv, RunningPoints, ApprovedPoints, StartingPoints, BatchPoints, Succeeded,
      Unlisted, KeepsTurns
  <2> QED BY <2>2, <2>3, <2>4, <2>5, <2>6, <2>7, <2>8, <2>9, <1>types DEF IInv, TypesInv
<1>5. CASE FinishFails
  <2>1. /\ at = "finished" /\ at' = "failing"
        /\ UNCHANGED <<turns, status, control, operation, checkpoint, terminal, seen,
                      authorized, cache, used, effects, approved, materials, received, resolved,
                      published, texts, attention, interventions, crashes, request, index, failures,
                      recovered, token, boundary, profile, result>>
    BY <1>5 DEF FinishFails, Fail, GoTo, vars, sessionVars, worldVars, ownerVars, localVars
  <2>2. TurnsTyped(turns, CallKinds)' /\ KeepsTurns /\ LastTurn' = LastTurn
    BY <1>5, <2>1, SameTurns
  <2>3. /\ Scientific' = Scientific
        /\ CallKinds' = CallKinds
        /\ LastReceived' = LastReceived /\ ReceivedCalls' = ReceivedCalls
        /\ EffectCalls' = EffectCalls
        /\ Current' = Current
    BY <2>1, <2>2 DEF Scientific, CallKinds, LastReceived, ReceivedCalls, EffectCalls, Current,
      CallAt, KeepsTurns
  <2>4. CurrentInv' /\ WholeInv'
    BY <2>1, <2>2, <2>3, LimitsAssumption, <1>inv, <1>facts, <1>point DEF CurrentInv, WholeInv,
      RunningPoints, ApprovedPoints, StartingPoints, BatchPoints, KeepsTurns
  <2>5. EffectsInv' /\ TaskInv' /\ ReceivedInv' /\ StatusInv' /\ ResultCurrent' /\ RequestInv'
    BY <2>1, <2>2, <2>3, <1>inv, <1>facts, <1>point, <1>none, <1>owner DEF EffectsInv,
      CurrentInv, WholeInv, RunningPoints, ApprovedPoints, StartingPoints, BatchPoints,
      KeepsTurns, TaskInv, OwnerInv, ReceivedInv, StatusInv, ResultCurrent, RequestInv
  <2>6. ControlInv'
    BY <2>1, <2>2, <2>3, <1>inv, <1>facts, <1>point, <1>none, <1>owner DEF ControlInv,
      OwnerInv, StatusInv, RunningPoints, ApprovedPoints, StartingPoints, BatchPoints,
      UncontrolledPoints, KeepsTurns
  <2>7. ApprovalInv' /\ OwnerInv'
    BY <2>1, <2>2, <2>3, <1>inv, <1>facts, <1>point, <1>none, <1>owner DEF ApprovalInv,
      ControlInv, WholeInv, RunningPoints, ApprovedPoints, StartingPoints, BatchPoints,
      UncontrolledPoints, KeepsTurns, OwnerInv, StatusInv
  <2>8. CacheInv'
    BY <2>1, <2>2, <2>3, <1>inv, <1>facts, <1>point, <1>none, <1>owner DEF CacheInv,
      ControlInv, StatusInv, RequestInv, OwnerInv, RunningPoints, ApprovedPoints, StartingPoints,
      BatchPoints, UncontrolledPoints, Agrees, KeepsTurns
  <2>9. MaterialsInv'
    BY <2>1, <2>2, <2>3, <1>inv, <1>facts, <1>point DEF MaterialsInv, CurrentInv, WholeInv,
      EffectsInv, RunningPoints, ApprovedPoints, StartingPoints, BatchPoints, Succeeded,
      Unlisted, KeepsTurns
  <2> QED BY <2>2, <2>3, <2>4, <2>5, <2>6, <2>7, <2>8, <2>9, <1>types DEF IInv, TypesInv
<1>6. CASE Yield
  <2>1. /\ at = "loop" /\ at' = "returning" /\ Scientific /\ status' = "paused"
        /\ result' = Result("yielded")
        /\ UNCHANGED <<turns, control, operation, checkpoint, terminal, seen, authorized,
                      cache, used, effects, approved, materials, received, resolved, published, texts,
                      attention, interventions, crashes, request, index, failures, recovered, token,
                      boundary, profile>>
    BY <1>6 DEF Yield, UnchangedButTurns, Answer, vars, sessionVars, worldVars, ownerVars,
      localVars
  <2>2. TurnsTyped(turns, CallKinds)' /\ KeepsTurns /\ LastTurn' = LastTurn
    BY <1>6, <2>1, SameTurns
  <2>3. /\ Scientific' = Scientific
        /\ CallKinds' = CallKinds
        /\ LastReceived' = LastReceived /\ ReceivedCalls' = ReceivedCalls
        /\ EffectCalls' = EffectCalls
        /\ Current' = Current
    BY <2>1, <2>2 DEF Scientific, CallKinds, LastReceived, ReceivedCalls, EffectCalls, Current,
      CallAt, KeepsTurns
  <2>4. CurrentInv' /\ WholeInv'
    BY <2>1, <2>2, <2>3, LimitsAssumption, <1>inv, <1>facts, <1>point DEF CurrentInv, WholeInv,
      RunningPoints, ApprovedPoints, StartingPoints, BatchPoints, KeepsTurns
  <2>5. EffectsInv' /\ TaskInv' /\ ReceivedInv' /\ StatusInv' /\ ResultCurrent' /\ RequestInv'
    BY <2>1, <2>2, <2>3, <1>inv, <1>facts, <1>point, <1>none, <1>owner DEF EffectsInv,
      CurrentInv, WholeInv, RunningPoints, ApprovedPoints, StartingPoints, BatchPoints,
      KeepsTurns, TaskInv, OwnerInv, ReceivedInv, StatusInv, ResultCurrent, RequestInv
  <2>6. ControlInv'
    BY <2>1, <2>2, <2>3, <1>inv, <1>facts, <1>point, <1>none, <1>owner DEF ControlInv,
      OwnerInv, StatusInv, RunningPoints, ApprovedPoints, StartingPoints, BatchPoints,
      UncontrolledPoints, KeepsTurns
  <2>7. ApprovalInv' /\ OwnerInv'
    BY <2>1, <2>2, <2>3, <1>inv, <1>facts, <1>point, <1>none, <1>owner DEF ApprovalInv,
      ControlInv, WholeInv, RunningPoints, ApprovedPoints, StartingPoints, BatchPoints,
      UncontrolledPoints, KeepsTurns, OwnerInv, StatusInv
  <2>8. CacheInv'
    BY <2>1, <2>2, <2>3, <1>inv, <1>facts, <1>point, <1>none, <1>owner DEF CacheInv,
      ControlInv, StatusInv, RequestInv, OwnerInv, RunningPoints, ApprovedPoints, StartingPoints,
      BatchPoints, UncontrolledPoints, Agrees, KeepsTurns
  <2>9. MaterialsInv'
    BY <2>1, <2>2, <2>3, <1>inv, <1>facts, <1>point DEF MaterialsInv, CurrentInv, WholeInv,
      EffectsInv, RunningPoints, ApprovedPoints, StartingPoints, BatchPoints, Succeeded,
      Unlisted, KeepsTurns
  <2> QED BY <2>2, <2>3, <2>4, <2>5, <2>6, <2>7, <2>8, <2>9, <1>types DEF IInv, TypesInv
<1>7. CASE CompactHistory
  <2>1. /\ at = "loop" /\ status' = "active"
        /\ checkpoint' \in (checkpoint + 1)..(Len(turns) - 1)
        /\ UNCHANGED <<turns, control, operation, terminal, seen, authorized, cache,
                      effects, approved, materials, received, resolved, published, texts, attention,
                      interventions, crashes, at, request, index, failures, recovered, token,
                      boundary, profile, result>>
    BY <1>7 DEF CompactHistory, MayRequest, Saved, GoTo, vars, sessionVars, worldVars,
      ownerVars, localVars
  <2>2. TurnsTyped(turns, CallKinds)' /\ KeepsTurns /\ LastTurn' = LastTurn
    BY <1>7, <2>1, SameTurns
  <2>3. /\ Scientific' = Scientific
        /\ CallKinds' = CallKinds
        /\ LastReceived' = LastReceived /\ ReceivedCalls' = ReceivedCalls
        /\ EffectCalls' = EffectCalls
        /\ Current' = Current
    BY <2>1, <2>2 DEF Scientific, CallKinds, LastReceived, ReceivedCalls, EffectCalls, Current,
      CallAt, KeepsTurns
  <2>4. CurrentInv'
    BY <2>1, <2>2, <2>3, LimitsAssumption, <1>inv, <1>facts, <1>point DEF CurrentInv, WholeInv,
      RunningPoints, ApprovedPoints, StartingPoints, BatchPoints, KeepsTurns
  <2>5. WholeInv'
    BY <2>1, <2>2, <2>3, <1>inv, <1>facts, <1>point DEF WholeInv, CurrentInv, RunningPoints,
      ApprovedPoints, StartingPoints, BatchPoints, KeepsTurns
  <2>6. EffectsInv' /\ TaskInv' /\ ReceivedInv' /\ StatusInv' /\ ResultCurrent' /\ RequestInv'
    BY <2>1, <2>2, <2>3, <1>inv, <1>facts, <1>point, <1>none, <1>owner DEF EffectsInv,
      CurrentInv, WholeInv, RunningPoints, ApprovedPoints, StartingPoints, BatchPoints,
      KeepsTurns, TaskInv, OwnerInv, ReceivedInv, StatusInv, ResultCurrent, RequestInv
  <2>7. ControlInv'
    BY <2>1, <2>2, <2>3, <1>inv, <1>facts, <1>point, <1>none, <1>owner DEF ControlInv,
      OwnerInv, StatusInv, RunningPoints, ApprovedPoints, StartingPoints, BatchPoints,
      UncontrolledPoints, KeepsTurns
  <2>8. ApprovalInv' /\ OwnerInv'
    BY <2>1, <2>2, <2>3, <1>inv, <1>facts, <1>point, <1>none, <1>owner DEF ApprovalInv,
      ControlInv, WholeInv, RunningPoints, ApprovedPoints, StartingPoints, BatchPoints,
      UncontrolledPoints, KeepsTurns, OwnerInv, StatusInv
  <2>9. CacheInv'
    BY <2>1, <2>2, <2>3, <1>inv, <1>facts, <1>point, <1>none, <1>owner DEF CacheInv,
      ControlInv, StatusInv, RequestInv, OwnerInv, RunningPoints, ApprovedPoints, StartingPoints,
      BatchPoints, UncontrolledPoints, Agrees, KeepsTurns
  <2>10. MaterialsInv'
    BY <2>1, <2>2, <2>3, <1>inv, <1>facts, <1>point DEF MaterialsInv, CurrentInv, WholeInv,
      EffectsInv, RunningPoints, ApprovedPoints, StartingPoints, BatchPoints, Succeeded,
      Unlisted, KeepsTurns
  <2> QED BY <2>2, <2>3, <2>4, <2>5, <2>6, <2>7, <2>8, <2>9, <2>10, <1>types DEF IInv, TypesInv
<1>8. CASE RequestModel
  <2>1. /\ at = "loop" /\ at' = "replying"
        /\ UNCHANGED <<turns, status, control, operation, checkpoint, terminal, seen,
                      authorized, cache, effects, approved, materials, received, resolved, published,
                      texts, attention, interventions, crashes, request, index, failures, recovered,
                      token, boundary, profile, result>>
    BY <1>8 DEF RequestModel, MayRequest, GoTo, vars, sessionVars, worldVars, ownerVars,
      localVars
  <2>2. TurnsTyped(turns, CallKinds)' /\ KeepsTurns /\ LastTurn' = LastTurn
    BY <1>8, <2>1, SameTurns
  <2>3. /\ Scientific' = Scientific
        /\ CallKinds' = CallKinds
        /\ LastReceived' = LastReceived /\ ReceivedCalls' = ReceivedCalls
        /\ EffectCalls' = EffectCalls
        /\ Current' = Current
    BY <2>1, <2>2 DEF Scientific, CallKinds, LastReceived, ReceivedCalls, EffectCalls, Current,
      CallAt, KeepsTurns
  <2>4. CurrentInv' /\ WholeInv'
    BY <2>1, <2>2, <2>3, LimitsAssumption, <1>inv, <1>facts, <1>point DEF CurrentInv, WholeInv,
      RunningPoints, ApprovedPoints, StartingPoints, BatchPoints, KeepsTurns
  <2>5. EffectsInv' /\ TaskInv' /\ ReceivedInv' /\ StatusInv' /\ ResultCurrent' /\ RequestInv'
    BY <2>1, <2>2, <2>3, <1>inv, <1>facts, <1>point, <1>none, <1>owner DEF EffectsInv,
      CurrentInv, WholeInv, RunningPoints, ApprovedPoints, StartingPoints, BatchPoints,
      KeepsTurns, TaskInv, OwnerInv, ReceivedInv, StatusInv, ResultCurrent, RequestInv
  <2>6. ControlInv'
    BY <2>1, <2>2, <2>3, <1>inv, <1>facts, <1>point, <1>none, <1>owner DEF ControlInv,
      OwnerInv, StatusInv, RunningPoints, ApprovedPoints, StartingPoints, BatchPoints,
      UncontrolledPoints, KeepsTurns
  <2>7. ApprovalInv' /\ OwnerInv'
    BY <2>1, <2>2, <2>3, <1>inv, <1>facts, <1>point, <1>none, <1>owner DEF ApprovalInv,
      ControlInv, WholeInv, RunningPoints, ApprovedPoints, StartingPoints, BatchPoints,
      UncontrolledPoints, KeepsTurns, OwnerInv, StatusInv
  <2>8. CacheInv'
    BY <2>1, <2>2, <2>3, <1>inv, <1>facts, <1>point, <1>none, <1>owner DEF CacheInv,
      ControlInv, StatusInv, RequestInv, OwnerInv, RunningPoints, ApprovedPoints, StartingPoints,
      BatchPoints, UncontrolledPoints, Agrees, KeepsTurns
  <2>9. MaterialsInv'
    BY <2>1, <2>2, <2>3, <1>inv, <1>facts, <1>point DEF MaterialsInv, CurrentInv, WholeInv,
      EffectsInv, RunningPoints, ApprovedPoints, StartingPoints, BatchPoints, Succeeded,
      Unlisted, KeepsTurns
  <2> QED BY <2>2, <2>3, <2>4, <2>5, <2>6, <2>7, <2>8, <2>9, <1>types DEF IInv, TypesInv
<1>9. CASE ReplyMalformed
  <2>1. /\ at = "replying" /\ at' \in {"loop", "failing"} /\ status' = "active"
        /\ UNCHANGED <<control, operation, checkpoint, terminal, seen, authorized, cache,
                      used, effects, approved, materials, received, resolved, published, texts,
                      attention, interventions, crashes, request, index, recovered, token, boundary,
                      profile, result>>
    BY <1>9 DEF ReplyMalformed, Saved, UnchangedButTurns, NoteFailure, vars, sessionVars,
      worldVars, ownerVars, localVars
  <2>2. /\ TurnsTyped(turns, CallKinds)' /\ Asks(turns, turns', {})
        /\ Len(turns') >= Len(turns) /\ (Len(turns') = Len(turns) => turns' = turns)
    BY <1>9, <2>1, NoticeSteps
  <2>3. /\ Scientific' = Scientific
        /\ CallKinds' = CallKinds
        /\ LastReceived' = LastReceived /\ ReceivedCalls' = ReceivedCalls
        /\ EffectCalls' = EffectCalls
        /\ Keeps(turns, turns')
        /\ Len(turns') \in Nat
        /\ Current' = <<Len(turns'), index'>>
    BY <2>1, <2>2, KeepsSteps DEF Scientific, CallKinds, LastReceived, ReceivedCalls,
      EffectCalls, Current, CallAt, TurnsTyped
  <2>4. CurrentInv'
    <3>1. /\ at' \in {"loop", "failing"} /\ index' = index
          /\ Len(turns') \in Nat /\ Len(turns') >= Len(turns)
      BY <2>1, <2>2, <2>3
    <3>2. index' <= Len(turns') + MaxBatch + 1
      BY <3>1, <1>inv, <1>facts, LimitsAssumption DEF CurrentInv
    <3> QED BY <3>1, <3>2 DEF CurrentInv, RunningPoints, ApprovedPoints, StartingPoints,
        BatchPoints
  <2>5. WholeInv'
    BY <2>1, <2>2, <2>3, <1>inv, <1>facts, <1>point DEF WholeInv, CurrentInv, RunningPoints,
      ApprovedPoints, StartingPoints, BatchPoints, Asks
  <2>6. EffectsInv' /\ TaskInv' /\ ReceivedInv' /\ StatusInv' /\ ResultCurrent' /\ RequestInv'
    BY <2>1, <2>2, <2>3, <1>inv, <1>facts, <1>point, <1>none, <1>owner DEF EffectsInv,
      CurrentInv, WholeInv, RunningPoints, ApprovedPoints, StartingPoints, BatchPoints, Asks,
      TaskInv, OwnerInv, ReceivedInv, Keeps, StatusInv, ResultCurrent, RequestInv
  <2>7. ControlInv'
    BY <2>1, <2>2, <2>3, <1>inv, <1>facts, <1>point, <1>none, <1>owner DEF ControlInv,
      OwnerInv, StatusInv, RunningPoints, ApprovedPoints, StartingPoints, BatchPoints,
      UncontrolledPoints, Asks, Keeps
  <2>8. ApprovalInv' /\ OwnerInv'
    BY <2>1, <2>2, <2>3, <1>inv, <1>facts, <1>point, <1>none, <1>owner DEF ApprovalInv,
      ControlInv, WholeInv, RunningPoints, ApprovedPoints, StartingPoints, BatchPoints,
      UncontrolledPoints, Asks, Keeps, OwnerInv, StatusInv
  <2>9. CacheInv'
    BY <2>1, <2>2, <2>3, <1>inv, <1>facts, <1>point, <1>none, <1>owner DEF CacheInv,
      ControlInv, StatusInv, RequestInv, OwnerInv, RunningPoints, ApprovedPoints, StartingPoints,
      BatchPoints, UncontrolledPoints, Agrees, Asks, Keeps
  <2>10. MaterialsInv'
    BY <2>1, <2>2, <2>3, <1>inv, <1>facts, <1>point DEF MaterialsInv, CurrentInv, WholeInv,
      EffectsInv, RunningPoints, ApprovedPoints, StartingPoints, BatchPoints, Succeeded,
      Unlisted, Asks
  <2> QED BY <2>2, <2>3, <2>4, <2>5, <2>6, <2>7, <2>8, <2>9, <2>10, <1>types DEF IInv, TypesInv
<1>10. CASE AcceptBatch
  <2>1. /\ at = "replying" /\ at' = "call" /\ index' = 1 /\ status' = "active"
        /\ UNCHANGED <<control, operation, checkpoint, terminal, seen, authorized, cache,
                      used, effects, approved, materials, received, resolved, published, texts,
                      attention, interventions, crashes, request, failures, recovered, token,
                      boundary, profile, result>>
    BY <1>10 DEF AcceptBatch, SaveReply, Saved, UnchangedButTurns, Visit, vars, sessionVars,
      worldVars, ownerVars, localVars
  <2>2. /\ TurnsTyped(turns, CallKinds)' /\ Len(turns') = Len(turns) + 1
        /\ \A m \in 1..Len(turns) : turns'[m].calls = turns[m].calls
        /\ Asks(turns, turns', AskedAfter(turns, turns')) /\ Len(LastTurn'.calls) \in Nat \ {0}
        /\ Acceptable(LastTurn'.calls)
    BY <1>10, <2>1, ReplyGives DEF AcceptBatch
  <2>3. /\ Scientific' = Scientific
        /\ CallKinds' = CallKinds
        /\ LastReceived' = LastReceived /\ ReceivedCalls' = ReceivedCalls
        /\ EffectCalls' = EffectCalls
        /\ Keeps(turns, turns')
        /\ Len(turns') \in Nat
        /\ Current' = <<Len(turns'), index'>>
    BY <2>1, <2>2, KeepsSteps DEF Scientific, CallKinds, LastReceived, ReceivedCalls,
      EffectCalls, Current, CallAt, TurnsTyped
  <2>new. /\ \A c \in AskedIn(turns') : c \in Calls /\ c[1] \in Nat /\ c[1] <= Len(turns')
          /\ \A c \in OpenIn(turns') : ReceiptIn(turns', c) = "none"
    BY <2>2, CallsIn DEF OpenIn
  <2>4. CurrentInv'
    BY <2>1, <2>2, <2>3, LimitsAssumption, <1>inv, <1>facts, <1>point DEF CurrentInv, WholeInv,
      RunningPoints, ApprovedPoints, StartingPoints, BatchPoints, Asks, AskedAfter
  <2>5. WholeInv'
    BY <2>1, <2>2, <2>3, <1>inv, <1>facts, <1>point, <2>new DEF WholeInv, CurrentInv,
      RunningPoints, ApprovedPoints, StartingPoints, BatchPoints, Asks, AskedAfter
  <2>6. EffectsInv' /\ TaskInv' /\ ReceivedInv' /\ StatusInv' /\ ResultCurrent' /\ RequestInv'
    BY <2>1, <2>2, <2>3, <1>inv, <1>facts, <1>point, <2>new, <1>none, <1>owner DEF EffectsInv,
      CurrentInv, WholeInv, RunningPoints, ApprovedPoints, StartingPoints, BatchPoints, Asks,
      AskedAfter, TaskInv, OwnerInv, ReceivedInv, Keeps, StatusInv, ResultCurrent, RequestInv
  <2>7. ControlInv'
    BY <2>1, <2>2, <2>3, <1>inv, <1>facts, <1>point, <1>none, <1>owner DEF ControlInv,
      OwnerInv, StatusInv, RunningPoints, ApprovedPoints, StartingPoints, BatchPoints,
      UncontrolledPoints, Asks, AskedAfter, Keeps
  <2>8. ApprovalInv' /\ OwnerInv'
    BY <2>1, <2>2, <2>3, <1>inv, <1>facts, <1>point, <1>none, <1>owner, <1>approve, <2>new DEF
      ApprovalInv, ControlInv, WholeInv, RunningPoints, ApprovedPoints, StartingPoints,
      BatchPoints, UncontrolledPoints, Asks, AskedAfter, Keeps, OwnerInv, StatusInv
  <2>9. CacheInv'
    BY <2>1, <2>2, <2>3, <1>inv, <1>facts, <1>point, <1>none, <1>owner DEF CacheInv,
      ControlInv, StatusInv, RequestInv, OwnerInv, RunningPoints, ApprovedPoints, StartingPoints,
      BatchPoints, UncontrolledPoints, Agrees, Asks, AskedAfter, Keeps
  <2>10. MaterialsInv'
    BY <2>1, <2>2, <2>3, <1>inv, <1>facts, <1>point, <2>new DEF MaterialsInv, CurrentInv,
      WholeInv, EffectsInv, RunningPoints, ApprovedPoints, StartingPoints, BatchPoints,
      Succeeded, Unlisted, Asks, AskedAfter
  <2> QED BY <2>2, <2>3, <2>4, <2>5, <2>6, <2>7, <2>8, <2>9, <2>10, <1>types DEF IInv, TypesInv
<1>11. CASE RefuseBatch
  <2>1. /\ at = "replying" /\ at' = "refuse" /\ status' = "active"
        /\ UNCHANGED <<control, operation, checkpoint, terminal, seen, authorized, cache,
                      used, effects, approved, materials, received, resolved, published, texts,
                      attention, interventions, crashes, request, index, failures, recovered, token,
                      boundary, profile, result>>
    BY <1>11 DEF RefuseBatch, SaveReply, Saved, UnchangedButTurns, GoTo, vars, sessionVars,
      worldVars, ownerVars, localVars
  <2>2. /\ TurnsTyped(turns, CallKinds)' /\ Len(turns') = Len(turns) + 1
        /\ \A m \in 1..Len(turns) : turns'[m].calls = turns[m].calls
        /\ Asks(turns, turns', AskedAfter(turns, turns')) /\ Len(LastTurn'.calls) \in Nat \ {0}
    BY <1>11, <2>1, ReplyGives DEF RefuseBatch
  <2>3. /\ Scientific' = Scientific
        /\ CallKinds' = CallKinds
        /\ LastReceived' = LastReceived /\ ReceivedCalls' = ReceivedCalls
        /\ EffectCalls' = EffectCalls
        /\ Keeps(turns, turns')
        /\ Len(turns') \in Nat
        /\ Current' = <<Len(turns'), index'>>
    BY <2>1, <2>2, KeepsSteps DEF Scientific, CallKinds, LastReceived, ReceivedCalls,
      EffectCalls, Current, CallAt, TurnsTyped
  <2>new. /\ \A c \in AskedIn(turns') : c \in Calls /\ c[1] \in Nat /\ c[1] <= Len(turns')
          /\ \A c \in OpenIn(turns') : ReceiptIn(turns', c) = "none"
    BY <2>2, CallsIn DEF OpenIn
  <2>4. CurrentInv'
    BY <2>1, <2>2, <2>3, LimitsAssumption, <1>inv, <1>facts, <1>point DEF CurrentInv, WholeInv,
      RunningPoints, ApprovedPoints, StartingPoints, BatchPoints, Asks, AskedAfter
  <2>5. WholeInv'
    BY <2>1, <2>2, <2>3, <1>inv, <1>facts, <1>point, <2>new DEF WholeInv, CurrentInv,
      RunningPoints, ApprovedPoints, StartingPoints, BatchPoints, Asks, AskedAfter
  <2>6. EffectsInv' /\ TaskInv' /\ ReceivedInv' /\ StatusInv' /\ ResultCurrent' /\ RequestInv'
    BY <2>1, <2>2, <2>3, <1>inv, <1>facts, <1>point, <2>new, <1>none, <1>owner DEF EffectsInv,
      CurrentInv, WholeInv, RunningPoints, ApprovedPoints, StartingPoints, BatchPoints, Asks,
      AskedAfter, TaskInv, OwnerInv, ReceivedInv, Keeps, StatusInv, ResultCurrent, RequestInv
  <2>7. ControlInv'
    BY <2>1, <2>2, <2>3, <1>inv, <1>facts, <1>point, <1>none, <1>owner DEF ControlInv,
      OwnerInv, StatusInv, RunningPoints, ApprovedPoints, StartingPoints, BatchPoints,
      UncontrolledPoints, Asks, AskedAfter, Keeps
  <2>8. ApprovalInv' /\ OwnerInv'
    BY <2>1, <2>2, <2>3, <1>inv, <1>facts, <1>point, <1>none, <1>owner, <1>approve, <2>new DEF
      ApprovalInv, ControlInv, WholeInv, RunningPoints, ApprovedPoints, StartingPoints,
      BatchPoints, UncontrolledPoints, Asks, AskedAfter, Keeps, OwnerInv, StatusInv
  <2>9. CacheInv'
    BY <2>1, <2>2, <2>3, <1>inv, <1>facts, <1>point, <1>none, <1>owner DEF CacheInv,
      ControlInv, StatusInv, RequestInv, OwnerInv, RunningPoints, ApprovedPoints, StartingPoints,
      BatchPoints, UncontrolledPoints, Agrees, Asks, AskedAfter, Keeps
  <2>10. MaterialsInv'
    BY <2>1, <2>2, <2>3, <1>inv, <1>facts, <1>point, <2>new DEF MaterialsInv, CurrentInv,
      WholeInv, EffectsInv, RunningPoints, ApprovedPoints, StartingPoints, BatchPoints,
      Succeeded, Unlisted, Asks, AskedAfter
  <2> QED BY <2>2, <2>3, <2>4, <2>5, <2>6, <2>7, <2>8, <2>9, <2>10, <1>types DEF IInv, TypesInv
<1>12. CASE RecordRefusal
  <2>1. /\ at = "refuse" /\ at' \in {"loop", "failing"} /\ status' = "active"
        /\ UNCHANGED <<control, operation, checkpoint, terminal, seen, authorized, cache,
                      used, effects, approved, materials, received, resolved, published, texts,
                      attention, interventions, crashes, request, index, recovered, token, boundary,
                      profile, result>>
    BY <1>12 DEF RecordRefusal, Saved, UnchangedButTurns, NoteFailure, vars, sessionVars,
      worldVars, ownerVars, localVars
  <2>2. /\ TurnsTyped(turns, CallKinds)' /\ KeepsTurns
        /\ Settles(turns, turns', OpenOf(turns, {Len(turns)}), "rejected", "rejected")
    BY <1>12, <2>1, LastSteps
  <2>3. /\ Scientific' = Scientific
        /\ CallKinds' = CallKinds
        /\ LastReceived' = LastReceived /\ ReceivedCalls' = ReceivedCalls
        /\ EffectCalls' = EffectCalls
        /\ Keeps(turns, turns')
        /\ Len(turns') \in Nat
        /\ turns # <<>> => LastTurn'.calls = LastTurn.calls /\ turns' # <<>>
        /\ Current' = Current
    BY <2>1, <2>2, <1>facts, KeepsSteps DEF Scientific, CallKinds, LastReceived, ReceivedCalls,
      EffectCalls, LastTurn, Current, CallAt, KeepsTurns, TurnsTyped
  <2>4. CurrentInv' /\ WholeInv'
    BY <2>1, <2>2, <2>3, LimitsAssumption, <1>inv, <1>facts, <1>point DEF CurrentInv, WholeInv,
      RunningPoints, ApprovedPoints, StartingPoints, BatchPoints, KeepsTurns, Settles, OpenOf
  <2>5. EffectsInv' /\ TaskInv' /\ ReceivedInv' /\ StatusInv' /\ ResultCurrent' /\ RequestInv'
    BY <2>1, <2>2, <2>3, <1>inv, <1>facts, <1>point, <1>none, <1>owner DEF EffectsInv,
      CurrentInv, WholeInv, RunningPoints, ApprovedPoints, StartingPoints, BatchPoints,
      KeepsTurns, Settles, OpenOf, TaskInv, OwnerInv, ReceivedInv, Keeps, StatusInv,
      ResultCurrent, RequestInv
  <2>6. ControlInv'
    BY <2>1, <2>2, <2>3, <1>inv, <1>facts, <1>point, <1>none, <1>owner DEF ControlInv,
      OwnerInv, StatusInv, RunningPoints, ApprovedPoints, StartingPoints, BatchPoints,
      UncontrolledPoints, KeepsTurns, Settles, OpenOf, Keeps
  <2>7. ApprovalInv' /\ OwnerInv'
    BY <2>1, <2>2, <2>3, <1>inv, <1>facts, <1>point, <1>none, <1>owner DEF ApprovalInv,
      ControlInv, WholeInv, RunningPoints, ApprovedPoints, StartingPoints, BatchPoints,
      UncontrolledPoints, KeepsTurns, Settles, OpenOf, Keeps, OwnerInv, StatusInv
  <2>8. CacheInv'
    BY <2>1, <2>2, <2>3, <1>inv, <1>facts, <1>point, <1>none, <1>owner DEF CacheInv,
      ControlInv, StatusInv, RequestInv, OwnerInv, RunningPoints, ApprovedPoints, StartingPoints,
      BatchPoints, UncontrolledPoints, Agrees, KeepsTurns, Settles, OpenOf, Keeps
  <2>9. MaterialsInv'
    BY <2>1, <2>2, <2>3, <1>inv, <1>facts, <1>point DEF MaterialsInv, CurrentInv, WholeInv,
      EffectsInv, RunningPoints, ApprovedPoints, StartingPoints, BatchPoints, Succeeded,
      Unlisted, KeepsTurns, Settles, OpenOf
  <2> QED BY <2>2, <2>3, <2>4, <2>5, <2>6, <2>7, <2>8, <2>9, <1>types DEF IInv, TypesInv
<1>13. CASE RefuseCall
  <2>1. /\ at = "call" /\ at' \in {"break", "failing"} /\ status' = "active"
        /\ UNCHANGED <<control, operation, checkpoint, terminal, seen, authorized, cache,
                      used, effects, approved, materials, received, resolved, published, texts,
                      attention, interventions, crashes, request, index, recovered, token, boundary,
                      profile, result>>
    BY <1>13 DEF RefuseCall, AtCall, RecordReceipt, Saved, UnchangedButTurns, NoteFailure,
      vars, sessionVars, worldVars, ownerVars, localVars
  <2>2. Given(Current, "rejected")
    BY <1>13, <2>1, ReceiptSteps
  <2>3. /\ Scientific' = Scientific
        /\ CallKinds' = CallKinds
        /\ LastReceived' = LastReceived /\ ReceivedCalls' = ReceivedCalls
        /\ EffectCalls' = EffectCalls
        /\ Keeps(turns, turns')
        /\ Len(turns') \in Nat
        /\ turns # <<>> => LastTurn'.calls = LastTurn.calls /\ turns' # <<>>
        /\ Current' = Current
    BY <2>1, <2>2, <1>facts, KeepsSteps DEF Scientific, CallKinds, LastReceived, ReceivedCalls,
      EffectCalls, LastTurn, Current, CallAt, Given, KeepsTurns, TurnsTyped
  <2>4. CurrentInv' /\ WholeInv'
    BY <2>1, <2>2, <2>3, LimitsAssumption, <1>inv, <1>facts, <1>point DEF CurrentInv, WholeInv,
      RunningPoints, ApprovedPoints, StartingPoints, BatchPoints, Given, KeepsTurns, Settles
  <2>5. EffectsInv'
    BY <2>1, <2>2, <2>3, <1>inv, <1>facts, <1>point DEF EffectsInv, CurrentInv, WholeInv,
      RunningPoints, ApprovedPoints, StartingPoints, BatchPoints, Given, KeepsTurns, Settles
  <2>6. TaskInv'
    BY <2>1, <2>2, <2>3, <1>inv, <1>facts, <1>point DEF TaskInv, CurrentInv, WholeInv,
      OwnerInv, RunningPoints, ApprovedPoints, StartingPoints, BatchPoints, Given, KeepsTurns,
      Settles
  <2>7. ControlInv'
    BY <2>1, <2>2, <2>3, <1>inv, <1>facts, <1>point, <1>none, <1>owner DEF ControlInv,
      OwnerInv, StatusInv, RunningPoints, ApprovedPoints, StartingPoints, BatchPoints,
      UncontrolledPoints, Given, KeepsTurns, Settles, Keeps
  <2>8. ReceivedInv'
    BY <2>1, <2>2, <2>3, <1>inv, <1>facts, <1>point, <1>none, <1>owner DEF ReceivedInv, Given,
      KeepsTurns, Settles, Keeps
  <2>9. ApprovalInv' /\ OwnerInv'
    BY <2>1, <2>2, <2>3, <1>inv, <1>facts, <1>point, <1>none, <1>owner DEF ApprovalInv,
      ControlInv, WholeInv, RunningPoints, ApprovedPoints, StartingPoints, BatchPoints,
      UncontrolledPoints, Given, KeepsTurns, Settles, Keeps, OwnerInv, StatusInv
  <2>10. StatusInv'
    BY <2>1, <2>2, <2>3, <1>inv, <1>facts, <1>point, <1>none DEF StatusInv, WholeInv,
      RunningPoints, ApprovedPoints, StartingPoints, BatchPoints, Given, KeepsTurns, Settles
  <2>11. ResultCurrent'
    BY <2>1, <2>2, <2>3, <1>inv, <1>facts, <1>point, <1>none DEF ResultCurrent, StatusInv,
      Given, KeepsTurns, Settles
  <2>12. RequestInv'
    BY <2>1, <2>2, <2>3, <1>inv, <1>facts, <1>point DEF RequestInv, Given, KeepsTurns, Settles
  <2>13. CacheInv'
    BY <2>1, <2>2, <2>3, <1>inv, <1>facts, <1>point, <1>none, <1>owner DEF CacheInv,
      ControlInv, StatusInv, RequestInv, OwnerInv, RunningPoints, ApprovedPoints, StartingPoints,
      BatchPoints, UncontrolledPoints, Agrees, Given, KeepsTurns, Settles, Keeps
  <2>14. MaterialsInv'
    BY <2>1, <2>2, <2>3, <1>inv, <1>facts, <1>point DEF MaterialsInv, CurrentInv, WholeInv,
      EffectsInv, RunningPoints, ApprovedPoints, StartingPoints, BatchPoints, Succeeded,
      Unlisted, Given, KeepsTurns, Settles
  <2> QED BY <2>2, <2>3, <2>4, <2>5, <2>6, <2>7, <2>8, <2>9, <2>10, <2>11, <2>12, <2>13, <2>14,
    <1>types DEF IInv, TypesInv, Given
<1>14. CASE ReviewInvalidated
  <2>1. /\ at = "reviewing" /\ at' \in {"break", "failing"} /\ status' = "active"
        /\ UNCHANGED <<control, operation, checkpoint, terminal, seen, authorized, cache,
                      used, effects, approved, materials, received, resolved, published, texts,
                      attention, interventions, crashes, request, index, recovered, token, boundary,
                      profile, result>>
    BY <1>14 DEF ReviewInvalidated, RecordReceipt, Saved, UnchangedButTurns, NoteFailure, vars,
      sessionVars, worldVars, ownerVars, localVars
  <2>2. Given(Current, "rejected")
    BY <1>14, <2>1, ReceiptSteps
  <2>3. /\ Scientific' = Scientific
        /\ CallKinds' = CallKinds
        /\ LastReceived' = LastReceived /\ ReceivedCalls' = ReceivedCalls
        /\ EffectCalls' = EffectCalls
        /\ Keeps(turns, turns')
        /\ Len(turns') \in Nat
        /\ turns # <<>> => LastTurn'.calls = LastTurn.calls /\ turns' # <<>>
        /\ Current' = Current
    BY <2>1, <2>2, <1>facts, KeepsSteps DEF Scientific, CallKinds, LastReceived, ReceivedCalls,
      EffectCalls, LastTurn, Current, CallAt, Given, KeepsTurns, TurnsTyped
  <2>4. CurrentInv' /\ WholeInv'
    BY <2>1, <2>2, <2>3, LimitsAssumption, <1>inv, <1>facts, <1>point DEF CurrentInv, WholeInv,
      RunningPoints, ApprovedPoints, StartingPoints, BatchPoints, Given, KeepsTurns, Settles
  <2>5. EffectsInv' /\ TaskInv' /\ ReceivedInv' /\ StatusInv' /\ ResultCurrent' /\ RequestInv'
    BY <2>1, <2>2, <2>3, <1>inv, <1>facts, <1>point, <1>none, <1>owner DEF EffectsInv,
      CurrentInv, WholeInv, RunningPoints, ApprovedPoints, StartingPoints, BatchPoints, Given,
      KeepsTurns, Settles, TaskInv, OwnerInv, ReceivedInv, Keeps, StatusInv, ResultCurrent,
      RequestInv
  <2>6. ControlInv'
    BY <2>1, <2>2, <2>3, <1>inv, <1>facts, <1>point, <1>none, <1>owner DEF ControlInv,
      OwnerInv, StatusInv, RunningPoints, ApprovedPoints, StartingPoints, BatchPoints,
      UncontrolledPoints, Given, KeepsTurns, Settles, Keeps
  <2>7. ApprovalInv' /\ OwnerInv'
    BY <2>1, <2>2, <2>3, <1>inv, <1>facts, <1>point, <1>none, <1>owner DEF ApprovalInv,
      ControlInv, WholeInv, RunningPoints, ApprovedPoints, StartingPoints, BatchPoints,
      UncontrolledPoints, Given, KeepsTurns, Settles, Keeps, OwnerInv, StatusInv
  <2>8. CacheInv'
    BY <2>1, <2>2, <2>3, <1>inv, <1>facts, <1>point, <1>none, <1>owner DEF CacheInv,
      ControlInv, StatusInv, RequestInv, OwnerInv, RunningPoints, ApprovedPoints, StartingPoints,
      BatchPoints, UncontrolledPoints, Agrees, Given, KeepsTurns, Settles, Keeps
  <2>9. MaterialsInv'
    BY <2>1, <2>2, <2>3, <1>inv, <1>facts, <1>point DEF MaterialsInv, CurrentInv, WholeInv,
      EffectsInv, RunningPoints, ApprovedPoints, StartingPoints, BatchPoints, Succeeded,
      Unlisted, Given, KeepsTurns, Settles
  <2> QED BY <2>2, <2>3, <2>4, <2>5, <2>6, <2>7, <2>8, <2>9, <1>types DEF IInv, TypesInv, Given
<1>15. CASE ToolRaises
  <2>1. /\ at = "observe" /\ at' \in {"break", "failing"} /\ status' = "active"
        /\ UNCHANGED <<control, operation, checkpoint, terminal, seen, authorized, cache,
                      used, effects, approved, materials, received, resolved, published, texts,
                      attention, interventions, crashes, request, index, recovered, token, boundary,
                      profile, result>>
    BY <1>15 DEF ToolRaises, RecordReceipt, Saved, UnchangedButTurns, NoteFailure, vars,
      sessionVars, worldVars, ownerVars, localVars
  <2>2. Given(Current, "failed")
    BY <1>15, <2>1, ReceiptSteps
  <2>3. /\ Scientific' = Scientific
        /\ CallKinds' = CallKinds
        /\ LastReceived' = LastReceived /\ ReceivedCalls' = ReceivedCalls
        /\ EffectCalls' = EffectCalls
        /\ Keeps(turns, turns')
        /\ Len(turns') \in Nat
        /\ turns # <<>> => LastTurn'.calls = LastTurn.calls /\ turns' # <<>>
        /\ Current' = Current
    BY <2>1, <2>2, <1>facts, KeepsSteps DEF Scientific, CallKinds, LastReceived, ReceivedCalls,
      EffectCalls, LastTurn, Current, CallAt, Given, KeepsTurns, TurnsTyped
  <2>4. CurrentInv' /\ WholeInv'
    BY <2>1, <2>2, <2>3, LimitsAssumption, <1>inv, <1>facts, <1>point DEF CurrentInv, WholeInv,
      RunningPoints, ApprovedPoints, StartingPoints, BatchPoints, Given, KeepsTurns, Settles
  <2>5. EffectsInv' /\ TaskInv' /\ ReceivedInv' /\ StatusInv' /\ ResultCurrent' /\ RequestInv'
    BY <2>1, <2>2, <2>3, <1>inv, <1>facts, <1>point, <1>none, <1>owner DEF EffectsInv,
      CurrentInv, WholeInv, RunningPoints, ApprovedPoints, StartingPoints, BatchPoints, Given,
      KeepsTurns, Settles, TaskInv, OwnerInv, ReceivedInv, Keeps, StatusInv, ResultCurrent,
      RequestInv
  <2>6. ControlInv'
    BY <2>1, <2>2, <2>3, <1>inv, <1>facts, <1>point, <1>none, <1>owner DEF ControlInv,
      OwnerInv, StatusInv, RunningPoints, ApprovedPoints, StartingPoints, BatchPoints,
      UncontrolledPoints, Given, KeepsTurns, Settles, Keeps
  <2>7. ApprovalInv' /\ OwnerInv'
    BY <2>1, <2>2, <2>3, <1>inv, <1>facts, <1>point, <1>none, <1>owner DEF ApprovalInv,
      ControlInv, WholeInv, RunningPoints, ApprovedPoints, StartingPoints, BatchPoints,
      UncontrolledPoints, Given, KeepsTurns, Settles, Keeps, OwnerInv, StatusInv
  <2>8. CacheInv'
    BY <2>1, <2>2, <2>3, <1>inv, <1>facts, <1>point, <1>none, <1>owner DEF CacheInv,
      ControlInv, StatusInv, RequestInv, OwnerInv, RunningPoints, ApprovedPoints, StartingPoints,
      BatchPoints, UncontrolledPoints, Agrees, Given, KeepsTurns, Settles, Keeps
  <2>9. MaterialsInv'
    BY <2>1, <2>2, <2>3, <1>inv, <1>facts, <1>point DEF MaterialsInv, CurrentInv, WholeInv,
      EffectsInv, RunningPoints, ApprovedPoints, StartingPoints, BatchPoints, Succeeded,
      Unlisted, Given, KeepsTurns, Settles
  <2> QED BY <2>2, <2>3, <2>4, <2>5, <2>6, <2>7, <2>8, <2>9, <1>types DEF IInv, TypesInv, Given
<1>16. CASE FinishRefused
  <2>1. /\ at = "observe" /\ at' \in {"break", "failing"} /\ status' = "active"
        /\ UNCHANGED <<control, operation, checkpoint, terminal, seen, authorized, cache,
                      used, effects, approved, materials, received, resolved, published, texts,
                      attention, interventions, crashes, request, index, recovered, token, boundary,
                      profile, result>>
    BY <1>16 DEF FinishRefused, RecordReceipt, Saved, UnchangedButTurns, NoteFailure, vars,
      sessionVars, worldVars, ownerVars, localVars
  <2>2. Given(Current, "rejected")
    BY <1>16, <2>1, ReceiptSteps
  <2>3. /\ Scientific' = Scientific
        /\ CallKinds' = CallKinds
        /\ LastReceived' = LastReceived /\ ReceivedCalls' = ReceivedCalls
        /\ EffectCalls' = EffectCalls
        /\ Keeps(turns, turns')
        /\ Len(turns') \in Nat
        /\ turns # <<>> => LastTurn'.calls = LastTurn.calls /\ turns' # <<>>
        /\ Current' = Current
    BY <2>1, <2>2, <1>facts, KeepsSteps DEF Scientific, CallKinds, LastReceived, ReceivedCalls,
      EffectCalls, LastTurn, Current, CallAt, Given, KeepsTurns, TurnsTyped
  <2>4. CurrentInv' /\ WholeInv'
    BY <2>1, <2>2, <2>3, LimitsAssumption, <1>inv, <1>facts, <1>point DEF CurrentInv, WholeInv,
      RunningPoints, ApprovedPoints, StartingPoints, BatchPoints, Given, KeepsTurns, Settles
  <2>5. EffectsInv' /\ TaskInv' /\ ReceivedInv' /\ StatusInv' /\ ResultCurrent' /\ RequestInv'
    BY <2>1, <2>2, <2>3, <1>inv, <1>facts, <1>point, <1>none, <1>owner DEF EffectsInv,
      CurrentInv, WholeInv, RunningPoints, ApprovedPoints, StartingPoints, BatchPoints, Given,
      KeepsTurns, Settles, TaskInv, OwnerInv, ReceivedInv, Keeps, StatusInv, ResultCurrent,
      RequestInv
  <2>6. ControlInv'
    BY <2>1, <2>2, <2>3, <1>inv, <1>facts, <1>point, <1>none, <1>owner DEF ControlInv,
      OwnerInv, StatusInv, RunningPoints, ApprovedPoints, StartingPoints, BatchPoints,
      UncontrolledPoints, Given, KeepsTurns, Settles, Keeps
  <2>7. ApprovalInv' /\ OwnerInv'
    BY <2>1, <2>2, <2>3, <1>inv, <1>facts, <1>point, <1>none, <1>owner DEF ApprovalInv,
      ControlInv, WholeInv, RunningPoints, ApprovedPoints, StartingPoints, BatchPoints,
      UncontrolledPoints, Given, KeepsTurns, Settles, Keeps, OwnerInv, StatusInv
  <2>8. CacheInv'
    BY <2>1, <2>2, <2>3, <1>inv, <1>facts, <1>point, <1>none, <1>owner DEF CacheInv,
      ControlInv, StatusInv, RequestInv, OwnerInv, RunningPoints, ApprovedPoints, StartingPoints,
      BatchPoints, UncontrolledPoints, Agrees, Given, KeepsTurns, Settles, Keeps
  <2>9. MaterialsInv'
    BY <2>1, <2>2, <2>3, <1>inv, <1>facts, <1>point DEF MaterialsInv, CurrentInv, WholeInv,
      EffectsInv, RunningPoints, ApprovedPoints, StartingPoints, BatchPoints, Succeeded,
      Unlisted, Given, KeepsTurns, Settles
  <2> QED BY <2>2, <2>3, <2>4, <2>5, <2>6, <2>7, <2>8, <2>9, <1>types DEF IInv, TypesInv, Given
<1>17. CASE StartCall
  <2>1. /\ at = "call" /\ at' = "execute" /\ status' = "active"
        /\ UNCHANGED <<control, operation, checkpoint, terminal, seen, authorized, cache,
                      used, effects, approved, materials, received, resolved, published, texts,
                      attention, interventions, crashes, request, index, failures, recovered, token,
                      boundary, profile, result>>
    BY <1>17 DEF StartCall, AtCall, StartRunning, Saved, UnchangedButTurns, GoTo, vars,
      sessionVars, worldVars, ownerVars, localVars
  <2>2. /\ Started(Current) /\ RunningIn(turns) = {}
        /\ KindIn(turns, Current) \in CallKinds \ {"guarded"}
    BY <1>17, <2>1, StartSteps
  <2>3. /\ Scientific' = Scientific
        /\ CallKinds' = CallKinds
        /\ LastReceived' = LastReceived /\ ReceivedCalls' = ReceivedCalls
        /\ EffectCalls' = EffectCalls
        /\ Keeps(turns, turns')
        /\ Len(turns') \in Nat
        /\ turns # <<>> => LastTurn'.calls = LastTurn.calls /\ turns' # <<>>
        /\ Current' = Current
    BY <2>1, <2>2, <1>facts, KeepsSteps DEF Scientific, CallKinds, LastReceived, ReceivedCalls,
      EffectCalls, LastTurn, Current, CallAt, Started, KeepsTurns, TurnsTyped
  <2>4. CurrentInv' /\ WholeInv'
    BY <2>1, <2>2, <2>3, LimitsAssumption, <1>inv, <1>facts, <1>point DEF CurrentInv, WholeInv,
      RunningPoints, ApprovedPoints, StartingPoints, BatchPoints, Started, KeepsTurns, Marks
  <2>5. EffectsInv' /\ TaskInv' /\ ReceivedInv' /\ StatusInv' /\ ResultCurrent' /\ RequestInv'
    BY <2>1, <2>2, <2>3, <1>inv, <1>facts, <1>point, <1>none, <1>owner DEF EffectsInv,
      CurrentInv, WholeInv, RunningPoints, ApprovedPoints, StartingPoints, BatchPoints, Started,
      KeepsTurns, Marks, TaskInv, OwnerInv, ReceivedInv, Keeps, StatusInv, ResultCurrent,
      RequestInv
  <2>6. ControlInv'
    BY <2>1, <2>2, <2>3, <1>inv, <1>facts, <1>point, <1>none, <1>owner DEF ControlInv,
      OwnerInv, StatusInv, RunningPoints, ApprovedPoints, StartingPoints, BatchPoints,
      UncontrolledPoints, Started, KeepsTurns, Marks, Keeps
  <2>7. ApprovalInv' /\ OwnerInv'
    BY <2>1, <2>2, <2>3, <1>inv, <1>facts, <1>point, <1>none, <1>owner DEF ApprovalInv,
      ControlInv, WholeInv, RunningPoints, ApprovedPoints, StartingPoints, BatchPoints,
      UncontrolledPoints, Started, KeepsTurns, Marks, Keeps, OwnerInv, StatusInv
  <2>8. CacheInv'
    BY <2>1, <2>2, <2>3, <1>inv, <1>facts, <1>point, <1>none, <1>owner DEF CacheInv,
      ControlInv, StatusInv, RequestInv, OwnerInv, RunningPoints, ApprovedPoints, StartingPoints,
      BatchPoints, UncontrolledPoints, Agrees, Started, KeepsTurns, Marks, Keeps
  <2>9. MaterialsInv'
    BY <2>1, <2>2, <2>3, <1>inv, <1>facts, <1>point DEF MaterialsInv, CurrentInv, WholeInv,
      EffectsInv, RunningPoints, ApprovedPoints, StartingPoints, BatchPoints, Succeeded,
      Unlisted, Started, KeepsTurns, Marks
  <2> QED BY <2>2, <2>3, <2>4, <2>5, <2>6, <2>7, <2>8, <2>9, <1>types DEF IInv, TypesInv, Started
<1>18. CASE RequestReview
  <2>1. /\ at = "call" /\ at' = "reviewing"
        /\ index <= Len(LastTurn.calls) /\ Kind = "guarded"
        /\ UNCHANGED <<turns, status, control, operation, checkpoint, terminal, seen,
                      authorized, cache, effects, approved, materials, received, resolved, published,
                      texts, attention, interventions, crashes, request, index, failures, recovered,
                      token, boundary, profile, result>>
    BY <1>18 DEF RequestReview, AtCall, GoTo, vars, sessionVars, worldVars, ownerVars,
      localVars
  <2>2. TurnsTyped(turns, CallKinds)' /\ KeepsTurns /\ LastTurn' = LastTurn
    BY <1>18, <2>1, SameTurns
  <2>3. /\ Scientific' = Scientific
        /\ CallKinds' = CallKinds
        /\ LastReceived' = LastReceived /\ ReceivedCalls' = ReceivedCalls
        /\ EffectCalls' = EffectCalls
        /\ Current' = Current
    BY <2>1, <2>2 DEF Scientific, CallKinds, LastReceived, ReceivedCalls, EffectCalls, Current,
      CallAt, KeepsTurns
  <2>4. CurrentInv' /\ WholeInv'
    BY <2>1, <2>2, <2>3, LimitsAssumption, <1>inv, <1>facts, <1>point DEF CurrentInv, WholeInv,
      RunningPoints, ApprovedPoints, StartingPoints, BatchPoints, KeepsTurns
  <2>5. EffectsInv' /\ TaskInv' /\ ReceivedInv' /\ StatusInv' /\ ResultCurrent' /\ RequestInv'
    BY <2>1, <2>2, <2>3, <1>inv, <1>facts, <1>point, <1>none, <1>owner DEF EffectsInv,
      CurrentInv, WholeInv, RunningPoints, ApprovedPoints, StartingPoints, BatchPoints,
      KeepsTurns, TaskInv, OwnerInv, ReceivedInv, StatusInv, ResultCurrent, RequestInv
  <2>6. ControlInv'
    BY <2>1, <2>2, <2>3, <1>inv, <1>facts, <1>point, <1>none, <1>owner DEF ControlInv,
      OwnerInv, StatusInv, RunningPoints, ApprovedPoints, StartingPoints, BatchPoints,
      UncontrolledPoints, KeepsTurns
  <2>7. ApprovalInv' /\ OwnerInv'
    BY <2>1, <2>2, <2>3, <1>inv, <1>facts, <1>point, <1>none, <1>owner DEF ApprovalInv,
      ControlInv, WholeInv, RunningPoints, ApprovedPoints, StartingPoints, BatchPoints,
      UncontrolledPoints, KeepsTurns, OwnerInv, StatusInv
  <2>8. CacheInv'
    BY <2>1, <2>2, <2>3, <1>inv, <1>facts, <1>point, <1>none, <1>owner DEF CacheInv,
      ControlInv, StatusInv, RequestInv, OwnerInv, RunningPoints, ApprovedPoints, StartingPoints,
      BatchPoints, UncontrolledPoints, Agrees, KeepsTurns
  <2>9. MaterialsInv'
    BY <2>1, <2>2, <2>3, <1>inv, <1>facts, <1>point DEF MaterialsInv, CurrentInv, WholeInv,
      EffectsInv, RunningPoints, ApprovedPoints, StartingPoints, BatchPoints, Succeeded,
      Unlisted, KeepsTurns
  <2> QED BY <2>2, <2>3, <2>4, <2>5, <2>6, <2>7, <2>8, <2>9, <1>types DEF IInv, TypesInv
<1>19. CASE ReviewAllows
  <2>1. /\ at = "reviewing" /\ at' = "execute" /\ status' = "active"
        /\ approved' = approved \union {Current}
        /\ UNCHANGED <<control, operation, checkpoint, terminal, seen, authorized, cache,
                      used, effects, materials, received, resolved, published, texts, attention,
                      interventions, crashes, request, index, failures, recovered, token, boundary,
                      profile, result>>
    BY <1>19 DEF ReviewAllows, Saved, UnchangedButTurns, GoTo, vars, sessionVars, worldVars,
      ownerVars, localVars
  <2>2. Started(Current) /\ RunningIn(turns) = {} /\ KindIn(turns, Current) = "guarded"
    BY <1>19, <2>1, StartSteps
  <2>3. /\ Scientific' = Scientific
        /\ CallKinds' = CallKinds
        /\ LastReceived' = LastReceived /\ ReceivedCalls' = ReceivedCalls
        /\ EffectCalls' = EffectCalls
        /\ Keeps(turns, turns')
        /\ Len(turns') \in Nat
        /\ turns # <<>> => LastTurn'.calls = LastTurn.calls /\ turns' # <<>>
        /\ Current' = Current
    BY <2>1, <2>2, <1>facts, KeepsSteps DEF Scientific, CallKinds, LastReceived, ReceivedCalls,
      EffectCalls, LastTurn, Current, CallAt, Started, KeepsTurns, TurnsTyped
  <2>4. CurrentInv' /\ WholeInv'
    BY <2>1, <2>2, <2>3, LimitsAssumption, <1>inv, <1>facts, <1>point DEF CurrentInv, WholeInv,
      RunningPoints, ApprovedPoints, StartingPoints, BatchPoints, Started, KeepsTurns, Marks
  <2>5. EffectsInv' /\ TaskInv' /\ ReceivedInv' /\ StatusInv' /\ ResultCurrent' /\ RequestInv'
    BY <2>1, <2>2, <2>3, <1>inv, <1>facts, <1>point, <1>none, <1>owner DEF EffectsInv,
      CurrentInv, WholeInv, RunningPoints, ApprovedPoints, StartingPoints, BatchPoints, Started,
      KeepsTurns, Marks, TaskInv, OwnerInv, ReceivedInv, Keeps, StatusInv, ResultCurrent,
      RequestInv
  <2>6. ControlInv'
    BY <2>1, <2>2, <2>3, <1>inv, <1>facts, <1>point, <1>none, <1>owner DEF ControlInv,
      OwnerInv, StatusInv, RunningPoints, ApprovedPoints, StartingPoints, BatchPoints,
      UncontrolledPoints, Started, KeepsTurns, Marks, Keeps
  <2>7. ApprovalInv' /\ OwnerInv'
    BY <2>1, <2>2, <2>3, <1>inv, <1>facts, <1>point, <1>none, <1>owner DEF ApprovalInv,
      ControlInv, WholeInv, RunningPoints, ApprovedPoints, StartingPoints, BatchPoints,
      UncontrolledPoints, Started, KeepsTurns, Marks, Keeps, OwnerInv, StatusInv
  <2>8. CacheInv'
    BY <2>1, <2>2, <2>3, <1>inv, <1>facts, <1>point, <1>none, <1>owner DEF CacheInv,
      ControlInv, StatusInv, RequestInv, OwnerInv, RunningPoints, ApprovedPoints, StartingPoints,
      BatchPoints, UncontrolledPoints, Agrees, Started, KeepsTurns, Marks, Keeps
  <2>9. MaterialsInv'
    BY <2>1, <2>2, <2>3, <1>inv, <1>facts, <1>point DEF MaterialsInv, CurrentInv, WholeInv,
      EffectsInv, RunningPoints, ApprovedPoints, StartingPoints, BatchPoints, Succeeded,
      Unlisted, Started, KeepsTurns, Marks
  <2> QED BY <2>2, <2>3, <2>4, <2>5, <2>6, <2>7, <2>8, <2>9, <1>types DEF IInv, TypesInv, Started
<1>20. CASE PauseApproval
  <2>1. /\ at \in {"call", "reviewing"} /\ at' = "returning" /\ status' = "paused"
        /\ control' = [action |-> "approve", call |-> Current] /\ operation' = Current
        /\ result' = [kind |-> "control", control |-> control']
        /\ UNCHANGED <<checkpoint, terminal, seen, authorized, cache, used, effects,
                      approved, materials, received, resolved, published, texts, attention,
                      interventions, crashes, request, index, failures, recovered, token, boundary,
                      profile>>
    BY <1>20 DEF PauseApproval, AtCall, Answer, vars, sessionVars, worldVars, ownerVars,
      localVars
  <2>2. /\ TurnsTyped(turns, CallKinds)' /\ KeepsTurns
        /\ Current \in OpenIn(turns) /\ Current[1] = Len(turns) /\ KindIn(turns, Current) = "guarded"
        /\ Settles(turns, turns', OpenOf(turns, {Len(turns)}) \ {Current}, "notExecuted", "notExecuted")
    BY <1>20, <2>1, PauseGives
  <2>3. /\ Scientific' = Scientific
        /\ CallKinds' = CallKinds
        /\ LastReceived' = LastReceived /\ ReceivedCalls' = ReceivedCalls
        /\ EffectCalls' = EffectCalls
        /\ Keeps(turns, turns')
        /\ Len(turns') \in Nat
        /\ turns # <<>> => LastTurn'.calls = LastTurn.calls /\ turns' # <<>>
        /\ Current' = Current
    BY <2>1, <2>2, <1>facts, KeepsSteps DEF Scientific, CallKinds, LastReceived, ReceivedCalls,
      EffectCalls, LastTurn, Current, CallAt, KeepsTurns, TurnsTyped
  <2>asks. Names(turns', control') /\ control' # NoControl /\ control' \notin Range(received)
    <3>1. Names(turns', control') /\ control'.action = "approve"
      BY <2>1, <2>2, <1>facts DEF Names, Settles
    <3>2. control = NoControl /\ RunningIn(turns) = {} /\ Current \in OpenIn(turns)
      BY <2>1, <2>2, <1>inv DEF ControlInv, WholeInv, UncontrolledPoints, BatchPoints, StartingPoints
    <3>3. \A i \in DOMAIN received : received[i] # control'
      BY <2>1, <3>1, <3>2, <1>inv, <1>none DEF ApprovalInv
    <3> QED BY <3>1, <3>3, <1>none DEF Range
  <2>4. CurrentInv' /\ WholeInv'
    BY <2>1, <2>2, <2>3, LimitsAssumption, <1>inv, <1>facts, <1>point DEF CurrentInv, WholeInv,
      RunningPoints, ApprovedPoints, StartingPoints, BatchPoints, KeepsTurns, Settles, OpenOf
  <2>5. EffectsInv' /\ TaskInv' /\ ReceivedInv' /\ StatusInv' /\ ResultCurrent' /\ RequestInv'
    BY <2>1, <2>2, <2>3, <1>inv, <1>facts, <1>point, <1>none, <1>owner DEF EffectsInv,
      CurrentInv, WholeInv, RunningPoints, ApprovedPoints, StartingPoints, BatchPoints,
      KeepsTurns, Settles, OpenOf, TaskInv, OwnerInv, ReceivedInv, Keeps, StatusInv,
      ResultCurrent, RequestInv
  <2>6. ControlInv'
    BY <2>1, <2>2, <2>3, <1>inv, <1>facts, <1>point, <1>none, <1>owner, <2>asks DEF ControlInv,
      OwnerInv, StatusInv, RunningPoints, ApprovedPoints, StartingPoints, BatchPoints,
      UncontrolledPoints, KeepsTurns, Settles, OpenOf, Keeps
  <2>7. ApprovalInv' /\ OwnerInv'
    BY <2>1, <2>2, <2>3, <1>inv, <1>facts, <1>point, <1>none, <1>owner, <2>asks DEF
      ApprovalInv, ControlInv, WholeInv, RunningPoints, ApprovedPoints, StartingPoints,
      BatchPoints, UncontrolledPoints, KeepsTurns, Settles, OpenOf, Keeps, OwnerInv, StatusInv
  <2>8. CacheInv'
    BY <2>1, <2>2, <2>3, <1>inv, <1>facts, <1>point, <1>none, <1>owner DEF CacheInv,
      ControlInv, StatusInv, RequestInv, OwnerInv, RunningPoints, ApprovedPoints, StartingPoints,
      BatchPoints, UncontrolledPoints, Agrees, KeepsTurns, Settles, OpenOf, Keeps
  <2>9. MaterialsInv'
    BY <2>1, <2>2, <2>3, <1>inv, <1>facts, <1>point DEF MaterialsInv, CurrentInv, WholeInv,
      EffectsInv, RunningPoints, ApprovedPoints, StartingPoints, BatchPoints, Succeeded,
      Unlisted, KeepsTurns, Settles, OpenOf
  <2> QED BY <2>2, <2>3, <2>4, <2>5, <2>6, <2>7, <2>8, <2>9, <1>types DEF IInv, TypesInv
<1>21. CASE Execute
  <2>1. /\ at = "execute" /\ at' = "observe"
        /\ IF Kind \in {"tool", "guarded"}
           THEN /\ effects' = [effects EXCEPT ![Current] = @ + 1]
                /\ \/ UNCHANGED materials
                   \/ Scientific /\ materials' = [materials EXCEPT ![Current] = "bound"]
           ELSE UNCHANGED <<effects, materials>>
        /\ UNCHANGED <<turns, status, control, operation, checkpoint, terminal, seen,
                      authorized, cache, used, approved, received, resolved, published, texts,
                      attention, interventions, crashes, request, index, failures, recovered, token,
                      boundary, profile, result>>
    BY <1>21 DEF Execute, GoTo, vars, sessionVars, worldVars, ownerVars, localVars
  <2>2. TurnsTyped(turns, CallKinds)' /\ KeepsTurns /\ LastTurn' = LastTurn
    BY <1>21, <2>1, SameTurns
  <2>3. /\ Scientific' = Scientific
        /\ CallKinds' = CallKinds
        /\ LastReceived' = LastReceived /\ ReceivedCalls' = ReceivedCalls
        /\ EffectCalls' = IF Kind \in {"tool", "guarded"} THEN EffectCalls \union {Current} ELSE EffectCalls
        /\ Current' = Current
    <3>1. EffectCalls' = IF Kind \in {"tool", "guarded"} THEN EffectCalls \union {Current}
                         ELSE EffectCalls
      <4>1. CASE Kind \in {"tool", "guarded"}
        <5>1. Current \in Calls /\ effects' = [effects EXCEPT ![Current] = @ + 1]
          BY <2>1, <1>facts, <1>point, <4>1 DEF RunningPoints
        <5> QED BY <5>1, <4>1, <1>eff DEF EffectCalls
      <4>2. CASE Kind \notin {"tool", "guarded"}
        BY <2>1, <4>2 DEF EffectCalls
      <4> QED BY <4>1, <4>2
    <3> QED BY <2>1, <2>2, <3>1 DEF Scientific, CallKinds, LastReceived, ReceivedCalls, Current,
        CallAt, KeepsTurns
  <2>4. CurrentInv' /\ WholeInv'
    BY <2>1, <2>2, <2>3, LimitsAssumption, <1>inv, <1>facts, <1>point DEF CurrentInv, WholeInv,
      RunningPoints, ApprovedPoints, StartingPoints, BatchPoints, KeepsTurns
  <2>5. EffectsInv' /\ TaskInv' /\ ReceivedInv' /\ StatusInv' /\ ResultCurrent' /\ RequestInv'
    BY <2>1, <2>2, <2>3, <1>inv, <1>facts, <1>point, <1>none, <1>owner DEF EffectsInv,
      CurrentInv, WholeInv, RunningPoints, ApprovedPoints, StartingPoints, BatchPoints,
      KeepsTurns, TaskInv, OwnerInv, ReceivedInv, StatusInv, ResultCurrent, RequestInv
  <2>6. ControlInv'
    BY <2>1, <2>2, <2>3, <1>inv, <1>facts, <1>point, <1>none, <1>owner DEF ControlInv,
      OwnerInv, StatusInv, RunningPoints, ApprovedPoints, StartingPoints, BatchPoints,
      UncontrolledPoints, KeepsTurns
  <2>7. ApprovalInv' /\ OwnerInv'
    BY <2>1, <2>2, <2>3, <1>inv, <1>facts, <1>point, <1>none, <1>owner DEF ApprovalInv,
      ControlInv, WholeInv, RunningPoints, ApprovedPoints, StartingPoints, BatchPoints,
      UncontrolledPoints, KeepsTurns, OwnerInv, StatusInv
  <2>8. CacheInv'
    BY <2>1, <2>2, <2>3, <1>inv, <1>facts, <1>point, <1>none, <1>owner DEF CacheInv,
      ControlInv, StatusInv, RequestInv, OwnerInv, RunningPoints, ApprovedPoints, StartingPoints,
      BatchPoints, UncontrolledPoints, Agrees, KeepsTurns
  <2>9. MaterialsInv'
    BY <2>1, <2>2, <2>3, <1>inv, <1>facts, <1>point, <1>mat DEF MaterialsInv, CurrentInv,
      WholeInv, EffectsInv, RunningPoints, ApprovedPoints, StartingPoints, BatchPoints,
      Succeeded, Unlisted, KeepsTurns, OpenIn
  <2> QED BY <2>2, <2>3, <2>4, <2>5, <2>6, <2>7, <2>8, <2>9, <1>types DEF IInv, TypesInv
<1>22. CASE RecordSuccess
  <2>1. /\ at = "observe" /\ at' = "succeeded" /\ status' = "active" /\ Kind \in {"tool", "guarded"}
        /\ authorized' = IF materials[Current] = "bound" THEN authorized \union {Current} ELSE authorized
        /\ UNCHANGED <<control, operation, checkpoint, terminal, seen, cache, used,
                      effects, approved, materials, received, resolved, published, texts, attention,
                      interventions, crashes, request, index, failures, recovered, token, boundary,
                      profile, result>>
    BY <1>22 DEF RecordSuccess, RecordResult, RecordReceipt, Saved, GoTo, vars, sessionVars,
      worldVars, ownerVars, localVars
  <2>2. Given(Current, "ok")
    BY <1>22, <2>1, ReceiptSteps
  <2>3. /\ Scientific' = Scientific
        /\ CallKinds' = CallKinds
        /\ LastReceived' = LastReceived /\ ReceivedCalls' = ReceivedCalls
        /\ EffectCalls' = EffectCalls
        /\ Keeps(turns, turns')
        /\ Len(turns') \in Nat
        /\ turns # <<>> => LastTurn'.calls = LastTurn.calls /\ turns' # <<>>
        /\ Current' = Current
    BY <2>1, <2>2, <1>facts, KeepsSteps DEF Scientific, CallKinds, LastReceived, ReceivedCalls,
      EffectCalls, LastTurn, Current, CallAt, Given, KeepsTurns, TurnsTyped
  <2>4. CurrentInv' /\ WholeInv'
    BY <2>1, <2>2, <2>3, LimitsAssumption, <1>inv, <1>facts, <1>point DEF CurrentInv, WholeInv,
      RunningPoints, ApprovedPoints, StartingPoints, BatchPoints, Given, KeepsTurns, Settles
  <2>5. EffectsInv' /\ TaskInv' /\ ReceivedInv' /\ StatusInv' /\ ResultCurrent' /\ RequestInv'
    BY <2>1, <2>2, <2>3, <1>inv, <1>facts, <1>point, <1>none, <1>owner DEF EffectsInv,
      CurrentInv, WholeInv, RunningPoints, ApprovedPoints, StartingPoints, BatchPoints, Given,
      KeepsTurns, Settles, TaskInv, OwnerInv, ReceivedInv, Keeps, StatusInv, ResultCurrent,
      RequestInv
  <2>6. ControlInv'
    BY <2>1, <2>2, <2>3, <1>inv, <1>facts, <1>point, <1>none, <1>owner DEF ControlInv,
      OwnerInv, StatusInv, RunningPoints, ApprovedPoints, StartingPoints, BatchPoints,
      UncontrolledPoints, Given, KeepsTurns, Settles, Keeps
  <2>7. ApprovalInv' /\ OwnerInv'
    BY <2>1, <2>2, <2>3, <1>inv, <1>facts, <1>point, <1>none, <1>owner DEF ApprovalInv,
      ControlInv, WholeInv, RunningPoints, ApprovedPoints, StartingPoints, BatchPoints,
      UncontrolledPoints, Given, KeepsTurns, Settles, Keeps, OwnerInv, StatusInv
  <2>8. CacheInv'
    BY <2>1, <2>2, <2>3, <1>inv, <1>facts, <1>point, <1>none, <1>owner DEF CacheInv,
      ControlInv, StatusInv, RequestInv, OwnerInv, RunningPoints, ApprovedPoints, StartingPoints,
      BatchPoints, UncontrolledPoints, Agrees, Given, KeepsTurns, Settles, Keeps
  <2>9. MaterialsInv'
    BY <2>1, <2>2, <2>3, <1>inv, <1>facts, <1>point, <1>mat DEF MaterialsInv, CurrentInv,
      WholeInv, EffectsInv, RunningPoints, ApprovedPoints, StartingPoints, BatchPoints,
      Succeeded, Unlisted, Given, KeepsTurns, Settles, OpenIn
  <2> QED BY <2>2, <2>3, <2>4, <2>5, <2>6, <2>7, <2>8, <2>9, <1>types DEF IInv, TypesInv, Given
<1>23. CASE RecordFailure
  <2>1. /\ at = "observe" /\ at' = "tried" /\ status' = "active" /\ Kind \in {"tool", "guarded"}
        /\ authorized' = IF materials[Current] = "bound" THEN authorized \union {Current} ELSE authorized
        /\ UNCHANGED <<control, operation, checkpoint, terminal, seen, cache, used,
                      effects, approved, materials, received, resolved, published, texts, attention,
                      interventions, crashes, request, index, failures, recovered, token, boundary,
                      profile, result>>
    BY <1>23 DEF RecordFailure, RecordResult, RecordReceipt, Saved, GoTo, vars, sessionVars,
      worldVars, ownerVars, localVars
  <2>2. Given(Current, "failed")
    BY <1>23, <2>1, ReceiptSteps
  <2>3. /\ Scientific' = Scientific
        /\ CallKinds' = CallKinds
        /\ LastReceived' = LastReceived /\ ReceivedCalls' = ReceivedCalls
        /\ EffectCalls' = EffectCalls
        /\ Keeps(turns, turns')
        /\ Len(turns') \in Nat
        /\ turns # <<>> => LastTurn'.calls = LastTurn.calls /\ turns' # <<>>
        /\ Current' = Current
    BY <2>1, <2>2, <1>facts, KeepsSteps DEF Scientific, CallKinds, LastReceived, ReceivedCalls,
      EffectCalls, LastTurn, Current, CallAt, Given, KeepsTurns, TurnsTyped
  <2>4. CurrentInv' /\ WholeInv'
    BY <2>1, <2>2, <2>3, LimitsAssumption, <1>inv, <1>facts, <1>point DEF CurrentInv, WholeInv,
      RunningPoints, ApprovedPoints, StartingPoints, BatchPoints, Given, KeepsTurns, Settles
  <2>5. EffectsInv' /\ TaskInv' /\ ReceivedInv' /\ StatusInv' /\ ResultCurrent' /\ RequestInv'
    BY <2>1, <2>2, <2>3, <1>inv, <1>facts, <1>point, <1>none, <1>owner DEF EffectsInv,
      CurrentInv, WholeInv, RunningPoints, ApprovedPoints, StartingPoints, BatchPoints, Given,
      KeepsTurns, Settles, TaskInv, OwnerInv, ReceivedInv, Keeps, StatusInv, ResultCurrent,
      RequestInv
  <2>6. ControlInv'
    BY <2>1, <2>2, <2>3, <1>inv, <1>facts, <1>point, <1>none, <1>owner DEF ControlInv,
      OwnerInv, StatusInv, RunningPoints, ApprovedPoints, StartingPoints, BatchPoints,
      UncontrolledPoints, Given, KeepsTurns, Settles, Keeps
  <2>7. ApprovalInv' /\ OwnerInv'
    BY <2>1, <2>2, <2>3, <1>inv, <1>facts, <1>point, <1>none, <1>owner DEF ApprovalInv,
      ControlInv, WholeInv, RunningPoints, ApprovedPoints, StartingPoints, BatchPoints,
      UncontrolledPoints, Given, KeepsTurns, Settles, Keeps, OwnerInv, StatusInv
  <2>8. CacheInv'
    BY <2>1, <2>2, <2>3, <1>inv, <1>facts, <1>point, <1>none, <1>owner DEF CacheInv,
      ControlInv, StatusInv, RequestInv, OwnerInv, RunningPoints, ApprovedPoints, StartingPoints,
      BatchPoints, UncontrolledPoints, Agrees, Given, KeepsTurns, Settles, Keeps
  <2>9. MaterialsInv'
    BY <2>1, <2>2, <2>3, <1>inv, <1>facts, <1>point, <1>mat DEF MaterialsInv, CurrentInv,
      WholeInv, EffectsInv, RunningPoints, ApprovedPoints, StartingPoints, BatchPoints,
      Succeeded, Unlisted, Given, KeepsTurns, Settles, OpenIn
  <2> QED BY <2>2, <2>3, <2>4, <2>5, <2>6, <2>7, <2>8, <2>9, <1>types DEF IInv, TypesInv, Given
<1>24. CASE AcknowledgeCall
  <2>1. /\ materials' = Acknowledge({Current})
        /\ \/ at = "tried" /\ at' \in {"break", "failing"} /\ index' = index
           \/ at = "succeeded" /\ at' = "call" /\ index' = index + 1
        /\ UNCHANGED <<turns, status, control, operation, checkpoint, terminal, seen,
                      authorized, cache, used, effects, approved, received, resolved, published,
                      texts, attention, interventions, crashes, request, recovered, token, boundary,
                      profile, result>>
    BY <1>24 DEF AcknowledgeCall, NoteFailure, vars, sessionVars, worldVars, ownerVars,
      localVars
  <2>2. TurnsTyped(turns, CallKinds)' /\ KeepsTurns /\ LastTurn' = LastTurn
    BY <1>24, <2>1, SameTurns
  <2>3. /\ Scientific' = Scientific
        /\ CallKinds' = CallKinds
        /\ LastReceived' = LastReceived /\ ReceivedCalls' = ReceivedCalls
        /\ EffectCalls' = EffectCalls
        /\ Current' = <<Len(turns'), index'>>
    BY <2>1, <2>2 DEF Scientific, CallKinds, LastReceived, ReceivedCalls, EffectCalls, Current,
      CallAt
  <2>4. CurrentInv'
    BY <2>1, <2>2, <2>3, LimitsAssumption, <1>inv, <1>facts, <1>point DEF CurrentInv, WholeInv,
      RunningPoints, ApprovedPoints, StartingPoints, BatchPoints, KeepsTurns
  <2>5. WholeInv'
    BY <2>1, <2>2, <2>3, <1>inv, <1>facts, <1>point DEF WholeInv, CurrentInv, RunningPoints,
      ApprovedPoints, StartingPoints, BatchPoints, KeepsTurns
  <2>6. EffectsInv' /\ TaskInv' /\ ReceivedInv' /\ StatusInv' /\ ResultCurrent' /\ RequestInv'
    BY <2>1, <2>2, <2>3, <1>inv, <1>facts, <1>point, <1>none, <1>owner DEF EffectsInv,
      CurrentInv, WholeInv, RunningPoints, ApprovedPoints, StartingPoints, BatchPoints,
      KeepsTurns, TaskInv, OwnerInv, ReceivedInv, StatusInv, ResultCurrent, RequestInv
  <2>7. ControlInv'
    BY <2>1, <2>2, <2>3, <1>inv, <1>facts, <1>point, <1>none, <1>owner DEF ControlInv,
      OwnerInv, StatusInv, RunningPoints, ApprovedPoints, StartingPoints, BatchPoints,
      UncontrolledPoints, KeepsTurns
  <2>8. ApprovalInv' /\ OwnerInv'
    BY <2>1, <2>2, <2>3, <1>inv, <1>facts, <1>point, <1>none, <1>owner DEF ApprovalInv,
      ControlInv, WholeInv, RunningPoints, ApprovedPoints, StartingPoints, BatchPoints,
      UncontrolledPoints, KeepsTurns, OwnerInv, StatusInv
  <2>9. CacheInv'
    BY <2>1, <2>2, <2>3, <1>inv, <1>facts, <1>point, <1>none, <1>owner DEF CacheInv,
      ControlInv, StatusInv, RequestInv, OwnerInv, RunningPoints, ApprovedPoints, StartingPoints,
      BatchPoints, UncontrolledPoints, Agrees, KeepsTurns
  <2>10. MaterialsInv'
    BY <2>1, <2>2, <2>3, <1>inv, <1>facts, <1>point, <1>mat DEF MaterialsInv, CurrentInv,
      WholeInv, EffectsInv, RunningPoints, ApprovedPoints, StartingPoints, BatchPoints,
      Succeeded, Unlisted, KeepsTurns, Acknowledge, OpenIn
  <2> QED BY <2>2, <2>3, <2>4, <2>5, <2>6, <2>7, <2>8, <2>9, <2>10, <1>types DEF IInv, TypesInv
<1>25. CASE BatchEnds
  <2>1. /\ at' = "loop" /\ index' = 0 /\ status' \in {status, "active"} /\ at \in {"break", "call"}
        /\ UNCHANGED <<control, operation, checkpoint, terminal, seen, authorized, cache,
                      used, effects, approved, materials, received, resolved, published, texts,
                      attention, interventions, crashes, request, failures, recovered, token,
                      boundary, profile, result>>
    BY <1>25 DEF BatchEnds, UnchangedButTurns, Visit, vars, sessionVars, worldVars, ownerVars,
      localVars
  <2>2. /\ TurnsTyped(turns, CallKinds)' /\ KeepsTurns
        /\ Settles(turns, turns', OpenOf(turns, {Len(turns)}), "unknown", "notExecuted")
    BY <1>25, <2>1, LastSteps
  <2>3. /\ Scientific' = Scientific
        /\ CallKinds' = CallKinds
        /\ LastReceived' = LastReceived /\ ReceivedCalls' = ReceivedCalls
        /\ EffectCalls' = EffectCalls
        /\ Keeps(turns, turns')
        /\ Len(turns') \in Nat
        /\ turns # <<>> => LastTurn'.calls = LastTurn.calls /\ turns' # <<>>
        /\ Current' = <<Len(turns'), index'>>
    BY <2>1, <2>2, <1>facts, KeepsSteps DEF Scientific, CallKinds, LastReceived, ReceivedCalls,
      EffectCalls, LastTurn, Current, CallAt, TurnsTyped, KeepsTurns
  <2>4. CurrentInv' /\ WholeInv'
    BY <2>1, <2>2, <2>3, LimitsAssumption, <1>inv, <1>facts, <1>point DEF CurrentInv, WholeInv,
      RunningPoints, ApprovedPoints, StartingPoints, BatchPoints, KeepsTurns, Settles, OpenOf
  <2>5. EffectsInv' /\ TaskInv' /\ ReceivedInv' /\ StatusInv' /\ ResultCurrent' /\ RequestInv'
    BY <2>1, <2>2, <2>3, <1>inv, <1>facts, <1>point, <1>none, <1>owner DEF EffectsInv,
      CurrentInv, WholeInv, RunningPoints, ApprovedPoints, StartingPoints, BatchPoints,
      KeepsTurns, Settles, OpenOf, TaskInv, OwnerInv, ReceivedInv, Keeps, StatusInv,
      ResultCurrent, RequestInv
  <2>6. ControlInv'
    BY <2>1, <2>2, <2>3, <1>inv, <1>facts, <1>point, <1>none, <1>owner DEF ControlInv,
      OwnerInv, StatusInv, RunningPoints, ApprovedPoints, StartingPoints, BatchPoints,
      UncontrolledPoints, KeepsTurns, Settles, OpenOf, Keeps
  <2>7. ApprovalInv' /\ OwnerInv'
    BY <2>1, <2>2, <2>3, <1>inv, <1>facts, <1>point, <1>none, <1>owner DEF ApprovalInv,
      ControlInv, WholeInv, RunningPoints, ApprovedPoints, StartingPoints, BatchPoints,
      UncontrolledPoints, KeepsTurns, Settles, OpenOf, Keeps, OwnerInv, StatusInv
  <2>8. CacheInv'
    BY <2>1, <2>2, <2>3, <1>inv, <1>facts, <1>point, <1>none, <1>owner DEF CacheInv,
      ControlInv, StatusInv, RequestInv, OwnerInv, RunningPoints, ApprovedPoints, StartingPoints,
      BatchPoints, UncontrolledPoints, Agrees, KeepsTurns, Settles, OpenOf, Keeps
  <2>9. MaterialsInv'
    BY <2>1, <2>2, <2>3, <1>inv, <1>facts, <1>point DEF MaterialsInv, CurrentInv, WholeInv,
      EffectsInv, RunningPoints, ApprovedPoints, StartingPoints, BatchPoints, Succeeded,
      Unlisted, KeepsTurns, Settles, OpenOf
  <2> QED BY <2>2, <2>3, <2>4, <2>5, <2>6, <2>7, <2>8, <2>9, <1>types DEF IInv, TypesInv
<1> QED BY <1>1, <1>2, <1>3, <1>4, <1>5, <1>6, <1>7, <1>8, <1>9, <1>10, <1>11, <1>12, <1>13, <1>14,
  <1>15, <1>16, <1>17, <1>18, <1>19, <1>20, <1>21, <1>22, <1>23, <1>24, <1>25

\* Controls, completion, failure and interruption keeps the invariant.
LEMMA EndingSteps ==
  ASSUME IInv, [Next]_vars,
         AcceptControl \/ RecordControlReceipt \/ ReturnControl \/ FinishAccepted \/
         DeferFinish \/ CompleteSession \/ SettleFailing \/ FailSession \/ Suspend \/
         StopUnconfirmed
  PROVE  IInv'
<1>inv. /\ TypesInv /\ CurrentInv /\ WholeInv /\ EffectsInv /\ TaskInv /\ ControlInv
        /\ ReceivedInv /\ ApprovalInv /\ OwnerInv /\ StatusInv /\ ResultCurrent /\ RequestInv /\ CacheInv
        /\ MaterialsInv
  BY DEF IInv
<1>types. FieldsInv'
  BY FieldsStep
<1>facts. /\ RunningIn(turns) \subseteq OpenIn(turns) /\ OpenIn(turns) \subseteq AskedIn(turns)
          /\ AskedIn(turns) \subseteq Calls /\ NoCall \notin Calls
          /\ \A c, d \in RunningIn(turns) : c[1] = d[1] => c = d
          /\ \A c \in AskedIn(turns) :
               /\ c[1] \in Nat /\ c[1] <= Len(turns) /\ c[2] \in Nat /\ c[1] > 0 /\ c[2] > 0
               /\ KindIn(turns, c) \in CallKinds
               /\ c[1] = Len(turns) => c = <<Len(turns), c[2]>> /\ c[2] <= Len(LastTurn.calls)
               /\ c[2] <= MaxBatch /\ (KindIn(turns, c) = "guarded" => ~Scientific)
          /\ Len(turns) \in Nat /\ index \in Nat /\ FailureLimit \in Nat /\ MaxBatch \in Nat
          /\ turns # <<>> <=> Len(turns) > 0
          /\ crashes \in Nat /\ published \in Nat /\ seen \in Nat /\ checkpoint \in Nat
          /\ \A c \in OpenIn(turns) : ReceiptIn(turns, c) = "none"
  BY StateFacts
<1>point. /\ at \in RunningPoints \union ApprovedPoints \union {"reviewing"} =>
               Current \in OpenIn(turns)
          /\ at \in {"succeeded", "tried", "controlled", "finished"} =>
               Current \in AskedIn(turns) /\ Current \notin OpenIn(turns)
          /\ at = "call" /\ index <= Len(LastTurn.calls) => Current \in OpenIn(turns)
          /\ \A c \in AskedIn(turns) : c = Current => Kind = KindIn(turns, c)
          /\ Current = <<Len(turns), index>> /\ Current[1] = Len(turns) /\ Current[2] = index
  BY PointFacts
<1>owner. /\ LastReceived \in Calls \union {NoCall} /\ Unresolved \subseteq Calls
          /\ received # <<>> => LastReceived \in ReceivedCalls
          /\ LastReceived = NoCall <=> received = <<>>
          /\ ReceivedCalls \subseteq Calls
  BY <1>inv, ReceivedTyped
<1>approve. /\ control.action = "approve" => ~Scientific /\ KindIn(turns, control.call) = "guarded"
            /\ \A i \in DOMAIN received : received[i].action = "approve" =>
                 ~Scientific /\ received[i].call \in AskedIn(turns)
  BY <1>inv, ApprovalOf, ValuesTyped DEF ControlInv, ReceivedInv, NoControl
<1>eff. effects \in [Calls -> Nat]
  BY <1>inv DEF TypesInv, FieldsInv, WorldFields
<1>mat. materials \in [Calls -> {"none", "bound", "listed"}]
  BY <1>inv DEF TypesInv, FieldsInv, WorldFields
<1>cache. cache \in [Calls \union {NoCall} -> Results] /\ NoCall \notin Calls
  BY <1>inv, <1>facts DEF TypesInv, FieldsInv, SavedFields
<1>none. /\ NoControl.action = "none" /\ NoControl.call = NoCall
         /\ "none" \notin ControlKinds /\ "approve" \notin ControlKinds
         /\ NoResult.kind = "none" /\ NoResult.control = NoControl
         /\ \A kind : Result(kind).kind = kind /\ Result(kind).control = NoControl
  BY DEF NoControl, ControlKinds, NoResult, Result
<1>1. CASE AcceptControl
  <2>1. /\ at = "observe" /\ at' = "receipt" /\ status' = "paused" /\ Kind \in ControlKinds
        /\ control' = [action |-> Kind, call |-> Current]
        /\ UNCHANGED <<turns, operation, checkpoint, terminal, seen, authorized, cache,
                      used, effects, approved, materials, received, resolved, published, texts,
                      attention, interventions, crashes, request, index, failures, recovered, token,
                      boundary, profile, result>>
    BY <1>1 DEF AcceptControl, ControlAllowed, GoTo, vars, sessionVars, worldVars, ownerVars,
      localVars
  <2>2. TurnsTyped(turns, CallKinds)' /\ KeepsTurns /\ LastTurn' = LastTurn
    BY <1>1, <2>1, SameTurns
  <2>3. /\ Scientific' = Scientific
        /\ CallKinds' = CallKinds
        /\ LastReceived' = LastReceived /\ ReceivedCalls' = ReceivedCalls
        /\ EffectCalls' = EffectCalls
        /\ Current' = Current
    BY <2>1, <2>2 DEF Scientific, CallKinds, LastReceived, ReceivedCalls, EffectCalls, Current,
      CallAt, KeepsTurns
  <2>asks. /\ Names(turns, control') /\ control' # NoControl /\ control' \notin Range(received)
           /\ control'.action \in ControlKinds /\ ReceiptIn(turns, control'.call) = "none"
    <3>1. /\ Names(turns, control') /\ control'.action \in ControlKinds
          /\ ReceiptIn(turns, control'.call) = "none"
      BY <2>1, <1>facts, <1>point DEF Names, RunningPoints, ControlKinds
    <3>2. \A i \in DOMAIN received : received[i] # control'
      BY <3>1, <1>inv DEF ReceivedInv
    <3> QED BY <3>1, <3>2, <1>none DEF Range
  <2>4. CurrentInv' /\ WholeInv'
    BY <2>1, <2>2, <2>3, LimitsAssumption, <1>inv, <1>facts, <1>point DEF CurrentInv, WholeInv,
      RunningPoints, ApprovedPoints, StartingPoints, BatchPoints, KeepsTurns
  <2>5. EffectsInv' /\ TaskInv' /\ ReceivedInv' /\ StatusInv' /\ ResultCurrent' /\ RequestInv'
    BY <2>1, <2>2, <2>3, <1>inv, <1>facts, <1>point, <1>none, <1>owner DEF EffectsInv,
      CurrentInv, WholeInv, RunningPoints, ApprovedPoints, StartingPoints, BatchPoints,
      KeepsTurns, TaskInv, OwnerInv, ReceivedInv, StatusInv, ResultCurrent, RequestInv
  <2>6. ControlInv'
    BY <2>1, <2>2, <2>3, <1>inv, <1>facts, <1>point, <1>none, <1>owner, <2>asks DEF ControlInv,
      OwnerInv, StatusInv, RunningPoints, ApprovedPoints, StartingPoints, BatchPoints,
      UncontrolledPoints, KeepsTurns
  <2>7. ApprovalInv' /\ OwnerInv'
    BY <2>1, <2>2, <2>3, <1>inv, <1>facts, <1>point, <1>none, <1>owner, <2>asks DEF
      ApprovalInv, ControlInv, WholeInv, RunningPoints, ApprovedPoints, StartingPoints,
      BatchPoints, UncontrolledPoints, KeepsTurns, OwnerInv, StatusInv
  <2>8. CacheInv'
    BY <2>1, <2>2, <2>3, <1>inv, <1>facts, <1>point, <1>none, <1>owner DEF CacheInv,
      ControlInv, StatusInv, RequestInv, OwnerInv, RunningPoints, ApprovedPoints, StartingPoints,
      BatchPoints, UncontrolledPoints, Agrees, KeepsTurns
  <2>9. MaterialsInv'
    BY <2>1, <2>2, <2>3, <1>inv, <1>facts, <1>point DEF MaterialsInv, CurrentInv, WholeInv,
      EffectsInv, RunningPoints, ApprovedPoints, StartingPoints, BatchPoints, Succeeded,
      Unlisted, KeepsTurns
  <2> QED BY <2>2, <2>3, <2>4, <2>5, <2>6, <2>7, <2>8, <2>9, <1>types DEF IInv, TypesInv
<1>2. CASE RecordControlReceipt
  <2>1. /\ at = "receipt" /\ at' = "controlled" /\ status' = "paused"
        /\ UNCHANGED <<control, operation, checkpoint, terminal, seen, authorized, cache,
                      used, effects, approved, materials, received, resolved, published, texts,
                      attention, interventions, crashes, request, index, failures, recovered, token,
                      boundary, profile, result>>
    BY <1>2 DEF RecordControlReceipt, UnchangedButTurns, GoTo, vars, sessionVars, worldVars,
      ownerVars, localVars
  <2>2. Given(Current, "accepted")
    BY <1>2, <2>1, ReceiptSteps
  <2>3. /\ Scientific' = Scientific
        /\ CallKinds' = CallKinds
        /\ LastReceived' = LastReceived /\ ReceivedCalls' = ReceivedCalls
        /\ EffectCalls' = EffectCalls
        /\ Keeps(turns, turns')
        /\ Len(turns') \in Nat
        /\ turns # <<>> => LastTurn'.calls = LastTurn.calls /\ turns' # <<>>
        /\ Current' = Current
    BY <2>1, <2>2, <1>facts, KeepsSteps DEF Scientific, CallKinds, LastReceived, ReceivedCalls,
      EffectCalls, LastTurn, Current, CallAt, Given, KeepsTurns, TurnsTyped
  <2>4. CurrentInv' /\ WholeInv'
    BY <2>1, <2>2, <2>3, LimitsAssumption, <1>inv, <1>facts, <1>point DEF CurrentInv, WholeInv,
      RunningPoints, ApprovedPoints, StartingPoints, BatchPoints, Given, KeepsTurns, Settles
  <2>5. EffectsInv' /\ TaskInv' /\ ReceivedInv' /\ StatusInv' /\ ResultCurrent' /\ RequestInv'
    BY <2>1, <2>2, <2>3, <1>inv, <1>facts, <1>point, <1>none, <1>owner DEF EffectsInv,
      CurrentInv, WholeInv, RunningPoints, ApprovedPoints, StartingPoints, BatchPoints, Given,
      KeepsTurns, Settles, TaskInv, OwnerInv, ReceivedInv, Keeps, StatusInv, ResultCurrent,
      RequestInv
  <2>6. ControlInv'
    BY <2>1, <2>2, <2>3, <1>inv, <1>facts, <1>point, <1>none, <1>owner DEF ControlInv,
      OwnerInv, StatusInv, RunningPoints, ApprovedPoints, StartingPoints, BatchPoints,
      UncontrolledPoints, Given, KeepsTurns, Settles, Keeps
  <2>7. ApprovalInv' /\ OwnerInv'
    BY <2>1, <2>2, <2>3, <1>inv, <1>facts, <1>point, <1>none, <1>owner DEF ApprovalInv,
      ControlInv, WholeInv, RunningPoints, ApprovedPoints, StartingPoints, BatchPoints,
      UncontrolledPoints, Given, KeepsTurns, Settles, Keeps, OwnerInv, StatusInv
  <2>8. CacheInv'
    BY <2>1, <2>2, <2>3, <1>inv, <1>facts, <1>point, <1>none, <1>owner DEF CacheInv,
      ControlInv, StatusInv, RequestInv, OwnerInv, RunningPoints, ApprovedPoints, StartingPoints,
      BatchPoints, UncontrolledPoints, Agrees, Given, KeepsTurns, Settles, Keeps
  <2>9. MaterialsInv'
    BY <2>1, <2>2, <2>3, <1>inv, <1>facts, <1>point DEF MaterialsInv, CurrentInv, WholeInv,
      EffectsInv, RunningPoints, ApprovedPoints, StartingPoints, BatchPoints, Succeeded,
      Unlisted, Given, KeepsTurns, Settles
  <2> QED BY <2>2, <2>3, <2>4, <2>5, <2>6, <2>7, <2>8, <2>9, <1>types DEF IInv, TypesInv, Given
<1>3. CASE ReturnControl
  <2>1. /\ at = "controlled" /\ at' = "returning" /\ result' = [kind |-> "control", control |-> control]
        /\ UNCHANGED <<turns, status, control, operation, checkpoint, terminal, seen,
                      authorized, cache, used, effects, approved, materials, received, resolved,
                      published, texts, attention, interventions, crashes, request, index, failures,
                      recovered, token, boundary, profile>>
    BY <1>3 DEF ReturnControl, Answer, vars, sessionVars, worldVars, ownerVars, localVars
  <2>2. TurnsTyped(turns, CallKinds)' /\ KeepsTurns /\ LastTurn' = LastTurn
    BY <1>3, <2>1, SameTurns
  <2>3. /\ Scientific' = Scientific
        /\ CallKinds' = CallKinds
        /\ LastReceived' = LastReceived /\ ReceivedCalls' = ReceivedCalls
        /\ EffectCalls' = EffectCalls
        /\ Current' = Current
    BY <2>1, <2>2 DEF Scientific, CallKinds, LastReceived, ReceivedCalls, EffectCalls, Current,
      CallAt, KeepsTurns
  <2>4. CurrentInv' /\ WholeInv'
    BY <2>1, <2>2, <2>3, LimitsAssumption, <1>inv, <1>facts, <1>point DEF CurrentInv, WholeInv,
      RunningPoints, ApprovedPoints, StartingPoints, BatchPoints, KeepsTurns
  <2>5. EffectsInv' /\ TaskInv' /\ ReceivedInv' /\ StatusInv' /\ ResultCurrent' /\ RequestInv'
    BY <2>1, <2>2, <2>3, <1>inv, <1>facts, <1>point, <1>none, <1>owner DEF EffectsInv,
      CurrentInv, WholeInv, RunningPoints, ApprovedPoints, StartingPoints, BatchPoints,
      KeepsTurns, TaskInv, OwnerInv, ReceivedInv, StatusInv, ResultCurrent, RequestInv
  <2>6. ControlInv'
    BY <2>1, <2>2, <2>3, <1>inv, <1>facts, <1>point, <1>none, <1>owner DEF ControlInv,
      OwnerInv, StatusInv, RunningPoints, ApprovedPoints, StartingPoints, BatchPoints,
      UncontrolledPoints, KeepsTurns
  <2>7. ApprovalInv' /\ OwnerInv'
    BY <2>1, <2>2, <2>3, <1>inv, <1>facts, <1>point, <1>none, <1>owner DEF ApprovalInv,
      ControlInv, WholeInv, RunningPoints, ApprovedPoints, StartingPoints, BatchPoints,
      UncontrolledPoints, KeepsTurns, OwnerInv, StatusInv
  <2>8. CacheInv'
    BY <2>1, <2>2, <2>3, <1>inv, <1>facts, <1>point, <1>none, <1>owner DEF CacheInv,
      ControlInv, StatusInv, RequestInv, OwnerInv, RunningPoints, ApprovedPoints, StartingPoints,
      BatchPoints, UncontrolledPoints, Agrees, KeepsTurns
  <2>9. MaterialsInv'
    BY <2>1, <2>2, <2>3, <1>inv, <1>facts, <1>point DEF MaterialsInv, CurrentInv, WholeInv,
      EffectsInv, RunningPoints, ApprovedPoints, StartingPoints, BatchPoints, Succeeded,
      Unlisted, KeepsTurns
  <2> QED BY <2>2, <2>3, <2>4, <2>5, <2>6, <2>7, <2>8, <2>9, <1>types DEF IInv, TypesInv
<1>4. CASE FinishAccepted
  <2>1. /\ at = "observe" /\ at' = "finished" /\ status' = "active" /\ Kind = "finish"
        /\ UNCHANGED <<control, operation, checkpoint, terminal, seen, authorized, cache,
                      used, effects, approved, materials, received, resolved, published, texts,
                      attention, interventions, crashes, request, index, failures, recovered, token,
                      boundary, profile, result>>
    BY <1>4 DEF FinishAccepted, RecordReceipt, Saved, UnchangedButTurns, GoTo, vars,
      sessionVars, worldVars, ownerVars, localVars
  <2>2. Given(Current, "accepted")
    BY <1>4, <2>1, ReceiptSteps
  <2>3. /\ Scientific' = Scientific
        /\ CallKinds' = CallKinds
        /\ LastReceived' = LastReceived /\ ReceivedCalls' = ReceivedCalls
        /\ EffectCalls' = EffectCalls
        /\ Keeps(turns, turns')
        /\ Len(turns') \in Nat
        /\ turns # <<>> => LastTurn'.calls = LastTurn.calls /\ turns' # <<>>
        /\ Current' = Current
    BY <2>1, <2>2, <1>facts, KeepsSteps DEF Scientific, CallKinds, LastReceived, ReceivedCalls,
      EffectCalls, LastTurn, Current, CallAt, Given, KeepsTurns, TurnsTyped
  <2>alone. OpenIn(turns) = {Current}
    <3>1. /\ Current \in OpenIn(turns) /\ Acceptable(LastTurn.calls)
          /\ \A c \in OpenIn(turns) : c[1] = Len(turns)
      BY <2>1, <1>inv, <1>point DEF WholeInv, RunningPoints, StartingPoints, BatchPoints
    <3>2. /\ index \in 1..Len(LastTurn.calls) /\ LastTurn.calls[index] = "finish"
          /\ Len(turns) \in 1..Len(turns)
      BY <2>1, <3>1, <1>inv, <1>facts, CurrentTyped DEF Kind
    <3>3. LastTurn.calls \in Seq(AllCallKinds)
      <4>1. turns[Len(turns)] \in TurnRecords
        BY <3>2, <1>inv DEF TypesInv, TurnsTyped
      <4> QED BY <4>1 DEF LastTurn, TurnRecords
    <3>4. Len(LastTurn.calls) = 1
      BY <3>1, <3>2, <3>3 DEF Acceptable, Alone
    <3>5. \A c \in OpenIn(turns) : c = <<Len(turns), 1>>
      BY <3>1, <3>4, <1>facts
    <3> QED BY <3>1, <3>5
  <2>4. CurrentInv' /\ WholeInv'
    BY <2>1, <2>2, <2>3, LimitsAssumption, <1>inv, <1>facts, <1>point, <2>alone DEF CurrentInv,
      WholeInv, RunningPoints, ApprovedPoints, StartingPoints, BatchPoints, Given, KeepsTurns,
      Settles
  <2>5. EffectsInv' /\ TaskInv' /\ ReceivedInv' /\ StatusInv' /\ ResultCurrent' /\ RequestInv'
    BY <2>1, <2>2, <2>3, <1>inv, <1>facts, <1>point, <1>none, <1>owner DEF EffectsInv,
      CurrentInv, WholeInv, RunningPoints, ApprovedPoints, StartingPoints, BatchPoints, Given,
      KeepsTurns, Settles, TaskInv, OwnerInv, ReceivedInv, Keeps, StatusInv, ResultCurrent,
      RequestInv
  <2>6. ControlInv'
    BY <2>1, <2>2, <2>3, <1>inv, <1>facts, <1>point, <1>none, <1>owner DEF ControlInv,
      OwnerInv, StatusInv, RunningPoints, ApprovedPoints, StartingPoints, BatchPoints,
      UncontrolledPoints, Given, KeepsTurns, Settles, Keeps
  <2>7. ApprovalInv' /\ OwnerInv'
    BY <2>1, <2>2, <2>3, <1>inv, <1>facts, <1>point, <1>none, <1>owner DEF ApprovalInv,
      ControlInv, WholeInv, RunningPoints, ApprovedPoints, StartingPoints, BatchPoints,
      UncontrolledPoints, Given, KeepsTurns, Settles, Keeps, OwnerInv, StatusInv
  <2>8. CacheInv'
    BY <2>1, <2>2, <2>3, <1>inv, <1>facts, <1>point, <1>none, <1>owner DEF CacheInv,
      ControlInv, StatusInv, RequestInv, OwnerInv, RunningPoints, ApprovedPoints, StartingPoints,
      BatchPoints, UncontrolledPoints, Agrees, Given, KeepsTurns, Settles, Keeps
  <2>9. MaterialsInv'
    BY <2>1, <2>2, <2>3, <1>inv, <1>facts, <1>point DEF MaterialsInv, CurrentInv, WholeInv,
      EffectsInv, RunningPoints, ApprovedPoints, StartingPoints, BatchPoints, Succeeded,
      Unlisted, Given, KeepsTurns, Settles
  <2> QED BY <2>2, <2>3, <2>4, <2>5, <2>6, <2>7, <2>8, <2>9, <1>types DEF IInv, TypesInv, Given
<1>5. CASE DeferFinish
  <2>1. /\ at = "finished" /\ at' = "returning" /\ Scientific /\ status' = "paused"
        /\ result' = Result("yielded")
        /\ UNCHANGED <<turns, control, operation, checkpoint, terminal, seen, authorized,
                      cache, used, effects, approved, materials, received, resolved, published, texts,
                      attention, interventions, crashes, request, index, failures, recovered, token,
                      boundary, profile>>
    BY <1>5 DEF DeferFinish, UnchangedButTurns, Answer, vars, sessionVars, worldVars,
      ownerVars, localVars
  <2>2. TurnsTyped(turns, CallKinds)' /\ KeepsTurns /\ LastTurn' = LastTurn
    BY <1>5, <2>1, SameTurns
  <2>3. /\ Scientific' = Scientific
        /\ CallKinds' = CallKinds
        /\ LastReceived' = LastReceived /\ ReceivedCalls' = ReceivedCalls
        /\ EffectCalls' = EffectCalls
        /\ Current' = Current
    BY <2>1, <2>2 DEF Scientific, CallKinds, LastReceived, ReceivedCalls, EffectCalls, Current,
      CallAt, KeepsTurns
  <2>4. CurrentInv' /\ WholeInv'
    BY <2>1, <2>2, <2>3, LimitsAssumption, <1>inv, <1>facts, <1>point DEF CurrentInv, WholeInv,
      RunningPoints, ApprovedPoints, StartingPoints, BatchPoints, KeepsTurns
  <2>5. EffectsInv' /\ TaskInv' /\ ReceivedInv' /\ StatusInv' /\ ResultCurrent' /\ RequestInv'
    BY <2>1, <2>2, <2>3, <1>inv, <1>facts, <1>point, <1>none, <1>owner DEF EffectsInv,
      CurrentInv, WholeInv, RunningPoints, ApprovedPoints, StartingPoints, BatchPoints,
      KeepsTurns, TaskInv, OwnerInv, ReceivedInv, StatusInv, ResultCurrent, RequestInv
  <2>6. ControlInv'
    BY <2>1, <2>2, <2>3, <1>inv, <1>facts, <1>point, <1>none, <1>owner DEF ControlInv,
      OwnerInv, StatusInv, RunningPoints, ApprovedPoints, StartingPoints, BatchPoints,
      UncontrolledPoints, KeepsTurns
  <2>7. ApprovalInv' /\ OwnerInv'
    BY <2>1, <2>2, <2>3, <1>inv, <1>facts, <1>point, <1>none, <1>owner DEF ApprovalInv,
      ControlInv, WholeInv, RunningPoints, ApprovedPoints, StartingPoints, BatchPoints,
      UncontrolledPoints, KeepsTurns, OwnerInv, StatusInv
  <2>8. CacheInv'
    BY <2>1, <2>2, <2>3, <1>inv, <1>facts, <1>point, <1>none, <1>owner DEF CacheInv,
      ControlInv, StatusInv, RequestInv, OwnerInv, RunningPoints, ApprovedPoints, StartingPoints,
      BatchPoints, UncontrolledPoints, Agrees, KeepsTurns
  <2>9. MaterialsInv'
    BY <2>1, <2>2, <2>3, <1>inv, <1>facts, <1>point DEF MaterialsInv, CurrentInv, WholeInv,
      EffectsInv, RunningPoints, ApprovedPoints, StartingPoints, BatchPoints, Succeeded,
      Unlisted, KeepsTurns
  <2> QED BY <2>2, <2>3, <2>4, <2>5, <2>6, <2>7, <2>8, <2>9, <1>types DEF IInv, TypesInv
<1>6. CASE CompleteSession
  <2>1. /\ at = "finished" /\ at' = "returning" /\ status' = "completed"
        /\ terminal' = Result("completed") /\ result' = Result("completed")
        /\ UNCHANGED <<turns, control, operation, checkpoint, seen, authorized, cache,
                      used, effects, approved, materials, received, resolved, published, texts,
                      attention, interventions, crashes, request, index, failures, recovered, token,
                      boundary, profile>>
    BY <1>6 DEF CompleteSession, Answer, vars, sessionVars, worldVars, ownerVars, localVars
  <2>2. TurnsTyped(turns, CallKinds)' /\ KeepsTurns /\ LastTurn' = LastTurn
    BY <1>6, <2>1, SameTurns
  <2>3. /\ Scientific' = Scientific
        /\ CallKinds' = CallKinds
        /\ LastReceived' = LastReceived /\ ReceivedCalls' = ReceivedCalls
        /\ EffectCalls' = EffectCalls
        /\ Current' = Current
    BY <2>1, <2>2 DEF Scientific, CallKinds, LastReceived, ReceivedCalls, EffectCalls, Current,
      CallAt, KeepsTurns
  <2>4. CurrentInv' /\ WholeInv'
    BY <2>1, <2>2, <2>3, LimitsAssumption, <1>inv, <1>facts, <1>point DEF CurrentInv, WholeInv,
      RunningPoints, ApprovedPoints, StartingPoints, BatchPoints, KeepsTurns
  <2>5. EffectsInv' /\ TaskInv' /\ ReceivedInv' /\ StatusInv' /\ ResultCurrent' /\ RequestInv'
    BY <2>1, <2>2, <2>3, <1>inv, <1>facts, <1>point, <1>none, <1>owner DEF EffectsInv,
      CurrentInv, WholeInv, RunningPoints, ApprovedPoints, StartingPoints, BatchPoints,
      KeepsTurns, TaskInv, OwnerInv, ReceivedInv, StatusInv, ResultCurrent, RequestInv
  <2>6. ControlInv'
    BY <2>1, <2>2, <2>3, <1>inv, <1>facts, <1>point, <1>none, <1>owner DEF ControlInv,
      OwnerInv, StatusInv, RunningPoints, ApprovedPoints, StartingPoints, BatchPoints,
      UncontrolledPoints, KeepsTurns
  <2>7. ApprovalInv' /\ OwnerInv'
    BY <2>1, <2>2, <2>3, <1>inv, <1>facts, <1>point, <1>none, <1>owner DEF ApprovalInv,
      ControlInv, WholeInv, RunningPoints, ApprovedPoints, StartingPoints, BatchPoints,
      UncontrolledPoints, KeepsTurns, OwnerInv, StatusInv
  <2>8. CacheInv'
    BY <2>1, <2>2, <2>3, <1>inv, <1>facts, <1>point, <1>none, <1>owner DEF CacheInv,
      ControlInv, StatusInv, RequestInv, OwnerInv, RunningPoints, ApprovedPoints, StartingPoints,
      BatchPoints, UncontrolledPoints, Agrees, KeepsTurns
  <2>9. MaterialsInv'
    BY <2>1, <2>2, <2>3, <1>inv, <1>facts, <1>point DEF MaterialsInv, CurrentInv, WholeInv,
      EffectsInv, RunningPoints, ApprovedPoints, StartingPoints, BatchPoints, Succeeded,
      Unlisted, KeepsTurns
  <2> QED BY <2>2, <2>3, <2>4, <2>5, <2>6, <2>7, <2>8, <2>9, <1>types DEF IInv, TypesInv
<1>7. CASE SettleFailing
  <2>1. /\ at = "failing" /\ status' = "active"
        /\ UNCHANGED <<control, operation, checkpoint, terminal, seen, authorized, cache,
                      used, effects, approved, materials, received, resolved, published, texts,
                      attention, interventions, crashes, at, request, index, failures, recovered,
                      token, boundary, profile, result>>
    BY <1>7 DEF SettleFailing, Saved, UnchangedButTurns, GoTo, vars, sessionVars, worldVars,
      ownerVars, localVars
  <2>2. /\ TurnsTyped(turns, CallKinds)' /\ KeepsTurns
        /\ Settles(turns, turns', OpenOf(turns, {Len(turns)}), "unknown", "notExecuted")
    BY <1>7, <2>1, LastSteps
  <2>3. /\ Scientific' = Scientific
        /\ CallKinds' = CallKinds
        /\ LastReceived' = LastReceived /\ ReceivedCalls' = ReceivedCalls
        /\ EffectCalls' = EffectCalls
        /\ Keeps(turns, turns')
        /\ Len(turns') \in Nat
        /\ turns # <<>> => LastTurn'.calls = LastTurn.calls /\ turns' # <<>>
        /\ Current' = Current
    BY <2>1, <2>2, <1>facts, KeepsSteps DEF Scientific, CallKinds, LastReceived, ReceivedCalls,
      EffectCalls, LastTurn, Current, CallAt, KeepsTurns, TurnsTyped
  <2>4. CurrentInv' /\ WholeInv'
    BY <2>1, <2>2, <2>3, LimitsAssumption, <1>inv, <1>facts, <1>point DEF CurrentInv, WholeInv,
      RunningPoints, ApprovedPoints, StartingPoints, BatchPoints, KeepsTurns, Settles, OpenOf
  <2>5. EffectsInv' /\ TaskInv' /\ ReceivedInv' /\ StatusInv' /\ ResultCurrent' /\ RequestInv'
    BY <2>1, <2>2, <2>3, <1>inv, <1>facts, <1>point, <1>none, <1>owner DEF EffectsInv,
      CurrentInv, WholeInv, RunningPoints, ApprovedPoints, StartingPoints, BatchPoints,
      KeepsTurns, Settles, OpenOf, TaskInv, OwnerInv, ReceivedInv, Keeps, StatusInv,
      ResultCurrent, RequestInv
  <2>6. ControlInv'
    BY <2>1, <2>2, <2>3, <1>inv, <1>facts, <1>point, <1>none, <1>owner DEF ControlInv,
      OwnerInv, StatusInv, RunningPoints, ApprovedPoints, StartingPoints, BatchPoints,
      UncontrolledPoints, KeepsTurns, Settles, OpenOf, Keeps
  <2>7. ApprovalInv' /\ OwnerInv'
    BY <2>1, <2>2, <2>3, <1>inv, <1>facts, <1>point, <1>none, <1>owner DEF ApprovalInv,
      ControlInv, WholeInv, RunningPoints, ApprovedPoints, StartingPoints, BatchPoints,
      UncontrolledPoints, KeepsTurns, Settles, OpenOf, Keeps, OwnerInv, StatusInv
  <2>8. CacheInv'
    BY <2>1, <2>2, <2>3, <1>inv, <1>facts, <1>point, <1>none, <1>owner DEF CacheInv,
      ControlInv, StatusInv, RequestInv, OwnerInv, RunningPoints, ApprovedPoints, StartingPoints,
      BatchPoints, UncontrolledPoints, Agrees, KeepsTurns, Settles, OpenOf, Keeps
  <2>9. MaterialsInv'
    BY <2>1, <2>2, <2>3, <1>inv, <1>facts, <1>point DEF MaterialsInv, CurrentInv, WholeInv,
      EffectsInv, RunningPoints, ApprovedPoints, StartingPoints, BatchPoints, Succeeded,
      Unlisted, KeepsTurns, Settles, OpenOf
  <2> QED BY <2>2, <2>3, <2>4, <2>5, <2>6, <2>7, <2>8, <2>9, <1>types DEF IInv, TypesInv
<1>8. CASE FailSession
  <2>1. /\ at = "failing" /\ at' = "returning" /\ status' = "failed"
        /\ terminal' = Result("failed") /\ result' = Result("failed")
        /\ UNCHANGED <<turns, control, operation, checkpoint, seen, authorized, cache,
                      used, effects, approved, materials, received, resolved, published, texts,
                      attention, interventions, crashes, request, index, failures, recovered, token,
                      boundary, profile>>
    BY <1>8 DEF FailSession, Answer, vars, sessionVars, worldVars, ownerVars, localVars
  <2>2. TurnsTyped(turns, CallKinds)' /\ KeepsTurns /\ LastTurn' = LastTurn
    BY <1>8, <2>1, SameTurns
  <2>3. /\ Scientific' = Scientific
        /\ CallKinds' = CallKinds
        /\ LastReceived' = LastReceived /\ ReceivedCalls' = ReceivedCalls
        /\ EffectCalls' = EffectCalls
        /\ Current' = Current
    BY <2>1, <2>2 DEF Scientific, CallKinds, LastReceived, ReceivedCalls, EffectCalls, Current,
      CallAt, KeepsTurns
  <2>whole. \A c \in OpenIn(turns) : c[1] # Len(turns)
    <3>1. turns = SettleLast("unknown", "notExecuted")
      BY <1>8 DEF FailSession
    <3>2. "unknown" \in Receipts \ {"none"} /\ "notExecuted" \in Receipts \ {"none"}
      BY DEF Receipts
    <3>3. Settles(turns, turns, OpenOf(turns, {Len(turns)}), "unknown", "notExecuted")
      BY <3>1, <3>2, <1>inv, LastSettles
    <3> QED BY <3>3 DEF Settles, OpenOf
  <2>4. CurrentInv' /\ WholeInv'
    BY <2>1, <2>2, <2>3, LimitsAssumption, <1>inv, <1>facts, <1>point DEF CurrentInv, WholeInv,
      RunningPoints, ApprovedPoints, StartingPoints, BatchPoints, KeepsTurns
  <2>5. EffectsInv' /\ TaskInv' /\ ReceivedInv' /\ StatusInv' /\ ResultCurrent' /\ RequestInv'
    BY <2>1, <2>2, <2>3, <1>inv, <1>facts, <1>point, <2>whole, <1>none, <1>owner DEF
      EffectsInv, CurrentInv, WholeInv, RunningPoints, ApprovedPoints, StartingPoints,
      BatchPoints, KeepsTurns, TaskInv, OwnerInv, ReceivedInv, StatusInv, ResultCurrent,
      RequestInv
  <2>6. ControlInv'
    BY <2>1, <2>2, <2>3, <1>inv, <1>facts, <1>point, <1>none, <1>owner DEF ControlInv,
      OwnerInv, StatusInv, RunningPoints, ApprovedPoints, StartingPoints, BatchPoints,
      UncontrolledPoints, KeepsTurns
  <2>7. ApprovalInv' /\ OwnerInv'
    BY <2>1, <2>2, <2>3, <1>inv, <1>facts, <1>point, <1>none, <1>owner DEF ApprovalInv,
      ControlInv, WholeInv, RunningPoints, ApprovedPoints, StartingPoints, BatchPoints,
      UncontrolledPoints, KeepsTurns, OwnerInv, StatusInv
  <2>8. CacheInv'
    BY <2>1, <2>2, <2>3, <1>inv, <1>facts, <1>point, <1>none, <1>owner DEF CacheInv,
      ControlInv, StatusInv, RequestInv, OwnerInv, RunningPoints, ApprovedPoints, StartingPoints,
      BatchPoints, UncontrolledPoints, Agrees, KeepsTurns
  <2>9. MaterialsInv'
    BY <2>1, <2>2, <2>3, <1>inv, <1>facts, <1>point DEF MaterialsInv, CurrentInv, WholeInv,
      EffectsInv, RunningPoints, ApprovedPoints, StartingPoints, BatchPoints, Succeeded,
      Unlisted, KeepsTurns
  <2> QED BY <2>2, <2>3, <2>4, <2>5, <2>6, <2>7, <2>8, <2>9, <1>types DEF IInv, TypesInv
<1>9. CASE Suspend
  <2>1. /\ at \in Cancellable /\ at' = "returning" /\ status' = "paused" /\ control' = NoControl
        /\ operation' = NoCall /\ result' = Result("interrupted")
        /\ UNCHANGED <<checkpoint, terminal, seen, authorized, cache, used, effects,
                      approved, materials, received, resolved, published, texts, attention,
                      interventions, crashes, request, index, failures, recovered, token, boundary,
                      profile>>
    BY <1>9 DEF Suspend, Answer, vars, sessionVars, worldVars, ownerVars, localVars
  <2>2. /\ TurnsTyped(turns, CallKinds)' /\ Len(turns') = Len(turns) + 1
        /\ Settles(turns, turns', OpenOf(turns, {Len(turns)}), "interrupted", "notExecuted")
    BY <1>9, <2>1, SuspendGives
  <2>3. /\ Scientific' = Scientific
        /\ CallKinds' = CallKinds
        /\ LastReceived' = LastReceived /\ ReceivedCalls' = ReceivedCalls
        /\ EffectCalls' = EffectCalls
        /\ Keeps(turns, turns')
        /\ Len(turns') \in Nat
        /\ Current' = <<Len(turns'), index'>>
    BY <2>1, <2>2, KeepsSteps DEF Scientific, CallKinds, LastReceived, ReceivedCalls,
      EffectCalls, Current, CallAt, TurnsTyped
  <2>4. CurrentInv' /\ WholeInv'
    BY <2>1, <2>2, <2>3, LimitsAssumption, <1>inv, <1>facts, <1>point DEF CurrentInv, WholeInv,
      RunningPoints, ApprovedPoints, StartingPoints, BatchPoints, Settles, OpenOf
  <2>5. EffectsInv'
    BY <2>1, <2>2, <2>3, <1>inv, <1>facts, <1>point DEF EffectsInv, CurrentInv, WholeInv,
      RunningPoints, ApprovedPoints, StartingPoints, BatchPoints, Settles, OpenOf
  <2>6. TaskInv'
    BY <2>1, <2>2, <2>3, <1>inv, <1>facts, <1>point DEF TaskInv, CurrentInv, WholeInv,
      OwnerInv, RunningPoints, ApprovedPoints, StartingPoints, BatchPoints, Settles, OpenOf
  <2>7. ControlInv'
    BY <2>1, <2>2, <2>3, <1>inv, <1>facts, <1>point, <1>none, <1>owner DEF ControlInv,
      OwnerInv, StatusInv, RunningPoints, ApprovedPoints, StartingPoints, BatchPoints,
      UncontrolledPoints, Settles, OpenOf, Keeps, Cancellable
  <2>8. ReceivedInv'
    BY <2>1, <2>2, <2>3, <1>inv, <1>facts, <1>point, <1>none, <1>owner DEF ReceivedInv,
      Settles, OpenOf, Keeps
  <2>9. ApprovalInv' /\ OwnerInv'
    BY <2>1, <2>2, <2>3, <1>inv, <1>facts, <1>point, <1>none, <1>owner DEF ApprovalInv,
      ControlInv, WholeInv, RunningPoints, ApprovedPoints, StartingPoints, BatchPoints,
      UncontrolledPoints, Settles, OpenOf, Keeps, OwnerInv, StatusInv, Cancellable
  <2>10. StatusInv'
    BY <2>1, <2>2, <2>3, <1>inv, <1>facts, <1>point, <1>none DEF StatusInv, WholeInv,
      RunningPoints, ApprovedPoints, StartingPoints, BatchPoints, Settles, OpenOf, Cancellable
  <2>11. ResultCurrent'
    BY <2>1, <2>2, <2>3, <1>inv, <1>facts, <1>point, <1>none DEF ResultCurrent, StatusInv,
      Settles, OpenOf, Cancellable
  <2>12. RequestInv'
    BY <2>1, <2>2, <2>3, <1>inv, <1>facts, <1>point DEF RequestInv, Settles, OpenOf,
      Cancellable
  <2>13. CacheInv'
    BY <2>1, <2>2, <2>3, <1>inv, <1>facts, <1>point, <1>none, <1>owner DEF CacheInv,
      ControlInv, StatusInv, RequestInv, OwnerInv, RunningPoints, ApprovedPoints, StartingPoints,
      BatchPoints, UncontrolledPoints, Agrees, Settles, OpenOf, Keeps, Cancellable
  <2>14. MaterialsInv'
    BY <2>1, <2>2, <2>3, <1>inv, <1>facts, <1>point DEF MaterialsInv, CurrentInv, WholeInv,
      EffectsInv, RunningPoints, ApprovedPoints, StartingPoints, BatchPoints, Succeeded,
      Unlisted, Settles, OpenOf
  <2> QED BY <2>2, <2>3, <2>4, <2>5, <2>6, <2>7, <2>8, <2>9, <2>10, <2>11, <2>12, <2>13, <2>14,
    <1>types DEF IInv, TypesInv
<1>10. CASE StopUnconfirmed
  <2>1. /\ at \in {"ran", "observe"} /\ at' = "failing" /\ status' = "active"
        /\ UNCHANGED <<control, operation, checkpoint, terminal, seen, authorized, cache,
                      used, effects, approved, materials, received, resolved, published, texts,
                      attention, interventions, crashes, request, index, failures, recovered, token,
                      boundary, profile, result>>
    BY <1>10 DEF StopUnconfirmed, RecordReceipt, Saved, UnchangedButTurns, GoTo, vars,
      sessionVars, worldVars, ownerVars, localVars
  <2>2. Given(Current, "unknown")
    BY <1>10, <2>1, ReceiptSteps
  <2>3. /\ Scientific' = Scientific
        /\ CallKinds' = CallKinds
        /\ LastReceived' = LastReceived /\ ReceivedCalls' = ReceivedCalls
        /\ EffectCalls' = EffectCalls
        /\ Keeps(turns, turns')
        /\ Len(turns') \in Nat
        /\ turns # <<>> => LastTurn'.calls = LastTurn.calls /\ turns' # <<>>
        /\ Current' = Current
    BY <2>1, <2>2, <1>facts, KeepsSteps DEF Scientific, CallKinds, LastReceived, ReceivedCalls,
      EffectCalls, LastTurn, Current, CallAt, Given, KeepsTurns, TurnsTyped
  <2>4. CurrentInv' /\ WholeInv'
    BY <2>1, <2>2, <2>3, LimitsAssumption, <1>inv, <1>facts, <1>point DEF CurrentInv, WholeInv,
      RunningPoints, ApprovedPoints, StartingPoints, BatchPoints, Given, KeepsTurns, Settles
  <2>5. EffectsInv' /\ TaskInv' /\ ReceivedInv' /\ StatusInv' /\ ResultCurrent' /\ RequestInv'
    BY <2>1, <2>2, <2>3, <1>inv, <1>facts, <1>point, <1>none, <1>owner DEF EffectsInv,
      CurrentInv, WholeInv, RunningPoints, ApprovedPoints, StartingPoints, BatchPoints, Given,
      KeepsTurns, Settles, TaskInv, OwnerInv, ReceivedInv, Keeps, StatusInv, ResultCurrent,
      RequestInv
  <2>6. ControlInv'
    BY <2>1, <2>2, <2>3, <1>inv, <1>facts, <1>point, <1>none, <1>owner DEF ControlInv,
      OwnerInv, StatusInv, RunningPoints, ApprovedPoints, StartingPoints, BatchPoints,
      UncontrolledPoints, Given, KeepsTurns, Settles, Keeps
  <2>7. ApprovalInv' /\ OwnerInv'
    BY <2>1, <2>2, <2>3, <1>inv, <1>facts, <1>point, <1>none, <1>owner DEF ApprovalInv,
      ControlInv, WholeInv, RunningPoints, ApprovedPoints, StartingPoints, BatchPoints,
      UncontrolledPoints, Given, KeepsTurns, Settles, Keeps, OwnerInv, StatusInv
  <2>8. CacheInv'
    BY <2>1, <2>2, <2>3, <1>inv, <1>facts, <1>point, <1>none, <1>owner DEF CacheInv,
      ControlInv, StatusInv, RequestInv, OwnerInv, RunningPoints, ApprovedPoints, StartingPoints,
      BatchPoints, UncontrolledPoints, Agrees, Given, KeepsTurns, Settles, Keeps
  <2>9. MaterialsInv'
    BY <2>1, <2>2, <2>3, <1>inv, <1>facts, <1>point DEF MaterialsInv, CurrentInv, WholeInv,
      EffectsInv, RunningPoints, ApprovedPoints, StartingPoints, BatchPoints, Succeeded,
      Unlisted, Given, KeepsTurns, Settles
  <2> QED BY <2>2, <2>3, <2>4, <2>5, <2>6, <2>7, <2>8, <2>9, <1>types DEF IInv, TypesInv, Given
<1> QED BY <1>1, <1>2, <1>3, <1>4, <1>5, <1>6, <1>7, <1>8, <1>9, <1>10

\* The owner keeps the invariant.
LEMMA OwnerSteps ==
  ASSUME IInv, [Next]_vars,
         Invoke \/ ReceiveControl \/ Resolve \/ ReceivePause \/ DeferCompletion \/
         TerminateSession \/ ReceiveText \/ PauseIdle \/ Interrupt \/ Crash
  PROVE  IInv'
<1>inv. /\ TypesInv /\ CurrentInv /\ WholeInv /\ EffectsInv /\ TaskInv /\ ControlInv
        /\ ReceivedInv /\ ApprovalInv /\ OwnerInv /\ StatusInv /\ ResultCurrent /\ RequestInv /\ CacheInv
        /\ MaterialsInv
  BY DEF IInv
<1>types. FieldsInv'
  BY FieldsStep
<1>facts. /\ RunningIn(turns) \subseteq OpenIn(turns) /\ OpenIn(turns) \subseteq AskedIn(turns)
          /\ AskedIn(turns) \subseteq Calls /\ NoCall \notin Calls
          /\ \A c, d \in RunningIn(turns) : c[1] = d[1] => c = d
          /\ \A c \in AskedIn(turns) :
               /\ c[1] \in Nat /\ c[1] <= Len(turns) /\ c[2] \in Nat /\ c[1] > 0 /\ c[2] > 0
               /\ KindIn(turns, c) \in CallKinds
               /\ c[1] = Len(turns) => c = <<Len(turns), c[2]>> /\ c[2] <= Len(LastTurn.calls)
               /\ c[2] <= MaxBatch /\ (KindIn(turns, c) = "guarded" => ~Scientific)
          /\ Len(turns) \in Nat /\ index \in Nat /\ FailureLimit \in Nat /\ MaxBatch \in Nat
          /\ turns # <<>> <=> Len(turns) > 0
          /\ crashes \in Nat /\ published \in Nat /\ seen \in Nat /\ checkpoint \in Nat
          /\ \A c \in OpenIn(turns) : ReceiptIn(turns, c) = "none"
  BY StateFacts
<1>point. /\ at \in RunningPoints \union ApprovedPoints \union {"reviewing"} =>
               Current \in OpenIn(turns)
          /\ at \in {"succeeded", "tried", "controlled", "finished"} =>
               Current \in AskedIn(turns) /\ Current \notin OpenIn(turns)
          /\ at = "call" /\ index <= Len(LastTurn.calls) => Current \in OpenIn(turns)
          /\ \A c \in AskedIn(turns) : c = Current => Kind = KindIn(turns, c)
          /\ Current = <<Len(turns), index>> /\ Current[1] = Len(turns) /\ Current[2] = index
  BY PointFacts
<1>owner. /\ LastReceived \in Calls \union {NoCall} /\ Unresolved \subseteq Calls
          /\ received # <<>> => LastReceived \in ReceivedCalls
          /\ LastReceived = NoCall <=> received = <<>>
          /\ ReceivedCalls \subseteq Calls
  BY <1>inv, ReceivedTyped
<1>approve. /\ control.action = "approve" => ~Scientific /\ KindIn(turns, control.call) = "guarded"
            /\ \A i \in DOMAIN received : received[i].action = "approve" =>
                 ~Scientific /\ received[i].call \in AskedIn(turns)
  BY <1>inv, ApprovalOf, ValuesTyped DEF ControlInv, ReceivedInv, NoControl
<1>eff. effects \in [Calls -> Nat]
  BY <1>inv DEF TypesInv, FieldsInv, WorldFields
<1>mat. materials \in [Calls -> {"none", "bound", "listed"}]
  BY <1>inv DEF TypesInv, FieldsInv, WorldFields
<1>cache. cache \in [Calls \union {NoCall} -> Results] /\ NoCall \notin Calls
  BY <1>inv, <1>facts DEF TypesInv, FieldsInv, SavedFields
<1>none. /\ NoControl.action = "none" /\ NoControl.call = NoCall
         /\ "none" \notin ControlKinds /\ "approve" \notin ControlKinds
         /\ NoResult.kind = "none" /\ NoResult.control = NoControl
         /\ \A kind : Result(kind).kind = kind /\ Result(kind).control = NoControl
  BY DEF NoControl, ControlKinds, NoResult, Result
<1>1. CASE Invoke
  <2>1. /\ at = "idle" /\ at' = "resume" /\ result.kind = "none" /\ status # "cancelled" /\ (Scientific \/ crashes = 0)
        /\ attention' = (attention \/ boundary) /\ texts' = (texts \/ boundary) /\ boundary' = FALSE
        /\ Unresolved = {} \/ attention \/ boundary
        /\ request' = [acknowledges |-> LastReceived, release |-> attention', notices |-> published,
                       answers |-> resolved, cached |-> published = 0 /\ ~texts']
        /\ UNCHANGED <<turns, status, control, operation, checkpoint, terminal, seen,
                      authorized, cache, used, effects, approved, materials, received, resolved,
                      published, interventions, crashes, index, failures, recovered, token, profile,
                      result>>
    BY <1>1 DEF Invoke, localVars, vars, sessionVars, worldVars, ownerVars
  <2>2. TurnsTyped(turns, CallKinds)' /\ KeepsTurns /\ LastTurn' = LastTurn
    BY <1>1, <2>1, SameTurns
  <2>3. /\ Scientific' = Scientific
        /\ CallKinds' = CallKinds
        /\ LastReceived' = LastReceived /\ ReceivedCalls' = ReceivedCalls
        /\ EffectCalls' = EffectCalls
        /\ Current' = Current
    BY <2>1, <2>2 DEF Scientific, CallKinds, LastReceived, ReceivedCalls, EffectCalls, Current,
      CallAt, KeepsTurns
  <2>calm. ~Scientific => ~attention' /\ ~texts' /\ ~boundary'
    BY <2>1, <1>inv DEF OwnerInv
  <2>4. CurrentInv' /\ WholeInv'
    BY <2>1, <2>2, <2>3, LimitsAssumption, <1>inv, <1>facts, <1>point DEF CurrentInv, WholeInv,
      RunningPoints, ApprovedPoints, StartingPoints, BatchPoints, KeepsTurns
  <2>5. EffectsInv' /\ TaskInv' /\ ReceivedInv' /\ StatusInv' /\ ResultCurrent' /\ RequestInv'
    BY <2>1, <2>2, <2>3, <1>inv, <1>facts, <1>point, <1>none, <1>owner DEF EffectsInv,
      CurrentInv, WholeInv, RunningPoints, ApprovedPoints, StartingPoints, BatchPoints,
      KeepsTurns, TaskInv, OwnerInv, ReceivedInv, StatusInv, ResultCurrent, RequestInv
  <2>6. ControlInv'
    BY <2>1, <2>2, <2>3, <1>inv, <1>facts, <1>point, <1>none, <1>owner DEF ControlInv,
      OwnerInv, StatusInv, RunningPoints, ApprovedPoints, StartingPoints, BatchPoints,
      UncontrolledPoints, KeepsTurns
  <2>7. ApprovalInv' /\ OwnerInv'
    BY <2>1, <2>2, <2>3, <1>inv, <1>facts, <1>point, <1>none, <1>owner, <2>calm DEF
      ApprovalInv, ControlInv, WholeInv, RunningPoints, ApprovedPoints, StartingPoints,
      BatchPoints, UncontrolledPoints, KeepsTurns, OwnerInv, StatusInv
  <2>8. CacheInv'
    BY <2>1, <2>2, <2>3, <1>inv, <1>facts, <1>point, <1>none, <1>owner DEF CacheInv,
      ControlInv, StatusInv, RequestInv, OwnerInv, RunningPoints, ApprovedPoints, StartingPoints,
      BatchPoints, UncontrolledPoints, Agrees, KeepsTurns
  <2>9. MaterialsInv'
    BY <2>1, <2>2, <2>3, <1>inv, <1>facts, <1>point DEF MaterialsInv, CurrentInv, WholeInv,
      EffectsInv, RunningPoints, ApprovedPoints, StartingPoints, BatchPoints, Succeeded,
      Unlisted, KeepsTurns
  <2> QED BY <2>2, <2>3, <2>4, <2>5, <2>6, <2>7, <2>8, <2>9, <1>types DEF IInv, TypesInv
<1>2. CASE ReceiveControl
  <2>1. /\ at = "idle" /\ result.kind = "control" /\ result' = NoResult
        /\ attention' => attention
        /\ received' = IF \E i \in DOMAIN received : received[i] = result.control
                       THEN received ELSE Append(received, result.control)
        /\ UNCHANGED <<turns, status, control, operation, checkpoint, terminal, seen,
                      authorized, cache, used, effects, approved, materials, resolved, published,
                      texts, interventions, crashes, at, request, index, failures, recovered, token,
                      boundary, profile>>
    BY <1>2 DEF ReceiveControl, localVars, vars, sessionVars, worldVars, ownerVars
  <2>2. TurnsTyped(turns, CallKinds)' /\ KeepsTurns /\ LastTurn' = LastTurn
    BY <1>2, <2>1, SameTurns
  <2>3. /\ Scientific' = Scientific
        /\ CallKinds' = CallKinds
        /\ EffectCalls' = EffectCalls
        /\ Current' = Current
    BY <2>1, <2>2 DEF Scientific, CallKinds, EffectCalls, Current, CallAt, KeepsTurns
  <2>named. /\ control = result.control /\ control \in Controls /\ received \in Seq(Controls)
            /\ Names(turns, control) /\ control.call \in Calls
            /\ control.action \in ControlKinds => ReceiptIn(turns, control.call) = "accepted"
    <3>1. received \in Seq(Controls) /\ control \in Controls
      BY <1>inv DEF TypesInv, FieldsInv, SavedFields, OwnerFields
    <3> QED BY <2>1, <3>1, <1>inv, <1>facts DEF ResultCurrent, ControlInv, Names
  <2>known. control \in Range(received) \/ control.call \notin ReceivedCalls
    <3> SUFFICES ASSUME NEW i \in DOMAIN received, received[i].call = control.call
                 PROVE  received[i] = control
      BY DEF Range, ReceivedCalls
    <3>1. Names(turns, received[i]) /\ received[i] \in Controls
      BY <2>named, <1>inv DEF ReceivedInv
    <3>2. received[i].action = control.action
      BY <2>named, <3>1 DEF Names
    <3> QED BY <2>named, <3>1, <3>2 DEF Controls
  <2>got. \/ control \in Range(received) /\ received' = received /\ LastReceived' = LastReceived
             /\ ReceivedCalls' = ReceivedCalls
          \/ /\ control \notin Range(received) /\ LastReceived' = control.call
             /\ control.call \notin ReceivedCalls
             /\ ReceivedCalls' = ReceivedCalls \union {control.call}
             /\ \A i \in DOMAIN received' :
                  received'[i] = control \/ \E j \in DOMAIN received : received'[i] = received[j]
    <3>1. CASE \E i \in DOMAIN received : received[i] = result.control
      BY <2>1, <2>named, <3>1 DEF Range, LastReceived, ReceivedCalls
    <3>2. CASE ~ \E i \in DOMAIN received : received[i] = result.control
      <4>1. received' = Append(received, control) /\ control \notin Range(received)
        BY <2>1, <2>named, <3>2 DEF Range
      <4>2. /\ Len(received) \in Nat /\ DOMAIN received = 1..Len(received)
            /\ DOMAIN received' = 1..(Len(received) + 1) /\ Len(received') = Len(received) + 1
            /\ received'[Len(received) + 1] = control
            /\ \A i \in 1..Len(received) : received'[i] = received[i]
        BY <2>named, <4>1
      <4>3. LastReceived' = control.call
        BY <4>2 DEF LastReceived
      <4>4. \A i \in DOMAIN received' :
              received'[i] = control \/ \E j \in DOMAIN received : received'[i] = received[j]
        BY <4>2
      <4>5. ReceivedCalls' = ReceivedCalls \union {control.call}
        BY <4>2 DEF ReceivedCalls
      <4> QED BY <2>known, <4>1, <4>3, <4>4, <4>5
    <3> QED BY <3>1, <3>2
  <2>4. CurrentInv' /\ WholeInv'
    BY <2>1, <2>2, <2>3, LimitsAssumption, <1>inv, <1>facts, <1>point DEF CurrentInv, WholeInv,
      RunningPoints, ApprovedPoints, StartingPoints, BatchPoints, KeepsTurns
  <2>5. EffectsInv' /\ TaskInv' /\ ReceivedInv' /\ StatusInv' /\ ResultCurrent' /\ RequestInv'
    BY <2>1, <2>2, <2>3, <1>inv, <1>facts, <1>point, <1>none, <1>owner, <2>named, <2>got DEF
      EffectsInv, CurrentInv, WholeInv, RunningPoints, ApprovedPoints, StartingPoints,
      BatchPoints, KeepsTurns, TaskInv, OwnerInv, ReceivedInv, StatusInv, ResultCurrent,
      RequestInv
  <2>6. ControlInv'
    BY <2>1, <2>2, <2>3, <1>inv, <1>facts, <1>point, <1>none, <1>owner DEF ControlInv,
      OwnerInv, StatusInv, RunningPoints, ApprovedPoints, StartingPoints, BatchPoints,
      UncontrolledPoints, KeepsTurns
  <2>7. ApprovalInv' /\ OwnerInv'
    BY <2>1, <2>2, <2>3, <1>inv, <1>facts, <1>point, <1>none, <1>owner, <2>named, <2>got DEF
      ApprovalInv, ControlInv, WholeInv, RunningPoints, ApprovedPoints, StartingPoints,
      BatchPoints, UncontrolledPoints, KeepsTurns, OwnerInv, StatusInv
  <2>8. CacheInv'
    <3>1. UNCHANGED <<cache, published, texts, status, control, turns, at>> /\ at = "idle"
      BY <2>1
    <3>2. CASE LastReceived' = LastReceived /\ ReceivedCalls' = ReceivedCalls
      BY <3>1, <3>2, <2>3, <1>inv DEF CacheInv, Agrees
    <3>3. CASE /\ LastReceived' = control.call /\ control.call \notin ReceivedCalls
               /\ ReceivedCalls' = ReceivedCalls \union {control.call}
      <4>1. cache[control.call].kind = "none"
        BY <2>named, <3>3, <1>facts, <1>inv DEF CacheInv
      <4>2. cache'[LastReceived'].kind = "none"
        BY <3>1, <3>3, <4>1
      <4> QED BY <3>1, <3>3, <4>2, <2>3, <1>inv DEF CacheInv, Agrees
    <3> QED BY <2>got, <3>2, <3>3
  <2>9. MaterialsInv'
    BY <2>1, <2>2, <2>3, <1>inv, <1>facts, <1>point DEF MaterialsInv, CurrentInv, WholeInv,
      EffectsInv, RunningPoints, ApprovedPoints, StartingPoints, BatchPoints, Succeeded,
      Unlisted, KeepsTurns
  <2> QED BY <2>2, <2>3, <2>4, <2>5, <2>6, <2>7, <2>8, <2>9, <1>types DEF IInv, TypesInv
<1>3. CASE Resolve
  <2>1. /\ at = "idle" /\ approved \subseteq approved'
        /\ UNCHANGED <<turns, status, control, operation, checkpoint, terminal, seen,
                      authorized, cache, used, effects, materials, received, published, texts,
                      attention, interventions, crashes, at, request, index, failures, recovered,
                      token, boundary, profile, result>>
    BY <1>3 DEF Resolve, localVars, vars, sessionVars, worldVars, ownerVars
  <2>2. TurnsTyped(turns, CallKinds)' /\ KeepsTurns /\ LastTurn' = LastTurn
    BY <1>3, <2>1, SameTurns
  <2>3. /\ Scientific' = Scientific
        /\ CallKinds' = CallKinds
        /\ LastReceived' = LastReceived /\ ReceivedCalls' = ReceivedCalls
        /\ EffectCalls' = EffectCalls
        /\ Current' = Current
    BY <2>1, <2>2 DEF Scientific, CallKinds, LastReceived, ReceivedCalls, EffectCalls, Current,
      CallAt, KeepsTurns
  <2>4. CurrentInv' /\ WholeInv'
    BY <2>1, <2>2, <2>3, LimitsAssumption, <1>inv, <1>facts, <1>point DEF CurrentInv, WholeInv,
      RunningPoints, ApprovedPoints, StartingPoints, BatchPoints, KeepsTurns
  <2>5. EffectsInv' /\ TaskInv' /\ ReceivedInv' /\ StatusInv' /\ ResultCurrent' /\ RequestInv'
    BY <2>1, <2>2, <2>3, <1>inv, <1>facts, <1>point, <1>none, <1>owner DEF EffectsInv,
      CurrentInv, WholeInv, RunningPoints, ApprovedPoints, StartingPoints, BatchPoints,
      KeepsTurns, TaskInv, OwnerInv, ReceivedInv, StatusInv, ResultCurrent, RequestInv
  <2>6. ControlInv'
    BY <2>1, <2>2, <2>3, <1>inv, <1>facts, <1>point, <1>none, <1>owner DEF ControlInv,
      OwnerInv, StatusInv, RunningPoints, ApprovedPoints, StartingPoints, BatchPoints,
      UncontrolledPoints, KeepsTurns
  <2>7. ApprovalInv' /\ OwnerInv'
    BY <2>1, <2>2, <2>3, <1>inv, <1>facts, <1>point, <1>none, <1>owner DEF ApprovalInv,
      ControlInv, WholeInv, RunningPoints, ApprovedPoints, StartingPoints, BatchPoints,
      UncontrolledPoints, KeepsTurns, OwnerInv, StatusInv
  <2>8. CacheInv'
    BY <2>1, <2>2, <2>3, <1>inv, <1>facts, <1>point, <1>none, <1>owner DEF CacheInv,
      ControlInv, StatusInv, RequestInv, OwnerInv, RunningPoints, ApprovedPoints, StartingPoints,
      BatchPoints, UncontrolledPoints, Agrees, KeepsTurns
  <2>9. MaterialsInv'
    BY <2>1, <2>2, <2>3, <1>inv, <1>facts, <1>point DEF MaterialsInv, CurrentInv, WholeInv,
      EffectsInv, RunningPoints, ApprovedPoints, StartingPoints, BatchPoints, Succeeded,
      Unlisted, KeepsTurns
  <2> QED BY <2>2, <2>3, <2>4, <2>5, <2>6, <2>7, <2>8, <2>9, <1>types DEF IInv, TypesInv
<1>4. CASE ReceivePause
  <2>1. /\ at = "idle" /\ Scientific /\ result' = NoResult /\ result.kind \in {"yielded", "interrupted"}
        /\ published' \in {published, published + 1}
        /\ UNCHANGED <<turns, status, control, operation, checkpoint, terminal, seen,
                      authorized, cache, used, effects, approved, materials, received, resolved,
                      texts, attention, interventions, crashes, at, request, index, failures,
                      recovered, token, boundary, profile>>
    BY <1>4 DEF ReceivePause, localVars, vars, sessionVars, worldVars, ownerVars
  <2>2. TurnsTyped(turns, CallKinds)' /\ KeepsTurns /\ LastTurn' = LastTurn
    BY <1>4, <2>1, SameTurns
  <2>3. /\ Scientific' = Scientific
        /\ CallKinds' = CallKinds
        /\ LastReceived' = LastReceived /\ ReceivedCalls' = ReceivedCalls
        /\ EffectCalls' = EffectCalls
        /\ Current' = Current
    BY <2>1, <2>2 DEF Scientific, CallKinds, LastReceived, ReceivedCalls, EffectCalls, Current,
      CallAt, KeepsTurns
  <2>4. CurrentInv' /\ WholeInv'
    BY <2>1, <2>2, <2>3, LimitsAssumption, <1>inv, <1>facts, <1>point DEF CurrentInv, WholeInv,
      RunningPoints, ApprovedPoints, StartingPoints, BatchPoints, KeepsTurns
  <2>5. EffectsInv' /\ TaskInv' /\ ReceivedInv' /\ StatusInv' /\ ResultCurrent' /\ RequestInv'
    BY <2>1, <2>2, <2>3, <1>inv, <1>facts, <1>point, <1>none, <1>owner DEF EffectsInv,
      CurrentInv, WholeInv, RunningPoints, ApprovedPoints, StartingPoints, BatchPoints,
      KeepsTurns, TaskInv, OwnerInv, ReceivedInv, StatusInv, ResultCurrent, RequestInv
  <2>6. ControlInv'
    BY <2>1, <2>2, <2>3, <1>inv, <1>facts, <1>point, <1>none, <1>owner DEF ControlInv,
      OwnerInv, StatusInv, RunningPoints, ApprovedPoints, StartingPoints, BatchPoints,
      UncontrolledPoints, KeepsTurns
  <2>7. ApprovalInv' /\ OwnerInv'
    BY <2>1, <2>2, <2>3, <1>inv, <1>facts, <1>point, <1>none, <1>owner DEF ApprovalInv,
      ControlInv, WholeInv, RunningPoints, ApprovedPoints, StartingPoints, BatchPoints,
      UncontrolledPoints, KeepsTurns, OwnerInv, StatusInv
  <2>8. CacheInv'
    BY <2>1, <2>2, <2>3, <1>inv, <1>facts, <1>point, <1>none, <1>owner DEF CacheInv,
      ControlInv, StatusInv, RequestInv, OwnerInv, RunningPoints, ApprovedPoints, StartingPoints,
      BatchPoints, UncontrolledPoints, Agrees, KeepsTurns
  <2>9. MaterialsInv'
    BY <2>1, <2>2, <2>3, <1>inv, <1>facts, <1>point DEF MaterialsInv, CurrentInv, WholeInv,
      EffectsInv, RunningPoints, ApprovedPoints, StartingPoints, BatchPoints, Succeeded,
      Unlisted, KeepsTurns
  <2> QED BY <2>2, <2>3, <2>4, <2>5, <2>6, <2>7, <2>8, <2>9, <1>types DEF IInv, TypesInv
<1>5. CASE DeferCompletion
  <2>1. /\ at = "idle" /\ result.kind = "completed" /\ boundary /\ status' = "paused"
        /\ terminal' = NoResult /\ texts' = TRUE /\ attention' = TRUE /\ boundary' = FALSE /\ result' = NoResult
        /\ UNCHANGED <<control, operation, checkpoint, seen, authorized, cache, used,
                      effects, approved, materials, received, resolved, published, interventions,
                      crashes, at, request, index, failures, recovered, token, profile>>
    BY <1>5 DEF DeferCompletion, vars, sessionVars, worldVars, ownerVars, localVars
  <2>2. /\ TurnsTyped(turns, CallKinds)' /\ Asks(turns, turns', {})
        /\ Len(turns') >= Len(turns) /\ (Len(turns') = Len(turns) => turns' = turns)
    BY <1>5, <2>1, NoticeSteps
  <2>3. /\ Scientific' = Scientific
        /\ CallKinds' = CallKinds
        /\ LastReceived' = LastReceived /\ ReceivedCalls' = ReceivedCalls
        /\ EffectCalls' = EffectCalls
        /\ Keeps(turns, turns')
        /\ Len(turns') \in Nat
        /\ Current' = <<Len(turns'), index'>>
    BY <2>1, <2>2, KeepsSteps DEF Scientific, CallKinds, LastReceived, ReceivedCalls,
      EffectCalls, Current, CallAt, TurnsTyped
  <2>whole. OpenIn(turns) = {} /\ control.action # "approve"
    BY <2>1, <1>inv DEF ResultCurrent, StatusInv, ApprovalInv
  <2>4. CurrentInv' /\ WholeInv'
    BY <2>1, <2>2, <2>3, LimitsAssumption, <1>inv, <1>facts, <1>point DEF CurrentInv, WholeInv,
      RunningPoints, ApprovedPoints, StartingPoints, BatchPoints, Asks
  <2>5. EffectsInv' /\ TaskInv' /\ ReceivedInv' /\ StatusInv' /\ ResultCurrent' /\ RequestInv'
    BY <2>1, <2>2, <2>3, <1>inv, <1>facts, <1>point, <1>none, <1>owner DEF EffectsInv,
      CurrentInv, WholeInv, RunningPoints, ApprovedPoints, StartingPoints, BatchPoints, Asks,
      TaskInv, OwnerInv, ReceivedInv, Keeps, StatusInv, ResultCurrent, RequestInv
  <2>6. ControlInv'
    BY <2>1, <2>2, <2>3, <1>inv, <1>facts, <1>point, <1>none, <1>owner DEF ControlInv,
      OwnerInv, StatusInv, RunningPoints, ApprovedPoints, StartingPoints, BatchPoints,
      UncontrolledPoints, Asks, Keeps
  <2>7. ApprovalInv' /\ OwnerInv'
    BY <2>1, <2>2, <2>3, <1>inv, <1>facts, <1>point, <1>none, <1>owner, <2>whole, <1>approve
      DEF ApprovalInv, ControlInv, WholeInv, RunningPoints, ApprovedPoints, StartingPoints,
      BatchPoints, UncontrolledPoints, Asks, Keeps, OwnerInv, StatusInv
  <2>8. CacheInv'
    BY <2>1, <2>2, <2>3, <1>inv, <1>facts, <1>point, <1>none, <1>owner DEF CacheInv,
      ControlInv, StatusInv, RequestInv, OwnerInv, RunningPoints, ApprovedPoints, StartingPoints,
      BatchPoints, UncontrolledPoints, Agrees, Asks, Keeps
  <2>9. MaterialsInv'
    BY <2>1, <2>2, <2>3, <1>inv, <1>facts, <1>point DEF MaterialsInv, CurrentInv, WholeInv,
      EffectsInv, RunningPoints, ApprovedPoints, StartingPoints, BatchPoints, Succeeded,
      Unlisted, Asks
  <2> QED BY <2>2, <2>3, <2>4, <2>5, <2>6, <2>7, <2>8, <2>9, <1>types DEF IInv, TypesInv
<1>6. CASE TerminateSession
  <2>1. /\ at = "idle" /\ ~Scientific /\ status' = "cancelled" /\ control' = NoControl /\ operation' = NoCall
        /\ result' = NoResult /\ status \notin {"absent", "completed", "failed", "cancelled"}
        /\ UNCHANGED <<checkpoint, terminal, seen, authorized, cache, used, effects,
                      approved, materials, received, resolved, published, texts, attention, crashes,
                      at, request, index, failures, recovered, token, boundary, profile>>
    BY <1>6 DEF TerminateSession, Intervene, localVars, vars, sessionVars, worldVars, ownerVars
  <2>2. /\ TurnsTyped(turns, CallKinds)' /\ Len(turns') = Len(turns) + 1
        /\ Settles(turns, turns', OpenIn(turns), "notExecuted", "notExecuted")
    BY <1>6, <2>1, TerminateGives
  <2>3. /\ Scientific' = Scientific
        /\ CallKinds' = CallKinds
        /\ LastReceived' = LastReceived /\ ReceivedCalls' = ReceivedCalls
        /\ EffectCalls' = EffectCalls
        /\ Keeps(turns, turns')
        /\ Len(turns') \in Nat
        /\ Current' = <<Len(turns'), index'>>
    BY <2>1, <2>2, KeepsSteps DEF Scientific, CallKinds, LastReceived, ReceivedCalls,
      EffectCalls, Current, CallAt, TurnsTyped
  <2>4. CurrentInv'
    BY <2>1, <2>2, <2>3, LimitsAssumption, <1>inv, <1>facts, <1>point DEF CurrentInv, WholeInv,
      RunningPoints, ApprovedPoints, StartingPoints, BatchPoints, Settles
  <2>5. WholeInv'
    BY <2>1, <2>2, <2>3, <1>inv, <1>facts, <1>point DEF WholeInv, CurrentInv, RunningPoints,
      ApprovedPoints, StartingPoints, BatchPoints, Settles
  <2>6. EffectsInv' /\ TaskInv' /\ ReceivedInv' /\ StatusInv' /\ ResultCurrent' /\ RequestInv'
    BY <2>1, <2>2, <2>3, <1>inv, <1>facts, <1>point, <1>none, <1>owner DEF EffectsInv,
      CurrentInv, WholeInv, RunningPoints, ApprovedPoints, StartingPoints, BatchPoints, Settles,
      TaskInv, OwnerInv, ReceivedInv, Keeps, StatusInv, ResultCurrent, RequestInv
  <2>7. ControlInv'
    BY <2>1, <2>2, <2>3, <1>inv, <1>facts, <1>point, <1>none, <1>owner DEF ControlInv,
      OwnerInv, StatusInv, RunningPoints, ApprovedPoints, StartingPoints, BatchPoints,
      UncontrolledPoints, Settles, Keeps
  <2>8. ApprovalInv' /\ OwnerInv'
    BY <2>1, <2>2, <2>3, <1>inv, <1>facts, <1>point, <1>none, <1>owner DEF ApprovalInv,
      ControlInv, WholeInv, RunningPoints, ApprovedPoints, StartingPoints, BatchPoints,
      UncontrolledPoints, Settles, Keeps, OwnerInv, StatusInv
  <2>9. CacheInv'
    BY <2>1, <2>2, <2>3, <1>inv, <1>facts, <1>point, <1>none, <1>owner DEF CacheInv,
      ControlInv, StatusInv, RequestInv, OwnerInv, RunningPoints, ApprovedPoints, StartingPoints,
      BatchPoints, UncontrolledPoints, Agrees, Settles, Keeps
  <2>10. MaterialsInv'
    BY <2>1, <2>2, <2>3, <1>inv, <1>facts, <1>point DEF MaterialsInv, CurrentInv, WholeInv,
      EffectsInv, RunningPoints, ApprovedPoints, StartingPoints, BatchPoints, Succeeded,
      Unlisted, Settles
  <2> QED BY <2>2, <2>3, <2>4, <2>5, <2>6, <2>7, <2>8, <2>9, <2>10, <1>types DEF IInv, TypesInv
<1>7. CASE ReceiveText
  <2>1. /\ Scientific
        /\ UNCHANGED <<turns, status, control, operation, checkpoint, terminal, seen,
                      authorized, cache, used, effects, approved, materials, received, resolved,
                      published, texts, attention, crashes, at, request, index, failures, recovered,
                      token, profile, result>>
    BY <1>7 DEF ReceiveText, Intervene, localVars, vars, sessionVars, worldVars, ownerVars
  <2>2. TurnsTyped(turns, CallKinds)' /\ KeepsTurns /\ LastTurn' = LastTurn
    BY <1>7, <2>1, SameTurns
  <2>3. /\ Scientific' = Scientific
        /\ CallKinds' = CallKinds
        /\ LastReceived' = LastReceived /\ ReceivedCalls' = ReceivedCalls
        /\ EffectCalls' = EffectCalls
        /\ Current' = Current
    BY <2>1, <2>2 DEF Scientific, CallKinds, LastReceived, ReceivedCalls, EffectCalls, Current,
      CallAt, KeepsTurns
  <2>4. CurrentInv' /\ WholeInv'
    BY <2>1, <2>2, <2>3, LimitsAssumption, <1>inv, <1>facts, <1>point DEF CurrentInv, WholeInv,
      RunningPoints, ApprovedPoints, StartingPoints, BatchPoints, KeepsTurns
  <2>5. EffectsInv' /\ TaskInv' /\ ReceivedInv' /\ StatusInv' /\ ResultCurrent' /\ RequestInv'
    BY <2>1, <2>2, <2>3, <1>inv, <1>facts, <1>point, <1>none, <1>owner DEF EffectsInv,
      CurrentInv, WholeInv, RunningPoints, ApprovedPoints, StartingPoints, BatchPoints,
      KeepsTurns, TaskInv, OwnerInv, ReceivedInv, StatusInv, ResultCurrent, RequestInv
  <2>6. ControlInv'
    BY <2>1, <2>2, <2>3, <1>inv, <1>facts, <1>point, <1>none, <1>owner DEF ControlInv,
      OwnerInv, StatusInv, RunningPoints, ApprovedPoints, StartingPoints, BatchPoints,
      UncontrolledPoints, KeepsTurns
  <2>7. ApprovalInv' /\ OwnerInv'
    BY <2>1, <2>2, <2>3, <1>inv, <1>facts, <1>point, <1>none, <1>owner DEF ApprovalInv,
      ControlInv, WholeInv, RunningPoints, ApprovedPoints, StartingPoints, BatchPoints,
      UncontrolledPoints, KeepsTurns, OwnerInv, StatusInv
  <2>8. CacheInv'
    BY <2>1, <2>2, <2>3, <1>inv, <1>facts, <1>point, <1>none, <1>owner DEF CacheInv,
      ControlInv, StatusInv, RequestInv, OwnerInv, RunningPoints, ApprovedPoints, StartingPoints,
      BatchPoints, UncontrolledPoints, Agrees, KeepsTurns
  <2>9. MaterialsInv'
    BY <2>1, <2>2, <2>3, <1>inv, <1>facts, <1>point DEF MaterialsInv, CurrentInv, WholeInv,
      EffectsInv, RunningPoints, ApprovedPoints, StartingPoints, BatchPoints, Succeeded,
      Unlisted, KeepsTurns
  <2> QED BY <2>2, <2>3, <2>4, <2>5, <2>6, <2>7, <2>8, <2>9, <1>types DEF IInv, TypesInv
<1>8. CASE PauseIdle
  <2>1. /\ at = "idle" /\ result.kind = "none" /\ Scientific /\ published' = published + 1
        /\ UNCHANGED <<turns, status, control, operation, checkpoint, terminal, seen,
                      authorized, cache, used, effects, approved, materials, received, resolved,
                      texts, attention, crashes, at, request, index, failures, recovered, token,
                      boundary, profile, result>>
    BY <1>8 DEF PauseIdle, Intervene, localVars, vars, sessionVars, worldVars, ownerVars
  <2>2. TurnsTyped(turns, CallKinds)' /\ KeepsTurns /\ LastTurn' = LastTurn
    BY <1>8, <2>1, SameTurns
  <2>3. /\ Scientific' = Scientific
        /\ CallKinds' = CallKinds
        /\ LastReceived' = LastReceived /\ ReceivedCalls' = ReceivedCalls
        /\ EffectCalls' = EffectCalls
        /\ Current' = Current
    BY <2>1, <2>2 DEF Scientific, CallKinds, LastReceived, ReceivedCalls, EffectCalls, Current,
      CallAt, KeepsTurns
  <2>4. CurrentInv' /\ WholeInv'
    BY <2>1, <2>2, <2>3, LimitsAssumption, <1>inv, <1>facts, <1>point DEF CurrentInv, WholeInv,
      RunningPoints, ApprovedPoints, StartingPoints, BatchPoints, KeepsTurns
  <2>5. EffectsInv' /\ TaskInv' /\ ReceivedInv' /\ StatusInv' /\ ResultCurrent' /\ RequestInv'
    BY <2>1, <2>2, <2>3, <1>inv, <1>facts, <1>point, <1>none, <1>owner DEF EffectsInv,
      CurrentInv, WholeInv, RunningPoints, ApprovedPoints, StartingPoints, BatchPoints,
      KeepsTurns, TaskInv, OwnerInv, ReceivedInv, StatusInv, ResultCurrent, RequestInv
  <2>6. ControlInv'
    BY <2>1, <2>2, <2>3, <1>inv, <1>facts, <1>point, <1>none, <1>owner DEF ControlInv,
      OwnerInv, StatusInv, RunningPoints, ApprovedPoints, StartingPoints, BatchPoints,
      UncontrolledPoints, KeepsTurns
  <2>7. ApprovalInv' /\ OwnerInv'
    BY <2>1, <2>2, <2>3, <1>inv, <1>facts, <1>point, <1>none, <1>owner DEF ApprovalInv,
      ControlInv, WholeInv, RunningPoints, ApprovedPoints, StartingPoints, BatchPoints,
      UncontrolledPoints, KeepsTurns, OwnerInv, StatusInv
  <2>8. CacheInv'
    BY <2>1, <2>2, <2>3, <1>inv, <1>facts, <1>point, <1>none, <1>owner DEF CacheInv,
      ControlInv, StatusInv, RequestInv, OwnerInv, RunningPoints, ApprovedPoints, StartingPoints,
      BatchPoints, UncontrolledPoints, Agrees, KeepsTurns
  <2>9. MaterialsInv'
    BY <2>1, <2>2, <2>3, <1>inv, <1>facts, <1>point DEF MaterialsInv, CurrentInv, WholeInv,
      EffectsInv, RunningPoints, ApprovedPoints, StartingPoints, BatchPoints, Succeeded,
      Unlisted, KeepsTurns
  <2> QED BY <2>2, <2>3, <2>4, <2>5, <2>6, <2>7, <2>8, <2>9, <1>types DEF IInv, TypesInv
<1>9. CASE Interrupt
  <2>1. /\ UNCHANGED <<turns, status, control, operation, checkpoint, terminal, seen,
                      authorized, cache, used, effects, approved, materials, received, resolved,
                      published, texts, attention, crashes, at, request, index, failures, recovered,
                      boundary, profile, result>>
    BY <1>9 DEF Interrupt, Intervene, vars, sessionVars, worldVars, ownerVars, localVars
  <2>2. TurnsTyped(turns, CallKinds)' /\ KeepsTurns /\ LastTurn' = LastTurn
    BY <1>9, <2>1, SameTurns
  <2>3. /\ Scientific' = Scientific
        /\ CallKinds' = CallKinds
        /\ LastReceived' = LastReceived /\ ReceivedCalls' = ReceivedCalls
        /\ EffectCalls' = EffectCalls
        /\ Current' = Current
    BY <2>1, <2>2 DEF Scientific, CallKinds, LastReceived, ReceivedCalls, EffectCalls, Current,
      CallAt, KeepsTurns
  <2>4. CurrentInv'
    BY <2>1, <2>2, <2>3, LimitsAssumption, <1>inv, <1>facts, <1>point DEF CurrentInv, WholeInv,
      RunningPoints, ApprovedPoints, StartingPoints, BatchPoints, KeepsTurns
  <2>5. WholeInv'
    BY <2>1, <2>2, <2>3, <1>inv, <1>facts, <1>point DEF WholeInv, CurrentInv, RunningPoints,
      ApprovedPoints, StartingPoints, BatchPoints, KeepsTurns
  <2>6. EffectsInv' /\ TaskInv' /\ ReceivedInv' /\ StatusInv' /\ ResultCurrent' /\ RequestInv'
    BY <2>1, <2>2, <2>3, <1>inv, <1>facts, <1>point, <1>none, <1>owner DEF EffectsInv,
      CurrentInv, WholeInv, RunningPoints, ApprovedPoints, StartingPoints, BatchPoints,
      KeepsTurns, TaskInv, OwnerInv, ReceivedInv, StatusInv, ResultCurrent, RequestInv
  <2>7. ControlInv'
    BY <2>1, <2>2, <2>3, <1>inv, <1>facts, <1>point, <1>none, <1>owner DEF ControlInv,
      OwnerInv, StatusInv, RunningPoints, ApprovedPoints, StartingPoints, BatchPoints,
      UncontrolledPoints, KeepsTurns
  <2>8. ApprovalInv' /\ OwnerInv'
    BY <2>1, <2>2, <2>3, <1>inv, <1>facts, <1>point, <1>none, <1>owner DEF ApprovalInv,
      ControlInv, WholeInv, RunningPoints, ApprovedPoints, StartingPoints, BatchPoints,
      UncontrolledPoints, KeepsTurns, OwnerInv, StatusInv
  <2>9. CacheInv'
    BY <2>1, <2>2, <2>3, <1>inv, <1>facts, <1>point, <1>none, <1>owner DEF CacheInv,
      ControlInv, StatusInv, RequestInv, OwnerInv, RunningPoints, ApprovedPoints, StartingPoints,
      BatchPoints, UncontrolledPoints, Agrees, KeepsTurns
  <2>10. MaterialsInv'
    BY <2>1, <2>2, <2>3, <1>inv, <1>facts, <1>point DEF MaterialsInv, CurrentInv, WholeInv,
      EffectsInv, RunningPoints, ApprovedPoints, StartingPoints, BatchPoints, Succeeded,
      Unlisted, KeepsTurns
  <2> QED BY <2>2, <2>3, <2>4, <2>5, <2>6, <2>7, <2>8, <2>9, <2>10, <1>types DEF IInv, TypesInv
<1>10. CASE Crash
  <2>1. /\ at' = "idle" /\ index' = 0 /\ result' = NoResult /\ crashes' = crashes + 1
        /\ UNCHANGED <<turns, status, control, operation, checkpoint, terminal, seen,
                      authorized, cache, used, effects, approved, materials, received, resolved,
                      published, texts, attention, interventions, boundary, profile>>
    BY <1>10 DEF Crash, Return, vars, sessionVars, worldVars, ownerVars, localVars
  <2>2. TurnsTyped(turns, CallKinds)' /\ KeepsTurns /\ LastTurn' = LastTurn
    BY <1>10, <2>1, SameTurns
  <2>3. /\ Scientific' = Scientific
        /\ CallKinds' = CallKinds
        /\ LastReceived' = LastReceived /\ ReceivedCalls' = ReceivedCalls
        /\ EffectCalls' = EffectCalls
        /\ Current' = <<Len(turns'), index'>>
    BY <2>1, <2>2 DEF Scientific, CallKinds, LastReceived, ReceivedCalls, EffectCalls, Current,
      CallAt
  <2>4. CurrentInv' /\ WholeInv'
    BY <2>1, <2>2, <2>3, LimitsAssumption, <1>inv, <1>facts, <1>point DEF CurrentInv, WholeInv,
      RunningPoints, ApprovedPoints, StartingPoints, BatchPoints, KeepsTurns
  <2>5. EffectsInv' /\ TaskInv' /\ ReceivedInv' /\ StatusInv' /\ ResultCurrent' /\ RequestInv'
    BY <2>1, <2>2, <2>3, <1>inv, <1>facts, <1>point, <1>none, <1>owner DEF EffectsInv,
      CurrentInv, WholeInv, RunningPoints, ApprovedPoints, StartingPoints, BatchPoints,
      KeepsTurns, TaskInv, OwnerInv, ReceivedInv, StatusInv, ResultCurrent, RequestInv
  <2>6. ControlInv'
    BY <2>1, <2>2, <2>3, <1>inv, <1>facts, <1>point, <1>none, <1>owner DEF ControlInv,
      OwnerInv, StatusInv, RunningPoints, ApprovedPoints, StartingPoints, BatchPoints,
      UncontrolledPoints, KeepsTurns
  <2>7. ApprovalInv' /\ OwnerInv'
    BY <2>1, <2>2, <2>3, <1>inv, <1>facts, <1>point, <1>none, <1>owner DEF ApprovalInv,
      ControlInv, WholeInv, RunningPoints, ApprovedPoints, StartingPoints, BatchPoints,
      UncontrolledPoints, KeepsTurns, OwnerInv, StatusInv
  <2>8. CacheInv'
    BY <2>1, <2>2, <2>3, <1>inv, <1>facts, <1>point, <1>none, <1>owner DEF CacheInv,
      ControlInv, StatusInv, RequestInv, OwnerInv, RunningPoints, ApprovedPoints, StartingPoints,
      BatchPoints, UncontrolledPoints, Agrees, KeepsTurns
  <2>9. MaterialsInv'
    BY <2>1, <2>2, <2>3, <1>inv, <1>facts, <1>point DEF MaterialsInv, CurrentInv, WholeInv,
      EffectsInv, RunningPoints, ApprovedPoints, StartingPoints, BatchPoints, Succeeded,
      Unlisted, KeepsTurns
  <2> QED BY <2>2, <2>3, <2>4, <2>5, <2>6, <2>7, <2>8, <2>9, <1>types DEF IInv, TypesInv
<1> QED BY <1>1, <1>2, <1>3, <1>4, <1>5, <1>6, <1>7, <1>8, <1>9, <1>10

-----------------------------------------------------------------------------
(* The invariant holds *)

\* A Session that was not saved yet has no history.
LEMMA InitInv ==
  ASSUME Init
  PROVE  IInv
<1>1. /\ turns = <<>> /\ AskedIn(turns) = {} /\ OpenIn(turns) = {} /\ RunningIn(turns) = {}
      /\ Len(turns) = 0 /\ turns \in Seq(TurnRecords)
  BY DEF Init, AskedIn, OpenIn, RunningIn
<1>2. EffectCalls = {} /\ LastReceived = NoCall /\ ReceivedCalls = {}
  BY DEF Init, EffectCalls, LastReceived, ReceivedCalls
<1>3. NoResult \in Results /\ NoResult.kind = "none" /\ NoResult.control = NoControl
      /\ NoControl \in Controls /\ NoControl.action = "none" /\ NoCall \notin Calls
  BY ValuesTyped DEF NoResult, ResultKinds, Result, NoControl
<1>4. profile \in Profiles /\ profile.calls \in Nat /\ profile.crashes \in Nat
      /\ FailureLimit \in Nat /\ MaxBatch \in Nat
  BY ProfileTyped, LimitsAssumption DEF Init
<1>5. SavedFields
  BY <1>3, <1>4 DEF Init, SavedFields, Statuses, NoCache
<1>6. WorldFields
  BY <1>4 DEF Init, WorldFields
<1>flags. /\ texts \in BOOLEAN /\ attention \in BOOLEAN /\ boundary \in BOOLEAN
          /\ recovered \in BOOLEAN /\ token \in BOOLEAN
  BY DEF Init
<1>7. OwnerFields
  <2>1. received \in Seq(Controls) /\ resolved \subseteq Calls /\ published \in Nat
        /\ interventions \in Nat /\ crashes \in 0..profile.crashes
    BY <1>4 DEF Init
  <2> QED BY <1>flags, <2>1 DEF OwnerFields
<1>8. LocalFields
  <2>1. request \in Request
    BY DEF Init, NoRequest, Request
  <2>2. index \in Nat /\ failures \in 0..FailureLimit /\ result \in Results
    BY <1>3, <1>4 DEF Init
  <2> QED BY <1>flags, <2>1, <2>2 DEF LocalFields
<1>9. TypesInv
  BY <1>1, <1>5, <1>6, <1>7, <1>8 DEF TypesInv, FieldsInv, TurnsTyped
<1>10. at = "idle" /\ status = "absent" /\ control = NoControl /\ result = NoResult
       /\ terminal = NoResult /\ seen = 0 /\ published = 0 /\ index = 0 /\ checkpoint = 0
       /\ received = <<>> /\ texts = FALSE /\ attention = FALSE /\ boundary = FALSE
       /\ crashes = 0
  BY DEF Init
<1>11. CurrentInv /\ WholeInv
  BY <1>1, <1>4, <1>10 DEF CurrentInv, WholeInv, RunningPoints, ApprovedPoints, StartingPoints,
    BatchPoints
<1>12. EffectsInv /\ TaskInv
  BY <1>1, <1>2, <1>10 DEF EffectsInv, TaskInv
<1>13. ControlInv /\ ReceivedInv /\ ApprovalInv /\ OwnerInv
  BY <1>1, <1>2, <1>3, <1>10 DEF ControlInv, ReceivedInv, ApprovalInv, OwnerInv, ControlKinds,
    Range
<1>14. StatusInv /\ ResultCurrent /\ RequestInv
  BY <1>1, <1>2, <1>3, <1>10 DEF StatusInv, ResultCurrent, RequestInv
<1>15. \A k \in Calls \union {NoCall} : cache[k] = NoResult
  BY DEF Init, NoCache
<1>16. CacheInv
  BY <1>2, <1>3, <1>10, <1>15 DEF CacheInv, Agrees
<1>17. MaterialsInv
  BY <1>1, <1>10 DEF Init, MaterialsInv, Succeeded, Unlisted, RunningPoints
<1> QED BY <1>9, <1>11, <1>12, <1>13, <1>14, <1>16, <1>17 DEF IInv

\* Every step keeps it.
LEMMA StepInv ==
  ASSUME IInv, [Next]_vars
  PROVE  IInv'
<1>1. CASE Serving
  BY <1>1, ResumingSteps, RecoveringSteps, LoopSteps, EndingSteps DEF Serving
<1>2. CASE Owning
  <2>1. \/ Invoke \/ ReceiveControl \/ Resolve \/ ReceivePause \/ DeferCompletion
        \/ TerminateSession \/ ReceiveText \/ PauseIdle \/ Interrupt \/ Crash
    BY <1>2 DEF Owning
  <2> QED BY <2>1, OwnerSteps
<1>3. CASE UNCHANGED vars
  <2>1. /\ UNCHANGED <<sessionVars, used, worldVars, ownerVars, at, request, localVars, result>>
        /\ UNCHANGED <<status, turns, control, operation, checkpoint, terminal, seen, authorized,
                       cache, effects, approved, materials, received, resolved, published, texts,
                       attention, interventions, crashes, index, failures, recovered, token,
                       boundary, profile>>
    BY <1>3 DEF vars, sessionVars, worldVars, ownerVars, localVars
  <2>2. /\ UNCHANGED <<ReceivedCalls, LastReceived, EffectCalls, Scientific, CallKinds, Current,
                       LastTurn>>
    BY <2>1 DEF ReceivedCalls, LastReceived, EffectCalls, Scientific, CallKinds, Current, CallAt,
      LastTurn
  <2>3. TypesInv'
    BY <2>1, <2>2 DEF IInv, TypesInv, FieldsInv, SavedFields, WorldFields, OwnerFields,
      LocalFields
  <2>4. CurrentInv' /\ WholeInv' /\ EffectsInv' /\ TaskInv' /\ ControlInv' /\ ReceivedInv'
    BY <2>1, <2>2 DEF IInv, CurrentInv, WholeInv, EffectsInv, TaskInv, ControlInv, ReceivedInv
  <2>5. ApprovalInv' /\ OwnerInv' /\ StatusInv' /\ ResultCurrent' /\ RequestInv'
    BY <2>1, <2>2 DEF IInv, ApprovalInv, OwnerInv, StatusInv, ResultCurrent, RequestInv
  <2>6. CacheInv' /\ MaterialsInv'
    BY <2>1, <2>2 DEF IInv, CacheInv, MaterialsInv, Succeeded, Unlisted, Agrees
  <2> QED BY <2>3, <2>4, <2>5, <2>6 DEF IInv
<1> QED BY <1>1, <1>2, <1>3 DEF Next

\* The invariant holds in every state of a Session.
THEOREM SessionInvariant == Spec => []IInv
<1>1. Init => IInv
  BY InitInv
<1>2. IInv /\ [Next]_vars => IInv'
  BY StepInv
<1> QED BY <1>1, <1>2, PTL DEF Spec

-----------------------------------------------------------------------------
(* What follows from it *)

\* A turn is complete when none of its calls is open.
LEMMA CompleteTurns ==
  ASSUME TypesInv, NEW n \in 1..Len(turns)
  PROVE  Complete(turns[n]) <=> \A c \in OpenIn(turns) : c[1] # n
<1>1. TurnsTyped(turns, CallKinds)
  BY DEF TypesInv
<1>2. turns[n] \in TurnRecords /\ TurnTyped(turns[n], n, CallKinds)
  BY <1>1 DEF TurnsTyped
<1>3. DOMAIN turns[n].receipts = 1..Len(turns[n].calls)
  BY <1>2 DEF TurnRecords, TurnTyped
<1>4. ASSUME NEW i \in 1..Len(turns[n].calls)
      PROVE  turns[n].receipts[i] = "none" <=> <<n, i>> \in OpenIn(turns)
  <2>1. <<n, i>> \in AskedIn(turns) /\ ReceiptIn(turns, <<n, i>>) = turns[n].receipts[i]
    BY <1>1, CallsIn
  <2> QED BY <2>1 DEF OpenIn
<1>5. ASSUME NEW c \in OpenIn(turns), c[1] = n
      PROVE  c[2] \in 1..Len(turns[n].calls) /\ c = <<n, c[2]>>
  <2>1. c \in Calls /\ c[2] \in 1..Len(turns[c[1]].calls)
    BY <1>1, CallsIn DEF OpenIn
  <2> QED BY <1>5, <2>1, ValuesTyped
<1>6. Complete(turns[n]) => \A c \in OpenIn(turns) : c[1] # n
  BY <1>3, <1>4, <1>5 DEF Complete
<1>7. (\A c \in OpenIn(turns) : c[1] # n) => Complete(turns[n])
  <2> SUFFICES ASSUME \A c \in OpenIn(turns) : c[1] # n, NEW i \in 1..Len(turns[n].calls)
               PROVE  turns[n].receipts[i] # "none"
    BY <1>3 DEF Complete
  <2>1. <<n, i>>[1] = n
    OBVIOUS
  <2> QED BY <1>4, <2>1
<1> QED BY <1>6, <1>7

\* The values have the types the run checks.
LEMMA InvariantTypes ==
  ASSUME IInv
  PROVE  TypeInvariant
<1>1. /\ SavedFields /\ WorldFields /\ OwnerFields /\ LocalFields
      /\ TurnsTyped(turns, CallKinds)
  BY DEF IInv, TypesInv, FieldsInv
<1>2. ASSUME NEW n \in DOMAIN turns PROVE TurnType(turns[n])
  <2>1. turns[n] \in TurnRecords /\ TurnTyped(turns[n], n, CallKinds)
    BY <1>1 DEF TurnsTyped
  <2>2. /\ turns[n].calls \in Seq(AllCallKinds) /\ turns[n].receipts \in Seq(Receipts)
        /\ turns[n].running \in Nat
    BY <2>1 DEF TurnRecords
  <2>3. /\ Len(turns[n].calls) \in 0..MaxBatch
        /\ turns[n].calls \in [1..Len(turns[n].calls) -> CallKinds]
    BY <2>1, <2>2, LimitsAssumption DEF TurnTyped
  <2>4. turns[n].receipts \in [DOMAIN turns[n].calls -> Receipts]
    BY <2>1, <2>2 DEF TurnTyped
  <2>5. turns[n].running \in 0..Len(turns[n].calls)
    BY <2>1, <2>2 DEF TurnTyped
  <2> QED BY <2>3, <2>4, <2>5 DEF TurnType
<1>3. checkpoint \in 0..Len(turns) /\ seen \in 0..published
  BY StateFacts DEF IInv, WholeInv, RequestInv
<1>4. terminal.kind \in ResultKinds /\ result.kind \in ResultKinds
  BY <1>1 DEF SavedFields, LocalFields, Results
<1>5. index \in 0..(Len(turns) + MaxBatch + 1)
  BY StateFacts DEF IInv, CurrentInv
<1> QED BY <1>1, <1>2, <1>3, <1>4, <1>5
    DEF TypeInvariant, SavedFields, WorldFields, OwnerFields, LocalFields, Statuses

\* The history is whole.
LEMMA InvariantWhole ==
  ASSUME IInv
  PROVE  RequestsPaired /\ SavedSessionLoads
<1>1. TypesInv /\ TurnsTyped(turns, CallKinds) /\ DOMAIN turns = 1..Len(turns)
  BY CallsIn DEF IInv, TypesInv
<1>2. at = "replying" \/ status = "completed" => OpenIn(turns) = {}
  BY DEF IInv, WholeInv, StatusInv
<1>3. RequestsPaired
  BY <1>1, <1>2, CompleteTurns DEF RequestsPaired, IncompleteTurns
<1>4. ASSUME NEW n \in DOMAIN turns, turns[n].running # 0
      PROVE  turns[n].receipts[turns[n].running] = "none"
  BY <1>1, <1>4 DEF TurnsTyped, TurnTyped
<1>5. terminal.kind # "none" => status \in {"completed", "failed"}
  BY DEF IInv, StatusInv, NoResult, Result
<1>6. checkpoint \in Nat /\ checkpoint <= Len(turns) /\ Len(turns) \in Nat
      /\ (checkpoint # 0 => checkpoint < Len(turns))
      /\ \A c \in OpenIn(turns) : c[1] \in Nat /\ c[1] > checkpoint
  BY StateFacts DEF IInv, WholeInv
<1>7. ASSUME NEW n \in 1..checkpoint PROVE Complete(turns[n]) /\ turns[n].running = 0
  <2>1. n \in 1..Len(turns) /\ \A c \in OpenIn(turns) : c[1] # n
    BY <1>6
  <2>2. Complete(turns[n])
    BY <1>1, <2>1, CompleteTurns
  <2>3. ASSUME turns[n].running # 0 PROVE FALSE
    <3>1. <<n, turns[n].running>> \in OpenIn(turns)
      BY <1>1, <2>1, <2>3, RunningIsOpen
    <3>2. <<n, turns[n].running>>[1] = n
      OBVIOUS
    <3> QED BY <2>1, <3>1, <3>2
  <2> QED BY <2>2, <2>3
<1> QED BY <1>3, <1>4, <1>5, <1>6, <1>7 DEF SavedSessionLoads

\* Receipts belong to controls, approvals and artifacts.
LEMMA InvariantTold ==
  ASSUME IInv
  PROVE  ReceivedAccepted /\ ApprovalPending /\ ListedAfterReceipt /\ CompletedListed
         /\ GuardedApproved
<1>1. \A c : ReceiptOf(c) = ReceiptIn(turns, c)
  BY StateOfHistory
<1>2. ReceivedAccepted
  BY <1>1 DEF IInv, ReceivedInv, ReceivedAccepted
<1>3. ApprovalPending
  <2> SUFFICES ASSUME control.action = "approve"
               PROVE  /\ operation = control.call /\ ReceiptOf(control.call) = "none"
                      /\ turns[control.call[1]].running = 0
    BY DEF ApprovalPending
  <2>1. /\ operation = control.call /\ control.call \in OpenIn(turns) /\ RunningIn(turns) = {}
        /\ control.call[1] = Len(turns) /\ Len(turns) \in 1..Len(turns)
    BY StateFacts DEF IInv, ApprovalInv
  <2>2. TurnsTyped(turns, CallKinds)
    BY DEF IInv, TypesInv
  <2>3. turns[Len(turns)].running = 0
    BY <2>1, <2>2, RunningIsOpen
  <2> QED BY <1>1, <2>1, <2>3 DEF OpenIn
<1>4. ListedAfterReceipt
  BY <1>1 DEF IInv, MaterialsInv, ListedAfterReceipt
<1>5. CompletedListed
  <2> SUFFICES ASSUME status = "completed", NEW c \in Calls,
                      ReceiptOf(c) \in {"ok", "registered"}, materials[c] # "none"
               PROVE  materials[c] = "listed" /\ c \in authorized
    BY DEF CompletedListed
  <2>1. c \in AskedIn(turns)
    BY DEF IInv, MaterialsInv, EffectsInv
  <2>2. c \in Succeeded
    BY <1>1, <2>1 DEF Succeeded
  <2> QED BY <2>2 DEF IInv, MaterialsInv, Unlisted
<1>6. GuardedApproved
  BY DEF IInv, EffectsInv, GuardedApproved, KindIn
<1> QED BY <1>2, <1>3, <1>4, <1>5, <1>6

\* What the policy asks about runs only after somebody let that very call run
\* (AgentLoop._prepare_operation, ApprovalReviewer).
THEOREM GuardedApprovedHolds == Spec => []GuardedApproved
<1>1. IInv => GuardedApproved
  BY InvariantTold
<1> QED BY <1>1, SessionInvariant, PTL

\* What the owner is about to receive, a saved answer included, is what the Session on
\* disk still waits for or ended with (ScientificAgent.run, AgentLoop.run).
THEOREM ResultCurrentHolds == Spec => []ResultCurrent
<1>1. IInv => ResultCurrent
  BY DEF IInv
<1> QED BY <1>1, SessionInvariant, PTL

\* An ended Session stays as it is, but for a completion the owner defers.
LEMMA EndedStays ==
  ASSUME IInv, [Next]_vars, status \in {"completed", "failed", "cancelled"}
  PROVE  StaysEnded \/ IsDeferred
<1>1. at \in {"idle", "resume", "returning"}
  BY DEF IInv, StatusInv
<1>2. CASE Serving
  <2>1. CASE ReturnSaved \/ ReturnAnswer \/ Resume
    BY <1>2, <2>1 DEF ReturnSaved, ReturnAnswer, Resume, StaysEnded, sessionVars
  <2> QED BY <1>1, <1>2, <2>1 DEF Serving, AcceptNotices, ResumeWithout, AcknowledgesOther,
      ReleaseControl, ResumeRaises, ResumeUnanswered, ResumeAnswered, ResumeWaits,
      AnswersControl, ResumingControl, OperationAllowed, OperationDenied, ResumesOperation,
      RunApproved, RecordApproved, RecoverTurn, AcknowledgeRecovered, RecoveryEnds, LoopFails,
      Yield, CompactHistory, RequestModel, MayRequest, ReplyMalformed, RequestFails,
      AcceptBatch, RefuseBatch, SaveReply, RecordRefusal, RefuseCall, CallTimesOut, StartCall,
      AtCall, RequestReview, ReviewUnpaid, ReviewAllows, ReviewInvalidated, PauseApproval,
      Execute, ToolRaises, RecordSuccess, RecordFailure, RecordResult, AcknowledgeCall,
      BatchEnds, AcceptControl, RecordControlReceipt, ReturnControl, FinishRefused,
      FinishAccepted, FinishFails, DeferFinish, CompleteSession, SettleFailing, FailSession,
      Suspend, Cancellable, StopUnconfirmed
<1>3. CASE Owning
  <2>1. CASE DeferCompletion
    BY <1>1, <2>1 DEF DeferCompletion, IsDeferred, IInv, ResultCurrent
  <2>2. CASE \/ Invoke \/ ReceiveControl \/ Resolve \/ ReceivePause \/ TerminateSession
             \/ ReceiveText \/ PauseIdle \/ Interrupt \/ Crash
    BY <2>2 DEF Invoke, ReceiveControl, Resolve, ReceivePause, TerminateSession, ReceiveText,
      PauseIdle, Interrupt, Crash, StaysEnded, sessionVars
  <2> QED BY <1>3, <2>1, <2>2 DEF Owning
<1>4. CASE UNCHANGED vars
  BY <1>4 DEF vars, sessionVars, StaysEnded
<1> QED BY <1>2, <1>3, <1>4 DEF Next

\* The history of a Session is whole at every moment and an ended one stays as it is
\* (session.py, tool_calling.py, AgentLoop.run).
THEOREM HistoryHolds == Spec => HistorySound
<1> DEFINE Sound == TypeInvariant /\ RequestsPaired /\ SavedSessionLoads /\ ReceivedAccepted
                    /\ ApprovalPending /\ ListedAfterReceipt /\ CompletedListed
           Stays == status \in {"completed", "failed", "cancelled"} => StaysEnded \/ IsDeferred
<1>1. IInv => Sound
  BY InvariantTypes, InvariantWhole, InvariantTold
<1>2. IInv /\ [Next]_vars => [Stays]_vars
  BY EndedStays
<1>3. Spec => []Sound
  BY <1>1, SessionInvariant, PTL
<1>4. Spec => [][Stays]_vars
  BY <1>2, SessionInvariant, PTL DEF Spec
<1> QED BY <1>3, <1>4 DEF HistorySound, EndedFinal

-----------------------------------------------------------------------------
(* The ledger of the calls *)

\* Tasks whose process does not die: terminate_session tells what still ran in the Session
\* of one that died as not executed.
TasksLive == \A p \in Profiles : p.scientific \/ p.crashes = 0

\* What told may become of the calls of S: an open call that ran is told as started, one
\* that did not as unstarted.
Honest(S, started, unstarted) ==
  \A c \in S :
    /\ c \in RunningIn(turns) =>
         /\ started # "none" /\ (started \in DidNotRun => c \notin EffectCalls)
         /\ started = "ok" => c \in EffectCalls
    /\ c \notin RunningIn(turns) =>
         /\ unstarted # "none" /\ (unstarted \in DidNotRun => c \notin EffectCalls)
         /\ unstarted = "ok" => c \in EffectCalls

\* What the receipt of a call tells, before and after a step.
LEMMA Tellings ==
  /\ \A c : /\ TellingOf(c) \in Ledger!Tellings
            /\ TellingOf(c) = "open" <=> ReceiptIn(turns, c) = "none"
            /\ TellingOf(c) = "untouched" <=> ReceiptIn(turns, c) \in DidNotRun
            /\ TellingOf(c) = "done" <=> ReceiptIn(turns, c) = "ok"
  /\ \A c : /\ TellingOf(c)' \in Ledger!Tellings
            /\ TellingOf(c)' = "open" <=> ReceiptIn(turns', c) = "none"
            /\ TellingOf(c)' = "untouched" <=> ReceiptIn(turns', c) \in DidNotRun
            /\ TellingOf(c)' = "done" <=> ReceiptIn(turns', c) = "ok"
  /\ \A c : ReceiptIn(turns', c) = ReceiptIn(turns, c) => TellingOf(c)' = TellingOf(c)
<1>1. /\ \A c : ReceiptOf(c) = ReceiptIn(turns, c)
      /\ \A c : ReceiptOf(c)' = ReceiptIn(turns', c)
  BY DEF ReceiptOf, ReceiptIn
<1>2. "none" \notin DidNotRun /\ "ok" \notin DidNotRun
  BY DEF DidNotRun
<1> QED BY <1>1, <1>2 DEF TellingOf, Ledger!Tellings

\* A call without a place in the history, before or after a step, is open.
LEMMA UnaskedOpen ==
  ASSUME TypesInv, TurnsTyped(turns, CallKinds)'
  PROVE  /\ \A c \in Calls \ AskedIn(turns) : ReceiptIn(turns, c) = "none"
         /\ \A c \in Calls \ AskedIn(turns') : ReceiptIn(turns', c) = "none"
         /\ AskedCalls = AskedIn(turns) /\ AskedCalls' = AskedIn(turns')
<1>1. TurnsTyped(turns, CallKinds) /\ TurnsTyped(turns', CallKinds')
  BY DEF TypesInv
<1>2. \A c \in Calls \ AskedIn(turns) : ReceiptIn(turns, c) = "none"
  BY <1>1, CallsIn
<1>3. \A c \in Calls \ AskedIn(turns') : ReceiptIn(turns', c) = "none"
  BY <1>1, CallsIn
<1> QED BY <1>2, <1>3 DEF AskedCalls, AskedIn

\* Settling calls honestly tells them.
LEMMA SettlingTells ==
  ASSUME TypesInv, TurnsTyped(turns, CallKinds)', UNCHANGED effects, NEW S, NEW started,
         NEW unstarted, Settles(turns, turns', S, started, unstarted),
         Honest(S, started, unstarted)
  PROVE  [Ledger!Next]_(Ledger!ledger)
<1> DEFINE told == [c \in Calls |-> TellingOf(c)]
<1>1. AskedCalls' = AskedCalls /\ EffectCalls' = EffectCalls
  BY UnaskedOpen DEF Settles, EffectCalls
<1>2. told' = [c \in Calls |-> TellingOf(c)']
  OBVIOUS
<1>3. told' \in [Calls -> Ledger!Tellings]
  BY <1>2, Tellings
<1>4. ASSUME NEW c \in Calls, told'[c] # told[c]
      PROVE  /\ told[c] = "open" /\ c \in AskedCalls
             /\ told'[c] = "untouched" => c \notin EffectCalls
             /\ told'[c] = "done" => c \in EffectCalls
  <2>1. told[c] = TellingOf(c) /\ told'[c] = TellingOf(c)'
    BY <1>2
  <2>2. ReceiptIn(turns', c) # ReceiptIn(turns, c)
    BY <1>4, <2>1, Tellings
  <2>3. c \in AskedIn(turns)
    BY <2>2, UnaskedOpen DEF Settles
  <2>4. c \in S /\ c \in OpenIn(turns) /\ ReceiptIn(turns, c) = "none"
    BY <2>2, <2>3 DEF Settles, OpenIn
  <2>5. ReceiptIn(turns', c) = IF c \in RunningIn(turns) THEN started ELSE unstarted
    BY <2>3, <2>4 DEF Settles
  <2>6. /\ ReceiptIn(turns', c) \in DidNotRun => c \notin EffectCalls
        /\ ReceiptIn(turns', c) = "ok" => c \in EffectCalls
    BY <2>4, <2>5 DEF Honest
  <2> QED BY <2>1, <2>3, <2>4, <2>6, Tellings, UnaskedOpen
<1>5. CASE told' = told
  BY <1>1, <1>5 DEF Ledger!ledger
<1>6. CASE told' # told
  <2>1. Ledger!Tell
    BY <1>1, <1>3, <1>4, <1>6 DEF Ledger!Tell
  <2> QED BY <2>1 DEF Ledger!Next
<1> QED BY <1>5, <1>6

\* Asking for calls, and any step that changes no receipt, is a step of the ledger.
LEMMA AskingAsks ==
  ASSUME TypesInv, TurnsTyped(turns, CallKinds)', UNCHANGED effects, NEW new,
         Asks(turns, turns', new)
  PROVE  [Ledger!Next]_(Ledger!ledger)
<1> DEFINE told == [c \in Calls |-> TellingOf(c)]
<1>1. EffectCalls' = EffectCalls
  BY DEF EffectCalls
<1>2. AskedCalls' = AskedCalls \union new /\ AskedCalls \intersect new = {}
      /\ AskedCalls' \subseteq Calls
  BY UnaskedOpen DEF Asks, AskedIn
<1>3. ASSUME NEW c \in Calls PROVE ReceiptIn(turns', c) = ReceiptIn(turns, c)
  <2>1. CASE c \in AskedIn(turns)
    BY <2>1 DEF Asks
  <2>2. CASE c \in new
    <3>1. c \in OpenIn(turns') /\ c \notin AskedIn(turns)
      BY <2>2 DEF Asks
    <3> QED BY <3>1, UnaskedOpen DEF OpenIn
  <2>3. CASE c \notin AskedIn(turns) /\ c \notin new
    BY <2>3, UnaskedOpen DEF Asks
  <2> QED BY <2>1, <2>2, <2>3
<1>4. told' = told
  <2>1. told' = [c \in Calls |-> TellingOf(c)']
    OBVIOUS
  <2>2. \A c \in Calls : TellingOf(c)' = TellingOf(c)
    BY <1>3, Tellings
  <2> QED BY <2>1, <2>2
<1>5. CASE new = {}
  BY <1>1, <1>2, <1>4, <1>5 DEF Ledger!ledger
<1>6. CASE new # {}
  <2>1. Ledger!Ask
    BY <1>1, <1>2, <1>4, <1>6 DEF Ledger!Ask
  <2> QED BY <2>1 DEF Ledger!Next
<1> QED BY <1>5, <1>6

\* Marking a call as running tells nothing yet.
LEMMA MarkingQuiet ==
  ASSUME TypesInv, TurnsTyped(turns, CallKinds)', UNCHANGED effects, NEW c,
         Marks(turns, turns', c)
  PROVE  [Ledger!Next]_(Ledger!ledger)
<1> DEFINE told == [d \in Calls |-> TellingOf(d)]
<1>1. EffectCalls' = EffectCalls /\ AskedCalls' = AskedCalls
  BY UnaskedOpen DEF EffectCalls, Marks
<1>2. \A d \in Calls : ReceiptIn(turns', d) = ReceiptIn(turns, d)
  BY UnaskedOpen DEF Marks
<1>3. told' = told
  <2>1. told' = [d \in Calls |-> TellingOf(d)']
    OBVIOUS
  <2>2. \A d \in Calls : TellingOf(d)' = TellingOf(d)
    BY <1>2, Tellings
  <2> QED BY <2>1, <2>2
<1> QED BY <1>1, <1>3 DEF Ledger!ledger

\* The tool of a call starts.
LEMMA StartingStarts ==
  ASSUME TypesInv, UNCHANGED turns, Current \in OpenIn(turns) \ EffectCalls,
         effects' = [effects EXCEPT ![Current] = @ + 1]
  PROVE  [Ledger!Next]_(Ledger!ledger)
<1> DEFINE told == [d \in Calls |-> TellingOf(d)]
<1>1. effects \in [Calls -> Nat] /\ Current \in Calls /\ Current \in AskedIn(turns)
  BY DEF TypesInv, FieldsInv, WorldFields, OpenIn, AskedIn
<1>2. EffectCalls' = EffectCalls \union {Current}
  BY <1>1 DEF EffectCalls
<1>3. AskedCalls' = AskedCalls /\ Current \in AskedCalls
  BY <1>1, StateOfHistory DEF AskedCalls
<1>4. told[Current] = "open"
  BY <1>1, Tellings DEF OpenIn
<1>5. told' = told
  <2>1. told' = [d \in Calls |-> TellingOf(d)']
    OBVIOUS
  <2>2. \A d \in Calls : TellingOf(d)' = TellingOf(d)
    BY Tellings
  <2> QED BY <2>1, <2>2
<1>6. Ledger!Start(Current)
  BY <1>2, <1>3, <1>4, <1>5 DEF Ledger!Start
<1> QED BY <1>1, <1>6 DEF Ledger!Next

\* Only running a tool starts a call.
LEMMA EffectsStay ==
  ASSUME [Next]_vars, ~RunApproved, ~Execute
  PROVE  UNCHANGED effects
<1>1. CASE Owning
  BY <1>1 DEF Owning, Invoke, ReceiveControl, Resolve, ReceivePause, DeferCompletion,
    TerminateSession, ReceiveText, PauseIdle, Interrupt, Crash, worldVars
<1>2. CASE Serving
  <2>1. CASE \/ ReturnSaved \/ ReturnAnswer \/ Resume \/ AcceptNotices \/ ResumeWithout
             \/ AcknowledgesOther \/ ReleaseControl \/ ResumeRaises \/ ResumeUnanswered
             \/ ResumeAnswered \/ OperationAllowed \/ OperationDenied \/ RecordApproved
             \/ RecoverTurn \/ AcknowledgeRecovered \/ RecoveryEnds
             \/ LoopFails \/ Yield \/ CompactHistory \/ RequestModel \/ ReplyMalformed
    BY <2>1 DEF ReturnSaved, ReturnAnswer, Resume, AcceptNotices, ResumeWithout,
      AcknowledgesOther, ReleaseControl, ResumeRaises, ResumeUnanswered, ResumeAnswered,
      OperationAllowed, OperationDenied, ResumesOperation, RecordApproved, RecoverTurn,
      AcknowledgeRecovered, RecoveryEnds, LoopFails, Yield, CompactHistory, RequestModel,
      ReplyMalformed, Fail, worldVars
  <2>2. CASE \/ RequestFails \/ AcceptBatch \/ RefuseBatch \/ RecordRefusal \/ RefuseCall
             \/ CallTimesOut \/ StartCall \/ RequestReview \/ ReviewUnpaid \/ ReviewAllows
             \/ ReviewInvalidated \/ PauseApproval \/ ToolRaises \/ RecordSuccess
    BY <2>2 DEF RequestFails, AcceptBatch, RefuseBatch, SaveReply, RecordRefusal, RefuseCall,
      CallTimesOut, StartCall, StartRunning, RequestReview, ReviewUnpaid, ReviewAllows,
      ReviewInvalidated, PauseApproval, ToolRaises, RecordSuccess, RecordResult, Fail, worldVars
  <2>3. CASE \/ RecordFailure \/ AcknowledgeCall \/ BatchEnds \/ AcceptControl
             \/ RecordControlReceipt \/ ReturnControl \/ FinishRefused \/ FinishAccepted
             \/ FinishFails \/ DeferFinish \/ CompleteSession \/ SettleFailing \/ FailSession
             \/ Suspend \/ StopUnconfirmed
    BY <2>3 DEF RecordFailure, RecordResult, AcknowledgeCall, BatchEnds, AcceptControl,
      RecordControlReceipt, ReturnControl, FinishRefused, FinishAccepted, FinishFails,
      DeferFinish, CompleteSession, SettleFailing, FailSession, Suspend, StopUnconfirmed, Fail,
      worldVars
  <2> QED BY <1>2, <2>1, <2>2, <2>3 DEF Serving
<1>3. CASE UNCHANGED vars
  BY <1>3 DEF vars, worldVars
<1> QED BY <1>1, <1>2, <1>3 DEF Next

\* The steps that leave the history as it is.
LEMMA TurnsStay ==
  ASSUME [Next]_vars,
         \/ ReturnSaved \/ ReturnAnswer \/ Resume \/ ResumeWithout \/ AcknowledgesOther
         \/ ReleaseControl \/ ResumeRaises \/ RunApproved \/ AcknowledgeRecovered \/ LoopFails
         \/ Yield \/ CompactHistory \/ RequestModel \/ RequestFails \/ CallTimesOut
         \/ RequestReview \/ ReviewUnpaid \/ Execute \/ AcknowledgeCall \/ AcceptControl
         \/ ReturnControl \/ FinishFails \/ DeferFinish \/ CompleteSession \/ FailSession
         \/ Invoke \/ ReceiveControl \/ Resolve \/ ReceivePause \/ ReceiveText \/ PauseIdle
         \/ Interrupt \/ Crash \/ UNCHANGED vars
  PROVE  UNCHANGED turns
<1>1. CASE \/ ReturnSaved \/ ReturnAnswer \/ Resume \/ ResumeWithout \/ AcknowledgesOther
           \/ ReleaseControl \/ ResumeRaises \/ RunApproved \/ AcknowledgeRecovered \/ LoopFails
           \/ Yield \/ CompactHistory \/ RequestModel \/ RequestFails \/ CallTimesOut
           \/ RequestReview \/ ReviewUnpaid \/ Execute \/ AcknowledgeCall \/ AcceptControl
  BY <1>1 DEF ReturnSaved, ReturnAnswer, Resume, ResumeWithout, AcknowledgesOther,
    ReleaseControl, ResumeRaises, RunApproved, AcknowledgeRecovered, LoopFails, Yield,
    CompactHistory, RequestModel, RequestFails, CallTimesOut, RequestReview, ReviewUnpaid,
    Execute, AcknowledgeCall, AcceptControl, Fail, sessionVars
<1>2. CASE \/ ReturnControl \/ FinishFails \/ DeferFinish \/ CompleteSession \/ FailSession
           \/ Invoke \/ ReceiveControl \/ Resolve \/ ReceivePause \/ ReceiveText \/ PauseIdle
           \/ Interrupt \/ Crash \/ UNCHANGED vars
  BY <1>2 DEF ReturnControl, FinishFails, DeferFinish, CompleteSession, FailSession, Invoke,
    ReceiveControl, Resolve, ReceivePause, ReceiveText, PauseIdle, Interrupt, Crash, Fail, vars,
    sessionVars
<1> QED BY <1>1, <1>2

\* The steps that settle calls do so honestly.
LEMMA SettledHonestly ==
  ASSUME IInv, [Next]_vars, TasksLive,
         \/ ResumeUnanswered \/ ResumeAnswered \/ OperationDenied \/ RecordApproved
         \/ RecoverTurn \/ RecordRefusal \/ RefuseCall \/ ReviewInvalidated \/ PauseApproval
         \/ ToolRaises \/ RecordSuccess \/ RecordFailure \/ BatchEnds \/ RecordControlReceipt
         \/ FinishRefused \/ FinishAccepted \/ SettleFailing \/ Suspend \/ StopUnconfirmed
         \/ TerminateSession
  PROVE  /\ TurnsTyped(turns, CallKinds)'
         /\ \E S, started, unstarted :
              Settles(turns, turns', S, started, unstarted) /\ Honest(S, started, unstarted)
<1> DEFINE Fits(S, started, unstarted) ==
      /\ TurnsTyped(turns, CallKinds)' /\ Settles(turns, turns', S, started, unstarted)
      /\ Honest(S, started, unstarted)
<1>1. SUFFICES \E S, started, unstarted : Fits(S, started, unstarted)
  OBVIOUS
<1> HIDE DEF Fits
<1>inv. /\ CurrentInv /\ WholeInv /\ EffectsInv /\ ApprovalInv /\ TypesInv
        /\ \A c \in OpenIn(turns) : c \notin RunningIn(turns) => c \notin EffectCalls
  BY DEF IInv, EffectsInv
<1>receipts. {"rejected", "notExecuted"} = DidNotRun
  BY DEF DidNotRun
<1>untold. ASSUME NEW S \in SUBSET OpenIn(turns), NEW started, NEW unstarted,
                  started \notin DidNotRun \union {"none", "ok"} \/ S \intersect RunningIn(turns) = {},
                  unstarted \notin {"none", "ok"}
           PROVE  Honest(S, started, unstarted)
  BY <1>inv, <1>untold DEF Honest
<1>2. CASE ResumeUnanswered \/ ResumeAnswered
  <2>1. Settles(turns, turns', {control.call} \intersect OpenIn(turns), "accepted", "accepted")
        /\ TurnsTyped(turns, CallKinds)'
    BY <1>2, ControlGives DEF ResumeUnanswered, ResumeAnswered, ResumeWaits, AnswersControl,
      ResumingControl
  <2>2. Honest({control.call} \intersect OpenIn(turns), "accepted", "accepted")
    BY <1>receipts, <1>untold
  <2> QED BY <2>1, <2>2 DEF Fits
<1>3. CASE OperationDenied
  <2>1. Settles(turns, turns', {control.call}, "notExecuted", "notExecuted")
        /\ TurnsTyped(turns, CallKinds)'
    BY <1>3, DeniedGives
  <2>2. RunningIn(turns) = {} /\ {control.call} \in SUBSET OpenIn(turns)
    BY <1>3, OperationWaits DEF OperationDenied
  <2>3. Honest({control.call}, "notExecuted", "notExecuted")
    BY <2>2, <1>untold
  <2> QED BY <2>1, <2>3 DEF Fits
<1>4. CASE RecoverTurn
  <2>1. Settles(turns, turns', OpenOf(turns, {index}), Recovered(index), "notExecuted")
        /\ TurnsTyped(turns, CallKinds)'
    BY <1>4, RecoverGives
  <2>2. Recovered(index) \in {"registered", "unknown"}
    BY DEF Recovered
  <2>3. Honest(OpenOf(turns, {index}), Recovered(index), "notExecuted")
    BY <2>2, <1>receipts, <1>untold DEF OpenOf
  <2> QED BY <2>1, <2>3 DEF Fits
<1>5. CASE RecordRefusal \/ BatchEnds \/ SettleFailing
  <2> DEFINE S == OpenOf(turns, {Len(turns)})
  <2>1. TurnsTyped(turns, CallKinds)' /\ S \in SUBSET OpenIn(turns)
    BY <1>5, LastSteps DEF OpenOf
  <2>2. CASE RecordRefusal
    <3>1. RunningIn(turns) = {}
      BY <1>inv, <2>2 DEF RecordRefusal, WholeInv
    <3>2. Settles(turns, turns', S, "rejected", "rejected") /\ Honest(S, "rejected", "rejected")
      BY <2>1, <2>2, <3>1, <1>untold, LastSteps
    <3> QED BY <2>1, <3>2 DEF Fits
  <2>3. CASE BatchEnds \/ SettleFailing
    <3>1. Settles(turns, turns', S, "unknown", "notExecuted")
          /\ Honest(S, "unknown", "notExecuted")
      BY <2>1, <2>3, <1>untold, <1>receipts, LastSteps
    <3> QED BY <2>1, <3>1 DEF Fits
  <2> QED BY <1>5, <2>2, <2>3
<1>6. CASE RefuseCall \/ ReviewInvalidated \/ FinishRefused
  <2>1. Given(Current, "rejected")
    BY <1>6, ReceiptSteps
  <2>2. Current \in OpenIn(turns)
    BY <2>1 DEF Given
  <2>3. CASE RefuseCall \/ ReviewInvalidated
    <3>1. RunningIn(turns) = {}
      BY <1>inv, <2>3 DEF RefuseCall, AtCall, ReviewInvalidated, WholeInv
    <3>2. Honest({Current}, "rejected", "rejected")
      BY <2>2, <3>1, <1>untold
    <3> QED BY <2>1, <3>2 DEF Fits, Given
  <2>4. CASE FinishRefused
    <3>1. KindIn(turns, Current) = "finish"
      BY <1>inv, <2>4, PointFacts, <2>2 DEF FinishRefused, OpenIn
    <3>2. Current \notin EffectCalls
      BY <1>inv, <3>1 DEF EffectsInv
    <3>3. Honest({Current}, "rejected", "rejected")
      BY <3>2 DEF Honest
    <3> QED BY <2>1, <3>3 DEF Fits, Given
  <2> QED BY <1>6, <2>3, <2>4
<1>7. CASE PauseApproval
  <2> DEFINE S == OpenOf(turns, {Len(turns)}) \ {Current}
  <2>1. TurnsTyped(turns, CallKinds)' /\ Settles(turns, turns', S, "notExecuted", "notExecuted")
    BY <1>7, PauseGives
  <2>2. RunningIn(turns) = {} /\ S \in SUBSET OpenIn(turns)
    BY <1>inv, <1>7 DEF PauseApproval, AtCall, WholeInv, OpenOf
  <2>3. Honest(S, "notExecuted", "notExecuted")
    BY <2>2, <1>untold
  <2> QED BY <2>1, <2>3 DEF Fits
<1>8. CASE ToolRaises \/ RecordFailure
  <2>1. Given(Current, "failed")
    BY <1>8, ReceiptSteps
  <2>2. Honest({Current}, "failed", "failed")
    BY <2>1, <1>receipts, <1>untold DEF Given
  <2> QED BY <2>1, <2>2 DEF Fits, Given
<1>9. CASE RecordSuccess
  <2>1. Given(Current, "ok")
    BY <1>9, ReceiptSteps
  <2>2. at = "observe" /\ Kind \in {"tool", "guarded"}
    BY <1>9 DEF RecordSuccess, RecordResult
  <2>3. Current \in EffectCalls
    BY <1>inv, <2>1, <2>2, PointFacts DEF EffectsInv, Given
  <2>4. Honest({Current}, "ok", "ok")
    BY <2>3, <1>receipts DEF Honest
  <2> QED BY <2>1, <2>4 DEF Fits, Given
<1>10. CASE RecordControlReceipt \/ FinishAccepted
  <2>1. Given(Current, "accepted")
    BY <1>10, ReceiptSteps
  <2>2. Honest({Current}, "accepted", "accepted")
    BY <2>1, <1>receipts, <1>untold DEF Given
  <2> QED BY <2>1, <2>2 DEF Fits, Given
<1>11. CASE StopUnconfirmed
  <2>1. Given(Current, "unknown")
    BY <1>11, ReceiptSteps
  <2>2. Honest({Current}, "unknown", "unknown")
    BY <2>1, <1>receipts, <1>untold DEF Given
  <2> QED BY <2>1, <2>2 DEF Fits, Given
<1>12. CASE RecordApproved
  <2>1. PICK receipt \in {"ok", "failed", "unknown"} : Given(Current, receipt)
    BY <1>12, ReceiptSteps
  <2>2. Current \in EffectCalls
    BY <1>inv, <1>12 DEF RecordApproved, EffectsInv
  <2>3. Honest({Current}, receipt, receipt)
    BY <2>1, <2>2, <1>receipts DEF Honest
  <2> QED BY <2>1, <2>3 DEF Fits, Given
<1>13. CASE Suspend
  <2>1. Settles(turns, turns', OpenOf(turns, {Len(turns)}), "interrupted", "notExecuted")
        /\ TurnsTyped(turns, CallKinds)'
    BY <1>13, SuspendGives
  <2>2. Honest(OpenOf(turns, {Len(turns)}), "interrupted", "notExecuted")
    BY <1>receipts, <1>untold DEF OpenOf
  <2> QED BY <2>1, <2>2 DEF Fits
<1>14. CASE TerminateSession
  <2>1. Settles(turns, turns', OpenIn(turns), "notExecuted", "notExecuted")
        /\ TurnsTyped(turns, CallKinds)'
    BY <1>14, TerminateGives
  <2>2. ~Scientific /\ at = "idle"
    BY <1>14 DEF TerminateSession
  <2>3. profile \in Profiles /\ crashes \in 0..profile.crashes
    BY <1>inv DEF TypesInv, FieldsInv, SavedFields, OwnerFields
  <2>4. profile.crashes = 0
    BY <2>2, <2>3 DEF TasksLive, Scientific
  <2>5. crashes = 0
    BY <2>3, <2>4
  <2>6. RunningIn(turns) = {}
    BY <2>2, <2>5 DEF IInv, TaskInv, RunningPoints, ApprovedPoints
  <2>7. Honest(OpenIn(turns), "notExecuted", "notExecuted")
    BY <2>6, <1>untold
  <2> QED BY <2>1, <2>7 DEF Fits
<1> QED BY <1>2, <1>3, <1>4, <1>5, <1>6, <1>7, <1>8, <1>9, <1>10, <1>11, <1>12, <1>13, <1>14

\* Every step of a Session is a step of the ledger, or none.
LEMMA LedgerStep ==
  ASSUME IInv, [Next]_vars, TasksLive
  PROVE  [Ledger!Next]_(Ledger!ledger)
<1>1. TypesInv
  BY DEF IInv
<1>2. CASE RunApproved
  <2>1. UNCHANGED turns /\ effects' = [effects EXCEPT ![Current] = @ + 1]
    BY <1>2 DEF RunApproved, sessionVars
  <2>2. Current \in OpenIn(turns) /\ Current \notin EffectCalls
    BY <1>2, PointFacts DEF RunApproved, ApprovedPoints, IInv, EffectsInv
  <2> QED BY <1>1, <2>1, <2>2, StartingStarts
<1>3. CASE Execute /\ ~UNCHANGED effects
  <2>1. UNCHANGED turns /\ effects' = [effects EXCEPT ![Current] = @ + 1]
    BY <1>3 DEF Execute, sessionVars
  <2>2. Current \in OpenIn(turns) /\ Current \notin EffectCalls
    BY <1>3, PointFacts DEF Execute, RunningPoints, IInv, EffectsInv
  <2> QED BY <1>1, <2>1, <2>2, StartingStarts
<1>4. CASE UNCHANGED effects
  <2>1. CASE UNCHANGED turns
    <3>1. TurnsTyped(turns, CallKinds)' /\ Asks(turns, turns', {})
      BY <2>1, SameTurns
    <3> QED BY <1>1, <1>4, <3>1, AskingAsks
  <2>2. CASE AcceptNotices \/ RecoveryEnds \/ ReplyMalformed \/ DeferCompletion
    <3>1. TurnsTyped(turns, CallKinds)' /\ Asks(turns, turns', {})
      BY <2>2, NoticeSteps
    <3> QED BY <1>1, <1>4, <3>1, AskingAsks
  <2>3. CASE AcceptBatch \/ RefuseBatch
    <3>1. PICK accepted : SaveReply(accepted)
      BY <2>3 DEF AcceptBatch, RefuseBatch
    <3>2. TurnsTyped(turns, CallKinds)' /\ Asks(turns, turns', AskedAfter(turns, turns'))
      BY <3>1, ReplyGives
    <3> QED BY <1>1, <1>4, <3>2, AskingAsks
  <2>4. CASE StartCall \/ ReviewAllows \/ OperationAllowed
    <3>1. PICK c : Started(c)
      BY <2>4, StartSteps
    <3> QED BY <1>1, <1>4, <3>1, MarkingQuiet DEF Started
  <2>5. CASE \/ ResumeUnanswered \/ ResumeAnswered \/ OperationDenied \/ RecordApproved
             \/ RecoverTurn \/ RecordRefusal \/ RefuseCall \/ ReviewInvalidated \/ PauseApproval
             \/ ToolRaises \/ RecordSuccess \/ RecordFailure \/ BatchEnds \/ RecordControlReceipt
             \/ FinishRefused \/ FinishAccepted \/ SettleFailing \/ Suspend \/ StopUnconfirmed
             \/ TerminateSession
    <3>1. /\ TurnsTyped(turns, CallKinds)'
          /\ \E S, started, unstarted :
               Settles(turns, turns', S, started, unstarted) /\ Honest(S, started, unstarted)
      BY <2>5, SettledHonestly
    <3> QED BY <1>1, <1>4, <3>1, SettlingTells
  <2> QED BY <2>1, <2>2, <2>3, <2>4, <2>5, TurnsStay DEF Next, Serving, Owning
<1> QED BY <1>2, <1>3, <1>4, EffectsStay

\* A Session starts with an empty ledger.
LEMMA LedgerInit ==
  ASSUME Init
  PROVE  Ledger!Init
<1>1. AskedCalls = {}
  BY DEF Init, AskedCalls
<1>2. EffectCalls = {}
  BY DEF Init, EffectCalls
<1>3. ASSUME NEW c \in Calls PROVE TellingOf(c) = "open"
  <2>1. DOMAIN turns = {}
    BY DEF Init
  <2>2. ReceiptIn(turns, c) = "none"
    BY <2>1 DEF ReceiptIn
  <2> QED BY <2>2, Tellings
<1> QED BY <1>1, <1>2, <1>3 DEF Ledger!Init

\* Whatever is interrupted or fails, and whenever the parent dies, a Session keeps the
\* promises of CallLedger: a call is started once, after it was asked for, and its receipt
\* is final and true (AgentLoop.run, tool_calling.py, recover_pending_turn).
THEOREM LedgerKept ==
  ASSUME TasksLive
  PROVE  Spec => KeepsLedger
<1>1. Init => Ledger!Init
  BY LedgerInit
<1>2. IInv /\ [Next]_vars => [Ledger!Next]_(Ledger!ledger)
  BY LedgerStep
<1> QED BY <1>1, <1>2, SessionInvariant, PTL DEF Spec, KeepsLedger, Ledger!Spec
=============================================================================
