--------------------------- MODULE ReceptionProofs ---------------------------
(* What receiving the result of an Attempt keeps, for any files, any number of *)
(* commands, waits, edits, faults and deaths: it takes only the steps of       *)
(* RegistrySpec, and it is ReceptionSound.  AttemptFacts is infinite, so that  *)
(* Facts holds it is a hypothesis and not an assumption.                       *)
EXTENDS ReceptionProperties, FiniteSetTheorems, TLAPS

(* What RegistrySpec keeps, for every set of keys, bytes and facts and however many *)
(* registrations are begun, interrupted and taken up again.                         *)

\* Every identity that is in use was given out.
IdentitiesAllocated ==
  /\ \A ref \in Trusted : ref.id <= allocated
  /\ \A f \in frozen : f.id <= allocated

\* Each part needs the others: binding is sound because the file found under the identity
\* can only have the promised bytes, freezing because nobody else has the identity, and
\* allocating because an identity that was not given out has no file yet.
RegistryInv ==
  /\ RegistryTypes
  /\ IdentitiesAllocated
  /\ ArtifactsFrozen
  /\ FrozenAsPromised
  /\ IdentitiesDistinct

\* The absence of an allocation is not taken for one.
LEMMA NoRefIsNoRef == NoRef \notin Refs
BY DEF NoRef, Refs

\* A pending allocation of a well-typed Registry is a Ref, and a trusted one.
LEMMA PendingTrusted ==
  ASSUME RegistryTypes, NEW k \in Keys, IsPending(k)
  PROVE  pending[k] \in Refs /\ pending[k] \in Trusted
BY DEF RegistryTypes, IsPending, Trusted

\* A new Registry satisfies the invariant.
LEMMA InitRegistry == RegistryInit => RegistryInv
<1> SUFFICES ASSUME RegistryInit PROVE RegistryInv
  OBVIOUS
<1>1. Trusted = {}
  BY DEF RegistryInit, Trusted, IsPending
<1> QED
  BY <1>1 DEF RegistryInit, RegistryInv, RegistryTypes, IdentitiesAllocated, ArtifactsFrozen,
              FrozenAsPromised, IdentitiesDistinct

\* A new identity has neither a file nor another Ref.
LEMMA AllocateKeeps ==
  ASSUME RegistryInv, NEW k \in Keys, pending'[k] \in Refs,
         Allocate(k, pending'[k].bytes, pending'[k].facts)
  PROVE  RegistryInv'
<1> DEFINE new == pending'[k]
<1>1. /\ new.id = allocated + 1
      /\ pending' = [pending EXCEPT ![k] = new]
      /\ artifacts' = artifacts /\ frozen' = frozen /\ allocated' = allocated + 1
  BY DEF Allocate, RegistryInv, RegistryTypes
<1>2. RegistryTypes'
  BY <1>1 DEF RegistryInv, RegistryTypes
<1>3. Trusted' \subseteq Trusted \union {new}
  BY <1>1 DEF Trusted, IsPending, RegistryInv, RegistryTypes
<1>4. \A ref \in Trusted : ref \in Refs /\ ref.id <= allocated
  BY DEF Trusted, IsPending, RegistryInv, RegistryTypes, IdentitiesAllocated
<1>5. allocated \in Nat /\ \A f \in frozen : f.id \in Nat /\ f.id <= allocated
  BY DEF RegistryInv, RegistryTypes, IdentitiesAllocated
<1>6. IdentitiesAllocated'
  <2>1. \A ref \in Trusted' : ref.id <= allocated'
    <3> SUFFICES ASSUME NEW ref \in Trusted' PROVE ref.id <= allocated'
      OBVIOUS
    <3>1. CASE ref = new
      BY <3>1, <1>1, <1>5
    <3>2. CASE ref \in Trusted
      BY <3>2, <1>1, <1>4, <1>5 DEF Refs
    <3> QED BY <3>1, <3>2, <1>3
  <2> QED BY <2>1, <1>1, <1>5 DEF IdentitiesAllocated
<1>7. ArtifactsFrozen'
  BY <1>1 DEF RegistryInv, ArtifactsFrozen
<1>8. FrozenAsPromised'
  <2> SUFFICES ASSUME NEW ref \in Trusted', NEW f \in frozen', f.id = ref.id
               PROVE  f.bytes = ref.bytes
    BY DEF FrozenAsPromised
  <2>1. ref # new
    BY <1>1, <1>5
  <2> QED BY <2>1, <1>1, <1>3 DEF RegistryInv, FrozenAsPromised
<1>9. IdentitiesDistinct'
  <2> SUFFICES ASSUME NEW r1 \in Trusted', NEW r2 \in Trusted', r1.id = r2.id
               PROVE  r1 = r2
    BY DEF IdentitiesDistinct
  <2>1. \A ref \in Trusted : ref.id # new.id
    BY <1>1, <1>4, <1>5 DEF Refs
  <2> QED BY <2>1, <1>3 DEF RegistryInv, IdentitiesDistinct
<1> QED BY <1>2, <1>6, <1>7, <1>8, <1>9 DEF RegistryInv

\* The file that is put in place is the one the Ref of its identity promises.
LEMMA FreezeKeeps ==
  ASSUME RegistryInv, NEW k \in Keys, Freeze(k, pending[k].bytes)
  PROVE  RegistryInv'
<1> DEFINE file == [id |-> pending[k].id, bytes |-> pending[k].bytes]
<1>1. pending[k] \in Refs /\ pending[k] \in Trusted
  BY PendingTrusted DEF Freeze, RegistryInv
<1>2. /\ pending' = pending /\ artifacts' = artifacts /\ allocated' = allocated
      /\ frozen' = frozen \union {file}
  BY DEF Freeze
<1>3. Trusted' = Trusted
  BY <1>2 DEF Trusted, IsPending
<1>4. RegistryTypes'
  BY <1>1, <1>2 DEF RegistryInv, RegistryTypes, Refs
<1>5. IdentitiesAllocated'
  BY <1>1, <1>2, <1>3 DEF RegistryInv, IdentitiesAllocated
<1>6. ArtifactsFrozen'
  BY <1>2 DEF RegistryInv, ArtifactsFrozen
<1>7. FrozenAsPromised'
  <2> SUFFICES ASSUME NEW ref \in Trusted, NEW f \in frozen', f.id = ref.id
               PROVE  f.bytes = ref.bytes
    BY <1>3 DEF FrozenAsPromised
  <2>1. CASE f \in frozen
    BY <2>1 DEF RegistryInv, FrozenAsPromised
  <2>2. CASE f = file
    BY <2>2, <1>1 DEF RegistryInv, IdentitiesDistinct
  <2> QED BY <2>1, <2>2, <1>2
<1>8. IdentitiesDistinct'
  BY <1>3 DEF RegistryInv, IdentitiesDistinct
<1> QED BY <1>4, <1>5, <1>6, <1>7, <1>8 DEF RegistryInv

\* What is bound has its file in place.
LEMMA BindKeeps ==
  ASSUME RegistryInv, NEW k \in Keys, Bind(k)
  PROVE  RegistryInv'
<1>1. pending[k] \in Refs /\ pending[k] \in Trusted
  BY PendingTrusted DEF Bind, RegistryInv
<1>2. /\ pending' = pending /\ frozen' = frozen /\ allocated' = allocated
      /\ artifacts' = artifacts \union {pending[k]}
  BY DEF Bind
<1>3. Trusted' = Trusted
  BY <1>1, <1>2 DEF Trusted, IsPending, Bind
<1>4. RegistryTypes'
  BY <1>1, <1>2 DEF RegistryInv, RegistryTypes
<1>5. IdentitiesAllocated' /\ FrozenAsPromised' /\ IdentitiesDistinct'
  BY <1>2, <1>3 DEF RegistryInv, IdentitiesAllocated, FrozenAsPromised, IdentitiesDistinct
<1>6. ArtifactsFrozen'
  <2>1. PICK f \in frozen : f.id = pending[k].id
    BY DEF Bind, IsFrozen
  <2>2. f.bytes = pending[k].bytes
    BY <2>1, <1>1 DEF RegistryInv, FrozenAsPromised
  <2>3. f = [id |-> pending[k].id, bytes |-> pending[k].bytes]
    BY <2>1, <2>2 DEF RegistryInv, RegistryTypes
  <2> QED BY <2>3, <1>2 DEF RegistryInv, ArtifactsFrozen
<1> QED BY <1>4, <1>5, <1>6 DEF RegistryInv

\* Forgetting an allocation leaves fewer Refs to keep a promise to.
LEMMA ForgetKeeps ==
  ASSUME RegistryInv, NEW k \in Keys, Acknowledge(k) \/ Drop(k)
  PROVE  RegistryInv'
<1>1. /\ pending' = [pending EXCEPT ![k] = NoRef]
      /\ artifacts' = artifacts /\ frozen' = frozen /\ allocated' = allocated
  BY DEF Acknowledge, Drop
<1>2. Trusted' \subseteq Trusted
  BY <1>1 DEF Trusted, IsPending, RegistryInv, RegistryTypes
<1>3. RegistryTypes'
  BY <1>1 DEF RegistryInv, RegistryTypes
<1> QED
  BY <1>1, <1>2, <1>3 DEF RegistryInv, IdentitiesAllocated, ArtifactsFrozen, FrozenAsPromised,
                          IdentitiesDistinct

\* Every step of a registration keeps the invariant.
LEMMA RegisterKeeps ==
  ASSUME RegistryInv, [Register]_registryVars
  PROVE  RegistryInv'
<1>1. CASE Register
  BY <1>1, AllocateKeeps, FreezeKeeps, BindKeeps, ForgetKeeps DEF Register
<1>2. CASE UNCHANGED registryVars
  BY <1>2 DEF registryVars, RegistryInv, RegistryTypes, IdentitiesAllocated, ArtifactsFrozen,
              FrozenAsPromised, IdentitiesDistinct, Trusted, IsPending
<1> QED BY <1>1, <1>2

\* The invariant holds in every state of the Registry.
LEMMA RegistryInvariance == RegistrySpec => []RegistryInv
<1> QED BY InitRegistry, RegisterKeeps, PTL DEF RegistrySpec

\* An artifact of the Run is never a name without its file: _freeze binds a Ref only after
\* the rename, and no registration, interrupted or taken up again, undoes either.
THEOREM BoundAreFrozen == RegistrySpec => []ArtifactsFrozen
<1>1. RegistryInv => ArtifactsFrozen
  BY DEF RegistryInv
<1> QED BY RegistryInvariance, <1>1, PTL

\* The bytes under an identity are the ones its Ref promised when it was allocated.
THEOREM FilesKeepPromise == RegistrySpec => []FrozenAsPromised
<1>1. RegistryInv => FrozenAsPromised
  BY DEF RegistryInv
<1> QED BY RegistryInvariance, <1>1, PTL

\* Two registrations never share an identity, though one may be pending while the other
\* was bound by an earlier owner.
THEOREM IdentitiesAreDistinct == RegistrySpec => []IdentitiesDistinct
<1>1. RegistryInv => IdentitiesDistinct
  BY DEF RegistryInv
<1> QED BY RegistryInvariance, <1>1, PTL

\* What a reader of artifacts relies on, for every registrar that only takes the steps of
\* the Registry, however often it dies between them.
THEOREM RegistryIsSound == RegistrySpec => []RegistrySound
<1> QED BY BoundAreFrozen, FilesKeepPromise, IdentitiesAreDistinct, PTL DEF RegistrySound

-----------------------------------------------------------------------------
(* The reception *)

KeyOf(i) == <<"output", i>>
Held(i) == KeyOf(i) \in Keys /\ IsPending(KeyOf(i))

Last == Len(result.outputs)

\* The result, or its absence, and the place of the record in it.
ResultInv ==
  /\ result \in [outcome : Outcomes \union {"none"}, outputs : Seq(Outputs), previous : Nat]
  /\ Returned => result.outcome \in Outcomes
  /\ result.previous <= MaxCommands /\ Last <= MaxOutputs + 1
  /\ \A i \in 1..Last : ~IsFile(result.outputs[i]) =>
       i = 1 /\ result.outputs[i].bytes = <<"record", commands>>
  /\ result.outcome = "waits" => Last <= 1 /\ \A i \in 1..Last : ~IsFile(result.outputs[i])

\* What is saved where the owner stands.
PointInv ==
  /\ at = "agent" => attempt.status = "running" /\ ~Returned
  /\ at = "receive" => Returned /\ report = 0 /\ next <= Last + 1
  /\ at = "report" => Ended /\ report = 0
  /\ at \in {"consumed", "acknowledge"} => report # 0
  /\ at = "finish" => report # 0 \/ (attempt.status = "waits" /\ Returned)
  /\ at = "idle" => ~Returned
  /\ attempt.status = "running" /\ ~Returned => at \in {"agent", "down"}
  /\ report # 0 => Ended
  /\ attempt.status = "waits" /\ Returned => result.outcome = "waits"

\* A Ref carries the key it was registered under and the bytes of what it names.
RefInv ==
  /\ \A k \in Keys : IsPending(k) => pending[k].key = k
  /\ \A ref \in Trusted :
       \/ ref.key = ReportKey /\ ref.bytes = ReportBytes
       \/ /\ \E i \in Nat \ {0} : ref.key = KeyOf(i)
          /\ ref.facts \in Outputs
          /\ IF IsFile(ref.facts)
             THEN \E v \in Versions : ref.bytes = <<"file", ref.facts.path, v>>
             ELSE /\ ref.bytes = ref.facts.bytes
                  /\ \E n \in 1..commands : ref.bytes = <<"record", n>>

\* Until the report is bound no allocation is forgotten.
AllocationsInv ==
  /\ report = 0 => \A ref \in artifacts : pending[ref.key] = ref
  /\ \A r1, r2 \in artifacts : r1.key = r2.key => r1 = r2
  /\ \A r1, r2 \in Trusted : r1.bytes \in RecordBytes /\ r1.bytes = r2.bytes => r1 = r2

\* The allocations of the result, and those of earlier ones.
ResultKeysInv ==
  Returned /\ report = 0 =>
    \A i \in Nat : Held(i) =>
      IF i <= result.previous THEN IsBound(pending[KeyOf(i)])
      ELSE /\ i <= result.previous + Last
           /\ pending[KeyOf(i)].facts = result.outputs[i - result.previous]

\* A result that nothing was concluded from yet.
New == Returned /\ attempt.status = "running"

\* While the Attempt goes on, what earlier results handed over is bound and listed, under
\* keys no greater than the number of listed artifacts, which are all records.
WaitInv ==
  /\ ~Ended =>
       \A id \in attempt.ids : \E ref \in artifacts : ref.id = id /\ ref.bytes \in RecordBytes
  /\ ~Ended /\ ~New =>
       \A i \in Nat : Held(i) =>
         /\ i <= Cardinality(attempt.ids) /\ IsBound(pending[KeyOf(i)])
         /\ pending[KeyOf(i)].id \in attempt.ids
  /\ New =>
       /\ result.previous = Cardinality(attempt.ids)
       /\ \A i \in Nat : Held(i) =>
            (pending[KeyOf(i)].id \in attempt.ids <=> i <= result.previous)

\* The artifacts the i-th output of the result is, or may be taken for.
RefsOf(i) ==
  IF Held(result.previous + i) THEN {pending[KeyOf(result.previous + i)]} \intersect artifacts
  ELSE EqualRecords(result.outputs[i])

\* refs are the identities of the outputs before the next.
ReceiveInv ==
  at = "receive" =>
    /\ \A i \in 1..(next - 1) : \E ref \in RefsOf(i) : ref.id \in refs
    /\ \A id \in refs : \E i \in 1..(next - 1) : \E ref \in RefsOf(i) : ref.id = id

\* Every output of a result that was concluded from is received.
ConcludedInv ==
  /\ attempt.status = "waits" /\ Returned => \A i \in 1..Last : RefsOf(i) # {}
  /\ Undisturbed /\ Ended =>
       \A ref \in artifacts : ref.key # ReportKey => ref.id \in attempt.ids
  /\ Undisturbed /\ Ended /\ Returned =>
       /\ result.outcome # "waits"
       /\ attempt.status = StatusOf(result.outcome) /\ attempt.error = ErrorOf(result.outcome)
       /\ report = 0 => \A i \in 1..Last : RefsOf(i) # {}

\* While no file was changed, a file was registered as the Agent left it.
FilesInv ==
  Undisturbed =>
    \A ref \in Trusted : ref.key # ReportKey /\ IsFile(ref.facts) =>
      ref.bytes = <<"file", ref.facts.path, 0>>

IInv ==
  /\ RegistryInv /\ TypeInvariant /\ ResultInv /\ PointInv /\ RefInv /\ AllocationsInv
  /\ ResultKeysInv /\ WaitInv /\ ReceiveInv /\ ConcludedInv /\ FilesInv
  /\ ReportTellsAttempt

-----------------------------------------------------------------------------
(* The steps, as steps of the Registry *)

\* The keys of the outputs suffice for every result.
LEMMA OutputOfResult ==
  ASSUME IInv, Receiving
  PROVE  /\ OutputKey = KeyOf(result.previous + next) /\ OutputKey \in Keys
         /\ Output \in Outputs /\ next \in 1..Last /\ result.previous + next \in Nat \ {0}
         /\ Held(result.previous + next) <=> IsPending(OutputKey)
<1>1. /\ next \in Nat \ {0} /\ next <= Last /\ Last \in Nat /\ Last <= MaxOutputs + 1
      /\ result.outputs \in Seq(Outputs)
      /\ result.previous \in Nat /\ result.previous <= MaxCommands
  BY DEF IInv, ResultInv, TypeInvariant, Receiving, Last
<1>2. MaxOutputs \in Nat /\ MaxCommands \in Nat
  BY ReceptionAssumption
<1>3. MaxKey >= MaxCommands + MaxOutputs + 1 /\ MaxKey \in Nat
  <2>1. MaxKey = MaxOutputs * MaxCommands + 3 * MaxOutputs + MaxCommands + 3
    BY <1>2 DEF MaxKey
  <2>2. MaxOutputs * MaxCommands \in Nat
    BY <1>2
  <2> QED BY <1>2, <2>1, <2>2
<1>4. result.previous + next \in 1..MaxKey
  BY <1>1, <1>2, <1>3
<1>5. OutputKey = KeyOf(result.previous + next)
  BY DEF OutputKey, KeyOf
<1>6. OutputKey \in Keys
  BY <1>4, <1>5, AttemptAssumption DEF AttemptKeys, KeyOf
<1>7. Output \in Outputs
  BY <1>1 DEF Output, Last
<1> QED BY <1>1, <1>4, <1>5, <1>6, <1>7 DEF Held

\* What can be read of an output is among the bytes of the Attempt.
LEMMA OutputBytes ==
  ASSUME IInv, Receiving, Readable(Output)
  PROVE  /\ BytesOf(Output) \in Bytes
         /\ IF IsFile(Output)
            THEN \E v \in Versions : BytesOf(Output) = <<"file", Output.path, v>>
            ELSE /\ next = 1 /\ BytesOf(Output) = Output.bytes
                 /\ commands \in 1..MaxCommands /\ Output.bytes = <<"record", commands>>
<1>1. Output \in Outputs /\ next \in 1..Last
  BY OutputOfResult
<1>2. CASE IsFile(Output)
  <2>1. Output \in FileOutputs
    BY <1>1, <1>2 DEF Outputs, FileOutputs, RecordOutputs, IsFile
  <2>2. source[Output.path] \in Versions
    BY <1>2, <2>1 DEF IInv, TypeInvariant, Readable, FileOutputs
  <2>3. BytesOf(Output) \in FileBytes
    BY <1>2, <2>1, <2>2 DEF BytesOf, FileBytes, FileOutputs
  <2> QED BY <1>2, <2>2, <2>3, AttemptAssumption DEF BytesOf, AttemptBytes
<1>3. CASE ~IsFile(Output)
  <2>1. Output \in RecordOutputs
    BY <1>1, <1>3 DEF Outputs, FileOutputs, RecordOutputs, IsFile
  <2>2. Output.bytes \in RecordBytes
    BY <2>1 DEF RecordOutputs
  <2>3. next = 1 /\ Output.bytes = <<"record", commands>>
    BY <1>1, <1>3 DEF IInv, ResultInv, Output
  <2>4. commands \in 1..MaxCommands
    BY <2>2, <2>3 DEF RecordBytes
  <2> QED BY <1>3, <2>2, <2>3, <2>4, AttemptAssumption DEF BytesOf, AttemptBytes
<1> QED BY <1>2, <1>3

\* The facts of the report are facts of the Attempt.
LEMMA ReportIsFact ==
  ASSUME IInv, AttemptFacts \subseteq Facts
  PROVE  ReportKey \in Keys /\ ReportBytes \in Bytes /\ ReportFacts \in Facts
<1>1. ReportKey \in Keys /\ ReportBytes \in Bytes
  BY AttemptAssumption DEF AttemptKeys, AttemptBytes
<1>2. attempt \in [status : Statuses, error : Errors, ids : SUBSET Nat]
  BY DEF IInv, TypeInvariant, RegistryTypes
<1>3. ErrorOf(result.outcome) \in Errors
  BY DEF ErrorOf, Errors
<1> QED BY <1>1, <1>2, <1>3 DEF ReportFacts, AttemptFacts

\* An allocation puts a Ref under a key that had none.
LEMMA AllocateIsRef ==
  ASSUME RegistryTypes, NEW k \in Keys, NEW bytes \in Bytes, NEW facts \in Facts,
         Allocate(k, bytes, facts)
  PROVE  LET new == [id |-> allocated + 1, key |-> k, bytes |-> bytes, facts |-> facts]
         IN  /\ pending' = [pending EXCEPT ![k] = new] /\ pending'[k] = new /\ new \in Refs
             /\ new # NoRef /\ ~IsPending(k)
             /\ artifacts' = artifacts /\ frozen' = frozen /\ allocated' = allocated + 1
             /\ Register
<1> DEFINE new == [id |-> allocated + 1, key |-> k, bytes |-> bytes, facts |-> facts]
<1>1. new \in Refs
  BY DEF Refs, RegistryTypes
<1>2. /\ pending' = [pending EXCEPT ![k] = new] /\ ~IsPending(k)
      /\ artifacts' = artifacts /\ frozen' = frozen /\ allocated' = allocated + 1
  BY DEF Allocate
<1>3. pending'[k] = new
  BY <1>2 DEF RegistryTypes
<1>4. new # NoRef
  BY <1>1, NoRefIsNoRef
<1>5. Register
  BY <1>1, <1>3 DEF Register
<1> QED BY <1>1, <1>2, <1>3, <1>4, <1>5

\* What a step does to pending and artifacts: nothing, unless it allocates or binds an
\* output or the report, or acknowledges once the report is bound.
OutputAllocated ==
  /\ Receiving /\ report = 0 /\ EqualRecords(Output) = {} /\ Readable(Output)
  /\ ~IsPending(OutputKey) /\ artifacts' = artifacts
  /\ pending' = [pending EXCEPT ![OutputKey] =
       [id |-> allocated + 1, key |-> OutputKey, bytes |-> BytesOf(Output), facts |-> Output]]
  /\ UNCHANGED <<savedVars, localVars, worldVars>>
ReportAllocated ==
  /\ at = "report" /\ report = 0 /\ ~IsPending(ReportKey) /\ artifacts' = artifacts
  /\ pending' = [pending EXCEPT ![ReportKey] =
       [id |-> allocated + 1, key |-> ReportKey, bytes |-> ReportBytes, facts |-> ReportFacts]]
  /\ UNCHANGED <<savedVars, localVars, worldVars>>
OutputBound ==
  /\ Receiving /\ IsPending(OutputKey) /\ pending[OutputKey].facts = Output
  /\ artifacts' = artifacts \union {pending[OutputKey]} /\ pending' = pending
  /\ TakeNext(pending[OutputKey])
  /\ UNCHANGED <<savedVars, worldVars>>
ReportRegistered ==
  /\ at = "report" /\ IsPending(ReportKey)
  /\ artifacts' = artifacts \union {pending[ReportKey]} /\ pending' = pending
  /\ UNCHANGED <<savedVars, localVars, worldVars>>
Forgotten ==
  /\ at = "acknowledge" /\ \E k \in Keys : pending' = [pending EXCEPT ![k] = NoRef]
  /\ artifacts' = artifacts
  /\ UNCHANGED <<savedVars, localVars, worldVars>>
Kept == pending' = pending /\ artifacts' = artifacts

\* Every step is a step of the Registry, and does one of these to what it keeps.
LEMMA RegistryStep ==
  ASSUME IInv, AttemptFacts \subseteq Facts, [Next]_vars
  PROVE  /\ [Register]_registryVars
         /\ \/ OutputAllocated \/ ReportAllocated \/ OutputBound \/ ReportRegistered
            \/ Forgotten \/ Kept
<1>t. RegistryTypes
  BY DEF IInv, RegistryInv
<1>1. CASE UNCHANGED registryVars
  BY <1>1 DEF registryVars, Kept
<1>2. CASE AllocateOutput
  <2>1. Receiving /\ Readable(Output) /\ Allocate(OutputKey, BytesOf(Output), Output)
    BY <1>2 DEF AllocateOutput
  <2>2. OutputKey \in Keys /\ BytesOf(Output) \in Bytes /\ Output \in Facts
    BY <2>1, OutputOfResult, OutputBytes DEF AttemptFacts
  <2>3. Register
    BY <1>t, <2>1, <2>2, AllocateIsRef
  <2>4. report = 0
    BY <2>1 DEF IInv, PointInv, Receiving
  <2>5. OutputAllocated
    BY <1>2, <2>4 DEF AllocateOutput, OutputAllocated, Allocate
  <2> QED BY <2>3, <2>5
<1>3. CASE AllocateReport
  <2>1. Allocate(ReportKey, ReportBytes, ReportFacts)
    BY <1>3 DEF AllocateReport
  <2>2. Register
    BY <1>t, <2>1, ReportIsFact, AllocateIsRef
  <2>3. ReportAllocated
    BY <1>3 DEF AllocateReport, ReportAllocated, Allocate
  <2> QED BY <2>2, <2>3
<1>4. CASE FreezeOutput
  <2>1. Freeze(OutputKey, pending[OutputKey].bytes) /\ OutputKey \in Keys
    BY <1>4, OutputOfResult DEF FreezeOutput, Freeze
  <2> QED BY <2>1 DEF Register, Freeze, Kept
<1>5. CASE FreezeReport
  <2>1. Freeze(ReportKey, pending[ReportKey].bytes) /\ ReportKey \in Keys
    BY <1>5, ReportIsFact DEF FreezeReport, Freeze
  <2> QED BY <2>1 DEF Register, Freeze, Kept
<1>6. CASE BindOutput
  <2>1. Bind(OutputKey) /\ OutputKey \in Keys
    BY <1>6, OutputOfResult DEF BindOutput
  <2>2. OutputBound
    BY <1>6 DEF BindOutput, OutputBound, Bind
  <2> QED BY <2>1, <2>2 DEF Register
<1>7. CASE RegisterReport
  <2>1. Bind(ReportKey) /\ ReportKey \in Keys
    BY <1>7, ReportIsFact DEF RegisterReport
  <2>2. ReportRegistered
    BY <1>7 DEF RegisterReport, ReportRegistered, Bind, Recovers
  <2> QED BY <2>1, <2>2 DEF Register
<1>8. CASE AcknowledgeNext
  <2>1. Acknowledge(FirstPending) /\ at = "acknowledge"
        /\ UNCHANGED <<savedVars, localVars, worldVars>>
    BY <1>8 DEF AcknowledgeNext
  <2>2. CASE FirstPending \in Keys
    <3>1. Register
      BY <2>1, <2>2 DEF Register
    <3>2. Forgotten
      BY <2>1, <2>2 DEF Forgotten, Acknowledge
    <3> QED BY <3>1, <3>2
  <2>3. CASE FirstPending \notin Keys
    <3>1. pending' = pending
      BY <2>1, <2>3, <1>t DEF Acknowledge, RegistryTypes
    <3>2. UNCHANGED registryVars
      BY <3>1, <2>1 DEF Acknowledge, registryVars
    <3> QED BY <3>2 DEF registryVars, Kept
  <2> QED BY <2>2, <2>3
<1>9. CASE \/ RunCommand \/ \E outcome \in Outcomes : AgentReturns(outcome)
           \/ ReuseRecord \/ FindMissing \/ SourceChanged \/ StorageFails
           \/ SettleAttempt \/ SettleRaises \/ BindReport \/ ReportRefused \/ ConsumeResult
           \/ AcknowledgeRefused \/ Acknowledged \/ Finish \/ Recover
           \/ ResumeAttempt \/ CancelAttempt \/ (\E f \in Files : EditFile(f))
           \/ Crash \/ Done \/ UNCHANGED vars
  <2>1. UNCHANGED registryVars
    BY <1>9 DEF RunCommand, AgentReturns, ReuseRecord, FindMissing, SourceChanged, StorageFails,
      FailReception, SettleAttempt, SettleRaises, BindReport, ReportRefused, ConsumeResult,
      AcknowledgeRefused, Acknowledged, Finish, Recover, ResumeAttempt, CancelAttempt, EditFile,
      Crash, Done, vars
  <2> QED BY <2>1, <1>1
<1> QED
  BY <1>2, <1>3, <1>4, <1>5, <1>6, <1>7, <1>8, <1>9 DEF Next, Working

\* The Registry only grows, but for what is acknowledged.
LEMMA RegistryGrows ==
  ASSUME RegistryInv, [Register]_registryVars
  PROVE  /\ artifacts \subseteq artifacts' /\ allocated <= allocated'
         /\ allocated \in Nat /\ allocated' \in Nat
<1>1. allocated \in Nat
  BY DEF RegistryInv, RegistryTypes
<1> QED
  BY <1>1 DEF Register, Allocate, Freeze, Bind, Acknowledge, Drop, registryVars

\* The identities of trusted Refs were given out.
LEMMA TrustedIds ==
  ASSUME RegistryInv
  PROVE  /\ \A ref \in Trusted : ref \in Refs /\ ref.id \in 1..allocated
         /\ artifacts \subseteq Trusted
         /\ \A k \in Keys : IsPending(k) => pending[k] \in Trusted
         /\ allocated \in Nat
<1>1. \A ref \in Trusted : ref \in Refs /\ ref.id <= allocated
  BY DEF RegistryInv, RegistryTypes, IdentitiesAllocated, Trusted, IsPending
<1>2. allocated \in Nat
  BY DEF RegistryInv, RegistryTypes
<1>3. \A ref \in Trusted : ref.id \in 1..allocated
  BY <1>1, <1>2 DEF Refs
<1> QED BY <1>1, <1>2, <1>3 DEF Trusted, IsPending

\* A result the Agent may return is a result.
LEMMA ReturnedResult ==
  ASSUME IInv, NEW outcome \in Outcomes, AgentReturns(outcome)
  PROVE  /\ result' \in [outcome : Outcomes \union {"none"}, outputs : Seq(Outputs), previous : Nat]
         /\ result'.outcome = outcome
         /\ result'.previous = Cardinality(attempt.ids)
         /\ Len(result'.outputs) <= MaxOutputs + 1
         /\ \A i \in 1..Len(result'.outputs) : ~IsFile(result'.outputs[i]) =>
              i = 1 /\ result'.outputs[i].bytes = <<"record", commands>>
         /\ outcome = "waits" =>
              Len(result'.outputs) <= 1
              /\ \A i \in 1..Len(result'.outputs) : ~IsFile(result'.outputs[i])
<1>1. PICK files \in Deliveries(outcome) :
        result' = [outcome |-> outcome, outputs |-> RecordOutput \o files,
                   previous |-> Cardinality(attempt.ids)]
  BY DEF AgentReturns
<1>2. /\ files \in Seq(FileOutputs) /\ Len(files) <= MaxOutputs
      /\ outcome = "waits" => files = <<>>
  <2>1. CASE outcome = "waits"
    BY <2>1, <1>1, ReceptionAssumption DEF Deliveries
  <2>2. CASE outcome # "waits"
    <3>1. PICK n \in 0..MaxOutputs : \E names \in [1..n -> Files] :
            files = [i \in DOMAIN names |-> [kind |-> "file", path |-> names[i]]]
      BY <2>2, <1>1 DEF Deliveries
    <3>2. files \in [1..n -> FileOutputs]
      BY <3>1 DEF FileOutputs
    <3> QED BY <3>2, <2>2, ReceptionAssumption
  <2> QED BY <2>1, <2>2
<1>3. /\ RecordOutput \in Seq(RecordOutputs) /\ Len(RecordOutput) \in {0, 1}
      /\ Len(RecordOutput) = 1 => RecordOutput[1] = [kind |-> "record", bytes |-> <<"record", commands>>]
  <2>1. CASE commands = 0
    BY <2>1 DEF RecordOutput
  <2>2. CASE commands # 0
    <3>1. commands \in 1..MaxCommands
      BY <2>2, ReceptionAssumption DEF IInv, TypeInvariant
    <3>2. [kind |-> "record", bytes |-> <<"record", commands>>] \in RecordOutputs
      BY <3>1 DEF RecordOutputs, RecordBytes
    <3> QED BY <3>2, <2>2 DEF RecordOutput
  <2> QED BY <2>1, <2>2
<1>4. /\ result'.outputs \in Seq(Outputs)
      /\ Len(result'.outputs) = Len(RecordOutput) + Len(files)
      /\ \A i \in 1..Len(result'.outputs) :
           result'.outputs[i] = IF i <= Len(RecordOutput) THEN RecordOutput[i]
                                ELSE files[i - Len(RecordOutput)]
  BY <1>1, <1>2, <1>3 DEF Outputs
<1>5. Cardinality(attempt.ids) \in Nat
  <2>1. attempt.ids \subseteq 1..allocated /\ allocated \in Nat
    BY DEF IInv, TypeInvariant, RegistryTypes
  <2>2. IsFiniteSet(1..allocated)
    BY <2>1, FS_Interval
  <2>3. IsFiniteSet(attempt.ids)
    BY <2>1, <2>2, FS_Subset
  <2> QED BY <2>3, FS_CardinalityType
<1>6. result' \in [outcome : Outcomes \union {"none"}, outputs : Seq(Outputs), previous : Nat]
  BY <1>1, <1>4, <1>5
<1>7. \A i \in 1..Len(files) : IsFile(files[i])
  <2>1. \A i \in 1..Len(files) : files[i] \in FileOutputs
    BY <1>2
  <2> QED BY <2>1 DEF FileOutputs, IsFile
<1>8. Len(RecordOutput) = 1 => ~IsFile(RecordOutput[1])
  BY <1>3 DEF IsFile
<1>9. \A i \in 1..Len(result'.outputs) : ~IsFile(result'.outputs[i]) =>
        i = 1 /\ result'.outputs[i].bytes = <<"record", commands>>
  <2> SUFFICES ASSUME NEW i \in 1..Len(result'.outputs), ~IsFile(result'.outputs[i])
               PROVE  i = 1 /\ result'.outputs[i].bytes = <<"record", commands>>
    OBVIOUS
  <2>1. CASE i <= Len(RecordOutput)
    BY <2>1, <1>3, <1>4
  <2>2. CASE ~(i <= Len(RecordOutput))
    <3>1. i - Len(RecordOutput) \in 1..Len(files)
      BY <2>2, <1>2, <1>3, <1>4
    <3> QED BY <3>1, <2>2, <1>4, <1>7
  <2> QED BY <2>1, <2>2
<1>10. outcome = "waits" =>
         Len(result'.outputs) <= 1 /\ \A i \in 1..Len(result'.outputs) : ~IsFile(result'.outputs[i])
  BY <1>2, <1>3, <1>4, <1>8
<1>11. Len(result'.outputs) <= MaxOutputs + 1
  BY <1>2, <1>3, <1>4, ReceptionAssumption
<1> QED BY <1>1, <1>6, <1>9, <1>10, <1>11

\* The three kinds of bytes are not taken for one another.
LEMMA BytesDistinct ==
  /\ ReportBytes \notin RecordBytes
  /\ \A f, v, n : <<"file", f, v>> # <<"record", n>> /\ <<"file", f, v>> # ReportBytes
  /\ \A f, v : <<"file", f, v>> \notin RecordBytes
  /\ ReportKey \notin {KeyOf(i) : i \in Nat}
BY DEF ReportBytes, RecordBytes, ReportKey, KeyOf

\* The record of some commands, as a Ref has it.
LEMMA RecordOfRef ==
  ASSUME IInv, NEW ref \in Trusted, ref.bytes \in RecordBytes
  PROVE  /\ ref.key # ReportKey /\ ref.facts \in Outputs /\ ~IsFile(ref.facts)
         /\ ref.bytes = ref.facts.bytes
         /\ \E n \in 1..commands : ref.bytes = <<"record", n>>
BY BytesDistinct DEF IInv, RefInv, KeyOf, ReportKey

\* What an Attempt that goes on has listed are records, each of another number of commands.
LEMMA ListedBound ==
  ASSUME IInv, ~Ended
  PROVE  Cardinality(attempt.ids) <= commands
<1>1. /\ commands \in Nat /\ attempt.ids \subseteq 1..allocated
      /\ artifacts \subseteq Trusted
  BY TrustedIds DEF IInv, TypeInvariant
<1> DEFINE Of(id, n) == \E ref \in artifacts : ref.id = id /\ ref.bytes = <<"record", n>>
           f == [id \in attempt.ids |-> CHOOSE n \in 1..commands : Of(id, n)]
<1>2. \A id \in attempt.ids : \E n \in 1..commands : Of(id, n)
  <2> SUFFICES ASSUME NEW id \in attempt.ids PROVE \E n \in 1..commands : Of(id, n)
    OBVIOUS
  <2>1. PICK ref \in artifacts : ref.id = id /\ ref.bytes \in RecordBytes
    BY DEF IInv, WaitInv
  <2>2. \E n \in 1..commands : ref.bytes = <<"record", n>>
    BY <2>1, <1>1, RecordOfRef
  <2> QED BY <2>1, <2>2
<1>3. \A id \in attempt.ids : f[id] \in 1..commands /\ Of(id, f[id])
  BY <1>2
<1>4. ASSUME NEW a \in attempt.ids, NEW b \in attempt.ids, f[a] = f[b]
      PROVE  a = b
  <2>1. PICK r1 \in artifacts : r1.id = a /\ r1.bytes = <<"record", f[a]>>
    BY <1>3
  <2>2. PICK r2 \in artifacts : r2.id = b /\ r2.bytes = <<"record", f[b]>>
    BY <1>3
  <2>3. r1.bytes \in RecordBytes
    <3>1. PICK ref \in artifacts : ref.id = a /\ ref.bytes \in RecordBytes
      BY DEF IInv, WaitInv
    <3>2. ref = r1
      BY <3>1, <2>1, <1>1 DEF IInv, RegistryInv, IdentitiesDistinct
    <3> QED BY <3>1, <3>2
  <2>4. r1 = r2
    BY <2>1, <2>2, <2>3, <1>1, <1>4 DEF IInv, AllocationsInv
  <2> QED BY <2>1, <2>2, <2>4
<1>5. f \in Injection(attempt.ids, 1..commands)
  BY <1>3, <1>4 DEF Injection, IsInjective
<1>6. IsFiniteSet(1..commands) /\ Cardinality(1..commands) = commands
  <2>1. commands \in Int /\ 1 \in Int
    BY <1>1
  <2>2. IsFiniteSet(1..commands) /\ Cardinality(1..commands) = IF 1 > commands THEN 0 ELSE commands - 1 + 1
    BY <2>1, FS_Interval
  <2> QED BY <2>2, <1>1
<1> QED BY <1>5, <1>6, FS_Injection

\* The listed identities are finitely many.
LEMMA ListedFinite ==
  ASSUME IInv
  PROVE  IsFiniteSet(attempt.ids) /\ Cardinality(attempt.ids) \in Nat
<1>1. attempt.ids \subseteq 1..allocated /\ allocated \in Nat
  BY DEF IInv, TypeInvariant, RegistryTypes
<1>2. IsFiniteSet(1..allocated)
  BY <1>1, FS_Interval
<1>3. IsFiniteSet(attempt.ids)
  BY <1>1, <1>2, FS_Subset
<1> QED BY <1>3, FS_CardinalityType

-----------------------------------------------------------------------------
(* The saved Attempt and the place of the owner *)

\* What a step does to the result: nothing, or it is returned, or it is consumed.
LEMMA ResultStep ==
  ASSUME IInv, [Next]_vars
  PROVE  \/ result' = result /\ commands' = commands
         \/ result' = result /\ at = "agent" /\ commands' \in 0..MaxCommands
            /\ commands <= commands' /\ UNCHANGED <<registryVars, savedVars, localVars>>
         \/ \E outcome \in Outcomes : AgentReturns(outcome) /\ commands' = commands
         \/ result' = NoResult /\ UNCHANGED <<registryVars, attempt, report, commands>>
            /\ at \in {"consumed", "finish"}
<1>1. CASE RunCommand
  BY <1>1, ReceptionAssumption DEF RunCommand, savedVars, IInv, TypeInvariant
<1>2. CASE \E outcome \in Outcomes : AgentReturns(outcome)
  BY <1>2 DEF AgentReturns, worldVars
<1>3. CASE \/ ReuseRecord \/ AllocateOutput \/ FreezeOutput \/ BindOutput
           \/ SettleRaises \/ AllocateReport \/ FreezeReport \/ RegisterReport \/ ReportRefused
           \/ AcknowledgeNext \/ AcknowledgeRefused \/ Acknowledged
           \/ (\E f \in Files : EditFile(f)) \/ Crash \/ Done \/ UNCHANGED vars
  BY <1>3 DEF ReuseRecord, AllocateOutput, FreezeOutput, BindOutput, SettleRaises, AllocateReport,
    FreezeReport, RegisterReport, ReportRefused, AcknowledgeNext, AcknowledgeRefused,
    Acknowledged, EditFile, Crash, Done, vars, savedVars, worldVars
<1>4. CASE \/ FindMissing \/ SourceChanged \/ StorageFails \/ SettleAttempt \/ BindReport
           \/ Recover \/ ResumeAttempt \/ CancelAttempt
  BY <1>4 DEF FindMissing, SourceChanged, StorageFails, FailReception, SettleAttempt, BindReport,
    Recover, ResumeAttempt, CancelAttempt, worldVars
<1>5. CASE ConsumeResult \/ Finish
  BY <1>5 DEF ConsumeResult, Finish, worldVars
<1> QED BY <1>1, <1>2, <1>3, <1>4, <1>5 DEF Next, Working

\* A result keeps its shape while it is received.
LEMMA ResultKept ==
  ASSUME IInv, [Next]_vars
  PROVE  ResultInv'
<1>1. CASE result' = result /\ commands' = commands
  BY <1>1 DEF IInv, ResultInv, Returned, Last
<1>2. CASE result' = result /\ at = "agent"
  <2>1. result = NoResult
    BY <1>2 DEF IInv, PointInv, Returned
  <2> QED
    BY <1>2, <2>1 DEF IInv, ResultInv, Returned, Last, NoResult
<1>3. CASE \E outcome \in Outcomes : AgentReturns(outcome) /\ commands' = commands
  <2>1. PICK outcome \in Outcomes : AgentReturns(outcome) /\ commands' = commands
    BY <1>3
  <2>2. result'.previous <= MaxCommands
    <3>1. ~Ended
      BY <2>1 DEF AgentReturns, IInv, PointInv, Ended
    <3> QED BY <2>1, <3>1, ReturnedResult, ListedBound, ListedFinite, ReceptionAssumption
            DEF IInv, TypeInvariant
  <2> QED BY <2>1, <2>2, ReturnedResult DEF ResultInv, Last
<1>4. CASE result' = NoResult
  BY <1>4, ReceptionAssumption DEF ResultInv, Returned, Last, NoResult
<1> QED BY <1>1, <1>2, <1>3, <1>4, ResultStep

\* The owner stands where what is saved lets it stand.
LEMMA PointKept ==
  ASSUME IInv, [Next]_vars
  PROVE  PointInv'
<1>o. Returned => result.outcome \in Outcomes
  BY DEF IInv, ResultInv
<1>t. next \in Nat \ {0} /\ Last \in Nat /\ attempt \in [status : Statuses, error : Errors, ids : SUBSET (1..allocated)]
  BY DEF IInv, TypeInvariant, ResultInv, Last
<1> USE DEF IInv, PointInv, Returned, Ended, Last
<1>1. CASE RunCommand
  BY <1>1 DEF RunCommand, savedVars, localVars
<1>2. ASSUME NEW outcome \in Outcomes, AgentReturns(outcome)
      PROVE  PointInv'
  <2>1. result' # NoResult /\ Len(result'.outputs) \in Nat
    BY <1>2, ReturnedResult DEF NoResult, Outcomes
  <2> QED BY <1>2, <2>1 DEF AgentReturns
<1>3. CASE ReuseRecord
  BY <1>3, <1>t DEF ReuseRecord, TakeNext, savedVars, Receiving
<1>4. CASE AllocateOutput \/ FreezeOutput \/ AllocateReport \/ FreezeReport \/ RegisterReport
           \/ AcknowledgeNext \/ Done \/ UNCHANGED vars \/ (\E f \in Files : EditFile(f))
  <2>1. UNCHANGED <<savedVars, localVars>>
    BY <1>4 DEF AllocateOutput, FreezeOutput, AllocateReport, FreezeReport, RegisterReport,
                AcknowledgeNext, Done, vars, EditFile
  <2> QED BY <2>1 DEF savedVars, localVars
<1>5. CASE FindMissing \/ SourceChanged \/ StorageFails
  <2>1. /\ at = "receive" /\ result' = result /\ report' = report /\ at' = "report"
        /\ attempt'.status = "failed"
    BY <1>5 DEF FindMissing, SourceChanged, StorageFails, FailReception, GoTo, Receiving, Unfrozen
  <2> QED BY <2>1
<1>6. CASE BindOutput
  BY <1>6, <1>t DEF BindOutput, TakeNext, savedVars, Receiving
<1>7. CASE SettleAttempt
  <2>1. /\ at = "receive" /\ result' = result /\ report' = report
        /\ attempt'.status = StatusOf(result.outcome)
        /\ at' = IF result.outcome = "waits" THEN "finish" ELSE "report"
    BY <1>7 DEF SettleAttempt, Received, GoTo
  <2>2. StatusOf(result.outcome) = "waits" <=> result.outcome = "waits"
    BY DEF StatusOf
  <2>3. StatusOf(result.outcome) \in {"waits", "completed", "failed"}
    BY DEF StatusOf
  <2> QED BY <2>1, <2>2, <2>3
<1>8. CASE SettleRaises \/ ReportRefused \/ AcknowledgeRefused \/ Crash
  <2>1. UNCHANGED savedVars /\ at' = "down"
    BY <1>8 DEF SettleRaises, ReportRefused, AcknowledgeRefused, Crash, Raise
  <2> QED BY <2>1 DEF savedVars
<1>9. CASE BindReport
  <2>1. /\ at = "report" /\ at' = "consumed" /\ report' = pending[ReportKey].id
        /\ result' = result /\ attempt' = attempt
        /\ IsPending(ReportKey)
    BY <1>9 DEF BindReport, GoTo, Recovers
  <2>2. pending[ReportKey].id # 0
    BY <2>1, AttemptAssumption, TrustedIds DEF AttemptKeys, Refs
  <2> QED BY <2>1, <2>2
<1>10. CASE ConsumeResult
  BY <1>10 DEF ConsumeResult, GoTo
<1>11. CASE Acknowledged
  BY <1>11 DEF Acknowledged, GoTo, savedVars
<1>12. CASE Finish
  BY <1>12 DEF Finish, GoTo
<1>13. CASE ResumeAttempt
  BY <1>13, <1>t DEF ResumeAttempt, GoTo
<1>14. CASE CancelAttempt
  BY <1>14, <1>t DEF CancelAttempt, GoTo
<1>15. CASE Recover
  <2>1. UNCHANGED <<result, report>> /\ next' = 1
    BY <1>15 DEF Recover
  <2>2. \/ Returned /\ report # 0 /\ at' = "consumed" /\ attempt' = attempt
        \/ Returned /\ report = 0 /\ at' = "receive" /\ attempt' = attempt
        \/ ~Returned /\ Ended /\ report = 0 /\ at' = "report" /\ attempt' = attempt
        \/ ~Returned /\ report # 0 /\ at' \in {"consumed", "idle"} /\ attempt' = attempt
        \/ ~Returned /\ attempt.status = "waits" /\ at' = "idle" /\ attempt' = attempt
        \/ ~Returned /\ attempt.status = "running" /\ attempt'.status = "failed" /\ at' = "report"
    BY <1>15, <1>t DEF Recover
  <2> QED BY <2>1, <2>2, <1>t
<1> QED
  BY <1>1, <1>2, <1>3, <1>4, <1>5, <1>6, <1>7, <1>8, <1>9, <1>10, <1>11, <1>12, <1>13, <1>14,
     <1>15 DEF Next, Working

\* The storage fails no more often than the bound.
LEMMA FaultsBounded ==
  ASSUME IInv, [Next]_vars
  PROVE  faults' \in 0..MaxFaults /\ (faults' = faults \/ StorageFails)
<1>1. faults \in 0..MaxFaults /\ MaxFaults \in Nat
  BY ReceptionAssumption DEF IInv, TypeInvariant
<1>2. CASE StorageFails
  BY <1>1, <1>2 DEF StorageFails
<1>3. CASE \/ RunCommand \/ \E outcome \in Outcomes : AgentReturns(outcome)
           \/ ReuseRecord \/ FindMissing \/ SourceChanged
           \/ SettleAttempt \/ SettleRaises \/ BindReport \/ ReportRefused \/ ConsumeResult
           \/ AcknowledgeRefused \/ Acknowledged \/ Finish \/ Recover
           \/ ResumeAttempt \/ CancelAttempt \/ (\E f \in Files : EditFile(f))
           \/ Crash \/ Done \/ UNCHANGED vars
  <2>1. faults' = faults
    BY <1>3 DEF RunCommand, AgentReturns, ReuseRecord, FindMissing, SourceChanged,
      SettleAttempt, SettleRaises, BindReport, ReportRefused, ConsumeResult,
      AcknowledgeRefused, Acknowledged, Finish, Recover, ResumeAttempt, CancelAttempt, EditFile,
      Crash, Done, vars, worldVars
  <2> QED BY <2>1, <1>1
<1>4. CASE \/ AllocateOutput \/ FreezeOutput \/ BindOutput \/ AllocateReport \/ FreezeReport
           \/ RegisterReport \/ AcknowledgeNext
  <2>1. faults' = faults
    BY <1>4 DEF AllocateOutput, FreezeOutput, BindOutput, AllocateReport, FreezeReport,
      RegisterReport, AcknowledgeNext, worldVars
  <2> QED BY <2>1, <1>1
<1> QED BY <1>2, <1>3, <1>4 DEF Next, Working

\* What is saved and what the owner holds have their types.
LEMMA TypesKept ==
  ASSUME IInv, AttemptFacts \subseteq Facts, [Next]_vars
  PROVE  RegistryInv' /\ TypeInvariant'
<1>1. [Register]_registryVars
  BY RegistryStep
<1>2. RegistryInv'
  BY <1>1, RegisterKeeps DEF IInv
<1> SUFFICES TypeInvariant'
  BY <1>2
<1>3. /\ artifacts \subseteq artifacts' /\ 1..allocated \subseteq 1..allocated'
  BY <1>1, RegistryGrows DEF IInv
<1>4. /\ \A ref \in artifacts : ref.id \in 1..allocated
      /\ \A k \in Keys : IsPending(k) => pending[k].id \in 1..allocated
  BY TrustedIds DEF IInv
<1>5. result'.outcome \in Outcomes \union {"none"} /\ result'.outputs \in Seq(Outputs)
  BY ResultKept DEF ResultInv
<1>r. RegistryTypes'
  BY <1>2 DEF RegistryInv
<1> DEFINE Rest ==
      /\ source \in [Files -> Versions \union {Gone}] /\ commands \in 0..MaxCommands
      /\ attempt \in [status : Statuses, error : Errors, ids : SUBSET (1..allocated)]
      /\ report \in Nat /\ next \in Nat \ {0}
      /\ at \in {"agent", "receive", "report", "consumed", "acknowledge", "finish", "idle", "down"}
      /\ refs \subseteq 1..allocated /\ before \subseteq artifacts
<1>6. Rest
  BY DEF Rest, IInv, TypeInvariant
<1>7. /\ attempt \in [status : Statuses, error : Errors, ids : SUBSET (1..allocated')]
      /\ refs \subseteq 1..allocated' /\ before \subseteq artifacts'
  BY <1>3, <1>6 DEF Rest
<1> HIDE DEF Rest
<1>f. faults' \in 0..MaxFaults
  BY FaultsBounded
<1>q. ASSUME Rest' PROVE TypeInvariant'
  BY <1>f, <1>r, <1>5, <1>q DEF TypeInvariant, Rest
<1>8. CASE RunCommand
  <2>1. commands' \in 0..MaxCommands
    BY <1>8, <1>6, ReceptionAssumption DEF RunCommand, Rest
  <2> QED BY <1>8, <1>3, <1>6, <1>7, <1>q, <2>1 DEF Rest, RunCommand, savedVars, localVars
<1>9. ASSUME NEW outcome \in Outcomes, AgentReturns(outcome)
      PROVE  TypeInvariant'
  BY <1>9, <1>3, <1>6, <1>7, <1>q DEF Rest, AgentReturns, worldVars
<1>10. ASSUME NEW f \in Files, EditFile(f)
       PROVE  TypeInvariant'
  <2>1. source' \in [Files -> Versions \union {Gone}]
    BY <1>10, <1>6, ReceptionAssumption DEF Rest, EditFile, Versions, Gone
  <2> QED BY <1>10, <2>1, <1>3, <1>6, <1>7, <1>q DEF Rest, EditFile, savedVars, localVars
<1>11. CASE ReuseRecord
  <2>1. PICK ref \in EqualRecords(Output) : TakeNext(ref)
    BY <1>11 DEF ReuseRecord
  <2>2. ref.id \in 1..allocated
    BY <2>1, <1>4 DEF EqualRecords
  <2>3. refs' \subseteq 1..allocated' /\ next' \in Nat \ {0}
    <3>1. ref.id \in 1..allocated'
      BY <2>2, <1>3
    <3>2. refs' = refs \union {ref.id} /\ next' = next + 1
      BY <2>1 DEF TakeNext
    <3>3. next \in Nat /\ refs \subseteq 1..allocated'
      BY <1>6, <1>7 DEF Rest
    <3>4. next' \in Nat \ {0}
      BY <3>2, <3>3
    <3>5. refs' \subseteq 1..allocated'
      BY <3>1, <3>2, <3>3, Zenon
    <3> QED BY <3>4, <3>5
  <2> QED
    BY <1>11, <2>1, <2>3, <1>6, <1>7, <1>q DEF Rest, ReuseRecord, TakeNext, savedVars, worldVars
<1>12. CASE AllocateOutput \/ FreezeOutput \/ AllocateReport \/ FreezeReport \/ RegisterReport
            \/ AcknowledgeNext \/ Done \/ UNCHANGED vars
  <2>1. UNCHANGED <<savedVars, localVars, worldVars>>
    BY <1>12 DEF AllocateOutput, FreezeOutput, AllocateReport, FreezeReport, RegisterReport,
                 AcknowledgeNext, Done, vars
  <2> QED BY <2>1, <1>3, <1>6, <1>7, <1>q DEF Rest, savedVars, localVars, worldVars
<1>13. CASE FindMissing \/ SourceChanged \/ StorageFails
  <2>1. PICK error \in Errors : FailReception(error)
    BY <1>13 DEF FindMissing, SourceChanged, StorageFails, Errors
  <2>2. UNCHANGED <<source, commands>>
    BY <1>13 DEF FindMissing, SourceChanged, StorageFails, worldVars
  <2>3. /\ attempt' = [status |-> "failed", error |-> error,
                       ids |-> attempt.ids \union {ref.id : ref \in artifacts \ before}]
        /\ at' = "report" /\ UNCHANGED <<report, next, refs, before>>
    BY <2>1 DEF FailReception, GoTo
  <2>4. attempt.ids \union {ref.id : ref \in artifacts \ before} \subseteq 1..allocated'
    BY <1>3, <1>4, <1>6 DEF Rest
  <2>5. attempt' \in [status : Statuses, error : Errors, ids : SUBSET (1..allocated')]
    BY <2>3, <2>4 DEF Statuses
  <2> QED BY <2>2, <2>3, <2>5, <1>3, <1>6, <1>7, <1>q DEF Rest
<1>14. CASE BindOutput
  <2>1. TakeNext(pending[OutputKey]) /\ UNCHANGED <<savedVars, worldVars>>
    BY <1>14 DEF BindOutput
  <2>2. pending[OutputKey].id \in 1..allocated
    BY <1>14, <1>4, OutputOfResult DEF BindOutput
  <2>3. refs' \subseteq 1..allocated' /\ next' \in Nat \ {0}
    <3>1. pending[OutputKey].id \in 1..allocated'
      BY <2>2, <1>3
    <3>2. refs' = refs \union {pending[OutputKey].id} /\ next' = next + 1
      BY <2>1 DEF TakeNext
    <3>3. next \in Nat /\ refs \subseteq 1..allocated'
      BY <1>6, <1>7 DEF Rest
    <3>4. next' \in Nat \ {0}
      BY <3>2, <3>3
    <3>5. refs' \subseteq 1..allocated'
      BY <3>1, <3>2, <3>3, Zenon
    <3> QED BY <3>4, <3>5
  <2> QED BY <2>1, <2>3, <1>6, <1>7, <1>q DEF Rest, TakeNext, savedVars, worldVars
<1>15. CASE SettleAttempt
  <2>1. /\ attempt' = [status |-> StatusOf(result.outcome), error |-> ErrorOf(result.outcome),
                       ids |-> attempt.ids \union refs]
        /\ at' \in {"finish", "report"} /\ UNCHANGED <<report, next, refs, before, worldVars>>
    BY <1>15 DEF SettleAttempt, GoTo
  <2>2. StatusOf(result.outcome) \in Statuses /\ ErrorOf(result.outcome) \in Errors
    BY DEF StatusOf, ErrorOf, Statuses, Errors
  <2>3. attempt' \in [status : Statuses, error : Errors, ids : SUBSET (1..allocated')]
    BY <2>1, <2>2, <1>3, <1>6 DEF Rest
  <2> QED BY <2>1, <2>3, <1>3, <1>6, <1>7, <1>q DEF Rest, worldVars
<1>16. CASE SettleRaises \/ ReportRefused \/ AcknowledgeRefused \/ Crash
  <2>1. UNCHANGED <<savedVars, source, commands>> /\ at' = "down" /\ next' = 1
        /\ refs' = {} /\ before' = {}
    BY <1>16 DEF SettleRaises, ReportRefused, AcknowledgeRefused, Crash, Raise, worldVars
  <2> QED BY <2>1, <1>3, <1>6, <1>7, <1>q DEF Rest, savedVars
<1>17. CASE BindReport
  <2>1. /\ at' = "consumed" /\ report' = pending[ReportKey].id /\ IsPending(ReportKey)
        /\ UNCHANGED <<attempt, next, refs, before, worldVars>>
    BY <1>17 DEF BindReport, GoTo, Recovers
  <2>2. pending[ReportKey].id \in 1..allocated
    BY <2>1, <1>4, ReportIsFact
  <2> QED BY <2>1, <2>2, <1>3, <1>6, <1>7, <1>q DEF Rest, worldVars
<1>18. CASE ConsumeResult \/ Acknowledged \/ Finish
  <2>1. at' \in {"acknowledge", "finish", "idle"}
        /\ UNCHANGED <<attempt, report, next, refs, before, worldVars>>
    BY <1>18 DEF ConsumeResult, Acknowledged, Finish, GoTo, savedVars
  <2> QED BY <2>1, <1>3, <1>6, <1>7, <1>q DEF Rest, worldVars
<1>19. CASE ResumeAttempt \/ CancelAttempt
  <2>1. /\ at' \in {"agent", "report"} /\ UNCHANGED <<report, next, refs, before, worldVars>>
        /\ \/ attempt' = [attempt EXCEPT !.status = "running"]
           \/ attempt' = [attempt EXCEPT !.status = "cancelled", !.error = "cancelled"]
    BY <1>19 DEF ResumeAttempt, CancelAttempt, GoTo
  <2>2. attempt' \in [status : Statuses, error : Errors, ids : SUBSET (1..allocated')]
    BY <2>1, <1>3, <1>6 DEF Rest, Statuses, Errors
  <2> QED BY <2>1, <2>2, <1>3, <1>6, <1>7, <1>q DEF Rest, worldVars
<1>20. CASE Recover
  <2>1. /\ at' \in {"consumed", "receive", "report", "idle"} /\ next' = 1 /\ refs' = {}
        /\ before' = artifacts /\ UNCHANGED <<report, worldVars>>
        /\ \/ attempt' = attempt
           \/ attempt' = [attempt EXCEPT !.status = "failed", !.error = "interrupted"]
    BY <1>20 DEF Recover
  <2>2. attempt' \in [status : Statuses, error : Errors, ids : SUBSET (1..allocated')]
    BY <2>1, <1>3, <1>6 DEF Rest, Statuses, Errors
  <2> QED BY <2>1, <2>2, <1>3, <1>6, <1>7, <1>q DEF Rest, worldVars
<1> QED
  BY <1>8, <1>9, <1>10, <1>11, <1>12, <1>13, <1>14, <1>15, <1>16, <1>17, <1>18, <1>19,
     <1>20 DEF Next, Working

-----------------------------------------------------------------------------
(* The Refs *)

\* What an allocation leaves: the new Ref is pending, and the others as before.
LEMMA AfterAllocation ==
  ASSUME RegistryTypes, NEW k \in Keys, NEW new, new # NoRef, ~IsPending(k),
         pending' = [pending EXCEPT ![k] = new], artifacts' = artifacts
  PROVE  /\ Trusted' = Trusted \union {new}
         /\ pending'[k] = new
         /\ \A j \in Keys : j # k => pending'[j] = pending[j]
         /\ \A j \in Keys : IsPending(j)' <=> j = k \/ IsPending(j)
         /\ \A i : Held(i)' <=> KeyOf(i) = k \/ Held(i)
<1>1. pending \in [Keys -> Refs \union {NoRef}]
  BY DEF RegistryTypes
<1>2. pending'[k] = new /\ \A j \in Keys : j # k => pending'[j] = pending[j]
  BY <1>1
<1>3. \A j \in Keys : IsPending(j)' <=> j = k \/ IsPending(j)
  BY <1>2 DEF IsPending
<1>4. \A i : Held(i)' <=> KeyOf(i) = k \/ Held(i)
  BY <1>3 DEF Held
<1>5. Trusted' = Trusted \union {new}
  BY <1>2, <1>3 DEF Trusted
<1> QED BY <1>2, <1>3, <1>4, <1>5

\* An output that is allocated gets a Ref of its own.
LEMMA OutputAllocation ==
  ASSUME IInv, OutputAllocated
  PROVE  LET new == [id |-> allocated + 1, key |-> OutputKey, bytes |-> BytesOf(Output),
                     facts |-> Output]
         IN  /\ Trusted' = Trusted \union {new}
             /\ pending'[OutputKey] = new
             /\ \A j \in Keys : j # OutputKey => pending'[j] = pending[j]
             /\ \A j \in Keys : IsPending(j)' <=> j = OutputKey \/ IsPending(j)
             /\ \A i \in Nat : Held(i)' <=> i = result.previous + next \/ Held(i)
<1> DEFINE new == [id |-> allocated + 1, key |-> OutputKey, bytes |-> BytesOf(Output),
                   facts |-> Output]
<1>1. new # NoRef /\ RegistryTypes
  <2>1. allocated \in Nat /\ RegistryTypes
    BY DEF IInv, RegistryInv, RegistryTypes
  <2>2. new.id # 0
    BY <2>1
  <2> QED BY <2>1, <2>2 DEF NoRef
<1>2. /\ OutputKey \in Keys /\ OutputKey = KeyOf(result.previous + next) /\ ~IsPending(OutputKey)
      /\ pending' = [pending EXCEPT ![OutputKey] = new] /\ artifacts' = artifacts
  BY OutputOfResult DEF OutputAllocated
<1> HIDE DEF new
<1>3. /\ Trusted' = Trusted \union {new}
      /\ pending'[OutputKey] = new
      /\ \A j \in Keys : j # OutputKey => pending'[j] = pending[j]
      /\ \A j \in Keys : IsPending(j)' <=> j = OutputKey \/ IsPending(j)
      /\ \A i : Held(i)' <=> KeyOf(i) = OutputKey \/ Held(i)
  BY <1>1, <1>2, AfterAllocation
<1>4. \A i \in Nat : KeyOf(i) = OutputKey <=> i = result.previous + next
  BY <1>2 DEF KeyOf
<1> QED BY <1>3, <1>4 DEF new

\* The report gets a Ref of its own, and no key of an output.
LEMMA ReportAllocation ==
  ASSUME IInv, ReportAllocated, AttemptFacts \subseteq Facts
  PROVE  LET new == [id |-> allocated + 1, key |-> ReportKey, bytes |-> ReportBytes,
                     facts |-> ReportFacts]
         IN  /\ Trusted' = Trusted \union {new}
             /\ pending'[ReportKey] = new
             /\ \A j \in Keys : j # ReportKey => pending'[j] = pending[j]
             /\ \A j \in Keys : IsPending(j)' <=> j = ReportKey \/ IsPending(j)
             /\ \A i \in Nat : Held(i)' <=> Held(i)
<1> DEFINE new == [id |-> allocated + 1, key |-> ReportKey, bytes |-> ReportBytes,
                   facts |-> ReportFacts]
<1>1. new # NoRef /\ RegistryTypes
  <2>1. allocated \in Nat /\ RegistryTypes
    BY DEF IInv, RegistryInv, RegistryTypes
  <2>2. new.id # 0
    BY <2>1
  <2> QED BY <2>1, <2>2 DEF NoRef
<1>2. /\ ReportKey \in Keys /\ ~IsPending(ReportKey)
      /\ pending' = [pending EXCEPT ![ReportKey] = new] /\ artifacts' = artifacts
  BY ReportIsFact DEF ReportAllocated
<1> HIDE DEF new
<1>3. /\ Trusted' = Trusted \union {new}
      /\ pending'[ReportKey] = new
      /\ \A j \in Keys : j # ReportKey => pending'[j] = pending[j]
      /\ \A j \in Keys : IsPending(j)' <=> j = ReportKey \/ IsPending(j)
      /\ \A i : Held(i)' <=> KeyOf(i) = ReportKey \/ Held(i)
  BY <1>1, <1>2, AfterAllocation
<1>4. \A i \in Nat : KeyOf(i) # ReportKey
  BY BytesDistinct
<1> QED BY <1>3, <1>4 DEF new

\* The other steps bring no Ref that was not pending before.
LEMMA NoNewRefs ==
  ASSUME IInv, OutputBound \/ ReportRegistered \/ Forgotten \/ Kept, AttemptFacts \subseteq Facts
  PROVE  /\ Trusted' \subseteq Trusted
         /\ \A k \in Keys : IsPending(k)' => IsPending(k) /\ pending'[k] = pending[k]
         /\ \A i : Held(i)' => Held(i) /\ pending'[KeyOf(i)] = pending[KeyOf(i)]
<1>1. pending \in [Keys -> Refs \union {NoRef}]
  BY DEF IInv, RegistryInv, RegistryTypes
<1>2. \A k \in Keys : IsPending(k)' => IsPending(k) /\ pending'[k] = pending[k]
  <2>1. CASE pending' = pending
    BY <2>1 DEF IsPending
  <2>2. CASE \E k \in Keys : pending' = [pending EXCEPT ![k] = NoRef]
    BY <2>2, <1>1 DEF IsPending
  <2> QED BY <2>1, <2>2 DEF OutputBound, ReportRegistered, Forgotten, Kept
<1>3. artifacts' \subseteq Trusted
  <2>1. CASE OutputBound
    <3>1. OutputKey \in Keys
      BY <2>1, OutputOfResult DEF OutputBound
    <3> QED BY <2>1, <3>1 DEF OutputBound, Trusted
  <2>2. CASE ReportRegistered
    BY <2>2, ReportIsFact DEF ReportRegistered, Trusted
  <2>3. CASE artifacts' = artifacts
    BY <2>3 DEF Trusted
  <2> QED BY <2>1, <2>2, <2>3 DEF Forgotten, Kept
<1>4. Trusted' \subseteq Trusted
  <2>1. \A k \in Keys : IsPending(k)' => pending'[k] \in Trusted
    BY <1>2 DEF Trusted
  <2> QED BY <1>3, <2>1 DEF Trusted
<1> QED BY <1>2, <1>4 DEF Held

\* Every Ref has the key and the bytes of what it names.
LEMMA RefsKept ==
  ASSUME IInv, AttemptFacts \subseteq Facts, [Next]_vars
  PROVE  RefInv'
<1>c. commands \in Nat /\ commands' \in Nat /\ 1..commands \subseteq 1..commands'
  <2>1. commands' \in Nat /\ commands \in Nat
    BY TypesKept, ReceptionAssumption DEF IInv, TypeInvariant
  <2>2. commands <= commands'
    BY <2>1, ResultStep
  <2> QED BY <2>1, <2>2
<1> DEFINE Sound(ref) ==
       \/ ref.key = ReportKey /\ ref.bytes = ReportBytes
       \/ /\ \E i \in Nat \ {0} : ref.key = KeyOf(i)
          /\ ref.facts \in Outputs
          /\ IF IsFile(ref.facts)
             THEN \E v \in Versions : ref.bytes = <<"file", ref.facts.path, v>>
             ELSE /\ ref.bytes = ref.facts.bytes
                  /\ \E n \in 1..commands' : ref.bytes = <<"record", n>>
<1>1. /\ \A ref \in Trusted : Sound(ref)
      /\ \A k \in Keys : IsPending(k) => pending[k].key = k
  BY <1>c DEF IInv, RefInv
<1>2. CASE OutputAllocated
  <2> DEFINE new == [id |-> allocated + 1, key |-> OutputKey, bytes |-> BytesOf(Output),
                     facts |-> Output]
  <2>1. /\ Trusted' = Trusted \union {new} /\ pending'[OutputKey] = new
        /\ \A j \in Keys : j # OutputKey => pending'[j] = pending[j]
        /\ \A j \in Keys : IsPending(j)' <=> j = OutputKey \/ IsPending(j)
    BY <1>2, OutputAllocation
  <2>2. /\ Receiving /\ Readable(Output) /\ commands' = commands
    BY <1>2 DEF OutputAllocated, worldVars
  <2>3. OutputKey = KeyOf(result.previous + next) /\ result.previous + next \in Nat \ {0}
        /\ Output \in Outputs
    BY <2>2, OutputOfResult
  <2>4. IF IsFile(Output)
        THEN \E v \in Versions : BytesOf(Output) = <<"file", Output.path, v>>
        ELSE /\ BytesOf(Output) = Output.bytes
             /\ \E n \in 1..commands' : BytesOf(Output) = <<"record", n>>
    BY <2>2, OutputBytes
  <2>5. Sound(new)
    <3>1. new.key = OutputKey /\ new.facts = Output /\ new.bytes = BytesOf(Output)
      OBVIOUS
    <3> HIDE DEF new
    <3> QED BY <2>3, <2>4, <3>1
  <2>6. \A ref \in Trusted' : Sound(ref)
    BY <1>1, <2>1, <2>5
  <2>7. \A k \in Keys : IsPending(k)' => pending'[k].key = k
    BY <1>1, <2>1
  <2> HIDE DEF new
  <2> QED BY <2>6, <2>7 DEF RefInv
<1>3. CASE ReportAllocated
  <2> DEFINE new == [id |-> allocated + 1, key |-> ReportKey, bytes |-> ReportBytes,
                     facts |-> ReportFacts]
  <2>1. /\ Trusted' = Trusted \union {new} /\ pending'[ReportKey] = new
        /\ \A j \in Keys : j # ReportKey => pending'[j] = pending[j]
        /\ \A j \in Keys : IsPending(j)' <=> j = ReportKey \/ IsPending(j)
    BY <1>3, ReportAllocation
  <2>2. Sound(new)
    OBVIOUS
  <2>3. \A ref \in Trusted' : Sound(ref)
    BY <1>1, <2>1, <2>2
  <2>4. \A k \in Keys : IsPending(k)' => pending'[k].key = k
    BY <1>1, <2>1
  <2> HIDE DEF new
  <2> QED BY <2>3, <2>4 DEF RefInv
<1>4. CASE OutputBound \/ ReportRegistered \/ Forgotten \/ Kept
  <2>1. /\ Trusted' \subseteq Trusted
        /\ \A k \in Keys : IsPending(k)' => IsPending(k) /\ pending'[k] = pending[k]
    BY <1>4, NoNewRefs
  <2>2. /\ \A ref \in Trusted' : Sound(ref)
        /\ \A k \in Keys : IsPending(k)' => pending'[k].key = k
    BY <1>1, <2>1
  <2> QED BY <2>2 DEF RefInv
<1> QED BY <1>2, <1>3, <1>4, RegistryStep

\* An Attempt that is undisturbed after a step was undisturbed before it.
LEMMA Disturbed ==
  ASSUME IInv, [Next]_vars, Undisturbed'
  PROVE  Undisturbed /\ source' = source /\ ~StorageFails
<1>1. faults' = faults /\ ~StorageFails
  BY FaultsBounded, ReceptionAssumption DEF Undisturbed, IInv, TypeInvariant, StorageFails
<1>2. source \in [Files -> Versions \union {Gone}] /\ MaxEdits \in Nat
  BY ReceptionAssumption DEF IInv, TypeInvariant
<1>3. ASSUME NEW f \in Files, EditFile(f)
      PROVE  FALSE
  <2>1. source'[f] = 0 /\ source[f] # Gone /\ source[f] \in Versions
    BY <1>2, <1>3 DEF Undisturbed, EditFile
  <2>2. source'[f] = IF source[f] < MaxEdits THEN source[f] + 1 ELSE Gone
    BY <1>2, <1>3 DEF EditFile
  <2> QED BY <1>2, <2>1, <2>2 DEF Versions, Gone
<1>4. source' = source
  <2>1. CASE \/ RunCommand \/ \E outcome \in Outcomes : AgentReturns(outcome)
             \/ ReuseRecord \/ FindMissing \/ SourceChanged
             \/ SettleAttempt \/ SettleRaises \/ BindReport \/ ReportRefused \/ ConsumeResult
             \/ AcknowledgeRefused \/ Acknowledged \/ Finish \/ Recover
             \/ ResumeAttempt \/ CancelAttempt \/ Crash \/ Done \/ UNCHANGED vars
    BY <2>1 DEF RunCommand, AgentReturns, ReuseRecord, FindMissing, SourceChanged,
      SettleAttempt, SettleRaises, BindReport, ReportRefused, ConsumeResult,
      AcknowledgeRefused, Acknowledged, Finish, Recover, ResumeAttempt, CancelAttempt,
      Crash, Done, vars, worldVars
  <2>2. CASE \/ AllocateOutput \/ FreezeOutput \/ BindOutput \/ AllocateReport \/ FreezeReport
             \/ RegisterReport \/ AcknowledgeNext
    BY <2>2 DEF AllocateOutput, FreezeOutput, BindOutput, AllocateReport, FreezeReport,
      RegisterReport, AcknowledgeNext, worldVars
  <2> QED BY <2>1, <2>2, <1>1, <1>3 DEF Next, Working
<1> QED BY <1>1, <1>4 DEF Undisturbed

\* What is registered of an undisturbed Attempt is as the Agent left it.
LEMMA FilesKept ==
  ASSUME IInv, AttemptFacts \subseteq Facts, [Next]_vars
  PROVE  FilesInv'
<1> SUFFICES ASSUME Undisturbed',
                    NEW ref \in Trusted', ref.key # ReportKey, IsFile(ref.facts)
             PROVE  ref.bytes = <<"file", ref.facts.path, 0>>
  BY DEF FilesInv
<1>1. Undisturbed
  BY Disturbed
<1>2. CASE ref \in Trusted
  BY <1>1, <1>2 DEF IInv, FilesInv
<1>3. CASE OutputAllocated /\ ref \notin Trusted
  <2>1. ref.facts = Output /\ ref.bytes = BytesOf(Output)
    BY <1>3, OutputAllocation
  <2>2. Output \in FileOutputs
    BY <1>3, <2>1, OutputOfResult DEF OutputAllocated, Outputs, FileOutputs, RecordOutputs, IsFile
  <2>3. source[Output.path] = 0
    BY <1>1, <2>2 DEF Undisturbed, FileOutputs
  <2> QED BY <2>1, <2>3 DEF BytesOf
<1>4. CASE ReportAllocated /\ ref \notin Trusted
  BY <1>4, ReportAllocation
<1> QED BY <1>2, <1>3, <1>4, RegistryStep, NoNewRefs

\* The report that is bound stays, and only binding it changes report.
LEMMA ReportStep ==
  ASSUME IInv, [Next]_vars
  PROVE  \/ report' = report
         \/ BindReport /\ report = 0 /\ report' = pending[ReportKey].id
<1>1. CASE \/ RunCommand \/ \E outcome \in Outcomes : AgentReturns(outcome)
           \/ ReuseRecord \/ FindMissing \/ SourceChanged \/ StorageFails
           \/ SettleAttempt \/ SettleRaises \/ ReportRefused \/ ConsumeResult
           \/ AcknowledgeRefused \/ Acknowledged \/ Finish \/ Recover
           \/ ResumeAttempt \/ CancelAttempt \/ (\E f \in Files : EditFile(f))
           \/ Crash \/ Done \/ UNCHANGED vars
  <2>1. report' = report
    BY <1>1 DEF RunCommand, AgentReturns, ReuseRecord, FindMissing, SourceChanged, StorageFails,
      FailReception, SettleAttempt, SettleRaises, ReportRefused, ConsumeResult,
      AcknowledgeRefused, Acknowledged, Finish, Recover, ResumeAttempt, CancelAttempt, EditFile,
      Crash, Done, vars, savedVars
  <2> QED BY <2>1
<1>2. CASE \/ AllocateOutput \/ FreezeOutput \/ BindOutput \/ AllocateReport \/ FreezeReport
           \/ RegisterReport \/ AcknowledgeNext
  <2>1. report' = report
    BY <1>2 DEF AllocateOutput, FreezeOutput, BindOutput, AllocateReport, FreezeReport,
      RegisterReport, AcknowledgeNext, savedVars
  <2> QED BY <2>1
<1>3. CASE BindReport
  BY <1>3 DEF BindReport
<1> QED BY <1>1, <1>2, <1>3 DEF Next, Working

\* The record of some commands gets one Ref.
LEMMA RecordsOnce ==
  ASSUME IInv, AttemptFacts \subseteq Facts, OutputAllocated, NEW ref \in Trusted,
         BytesOf(Output) \in RecordBytes
  PROVE  ref.bytes # BytesOf(Output)
<1> SUFFICES ASSUME ref.bytes = BytesOf(Output)
             PROVE  FALSE
  OBVIOUS
<1>1. /\ Receiving /\ Readable(Output) /\ EqualRecords(Output) = {} /\ ~IsPending(OutputKey)
      /\ report = 0
  BY DEF OutputAllocated
<1>2. /\ OutputKey = KeyOf(result.previous + next) /\ result.previous + next \in Nat
      /\ Output \in Outputs /\ next \in 1..Last /\ Output = result.outputs[next]
  BY <1>1, OutputOfResult DEF Output
<1>3. ~IsFile(Output)
  BY <1>1, BytesDistinct, OutputBytes
<1>4. next = 1 /\ BytesOf(Output) = Output.bytes
  BY <1>1, <1>3, OutputBytes
<1>5. ref.key # ReportKey /\ ref.facts \in Outputs /\ ~IsFile(ref.facts) /\ ref.bytes = ref.facts.bytes
  BY RecordOfRef
<1>6. ref.facts = Output
  BY <1>2, <1>3, <1>4, <1>5 DEF Outputs, FileOutputs, RecordOutputs, IsFile
<1>7. ref \notin artifacts
  BY <1>1, <1>3, <1>6 DEF EqualRecords
<1>8. PICK k \in Keys : IsPending(k) /\ ref = pending[k]
  BY <1>7 DEF Trusted
<1>9. PICK i \in Nat \ {0} : k = KeyOf(i)
  <2>1. ref.key = k
    BY <1>8 DEF IInv, RefInv
  <2> QED BY <2>1, <1>5 DEF IInv, RefInv
<1>10. Held(i)
  BY <1>8, <1>9 DEF Held
<1>11. Returned
  BY <1>1 DEF Receiving, IInv, PointInv
<1>12. /\ result.previous \in Nat /\ Last \in Nat
       /\ \A j \in 1..Last : ~IsFile(result.outputs[j]) => j = 1
  BY DEF IInv, ResultInv, Last
<1>13. CASE i <= result.previous
  BY <1>1, <1>7, <1>8, <1>9, <1>10, <1>11, <1>13 DEF IInv, ResultKeysInv, IsBound
<1>14. CASE ~(i <= result.previous)
  <2>1. i <= result.previous + Last /\ pending[KeyOf(i)].facts = result.outputs[i - result.previous]
    BY <1>1, <1>10, <1>11, <1>14 DEF IInv, ResultKeysInv
  <2>2. i - result.previous \in 1..Last
    BY <2>1, <1>12, <1>14
  <2>3. ~IsFile(result.outputs[i - result.previous])
    BY <2>1, <1>3, <1>6, <1>8, <1>9
  <2>4. i = result.previous + next
    BY <2>2, <2>3, <1>4, <1>12
  <2> QED BY <2>4, <1>1, <1>2, <1>8, <1>9
<1> QED BY <1>13, <1>14

\* No allocation is forgotten too early, no key is bound twice, no record registered twice.
LEMMA AllocationsKept ==
  ASSUME IInv, AttemptFacts \subseteq Facts, [Next]_vars
  PROVE  AllocationsInv'
<1>1. /\ report = 0 => \A ref \in artifacts : pending[ref.key] = ref
      /\ \A r1, r2 \in artifacts : r1.key = r2.key => r1 = r2
      /\ \A r1, r2 \in Trusted : r1.bytes \in RecordBytes /\ r1.bytes = r2.bytes => r1 = r2
      /\ report' = 0 => report = 0
  BY ReportStep DEF IInv, AllocationsInv
<1>2. /\ \A ref \in artifacts : ref.key \in Keys /\ ref # NoRef
      /\ artifacts \subseteq Trusted
  BY TrustedIds, NoRefIsNoRef DEF IInv, Refs
<1>3. \A k \in Keys : IsPending(k) => pending[k].key = k
  BY DEF IInv, RefInv
<1>4. CASE OutputAllocated
  <2> DEFINE new == [id |-> allocated + 1, key |-> OutputKey, bytes |-> BytesOf(Output),
                     facts |-> Output]
  <2>1. /\ Trusted' = Trusted \union {new} /\ artifacts' = artifacts
        /\ \A j \in Keys : j # OutputKey => pending'[j] = pending[j]
        /\ ~IsPending(OutputKey)
    BY <1>4, OutputAllocation DEF OutputAllocated
  <2>2. \A ref \in Trusted : ref.bytes \in RecordBytes => ref.bytes # new.bytes
    <3>1. new.bytes = BytesOf(Output)
      OBVIOUS
    <3> HIDE DEF new
    <3> QED BY <3>1, <1>4, RecordsOnce
  <2> HIDE DEF new
  <2>3. \A r1, r2 \in Trusted' : r1.bytes \in RecordBytes /\ r1.bytes = r2.bytes => r1 = r2
    BY <2>1, <2>2, <1>1
  <2>4. report' = 0 => \A ref \in artifacts' : pending'[ref.key] = ref
    BY <2>1, <1>1, <1>2 DEF IsPending
  <2> QED BY <2>1, <2>3, <2>4, <1>1 DEF AllocationsInv
<1>5. CASE ReportAllocated
  <2> DEFINE new == [id |-> allocated + 1, key |-> ReportKey, bytes |-> ReportBytes,
                     facts |-> ReportFacts]
  <2>1. /\ Trusted' = Trusted \union {new} /\ artifacts' = artifacts
        /\ \A j \in Keys : j # ReportKey => pending'[j] = pending[j]
        /\ ~IsPending(ReportKey)
    BY <1>5, ReportAllocation DEF ReportAllocated
  <2>2. new.bytes \notin RecordBytes
    BY BytesDistinct
  <2> HIDE DEF new
  <2>3. \A r1, r2 \in Trusted' : r1.bytes \in RecordBytes /\ r1.bytes = r2.bytes => r1 = r2
    BY <2>1, <2>2, <1>1
  <2>4. report' = 0 => \A ref \in artifacts' : pending'[ref.key] = ref
    BY <2>1, <1>1, <1>2 DEF IsPending
  <2> QED BY <2>1, <2>3, <2>4, <1>1 DEF AllocationsInv
<1>6. CASE OutputBound \/ ReportRegistered
  <2>1. PICK k \in Keys : IsPending(k) /\ artifacts' = artifacts \union {pending[k]}
    BY <1>6, OutputOfResult, ReportIsFact DEF OutputBound, ReportRegistered
  <2>2. report = 0 /\ pending' = pending
    BY <1>6 DEF OutputBound, ReportRegistered, Receiving, IInv, PointInv
  <2>3. \A ref \in artifacts' : pending'[ref.key] = ref
    BY <2>1, <2>2, <1>1, <1>3
  <2>4. Trusted' \subseteq Trusted
    BY <1>6, NoNewRefs
  <2>5. /\ \A r1, r2 \in artifacts' : r1.key = r2.key => r1 = r2
        /\ \A r1, r2 \in Trusted' : r1.bytes \in RecordBytes /\ r1.bytes = r2.bytes => r1 = r2
    BY <2>3, <2>4, <1>1
  <2> QED BY <2>3, <2>5 DEF AllocationsInv
<1>7. CASE Forgotten
  <2>1. report # 0 /\ report' = report /\ artifacts' = artifacts
    BY <1>7 DEF Forgotten, savedVars, IInv, PointInv
  <2>2. Trusted' \subseteq Trusted
    BY <1>7, NoNewRefs
  <2> QED BY <2>1, <2>2, <1>1 DEF AllocationsInv
<1>8. CASE Kept
  <2>1. Trusted' \subseteq Trusted
    BY <1>8, NoNewRefs
  <2> QED BY <2>1, <1>1, <1>8 DEF AllocationsInv, Kept
<1> QED BY <1>4, <1>5, <1>6, <1>7, <1>8, RegistryStep

\* The allocations under the keys of the result are those of its outputs.
LEMMA ResultKeysKept ==
  ASSUME IInv, AttemptFacts \subseteq Facts, [Next]_vars
  PROVE  ResultKeysInv'
<1> SUFFICES ASSUME Returned', report' = 0, NEW i \in Nat, Held(i)'
             PROVE  IF i <= result'.previous THEN IsBound(pending[KeyOf(i)])'
                    ELSE /\ i <= result'.previous + Len(result'.outputs)
                         /\ pending'[KeyOf(i)].facts = result'.outputs[i - result'.previous]
  BY DEF ResultKeysInv, Last
<1>1. report = 0
  BY ReportStep
<1>2. CASE \E outcome \in Outcomes : AgentReturns(outcome)
  <2>1. PICK outcome \in Outcomes : AgentReturns(outcome)
    BY <1>2
  <2>2. UNCHANGED registryVars /\ at = "agent" /\ result'.previous = Cardinality(attempt.ids)
    BY <2>1, ReturnedResult DEF AgentReturns
  <2>3. ~Ended /\ ~New
    BY <2>2 DEF IInv, PointInv, Ended, New
  <2>4. Held(i) /\ pending' = pending /\ artifacts' = artifacts
    BY <2>2 DEF registryVars, Held, IsPending
  <2> QED BY <2>2, <2>3, <2>4 DEF IInv, WaitInv, IsBound
<1>3. CASE result' = result
  <2>1. Returned /\ result.previous \in Nat /\ Last \in Nat /\ Len(result'.outputs) = Last
    BY <1>3 DEF Returned, IInv, ResultInv, Last
  <2>2. ASSUME Held(i), pending'[KeyOf(i)] = pending[KeyOf(i)], artifacts \subseteq artifacts'
        PROVE  IF i <= result'.previous THEN IsBound(pending[KeyOf(i)])'
               ELSE /\ i <= result'.previous + Len(result'.outputs)
                    /\ pending'[KeyOf(i)].facts = result'.outputs[i - result'.previous]
    BY <1>1, <1>3, <2>1, <2>2 DEF IInv, ResultKeysInv, IsBound
  <2>3. CASE OutputAllocated /\ i = result.previous + next
    <3>1. /\ pending'[OutputKey].facts = Output /\ OutputKey = KeyOf(result.previous + next)
          /\ next \in 1..Last /\ Output = result.outputs[next]
      BY <2>3, OutputAllocation, OutputOfResult DEF OutputAllocated, Output
    <3> QED BY <2>1, <2>3, <3>1, <1>3
  <2>4. CASE OutputAllocated /\ i # result.previous + next
    <3>1. Held(i) /\ KeyOf(i) # OutputKey /\ KeyOf(i) \in Keys
      BY <2>4, OutputAllocation, OutputOfResult DEF Held, KeyOf, OutputAllocated
    <3>2. pending'[KeyOf(i)] = pending[KeyOf(i)] /\ artifacts' = artifacts
      BY <2>4, <3>1, OutputAllocation DEF OutputAllocated
    <3> QED BY <2>2, <3>1, <3>2
  <2>5. CASE ReportAllocated
    <3>1. Held(i) /\ KeyOf(i) # ReportKey /\ KeyOf(i) \in Keys
      BY <2>5, ReportAllocation, BytesDistinct DEF Held
    <3>2. pending'[KeyOf(i)] = pending[KeyOf(i)] /\ artifacts' = artifacts
      BY <2>5, <3>1, ReportAllocation DEF ReportAllocated
    <3> QED BY <2>2, <3>1, <3>2
  <2>6. CASE OutputBound \/ ReportRegistered \/ Forgotten \/ Kept
    <3>1. Held(i) /\ pending'[KeyOf(i)] = pending[KeyOf(i)]
      BY <2>6, NoNewRefs
    <3>2. artifacts \subseteq artifacts'
      BY <2>6 DEF OutputBound, ReportRegistered, Forgotten, Kept
    <3> QED BY <2>2, <3>1, <3>2
  <2> QED BY <2>3, <2>4, <2>5, <2>6, RegistryStep
<1>4. CASE result' = NoResult
  BY <1>4 DEF Returned
<1> QED BY <1>2, <1>3, <1>4, ResultStep

-----------------------------------------------------------------------------
(* What is concluded from a result *)

\* The Attempt is changed by the receipt of a result, or where no result is saved.
LEMMA AttemptStep ==
  ASSUME IInv, [Next]_vars
  PROVE  \/ attempt' = attempt
         \/ /\ UNCHANGED <<registryVars, result, report>> /\ report = 0
            /\ \/ FindMissing \/ SourceChanged \/ StorageFails
               \/ SettleAttempt \/ ResumeAttempt \/ CancelAttempt
               \/ /\ ~Returned /\ attempt.status = "running"
                  /\ attempt' = [attempt EXCEPT !.status = "failed", !.error = "interrupted"]
<1>1. CASE \/ RunCommand \/ \E outcome \in Outcomes : AgentReturns(outcome)
           \/ ReuseRecord \/ SettleRaises \/ ReportRefused \/ ConsumeResult
           \/ AcknowledgeRefused \/ Acknowledged \/ Finish \/ BindReport
           \/ (\E f \in Files : EditFile(f)) \/ Crash \/ Done \/ UNCHANGED vars
  <2>1. attempt' = attempt
    BY <1>1 DEF RunCommand, AgentReturns, ReuseRecord, SettleRaises, ReportRefused, ConsumeResult,
      AcknowledgeRefused, Acknowledged, Finish, BindReport, EditFile, Crash, Done, vars, savedVars
  <2> QED BY <2>1
<1>2. CASE \/ AllocateOutput \/ FreezeOutput \/ BindOutput \/ AllocateReport \/ FreezeReport
           \/ RegisterReport \/ AcknowledgeNext
  <2>1. attempt' = attempt
    BY <1>2 DEF AllocateOutput, FreezeOutput, BindOutput, AllocateReport, FreezeReport,
      RegisterReport, AcknowledgeNext, savedVars
  <2> QED BY <2>1
<1>3. CASE FindMissing \/ SourceChanged \/ StorageFails \/ SettleAttempt \/ ResumeAttempt
           \/ CancelAttempt
  <2>1. UNCHANGED <<registryVars, result, report>>
    BY <1>3 DEF FindMissing, SourceChanged, StorageFails, FailReception, SettleAttempt,
      ResumeAttempt, CancelAttempt
  <2>2. at = "receive" \/ (at = "idle" /\ attempt.status = "waits")
    BY <1>3 DEF FindMissing, SourceChanged, StorageFails, SettleAttempt, Received, Receiving,
      Unfrozen, ResumeAttempt, CancelAttempt
  <2>3. report = 0
    BY <2>2 DEF IInv, PointInv, Ended
  <2> QED BY <1>3, <2>1, <2>3
<1>4. CASE Recover
  <2>1. UNCHANGED <<registryVars, result, report>>
    BY <1>4 DEF Recover
  <2>2. \/ attempt' = attempt
        \/ /\ ~Returned /\ attempt.status = "running"
           /\ attempt' = [attempt EXCEPT !.status = "failed", !.error = "interrupted"]
    BY <1>4 DEF Recover
  <2>3. attempt.status = "running" => report = 0
    BY DEF IInv, PointInv, Ended
  <2> QED BY <2>1, <2>2, <2>3
<1> QED BY <1>1, <1>2, <1>3, <1>4 DEF Next, Working

\* The artifacts an output was received as stay.
LEMMA RefsOfStay ==
  ASSUME IInv, AttemptFacts \subseteq Facts, [Next]_vars, result' = result, report = 0,
         NEW i \in 1..Last, RefsOf(i) # {}
  PROVE  RefsOf(i) \subseteq RefsOf(i)'
<1>1. PICK j \in Nat : j = result.previous + i
  BY DEF IInv, ResultInv, Last
<1>2. artifacts \subseteq artifacts'
  BY RegistryStep, RegistryGrows DEF IInv
<1>3. ASSUME Held(j)' <=> Held(j), Held(j) => pending'[KeyOf(j)] = pending[KeyOf(j)]
      PROVE  RefsOf(i) \subseteq RefsOf(i)'
  <2>1. CASE Held(j)
    BY <2>1, <1>1, <1>2, <1>3 DEF RefsOf
  <2>2. CASE ~Held(j)
    <3>1. EqualRecords(result.outputs[i]) \subseteq EqualRecords(result.outputs[i])'
      BY <1>2 DEF EqualRecords, BytesOf
    <3> QED BY <2>2, <1>1, <1>3, <3>1 DEF RefsOf
  <2> QED BY <2>1, <2>2
<1>4. CASE OutputAllocated
  <2>1. /\ next \in 1..Last
        /\ Held(result.previous + next) <=> IsPending(OutputKey)
        /\ OutputKey = KeyOf(result.previous + next) /\ Output = result.outputs[next]
    BY <1>4, OutputOfResult DEF OutputAllocated, Output
  <2>2. i # next
    BY <1>4, <2>1, <1>1 DEF OutputAllocated, RefsOf
  <2>3. j # result.previous + next /\ KeyOf(j) # OutputKey
    <3>1. j # result.previous + next
      <4>1. i \in Nat /\ next \in Nat /\ result.previous \in Nat
        BY <2>1 DEF IInv, ResultInv, Last
      <4> QED BY <1>1, <2>2, <4>1
    <3> QED BY <3>1, <2>1 DEF KeyOf
  <2>4. Held(j)' <=> Held(j)
    BY <1>1, <1>4, <2>3, OutputAllocation
  <2>5. Held(j) => pending'[KeyOf(j)] = pending[KeyOf(j)]
    BY <1>4, <2>3, OutputAllocation DEF Held
  <2> QED BY <1>3, <2>4, <2>5
<1>5. CASE ReportAllocated
  <2>1. Held(j)' <=> Held(j)
    BY <1>1, <1>5, ReportAllocation
  <2>2. Held(j) => pending'[KeyOf(j)] = pending[KeyOf(j)]
    BY <1>1, <1>5, ReportAllocation, BytesDistinct DEF Held
  <2> QED BY <1>3, <2>1, <2>2
<1>6. CASE OutputBound \/ ReportRegistered \/ Kept
  <2>1. pending' = pending
    BY <1>6 DEF OutputBound, ReportRegistered, Kept
  <2> QED BY <1>3, <2>1 DEF Held, IsPending
<1>7. ~Forgotten
  BY DEF Forgotten, IInv, PointInv
<1> QED BY <1>4, <1>5, <1>6, <1>7, RegistryStep

\* Every artifact but the report is pending under a key of an output until the report is
\* bound.
LEMMA ArtifactHeld ==
  ASSUME IInv, report = 0, NEW ref \in artifacts, ref.key # ReportKey
  PROVE  \E i \in Nat : ref.key = KeyOf(i) /\ Held(i) /\ pending[KeyOf(i)] = ref
<1>1. ref \in Trusted /\ ref \in Refs /\ pending[ref.key] = ref
  BY TrustedIds DEF IInv, AllocationsInv
<1>2. PICK i \in Nat \ {0} : ref.key = KeyOf(i)
  BY <1>1 DEF IInv, RefInv
<1>3. Held(i)
  BY <1>1, <1>2, NoRefIsNoRef DEF Held, IsPending, Refs
<1> QED BY <1>1, <1>2, <1>3

\* What an output was received as is an artifact; the record's is a record.
LEMMA ReceivedRef ==
  ASSUME IInv, Returned, report = 0, NEW i \in 1..Last, NEW ref \in RefsOf(i)
  PROVE  /\ ref \in artifacts
         /\ ~IsFile(result.outputs[i]) => ref.bytes \in RecordBytes
<1>1. result.previous \in Nat /\ Last \in Nat
  BY DEF IInv, ResultInv, Last
<1>2. ref \in artifacts
  BY DEF RefsOf, EqualRecords
<1>3. ASSUME ~IsFile(result.outputs[i]) PROVE ref.bytes \in RecordBytes
  <2>1. ref \in Trusted
    BY <1>2 DEF Trusted
  <2>2. ref.facts = result.outputs[i] /\ ref.key # ReportKey
    <3>1. CASE Held(result.previous + i)
      <4> DEFINE j == result.previous + i
      <4>1. ref = pending[KeyOf(j)] /\ Held(j)
        BY <3>1 DEF RefsOf
      <4>2. j \in Nat /\ ~(j <= result.previous) /\ j - result.previous = i
        BY <1>1
      <4> HIDE DEF j
      <4>3. ref.facts = result.outputs[i]
        BY <4>1, <4>2 DEF IInv, ResultKeysInv
      <4>4. ref.key = KeyOf(j)
        BY <4>1 DEF IInv, RefInv, Held
      <4> QED BY <4>2, <4>3, <4>4, BytesDistinct
    <3>2. CASE ~Held(result.previous + i)
      <4>1. ref.facts = result.outputs[i] /\ ref.bytes = result.outputs[i].bytes
        BY <1>3, <3>2 DEF RefsOf, EqualRecords, BytesOf
      <4>2. ref.bytes # ReportBytes
        BY <1>3, <4>1 DEF IInv, ResultInv, ReportBytes
      <4> QED BY <2>1, <4>1, <4>2, BytesDistinct DEF IInv, RefInv
    <3> QED BY <3>1, <3>2
  <2>3. PICK n \in 1..commands : ref.bytes = <<"record", n>>
    BY <2>1, <2>2, <1>3 DEF IInv, RefInv
  <2>4. commands \in 0..MaxCommands /\ MaxCommands \in Nat
    BY ReceptionAssumption DEF IInv, TypeInvariant
  <2> QED BY <2>3, <2>4 DEF RecordBytes
<1> QED BY <1>2, <1>3

\* An Attempt that waits lists what its result handed over: its keys stay below the number
\* of listed artifacts.
LEMMA WaitSettled ==
  ASSUME IInv, SettleAttempt, result.outcome = "waits"
  PROVE  /\ \A id \in attempt'.ids : \E ref \in artifacts : ref.id = id /\ ref.bytes \in RecordBytes
         /\ \A i \in Nat : Held(i) =>
              /\ i <= Cardinality(attempt'.ids) /\ IsBound(pending[KeyOf(i)])
              /\ pending[KeyOf(i)].id \in attempt'.ids
<1>1. /\ at = "receive" /\ next > Last /\ ~Ended /\ attempt'.ids = attempt.ids \union refs
  BY DEF SettleAttempt, Received, Reopens, StatusOf, Last
<1>2. /\ Returned /\ report = 0 /\ next = Last + 1 /\ next - 1 = Last
      /\ result.previous \in Nat /\ Last \in Nat /\ Last <= 1
      /\ \A i \in 1..Last : ~IsFile(result.outputs[i])
  BY <1>1 DEF IInv, PointInv, ResultInv, TypeInvariant, Last
<1>3. /\ \A i \in 1..Last : \E ref \in RefsOf(i) : ref.id \in refs
      /\ \A id \in refs : \E i \in 1..Last : \E ref \in RefsOf(i) : ref.id = id
  BY <1>1, <1>2 DEF IInv, ReceiveInv
<1>4. \A id \in refs : \E ref \in artifacts : ref.id = id /\ ref.bytes \in RecordBytes
  <2> SUFFICES ASSUME NEW id \in refs
               PROVE  \E ref \in artifacts : ref.id = id /\ ref.bytes \in RecordBytes
    OBVIOUS
  <2>1. PICK i \in 1..Last : \E ref \in RefsOf(i) : ref.id = id
    BY <1>3
  <2>2. PICK ref \in RefsOf(i) : ref.id = id
    BY <2>1
  <2> QED BY <2>2, <1>2, ReceivedRef
<1>5. \A id \in attempt'.ids : \E ref \in artifacts : ref.id = id /\ ref.bytes \in RecordBytes
  BY <1>1, <1>4 DEF IInv, WaitInv
<1>6. /\ IsFiniteSet(attempt.ids) /\ Cardinality(attempt.ids) \in Nat
      /\ IsFiniteSet(attempt'.ids) /\ Cardinality(attempt'.ids) \in Nat
      /\ Cardinality(attempt.ids) <= Cardinality(attempt'.ids)
  <2>1. refs \subseteq 1..allocated /\ allocated \in Nat /\ attempt.ids \subseteq 1..allocated
    BY DEF IInv, TypeInvariant, RegistryTypes
  <2>2. IsFiniteSet(1..allocated)
    BY <2>1, FS_Interval
  <2>3. attempt'.ids \subseteq 1..allocated
    BY <2>1, <1>1, Zenon
  <2>4. IsFiniteSet(attempt'.ids)
    BY <2>2, <2>3, FS_Subset
  <2>5. attempt.ids \in SUBSET attempt'.ids
    BY <1>1
  <2> QED BY <2>4, <2>5, FS_Subset, FS_CardinalityType
<1>7. ASSUME NEW i \in Nat, Held(i)
      PROVE  /\ i <= Cardinality(attempt'.ids) /\ IsBound(pending[KeyOf(i)])
             /\ pending[KeyOf(i)].id \in attempt'.ids
  <2>1. CASE ~New
    BY <2>1, <1>1, <1>6, <1>7 DEF IInv, WaitInv
  <2>2. CASE New
    <3>1. /\ result.previous = Cardinality(attempt.ids)
          /\ pending[KeyOf(i)].id \in attempt.ids <=> i <= result.previous
      BY <2>2, <1>7 DEF IInv, WaitInv
    <3>2. CASE i <= result.previous
      BY <3>1, <3>2, <1>1, <1>2, <1>6, <1>7 DEF IInv, ResultKeysInv
    <3>3. CASE ~(i <= result.previous)
      <4>1. i <= result.previous + Last
        BY <3>3, <1>2, <1>7 DEF IInv, ResultKeysInv
      <4>2. Last = 1 /\ i = result.previous + 1
        BY <4>1, <3>3, <1>2
      <4>3. PICK ref \in RefsOf(1) : ref.id \in refs
        BY <4>2, <1>3
      <4>4. ref = pending[KeyOf(i)] /\ ref \in artifacts
        BY <4>2, <4>3, <1>7 DEF RefsOf
      <4>5. ref.id \notin attempt.ids /\ ref.id \in attempt'.ids
        BY <4>3, <4>4, <3>1, <3>3, <1>1
      <4>6. /\ IsFiniteSet(attempt.ids \union {ref.id})
            /\ Cardinality(attempt.ids \union {ref.id}) = Cardinality(attempt.ids) + 1
        BY <4>5, <1>6, FS_AddElement
      <4>7. attempt.ids \union {ref.id} \in SUBSET attempt'.ids
        BY <4>3, <1>1
      <4>8. Cardinality(attempt.ids \union {ref.id}) <= Cardinality(attempt'.ids)
        BY <4>7, <1>6, FS_Subset
      <4> QED BY <4>2, <4>4, <4>5, <4>6, <4>8, <3>1 DEF IsBound
    <3> QED BY <3>2, <3>3
  <2> QED BY <2>1, <2>2
<1> QED BY <1>5, <1>7

\* An Attempt that goes on has listed what it was handed, under keys of its own.
LEMMA WaitKept ==
  ASSUME IInv, AttemptFacts \subseteq Facts, [Next]_vars
  PROVE  WaitInv'
<1> DEFINE Listed == \A id \in attempt.ids :
             \E ref \in artifacts : ref.id = id /\ ref.bytes \in RecordBytes
           Below == \A i \in Nat : Held(i) =>
             /\ i <= Cardinality(attempt.ids) /\ IsBound(pending[KeyOf(i)])
             /\ pending[KeyOf(i)].id \in attempt.ids
           Split == /\ result.previous = Cardinality(attempt.ids)
                    /\ \A i \in Nat : Held(i) =>
                         (pending[KeyOf(i)].id \in attempt.ids <=> i <= result.previous)
<1>1. (~Ended => Listed) /\ (~Ended /\ ~New => Below) /\ (New => Split)
  BY DEF IInv, WaitInv
<1>2. ASSUME ~Ended' => Listed', ~Ended' /\ ~New' => Below', New' => Split'
      PROVE  WaitInv'
  BY <1>2 DEF WaitInv
<1>3. ASSUME Ended' PROVE WaitInv'
  BY <1>3 DEF WaitInv, New, Ended
<1>4. ASSUME UNCHANGED registryVars, Listed, Below, attempt'.ids = attempt.ids, ~New'
      PROVE  WaitInv'
  <2>1. Listed' /\ Below'
    BY <1>4 DEF registryVars, Held, IsPending, IsBound
  <2> QED BY <1>2, <1>4, <2>1
<1>5. CASE attempt' = attempt /\ \E outcome \in Outcomes : AgentReturns(outcome)
  <2>1. PICK outcome \in Outcomes : AgentReturns(outcome)
    BY <1>5
  <2>2. UNCHANGED registryVars /\ at = "agent" /\ result'.previous = Cardinality(attempt.ids)
    BY <2>1, ReturnedResult DEF AgentReturns
  <2>3. ~Ended /\ ~New /\ attempt.status = "running"
    BY <2>2 DEF IInv, PointInv, Ended, New
  <2>4. Listed' /\ Below'
    BY <1>1, <1>5, <2>2, <2>3 DEF registryVars, Held, IsPending, IsBound
  <2>5. \A i \in Nat : Held(i)' =>
          (pending'[KeyOf(i)].id \in attempt'.ids <=> i <= result'.previous)
    BY <1>5, <2>2, <2>4
  <2>6. Split'
    BY <1>5, <2>2, <2>5
  <2> QED BY <1>2, <2>4, <2>6
<1>6. CASE result' = NoResult /\ UNCHANGED <<registryVars, attempt>> /\ at \in {"consumed", "finish"}
  <2>1. CASE Ended
    BY <1>3, <1>6, <2>1 DEF Ended
  <2>2. CASE ~Ended
    <3>1. attempt.status = "waits"
      BY <1>6, <2>2 DEF IInv, PointInv
    <3>2. ~New /\ ~New'
      BY <1>6, <3>1 DEF New, Returned
    <3> QED BY <1>1, <1>4, <1>6, <2>2, <3>2
  <2> QED BY <2>1, <2>2
<1>7. CASE attempt' = attempt /\ result' = result
  <2>1. CASE Ended
    BY <1>3, <1>7, <2>1 DEF Ended
  <2>2. CASE ~Ended
    <3>1. Listed'
      BY <1>1, <1>7, <2>2, RegistryStep, RegistryGrows DEF IInv
    <3>2. ~ReportAllocated /\ ~Forgotten
      BY <2>2 DEF ReportAllocated, Forgotten, IInv, PointInv
    <3>3. CASE OutputBound \/ ReportRegistered \/ Kept
      <4>1. pending' = pending /\ artifacts \subseteq artifacts'
        BY <3>3 DEF OutputBound, ReportRegistered, Kept
      <4>2. (New' => New) /\ (~New' => ~New) /\ ~Ended'
        BY <1>7, <2>2 DEF New, Returned, Ended
      <4>3. (~New => Below') /\ (New => Split')
        BY <1>1, <1>7, <2>2, <4>1 DEF Held, IsPending, IsBound
      <4> QED BY <1>2, <3>1, <4>2, <4>3
    <3>4. CASE OutputAllocated
      <4>1. /\ next \in 1..Last /\ Receiving /\ OutputKey \in Keys
            /\ OutputKey = KeyOf(result.previous + next) /\ Output = result.outputs[next]
            /\ Held(result.previous + next) <=> IsPending(OutputKey)
        BY <3>4, OutputOfResult DEF OutputAllocated, Output
      <4>2. Returned /\ result.previous \in Nat /\ next \in Nat /\ next > 0
        BY <4>1 DEF IInv, PointInv, ResultInv, Receiving, Last
      <4>3. New
        <5>1. CASE attempt.status = "waits"
          <6>1. RefsOf(next) # {}
            BY <4>1, <4>2, <5>1 DEF IInv, ConcludedInv
          <6> QED BY <3>4, <4>1, <6>1 DEF RefsOf, OutputAllocated
        <5>2. CASE attempt.status # "waits"
          BY <2>2, <4>2, <5>2 DEF New, Ended
        <5> QED BY <5>1, <5>2
      <4>4. New' /\ ~Ended'
        BY <1>7, <2>2, <4>3 DEF New, Returned, Ended
      <4>5. ASSUME NEW i \in Nat, Held(i)'
            PROVE  pending'[KeyOf(i)].id \in attempt.ids <=> i <= result.previous
        <5>1. CASE i = result.previous + next
          <6>1. pending'[KeyOf(i)].id = allocated + 1
            BY <3>4, <4>1, <5>1, OutputAllocation
          <6>2. allocated + 1 \notin attempt.ids
            BY DEF IInv, TypeInvariant, RegistryTypes
          <6>3. ~(i <= result.previous)
            BY <4>2, <5>1
          <6> QED BY <6>1, <6>2, <6>3
        <5>2. CASE i # result.previous + next
          <6>1. Held(i) /\ KeyOf(i) # OutputKey
            BY <3>4, <4>1, <4>2, <4>5, <5>2, OutputAllocation DEF KeyOf
          <6>2. pending'[KeyOf(i)] = pending[KeyOf(i)]
            BY <3>4, <6>1, OutputAllocation DEF Held
          <6> QED BY <6>1, <6>2, <4>3, <1>1
        <5> QED BY <5>1, <5>2
      <4>6. Split'
        BY <4>5, <4>3, <1>1, <1>7
      <4> QED BY <1>2, <3>1, <4>4, <4>6
    <3> QED BY <3>2, <3>3, <3>4, RegistryStep
  <2> QED BY <2>1, <2>2
<1>8. CASE FindMissing \/ SourceChanged \/ StorageFails \/ CancelAttempt
           \/ attempt' = [attempt EXCEPT !.status = "failed", !.error = "interrupted"]
  <2>1. attempt \in [status : Statuses, error : Errors, ids : SUBSET (1..allocated)]
    BY DEF IInv, TypeInvariant
  <2>2. attempt'.status \in {"failed", "cancelled"}
    <3>1. CASE FindMissing \/ SourceChanged \/ StorageFails
      BY <3>1 DEF FindMissing, SourceChanged, StorageFails, FailReception
    <3>2. CASE CancelAttempt
      BY <3>2, <2>1 DEF CancelAttempt
    <3>3. CASE attempt' = [attempt EXCEPT !.status = "failed", !.error = "interrupted"]
      BY <3>3, <2>1
    <3> QED BY <3>1, <3>2, <3>3, <1>8
  <2>3. Ended'
    BY <2>2 DEF Ended
  <2> QED BY <1>3, <2>3
<1>9. CASE SettleAttempt
  <2>1. CASE result.outcome = "waits"
    <3>1. UNCHANGED registryVars /\ attempt'.status = "waits"
      BY <1>9, <2>1 DEF SettleAttempt, StatusOf
    <3>2. Listed' /\ Below'
      BY <1>9, <2>1, <3>1, WaitSettled DEF registryVars, Held, IsPending, IsBound
    <3>3. ~New'
      BY <3>1 DEF New
    <3> QED BY <1>2, <3>2, <3>3
  <2>2. CASE result.outcome # "waits"
    <3>1. Ended'
      BY <1>9, <2>2 DEF SettleAttempt, StatusOf, Ended
    <3> QED BY <1>3, <3>1
  <2> QED BY <2>1, <2>2
<1>10. CASE ResumeAttempt
  <2>1. /\ at = "idle" /\ attempt.status = "waits" /\ UNCHANGED <<registryVars, result>>
        /\ attempt'.ids = attempt.ids
    BY <1>10 DEF ResumeAttempt, IInv, TypeInvariant
  <2>2. ~Ended /\ ~New /\ ~New'
    BY <2>1 DEF IInv, PointInv, Ended, New, Returned
  <2> QED BY <1>1, <1>4, <2>1, <2>2
<1> QED BY <1>5, <1>6, <1>7, <1>8, <1>9, <1>10, AttemptStep, ResultStep

\* refs are what the outputs before the next were received as, and no more.
LEMMA ReceiveKept ==
  ASSUME IInv, AttemptFacts \subseteq Facts, [Next]_vars
  PROVE  ReceiveInv'
<1> SUFFICES ASSUME at' = "receive"
             PROVE  /\ \A i \in 1..(next' - 1) : \E ref \in RefsOf(i)' : ref.id \in refs'
                    /\ \A id \in refs' : \E i \in 1..(next' - 1) : \E ref \in RefsOf(i)' : ref.id = id
  BY DEF ReceiveInv
<1>n. next \in Nat \ {0} /\ Last \in Nat
  BY DEF IInv, TypeInvariant, ResultInv, Last
<1>1. CASE next' = 1 /\ refs' = {}
  BY <1>1
<1>2. ASSUME at = "receive", result' = result
      PROVE  \A i \in 1..(next - 1) :
               /\ \E ref \in RefsOf(i)' : ref.id \in refs
               /\ RefsOf(i) \subseteq RefsOf(i)'
  <2> SUFFICES ASSUME NEW i \in 1..(next - 1)
               PROVE  /\ \E ref \in RefsOf(i)' : ref.id \in refs
                      /\ RefsOf(i) \subseteq RefsOf(i)'
    OBVIOUS
  <2>1. /\ report = 0 /\ i \in 1..Last /\ \E ref \in RefsOf(i) : ref.id \in refs
    <3>1. report = 0 /\ next <= Last + 1 /\ \E ref \in RefsOf(i) : ref.id \in refs
      BY <1>2 DEF IInv, PointInv, ReceiveInv
    <3> QED BY <3>1, <1>n
  <2>2. RefsOf(i) \subseteq RefsOf(i)'
    BY <1>2, <2>1, RefsOfStay
  <2> QED BY <2>1, <2>2
<1>0. PICK n \in Nat \ {0} : n = next
  BY <1>n
<1>3. ASSUME at = "receive", result' = result, next' = next + 1,
             NEW ref, ref \in RefsOf(n)', refs' = refs \union {ref.id}
      PROVE  /\ \A i \in 1..(next' - 1) : \E r \in RefsOf(i)' : r.id \in refs'
             /\ \A id \in refs' : \E i \in 1..(next' - 1) : \E r \in RefsOf(i)' : r.id = id
  <2>1. 1..(next' - 1) = 1..(n - 1) \union {n}
    BY <1>0, <1>3
  <2>2. \A i \in 1..(n - 1) : \E r \in RefsOf(i)' : r.id \in refs
    BY <1>0, <1>2, <1>3
  <2>3. \A id \in refs : \E i \in 1..(n - 1) : \E r \in RefsOf(i) : r.id = id
    BY <1>0, <1>3 DEF IInv, ReceiveInv
  <2>4. \A id \in refs : \E i \in 1..(n - 1) : \E r \in RefsOf(i)' : r.id = id
    BY <1>0, <1>2, <1>3, <2>3
  <2>5. \A i \in 1..(next' - 1) : \E r \in RefsOf(i)' : r.id \in refs'
    BY <2>1, <2>2, <1>3
  <2>6. \A id \in refs' : \E i \in 1..(next' - 1) : \E r \in RefsOf(i)' : r.id = id
    BY <2>1, <2>4, <1>3
  <2> QED BY <2>5, <2>6
<1>4. CASE ReuseRecord
  <2>1. PICK ref \in EqualRecords(Output) : TakeNext(ref)
    BY <1>4 DEF ReuseRecord
  <2>2. /\ at = "receive" /\ result' = result /\ ~IsPending(OutputKey) /\ Receiving
    BY <1>4 DEF ReuseRecord, Receiving, savedVars
  <2>3. /\ ~Held(result.previous + n) /\ Output = result.outputs[n] /\ n \in 1..Last
        /\ report = 0
    BY <2>2, <1>0, OutputOfResult DEF Output, IInv, PointInv
  <2>4. ref \in RefsOf(n)
    BY <2>1, <2>3 DEF RefsOf
  <2>5. ref \in RefsOf(n)'
    BY <2>2, <2>3, <2>4, RefsOfStay
  <2> QED BY <1>3, <2>1, <2>2, <2>5 DEF TakeNext
<1>5. CASE BindOutput
  <2>1. /\ Receiving /\ at = "receive" /\ IsPending(OutputKey) /\ result' = result
        /\ TakeNext(pending[OutputKey]) /\ pending' = pending
        /\ artifacts' = artifacts \union {pending[OutputKey]}
    BY <1>5 DEF BindOutput, Bind, Receiving, savedVars
  <2>2. Held(result.previous + n) /\ OutputKey = KeyOf(result.previous + n)
    BY <2>1, <1>0, OutputOfResult
  <2>3. pending[OutputKey] \in RefsOf(n)'
    BY <2>1, <2>2 DEF RefsOf, Held, IsPending
  <2> QED BY <1>3, <2>1, <2>3 DEF TakeNext
<1>6. CASE \/ AllocateOutput \/ FreezeOutput \/ (\E f \in Files : EditFile(f)) \/ Done
           \/ UNCHANGED vars
  <2>1. UNCHANGED <<localVars, result>>
    BY <1>6 DEF AllocateOutput, FreezeOutput, EditFile, Done, vars, savedVars
  <2>2. /\ at = "receive" /\ result' = result /\ next' = n /\ refs' = refs
    BY <2>1, <1>0 DEF localVars
  <2>3. \A id \in refs : \E i \in 1..(n - 1) : \E ref \in RefsOf(i) : ref.id = id
    BY <1>0, <2>2 DEF IInv, ReceiveInv
  <2> QED BY <1>0, <1>2, <2>2, <2>3
<1>7. CASE \/ AllocateReport \/ FreezeReport \/ RegisterReport \/ AcknowledgeNext \/ RunCommand
  <2>1. at' = at /\ at # "receive"
    BY <1>7 DEF AllocateReport, FreezeReport, RegisterReport, AcknowledgeNext, RunCommand, localVars
  <2> QED BY <2>1
<1>8. CASE \/ \E outcome \in Outcomes : AgentReturns(outcome)
           \/ Recover
  BY <1>1, <1>8 DEF AgentReturns, Recover
<1>9. CASE \/ FindMissing \/ SourceChanged \/ StorageFails \/ SettleAttempt \/ SettleRaises
           \/ BindReport \/ ReportRefused \/ ConsumeResult \/ AcknowledgeRefused \/ Acknowledged
           \/ Finish \/ ResumeAttempt \/ CancelAttempt \/ Crash
  <2>1. at' # "receive"
    BY <1>9 DEF FindMissing, SourceChanged, StorageFails, FailReception, SettleAttempt,
      SettleRaises, BindReport, ReportRefused, ConsumeResult, AcknowledgeRefused, Acknowledged,
      Finish, ResumeAttempt, CancelAttempt, Crash, GoTo, Raise
  <2> QED BY <2>1
<1> QED BY <1>4, <1>5, <1>6, <1>7, <1>8, <1>9 DEF Next, Working

\* When the result is concluded from, every output of it was received, and every artifact
\* of it is listed.
LEMMA SettledListed ==
  ASSUME IInv, SettleAttempt
  PROVE  /\ \A i \in 1..Last : RefsOf(i) # {}
         /\ ~Ended /\ result.outcome # "waits" =>
              \A ref \in artifacts : ref.key # ReportKey => ref.id \in attempt'.ids
<1>1. /\ at = "receive" /\ next > Last /\ attempt'.ids = attempt.ids \union refs
  BY DEF SettleAttempt, Received, Last
<1>2. /\ Returned /\ report = 0 /\ next = Last + 1 /\ next - 1 = Last
      /\ result.previous \in Nat /\ Last \in Nat
  BY <1>1 DEF IInv, PointInv, ResultInv, TypeInvariant, Last
<1>3. \A i \in 1..Last : \E ref \in RefsOf(i) : ref.id \in refs
  BY <1>1, <1>2 DEF IInv, ReceiveInv
<1>4. ASSUME ~Ended, result.outcome # "waits", NEW ref \in artifacts, ref.key # ReportKey
      PROVE  ref.id \in attempt'.ids
  <2>1. New
    BY <1>2, <1>4 DEF New, IInv, PointInv, Ended
  <2>2. PICK i \in Nat : Held(i) /\ pending[KeyOf(i)] = ref
    BY <1>2, <1>4, ArtifactHeld
  <2>3. CASE i <= result.previous
    BY <2>1, <2>2, <2>3, <1>1 DEF IInv, WaitInv
  <2>4. CASE ~(i <= result.previous)
    <3>1. i <= result.previous + Last
      BY <1>2, <2>2, <2>4 DEF IInv, ResultKeysInv
    <3>2. PICK j \in 1..Last : i = result.previous + j
      <4>1. i - result.previous \in 1..Last /\ i = result.previous + (i - result.previous)
        BY <3>1, <2>4, <1>2
      <4> QED BY <4>1
    <3>3. PICK r \in RefsOf(j) : r.id \in refs
      BY <1>3
    <3>4. r = ref
      BY <2>2, <3>2, <3>3 DEF RefsOf
    <3> QED BY <3>3, <3>4, <1>1
  <2> QED BY <2>3, <2>4
<1> QED BY <1>3, <1>4

\* Without a result that is to be received, an Attempt that goes on lists every artifact.
LEMMA WaitListed ==
  ASSUME IInv, ~Ended, ~New, NEW ref \in artifacts, ref.key # ReportKey
  PROVE  ref.id \in attempt.ids
<1>1. report = 0
  BY DEF IInv, PointInv
<1>2. PICK i \in Nat : Held(i) /\ pending[KeyOf(i)] = ref
  BY <1>1, ArtifactHeld
<1> QED BY <1>2 DEF IInv, WaitInv

\* An Attempt whose files nobody touches is received without failure.
LEMMA UndisturbedReceived ==
  ASSUME IInv, [Next]_vars, Undisturbed'
  PROVE  ~FindMissing /\ ~SourceChanged /\ ~StorageFails
<1>1. Undisturbed /\ ~StorageFails
  BY Disturbed
<1>2. ASSUME Receiving PROVE Readable(Output)
  <2>1. Output \in Outputs
    BY <1>2, OutputOfResult
  <2>2. IsFile(Output) => Output.path \in Files
    BY <2>1 DEF Outputs, FileOutputs, RecordOutputs, IsFile
  <2> QED BY <2>2, <1>1 DEF Readable, Undisturbed, Gone
<1>3. ASSUME SourceChanged PROVE FALSE
  <2>1. /\ Receiving /\ IsPending(OutputKey) /\ pending[OutputKey].facts = Output
        /\ pending[OutputKey].bytes # BytesOf(Output)
    BY <1>2, <1>3 DEF SourceChanged, Unfrozen
  <2>2. /\ OutputKey \in Keys /\ Output \in Outputs /\ OutputKey # ReportKey
        /\ pending[OutputKey] \in Trusted /\ pending[OutputKey].key = OutputKey
    BY <2>1, OutputOfResult, BytesDistinct DEF IInv, RefInv, Trusted
  <2>3. CASE IsFile(Output)
    <3>1. Output.path \in Files
      BY <2>2, <2>3 DEF Outputs, FileOutputs, RecordOutputs, IsFile
    <3>2. BytesOf(Output) = <<"file", Output.path, 0>>
      BY <2>3, <3>1, <1>1 DEF BytesOf, Undisturbed
    <3> QED BY <2>1, <2>2, <2>3, <3>2, <1>1 DEF IInv, FilesInv
  <2>4. CASE ~IsFile(Output)
    BY <2>1, <2>2, <2>4 DEF IInv, RefInv, BytesOf
  <2> QED BY <2>3, <2>4
<1> QED BY <1>1, <1>2, <1>3 DEF FindMissing

\* What was concluded from a result stays true of it, and of the files while they rest.
LEMMA ConcludedKept ==
  ASSUME IInv, AttemptFacts \subseteq Facts, [Next]_vars
  PROVE  ConcludedInv'
<1> DEFINE AllReceived == \A i \in 1..Last : RefsOf(i) # {}
           AllListed == \A ref \in artifacts : ref.key # ReportKey => ref.id \in attempt.ids
           Told == /\ result.outcome # "waits"
                   /\ attempt.status = StatusOf(result.outcome)
                   /\ attempt.error = ErrorOf(result.outcome)
<1>1. /\ attempt.status = "waits" /\ Returned => AllReceived
      /\ Undisturbed /\ Ended => AllListed
      /\ Undisturbed /\ Ended /\ Returned => Told /\ (report = 0 => AllReceived)
  BY DEF IInv, ConcludedInv
<1>2. ASSUME attempt'.status = "waits" /\ Returned' => AllReceived',
             Undisturbed' /\ Ended' => AllListed',
             Undisturbed' /\ Ended' /\ Returned' => Told' /\ (report' = 0 => AllReceived')
      PROVE  ConcludedInv'
  BY <1>2 DEF ConcludedInv
<1>3. Undisturbed' => Undisturbed
  BY Disturbed
<1>4. ASSUME result' = result, report = 0, AllReceived PROVE AllReceived'
  <2> SUFFICES ASSUME NEW i \in 1..Last PROVE RefsOf(i)' # {}
    BY <1>4 DEF Last
  <2>1. RefsOf(i) # {} /\ RefsOf(i) \subseteq RefsOf(i)'
    BY <1>4, RefsOfStay
  <2> QED BY <2>1
<1>5. CASE attempt' = attempt
  <2>1. (Ended' <=> Ended)
    BY <1>5 DEF Ended
  <2>2. Undisturbed' /\ Ended' => AllListed'
    <3> SUFFICES ASSUME Undisturbed, Ended, NEW ref \in artifacts', ref.key # ReportKey
                 PROVE  ref.id \in attempt.ids
      BY <2>1, <1>3, <1>5
    <3>1. CASE ref \in artifacts
      BY <3>1, <1>1
    <3>2. CASE OutputBound /\ ref \notin artifacts
      <4>1. /\ Receiving /\ IsPending(OutputKey) /\ ref = pending[OutputKey] /\ at = "receive"
            /\ next \in 1..Last /\ Held(result.previous + next)
            /\ OutputKey = KeyOf(result.previous + next)
        BY <3>2, OutputOfResult DEF OutputBound, Receiving
      <4>2. RefsOf(next) # {}
        BY <4>1, <1>1 DEF IInv, PointInv
      <4> QED BY <3>2, <4>1, <4>2 DEF RefsOf
    <3>3. CASE ReportRegistered /\ ref \notin artifacts
      <4>1. ref = pending[ReportKey] /\ IsPending(ReportKey) /\ ReportKey \in Keys
        BY <3>3, ReportIsFact DEF ReportRegistered
      <4> QED BY <4>1 DEF IInv, RefInv
    <3>4. CASE OutputAllocated \/ ReportAllocated \/ Forgotten \/ Kept
      BY <3>1, <3>4 DEF OutputAllocated, ReportAllocated, Forgotten, Kept
    <3> QED BY <3>1, <3>2, <3>3, <3>4, RegistryStep
  <2>3. CASE result' = result
    <3>1. attempt'.status = "waits" /\ Returned' => AllReceived'
      <4>1. attempt.status = "waits" => report = 0
        BY DEF IInv, PointInv, Ended
      <4> QED BY <4>1, <2>3, <1>1, <1>4, <1>5 DEF Returned
    <3>2. Undisturbed' /\ Ended' /\ Returned' => Told' /\ (report' = 0 => AllReceived')
      BY <2>1, <2>3, <1>1, <1>3, <1>4, <1>5, ReportStep DEF Returned
    <3> QED BY <1>2, <2>2, <3>1, <3>2
  <2>4. CASE \E outcome \in Outcomes : AgentReturns(outcome)
    <3>1. attempt.status = "running"
      BY <2>4 DEF AgentReturns, IInv, PointInv
    <3>2. ~Ended' /\ attempt'.status # "waits"
      BY <1>5, <3>1 DEF Ended
    <3> QED BY <1>2, <2>2, <3>2
  <2>5. CASE result' = NoResult
    <3>1. ~Returned'
      BY <2>5 DEF Returned
    <3> QED BY <1>2, <2>2, <3>1
  <2> QED BY <2>3, <2>4, <2>5, ResultStep
<1>6. CASE FindMissing \/ SourceChanged \/ StorageFails
  <2>1. attempt'.status = "failed"
    BY <1>6 DEF FindMissing, SourceChanged, StorageFails, FailReception
  <2> QED BY <1>2, <1>6, <2>1, UndisturbedReceived
<1>7. CASE SettleAttempt /\ UNCHANGED <<registryVars, result, report>>
  <2>1. /\ at = "receive" /\ attempt'.status = StatusOf(result.outcome)
        /\ attempt'.error = ErrorOf(result.outcome) /\ attempt.ids \subseteq attempt'.ids
        /\ ~(Ended /\ result.outcome = "waits")
    BY <1>7 DEF SettleAttempt, Received, Reopens, StatusOf
  <2>2. report = 0 /\ Returned
    BY <2>1 DEF IInv, PointInv
  <2>3. AllReceived'
    BY <1>4, <1>7, <2>2, SettledListed
  <2>4. Ended' <=> result.outcome # "waits"
    BY <2>1 DEF Ended, StatusOf
  <2>5. Ended' => Told'
    BY <2>1, <2>4, <1>7
  <2>6. Undisturbed' /\ Ended' => AllListed'
    <3>1. CASE Ended
      BY <3>1, <1>1, <1>3, <1>7, <2>1 DEF registryVars
    <3>2. CASE ~Ended
      BY <3>2, <1>7, <2>4, SettledListed DEF registryVars
    <3> QED BY <3>1, <3>2
  <2> QED BY <1>2, <2>3, <2>5, <2>6
<1>8. CASE ResumeAttempt
  <2>1. attempt'.status = "running"
    BY <1>8 DEF ResumeAttempt, IInv, TypeInvariant
  <2>2. ~Ended'
    BY <2>1 DEF Ended
  <2> QED BY <1>2, <2>1, <2>2
<1>9. CASE \/ CancelAttempt /\ UNCHANGED <<registryVars, result>>
           \/ /\ ~Returned /\ attempt.status = "running" /\ UNCHANGED <<registryVars, result>>
              /\ attempt' = [attempt EXCEPT !.status = "failed", !.error = "interrupted"]
  <2>1. ~Returned /\ ~Ended /\ attempt'.ids = attempt.ids /\ attempt'.status # "waits"
    BY <1>9 DEF CancelAttempt, IInv, PointInv, TypeInvariant, Ended
  <2>2. ~Returned' /\ ~New
    BY <1>9, <2>1 DEF Returned, New
  <2>3. AllListed'
    BY <1>9, <2>1, <2>2, WaitListed DEF registryVars
  <2> QED BY <1>2, <2>1, <2>2, <2>3
<1> QED BY <1>5, <1>6, <1>7, <1>8, <1>9, AttemptStep

\* The report that is bound tells what the Attempt ended with.
LEMMA ReportKept ==
  ASSUME IInv, AttemptFacts \subseteq Facts, [Next]_vars
  PROVE  ReportTellsAttempt'
<1> SUFFICES ASSUME report' # 0
             PROVE  \E ref \in artifacts' :
                      /\ ref.id = report'
                      /\ ref.facts.status = attempt'.status /\ ref.facts.error = attempt'.error
                      /\ ref.facts.ids = attempt'.ids
  BY DEF ReportTellsAttempt
<1>1. artifacts \subseteq artifacts'
  BY RegistryStep, RegistryGrows DEF IInv
<1>2. CASE report' = report
  <2>1. attempt' = attempt
    BY <1>2, AttemptStep
  <2> QED BY <1>1, <1>2, <2>1 DEF IInv, ReportTellsAttempt
<1>3. CASE BindReport
  BY <1>1, <1>3 DEF BindReport, Recovers, IsBound, ReportFacts
<1> QED BY <1>2, <1>3, ReportStep

-----------------------------------------------------------------------------
(* The invariant *)

\* An Attempt that begins satisfies the invariant.
LEMMA InitInvariant == Init => IInv
<1> SUFFICES ASSUME Init PROVE IInv
  OBVIOUS
<1>1. RegistryInv /\ RegistryTypes
  BY InitRegistry DEF Init, RegistryInv
<1>2. /\ pending = [k \in Keys |-> NoRef] /\ artifacts = {} /\ allocated = 0
      /\ result = NoResult /\ report = 0 /\ commands = 0 /\ faults = 0
      /\ attempt = [status |-> "running", error |-> "none", ids |-> {}]
      /\ at = "agent" /\ next = 1 /\ refs = {} /\ before = {}
      /\ source = [f \in Files |-> 0]
  BY DEF Init, RegistryInit
<1>3. ~Returned /\ ~Ended /\ (\A k \in Keys : ~IsPending(k)) /\ Trusted = {}
  BY <1>2 DEF Returned, Ended, IsPending, Trusted
<1>4. \A i : ~Held(i)
  BY <1>3 DEF Held
<1>5. TypeInvariant
  <2>1. attempt \in [status : Statuses, error : Errors, ids : SUBSET (1..allocated)]
    BY <1>2 DEF Statuses, Errors
  <2>2. source \in [Files -> Versions \union {Gone}]
    BY <1>2, ReceptionAssumption DEF Versions
  <2>3. result.outcome = "none" /\ result.outputs \in Seq(Outputs)
    BY <1>2 DEF NoResult
  <2> QED BY <1>1, <1>2, <2>1, <2>2, <2>3, ReceptionAssumption DEF TypeInvariant
<1>6. ResultInv
  BY <1>2, <1>3, ReceptionAssumption DEF ResultInv, NoResult, Last
<1>7. PointInv
  BY <1>2, <1>3 DEF PointInv
<1>8. RefInv /\ AllocationsInv /\ ResultKeysInv /\ FilesInv
  BY <1>2, <1>3 DEF RefInv, AllocationsInv, ResultKeysInv, FilesInv
<1>9. WaitInv /\ ReceiveInv /\ ConcludedInv /\ ReportTellsAttempt
  BY <1>2, <1>3, <1>4 DEF WaitInv, New, ReceiveInv, ConcludedInv, ReportTellsAttempt
<1> QED BY <1>1, <1>5, <1>6, <1>7, <1>8, <1>9 DEF IInv

\* Every step keeps it.
LEMMA StepKeeps ==
  ASSUME IInv, AttemptFacts \subseteq Facts, [Next]_vars
  PROVE  IInv'
BY TypesKept, ResultKept, PointKept, RefsKept, AllocationsKept, ResultKeysKept, WaitKept,
   ReceiveKept, ConcludedKept, FilesKept, ReportKept DEF IInv

\* It holds of every state of an Attempt.
LEMMA Invariance ==
  ASSUME AttemptFacts \subseteq Facts
  PROVE  Spec => []IInv
<1>1. IInv /\ [Next]_vars => IInv'
  BY StepKeeps
<1> QED BY InitInvariant, <1>1, PTL DEF Spec

-----------------------------------------------------------------------------
(* The properties *)

\* Every step of a reception is one of the Registry, or leaves it alone, by the way Reception
\* is written: what holds of RegistrySpec holds here.
LEMMA ReceptionIsRegistration ==
  ASSUME AttemptFacts \subseteq Facts
  PROVE  Spec => RegistrySpec
<1>1. Init => RegistryInit
  BY DEF Init
<1>2. IInv /\ [Next]_vars => [Register]_registryVars
  BY RegistryStep
<1> QED BY Invariance, <1>1, <1>2, PTL DEF Spec, RegistrySpec

\* An artifact a task handed over is its frozen file, with the digest of its Ref, under an
\* identity of its own: what the Registry promises holds of a reception.
THEOREM ReceptionKeepsRegistry ==
  ASSUME AttemptFacts \subseteq Facts
  PROVE  Spec => []RegistrySound
BY ReceptionIsRegistration, RegistryIsSound, PTL

\* An output is registered once however often its result is received, and the record of the
\* commands once however often it is handed over.
THEOREM OutputsOnce ==
  ASSUME AttemptFacts \subseteq Facts
  PROVE  Spec => []RegisteredOnce
<1>1. IInv => RegisteredOnce
  BY TrustedIds DEF IInv, AllocationsInv, RegisteredOnce
<1> QED BY Invariance, <1>1, PTL

\* A key that waits for an output is never taken by an output of a later result.
THEOREM KeysStayOwn ==
  ASSUME AttemptFacts \subseteq Facts
  PROVE  Spec => []KeysNotReused
<1>1. IInv => KeysNotReused
  <2> SUFFICES ASSUME IInv, Receiving, IsPending(OutputKey)
               PROVE  pending[OutputKey].facts = Output
    BY DEF KeysNotReused
  <2>1. /\ Held(result.previous + next) /\ OutputKey = KeyOf(result.previous + next)
        /\ next \in 1..Last /\ Output = result.outputs[next]
    BY OutputOfResult DEF Output
  <2>2. Returned /\ report = 0 /\ result.previous \in Nat /\ Last \in Nat
    BY DEF Receiving, IInv, PointInv, ResultInv, Last
  <2>3. PICK i \in Nat : i = result.previous + next
    BY <2>1, <2>2
  <2>4. ~(i <= result.previous) /\ i - result.previous = next
    BY <2>1, <2>2, <2>3
  <2>5. Held(i) /\ OutputKey = KeyOf(i)
    BY <2>1, <2>3
  <2> QED BY <2>1, <2>2, <2>4, <2>5 DEF IInv, ResultKeysInv
<1> QED BY Invariance, <1>1, PTL

\* The bound report names the status, the error and the outputs the Attempt ended with.
THEOREM ReportIsTrue ==
  ASSUME AttemptFacts \subseteq Facts
  PROVE  Spec => []ReportTellsAttempt
<1>1. IInv => ReportTellsAttempt
  BY DEF IInv
<1> QED BY Invariance, <1>1, PTL

\* No allocation is forgotten before the report of its Attempt is bound, so that an owner
\* that takes over finds every Ref that was promised.
THEOREM ReportFirst ==
  ASSUME AttemptFacts \subseteq Facts
  PROVE  Spec => AcknowledgedAfterReport
<1>1. IInv /\ [Next]_vars =>
        [(\E k \in Keys : IsPending(k) /\ pending'[k] = NoRef) => report # 0]_vars
  <2> SUFFICES ASSUME IInv, [Next]_vars, NEW k \in Keys, IsPending(k), pending'[k] = NoRef
               PROVE  report # 0
    OBVIOUS
  <2>1. ~IsPending(k)'
    BY DEF IsPending
  <2>2. ~OutputAllocated
    BY <2>1, OutputAllocation
  <2>3. ~ReportAllocated
    BY <2>1, ReportAllocation
  <2>4. ~OutputBound /\ ~ReportRegistered /\ ~Kept
    BY <2>1 DEF OutputBound, ReportRegistered, Kept, IsPending
  <2>5. Forgotten
    BY <2>2, <2>3, <2>4, RegistryStep
  <2> QED BY <2>5 DEF Forgotten, IInv, PointInv
<1> QED BY Invariance, <1>1, PTL DEF AcknowledgedAfterReport, Spec

\* The outputs of a result were not taken for the report.
LEMMA ReceivedListed ==
  ASSUME IInv, Undisturbed, Ended, Returned, report = 0, NEW i \in 1..Last, NEW ref \in RefsOf(i)
  PROVE  ref.id \in attempt.ids
<1>1. ref \in artifacts /\ ref \in Trusted
  BY ReceivedRef DEF Trusted
<1>2. ref.key # ReportKey
  <2>1. PICK j \in Nat : j = result.previous + i
    BY DEF IInv, ResultInv, Last
  <2>2. CASE Held(j)
    <3>1. ref = pending[KeyOf(j)] /\ KeyOf(j) \in Keys /\ IsPending(KeyOf(j))
      BY <2>1, <2>2 DEF RefsOf, Held
    <3> QED BY <3>1, BytesDistinct DEF IInv, RefInv
  <2>3. CASE ~Held(j)
    <3>1. ~IsFile(result.outputs[i])
      BY <2>1, <2>3 DEF RefsOf, EqualRecords
    <3> QED BY <1>1, <3>1, ReceivedRef, RecordOfRef
  <2> QED BY <2>2, <2>3
<1> QED BY <1>1, <1>2 DEF IInv, ConcludedInv

\* While nobody touches its files, an Attempt that ended is left alone, though its result
\* may be received again.
LEMMA EndedUndisturbed ==
  ASSUME IInv, AttemptFacts \subseteq Facts, [Next]_vars, Ended, Undisturbed
  PROVE  attempt' = attempt
<1>t. attempt \in [status : Statuses, error : Errors, ids : SUBSET (1..allocated)]
  BY DEF IInv, TypeInvariant
<1>1. ASSUME Receiving
      PROVE  /\ Returned /\ report = 0 /\ OutputKey \in Keys /\ RefsOf(next) # {}
             /\ Held(result.previous + next) <=> IsPending(OutputKey)
             /\ OutputKey = KeyOf(result.previous + next) /\ Output \in Outputs
  <2>1. next \in 1..Last /\ Returned /\ report = 0
    BY <1>1, OutputOfResult DEF Receiving, IInv, PointInv
  <2>2. RefsOf(next) # {}
    BY <2>1 DEF IInv, ConcludedInv
  <2> QED BY <1>1, <2>1, <2>2, OutputOfResult
<1>2. ~FindMissing
  <2>1. Receiving => Readable(Output)
    BY <1>1 DEF Readable, Undisturbed, Outputs, FileOutputs, RecordOutputs, IsFile, Gone
  <2> QED BY <2>1 DEF FindMissing
<1>3. ~SourceChanged /\ ~StorageFails
  <2> SUFFICES ASSUME Unfrozen PROVE FALSE
    BY DEF SourceChanged, StorageFails
  <2>1. pending[OutputKey] \in artifacts
    BY <1>1 DEF Unfrozen, RefsOf
  <2> QED BY <2>1 DEF Unfrozen, IInv, RegistryInv, ArtifactsFrozen, IsFrozen
<1>4. ASSUME SettleAttempt PROVE attempt' = attempt
  <2>1. /\ at = "receive" /\ next > Last
        /\ attempt' = [status |-> StatusOf(result.outcome), error |-> ErrorOf(result.outcome),
                       ids |-> attempt.ids \union refs]
    BY <1>4 DEF SettleAttempt, Received, Last
  <2>2. /\ Returned /\ report = 0 /\ next - 1 = Last
    BY <2>1 DEF IInv, PointInv, ResultInv, TypeInvariant, Last
  <2>3. refs \subseteq attempt.ids
    <3> SUFFICES ASSUME NEW id \in refs PROVE id \in attempt.ids
      OBVIOUS
    <3>1. PICK i \in 1..Last : \E ref \in RefsOf(i) : ref.id = id
      BY <2>1, <2>2 DEF IInv, ReceiveInv
    <3> QED BY <2>2, <3>1, ReceivedListed
  <2>4. attempt.status = StatusOf(result.outcome) /\ attempt.error = ErrorOf(result.outcome)
    BY <2>2 DEF IInv, ConcludedInv
  <2>5. attempt.ids \union refs = attempt.ids
    BY <2>3
  <2> QED BY <1>t, <2>1, <2>4, <2>5
<1>5. ~ResumeAttempt /\ ~CancelAttempt /\ attempt.status # "running"
  BY DEF ResumeAttempt, CancelAttempt, Ended
<1> QED BY <1>2, <1>3, <1>4, <1>5, AttemptStep

\* Receiving a result is sound: its types, the single registration of every output, the
\* keys, the report and, while nobody touches the files, the list of what was handed over
\* and the rest of an Attempt that ended.
THEOREM ReceptionIsSound ==
  ASSUME AttemptFacts \subseteq Facts
  PROVE  Spec => ReceptionSound
<1>1. IInv => TypeInvariant /\ (Undisturbed => OutputsListed)
  <2> SUFFICES ASSUME IInv, Undisturbed, report # 0,
                      NEW ref \in artifacts, ref.key # ReportKey
               PROVE  ref.id \in attempt.ids
    BY DEF IInv, OutputsListed
  <2> QED BY DEF IInv, PointInv, ConcludedInv
<1>2. IInv /\ [Next]_vars => [Ended /\ Undisturbed => UNCHANGED attempt]_vars
  BY EndedUndisturbed
<1>3. Spec => [](TypeInvariant /\ (Undisturbed => OutputsListed))
  BY Invariance, <1>1, PTL
<1>4. Spec => [][Ended /\ Undisturbed => UNCHANGED attempt]_vars
  BY Invariance, <1>2, PTL DEF Spec
<1> QED
  BY <1>3, <1>4, OutputsOnce, KeysStayOwn, ReportIsTrue, ReportFirst, PTL DEF ReceptionSound
=============================================================================
