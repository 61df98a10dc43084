------------------------ MODULE InitializationProofs ------------------------
(* Initialization registers by the steps of the Registry, for any files, papers *)
(* and bounds, so that it keeps what the Registry does; and what it saves as    *)
(* done is done, whichever owners it took.  RunFacts is infinite, so that       *)
(* Facts holds it is a hypothesis and not an assumption.                        *)
EXTENDS Initialization, SequenceTheorems, TLAPS

(* What every step of a registration keeps, whoever registers: the invariant of *)
(* the Registry is the same as in ReceptionProofs.                              *)

\* Every identity that is in use was given out.
IdentitiesAllocated ==
  /\ \A ref \in Trusted : ref.id <= allocated
  /\ \A f \in frozen : f.id <= allocated

\* Each part needs the others: binding is sound because the file found under the identity
\* can only have the promised bytes, freezing because nobody else has the identity, and
\* allocating because an identity that was not given out has no file yet.
RegistryInv ==
  /\ RegistryTypes
  /\ IdentitiesAllocated
  /\ ArtifactsFrozen
  /\ FrozenAsPromised
  /\ IdentitiesDistinct

\* The absence of an allocation is not taken for one.
LEMMA NoRefIsNoRef == NoRef \notin Refs
BY DEF NoRef, Refs

\* A pending allocation of a well-typed Registry is a Ref, and a trusted one.
LEMMA PendingTrusted ==
  ASSUME RegistryTypes, NEW k \in Keys, IsPending(k)
  PROVE  pending[k] \in Refs /\ pending[k] \in Trusted
BY DEF RegistryTypes, IsPending, Trusted

\* A new Registry satisfies the invariant.
LEMMA InitRegistry == RegistryInit => RegistryInv
<1> SUFFICES ASSUME RegistryInit PROVE RegistryInv
  OBVIOUS
<1>1. Trusted = {}
  BY DEF RegistryInit, Trusted, IsPending
<1> QED
  BY <1>1 DEF RegistryInit, RegistryInv, RegistryTypes, IdentitiesAllocated, ArtifactsFrozen,
              FrozenAsPromised, IdentitiesDistinct

\* A new identity has neither a file nor another Ref.
LEMMA AllocateKeeps ==
  ASSUME RegistryInv, NEW k \in Keys, pending'[k] \in Refs,
         Allocate(k, pending'[k].bytes, pending'[k].facts)
  PROVE  RegistryInv'
<1> DEFINE new == pending'[k]
<1>1. /\ new.id = allocated + 1
      /\ pending' = [pending EXCEPT ![k] = new]
      /\ artifacts' = artifacts /\ frozen' = frozen /\ allocated' = allocated + 1
  BY DEF Allocate, RegistryInv, RegistryTypes
<1>2. RegistryTypes'
  BY <1>1 DEF RegistryInv, RegistryTypes
<1>3. Trusted' \subseteq Trusted \union {new}
  BY <1>1 DEF Trusted, IsPending, RegistryInv, RegistryTypes
<1>4. \A ref \in Trusted : ref \in Refs /\ ref.id <= allocated
  BY DEF Trusted, IsPending, RegistryInv, RegistryTypes, IdentitiesAllocated
<1>5. allocated \in Nat /\ \A f \in frozen : f.id \in Nat /\ f.id <= allocated
  BY DEF RegistryInv, RegistryTypes, IdentitiesAllocated
<1>6. IdentitiesAllocated'
  <2>1. \A ref \in Trusted' : ref.id <= allocated'
    <3> SUFFICES ASSUME NEW ref \in Trusted' PROVE ref.id <= allocated'
      OBVIOUS
    <3>1. CASE ref = new
      BY <3>1, <1>1, <1>5
    <3>2. CASE ref \in Trusted
      BY <3>2, <1>1, <1>4, <1>5 DEF Refs
    <3> QED BY <3>1, <3>2, <1>3
  <2> QED BY <2>1, <1>1, <1>5 DEF IdentitiesAllocated
<1>7. ArtifactsFrozen'
  BY <1>1 DEF RegistryInv, ArtifactsFrozen
<1>8. FrozenAsPromised'
  <2> SUFFICES ASSUME NEW ref \in Trusted', NEW f \in frozen', f.id = ref.id
               PROVE  f.bytes = ref.bytes
    BY DEF FrozenAsPromised
  <2>1. ref # new
    BY <1>1, <1>5
  <2> QED BY <2>1, <1>1, <1>3 DEF RegistryInv, FrozenAsPromised
<1>9. IdentitiesDistinct'
  <2> SUFFICES ASSUME NEW r1 \in Trusted', NEW r2 \in Trusted', r1.id = r2.id
               PROVE  r1 = r2
    BY DEF IdentitiesDistinct
  <2>1. \A ref \in Trusted : ref.id # new.id
    BY <1>1, <1>4, <1>5 DEF Refs
  <2> QED BY <2>1, <1>3 DEF RegistryInv, IdentitiesDistinct
<1> QED BY <1>2, <1>6, <1>7, <1>8, <1>9 DEF RegistryInv

\* The file that is put in place is the one the Ref of its identity promises.
LEMMA FreezeKeeps ==
  ASSUME RegistryInv, NEW k \in Keys, Freeze(k, pending[k].bytes)
  PROVE  RegistryInv'
<1> DEFINE file == [id |-> pending[k].id, bytes |-> pending[k].bytes]
<1>1. pending[k] \in Refs /\ pending[k] \in Trusted
  BY PendingTrusted DEF Freeze, RegistryInv
<1>2. /\ pending' = pending /\ artifacts' = artifacts /\ allocated' = allocated
      /\ frozen' = frozen \union {file}
  BY DEF Freeze
<1>3. Trusted' = Trusted
  BY <1>2 DEF Trusted, IsPending
<1>4. RegistryTypes'
  BY <1>1, <1>2 DEF RegistryInv, RegistryTypes, Refs
<1>5. IdentitiesAllocated'
  BY <1>1, <1>2, <1>3 DEF RegistryInv, IdentitiesAllocated
<1>6. ArtifactsFrozen'
  BY <1>2 DEF RegistryInv, ArtifactsFrozen
<1>7. FrozenAsPromised'
  <2> SUFFICES ASSUME NEW ref \in Trusted, NEW f \in frozen', f.id = ref.id
               PROVE  f.bytes = ref.bytes
    BY <1>3 DEF FrozenAsPromised
  <2>1. CASE f \in frozen
    BY <2>1 DEF RegistryInv, FrozenAsPromised
  <2>2. CASE f = file
    BY <2>2, <1>1 DEF RegistryInv, IdentitiesDistinct
  <2> QED BY <2>1, <2>2, <1>2
<1>8. IdentitiesDistinct'
  BY <1>3 DEF RegistryInv, IdentitiesDistinct
<1> QED BY <1>4, <1>5, <1>6, <1>7, <1>8 DEF RegistryInv

\* What is bound has its file in place.
LEMMA BindKeeps ==
  ASSUME RegistryInv, NEW k \in Keys, Bind(k)
  PROVE  RegistryInv'
<1>1. pending[k] \in Refs /\ pending[k] \in Trusted
  BY PendingTrusted DEF Bind, RegistryInv
<1>2. /\ pending' = pending /\ frozen' = frozen /\ allocated' = allocated
      /\ artifacts' = artifacts \union {pending[k]}
  BY DEF Bind
<1>3. Trusted' = Trusted
  BY <1>1, <1>2 DEF Trusted, IsPending, Bind
<1>4. RegistryTypes'
  BY <1>1, <1>2 DEF RegistryInv, RegistryTypes
<1>5. IdentitiesAllocated' /\ FrozenAsPromised' /\ IdentitiesDistinct'
  BY <1>2, <1>3 DEF RegistryInv, IdentitiesAllocated, FrozenAsPromised, IdentitiesDistinct
<1>6. ArtifactsFrozen'
  <2>1. PICK f \in frozen : f.id = pending[k].id
    BY DEF Bind, IsFrozen
  <2>2. f.bytes = pending[k].bytes
    BY <2>1, <1>1 DEF RegistryInv, FrozenAsPromised
  <2>3. f = [id |-> pending[k].id, bytes |-> pending[k].bytes]
    BY <2>1, <2>2 DEF RegistryInv, RegistryTypes
  <2> QED BY <2>3, <1>2 DEF RegistryInv, ArtifactsFrozen
<1> QED BY <1>4, <1>5, <1>6 DEF RegistryInv

\* Forgetting an allocation leaves fewer Refs to keep a promise to.
LEMMA ForgetKeeps ==
  ASSUME RegistryInv, NEW k \in Keys, Acknowledge(k) \/ Drop(k)
  PROVE  RegistryInv'
<1>1. /\ pending' = [pending EXCEPT ![k] = NoRef]
      /\ artifacts' = artifacts /\ frozen' = frozen /\ allocated' = allocated
  BY DEF Acknowledge, Drop
<1>2. Trusted' \subseteq Trusted
  BY <1>1 DEF Trusted, IsPending, RegistryInv, RegistryTypes
<1>3. RegistryTypes'
  BY <1>1 DEF RegistryInv, RegistryTypes
<1> QED
  BY <1>1, <1>2, <1>3 DEF RegistryInv, IdentitiesAllocated, ArtifactsFrozen, FrozenAsPromised,
                          IdentitiesDistinct

\* Every step of a registration keeps the invariant.
LEMMA RegisterKeeps ==
  ASSUME RegistryInv, [Register]_registryVars
  PROVE  RegistryInv'
<1>1. CASE Register
  BY <1>1, AllocateKeeps, FreezeKeeps, BindKeeps, ForgetKeeps DEF Register
<1>2. CASE UNCHANGED registryVars
  BY <1>2 DEF registryVars, RegistryInv, RegistryTypes, IdentitiesAllocated, ArtifactsFrozen,
              FrozenAsPromised, IdentitiesDistinct, Trusted, IsPending
<1> QED BY <1>1, <1>2

-----------------------------------------------------------------------------
(* The initialization *)

\* The type invariant, and the bounds that keep every operation among the keys.
TypesInv ==
  TypeInvariant /\ Len(imports) <= MaxInputs /\ Len(listed) <= MaxItems

DigestOf(item) ==
  IF item.pdf = NoFile THEN digest = NoDigest ELSE digest \in FileBytes /\ digest[1] = item.pdf

AfterInputs == {"items", "paper", "pdf", "itemDone", "ackPaper", "ackPdf", "requirements",
                "finish", "ackRequirements", "agents"}
AfterItems == {"requirements", "finish", "ackRequirements", "agents"}

\* How far the saved progress is where the owner stands.
PointInv ==
  /\ status = "absent" => imports = <<>> /\ listed = <<>> /\ ~complete /\ at = "idle"
  /\ at = "inputDone" => nextImport < Len(imports)
  /\ at = "ackInput" => nextImport > 0
  /\ at \in {"ackPaper", "ackPdf"} => nextLiterature > 0
  /\ at \in {"paper", "pdf", "itemDone"} => nextLiterature < Len(listed) /\ DigestOf(NextItem)
  /\ at = "itemDone" \/ (at = "pdf" /\ step = "freeze") => NextItem.pdf # NoFile
  /\ at \in AfterInputs => nextImport = Len(imports)
  /\ at \in AfterItems => nextLiterature = Len(listed)
  /\ at = "requirements" => requirements = 0
  /\ at \in {"ackRequirements", "agents"} => complete
  /\ complete => nextImport = Len(imports) /\ nextLiterature = Len(listed) /\ requirements # 0

\* An allocation belongs to something listed and promises its bytes.
PendingInv ==
  \A k \in Keys : IsPending(k) =>
    /\ k \in RunKeys /\ pending[k].key = k
    /\ \A i \in 1..MaxInputs : k = InputKey(i) =>
         i <= Len(imports) /\ pending[k].bytes[1] = imports[i]
    /\ \A i \in 1..MaxItems : k = PaperKey(i) =>
         i <= Len(listed) /\ pending[k].bytes = <<"paper", listed[i].paper>>
    /\ \A i \in 1..MaxItems : k = PdfKey(i) =>
         i <= Len(listed) /\ listed[i].pdf # NoFile /\ pending[k].bytes[1] = listed[i].pdf

\* The operations the saved progress has passed.
Done(k) ==
  \/ \E i \in 1..nextImport : k = InputKey(i)
  \/ \E i \in 1..nextLiterature : k = PaperKey(i) \/ k = PdfKey(i)
  \/ requirements # 0 /\ k = RequirementKey

BoundIfPending(k) == IsPending(k) => IsBound(pending[k])

\* An operation that is not passed keeps its allocation, so that whoever takes
\* it up again finds what was bound; one that is passed allocates nothing.
OnceInv ==
  /\ OnePerOperation
  /\ \A ref \in artifacts : Done(ref.key) \/ IsPending(ref.key)
  /\ \A k \in Keys : Done(k) => BoundIfPending(k)

\* What the saved progress says is imported is an artifact.
ImportedInv ==
  /\ \A i \in 1..nextImport : InputImported(i)
  /\ \A i \in 1..nextLiterature : ItemImported(i)
  /\ requirements # 0 =>
       \E ref \in artifacts : ref.id = requirements /\ ref.facts = RequirementFacts

SavedInv == PendingInv /\ OnceInv /\ ImportedInv

PaperHeld ==
  \E p \in artifacts : /\ p.id = paper /\ p.facts = PaperFacts(digest)
                       /\ p.bytes = <<"paper", NextItem.paper>>
PdfHeld ==
  \E ref \in artifacts : ref.facts = PdfFacts(paper) /\ ref.bytes[1] = NextItem.pdf

\* What the owner has registered and not yet saved as done.
HeldInv ==
  /\ at = "inputDone" => InputImported(nextImport + 1) /\ BoundIfPending(InputKey(nextImport + 1))
  /\ at \in {"pdf", "itemDone"} => PaperHeld /\ BoundIfPending(PaperKey(nextLiterature + 1))
  /\ at = "itemDone" => PdfHeld /\ BoundIfPending(PdfKey(nextLiterature + 1))
  /\ at = "finish" /\ requirements = 0 =>
       /\ IsPending(RequirementKey) /\ IsBound(pending[RequirementKey])
       /\ pending[RequirementKey].facts = RequirementFacts

IInv == RegistryInv /\ TypesInv /\ PointInv /\ SavedInv /\ HeldInv

\* A Ref is of the kind of its operation, and a file is recorded as it was or as it is.
KindsAgree(ref) == ref.facts.kind = ref.key[1]
WasRead(ref) ==
  ref.facts.kind \in {"input", "pdf"} =>
    /\ ref.bytes \in FileBytes
    /\ source[ref.bytes[1]] = Gone \/ ref.bytes[2] <= source[ref.bytes[1]]

\* Only the operations that come next can be allocated and not yet bound.
UnboundNext ==
  \A k \in Keys : IsPending(k) /\ ~IsBound(pending[k]) =>
    k \in {InputKey(nextImport + 1), PaperKey(nextLiterature + 1),
           PdfKey(nextLiterature + 1), RequirementKey}

\* The check that found no artifact to reuse still holds when the Ref is allocated.
StillNew ==
  Registering /\ step = "freeze" /\ ~IsPending(CallKey) /\ Present => EqualRefs = {}

\* Neither what is bound nor what will be is there twice: files only move on to versions
\* that nobody read, and one operation at a time is on its way to an identity.
ReuseInv ==
  /\ \A r1, r2 \in Trusted : r1.bytes = r2.bytes /\ r1.facts = r2.facts => r1 = r2
  /\ \A ref \in Trusted : KindsAgree(ref) /\ WasRead(ref)
  /\ UnboundNext
  /\ StillNew

-----------------------------------------------------------------------------
(* Keys, and the registration under way *)

\* Operations of different kinds, or of the same kind at different places, have different keys.
LEMMA KeysDiffer ==
  /\ \A i, j : InputKey(i) = InputKey(j) => i = j
  /\ \A i, j : PaperKey(i) = PaperKey(j) => i = j
  /\ \A i, j : PdfKey(i) = PdfKey(j) => i = j
  /\ \A i, j : /\ InputKey(i) # PaperKey(j) /\ InputKey(i) # PdfKey(j) /\ PaperKey(i) # PdfKey(j)
               /\ RequirementKey # InputKey(i) /\ RequirementKey # PaperKey(i)
               /\ RequirementKey # PdfKey(i)
BY DEF InputKey, PaperKey, PdfKey, RequirementKey

\* A list drawn by the user is a sequence within its bound.
LEMMA ListsAreSequences ==
  ASSUME NEW S, NEW n \in Nat, NEW s \in Lists(S, n)
  PROVE  s \in Seq(S) /\ Len(s) <= n
<1>1. PICK k \in 0..n : s \in [1..k -> S]
  BY DEF Lists
<1>2. s \in Seq(S)
  BY <1>1, SeqDef
<1> QED BY <1>1, <1>2, LenProperties

\* The files and papers that are listed are files and papers.
LEMMA ListedTypes ==
  ASSUME TypesInv
  PROVE  /\ \A i \in 1..Len(imports) : imports[i] \in Files
         /\ \A i \in 1..Len(listed) : listed[i].paper \in Papers /\ listed[i].pdf \in Files \union {NoFile}
         /\ Len(imports) \in Nat /\ Len(listed) \in Nat /\ nextImport \in Nat /\ nextLiterature \in Nat
<1>1. imports \in Seq(Files) /\ listed \in Seq(Items)
  BY DEF TypesInv, TypeInvariant
<1>2. Len(imports) \in Nat /\ Len(listed) \in Nat
  BY <1>1, LenProperties
<1>3. \A i \in 1..Len(imports) : imports[i] \in Files
  BY <1>1, ElementOfSeq
<1>4. \A i \in 1..Len(listed) : listed[i] \in Items
  BY <1>1, ElementOfSeq
<1> QED BY <1>2, <1>3, <1>4 DEF Items, TypesInv, TypeInvariant

\* The registration under way has a key of the Run that is not passed yet.
LEMMA CallKeyOpen ==
  ASSUME IInv, Registering
  PROVE  CallKey \in RunKeys /\ CallKey \in Keys /\ ~Done(CallKey)
<1>1. /\ Len(imports) \in Nat /\ Len(imports) <= MaxInputs
      /\ Len(listed) \in Nat /\ Len(listed) <= MaxItems
      /\ nextImport \in Nat /\ nextLiterature \in Nat
  BY ListedTypes DEF IInv, TypesInv
<1>2. CASE at = "inputs"
  <2>1. CallKey = InputKey(nextImport + 1) /\ nextImport + 1 \in 1..MaxInputs
    BY <1>1, <1>2, InitializationAssumption DEF CallKey, Registering
  <2>2. ~Done(CallKey)
    BY <1>1, <2>1, KeysDiffer DEF Done
  <2> QED BY <2>1, <2>2, RunAssumption DEF RunKeys
<1>3. CASE at \in {"paper", "pdf"}
  <2>1. CallKey \in {PaperKey(nextLiterature + 1), PdfKey(nextLiterature + 1)}
    BY <1>3 DEF CallKey
  <2>2. nextLiterature + 1 \in 1..MaxItems
    BY <1>1, <1>3, InitializationAssumption DEF IInv, PointInv
  <2>3. ~Done(CallKey)
    BY <1>1, <2>1, KeysDiffer DEF Done
  <2> QED BY <2>1, <2>2, <2>3, RunAssumption DEF RunKeys
<1>4. CASE at = "requirements"
  <2>1. CallKey = RequirementKey /\ requirements = 0
    BY <1>4 DEF CallKey, IInv, PointInv
  <2> QED BY <2>1, KeysDiffer, RunAssumption DEF RunKeys, Done
<1> QED BY <1>2, <1>3, <1>4 DEF Registering

\* The file of the registration is one of the user's, unless it has none.
LEMMA CallFileTypes ==
  ASSUME IInv, Registering
  PROVE  /\ at = "inputs" => CallFile \in Files /\ CallFile = imports[nextImport + 1]
         /\ at = "pdf" => CallFile = NextItem.pdf /\ CallFile \in Files \union {NoFile}
         /\ at \in {"paper", "requirements"} => CallFile = NoFile
<1>1. at = "inputs" => nextImport + 1 \in 1..Len(imports)
  BY ListedTypes DEF Registering, IInv
<1>2. at = "pdf" => nextLiterature + 1 \in 1..Len(listed)
  BY ListedTypes DEF IInv, PointInv
<1> QED BY <1>1, <1>2, ListedTypes DEF CallFile, NextItem, IInv

\* What is frozen are the bytes of a file, a paper or the requirements.
LEMMA CallBytesTypes ==
  ASSUME IInv, Freezing, Present
  PROVE  CallBytes \in RunBytes
<1>1. source \in [Files -> Versions \union {Gone}]
  BY DEF IInv, TypesInv, TypeInvariant
<1>2. CASE at \in {"inputs", "pdf"}
  <2>1. CallFile \in Files /\ CallFile # NoFile
    BY <1>2, CallFileTypes, NoFileAssumption DEF Freezing, IInv, PointInv
  <2>2. source[CallFile] \in Versions
    BY <1>1, <2>1 DEF Present
  <2>3. CallBytes = <<CallFile, source[CallFile]>>
    BY <1>2 DEF CallBytes
  <2> QED BY <2>1, <2>2, <2>3 DEF RunBytes, FileBytes
<1>3. CASE at = "paper"
  <2>1. NextItem.paper \in Papers
    BY <1>3, ListedTypes DEF IInv, PointInv, NextItem
  <2> QED BY <1>3, <2>1 DEF CallBytes, RunBytes, PaperBytes
<1>4. CASE at = "requirements"
  BY <1>4 DEF CallBytes, RunBytes
<1> QED BY <1>2, <1>3, <1>4 DEF Freezing, Registering

\* The facts of a registration are those of a Run.
LEMMA CallFactsTypes ==
  ASSUME IInv, Registering
  PROVE  CallFacts \in RunFacts
<1>1. paper \in Nat /\ digest \in FileBytes \union {NoDigest}
  BY DEF IInv, RegistryInv, RegistryTypes, TypesInv, TypeInvariant
<1> QED BY <1>1 DEF CallFacts, RunFacts, PdfFacts

-----------------------------------------------------------------------------
(* The Registry *)

\* What is acknowledged is allocated and bound.
LEMMA AcknowledgeRegisters ==
  ASSUME RegistryInv, NEW k \in Keys,
         \/ UNCHANGED registryVars
         \/ Acknowledge(k)
  PROVE  [Register]_registryVars
BY DEF Register

\* The record an allocation saves is a Ref.
LEMMA AllocateRegisters ==
  ASSUME IInv, RunFacts \subseteq Facts, AllocateRef
  PROVE  Register /\ pending'[CallKey] \in Refs /\ pending'[CallKey].key = CallKey
         /\ pending'[CallKey].bytes = CallBytes /\ pending'[CallKey].facts = CallFacts
         /\ pending'[CallKey].id = allocated + 1
<1> DEFINE new == [id |-> allocated + 1, key |-> CallKey, bytes |-> CallBytes, facts |-> CallFacts]
<1>1. Registering
  BY DEF AllocateRef, Freezing
<1>2. CallKey \in Keys /\ CallBytes \in Bytes /\ CallFacts \in Facts
  BY <1>1, CallKeyOpen, CallBytesTypes, CallFactsTypes, RunAssumption DEF AllocateRef
<1>3. allocated \in Nat /\ pending \in [Keys -> Refs \union {NoRef}]
  BY DEF IInv, RegistryInv, RegistryTypes
<1>4. new \in Refs
  BY <1>2, <1>3 DEF Refs
<1>5. Allocate(CallKey, CallBytes, CallFacts)
  BY DEF AllocateRef
<1>6. pending'[CallKey] = new
  BY <1>2, <1>3, <1>5 DEF Allocate
<1>7. Allocate(CallKey, pending'[CallKey].bytes, pending'[CallKey].facts)
  BY <1>5, <1>6
<1> QED BY <1>2, <1>4, <1>6, <1>7 DEF Register

\* Every step of the Run leaves the Registry alone or takes one of its steps.
LEMMA StepsRegister ==
  ASSUME IInv, RunFacts \subseteq Facts, [Next]_vars
  PROVE  [Register]_registryVars
<1>1. CASE AllocateRef
  BY <1>1, AllocateRegisters
<1>2. CASE FreezeRef
  <2>1. CallKey \in Keys /\ Freeze(CallKey, CallBytes)
    BY <1>2, CallKeyOpen DEF FreezeRef, Freezing
  <2>2. Freeze(CallKey, pending[CallKey].bytes)
    BY <2>1 DEF Freeze
  <2> QED BY <2>1, <2>2 DEF Register
<1>3. CASE BindRef
  <2>1. CallKey \in Keys /\ Bind(CallKey)
    BY <1>3, CallKeyOpen DEF BindRef, Freezing
  <2> QED BY <2>1 DEF Register
<1>4. CASE AckInput
  <2>1. InputKey(nextImport) \in Keys
    <3>1. nextImport \in 1..MaxInputs
      BY <1>4, ListedTypes, InitializationAssumption
         DEF AckInput, IInv, PointInv, TypesInv, TypeInvariant
    <3> QED BY <3>1, RunAssumption DEF RunKeys
  <2> QED BY <1>4, <2>1, AcknowledgeRegisters DEF IInv, AckInput, AcknowledgeThen
<1>5. CASE AckItem
  <2>1. PaperKey(nextLiterature) \in Keys /\ PdfKey(nextLiterature) \in Keys
    <3>1. nextLiterature \in 1..MaxItems
      BY <1>5, ListedTypes, InitializationAssumption
         DEF AckItem, IInv, PointInv, TypesInv, TypeInvariant
    <3> QED BY <3>1, RunAssumption DEF RunKeys
  <2> QED BY <1>5, <2>1, AcknowledgeRegisters DEF IInv, AckItem, AcknowledgeThen
<1>6. CASE AckRequirements
  <2>1. RequirementKey \in Keys
    BY RunAssumption DEF RunKeys
  <2> QED BY <1>6, <2>1, AcknowledgeRegisters DEF IInv, AckRequirements, AcknowledgeThen
<1>7. CASE \/ CheckFails \/ ReuseArtifact \/ StartFreezing \/ FreezeFails \/ StorageFails
           \/ InputDone \/ OpenItem \/ ItemDone \/ ItemsDone \/ Finish
  BY <1>7 DEF CheckFails, ReuseArtifact, StartFreezing, FreezeFails, StorageFails, InputDone,
              OpenItem, ItemDone, ItemsDone, Finish, Fails
<1>8. CASE Continue \/ Create \/ Import \/ Pause \/ (\E f \in Files : EditFile(f)) \/ Crash
  BY <1>8 DEF Continue, Resume, Answer, Create, Import, Pause, EditFile, Crash
<1>9. CASE UNCHANGED vars
  BY <1>9 DEF vars
<1> QED BY <1>1, <1>2, <1>3, <1>4, <1>5, <1>6, <1>7, <1>8, <1>9 DEF Next, OwnerStep

-----------------------------------------------------------------------------
(* Types *)

\* The identity a registration returns was given out.
LEMMA ReturnTypes ==
  ASSUME IInv, NEW ref \in Refs, ref.id <= allocated, Return(ref), allocated' = allocated,
         Registering
  PROVE  /\ at' \in {"inputDone", "pdf", "itemDone", "finish"} /\ step' = "check"
         /\ paper' \in 0..allocated' /\ digest' = digest
<1>1. allocated \in Nat /\ paper \in 0..allocated
  BY DEF IInv, RegistryInv, RegistryTypes, TypesInv, TypeInvariant
<1>2. ref.id \in 0..allocated
  BY <1>1 DEF Refs
<1>3. at' \in {"inputDone", "pdf", "itemDone", "finish"}
  BY DEF Return, Registering
<1> QED BY <1>1, <1>2, <1>3 DEF Return

\* Whoever leaves a step at a known point, with everything else unchanged, keeps the types.
LEMMA TypesKept ==
  ASSUME IInv, RegistryTypes', UNCHANGED <<status, imports, listed, complete>>,
         nextImport' \in 0..Len(imports), nextLiterature' \in 0..Len(listed),
         allocated' \in Nat, requirements' \in 0..allocated', paper' \in 0..allocated',
         digest' \in FileBytes \union {NoDigest},
         source' \in [Files -> Versions \union {Gone}],
         at' \in {"idle", "inputs", "inputDone", "ackInput", "items", "paper", "pdf", "itemDone",
             "ackPaper", "ackPdf", "requirements", "finish", "ackRequirements", "agents"},
         step' \in {"check", "freeze"}
  PROVE  TypesInv'
BY DEF IInv, TypesInv, TypeInvariant
\* The Registry's part of the types is enough for the rest of them.
LEMMA TypesStep ==
  ASSUME IInv, RunFacts \subseteq Facts, RegistryInv', [Next]_vars
  PROVE  TypesInv'
<1>1. /\ RegistryTypes /\ RegistryTypes' /\ TypesInv
      /\ allocated \in Nat /\ allocated' \in Nat
  BY DEF IInv, RegistryInv, RegistryTypes
<1>2. /\ nextImport \in 0..Len(imports) /\ nextLiterature \in 0..Len(listed)
      /\ requirements \in 0..allocated /\ paper \in 0..allocated
      /\ digest \in FileBytes \union {NoDigest} /\ step \in {"check", "freeze"}
      /\ source \in [Files -> Versions \union {Gone}]
      /\ imports \in Seq(Files) /\ listed \in Seq(Items) /\ complete \in BOOLEAN
      /\ status \in {"absent", "running", "paused"}
      /\ Len(imports) \in Nat /\ Len(listed) \in Nat
      /\ Len(imports) <= MaxInputs /\ Len(listed) <= MaxItems
  BY <1>1, ListedTypes DEF TypesInv, TypeInvariant
<1>3. at \in {"idle", "inputs", "inputDone", "ackInput", "items", "paper", "pdf", "itemDone",
              "ackPaper", "ackPdf", "requirements", "finish", "ackRequirements", "agents"}
  BY <1>1 DEF TypesInv, TypeInvariant
<1>4. CASE CheckFails \/ StartFreezing \/ FreezeFails \/ StorageFails
  BY <1>4, <1>1, <1>2, <1>3, TypesKept
     DEF CheckFails, StartFreezing, FreezeFails, StorageFails, Fails, Leave, registryVars,
         savedVars, worldVars
<1>5. CASE ReuseArtifact
  <2>1. PICK ref \in EqualRefs : Return(ref)
    BY <1>5 DEF ReuseArtifact
  <2>2. ref \in Refs /\ ref.id <= allocated
    BY <1>1, <2>1 DEF EqualRefs, RegistryTypes, IInv, RegistryInv, IdentitiesAllocated, Trusted
  <2> QED
    BY <1>5, <1>1, <1>2, <2>1, <2>2, ReturnTypes, TypesKept
       DEF ReuseArtifact, CheckPasses, Checking, registryVars, savedVars, worldVars
<1>6. CASE BindRef
  <2>1. CallKey \in Keys /\ IsPending(CallKey) /\ Registering
    BY <1>6, CallKeyOpen DEF BindRef, Freezing, Bind
  <2>2. pending[CallKey] \in Refs /\ pending[CallKey].id <= allocated
    BY <1>1, <2>1, PendingTrusted DEF IInv, RegistryInv, IdentitiesAllocated
  <2> QED
    BY <1>6, <1>1, <1>2, <2>1, <2>2, ReturnTypes, TypesKept
       DEF BindRef, Bind, savedVars, worldVars
<1>7. CASE AllocateRef \/ FreezeRef
  BY <1>7, <1>1, <1>2, <1>3, TypesKept
     DEF AllocateRef, FreezeRef, Allocate, Freeze, savedVars, localVars, worldVars
<1>8. CASE InputDone \/ ItemDone
  <2>1. nextImport' \in 0..Len(imports) /\ nextLiterature' \in 0..Len(listed)
    BY <1>8, <1>2 DEF InputDone, ItemDone, IInv, PointInv
  <2> QED
    BY <1>8, <1>1, <1>2, <1>3, <2>1, TypesKept DEF InputDone, ItemDone, GoTo, registryVars, worldVars
<1>9. CASE AckInput \/ AckItem \/ AckRequirements
  BY <1>9, <1>1, <1>2, <1>3, TypesKept
     DEF AckInput, AckItem, AckRequirements, AcknowledgeThen, Acknowledge, Leave, GoTo,
         registryVars, savedVars, worldVars
<1>10. CASE OpenItem
  <2>1. digest' \in FileBytes \union {NoDigest}
    <3>1. NextItem.pdf \in Files \union {NoFile}
      BY <1>10, <1>2, ListedTypes DEF OpenItem, NextItem, IInv
    <3> QED BY <1>10, <1>2, <3>1 DEF OpenItem, Leave, FileBytes
  <2>2. /\ at' \in {"idle", "paper"} /\ step' = "check" /\ paper' \in {0, paper}
        /\ UNCHANGED <<registryVars, savedVars, worldVars>>
    BY <1>10 DEF OpenItem, Leave
  <2> QED
    BY <1>1, <1>2, <2>1, <2>2, TypesKept DEF registryVars, savedVars, worldVars
<1>11. CASE ItemsDone
  BY <1>11, <1>1, <1>2, <1>3, TypesKept DEF ItemsDone, GoTo, registryVars, savedVars, worldVars
<1>12. CASE Finish
  <2>1. requirements' \in 0..allocated
    <3>1. CASE requirements = 0
      <4>1. RequirementKey \in Keys /\ IsPending(RequirementKey)
        BY <1>12, <3>1, RunAssumption DEF RunKeys, Finish, IInv, HeldInv
      <4>2. /\ pending[RequirementKey] \in Refs
            /\ pending[RequirementKey].id <= allocated
        BY <1>1, <4>1, PendingTrusted DEF IInv, RegistryInv, IdentitiesAllocated
      <4>3. pending[RequirementKey].id \in 0..allocated
        BY <1>1, <4>2 DEF Refs
      <4> QED BY <1>12, <3>1, <4>3 DEF Finish
    <3>2. CASE requirements # 0
      BY <1>12, <1>2, <3>2 DEF Finish
    <3> QED BY <3>1, <3>2
  <2> QED
    BY <1>12, <1>1, <1>2, <1>3, <2>1 DEF Finish, GoTo, TypesInv, TypeInvariant, registryVars, worldVars
<1>13. CASE Create
  <2>1. PICK files \in Lists(Files, MaxInputs), items \in Lists(Items, MaxItems) :
          imports' = files /\ listed' = items
    BY <1>13 DEF Create
  <2>2. /\ imports' \in Seq(Files) /\ Len(imports') <= MaxInputs
        /\ listed' \in Seq(Items) /\ Len(listed') <= MaxItems
    BY <2>1, ListsAreSequences, InitializationAssumption
  <2>3. nextImport = 0 /\ nextLiterature = 0
    <3>1. imports = <<>> /\ listed = <<>>
      BY <1>13 DEF Create, IInv, PointInv
    <3> QED BY <1>2, <3>1, Len(imports) = 0, Len(listed) = 0
  <2>4. Len(imports') \in Nat /\ Len(listed') \in Nat
    BY <2>2, LenProperties
  <2> QED
    BY <1>13, <1>1, <1>2, <1>3, <2>2, <2>3, <2>4
       DEF Create, Enter, TypesInv, TypeInvariant, registryVars, worldVars
<1>14. CASE Import
  <2>1. PICK items \in Lists(Items, MaxItems - Len(listed)) : listed' = listed \o items
    BY <1>14 DEF Import
  <2>2. MaxItems - Len(listed) \in Nat
    BY <1>2, InitializationAssumption
  <2>3. items \in Seq(Items) /\ Len(items) <= MaxItems - Len(listed)
    BY <2>2, ListsAreSequences
  <2>4. Len(items) \in Nat
    BY <2>3, LenProperties
  <2>5. listed' \in Seq(Items) /\ Len(listed') = Len(listed) + Len(items)
    BY <1>2, <2>1, <2>3, ConcatProperties
  <2>6. Len(listed') <= MaxItems /\ nextLiterature \in 0..Len(listed')
    BY <1>2, <2>3, <2>4, <2>5, InitializationAssumption
  <2> QED
    BY <1>14, <1>1, <1>2, <2>5, <2>6
       DEF Import, Enter, TypesInv, TypeInvariant, registryVars, worldVars
<1>15. CASE Continue \/ Pause
  BY <1>15, <1>1, <1>2, <1>3
     DEF Continue, Resume, Answer, Pause, GoOn, Enter, Leave, TypesInv, TypeInvariant,
         registryVars, savedVars, worldVars
<1>16. CASE \E f \in Files : EditFile(f)
  <2>1. PICK f \in Files : EditFile(f)
    BY <1>16
  <2>2. source' \in [Files -> Versions \union {Gone}]
    BY <1>2, <2>1, InitializationAssumption DEF EditFile, Versions, Gone
  <2> QED
    BY <1>1, <1>2, <1>3, <2>1, <2>2, TypesKept DEF EditFile, registryVars, savedVars, localVars
<1>17. CASE Crash
  BY <1>17, <1>1, <1>2, <1>3, TypesKept DEF Crash, Leave, registryVars, savedVars
<1>18. CASE UNCHANGED vars
  BY <1>18, <1>1, <1>2, <1>3, TypesKept DEF vars, registryVars, savedVars, localVars, worldVars
<1> QED
  BY <1>4, <1>5, <1>6, <1>7, <1>8, <1>9, <1>10, <1>11, <1>12, <1>13, <1>14, <1>15, <1>16, <1>17, <1>18
     DEF Next, OwnerStep
-----------------------------------------------------------------------------
(* Where the owner stands *)

\* A registration that returns leads to the point that saves it.
LEMMA ReturnPoint ==
  ASSUME IInv, NEW ref, Return(ref), Registering, UNCHANGED savedVars,
         at = "pdf" => NextItem.pdf # NoFile
  PROVE  PointInv'
<1>1. nextImport \in Nat /\ nextLiterature \in Nat /\ Len(imports) \in Nat
      /\ nextImport \in 0..Len(imports)
  BY ListedTypes DEF IInv, TypesInv, TypeInvariant
<1>2. CASE at = "inputs"
  BY <1>1, <1>2 DEF Return, Registering, savedVars, IInv, PointInv, AfterInputs, AfterItems
<1>3. CASE at = "paper"
  BY <1>3 DEF Return, savedVars, IInv, PointInv, AfterInputs, AfterItems, NextItem, DigestOf
<1>4. CASE at = "pdf"
  BY <1>4 DEF Return, savedVars, IInv, PointInv, AfterInputs, AfterItems, NextItem, DigestOf
<1>5. CASE at = "requirements"
  BY <1>5 DEF Return, savedVars, IInv, PointInv, AfterInputs, AfterItems
<1> QED BY <1>2, <1>3, <1>4, <1>5 DEF Registering

\* Leaving keeps the saved progress consistent.
LEMMA LeavePoint ==
  ASSUME IInv, at' = "idle", UNCHANGED <<imports, listed, nextImport, nextLiterature, complete, requirements>>,
         status' = status
  PROVE  PointInv'
BY DEF IInv, PointInv, AfterInputs, AfterItems

\* Each step goes where the saved progress lets it go.
LEMMA PointStep ==
  ASSUME IInv, [Next]_vars
  PROVE  PointInv'
<1>1. /\ nextImport \in 0..Len(imports) /\ nextLiterature \in 0..Len(listed)
      /\ Len(imports) \in Nat /\ Len(listed) \in Nat /\ nextImport \in Nat /\ nextLiterature \in Nat
  BY ListedTypes DEF IInv, TypesInv, TypeInvariant
<1>2. PointInv
  BY DEF IInv
<1>3. CASE CheckFails \/ FreezeFails \/ StorageFails \/ Crash
  BY <1>3, LeavePoint DEF CheckFails, FreezeFails, StorageFails, Crash, Fails, Leave, savedVars
<1>4. CASE StartFreezing
  <2>1. at # "requirements" /\ (at = "pdf" => NextItem.pdf # NoFile)
    BY <1>4 DEF StartFreezing, CheckPasses, Checking
  <2> QED BY <1>4, <1>2, <2>1 DEF StartFreezing, savedVars, PointInv, DigestOf, NextItem
<1>5. CASE ReuseArtifact
  BY <1>5, ReturnPoint DEF ReuseArtifact, CheckPasses, Checking
<1>6. CASE BindRef
  <2>1. Registering /\ (at = "pdf" => NextItem.pdf # NoFile)
    BY <1>6, <1>2 DEF BindRef, Freezing, PointInv
  <2>2. Return(pending[CallKey]) /\ UNCHANGED savedVars
    BY <1>6 DEF BindRef
  <2> QED BY <2>1, <2>2, ReturnPoint
<1>7. CASE AllocateRef \/ FreezeRef
  BY <1>7, <1>2 DEF AllocateRef, FreezeRef, savedVars, localVars, PointInv, DigestOf, NextItem
<1>8. CASE InputDone
  BY <1>8, <1>1, <1>2 DEF InputDone, GoTo, PointInv, AfterInputs, AfterItems
<1>9. CASE ItemDone
  BY <1>9, <1>1, <1>2 DEF ItemDone, GoTo, PointInv, AfterInputs, AfterItems
<1>10. CASE AckInput
  BY <1>10, <1>2 DEF AckInput, AcknowledgeThen, Leave, GoTo, savedVars, PointInv, AfterInputs, AfterItems
<1>11. CASE AckItem
  BY <1>11, <1>2 DEF AckItem, AcknowledgeThen, Leave, GoTo, savedVars, PointInv, AfterInputs, AfterItems
<1>12. CASE AckRequirements
  BY <1>12, <1>2
     DEF AckRequirements, AcknowledgeThen, Leave, GoTo, savedVars, PointInv, AfterInputs, AfterItems
<1>13. CASE OpenItem
  <2>1. nextLiterature + 1 \in 1..Len(listed)
    BY <1>13, <1>1 DEF OpenItem
  <2>2. NextItem.pdf \in Files \union {NoFile}
    BY <2>1, ListedTypes DEF NextItem, IInv
  <2>3. CASE NextItem.pdf # NoFile /\ source[NextItem.pdf] = Gone
    BY <1>13, <2>3, LeavePoint DEF OpenItem, Leave, savedVars
  <2>4. CASE ~(NextItem.pdf # NoFile /\ source[NextItem.pdf] = Gone)
    <3>1. /\ at' = "paper" /\ UNCHANGED savedVars
          /\ digest' = IF NextItem.pdf = NoFile THEN NoDigest ELSE <<NextItem.pdf, source[NextItem.pdf]>>
      BY <1>13, <2>4 DEF OpenItem
    <3>2. NextItem.pdf # NoFile => digest' \in FileBytes /\ digest'[1] = NextItem.pdf
      <4>1. NextItem.pdf # NoFile => source[NextItem.pdf] \in Versions
        BY <2>2, <2>4 DEF IInv, TypesInv, TypeInvariant
      <4> QED BY <2>2, <3>1, <4>1 DEF FileBytes
    <3>3. nextImport = Len(imports)
      BY <1>13, <1>2 DEF OpenItem, AtItems, PointInv, AfterInputs
    <3>4. NextItem' = NextItem
      BY <3>1 DEF NextItem, savedVars
    <3>5. DigestOf(NextItem)'
      BY <3>1, <3>2, <3>4 DEF DigestOf
    <3> QED
      BY <1>13, <1>1, <1>2, <3>1, <3>3, <3>5 DEF OpenItem, AtItems, savedVars, PointInv, AfterInputs, AfterItems
  <2> QED BY <2>3, <2>4
<1>14. CASE ItemsDone
  BY <1>14, <1>2 DEF ItemsDone, AtItems, GoTo, savedVars, PointInv, AfterInputs, AfterItems
<1>15. CASE Finish
  <2>1. requirements' # 0
    <3>1. CASE requirements = 0
      <4>1. RequirementKey \in Keys /\ IsPending(RequirementKey)
        BY <1>15, <3>1, RunAssumption DEF RunKeys, Finish, IInv, HeldInv
      <4>2. pending[RequirementKey] \in Refs
        BY <4>1, PendingTrusted DEF IInv, RegistryInv
      <4> QED BY <1>15, <3>1, <4>2 DEF Finish, Refs
    <3>2. CASE requirements # 0
      BY <1>15, <3>2 DEF Finish
    <3> QED BY <3>1, <3>2
  <2> QED
    BY <1>15, <1>2, <2>1 DEF Finish, GoTo, PointInv, AfterInputs, AfterItems
<1>16. CASE Create \/ Import
  BY <1>16, <1>2 DEF Create, Import, Enter, PointInv, AfterInputs, AfterItems
<1>17. CASE Continue
  BY <1>17, <1>2
     DEF Continue, Resume, Answer, GoOn, Enter, savedVars, PointInv, AfterInputs, AfterItems
<1>18. CASE Pause
  BY <1>18, <1>2 DEF Pause, Leave, PointInv, AfterInputs, AfterItems
<1>19. CASE UNCHANGED vars \/ \E f \in Files : EditFile(f)
  BY <1>19, <1>2 DEF vars, EditFile, savedVars, localVars, PointInv, DigestOf, NextItem
<1> QED
  BY <1>3, <1>4, <1>5, <1>6, <1>7, <1>8, <1>9, <1>10, <1>11, <1>12, <1>13, <1>14, <1>15, <1>16,
     <1>17, <1>18, <1>19 DEF Next, OwnerStep
-----------------------------------------------------------------------------
(* What is saved *)

\* What is saved stays as consistent as it is when nothing of it changes.
LEMMA SavedKept ==
  ASSUME SavedInv, UNCHANGED <<pending, artifacts, imports, listed, nextImport, nextLiterature, requirements>>
  PROVE  SavedInv'
<1>1. \A k : (IsPending(k) <=> IsPending(k)') /\ (Done(k) <=> Done(k)')
             /\ (BoundIfPending(k) <=> BoundIfPending(k)')
  BY DEF IsPending, Done, BoundIfPending, IsBound
<1>2. PendingInv'
  BY <1>1 DEF SavedInv, PendingInv
<1>3. OnceInv'
  BY <1>1 DEF SavedInv, OnceInv, OnePerOperation, Trusted, IsPending
<1>4. ImportedInv'
  BY DEF SavedInv, ImportedInv, InputImported, ItemImported
<1> QED BY <1>2, <1>3, <1>4 DEF SavedInv

\* What is imported stays imported as artifacts are added.
LEMMA ImportedGrows ==
  ASSUME artifacts \subseteq artifacts', UNCHANGED <<imports, listed>>
  PROVE  \A i : (InputImported(i) => InputImported(i)') /\ (ItemImported(i) => ItemImported(i)')
<1> SUFFICES ASSUME NEW i PROVE (InputImported(i) => InputImported(i)') /\ (ItemImported(i) => ItemImported(i)')
  OBVIOUS
<1>1. InputImported(i) => InputImported(i)'
  BY DEF InputImported
<1>2. ASSUME ItemImported(i) PROVE ItemImported(i)'
  <2>1. PICK p \in artifacts :
          /\ p.facts.kind = "paper" /\ p.bytes = <<"paper", listed[i].paper>>
          /\ listed[i].pdf = NoFile <=> p.facts.pdf = NoDigest
          /\ listed[i].pdf # NoFile =>
               /\ p.facts.pdf[1] = listed[i].pdf
               /\ \E ref \in artifacts : ref.facts = PdfFacts(p.id) /\ ref.bytes[1] = listed[i].pdf
    BY <1>2 DEF ItemImported
  <2>2. listed[i].pdf # NoFile =>
          \E ref \in artifacts' : ref.facts = PdfFacts(p.id) /\ ref.bytes[1] = listed[i].pdf
    BY <2>1
  <2> QED BY <2>1, <2>2 DEF ItemImported
<1> QED BY <1>1, <1>2

\* An allocation is of an operation that is neither passed nor bound.
LEMMA AllocateSaves ==
  ASSUME IInv, RunFacts \subseteq Facts, AllocateRef
  PROVE  SavedInv'
<1>1. /\ Registering /\ CallKey \in Keys /\ CallKey \in RunKeys /\ ~Done(CallKey)
      /\ ~IsPending(CallKey)
      /\ pending \in [Keys -> Refs \union {NoRef}]
  BY CallKeyOpen DEF AllocateRef, Freezing, Allocate, IInv, RegistryInv, RegistryTypes
<1>2. /\ pending' = [pending EXCEPT ![CallKey] = pending'[CallKey]]
      /\ pending'[CallKey].key = CallKey /\ pending'[CallKey].bytes = CallBytes
      /\ UNCHANGED <<artifacts, savedVars>>
  BY <1>1, AllocateRegisters DEF AllocateRef, Allocate
<1>3. \A k \in Keys : k # CallKey => pending'[k] = pending[k]
  BY <1>1, <1>2
<1>4. PendingInv'
  <2> SUFFICES ASSUME NEW k \in Keys, IsPending(k)'
               PROVE  /\ k \in RunKeys /\ pending'[k].key = k
                      /\ \A i \in 1..MaxInputs : k = InputKey(i) =>
                           i <= Len(imports) /\ pending'[k].bytes[1] = imports[i]
                      /\ \A i \in 1..MaxItems : k = PaperKey(i) =>
                           i <= Len(listed) /\ pending'[k].bytes = <<"paper", listed[i].paper>>
                      /\ \A i \in 1..MaxItems : k = PdfKey(i) =>
                           /\ i <= Len(listed) /\ listed[i].pdf # NoFile
                           /\ pending'[k].bytes[1] = listed[i].pdf
    BY <1>2 DEF PendingInv, savedVars
  <2>1. CASE k # CallKey
    BY <1>3, <2>1 DEF IsPending, IInv, SavedInv, PendingInv
  <2>2. CASE k = CallKey
    <3>1. CASE at = "inputs"
      <4>1. /\ CallKey = InputKey(nextImport + 1) /\ nextImport + 1 <= Len(imports)
            /\ CallBytes[1] = imports[nextImport + 1]
        <5>1. CallBytes = <<CallFile, source[CallFile]>>
          BY <3>1 DEF CallBytes
        <5> QED BY <1>1, <3>1, <5>1, CallFileTypes, ListedTypes DEF CallKey, Registering, IInv,
                   TypesInv, TypeInvariant
      <4> QED BY <1>1, <1>2, <2>2, <4>1, KeysDiffer
    <3>2. CASE at = "paper"
      <4>1. /\ CallKey = PaperKey(nextLiterature + 1) /\ nextLiterature + 1 <= Len(listed)
            /\ CallBytes = <<"paper", listed[nextLiterature + 1].paper>>
        BY <3>2, ListedTypes DEF CallKey, CallBytes, NextItem, IInv, PointInv
      <4> QED BY <1>1, <1>2, <2>2, <4>1, KeysDiffer
    <3>3. CASE at = "pdf"
      <4>1. /\ CallKey = PdfKey(nextLiterature + 1) /\ nextLiterature + 1 <= Len(listed)
            /\ listed[nextLiterature + 1].pdf # NoFile
            /\ CallBytes[1] = listed[nextLiterature + 1].pdf
        <5>1. CallBytes = <<CallFile, source[CallFile]>>
          BY <3>3 DEF CallBytes
        <5>2. nextLiterature + 1 <= Len(listed) /\ NextItem.pdf # NoFile
          BY <3>3, ListedTypes DEF AllocateRef, Freezing, IInv, PointInv
        <5> QED BY <1>1, <3>3, <5>1, <5>2, CallFileTypes DEF CallKey, NextItem
      <4> QED BY <1>1, <1>2, <2>2, <4>1, KeysDiffer
    <3>4. CASE at = "requirements"
      <4>1. CallKey = RequirementKey
        BY <3>4 DEF CallKey
      <4> QED BY <1>1, <1>2, <2>2, <4>1, KeysDiffer
    <3> QED BY <1>1, <3>1, <3>2, <3>3, <3>4 DEF Registering
  <2> QED BY <2>1, <2>2
<1>5. OnceInv'
  <2>1. \A ref \in artifacts : ref.key # CallKey
    BY <1>1 DEF IInv, SavedInv, OnceInv
  <2>2. \A ref \in Trusted : ref.key # CallKey
    BY <1>1, <2>1 DEF Trusted, IInv, SavedInv, PendingInv
  <2>3. Trusted' \subseteq Trusted \union {pending'[CallKey]}
    BY <1>2, <1>3 DEF Trusted, IsPending
  <2>4. OnePerOperation'
    BY <1>2, <2>2, <2>3 DEF OnePerOperation, IInv, SavedInv, OnceInv
  <2>5. \A ref \in artifacts' : Done(ref.key)' \/ IsPending(ref.key)'
    <3> SUFFICES ASSUME NEW ref \in artifacts PROVE Done(ref.key) \/ IsPending(ref.key)'
      BY <1>2 DEF Done, savedVars
    <3>1. ref.key \in Keys
      BY DEF IInv, RegistryInv, RegistryTypes, Refs
    <3> QED BY <1>3, <2>1, <3>1 DEF IsPending, IInv, SavedInv, OnceInv
  <2>6. \A k \in Keys : Done(k)' => BoundIfPending(k)'
    BY <1>1, <1>2, <1>3 DEF Done, savedVars, BoundIfPending, IsPending, IsBound, IInv, SavedInv, OnceInv
  <2> QED BY <2>4, <2>5, <2>6 DEF OnceInv
<1>6. ImportedInv'
  BY <1>2 DEF savedVars, IInv, SavedInv, ImportedInv, InputImported, ItemImported
<1> QED BY <1>4, <1>5, <1>6 DEF SavedInv

\* Binding adds a Ref that was trusted before.
LEMMA BindSaves ==
  ASSUME IInv, BindRef
  PROVE  /\ SavedInv' /\ pending[CallKey] \in artifacts' /\ pending[CallKey].facts = CallFacts
         /\ artifacts \subseteq artifacts' /\ UNCHANGED <<pending, savedVars>>
<1>1. /\ Registering /\ CallKey \in Keys /\ IsPending(CallKey)
      /\ pending[CallKey] \in Refs /\ pending[CallKey] \in Trusted
      /\ pending[CallKey].facts = CallFacts
  BY CallKeyOpen, PendingTrusted DEF BindRef, Freezing, Bind, FactsAgree, IInv, RegistryInv
<1>2. artifacts' = artifacts \union {pending[CallKey]} /\ UNCHANGED <<pending, savedVars>>
  BY DEF BindRef, Bind
<1>3. Trusted' = Trusted
  BY <1>1, <1>2 DEF Trusted, IsPending
<1>4. PendingInv'
  BY <1>2 DEF savedVars, IInv, SavedInv, PendingInv, IsPending
<1>5. OnceInv'
  <2>1. pending[CallKey].key = CallKey
    BY <1>1 DEF IInv, SavedInv, PendingInv
  <2> QED
    BY <1>1, <1>2, <1>3, <2>1
       DEF savedVars, IInv, SavedInv, OnceInv, OnePerOperation, Done, BoundIfPending, IsPending, IsBound
<1>6. ImportedInv'
  BY <1>2, ImportedGrows DEF savedVars, IInv, SavedInv, ImportedInv
<1> QED BY <1>1, <1>2, <1>4, <1>5, <1>6 DEF SavedInv

\* Only what is passed is acknowledged.
LEMMA AcknowledgeSaves ==
  ASSUME IInv, NEW k \in Keys, Done(k), Acknowledge(k), UNCHANGED savedVars
  PROVE  SavedInv'
<1>1. /\ pending' = [pending EXCEPT ![k] = NoRef] /\ artifacts' = artifacts
      /\ pending \in [Keys -> Refs \union {NoRef}]
  BY DEF Acknowledge, IInv, RegistryInv, RegistryTypes
<1>2. \A j \in Keys : IsPending(j)' => j # k /\ IsPending(j) /\ pending'[j] = pending[j]
  BY <1>1 DEF IsPending
<1>3. PendingInv'
  BY <1>2 DEF savedVars, IInv, SavedInv, PendingInv
<1>4. Trusted' \subseteq Trusted
  BY <1>1, <1>2 DEF Trusted
<1>5. OnceInv'
  <2>1. OnePerOperation'
    BY <1>4 DEF IInv, SavedInv, OnceInv, OnePerOperation
  <2>2. \A ref \in artifacts' : Done(ref.key)' \/ IsPending(ref.key)'
    <3> SUFFICES ASSUME NEW ref \in artifacts, ~Done(ref.key) PROVE IsPending(ref.key)'
      BY <1>1 DEF Done, savedVars
    <3>1. ref.key \in Keys /\ ref.key # k
      BY DEF IInv, RegistryInv, RegistryTypes, Refs
    <3> QED BY <1>1, <3>1 DEF IsPending, IInv, SavedInv, OnceInv
  <2>3. \A j \in Keys : Done(j)' => BoundIfPending(j)'
    BY <1>1, <1>2 DEF Done, savedVars, BoundIfPending, IsBound, IInv, SavedInv, OnceInv
  <2> QED BY <2>1, <2>2, <2>3 DEF OnceInv
<1>6. ImportedInv'
  BY <1>1 DEF savedVars, IInv, SavedInv, ImportedInv, InputImported, ItemImported
<1> QED BY <1>3, <1>5, <1>6 DEF SavedInv

\* Progress that grows over what is bound keeps the operations apart.
LEMMA ProgressOnce ==
  ASSUME IInv, UNCHANGED <<pending, artifacts>>,
         \A k : Done(k) => Done(k)',
         \A k \in Keys : Done(k)' => Done(k) \/ BoundIfPending(k)
  PROVE  OnceInv'
BY DEF IInv, SavedInv, OnceInv, OnePerOperation, Trusted, IsPending, BoundIfPending, IsBound
\* A file that was read has a digest.
LEMMA DigestIsOne == NoDigest \notin FileBytes
<1> SUFFICES ASSUME NoDigest \in FileBytes PROVE FALSE
  OBVIOUS
<1>1. PICK f \in Files, v \in Versions : NoDigest = <<f, v>>
  BY DEF FileBytes
<1>2. <<>> = <<f, v>>
  BY <1>1 DEF NoDigest
<1> QED BY <1>2

\* Every step saves no more than what was registered.
LEMMA SavedStep ==
  ASSUME IInv, RunFacts \subseteq Facts, [Next]_vars
  PROVE  SavedInv'
<1>1. /\ nextImport \in 0..Len(imports) /\ nextLiterature \in 0..Len(listed)
      /\ Len(imports) \in Nat /\ Len(listed) \in Nat /\ nextImport \in Nat /\ nextLiterature \in Nat
      /\ Len(imports) <= MaxInputs /\ Len(listed) <= MaxItems
  BY ListedTypes DEF IInv, TypesInv, TypeInvariant
<1>2. SavedInv /\ PendingInv /\ OnceInv /\ ImportedInv
  BY DEF IInv, SavedInv
<1>3. CASE AllocateRef
  BY <1>3, AllocateSaves
<1>4. CASE BindRef
  BY <1>4, BindSaves
<1>5. CASE AckInput
  <2>1. InputKey(nextImport) \in Keys /\ Done(InputKey(nextImport))
    <3>1. nextImport \in 1..MaxInputs
      BY <1>1, <1>5, InitializationAssumption DEF AckInput, IInv, PointInv
    <3> QED BY <3>1, RunAssumption DEF RunKeys, Done
  <2>2. CASE UNCHANGED registryVars
    BY <1>2, <1>5, <2>2, SavedKept DEF AckInput, registryVars, savedVars
  <2>3. CASE Acknowledge(InputKey(nextImport))
    BY <1>5, <2>1, <2>3, AcknowledgeSaves DEF AckInput
  <2> QED BY <1>5, <2>2, <2>3 DEF AckInput, AcknowledgeThen
<1>6. CASE AckItem
  <2>1. /\ PaperKey(nextLiterature) \in Keys /\ Done(PaperKey(nextLiterature))
        /\ PdfKey(nextLiterature) \in Keys /\ Done(PdfKey(nextLiterature))
    <3>1. nextLiterature \in 1..MaxItems
      BY <1>1, <1>6, InitializationAssumption DEF AckItem, IInv, PointInv
    <3> QED BY <3>1, RunAssumption DEF RunKeys, Done
  <2>2. CASE UNCHANGED registryVars
    BY <1>2, <1>6, <2>2, SavedKept DEF AckItem, registryVars, savedVars
  <2>3. CASE Acknowledge(PaperKey(nextLiterature)) \/ Acknowledge(PdfKey(nextLiterature))
    BY <1>6, <2>1, <2>3, AcknowledgeSaves DEF AckItem
  <2> QED BY <1>6, <2>2, <2>3 DEF AckItem, AcknowledgeThen
<1>7. CASE AckRequirements
  <2>1. RequirementKey \in Keys /\ Done(RequirementKey)
    BY <1>7, RunAssumption DEF RunKeys, Done, AckRequirements, IInv, PointInv
  <2>2. CASE UNCHANGED registryVars
    BY <1>2, <1>7, <2>2, SavedKept DEF AckRequirements, registryVars, savedVars
  <2>3. CASE Acknowledge(RequirementKey)
    BY <1>7, <2>1, <2>3, AcknowledgeSaves DEF AckRequirements
  <2> QED BY <1>7, <2>2, <2>3 DEF AckRequirements, AcknowledgeThen
<1>8. CASE InputDone
  <2>1. /\ UNCHANGED <<pending, artifacts, imports, listed, nextLiterature, requirements>>
        /\ nextImport' = nextImport + 1
        /\ InputImported(nextImport + 1) /\ BoundIfPending(InputKey(nextImport + 1))
    BY <1>8 DEF InputDone, registryVars, IInv, HeldInv
  <2>2. PendingInv'
    BY <1>2, <2>1 DEF PendingInv, IsPending
  <2>3. OnceInv'
    <3>1. \A k : Done(k) => Done(k)'
      BY <1>1, <2>1 DEF Done
    <3>2. \A k \in Keys : Done(k)' => Done(k) \/ BoundIfPending(k)
      <4> SUFFICES ASSUME NEW k \in Keys, Done(k)', ~Done(k) PROVE BoundIfPending(k)
        OBVIOUS
      <4>1. k = InputKey(nextImport + 1)
        BY <1>1, <2>1 DEF Done
      <4> QED BY <2>1, <4>1
    <3> QED BY <2>1, <3>1, <3>2, ProgressOnce
  <2>4. ImportedInv'
    <3>1. \A i \in 1..nextImport' : i \in 1..nextImport \/ i = nextImport + 1
      BY <1>1, <2>1
    <3> QED BY <1>2, <2>1, <3>1, ImportedGrows DEF ImportedInv
  <2> QED BY <2>2, <2>3, <2>4 DEF SavedInv
<1>9. CASE ItemDone
  <2> DEFINE n == nextLiterature + 1
  <2>1. /\ UNCHANGED <<pending, artifacts, imports, listed, nextImport, requirements>>
        /\ nextLiterature' = n
        /\ PaperHeld /\ BoundIfPending(PaperKey(n)) /\ DigestOf(NextItem) /\ n \in 1..MaxItems
    BY <1>1, <1>9, InitializationAssumption DEF ItemDone, registryVars, IInv, HeldInv, PointInv
  <2>2. BoundIfPending(PdfKey(n)) /\ (NextItem.pdf # NoFile => PdfHeld)
    <3>1. CASE at = "itemDone"
      BY <3>1 DEF IInv, HeldInv
    <3>2. CASE at = "pdf" /\ NextItem.pdf = NoFile
      <4>1. PdfKey(n) \in Keys
        BY <2>1, RunAssumption DEF RunKeys
      <4> QED BY <1>2, <2>1, <3>2, <4>1 DEF BoundIfPending, PendingInv, NextItem
    <3> QED BY <1>9, <3>1, <3>2 DEF ItemDone
  <2>3. PendingInv'
    BY <1>2, <2>1 DEF PendingInv, IsPending
  <2>4. OnceInv'
    <3>1. \A k : Done(k) => Done(k)'
      BY <1>1, <2>1 DEF Done
    <3>2. \A k \in Keys : Done(k)' => Done(k) \/ BoundIfPending(k)
      <4> SUFFICES ASSUME NEW k \in Keys, Done(k)', ~Done(k) PROVE BoundIfPending(k)
        OBVIOUS
      <4>1. k = PaperKey(n) \/ k = PdfKey(n)
        BY <1>1, <2>1 DEF Done
      <4> QED BY <2>1, <2>2, <4>1
    <3> QED BY <2>1, <3>1, <3>2, ProgressOnce
  <2>5. ItemImported(n)
    <3>1. PICK p \in artifacts : /\ p.id = paper /\ p.facts = PaperFacts(digest)
                                 /\ p.bytes = <<"paper", NextItem.paper>>
      BY <2>1 DEF PaperHeld
    <3>2. p.facts.kind = "paper" /\ p.facts.pdf = digest
      BY <3>1 DEF PaperFacts
    <3>3. listed[n].pdf = NoFile <=> digest = NoDigest
      BY <2>1, DigestIsOne DEF DigestOf, NextItem
    <3>4. listed[n].pdf # NoFile =>
            /\ digest[1] = listed[n].pdf
            /\ \E ref \in artifacts : ref.facts = PdfFacts(p.id) /\ ref.bytes[1] = listed[n].pdf
      BY <2>1, <2>2, <3>1 DEF DigestOf, NextItem, PdfHeld
    <3> QED BY <3>1, <3>2, <3>3, <3>4 DEF ItemImported, NextItem
  <2>6. ImportedInv'
    <3>1. \A i \in 1..nextLiterature' : i \in 1..nextLiterature \/ i = n
      BY <1>1, <2>1
    <3> QED BY <1>2, <2>1, <2>5, <3>1, ImportedGrows DEF ImportedInv
  <2> QED BY <2>3, <2>4, <2>6 DEF SavedInv
<1>10. CASE Finish
  <2>1. /\ UNCHANGED <<pending, artifacts, imports, listed, nextImport, nextLiterature>>
        /\ requirements' = IF requirements = 0 THEN pending[RequirementKey].id ELSE requirements
        /\ requirements = 0 =>
             /\ IsPending(RequirementKey) /\ pending[RequirementKey] \in artifacts
             /\ pending[RequirementKey].facts = RequirementFacts
    BY <1>10 DEF Finish, registryVars, IInv, HeldInv, IsBound
  <2>2. PendingInv'
    BY <1>2, <2>1 DEF PendingInv, IsPending
  <2>3. OnceInv'
    <3>1. \A k : Done(k) => Done(k)'
      BY <2>1 DEF Done
    <3>2. \A k \in Keys : Done(k)' => Done(k) \/ BoundIfPending(k)
      BY <2>1 DEF Done, BoundIfPending, IsBound
    <3> QED BY <2>1, <3>1, <3>2, ProgressOnce
  <2>4. ImportedInv'
    BY <1>2, <2>1, ImportedGrows DEF ImportedInv
  <2> QED BY <2>2, <2>3, <2>4 DEF SavedInv
<1>11. CASE Create
  <2>1. /\ UNCHANGED <<pending, artifacts, nextImport, nextLiterature, requirements>>
        /\ imports = <<>> /\ listed = <<>>
    BY <1>11 DEF Create, registryVars, IInv, PointInv
  <2>2. Len(imports) = 0 /\ Len(listed) = 0 /\ nextImport = 0 /\ nextLiterature = 0
    <3>1. Len(imports) = 0 /\ Len(listed) = 0
      BY <2>1
    <3> QED BY <1>1, <3>1
  <2>3. PendingInv'
    BY <1>2, <2>1, <2>2 DEF PendingInv, IsPending
  <2>4. OnceInv'
    BY <2>1, ProgressOnce DEF Done
  <2>5. ImportedInv'
    BY <1>2, <2>1, <2>2 DEF ImportedInv
  <2> QED BY <2>3, <2>4, <2>5 DEF SavedInv
<1>12. CASE Import
  <2>1. PICK items \in Lists(Items, MaxItems - Len(listed)) : listed' = listed \o items
    BY <1>12 DEF Import
  <2>2. items \in Seq(Items) /\ listed \in Seq(Items)
    <3>1. MaxItems - Len(listed) \in Nat
      BY <1>1, InitializationAssumption
    <3> QED BY <3>1, ListsAreSequences DEF IInv, TypesInv, TypeInvariant
  <2>3. Len(items) \in Nat /\ Len(listed') = Len(listed) + Len(items)
    BY <2>1, <2>2, LenProperties, ConcatProperties
  <2>4. \A i \in 1..Len(listed) : listed'[i] = listed[i] /\ i <= Len(listed')
    BY <1>1, <2>1, <2>2, <2>3, ConcatProperties
  <2>5. UNCHANGED <<pending, artifacts, imports, nextImport, nextLiterature, requirements>>
    BY <1>12 DEF Import, registryVars
  <2>6. PendingInv'
    BY <1>1, <1>2, <2>4, <2>5 DEF PendingInv, IsPending
  <2>7. OnceInv'
    BY <2>5, ProgressOnce DEF Done
  <2>8. ImportedInv'
    <3>1. \A i \in 1..nextLiterature : listed'[i] = listed[i]
      BY <1>1, <2>4
    <3> QED BY <1>2, <2>5, <3>1 DEF ImportedInv, InputImported, ItemImported
  <2> QED BY <2>6, <2>7, <2>8 DEF SavedInv
<1>13. CASE \/ CheckFails \/ ReuseArtifact \/ StartFreezing \/ FreezeFails \/ StorageFails
            \/ OpenItem \/ ItemsDone \/ FreezeRef
  BY <1>2, <1>13, SavedKept
     DEF CheckFails, ReuseArtifact, StartFreezing, FreezeFails, StorageFails, OpenItem, ItemsDone,
         FreezeRef, Freeze, Fails, registryVars, savedVars
<1>14. CASE Continue \/ Pause \/ Crash \/ (\E f \in Files : EditFile(f)) \/ UNCHANGED vars
  BY <1>2, <1>14, SavedKept
     DEF Continue, Resume, Answer, Pause, Crash, EditFile, vars, registryVars, savedVars
<1> QED
  BY <1>3, <1>4, <1>5, <1>6, <1>7, <1>8, <1>9, <1>10, <1>11, <1>12, <1>13, <1>14 DEF Next, OwnerStep

-----------------------------------------------------------------------------
(* What the owner holds *)

\* A registration that returns hands over an artifact of what was asked for.
LEMMA ReturnHeld ==
  ASSUME IInv, Registering, NEW ref \in artifacts', artifacts \subseteq artifacts',
         UNCHANGED <<pending, savedVars>>, Return(ref), ref.facts = CallFacts,
         IsPending(CallKey) => pending[CallKey] \in artifacts',
         at = "inputs" => ref.bytes[1] = imports[nextImport + 1],
         at = "paper" => ref.bytes = <<"paper", NextItem.paper>>,
         at = "pdf" => NextItem.pdf # NoFile /\ ref.bytes[1] = NextItem.pdf,
         at = "requirements" => IsPending(RequirementKey) /\ ref = pending[RequirementKey]
  PROVE  HeldInv'
<1>1. NextItem' = NextItem /\ digest' = digest
  BY DEF NextItem, savedVars, Return
<1>2. CASE at = "inputs"
  <2>1. at' = "inputDone" /\ CallKey = InputKey(nextImport + 1) /\ CallFacts = InputFacts
    BY <1>2 DEF Return, CallKey, CallFacts
  <2>2. InputImported(nextImport + 1)'
    BY <1>2, <2>1 DEF InputImported, savedVars
  <2>3. BoundIfPending(InputKey(nextImport + 1))'
    BY <2>1 DEF BoundIfPending, IsPending, IsBound, savedVars
  <2> QED BY <2>1, <2>2, <2>3 DEF HeldInv, savedVars, BoundIfPending, IsPending, IsBound, InputImported
<1>3. CASE at = "paper"
  <2>1. /\ at' = "pdf" /\ paper' = ref.id
        /\ CallKey = PaperKey(nextLiterature + 1) /\ CallFacts = PaperFacts(digest)
    BY <1>3 DEF Return, CallKey, CallFacts
  <2>2. PaperHeld'
    BY <1>1, <1>3, <2>1 DEF PaperHeld
  <2> QED BY <2>1, <2>2 DEF HeldInv, savedVars, BoundIfPending, IsPending, IsBound
<1>4. CASE at = "pdf"
  <2>1. /\ at' = "itemDone" /\ paper' = paper
        /\ CallKey = PdfKey(nextLiterature + 1) /\ CallFacts = PdfFacts(paper)
    BY <1>4 DEF Return, CallKey, CallFacts
  <2>2. PaperHeld /\ BoundIfPending(PaperKey(nextLiterature + 1))
    BY <1>4 DEF IInv, HeldInv
  <2>3. PaperHeld'
    BY <1>1, <2>1, <2>2 DEF PaperHeld
  <2>4. PdfHeld'
    BY <1>1, <1>4, <2>1 DEF PdfHeld
  <2>5. BoundIfPending(PaperKey(nextLiterature + 1))'
    BY <2>2 DEF BoundIfPending, IsPending, IsBound, savedVars
  <2> QED BY <2>1, <2>3, <2>4, <2>5 DEF HeldInv, savedVars, BoundIfPending, IsPending, IsBound
<1>5. CASE at = "requirements"
  <2>1. at' = "finish" /\ CallFacts = RequirementFacts
    BY <1>5 DEF Return, CallFacts
  <2> QED BY <1>5, <2>1 DEF HeldInv, IsPending, IsBound
<1> QED BY <1>2, <1>3, <1>4, <1>5 DEF Registering

\* Every step holds what the next one will save.
LEMMA HeldStep ==
  ASSUME IInv, RunFacts \subseteq Facts, [Next]_vars
  PROVE  HeldInv'
<1>1. /\ Len(imports) \in Nat /\ Len(listed) \in Nat /\ nextImport \in Nat /\ nextLiterature \in Nat
      /\ Len(imports) <= MaxInputs /\ Len(listed) <= MaxItems
  BY ListedTypes DEF IInv, TypesInv
<1>2. PendingInv /\ HeldInv /\ PointInv
  BY DEF IInv, SavedInv
<1>3. CASE ReuseArtifact
  <2>1. PICK ref \in EqualRefs : Return(ref)
    BY <1>3 DEF ReuseArtifact
  <2>2. /\ Registering /\ at # "requirements" /\ ~IsPending(CallKey)
        /\ (at = "pdf" => NextItem.pdf # NoFile)
        /\ UNCHANGED <<registryVars, savedVars>>
    BY <1>3 DEF ReuseArtifact, CheckPasses, Checking
  <2>3. ref \in artifacts /\ ref.bytes = CallBytes /\ ref.facts = CallFacts
    BY <2>1 DEF EqualRefs
  <2>5. at = "inputs" => ref.bytes[1] = imports[nextImport + 1]
    BY <2>2, <2>3, CallFileTypes DEF CallBytes
  <2>6. at = "paper" => ref.bytes = <<"paper", NextItem.paper>>
    BY <2>3 DEF CallBytes
  <2>7. at = "pdf" => ref.bytes[1] = NextItem.pdf
    BY <2>2, <2>3, CallFileTypes DEF CallBytes
  <2> QED
    BY <2>1, <2>2, <2>3, <2>5, <2>6, <2>7, ReturnHeld DEF registryVars
<1>4. CASE BindRef
  <2> DEFINE ref == pending[CallKey]
  <2>1. /\ Registering /\ CallKey \in Keys /\ IsPending(CallKey)
        /\ (at = "pdf" => NextItem.pdf # NoFile)
    BY <1>2, <1>4, CallKeyOpen DEF BindRef, Freezing, Bind, PointInv
  <2>2. /\ ref \in artifacts' /\ ref.facts = CallFacts /\ artifacts \subseteq artifacts'
        /\ UNCHANGED <<pending, savedVars>> /\ Return(ref)
    BY <1>4, BindSaves DEF BindRef
  <2>3. at = "inputs" => ref.bytes[1] = imports[nextImport + 1]
    <3> SUFFICES ASSUME at = "inputs" PROVE ref.bytes[1] = imports[nextImport + 1]
      OBVIOUS
    <3>1. CallKey = InputKey(nextImport + 1)
      BY DEF CallKey
    <3>2. nextImport + 1 \in 1..MaxInputs
      BY <1>1, <2>1, InitializationAssumption DEF Registering, IInv, TypesInv, TypeInvariant
    <3> QED BY <1>2, <2>1, <3>1, <3>2 DEF PendingInv
  <2>4. at = "paper" => ref.bytes = <<"paper", NextItem.paper>>
    <3> SUFFICES ASSUME at = "paper" PROVE ref.bytes = <<"paper", NextItem.paper>>
      OBVIOUS
    <3>1. CallKey = PaperKey(nextLiterature + 1)
      BY DEF CallKey
    <3>2. nextLiterature + 1 \in 1..MaxItems
      BY <1>1, <1>2, InitializationAssumption DEF PointInv
    <3> QED BY <1>2, <2>1, <3>1, <3>2 DEF PendingInv, NextItem
  <2>5. at = "pdf" => ref.bytes[1] = NextItem.pdf
    <3> SUFFICES ASSUME at = "pdf" PROVE ref.bytes[1] = NextItem.pdf
      OBVIOUS
    <3>1. CallKey = PdfKey(nextLiterature + 1)
      BY DEF CallKey
    <3>2. nextLiterature + 1 \in 1..MaxItems
      BY <1>1, <1>2, InitializationAssumption DEF PointInv
    <3> QED BY <1>2, <2>1, <3>1, <3>2 DEF PendingInv, NextItem
  <2>6. at = "requirements" => IsPending(RequirementKey) /\ ref = pending[RequirementKey]
    BY <2>1 DEF CallKey
  <2> QED
    BY <2>1, <2>2, <2>3, <2>4, <2>5, <2>6, ReturnHeld
<1>5. CASE AllocateRef
  <2>1. /\ Registering /\ CallKey \in Keys
        /\ UNCHANGED <<artifacts, savedVars, localVars>>
        /\ pending \in [Keys -> Refs \union {NoRef}]
        /\ \E new : pending' = [pending EXCEPT ![CallKey] = new]
    BY <1>5, CallKeyOpen DEF AllocateRef, Freezing, Allocate, IInv, RegistryInv, RegistryTypes
  <2>2. CASE at = "pdf"
    <3>1. CallKey = PdfKey(nextLiterature + 1) /\ PaperKey(nextLiterature + 1) \in Keys
      <4>1. nextLiterature + 1 \in 1..MaxItems
        BY <1>1, <1>2, <2>2, InitializationAssumption DEF PointInv
      <4> QED BY <2>2, <4>1, RunAssumption DEF RunKeys, CallKey
    <3>2. pending'[PaperKey(nextLiterature + 1)] = pending[PaperKey(nextLiterature + 1)]
      BY <2>1, <3>1, KeysDiffer
    <3>3. PaperHeld' /\ BoundIfPending(PaperKey(nextLiterature + 1))'
      BY <1>2, <2>1, <2>2, <3>2
         DEF HeldInv, PaperHeld, NextItem, savedVars, localVars, BoundIfPending, IsPending, IsBound
    <3> QED BY <2>1, <2>2, <3>3
            DEF HeldInv, savedVars, localVars, BoundIfPending, IsPending, IsBound
  <2> QED BY <2>1, <2>2 DEF HeldInv, Registering, localVars
<1>6. CASE FreezeRef \/ StartFreezing
  BY <1>2, <1>6
     DEF FreezeRef, Freeze, StartFreezing, HeldInv, PaperHeld, PdfHeld, NextItem, InputImported,
         BoundIfPending, IsPending, IsBound, registryVars, savedVars, localVars
<1>7. CASE (\E f \in Files : EditFile(f)) \/ UNCHANGED vars
  BY <1>2, <1>7
     DEF EditFile, vars, HeldInv, PaperHeld, PdfHeld, NextItem, InputImported,
         BoundIfPending, IsPending, IsBound, registryVars, savedVars, localVars
<1>8. CASE \/ CheckFails \/ FreezeFails \/ StorageFails \/ InputDone \/ ItemDone \/ OpenItem
           \/ Finish \/ Create \/ Import \/ Continue \/ Pause \/ Crash
  BY <1>8
     DEF CheckFails, FreezeFails, StorageFails, InputDone, ItemDone, OpenItem, Finish, Create, Import,
         Continue, Resume, Answer, GoOn, Pause, Crash, Fails, Leave, Enter, GoTo, HeldInv
<1>9. CASE AckInput \/ AckItem \/ AckRequirements
  BY <1>9 DEF AckInput, AckItem, AckRequirements, AcknowledgeThen, Leave, GoTo, HeldInv
<1>10. CASE ItemsDone
  BY <1>10 DEF ItemsDone, GoTo, HeldInv, savedVars
<1> QED
  BY <1>3, <1>4, <1>5, <1>6, <1>7, <1>8, <1>9, <1>10 DEF Next, OwnerStep

-----------------------------------------------------------------------------
(* What was imported is reused *)

\* A key says of which kind its operation is, and so do the facts.
LEMMA Kinds ==
  /\ \A i : /\ InputKey(i)[1] = "input" /\ PaperKey(i)[1] = "paper" /\ PdfKey(i)[1] = "pdf"
            /\ PaperFacts(i).kind = "paper" /\ PdfFacts(i).kind = "pdf"
  /\ RequirementKey[1] = "requirements" /\ InputFacts.kind = "input"
  /\ RequirementFacts.kind = "requirements"
BY DEF InputKey, PaperKey, PdfKey, RequirementKey, InputFacts, PaperFacts, PdfFacts,
       RequirementFacts

\* The registration under way asks for an identity of its own kind.
LEMMA CallKinds ==
  ASSUME Registering
  PROVE  /\ CallFacts.kind = CallKey[1]
         /\ CallKey \in {InputKey(nextImport + 1), PaperKey(nextLiterature + 1),
                         PdfKey(nextLiterature + 1), RequirementKey}
         /\ CallFacts.kind = "input" <=> at = "inputs"
         /\ CallFacts.kind = "pdf" <=> at = "pdf"
<1>1. CASE at = "inputs"
  BY <1>1, Kinds DEF CallFacts, CallKey
<1>2. CASE at = "paper"
  BY <1>2, Kinds DEF CallFacts, CallKey
<1>3. CASE at = "pdf"
  BY <1>3, Kinds DEF CallFacts, CallKey
<1>4. CASE at = "requirements"
  BY <1>4, Kinds DEF CallFacts, CallKey
<1> QED BY <1>1, <1>2, <1>3, <1>4 DEF Registering

\* Of the operations that come next, one is of a kind.
LEMMA OneOfAKind ==
  ASSUME NEW j \in {InputKey(nextImport + 1), PaperKey(nextLiterature + 1),
                    PdfKey(nextLiterature + 1), RequirementKey},
         NEW k \in {InputKey(nextImport + 1), PaperKey(nextLiterature + 1),
                    PdfKey(nextLiterature + 1), RequirementKey},
         j[1] = k[1]
  PROVE  j = k
BY Kinds

\* A step that begins nothing and reads nothing keeps what is reused.
LEMMA ReuseKept ==
  ASSUME ReuseInv, Trusted' \subseteq Trusted, source' = source, UnboundNext', StillNew'
  PROVE  ReuseInv'
BY DEF ReuseInv, WasRead, KindsAgree

\* What is allocated is neither an artifact nor another allocation.
LEMMA AllocatedIsNew ==
  ASSUME IInv, ReuseInv, AllocateRef, NEW ref \in Trusted,
         ref.bytes = CallBytes, ref.facts = CallFacts
  PROVE  FALSE
<1>1. /\ Registering /\ ~IsPending(CallKey) /\ Present
      /\ step = "freeze" \/ at = "requirements"
  BY DEF AllocateRef, Freezing, Allocate
<1>2. ref.facts.kind = ref.key[1] /\ ref.key[1] = CallKey[1]
  BY <1>1, CallKinds DEF ReuseInv, KindsAgree
<1>3. CASE ref \in artifacts /\ at = "requirements"
  <2>1. requirements = 0 /\ CallKey = RequirementKey /\ ref.key[1] = "requirements"
    BY <1>2, <1>3, Kinds DEF IInv, PointInv, CallKey
  <2>2. Done(ref.key) \/ (IsPending(ref.key) /\ ref.key \in Keys)
    <3>1. ref.key \in Keys
      BY <1>3 DEF IInv, RegistryInv, RegistryTypes, Refs
    <3> QED BY <1>3, <3>1 DEF IInv, SavedInv, OnceInv
  <2>3. ~Done(ref.key)
    BY <2>1, Kinds DEF Done
  <2>4. ref.key \in RunKeys
    BY <2>2, <2>3 DEF IInv, SavedInv, PendingInv
  <2>5. ref.key = RequirementKey
    BY <2>1, <2>4, Kinds DEF RunKeys
  <2> QED BY <1>1, <2>1, <2>2, <2>3, <2>5
<1>4. CASE ref \in artifacts /\ at # "requirements"
  BY <1>1, <1>4 DEF ReuseInv, StillNew, EqualRefs
<1>5. CASE ref \notin artifacts
  <2>1. PICK k \in Keys : IsPending(k) /\ ref = pending[k]
    BY <1>5 DEF Trusted
  <2>2. ref.key = k
    BY <2>1 DEF IInv, SavedInv, PendingInv
  <2>3. k \in {InputKey(nextImport + 1), PaperKey(nextLiterature + 1),
               PdfKey(nextLiterature + 1), RequirementKey}
    BY <1>5, <2>1 DEF ReuseInv, UnboundNext, IsBound
  <2>4. k = CallKey
    BY <1>1, <1>2, <2>2, <2>3, CallKinds, OneOfAKind
  <2> QED BY <1>1, <2>1, <2>4
<1> QED BY <1>3, <1>4, <1>5

\* A file is allocated with the version it has.
LEMMA AllocateReads ==
  ASSUME IInv, AllocateRef, CallFacts.kind \in {"input", "pdf"}
  PROVE  CallBytes \in FileBytes /\ CallBytes[2] = source[CallBytes[1]]
<1>1. Registering /\ at \in {"inputs", "pdf"} /\ Present
  BY CallKinds DEF AllocateRef, Freezing
<1>2. CallFile \in Files /\ CallFile # NoFile
  BY <1>1, CallFileTypes, NoFileAssumption DEF AllocateRef, Freezing, IInv, PointInv
<1>3. source[CallFile] \in Versions
  BY <1>1, <1>2 DEF IInv, TypesInv, TypeInvariant, Present
<1> QED BY <1>1, <1>2, <1>3 DEF CallBytes, FileBytes

\* Every step reuses what was imported: only an allocation adds to what the Run stands for.
LEMMA ReuseStep ==
  ASSUME IInv, ReuseInv, RunFacts \subseteq Facts, [Next]_vars
  PROVE  ReuseInv'
<1>1. UnboundNext /\ StillNew
  BY DEF ReuseInv
<1>2. /\ nextImport \in Nat /\ nextLiterature \in Nat
      /\ pending \in [Keys -> Refs \union {NoRef}]
      /\ source \in [Files -> Versions \union {Gone}]
  BY ListedTypes DEF IInv, TypesInv, TypeInvariant, RegistryInv, RegistryTypes
<1>3. CASE AllocateRef
  <2> DEFINE new == pending'[CallKey]
  <2>1. /\ new \in Refs /\ new.key = CallKey /\ new.bytes = CallBytes /\ new.facts = CallFacts
        /\ CallKey \in Keys /\ Registering
    BY <1>3, AllocateRegisters, CallKeyOpen DEF AllocateRef, Freezing
  <2>2. /\ pending' = [pending EXCEPT ![CallKey] = new] /\ artifacts' = artifacts
        /\ UNCHANGED <<savedVars, localVars, worldVars>> /\ CallKey' = CallKey
    BY <1>2, <1>3, <2>1
       DEF AllocateRef, Allocate, savedVars, localVars, worldVars, CallKey
  <2> HIDE DEF new
  <2>3. Trusted' \subseteq Trusted \union {new}
    BY <1>2, <2>2 DEF Trusted, IsPending
  <2>4. \A ref \in Trusted : ~(ref.bytes = new.bytes /\ ref.facts = new.facts)
    BY <1>3, <2>1, AllocatedIsNew
  <2>5. \A r1, r2 \in Trusted' : r1.bytes = r2.bytes /\ r1.facts = r2.facts => r1 = r2
    BY <2>3, <2>4 DEF ReuseInv
  <2>6. KindsAgree(new) /\ WasRead(new)
    <3>1. KindsAgree(new)
      BY <2>1, CallKinds DEF KindsAgree
    <3>2. ASSUME CallFacts.kind \in {"input", "pdf"}
          PROVE  CallBytes \in FileBytes /\ source[CallBytes[1]] \in Versions
                 /\ CallBytes[2] <= source[CallBytes[1]]
      <4>1. CallBytes \in FileBytes /\ CallBytes[2] = source[CallBytes[1]]
        BY <1>3, <3>2, AllocateReads
      <4>2. CallBytes[2] \in Versions
        BY <4>1 DEF FileBytes
      <4> QED BY <4>1, <4>2, InitializationAssumption DEF Versions
    <3> QED BY <2>1, <3>1, <3>2 DEF WasRead
  <2>7. \A ref \in Trusted' : KindsAgree(ref) /\ (WasRead(ref))'
    BY <2>2, <2>3, <2>6 DEF ReuseInv, WasRead, worldVars
  <2>8. UnboundNext'
    <3>1. nextImport' = nextImport /\ nextLiterature' = nextLiterature
      BY <2>2 DEF savedVars
    <3> SUFFICES ASSUME NEW k \in Keys, IsPending(k)', ~IsBound(pending[k])'
                 PROVE  k \in {InputKey(nextImport + 1), PaperKey(nextLiterature + 1),
                               PdfKey(nextLiterature + 1), RequirementKey}
      BY <3>1 DEF UnboundNext
    <3>2. CASE k = CallKey
      BY <2>1, <3>2, CallKinds
    <3>3. CASE k # CallKey
      BY <1>1, <1>2, <2>2, <3>3 DEF UnboundNext, IsPending, IsBound
    <3> QED BY <3>2, <3>3
  <2>9. StillNew'
    <3>1. IsPending(CallKey)'
      BY <1>2, <2>1, <2>2, NoRefIsNoRef DEF IsPending, new
    <3> QED BY <3>1 DEF StillNew
  <2> QED BY <2>5, <2>7, <2>8, <2>9 DEF ReuseInv, KindsAgree
<1>4. CASE BindRef
  <2>1. /\ CallKey \in Keys /\ IsPending(CallKey) /\ artifacts' = artifacts \union {pending[CallKey]}
        /\ UNCHANGED <<pending, savedVars, worldVars>> /\ step' = "check"
    BY <1>4, CallKeyOpen DEF BindRef, Freezing, Bind, Return
  <2>2. Trusted' \subseteq Trusted
    BY <2>1 DEF Trusted, IsPending
  <2>3. UnboundNext'
    BY <1>1, <2>1 DEF UnboundNext, IsPending, IsBound, savedVars
  <2> QED BY <2>1, <2>2, <2>3, ReuseKept DEF StillNew, worldVars
<1>5. CASE FreezeRef
  <2>1. /\ UNCHANGED <<pending, artifacts, savedVars, localVars, worldVars>>
        /\ IsPending(CallKey)' /\ Trusted' = Trusted
    BY <1>5 DEF FreezeRef, Freeze, savedVars, localVars, CallKey, IsPending, Trusted
  <2>2. UnboundNext'
    BY <1>1, <2>1 DEF UnboundNext, IsPending, IsBound, savedVars
  <2> QED BY <2>1, <2>2, ReuseKept DEF StillNew, worldVars
<1>6. CASE AckInput \/ AckItem \/ AckRequirements
  <2>1. /\ UNCHANGED <<savedVars, worldVars>> /\ step' = "check" /\ artifacts' = artifacts
        /\ \/ pending' = pending
           \/ \E k : pending' = [pending EXCEPT ![k] = NoRef]
    BY <1>6 DEF AckInput, AckItem, AckRequirements, AcknowledgeThen, GoTo, Leave, Acknowledge,
                registryVars
  <2>2. \A k \in Keys : IsPending(k)' => IsPending(k) /\ pending'[k] = pending[k]
    BY <1>2, <2>1 DEF IsPending
  <2>3. Trusted' \subseteq Trusted
    BY <2>1, <2>2 DEF Trusted
  <2>4. UnboundNext'
    BY <1>1, <2>1, <2>2 DEF UnboundNext, IsBound, savedVars
  <2> QED BY <2>1, <2>3, <2>4, ReuseKept DEF StillNew, worldVars
<1>7. CASE InputDone
  <2>1. /\ UNCHANGED <<pending, artifacts, nextLiterature, source>> /\ step' = "check"
        /\ BoundIfPending(InputKey(nextImport + 1)) /\ Trusted' = Trusted
    BY <1>7 DEF InputDone, GoTo, registryVars, worldVars, IInv, HeldInv, Trusted, IsPending
  <2>2. UnboundNext'
    BY <1>1, <2>1 DEF UnboundNext, IsPending, IsBound, BoundIfPending
  <2> QED BY <2>1, <2>2, ReuseKept DEF StillNew
<1>8. CASE ItemDone
  <2> DEFINE n == nextLiterature + 1
  <2>1. /\ UNCHANGED <<pending, artifacts, nextImport, source>> /\ step' = "check"
        /\ BoundIfPending(PaperKey(n)) /\ Trusted' = Trusted /\ n \in 1..MaxItems
    BY <1>2, <1>8, ListedTypes, InitializationAssumption
       DEF ItemDone, GoTo, registryVars, worldVars, IInv, HeldInv, PointInv, TypesInv, Trusted, IsPending
  <2>2. BoundIfPending(PdfKey(n))
    <3>1. CASE at = "itemDone"
      BY <3>1 DEF IInv, HeldInv
    <3>2. CASE at = "pdf" /\ NextItem.pdf = NoFile
      <4>1. PdfKey(n) \in Keys
        BY <2>1, RunAssumption DEF RunKeys
      <4> QED BY <2>1, <3>2, <4>1 DEF IInv, SavedInv, BoundIfPending, PendingInv, NextItem
    <3> QED BY <1>8, <3>1, <3>2 DEF ItemDone
  <2>3. UnboundNext'
    BY <1>1, <2>1, <2>2 DEF UnboundNext, IsPending, IsBound, BoundIfPending
  <2> QED BY <2>1, <2>3, ReuseKept DEF StillNew
<1>9. CASE StartFreezing
  <2>1. /\ UNCHANGED <<pending, artifacts, savedVars, at, digest, paper, worldVars>>
        /\ IsPending(CallKey) \/ EqualRefs = {}
    BY <1>9 DEF StartFreezing, registryVars
  <2>2. CallKey' = CallKey /\ EqualRefs' = EqualRefs /\ Trusted' = Trusted
    BY <2>1 DEF CallKey, EqualRefs, CallBytes, CallFacts, CallFile, NextItem, Trusted, IsPending,
                savedVars, worldVars
  <2>3. UnboundNext'
    BY <1>1, <2>1 DEF UnboundNext, IsPending, IsBound, savedVars
  <2> QED BY <2>1, <2>2, <2>3, ReuseKept DEF StillNew, IsPending, worldVars
<1>10. CASE \E f \in Files : EditFile(f)
  <2>1. PICK f \in Files : EditFile(f)
    BY <1>10
  <2>2. /\ UNCHANGED <<pending, artifacts, savedVars, localVars>> /\ Trusted' = Trusted
        /\ source' = [source EXCEPT ![f] = IF source[f] < MaxEdits THEN source[f] + 1 ELSE Gone]
        /\ source[f] # Gone
    BY <2>1 DEF EditFile, registryVars, Trusted, IsPending
  <2>3. /\ \A g \in Files : g # f => source'[g] = source[g]
        /\ source[f] \in Nat /\ (source'[f] = Gone \/ source'[f] = source[f] + 1)
    BY <1>2, <2>2, InitializationAssumption DEF Versions
  <2>4. ASSUME NEW ref \in Trusted PROVE (WasRead(ref))'
    <3>1. WasRead(ref)
      BY <2>4 DEF ReuseInv
    <3>2. ASSUME ref.facts.kind \in {"input", "pdf"}
          PROVE  /\ ref.bytes \in FileBytes
                 /\ source'[ref.bytes[1]] = Gone \/ ref.bytes[2] <= source'[ref.bytes[1]]
      <4>1. ref.bytes \in FileBytes /\ ref.bytes[1] \in Files /\ ref.bytes[2] \in Nat
        BY <3>1, <3>2, InitializationAssumption DEF WasRead, FileBytes, Versions
      <4> QED BY <2>2, <2>3, <3>1, <3>2, <4>1 DEF WasRead
    <3> QED BY <3>2 DEF WasRead
  <2>5. UnboundNext'
    BY <1>1, <2>2 DEF UnboundNext, IsPending, IsBound, savedVars
  <2>6. StillNew'
    <3> SUFFICES ASSUME Registering', step' = "freeze", (~IsPending(CallKey))', Present',
                        NEW ref \in artifacts, ref.bytes = CallBytes', ref.facts = CallFacts'
                 PROVE  FALSE
      BY <2>2 DEF StillNew, EqualRefs
    <3>1. /\ Registering /\ step = "freeze" /\ ~IsPending(CallKey) /\ UNCHANGED <<CallKey, CallFacts, CallFile, at>>
      BY <2>2 DEF Registering, CallKey, CallFacts, CallFile, NextItem, IsPending, savedVars, localVars
    <3>2. ref.facts.kind = CallFacts.kind /\ WasRead(ref) /\ ref \in Trusted
      BY <3>1 DEF ReuseInv, Trusted
    <3>3. CASE CallFile = f /\ at \in {"inputs", "pdf"}
      <4>1. CallBytes' = <<f, source'[f]>> /\ source'[f] = source[f] + 1
        BY <2>3, <3>1, <3>3, NoFileAssumption DEF CallBytes, Present
      <4>2. ref.bytes[2] <= source[f]
        BY <2>2, <3>1, <3>2, <3>3, <4>1, CallKinds DEF WasRead
      <4> QED BY <2>3, <4>1, <4>2
    <3>4. CASE CallFile # f /\ at \in {"inputs", "pdf"}
      <4>1. CallFile # NoFile => CallFile \in Files
        BY <3>1, <3>4, CallFileTypes
      <4>2. CallFile # NoFile
        BY <3>1, <3>4, CallFileTypes, NoFileAssumption DEF IInv, PointInv
      <4>3. CallBytes' = CallBytes /\ Present
        BY <2>3, <3>1, <3>4, <4>1, <4>2 DEF CallBytes, Present
      <4> QED BY <1>1, <3>1, <4>3 DEF StillNew, EqualRefs
    <3>5. CASE at \in {"paper", "requirements"}
      <4>1. CallBytes' = CallBytes /\ Present
        BY <2>2, <3>1, <3>5, CallFileTypes DEF CallBytes, Present, NextItem, savedVars
      <4> QED BY <1>1, <3>1, <4>1 DEF StillNew, EqualRefs
    <3> QED BY <3>1, <3>3, <3>4, <3>5 DEF Registering
  <2> QED BY <2>2, <2>4, <2>5, <2>6 DEF ReuseInv, KindsAgree
<1>11. CASE \/ CheckFails \/ ReuseArtifact \/ FreezeFails \/ StorageFails \/ OpenItem \/ ItemsDone
            \/ Finish \/ Create \/ Import \/ Continue \/ Pause \/ Crash
  <2>1. /\ UNCHANGED <<pending, artifacts, nextImport, nextLiterature, source>> /\ step' = "check"
        /\ Trusted' = Trusted
    BY <1>11 DEF CheckFails, ReuseArtifact, FreezeFails, StorageFails, OpenItem, ItemsDone, Finish,
                 Create, Import, Continue, Resume, Answer, GoOn, Pause, Crash, Fails, Leave, Return, GoTo,
                 Enter, registryVars, savedVars, worldVars, Trusted, IsPending
  <2>2. UnboundNext'
    BY <1>1, <2>1 DEF UnboundNext, IsPending, IsBound
  <2> QED BY <2>1, <2>2, ReuseKept DEF StillNew
<1>12. CASE UNCHANGED vars
  <2>1. /\ UNCHANGED <<pending, artifacts, savedVars, localVars, worldVars>> /\ Trusted' = Trusted
    BY <1>12 DEF vars, registryVars, Trusted, IsPending
  <2>2. UnboundNext' /\ StillNew'
    BY <1>1, <2>1 DEF UnboundNext, StillNew, IsPending, IsBound, savedVars, localVars, worldVars,
         Registering, CallKey, Present, EqualRefs, CallBytes, CallFacts, CallFile, NextItem
  <2> QED BY <2>1, <2>2, ReuseKept DEF worldVars
<1> QED
  BY <1>3, <1>4, <1>5, <1>6, <1>7, <1>8, <1>9, <1>10, <1>11, <1>12 DEF Next, OwnerStep

-----------------------------------------------------------------------------
(* The theorems *)

\* A Run that was not created satisfies the invariant.
LEMMA InitInv == Init => IInv
<1> SUFFICES ASSUME Init PROVE IInv
  OBVIOUS
<1>1. RegistryInv
  BY InitRegistry DEF Init
<1>2. \A k \in Keys : ~IsPending(k)
  BY DEF Init, RegistryInit, IsPending
<1>3. imports = <<>> /\ listed = <<>> /\ Len(imports) = 0 /\ Len(listed) = 0
  <2>1. imports = <<>> /\ listed = <<>>
    BY DEF Init
  <2>2. Len(<<>>) = 0
    OBVIOUS
  <2> QED BY <2>1, <2>2
<1>4. TypesInv
  <2>1. imports \in Seq(Files) /\ listed \in Seq(Items)
    BY <1>3, EmptySeq
  <2>2. source \in [Files -> Versions \union {Gone}]
    BY InitializationAssumption DEF Versions, Init
  <2>3. RegistryTypes /\ allocated = 0
    BY <1>1 DEF RegistryInv, Init, RegistryInit
  <2>4. nextImport = 0 /\ nextLiterature = 0 /\ requirements = 0 /\ paper = 0
    BY DEF Init
  <2>5. /\ status \in {"absent", "running", "paused"} /\ complete \in BOOLEAN
        /\ at = "idle" /\ step \in {"check", "freeze"} /\ digest \in FileBytes \union {NoDigest}
    BY DEF Init
  <2> QED
    BY <1>3, <2>1, <2>2, <2>3, <2>4, <2>5, InitializationAssumption DEF TypesInv, TypeInvariant
<1>5. PointInv
  BY DEF Init, PointInv, AfterInputs, AfterItems
<1>6. SavedInv
  <2>1. Trusted = {} /\ artifacts = {}
    BY <1>2 DEF Init, RegistryInit, Trusted
  <2>2. PendingInv /\ OnceInv
    BY <1>2, <2>1 DEF PendingInv, OnceInv, OnePerOperation, BoundIfPending
  <2>3. ImportedInv
    BY DEF Init, ImportedInv
  <2> QED BY <2>2, <2>3 DEF SavedInv
<1>7. HeldInv
  BY DEF Init, HeldInv
<1> QED BY <1>1, <1>4, <1>5, <1>6, <1>7 DEF IInv

\* Every step keeps the invariant.
LEMMA NextInv ==
  ASSUME IInv, RunFacts \subseteq Facts, [Next]_vars
  PROVE  IInv'
<1>1. RegistryInv'
  BY StepsRegister, RegisterKeeps DEF IInv
<1> QED BY <1>1, TypesStep, PointStep, SavedStep, HeldStep DEF IInv

\* The invariant holds in every state of a Run's initialization.
LEMMA Invariance ==
  ASSUME RunFacts \subseteq Facts
  PROVE  Spec => []IInv
<1>1. IInv /\ [Next]_vars => IInv'
  BY NextInv
<1> QED BY InitInv, <1>1, PTL DEF Spec

\* The variables keep to their values.
THEOREM InitializationTypes ==
  ASSUME RunFacts \subseteq Facts
  PROVE  Spec => []TypeInvariant
<1>1. IInv => TypeInvariant
  BY DEF IInv, TypesInv
<1> QED BY Invariance, <1>1, PTL

\* What the Registry promises holds in every Run that is being initialized.
THEOREM InitializationKeepsRegistry ==
  ASSUME RunFacts \subseteq Facts
  PROVE  Spec => []RegistrySound
<1>1. IInv => RegistrySound
  BY DEF IInv, RegistryInv, RegistrySound
<1> QED BY Invariance, <1>1, PTL

\* No model call before everything listed is an artifact, and no progress past what was
\* not imported, whichever owner died or whatever file changed meanwhile.
THEOREM NothingIsSkipped ==
  ASSUME RunFacts \subseteq Facts
  PROVE  Spec => []NothingSkipped
<1>1. IInv => NothingSkipped
  <2> SUFFICES ASSUME IInv PROVE NothingSkipped
    OBVIOUS
  <2>1. at = "agents" =>
          /\ nextImport = Len(imports) /\ nextLiterature = Len(listed) /\ requirements # 0
    BY DEF IInv, PointInv
  <2> QED BY <2>1 DEF IInv, SavedInv, ImportedInv, NothingSkipped
<1> QED BY Invariance, <1>1, PTL

\* However often an import is interrupted, it ends in the identity allocated first.
THEOREM OneIdentityEach ==
  ASSUME RunFacts \subseteq Facts
  PROVE  Spec => []OnePerOperation
<1>1. IInv => OnePerOperation
  BY DEF IInv, SavedInv, OnceInv
<1> QED BY Invariance, <1>1, PTL

\* A snapshot is imported once: however the imports are interrupted, repeated or added to, no
\* two artifacts have the same bytes of the same provenance.
THEOREM SnapshotsAreReused ==
  ASSUME RunFacts \subseteq Facts
  PROVE  Spec => []SnapshotsReused
<1>1. Init => ReuseInv
  <2> SUFFICES ASSUME Init PROVE ReuseInv
    OBVIOUS
  <2>1. \A k \in Keys : ~IsPending(k)
    BY DEF Init, RegistryInit, IsPending
  <2> QED BY <2>1 DEF Init, RegistryInit, ReuseInv, Trusted, UnboundNext, StillNew
<1>2. IInv /\ ReuseInv /\ [Next]_vars => ReuseInv'
  BY ReuseStep
<1>3. ReuseInv => SnapshotsReused
  BY DEF ReuseInv, SnapshotsReused, Trusted
<1> QED BY Invariance, <1>1, <1>2, <1>3, PTL DEF Spec

\* What is still pending when the Agents are called was bound.
THEOREM LeftoversAreBound ==
  ASSUME RunFacts \subseteq Facts
  PROVE  Spec => []LeftoversBound
<1>1. IInv => LeftoversBound
  <2> SUFFICES ASSUME IInv, at = "agents", NEW k \in Keys, IsPending(k)
               PROVE  IsBound(pending[k])
    BY DEF LeftoversBound
  <2>1. nextImport = Len(imports) /\ nextLiterature = Len(listed) /\ requirements # 0
    BY DEF IInv, PointInv
  <2>2. Len(imports) \in Nat /\ Len(listed) \in Nat
    BY ListedTypes DEF IInv
  <2>3. k \in RunKeys
    BY DEF IInv, SavedInv, PendingInv
  <2>4. Done(k)
    <3>1. CASE \E i \in 1..MaxInputs : k = InputKey(i)
      BY <2>1, <2>2, <3>1 DEF Done, IInv, SavedInv, PendingInv
    <3>2. CASE \E i \in 1..MaxItems : k = PaperKey(i) \/ k = PdfKey(i)
      BY <2>1, <2>2, <3>2 DEF Done, IInv, SavedInv, PendingInv
    <3>3. CASE k = RequirementKey
      BY <2>1, <3>3 DEF Done
    <3> QED BY <2>3, <3>1, <3>2, <3>3 DEF RunKeys
  <2> QED BY <2>4 DEF IInv, SavedInv, OnceInv, BoundIfPending
<1> QED BY Invariance, <1>1, PTL

\* The three together: the initialization is complete, without doubles and without
\* leftovers that the last commit could not acknowledge.
THEOREM ImportsAreSound ==
  ASSUME RunFacts \subseteq Facts
  PROVE  Spec => []ImportsSound
<1> QED BY InitializationTypes, NothingIsSkipped, OneIdentityEach, LeftoversAreBound, PTL
        DEF ImportsSound
=============================================================================
