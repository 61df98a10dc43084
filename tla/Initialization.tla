--------------------------- MODULE Initialization ---------------------------
(* What a Run is given before its first model call: the files of the request *)
(* and the papers of a manifest become artifacts, one registration at a time, *)
(* and progress is saved after each.  Papers may be added while the Run is   *)
(* paused.  The owner may die after any save, the user may change a file, and *)
(* every later call goes on where the saved progress says.                   *)
EXTENDS Registry, Integers, Sequences

CONSTANTS
  Files,        \* files of the user: inputs and PDFs
  Papers,       \* papers, by their normalized record
  MaxInputs,    \* input artifacts of the request
  MaxItems,     \* papers listed for the Run, over all manifests
  MaxEdits,     \* changes to a file
  MaxFaults,    \* failures of the storage while a file is staged
  MaxCrashes

ASSUME InitializationAssumption ==
  MaxInputs \in Nat /\ MaxItems \in Nat /\ MaxEdits \in Nat
  /\ MaxFaults \in Nat /\ MaxCrashes \in Nat

\* A file that was removed, or is no longer what it has to be (a PDF).
Gone == -1
NoFile == "none"
ASSUME NoFileAssumption == NoFile \notin Files

Versions == 0..MaxEdits

FileBytes == Files \X Versions
PaperBytes == {"paper"} \X Papers
RequirementBytes == <<"requirements", 0>>
NoDigest == <<>>

InputFacts == [kind |-> "input"]
PaperFacts(digest) == [kind |-> "paper", pdf |-> digest]
PdfFacts(paper) == [kind |-> "pdf", of |-> paper]
RequirementFacts == [kind |-> "requirements"]

InputKey(i) == <<"input", i>>
PaperKey(i) == <<"paper", i>>
PdfKey(i) == <<"pdf", i>>
RequirementKey == <<"requirements", 0>>

\* What the registrations of one Run draw from.
RunKeys ==
  {InputKey(i) : i \in 1..MaxInputs} \union {PaperKey(i) : i \in 1..MaxItems}
  \union {PdfKey(i) : i \in 1..MaxItems} \union {RequirementKey}
RunBytes == FileBytes \union PaperBytes \union {RequirementBytes}
RunFacts ==
  {InputFacts, RequirementFacts} \union {PaperFacts(d) : d \in FileBytes \union {NoDigest}}
  \union [kind : {"pdf"}, of : Nat]

ASSUME RunAssumption == RunKeys \subseteq Keys /\ RunBytes \subseteq Bytes

Items == [paper : Papers, pdf : Files \union {NoFile}]
Lists(S, n) == UNION {[1..k -> S] : k \in 0..n}

VARIABLES
  status,        \* absent, running or paused
  imports, listed, nextImport, nextLiterature, complete,   \* Run.initialization
  requirements,  \* conclusion_requirements_ref
  at, step,      \* the owner: where it is, and how far in a registration
  digest, paper, \* its locals: the PDF's digest, the paper's Ref
  raised,        \* the exception that last left the Controller
  source,        \* the version of each file, or Gone
  faults, crashes

savedVars == <<status, imports, listed, nextImport, nextLiterature, complete, requirements>>
localVars == <<at, step, digest, paper, raised>>
worldVars == <<source, faults, crashes>>
vars == <<registryVars, savedVars, localVars, worldVars>>

Init ==
  /\ RegistryInit
  /\ status = "absent" /\ imports = <<>> /\ listed = <<>>
  /\ nextImport = 0 /\ nextLiterature = 0 /\ complete = FALSE /\ requirements = 0
  /\ at = "idle" /\ step = "check" /\ digest = NoDigest /\ paper = 0 /\ raised = "none"
  /\ source = [f \in Files |-> 0] /\ faults = 0 /\ crashes = 0

GoTo(place) == at' = place /\ step' = "check" /\ UNCHANGED <<digest, paper, raised>>

\* An exception, or death, leaves nobody at work.
Leave(error) ==
  /\ at' = "idle" /\ step' = "check" /\ raised' = error
  /\ digest' = NoDigest /\ paper' = 0

Enter(place) ==
  /\ at' = place /\ step' = "check" /\ raised' = "none"
  /\ UNCHANGED <<digest, paper>>

-----------------------------------------------------------------------------
(* The registration under way: register_import, or a system artifact. *)

NextItem == listed[nextLiterature + 1]

Registering == at \in {"inputs", "paper", "pdf", "requirements"} /\
               (at = "inputs" => nextImport < Len(imports))

CallKey ==
  CASE at = "inputs" -> InputKey(nextImport + 1)
    [] at = "paper" -> PaperKey(nextLiterature + 1)
    [] at = "pdf" -> PdfKey(nextLiterature + 1)
    [] OTHER -> RequirementKey

CallFile ==
  CASE at = "inputs" -> imports[nextImport + 1]
    [] at = "pdf" -> NextItem.pdf
    [] OTHER -> NoFile

CallFacts ==
  CASE at = "inputs" -> InputFacts
    [] at = "paper" -> PaperFacts(digest)
    [] at = "pdf" -> PdfFacts(paper)
    [] OTHER -> RequirementFacts

\* The paper is rendered anew and the requirements are encoded: both are the
\* same every time.
CallBytes ==
  CASE at = "paper" -> <<"paper", NextItem.paper>>
    [] at = "requirements" -> RequirementBytes
    [] OTHER -> <<CallFile, source[CallFile]>>

Present == CallFile # NoFile => source[CallFile] # Gone
Expected == IF at = "pdf" THEN digest ELSE NoDigest

\* Mutant: every import is frozen again.
EqualRefsNever == {}

\* The same content of the same provenance is not frozen twice.
EqualRefs == {ref \in artifacts : ref.bytes = CallBytes /\ ref.facts = CallFacts}

Return(ref) ==
  /\ at' = CASE at = "inputs" -> "inputDone" [] at = "paper" -> "pdf"
             [] at = "pdf" -> "itemDone" [] OTHER -> "finish"
  /\ paper' = IF at = "paper" THEN ref.id ELSE paper
  /\ step' = "check" /\ UNCHANGED <<digest, raised>>

Fails(error) ==
  /\ Leave(error)
  /\ UNCHANGED <<registryVars, savedVars, worldVars>>

\* The digest the PDF must have is compared with the allocation left by an
\* interrupted call, or with the file.
Checking == Registering /\ step = "check" /\ at # "requirements" /\ (at = "pdf" => NextItem.pdf # NoFile)
Checked == IF IsPending(CallKey) THEN pending[CallKey].bytes ELSE CallBytes

CheckFails ==
  /\ Checking
  /\ \/ /\ ~IsPending(CallKey) /\ ~Present
        /\ Fails("missing")
     \/ /\ IsPending(CallKey) \/ Present
        /\ Expected # NoDigest /\ Expected # Checked
        /\ Fails("mismatch")

CheckPasses ==
  /\ Checking
  /\ IsPending(CallKey) \/ Present
  /\ Expected # NoDigest => Expected = Checked

ReuseArtifact ==
  /\ CheckPasses /\ ~IsPending(CallKey)
  /\ \E ref \in EqualRefs : Return(ref)
  /\ UNCHANGED <<registryVars, savedVars, worldVars>>

StartFreezing ==
  /\ CheckPasses
  /\ IsPending(CallKey) \/ EqualRefs = {}
  /\ step' = "freeze"
  /\ UNCHANGED <<registryVars, savedVars, at, digest, paper, raised, worldVars>>

Freezing == Registering /\ (step = "freeze" \/ at = "requirements")
FactsAgree == IsPending(CallKey) /\ pending[CallKey].facts = CallFacts

\* The file is read again for the digest the Ref records.
AllocateRef ==
  /\ Freezing /\ Present
  /\ Allocate(CallKey, CallBytes, CallFacts)
  /\ UNCHANGED <<savedVars, localVars, worldVars>>

FreezeRef ==
  /\ Freezing /\ Present /\ FactsAgree
  /\ Freeze(CallKey, CallBytes)
  /\ UNCHANGED <<savedVars, localVars, worldVars>>

BindRef ==
  /\ Freezing /\ FactsAgree /\ Bind(CallKey)
  /\ Return(pending[CallKey])
  /\ UNCHANGED <<savedVars, worldVars>>

\* Nothing to copy, other bytes than were promised, or another description.
CannotFreeze ==
  IF IsPending(CallKey)
  THEN ~FactsAgree \/ (~IsFrozen(pending[CallKey]) /\ ~(Present /\ pending[CallKey].bytes = CallBytes))
  ELSE ~Present

\* Mutant: a file that changed since its allocation is passed over.
FreezeFailsOver ==
  /\ Freezing /\ CannotFreeze
  /\ IF FactsAgree THEN Return(pending[CallKey]) ELSE Leave("missing")
  /\ UNCHANGED <<registryVars, savedVars, worldVars>>

FreezeFails ==
  /\ Freezing /\ CannotFreeze
  /\ Fails(IF Present THEN "changed" ELSE "missing")

StorageFails ==
  /\ Freezing /\ FactsAgree /\ ~IsFrozen(pending[CallKey])
  /\ faults < MaxFaults /\ faults' = faults + 1
  /\ Leave("storage")
  /\ UNCHANGED <<registryVars, savedVars, source, crashes>>

-----------------------------------------------------------------------------
(* _complete_initialization and _import_literature *)

\* An allocation that was never bound is refused.
AcknowledgeThen(k, Continuation) ==
  IF IsPending(k) /\ ~IsBound(pending[k])
  THEN Leave("uncommitted") /\ UNCHANGED registryVars
  ELSE /\ IF IsPending(k) THEN Acknowledge(k) ELSE UNCHANGED registryVars
       /\ Continuation

\* Mutant: progress runs ahead.
InputDoneTwice ==
  /\ at = "inputDone"
  /\ nextImport' = nextImport + 2
  /\ GoTo("ackInput")
  /\ UNCHANGED <<registryVars, status, imports, listed, nextLiterature, complete,
                 requirements, worldVars>>

InputDone ==
  /\ at = "inputDone"
  /\ nextImport' = nextImport + 1
  /\ GoTo("ackInput")
  /\ UNCHANGED <<registryVars, status, imports, listed, nextLiterature, complete,
                 requirements, worldVars>>

AckInput ==
  /\ at = "ackInput"
  /\ AcknowledgeThen(InputKey(nextImport), GoTo("inputs"))
  /\ UNCHANGED <<savedVars, worldVars>>

AtItems == at = "items" \/ (at = "inputs" /\ nextImport = Len(imports))

\* The PDF is opened and hashed before its paper is described.
OpenItem ==
  /\ AtItems /\ nextLiterature < Len(listed)
  /\ LET file == NextItem.pdf
     IN IF file # NoFile /\ source[file] = Gone
        THEN Leave("unreadable")
        ELSE /\ digest' = IF file = NoFile THEN NoDigest ELSE <<file, source[file]>>
             /\ at' = "paper" /\ step' = "check" /\ UNCHANGED <<paper, raised>>
  /\ UNCHANGED <<registryVars, savedVars, worldVars>>

\* Mutant: the paper alone makes the item done.
ItemDoneWithPaper ==
  /\ at \in {"pdf", "itemDone"}
  /\ nextLiterature' = nextLiterature + 1
  /\ GoTo("ackPaper")
  /\ UNCHANGED <<registryVars, status, imports, listed, nextImport, complete, requirements,
                 worldVars>>

\* Mutant: progress is not saved.
ItemDoneUnsaved ==
  /\ at = "itemDone" \/ (at = "pdf" /\ NextItem.pdf = NoFile)
  /\ GoTo("items")
  /\ UNCHANGED <<registryVars, savedVars, worldVars>>

ItemDone ==
  /\ at = "itemDone" \/ (at = "pdf" /\ NextItem.pdf = NoFile)
  /\ nextLiterature' = nextLiterature + 1
  /\ GoTo("ackPaper")
  /\ UNCHANGED <<registryVars, status, imports, listed, nextImport, complete, requirements,
                 worldVars>>

AckItem ==
  /\ \/ at = "ackPaper" /\ AcknowledgeThen(PaperKey(nextLiterature), GoTo("ackPdf"))
     \/ at = "ackPdf" /\ AcknowledgeThen(PdfKey(nextLiterature), GoTo("items"))
  /\ UNCHANGED <<savedVars, worldVars>>

ItemsDone ==
  /\ AtItems /\ nextLiterature = Len(listed)
  /\ GoTo(IF requirements = 0 THEN "requirements" ELSE "finish")
  /\ UNCHANGED <<registryVars, savedVars, worldVars>>

\* The one save that makes the initialization complete binds the requirements.
Finish ==
  /\ at = "finish"
  /\ complete' = TRUE
  /\ requirements' = IF requirements = 0 THEN pending[RequirementKey].id ELSE requirements
  /\ GoTo("ackRequirements")
  /\ UNCHANGED <<registryVars, status, imports, listed, nextImport, nextLiterature, worldVars>>

\* An import into a paused Run returns; otherwise the Agents are called.
AckRequirements ==
  /\ at = "ackRequirements"
  /\ AcknowledgeThen(RequirementKey, IF status = "paused" THEN Leave("none") ELSE GoTo("agents"))
  /\ UNCHANGED <<savedVars, worldVars>>

-----------------------------------------------------------------------------
(* The user and the owner *)

\* load_literature_manifest refuses a file that is not there.
Listable(items) == \A i \in DOMAIN items : items[i].pdf # NoFile => source[items[i].pdf] # Gone

Create ==
  /\ status = "absent"
  /\ \E files \in Lists(Files, MaxInputs), items \in Lists(Items, MaxItems) :
       /\ Listable(items)
       /\ imports' = files /\ listed' = items
  /\ status' = "running"
  /\ Enter("inputs")
  /\ UNCHANGED <<registryVars, nextImport, nextLiterature, complete, requirements, worldVars>>

\* Mutant: an import goes through the list from its start.
ImportRestarts ==
  /\ at = "idle" /\ status = "paused"
  /\ \E items \in Lists(Items, MaxItems - Len(listed)) :
       /\ items # <<>> /\ Listable(items)
       /\ listed' = listed \o items
  /\ complete' = FALSE /\ nextLiterature' = 0
  /\ Enter("inputs")
  /\ UNCHANGED <<registryVars, status, imports, nextImport, requirements, worldVars>>

Import ==
  /\ at = "idle" /\ status = "paused"
  /\ \E items \in Lists(Items, MaxItems - Len(listed)) :
       /\ items # <<>> /\ Listable(items)
       /\ listed' = listed \o items
  /\ complete' = FALSE
  /\ Enter("inputs")
  /\ UNCHANGED <<registryVars, status, imports, nextImport, nextLiterature, requirements,
                 worldVars>>

GoOn == Enter(IF complete THEN "agents" ELSE "inputs")

\* _advance, called again for a Run nobody works on.
Resume ==
  /\ at = "idle" /\ status = "running"
  /\ GoOn
  /\ UNCHANGED <<registryVars, savedVars, worldVars>>

Answer ==
  /\ at = "idle" /\ status = "paused"
  /\ status' = "running"
  /\ GoOn
  /\ UNCHANGED <<registryVars, imports, listed, nextImport, nextLiterature, complete,
                 requirements, worldVars>>

Pause ==
  /\ at = "agents"
  /\ status' = "paused"
  /\ Leave("none")
  /\ UNCHANGED <<registryVars, imports, listed, nextImport, nextLiterature, complete,
                 requirements, worldVars>>

EditFile(f) ==
  /\ MaxEdits > 0 /\ source[f] # Gone
  /\ source' = [source EXCEPT ![f] = IF @ < MaxEdits THEN @ + 1 ELSE Gone]
  /\ UNCHANGED <<registryVars, savedVars, localVars, faults, crashes>>

Crash ==
  /\ at # "idle" /\ crashes < MaxCrashes
  /\ crashes' = crashes + 1
  /\ Leave("none")
  /\ UNCHANGED <<registryVars, savedVars, source, faults>>

OwnerStep ==
  \/ CheckFails \/ ReuseArtifact \/ StartFreezing
  \/ AllocateRef \/ FreezeRef \/ BindRef \/ FreezeFails \/ StorageFails
  \/ InputDone \/ AckInput \/ OpenItem \/ ItemDone \/ AckItem \/ ItemsDone
  \/ Finish \/ AckRequirements

Continue == Resume \/ Answer

Next ==
  \/ OwnerStep \/ Continue \/ Create \/ Import \/ Pause
  \/ \E f \in Files : EditFile(f)
  \/ Crash

Spec == Init /\ [][Next]_vars

\* The owner's code runs on, and the user goes on with a Run that stopped.
FairSpec == Spec /\ WF_vars(OwnerStep) /\ WF_vars(Continue)

-----------------------------------------------------------------------------
\* The variables keep to the values the code gives them.
TypeInvariant ==
  /\ RegistryTypes
  /\ status \in {"absent", "running", "paused"}
  /\ imports \in Seq(Files) /\ listed \in Seq(Items)
  /\ nextImport \in 0..Len(imports) /\ nextLiterature \in 0..Len(listed)
  /\ complete \in BOOLEAN /\ requirements \in 0..allocated
  /\ at \in {"idle", "inputs", "inputDone", "ackInput", "items", "paper", "pdf", "itemDone",
             "ackPaper", "ackPdf", "requirements", "finish", "ackRequirements", "agents"}
  /\ step \in {"check", "freeze"} /\ paper \in 0..allocated
  /\ digest \in FileBytes \union {NoDigest}
  /\ source \in [Files -> Versions \union {Gone}]

InputImported(i) == \E ref \in artifacts : ref.facts = InputFacts /\ ref.bytes[1] = imports[i]

ItemImported(i) ==
  \E p \in artifacts :
    /\ p.facts.kind = "paper" /\ p.bytes = <<"paper", listed[i].paper>>
    /\ listed[i].pdf = NoFile <=> p.facts.pdf = NoDigest
    /\ listed[i].pdf # NoFile =>
         /\ p.facts.pdf[1] = listed[i].pdf
         /\ \E ref \in artifacts :
              ref.facts = PdfFacts(p.id) /\ ref.bytes[1] = listed[i].pdf

\* No model is called before every file and every paper listed so far is an
\* artifact of the Run, the PDF under the paper it belongs to, whichever owner
\* imported it; and saved progress never passes what was not imported.
NothingSkipped ==
  /\ \A i \in 1..nextImport : InputImported(i)
  /\ \A i \in 1..nextLiterature : ItemImported(i)
  /\ at = "agents" =>
       /\ nextImport = Len(imports) /\ nextLiterature = Len(listed)
       /\ \E ref \in artifacts : ref.id = requirements /\ ref.facts = RequirementFacts

\* Each import stands for one identity, the one allocated first, however
\* often it is interrupted and whatever is imported later.
OnePerOperation == \A r1, r2 \in Trusted : r1.key = r2.key => r1 = r2

\* Importing the same snapshot again reuses the artifact it has.
SnapshotsReused ==
  \A r1, r2 \in artifacts : r1.bytes = r2.bytes /\ r1.facts = r2.facts => r1 = r2

\* Allocations that are still recorded when the Agents are called are bound,
\* so that the last commit of the Run can acknowledge them.
LeftoversBound == at = "agents" => \A k \in Keys : IsPending(k) => IsBound(pending[k])

\* The initialization is complete when it says so, in as many identities as there were
\* imports, each of which can be acknowledged.
ImportsSound == TypeInvariant /\ NothingSkipped /\ OnePerOperation /\ LeftoversBound

\* While the files stay as they were, a Run whose user goes on with it is
\* initialized in the end, whatever died or failed before.
InitializationEnds ==
  status # "absent" ~> complete \/ \E f \in Files : source[f] # 0

-----------------------------------------------------------------------------
(* These hold while the user leaves the files alone, and only then. *)

\* The PDF registered under a paper is the one whose digest the paper records.
PdfAsRecorded ==
  \A p, ref \in artifacts :
    p.facts.kind = "paper" /\ ref.facts = PdfFacts(p.id) => ref.bytes = p.facts.pdf

\* An interrupted import whose file is frozen already goes on without its
\* source: initialization does not stop for a PDF that was frozen.
FrozenNeedsNoSource ==
  raised = "unreadable" =>
    LET k == PdfKey(nextLiterature + 1) IN ~(IsPending(k) /\ IsFrozen(pending[k]))
=============================================================================
