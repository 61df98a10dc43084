-------------------------------- MODULE MCRun --------------------------------
(* The beginning and the end of a Run, each explored by itself: part says whose *)
(* steps are taken, and the state of the other rests.                           *)
EXTENDS Initialization

CONSTANTS
  EndKeys, EndBytes, EndFacts,                   \* what the end of a Run registers
  Opinions, MaxTurns, MaxRecords, MaxDeaths      \* Conclusion

VARIABLES
  part,
  slots, bound, stored, given,
  runStatus, result, opinion, reportId, inList, session, turn, unread, published,
  place, returned, next, interrupted, deaths

C == INSTANCE Conclusion WITH
  Keys <- EndKeys, Bytes <- EndBytes, Facts <- EndFacts,
  pending <- slots, artifacts <- bound, frozen <- stored, allocated <- given,
  status <- runStatus, listed <- inList, at <- place

ASSUME ConclusionAssumption == C!ConclusionAssumption

\* What ConclusionAssumption asks for, and no more.
ConclusionKeys == {<<"result", t, i>> : t \in 1..MaxTurns, i \in {1, 2}} \union {<<"final_report", 0, 0>>}
ConclusionBytes == ({"opinion", "report"} \X Opinions) \union ({"trace"} \X (1..MaxTurns))
ConclusionFacts == {"opinion", "trace", "report"}

conclusionVars ==
  <<slots, bound, stored, given, runStatus, result, opinion, reportId, inList, session, turn,
    unread, published, place, returned, next, interrupted, deaths>>
RunVars == <<part, vars, conclusionVars>>

\* What the part that rests holds is of no meaning.
Resting == "resting"
ConclusionRests ==
  /\ slots = Resting /\ bound = Resting /\ stored = Resting /\ given = Resting
  /\ runStatus = Resting /\ result = Resting /\ opinion = Resting /\ reportId = Resting
  /\ inList = Resting /\ session = Resting /\ turn = Resting /\ unread = Resting
  /\ published = Resting /\ place = Resting /\ returned = Resting /\ next = Resting
  /\ interrupted = Resting /\ deaths = Resting

RunInit ==
  /\ part \in {"initialization", "conclusion"}
  /\ Init
  /\ IF part = "conclusion" THEN C!Init ELSE ConclusionRests

Initializing == UNCHANGED <<part, conclusionVars>>
Concluding == UNCHANGED <<part, vars>>

InitializationNext ==
  \/ part = "initialization" /\ CheckFails /\ Initializing
  \/ part = "initialization" /\ ReuseArtifact /\ Initializing
  \/ part = "initialization" /\ StartFreezing /\ Initializing
  \/ part = "initialization" /\ AllocateRef /\ Initializing
  \/ part = "initialization" /\ FreezeRef /\ Initializing
  \/ part = "initialization" /\ BindRef /\ Initializing
  \/ part = "initialization" /\ FreezeFails /\ Initializing
  \/ part = "initialization" /\ StorageFails /\ Initializing
  \/ part = "initialization" /\ InputDone /\ Initializing
  \/ part = "initialization" /\ AckInput /\ Initializing
  \/ part = "initialization" /\ OpenItem /\ Initializing
  \/ part = "initialization" /\ ItemDone /\ Initializing
  \/ part = "initialization" /\ AckItem /\ Initializing
  \/ part = "initialization" /\ ItemsDone /\ Initializing
  \/ part = "initialization" /\ Finish /\ Initializing
  \/ part = "initialization" /\ AckRequirements /\ Initializing
  \/ part = "initialization" /\ Resume /\ Initializing
  \/ part = "initialization" /\ Answer /\ Initializing
  \/ part = "initialization" /\ Create /\ Initializing
  \/ part = "initialization" /\ Import /\ Initializing
  \/ part = "initialization" /\ Pause /\ Initializing
  \/ part = "initialization" /\ (\E f \in Files : EditFile(f)) /\ Initializing
  \/ part = "initialization" /\ Crash /\ Initializing

ConclusionNext ==
  \/ part = "conclusion" /\ C!Restart /\ Concluding
  \/ part = "conclusion" /\ C!Resume /\ Concluding
  \/ part = "conclusion" /\ C!ResumeRun /\ Concluding
  \/ part = "conclusion" /\ C!Advance /\ Concluding
  \/ part = "conclusion" /\ C!GoOn /\ Concluding
  \/ part = "conclusion" /\ C!Expire /\ Concluding
  \/ part = "conclusion" /\ C!Cancelled /\ Concluding
  \/ part = "conclusion" /\ C!KeptResult /\ Concluding
  \/ part = "conclusion" /\ (\E r \in C!Results : C!ParentTurns(r)) /\ Concluding
  \/ part = "conclusion" /\ C!SaveResult /\ Concluding
  \/ part = "conclusion" /\ C!DeferEarly /\ Concluding
  \/ part = "conclusion" /\ C!Receive /\ Concluding
  \/ part = "conclusion" /\ C!AllocateOutput /\ Concluding
  \/ part = "conclusion" /\ C!FreezeOutput /\ Concluding
  \/ part = "conclusion" /\ C!BindOutput /\ Concluding
  \/ part = "conclusion" /\ C!ReceiveFails /\ Concluding
  \/ part = "conclusion" /\ C!CommitTurn /\ Concluding
  \/ part = "conclusion" /\ C!CommitYield /\ Concluding
  \/ part = "conclusion" /\ C!FailTurn /\ Concluding
  \/ part = "conclusion" /\ C!Validate /\ Concluding
  \/ part = "conclusion" /\ C!DeferLate /\ Concluding
  \/ part = "conclusion" /\ C!Reject /\ Concluding
  \/ part = "conclusion" /\ C!Settle /\ Concluding
  \/ part = "conclusion" /\ C!DeferSession /\ Concluding
  \/ part = "conclusion" /\ C!DeferRun /\ Concluding
  \/ part = "conclusion" /\ C!AllocateReport /\ Concluding
  \/ part = "conclusion" /\ C!FreezeReport /\ Concluding
  \/ part = "conclusion" /\ C!BindReport /\ Concluding
  \/ part = "conclusion" /\ C!ReportFails /\ Concluding
  \/ part = "conclusion" /\ C!CommitRun /\ Concluding
  \/ part = "conclusion" /\ C!AcknowledgeOutput /\ Concluding
  \/ part = "conclusion" /\ C!AcknowledgeRaises /\ Concluding
  \/ part = "conclusion" /\ C!Acknowledged /\ Concluding
  \/ part = "conclusion" /\ C!AcknowledgeReport /\ Concluding
  \/ part = "conclusion" /\ C!Pause /\ Concluding
  \/ part = "conclusion" /\ C!SavePause /\ Concluding
  \/ part = "conclusion" /\ (\E kind \in {"input", "interrupt"} : C!Publish(kind)) /\ Concluding
  \/ part = "conclusion" /\ C!Crash /\ Concluding
  \/ part = "conclusion" /\ C!Over /\ Concluding

RunNext == InitializationNext \/ ConclusionNext

\* The owner's code runs on, and the user goes on with a Run that stopped.
RunSpec ==
  RunInit /\ [][RunNext]_RunVars
  /\ WF_RunVars(part = "initialization" /\ OwnerStep /\ Initializing)
  /\ WF_RunVars(part = "initialization" /\ Continue /\ Initializing)

-----------------------------------------------------------------------------
\* The end of a Run (controller.py 553-640): it completes when every record was read, with
\* one report, made from the opinion it ends with, although outputs and report are
\* registered before the terminal commit and acknowledged after it, and owners die between
\* the saves; what is never acknowledged is bound.
ConclusionSound ==
  /\ [](part = "conclusion" => C!TypeInvariant /\ C!ConcludedAsJudged)
  /\ [][part = "conclusion" => C!ConclusionStands]_conclusionVars
=============================================================================
