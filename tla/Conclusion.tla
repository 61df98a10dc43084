------------------------------ MODULE Conclusion ------------------------------
(* How a Run ends.  The parent's result is saved with the Run, its outputs are *)
(* registered one by one, the opinion is judged, and the report is registered  *)
(* and the Run completed while nobody may publish; the registrations are       *)
(* acknowledged after that.  A record that arrives before sends the parent     *)
(* back to work.  The owner may die after any save.                            *)
EXTENDS Registry, Sequences

CONSTANTS
  Opinions,     \* what the parent may conclude
  MaxTurns,     \* results of the parent
  MaxRecords,   \* records the user publishes
  MaxDeaths

Turns == 1..MaxTurns
NoOpinion == 0
Kept == {"completed", "failed"}
Outcomes == Kept \union {"continues", "yielded", "interrupted"}
Results ==
  [turn : Turns, outcome : {"completed"}, opinion : Opinions]
  \union [turn : Turns, outcome : Outcomes \ {"completed"}, opinion : {NoOpinion}]
NoResult == [turn |-> 0]

\* A result is registered under the time its Session was saved, one per turn.
ResultKey(t, i) == <<"result", t, i>>
ReportKey == <<"final_report", 0, 0>>
ResultKeys == {ResultKey(t, i) : t \in Turns, i \in {1, 2}}
ConclusionKeys == ResultKeys \union {ReportKey}
ConclusionBytes == ({"opinion", "report"} \X Opinions) \union ({"trace"} \X Turns)
ConclusionFacts == {"opinion", "trace", "report"}

ConclusionAssumption ==
  /\ Opinions \subseteq Nat \ {0} /\ MaxTurns \in Nat /\ MaxRecords \in Nat /\ MaxDeaths \in Nat
  /\ ConclusionKeys \subseteq Keys /\ ConclusionBytes \subseteq Bytes
  /\ ConclusionFacts \subseteq Facts

VARIABLES
  status,           \* running, paused, completed or failed
  result,           \* pending_module_results
  opinion, reportId, listed,    \* final_opinion and its report, scientific_artifact_ids
  session, turn,    \* the result the Session keeps, and the turns it took
  unread, published,            \* the inbox: kinds not consumed yet
  at, returned, next, interrupted,   \* the owner and its locals
  deaths

savedVars == <<status, result, opinion, reportId, listed>>
sessionVars == <<session, turn>>
localVars == <<at, returned, next, interrupted>>
inboxVars == <<unread, published>>
vars == <<registryVars, savedVars, sessionVars, localVars, inboxVars, deaths>>

Init ==
  /\ RegistryInit
  /\ status = "running" /\ result = NoResult
  /\ opinion = NoOpinion /\ reportId = 0 /\ listed = {}
  /\ session = NoResult /\ turn = 0 /\ unread = {} /\ published = 0
  /\ at = "down" /\ returned = NoResult /\ next = 1 /\ interrupted = FALSE
  /\ deaths = 0

GoTo(place) == at' = place /\ UNCHANGED <<returned, next, interrupted>>
Leave == at' = "down" /\ returned' = NoResult /\ next' = 1 /\ interrupted' = FALSE

\* Every record there is becomes an input of the Run; an interrupt among them is told.
ConsumeControls(place) ==
  /\ unread' = {} /\ interrupted' = ("interrupt" \in unread)
  /\ at' = place /\ UNCHANGED <<returned, next, published>>

\* Whatever goes wrong with a turn ends the Run; what was registered stays.
Fail ==
  /\ status' = "failed" /\ Leave
  /\ UNCHANGED <<registryVars, result, opinion, reportId, listed, sessionVars, inboxVars, deaths>>

-----------------------------------------------------------------------------
(* The owner's loop up to the parent's turn. *)

Restart ==
  /\ at = "down" /\ status = "running"
  /\ GoTo("advance")
  /\ UNCHANGED <<registryVars, savedVars, sessionVars, inboxVars, deaths>>

Resume ==
  /\ at = "down" /\ status = "paused"
  /\ ConsumeControls(IF "interrupt" \in unread THEN "pause" ELSE "resumed")
  /\ UNCHANGED <<registryVars, savedVars, sessionVars, deaths>>

ResumeRun ==
  /\ at = "resumed" /\ status' = "running"
  /\ GoTo("advance")
  /\ UNCHANGED <<registryVars, result, opinion, reportId, listed, sessionVars, inboxVars, deaths>>

Advance ==
  /\ at = "advance"
  /\ ConsumeControls(IF "interrupt" \in unread THEN "pause" ELSE "loop")
  /\ UNCHANGED <<registryVars, savedVars, sessionVars, deaths>>

\* A result that was saved comes before another turn.
GoOn ==
  /\ at = "loop"
  /\ GoTo(IF result = NoResult THEN "agent" ELSE "check")
  /\ UNCHANGED <<registryVars, savedVars, sessionVars, inboxVars, deaths>>

\* The time, or the calls, of the Run are used up.
Expire == at \in {"loop", "agent"} /\ Fail

Cancelled ==
  /\ at = "agent" /\ "interrupt" \in unread
  /\ GoTo("pause")
  /\ UNCHANGED <<registryVars, savedVars, sessionVars, inboxVars, deaths>>

\* A Session that ended answers with what it ended with.
KeptResult ==
  /\ at = "agent" /\ session # NoResult
  /\ returned' = session /\ at' = "returned"
  /\ UNCHANGED <<registryVars, savedVars, sessionVars, next, interrupted, inboxVars, deaths>>

\* Only a record of its kind makes the parent yield, or stop.
ParentTurns(r) ==
  /\ at = "agent" /\ session = NoResult
  /\ r.turn = turn + 1
  /\ r.outcome = "yielded" => "input" \in unread
  /\ r.outcome = "interrupted" => "interrupt" \in unread
  /\ turn' = r.turn
  /\ session' = IF r.outcome \in Kept THEN r ELSE NoResult
  /\ returned' = r /\ at' = "returned"
  /\ UNCHANGED <<registryVars, savedVars, next, interrupted, inboxVars, deaths>>

-----------------------------------------------------------------------------
(* _apply_turn *)

SaveResult ==
  /\ at = "returned"
  /\ result' = returned /\ returned' = NoResult /\ at' = "check"
  /\ UNCHANGED <<registryVars, status, opinion, reportId, listed, sessionVars, next, interrupted,
                 inboxVars, deaths>>

\* A record published before the result is received gets a turn.
DeferEarly ==
  /\ at = "check" /\ result.outcome = "completed" /\ unread # {}
  /\ ConsumeControls("earlySession")
  /\ UNCHANGED <<registryVars, savedVars, sessionVars, deaths>>

Receive ==
  /\ at = "check" /\ ~(result.outcome = "completed" /\ unread # {})
  /\ at' = "outputs" /\ next' = 1
  /\ UNCHANGED <<registryVars, savedVars, sessionVars, returned, interrupted, inboxVars, deaths>>

\* Only a result that ends the Session brings candidates; the others name what
\* the tools of the parent registered before.
Outputs ==
  CASE result.outcome = "completed" ->
         <<[bytes |-> <<"opinion", result.opinion>>, facts |-> "opinion"],
           [bytes |-> <<"trace", result.turn>>, facts |-> "trace"]>>
    [] result.outcome = "failed" -> <<[bytes |-> <<"trace", result.turn>>, facts |-> "trace"]>>
    [] OTHER -> <<>>
OutputKey == ResultKey(result.turn, next)
Receiving == at = "outputs" /\ next <= Len(Outputs)
Received == at = "outputs" /\ next > Len(Outputs)
ReceivedIds == {ref.id : ref \in {a \in artifacts : \E i \in {1, 2} : a.key = ResultKey(result.turn, i)}}

AllocateOutput ==
  /\ Receiving /\ Allocate(OutputKey, Outputs[next].bytes, Outputs[next].facts)
  /\ UNCHANGED <<savedVars, sessionVars, localVars, inboxVars, deaths>>

FreezeOutput ==
  /\ Receiving /\ Freeze(OutputKey, Outputs[next].bytes)
  /\ UNCHANGED <<savedVars, sessionVars, localVars, inboxVars, deaths>>

BindOutput ==
  /\ Receiving /\ Bind(OutputKey)
  /\ next' = next + 1
  /\ UNCHANGED <<savedVars, sessionVars, at, returned, interrupted, inboxVars, deaths>>

\* The result is refused, or the storage fails.
ReceiveFails == at \in {"check", "outputs"} /\ Fail

CommitTurn ==
  /\ Received /\ result.outcome = "continues"
  /\ result' = NoResult
  /\ GoTo("acknowledge")
  /\ UNCHANGED <<registryVars, status, opinion, reportId, listed, sessionVars, inboxVars, deaths>>

CommitYield ==
  /\ Received /\ result.outcome \in {"yielded", "interrupted"}
  /\ result' = NoResult
  /\ GoTo(IF result.outcome = "interrupted" THEN "pause" ELSE "advance")
  /\ UNCHANGED <<registryVars, status, opinion, reportId, listed, sessionVars, inboxVars, deaths>>

FailTurn == Received /\ result.outcome = "failed" /\ Fail

\* The validator may accept the opinion or not.
Validate ==
  /\ Received /\ result.outcome = "completed"
  /\ \E verdict \in {"accepted", "rejected"} : GoTo(verdict)
  /\ UNCHANGED <<registryVars, savedVars, sessionVars, inboxVars, deaths>>

\* The fence is taken, and what was published meanwhile still gets a turn.
DeferLate ==
  /\ at \in {"accepted", "rejected"} /\ unread # {}
  /\ ConsumeControls("lateSession")
  /\ UNCHANGED <<registryVars, savedVars, sessionVars, deaths>>

Reject == at = "rejected" /\ unread = {} /\ Fail

\* Mutant: the records are not looked at again.
SettleUnseen ==
  /\ at = "accepted"
  /\ GoTo("report")
  /\ UNCHANGED <<registryVars, savedVars, sessionVars, inboxVars, deaths>>

Settle ==
  /\ at = "accepted" /\ unread = {}
  /\ GoTo("report")
  /\ UNCHANGED <<registryVars, savedVars, sessionVars, inboxVars, deaths>>

\* The Session is told to go on, then the Run forgets the result.
DeferSession ==
  /\ at \in {"earlySession", "lateSession"}
  /\ session' = NoResult
  /\ GoTo(IF at = "lateSession" THEN "lateRun" ELSE "earlyRun")
  /\ UNCHANGED <<registryVars, savedVars, turn, inboxVars, deaths>>

DeferRun ==
  /\ at \in {"earlyRun", "lateRun"}
  /\ result' = NoResult
  /\ listed' = IF at = "lateRun" THEN listed \union ReceivedIds ELSE listed
  /\ GoTo(IF at = "lateRun" THEN "acknowledge" ELSE IF interrupted THEN "pause" ELSE "advance")
  /\ UNCHANGED <<registryVars, status, opinion, reportId, sessionVars, inboxVars, deaths>>

-----------------------------------------------------------------------------
(* The report, the terminal commit and the acknowledgements *)

ReportBytes == <<"report", result.opinion>>

\* Mutant: what an earlier owner registered as the report is taken for it.
ReportRecovered == TRUE

\* A report that was allocated before must be the one rendered now.
ReportAgrees == IsPending(ReportKey) => pending[ReportKey].bytes = ReportBytes

AllocateReport ==
  /\ at = "report" /\ Allocate(ReportKey, ReportBytes, "report")
  /\ UNCHANGED <<savedVars, sessionVars, localVars, inboxVars, deaths>>

FreezeReport ==
  /\ at = "report" /\ Freeze(ReportKey, ReportBytes)
  /\ UNCHANGED <<savedVars, sessionVars, localVars, inboxVars, deaths>>

BindReport ==
  /\ at = "report" /\ ReportAgrees /\ Bind(ReportKey)
  /\ GoTo("commit")
  /\ UNCHANGED <<savedVars, sessionVars, inboxVars, deaths>>

ReportFails ==
  /\ at = "report"
  /\ ~ReportAgrees \/ ~IsPending(ReportKey) \/ ~IsFrozen(pending[ReportKey])
  /\ Fail

CommitRun ==
  /\ at = "commit"
  /\ status' = "completed" /\ opinion' = result.opinion
  /\ reportId' = pending[ReportKey].id
  /\ listed' = listed \union ReceivedIds
  /\ result' = NoResult
  /\ GoTo("acknowledge")
  /\ UNCHANGED <<registryVars, sessionVars, inboxVars, deaths>>

Unacknowledged == {k \in ResultKeys : IsPending(k)}

\* In the order of their allocation, those of earlier turns included.
FirstUnacknowledged(k) ==
  k \in Unacknowledged /\ \A j \in Unacknowledged : pending[k].id <= pending[j].id

AcknowledgeOutput ==
  /\ at = "acknowledge"
  /\ \E k \in ResultKeys : FirstUnacknowledged(k) /\ Acknowledge(k)
  /\ UNCHANGED <<savedVars, sessionVars, localVars, inboxVars, deaths>>

\* One that was never bound raises, and a turn that was committed fails.
AcknowledgeRaises ==
  /\ at = "acknowledge"
  /\ \E k \in ResultKeys : FirstUnacknowledged(k) /\ ~IsBound(pending[k])
  /\ Fail

\* Mutant: only the first registration is acknowledged.
AcknowledgedEarly ==
  /\ at = "acknowledge"
  /\ GoTo(IF status = "completed" THEN "acknowledgeReport"
          ELSE IF interrupted THEN "pause" ELSE "advance")
  /\ UNCHANGED <<registryVars, savedVars, sessionVars, inboxVars, deaths>>

Acknowledged ==
  /\ at = "acknowledge" /\ Unacknowledged = {}
  /\ GoTo(IF status = "completed" THEN "acknowledgeReport"
          ELSE IF interrupted THEN "pause" ELSE "advance")
  /\ UNCHANGED <<registryVars, savedVars, sessionVars, inboxVars, deaths>>

AcknowledgeReport ==
  /\ at = "acknowledgeReport" /\ Acknowledge(ReportKey)
  /\ Leave
  /\ UNCHANGED <<savedVars, sessionVars, inboxVars, deaths>>

-----------------------------------------------------------------------------
(* _pause_interrupted, the user, and the owner's death *)

Pause ==
  /\ at = "pause"
  /\ ConsumeControls("pausing")
  /\ UNCHANGED <<registryVars, savedVars, sessionVars, deaths>>

SavePause ==
  /\ at = "pausing" /\ status' = "paused"
  /\ Leave
  /\ UNCHANGED <<registryVars, result, opinion, reportId, listed, sessionVars, inboxVars, deaths>>

\* From the fence to the terminal commit, or to the deferral, nobody publishes;
\* and nobody publishes to a Run that ended.
Fenced == {"lateSession", "lateRun", "report", "commit"}

Publish(kind) ==
  /\ at \notin Fenced /\ status \in {"running", "paused"}
  /\ published < MaxRecords
  /\ published' = published + 1 /\ unread' = unread \union {kind}
  /\ UNCHANGED <<registryVars, savedVars, sessionVars, localVars, deaths>>

Crash ==
  /\ at # "down" /\ deaths < MaxDeaths
  /\ deaths' = deaths + 1
  /\ Leave
  /\ UNCHANGED <<registryVars, savedVars, sessionVars, inboxVars>>

\* The Run ended, and its owner returned.
Over == at = "down" /\ status \in Kept /\ UNCHANGED vars

Next ==
  \/ Restart \/ Resume \/ ResumeRun \/ Advance \/ GoOn \/ Expire \/ Cancelled \/ KeptResult
  \/ \E r \in Results : ParentTurns(r)
  \/ SaveResult \/ DeferEarly \/ Receive \/ AllocateOutput \/ FreezeOutput \/ BindOutput
  \/ ReceiveFails \/ CommitTurn \/ CommitYield \/ FailTurn \/ Validate
  \/ DeferLate \/ Reject \/ Settle \/ DeferSession \/ DeferRun
  \/ AllocateReport \/ FreezeReport \/ BindReport \/ ReportFails \/ CommitRun
  \/ AcknowledgeOutput \/ AcknowledgeRaises \/ Acknowledged \/ AcknowledgeReport
  \/ Pause \/ SavePause
  \/ \E kind \in {"input", "interrupt"} : Publish(kind)
  \/ Crash \/ Over

Spec == Init /\ [][Next]_vars

-----------------------------------------------------------------------------
\* The variables keep to the values the code gives them.
TypeInvariant ==
  /\ RegistryTypes
  /\ status \in {"running", "paused"} \union Kept
  /\ result \in Results \union {NoResult} /\ returned \in Results \union {NoResult}
  /\ session \in Results \union {NoResult} /\ turn \in 0..MaxTurns
  /\ opinion \in Opinions \union {NoOpinion} /\ reportId \in 0..allocated
  /\ listed \subseteq 1..allocated
  /\ unread \subseteq {"input", "interrupt"} /\ published \in 0..MaxRecords
  /\ next \in 1..3 /\ interrupted \in BOOLEAN /\ deaths \in 0..MaxDeaths

\* A Run that ended with an opinion has one report, made from that opinion, and lists the
\* artifact of that opinion, whatever an earlier owner registered for a turn that was
\* deferred.
ReportIsOpinions ==
  reportId # 0 =>
    /\ \E ref \in artifacts :
         ref.id = reportId /\ ref.key = ReportKey /\ ref.bytes = <<"report", opinion>>
    /\ \E ref \in artifacts : ref.id \in listed /\ ref.bytes = <<"opinion", opinion>>
    /\ \A r1, r2 \in artifacts : r1.key = ReportKey /\ r2.key = ReportKey => r1 = r2

\* What a completed Run leaves unacknowledged is bound, unless it belongs to a turn that
\* was deferred; and an owner that does not die leaves nothing.
LeftIsBound ==
  status = "completed" =>
    /\ \A k \in Keys :
         IsPending(k) => IsBound(pending[k]) \/ (k # ReportKey /\ k[2] < turn)
    /\ at = "down" /\ deaths = 0 => \A k \in Keys : ~IsPending(k)

\* The Run ends in the state it promises: a report of its opinion, and registrations that
\* were bound.
ConcludedAsJudged == RegistrySound /\ ReportIsOpinions /\ LeftIsBound

\* A Run completes only when every record was read, and stays as it was concluded: the
\* acknowledgements that follow may fail it only for a registration that was never bound.
ConclusionStands ==
  /\ status # "completed" /\ status' = "completed" => unread = {}
  /\ reportId # 0 => reportId' = reportId /\ opinion' = opinion
  /\ status = "completed" /\ status' # "completed" =>
       \E k \in ResultKeys : IsPending(k) /\ ~IsBound(pending[k])
=============================================================================
