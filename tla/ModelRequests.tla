---------------------------- MODULE ModelRequests ----------------------------
(* One model call after another of one Run: each HTTP attempt is charged in   *)
(* the saved usage before it is sent, its outcome is saved when it is over,   *)
(* and a failed attempt may be repeated.  The provider may answer late or not *)
(* at all, another thread may cancel, the deadline may pass, saving may fail  *)
(* and the process may die between any two steps.                             *)
EXTENDS Integers, FiniteSets

CONSTANTS
  MaxCalls,        \* logical calls made
  Tries,           \* attempts of a call that is retried
  Wallet,          \* request.budget.max_llm_calls
  MaxFaults,       \* failed saves of the usage
  MaxCrashes

ASSUME RequestAssumption ==
  /\ MaxCalls \in Nat \ {0} /\ Tries \in Nat \ {0} /\ Wallet \in Nat
  /\ MaxFaults \in Nat /\ MaxCrashes \in Nat

Keys == [call : 1..MaxCalls, try : 0..(Tries - 1)]

Kinds == {"retried", "once"}
LimitOf(kind) == IF kind = "retried" THEN Tries ELSE 1

\* What a provider can answer, and what may happen to one attempt.
Answers == {"valid", "malformed", "envelope", "server_error", "client_error"}
Results == Answers \union {"none", "lost", "cancelled", "deadline"}
Recorded == {"none", "unknown", "failed", "succeeded"}
Ends == {"none", "answered", "failed", "malformed", "refused", "cancelled", "deadline",
         "exhausted", "storage"}

VARIABLES
  saved,       \* usage.requests of the stored Run
  held,        \* and of the Run object its owner holds
  provider,    \* what became of each attempt at the provider
  call, kind, try,
  scope,       \* call_limit of the budget bound for the call
  at, result, answer, end,
  expired,     \* the deadline of the Run has passed
  cancelled, callbacks, firing,     \* the CancellationToken and its canceller
  posted,      \* task.cancel waits in the loop of the attempt under way
  faults, crashes

usageVars == <<saved, held>>
tokenVars == <<cancelled, callbacks, firing, posted>>
callVars == <<call, kind, try, scope, result, answer, end>>
worldVars == <<provider, expired, faults, crashes>>
vars == <<usageVars, tokenVars, callVars, worldVars, at>>

Init ==
  /\ saved = [k \in Keys |-> "none"] /\ held = saved
  /\ provider = [k \in Keys |-> "none"]
  /\ call = 0 /\ kind = "once" /\ try = 0 /\ scope = 0
  /\ at = "idle" /\ result = "none" /\ answer = "none" /\ end = "none"
  /\ expired = FALSE /\ cancelled = FALSE /\ callbacks = {} /\ firing = {} /\ posted = FALSE
  /\ faults = 0 /\ crashes = 0

Key == [call |-> call, try |-> try]
Charged(usage) == {k \in Keys : usage[k] # "none"}
Used == Cardinality(Charged(held))

GoTo(step) == at' = step /\ UNCHANGED callVars

\* The call is over.
End(how) ==
  /\ at' = "idle" /\ end' = how
  /\ answer' = IF how = "answered" THEN result ELSE "none"
  /\ UNCHANGED <<call, kind, try, scope, result>>

-----------------------------------------------------------------------------
(* Before an attempt is sent *)

StartCall(k) ==
  /\ at = "idle" /\ call < MaxCalls /\ end # "storage" /\ end # "cancelled"
  /\ call' = call + 1 /\ kind' = k /\ try' = 0 /\ result' = "none"
  /\ answer' = "none" /\ end' = "none"
  /\ scope' = IF Used + LimitOf(k) < Wallet THEN Used + LimitOf(k) ELSE Wallet
  /\ at' = IF k = "retried" THEN "check" ELSE "prepare"
  /\ UNCHANGED <<usageVars, tokenVars, worldVars>>

\* ExecutionBudget.check
Exhausted == Used >= scope
CheckBudget ==
  /\ at = "check"
  /\ IF expired THEN End("deadline")
     ELSE IF Exhausted THEN End("exhausted")
     ELSE GoTo(IF try = 0 THEN "prepare" ELSE "backoff")
  /\ UNCHANGED <<usageVars, tokenVars, worldVars>>

\* cancellation.wait returns early when the token is cancelled.
BackOff ==
  /\ at = "backoff"
  /\ IF cancelled THEN End("cancelled") ELSE GoTo("prepare")
  /\ UNCHANGED <<usageVars, tokenVars, worldVars>>

Prepare ==
  /\ at = "prepare"
  /\ IF cancelled THEN End("cancelled") ELSE GoTo("charge")
  /\ UNCHANGED <<usageVars, tokenVars, worldVars>>

RefuseCharge ==
  /\ at = "charge" /\ (expired \/ Exhausted)
  /\ End(IF expired THEN "deadline" ELSE "exhausted")
  /\ UNCHANGED <<usageVars, tokenVars, worldVars>>

\* Mutant: every retry has a scope of its own.
ChargeUnchecked ==
  /\ at = "charge" /\ ~expired
  /\ held' = [held EXCEPT ![Key] = "unknown"] /\ saved' = held'
  /\ result' = "none" /\ at' = "send"
  /\ UNCHANGED <<call, kind, try, scope, answer, end, tokenVars, worldVars>>

\* Mutant: the charge is kept in memory until the attempt is over.
ChargeHeld ==
  /\ at = "charge" /\ ~expired /\ ~Exhausted
  /\ held' = [held EXCEPT ![Key] = "unknown"]
  /\ result' = "none" /\ at' = "send"
  /\ UNCHANGED <<call, kind, try, scope, answer, end, saved, tokenVars, worldVars>>

Charge ==
  /\ at = "charge" /\ ~expired /\ ~Exhausted
  /\ held' = [held EXCEPT ![Key] = "unknown"] /\ saved' = held'
  /\ result' = "none" /\ at' = "send"
  /\ UNCHANGED <<call, kind, try, scope, answer, end, tokenVars, worldVars>>

\* The owner stops: it knows of a charge the store does not.
ChargeFails ==
  /\ at = "charge" /\ ~expired /\ ~Exhausted /\ faults < MaxFaults
  /\ faults' = faults + 1
  /\ held' = [held EXCEPT ![Key] = "unknown"]
  /\ End("storage")
  /\ UNCHANGED <<saved, tokenVars, provider, expired, crashes>>

-----------------------------------------------------------------------------
(* send_request, one loop and one task for each attempt *)

Receive(what) ==
  /\ result' = what
  /\ UNCHANGED <<call, kind, try, scope, answer, end>>

Dispatch ==
  /\ at = "send"
  /\ IF expired THEN at' = "complete" /\ Receive("deadline")
     ELSE IF cancelled THEN at' = "complete" /\ Receive("cancelled")
     ELSE GoTo("register")
  /\ posted' = FALSE
  /\ UNCHANGED <<usageVars, cancelled, callbacks, firing, worldVars>>

\* Mutant: a token cancelled before the callback is registered is not noticed.
RegisterLate ==
  /\ at = "register"
  /\ callbacks' = IF cancelled THEN callbacks ELSE callbacks \union {Key}
  /\ GoTo("wait")
  /\ UNCHANGED <<usageVars, posted, cancelled, firing, worldVars>>

\* on_cancel: the callback is stored, or called at once.
RegisterCallback ==
  /\ at = "register"
  /\ callbacks' = IF cancelled THEN callbacks ELSE callbacks \union {Key}
  /\ posted' = cancelled
  /\ GoTo("wait")
  /\ UNCHANGED <<usageVars, cancelled, firing, worldVars>>

Transmit ==
  /\ at = "wait" /\ ~posted /\ provider[Key] = "none"
  /\ provider' = [provider EXCEPT ![Key] = "received"]
  /\ UNCHANGED <<usageVars, tokenVars, callVars, at, expired, faults, crashes>>

\* The loop of the attempt is closed whatever it ended with.
Unregister(what) ==
  /\ at' = "complete" /\ Receive(what)
  /\ callbacks' = callbacks \ {Key} /\ posted' = FALSE
  /\ UNCHANGED <<usageVars, cancelled, firing, worldVars>>

\* Mutant: an attempt has no timeout, only the connection may break.
LoseWhenSent == at = "wait" /\ provider[Key] # "none" /\ Unregister("lost")

Respond == at = "wait" /\ provider[Key] \in Answers /\ Unregister(provider[Key])
\* A transport error, or the timeout of the attempt.
Lose == at = "wait" /\ Unregister("lost")
CancelTask == at = "wait" /\ posted /\ Unregister("cancelled")

-----------------------------------------------------------------------------
(* After an attempt *)

\* Mutant: an attempt that was never answered counts as failed.
OutcomeNeverUnknown(what) == IF what = "valid" THEN "succeeded" ELSE "failed"

OutcomeOf(what) ==
  CASE what = "valid" -> "succeeded"
    [] what \in Answers \ {"valid"} -> "failed"
    [] OTHER -> "unknown"

\* Whether the attempt is repeated, and what the caller gets when it is not.
Retries(what) == kind = "retried" /\ what \in {"envelope", "server_error", "lost"}
EndOf(what) ==
  CASE what = "valid" -> "answered"
    [] what = "malformed" -> "malformed"
    [] what = "client_error" -> "refused"
    [] what \in {"cancelled", "deadline"} -> what
    [] OTHER -> "failed"

\* Mutant: the number of the attempt may reach the limit of the call.
AfterOneMore ==
  IF ~Retries(result) THEN End(EndOf(result))
  ELSE IF try < LimitOf(kind)
       THEN /\ try' = try + 1 /\ at' = "check"
            /\ UNCHANGED <<call, kind, scope, result, answer, end>>
       ELSE End("failed")

\* A lost answer or a broken envelope asks for the deadline first.
AfterAttempt ==
  IF ~Retries(result) THEN End(EndOf(result))
  ELSE IF expired /\ result # "server_error" THEN End("deadline")
  ELSE IF try + 1 < LimitOf(kind)
       THEN /\ try' = try + 1 /\ at' = "check"
            /\ UNCHANGED <<call, kind, scope, result, answer, end>>
       ELSE End("failed")

\* Mutant: an attempt that failed is given back to the wallet.
CompleteRefunds ==
  /\ at = "complete"
  /\ held' = [held EXCEPT ![Key] = IF result = "lost" THEN "none" ELSE OutcomeOf(result)]
  /\ saved' = held'
  /\ AfterAttempt
  /\ UNCHANGED <<tokenVars, worldVars>>

Complete ==
  /\ at = "complete"
  /\ held' = [held EXCEPT ![Key] = OutcomeOf(result)] /\ saved' = held'
  /\ AfterAttempt
  /\ UNCHANGED <<tokenVars, worldVars>>

\* Mutant: the answer is handed over although its outcome was not saved.
CompleteIgnores ==
  /\ at = "complete" /\ faults < MaxFaults
  /\ faults' = faults + 1
  /\ held' = [held EXCEPT ![Key] = OutcomeOf(result)]
  /\ AfterAttempt
  /\ UNCHANGED <<saved, tokenVars, provider, expired, crashes>>

CompleteFails ==
  /\ at = "complete" /\ faults < MaxFaults
  /\ faults' = faults + 1
  /\ held' = [held EXCEPT ![Key] = OutcomeOf(result)]
  /\ End("storage")
  /\ UNCHANGED <<saved, tokenVars, provider, expired, crashes>>

-----------------------------------------------------------------------------
(* The provider, the canceller, the clock and the process *)

Provide(k, what) ==
  /\ provider[k] = "received"
  /\ provider' = [provider EXCEPT ![k] = what]
  /\ UNCHANGED <<usageVars, tokenVars, callVars, at, expired, faults, crashes>>

\* CancellationToken.cancel takes the callbacks under the lock, calls them after.
Cancel ==
  /\ ~cancelled /\ at # "idle"
  /\ cancelled' = TRUE /\ firing' = callbacks /\ callbacks' = {}
  /\ UNCHANGED <<usageVars, posted, callVars, at, worldVars>>

\* A callback of a loop that is closed has no effect.
Fire(k) ==
  /\ k \in firing
  /\ firing' = firing \ {k}
  /\ posted' = (posted \/ (at = "wait" /\ k = Key))
  /\ UNCHANGED <<usageVars, cancelled, callbacks, callVars, at, worldVars>>

Expire ==
  /\ ~expired /\ at # "idle"
  /\ expired' = TRUE
  /\ UNCHANGED <<usageVars, tokenVars, callVars, at, provider, faults, crashes>>

\* The owner of a Run that was interrupted starts again with a token of its own.
Resume ==
  /\ at = "idle" /\ end \in {"cancelled", "storage"} /\ firing = {}
  /\ held' = saved /\ cancelled' = FALSE /\ callbacks' = {} /\ end' = "none"
  /\ UNCHANGED <<saved, firing, posted, call, kind, try, scope, result, answer, worldVars, at>>

Crash ==
  /\ at # "idle" /\ crashes < MaxCrashes
  /\ crashes' = crashes + 1
  /\ held' = saved /\ at' = "idle" /\ end' = "none" /\ answer' = "none"
  /\ cancelled' = FALSE /\ callbacks' = {} /\ firing' = {} /\ posted' = FALSE
  /\ UNCHANGED <<saved, call, kind, try, scope, result, provider, expired, faults>>

Done == at = "idle" /\ call = MaxCalls /\ UNCHANGED vars

Client ==
  \/ CheckBudget \/ BackOff \/ Prepare \/ RefuseCharge \/ Charge \/ ChargeFails
  \/ Dispatch \/ RegisterCallback \/ Respond \/ Lose \/ CancelTask
  \/ Complete \/ CompleteFails

Next ==
  \/ (\E k \in Kinds : StartCall(k)) \/ Client \/ Transmit
  \/ \E k \in Keys : Fire(k) \/ \E what \in Answers : Provide(k, what)
  \/ Cancel \/ Expire \/ Resume \/ Crash \/ Done

Spec == Init /\ [][Next]_vars
FairSpec == Spec /\ WF_vars(Client)

-----------------------------------------------------------------------------
\* The variables keep to the values the code gives them.
TypeInvariant ==
  /\ saved \in [Keys -> Recorded] /\ held \in [Keys -> Recorded]
  /\ provider \in [Keys -> Answers \union {"none", "received"}]
  /\ call \in 0..MaxCalls /\ kind \in Kinds /\ try \in 0..(Tries - 1) /\ scope \in 0..Wallet
  /\ at \in {"idle", "check", "backoff", "prepare", "charge", "send", "register", "wait", "complete"}
  /\ result \in Results /\ answer \in Results /\ end \in Ends
  /\ callbacks \subseteq Keys /\ firing \subseteq Keys
  /\ {expired, cancelled, posted} \subseteq BOOLEAN

\* No request reaches the provider before its charge is in the stored Run,
\* whatever was saved, lost or resumed around it.
ChargedBeforeSent == \A k \in Keys : provider[k] # "none" => saved[k] # "none"

\* The stored Run is never charged beyond its wallet, over all calls, retries
\* and restarts.
WithinWallet == Cardinality(Charged(saved)) <= Wallet

\* A recorded outcome is what the provider did: a success was answered with a
\* usable answer, a failure was answered at all.
OutcomesTrue ==
  \A k \in Keys :
    /\ saved[k] = "succeeded" => provider[k] = "valid"
    /\ saved[k] = "failed" => provider[k] \in Answers \ {"valid"}

\* An answer is handed to the caller only with its outcome saved.
AnswersRecorded == end = "answered" => answer = "valid" /\ saved[Key] = "succeeded"

\* Once a cancellation has called its callbacks, no attempt waits without
\* knowing of it, also when it was registered meanwhile.
CancelReaches == cancelled /\ firing = {} /\ at = "wait" => posted

\* A charge is never given back, and a decided outcome is never changed.
NeverRefunded ==
  [][\A k \in Keys : saved[k] # "none" =>
       saved'[k] # "none" /\ (saved[k] # "unknown" => saved'[k] = saved[k])]_saved

\* The account of the Run in its store is right at every moment: paid before
\* sent and never given back, within the wallet, with outcomes that are true and
\* answers that are recorded, over failed saves, retries, restarts and late callbacks.
Accounted ==
  /\ [](TypeInvariant /\ ChargedBeforeSent /\ WithinWallet /\ OutcomesTrue /\ AnswersRecorded)
  /\ NeverRefunded

\* A call ends, whether the provider answers or not.
CallEnds == at # "idle" ~> at = "idle"
=============================================================================
