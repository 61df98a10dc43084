------------------------- MODULE ModelRequestsProofs -------------------------
(* The accounting of model calls, for every number of calls and retries, every *)
(* wallet, and any number of failing saves and deaths.                         *)
EXTENDS ModelRequests, FiniteSetTheorems, TLAPS

USE RequestAssumption

Attempting == {"send", "register", "wait", "complete"}
Before == {"check", "backoff", "prepare", "charge"}

\* The attempts that were not begun: of later calls, later ones of this call, and this one
\* until it is charged.
Unbegun(k) ==
  \/ k.call > call
  \/ k.call = call /\ k.try > try
  \/ k = Key /\ at \in Before

\* What charges and requests rely on.  The owner and the store agree unless a save failed,
\* after which the owner has stopped; what was not begun is neither charged nor sent; and an
\* attempt under way is charged, its outcome open.
Ledger ==
  /\ at # "idle" => call # 0 /\ end = "none"
  /\ end # "storage" => held = saved
  /\ \A k \in Keys : Unbegun(k) => saved[k] = "none"
  /\ at \in Attempting => saved[Key] = "unknown"
  /\ IsFiniteSet(Charged(saved))

\* What the provider did is what the attempt saw.
Answered ==
  /\ ChargedBeforeSent
  /\ OutcomesTrue
  /\ at = "complete" /\ result \in Answers => provider[Key] = result

\* A callback that was registered is either still to be called or already posted.
Reachable ==
  /\ cancelled => callbacks = {}
  /\ ~cancelled => firing = {}
  /\ at = "wait" /\ ~posted => Key \in callbacks \union firing

Inv == TypeInvariant /\ Ledger /\ WithinWallet /\ Answered /\ AnswersRecorded /\ Reachable

\* The attempt under way is one of the attempts of the Run.
LEMMA KeyInKeys ==
  ASSUME TypeInvariant, call # 0 PROVE Key \in Keys
BY DEF TypeInvariant, Key, Keys

\* The number of charges is a number.
LEMMA UsedNat ==
  ASSUME Ledger, end # "storage" PROVE Used \in Nat /\ Used = Cardinality(Charged(saved))
<1>1. Charged(held) = Charged(saved)
  BY DEF Ledger, Charged
<1> QED BY <1>1, FS_CardinalityType DEF Ledger, Used

\* The initial states satisfy the invariant.
LEMMA InitInv == Init => Inv
<1> SUFFICES ASSUME Init PROVE Inv
  OBVIOUS
<1>1. Charged(saved) = {} /\ Cardinality({}) = 0 /\ IsFiniteSet({})
  BY FS_EmptySet DEF Init, Charged
<1>2. TypeInvariant
  <2>1. /\ saved \in [Keys -> Recorded] /\ held \in [Keys -> Recorded]
        /\ provider \in [Keys -> Answers \union {"none", "received"}]
    BY DEF Init, Recorded
  <2>2. try \in 0..(Tries - 1) /\ scope \in 0..Wallet /\ call \in 0..MaxCalls
    BY DEF Init
  <2>3. {expired, cancelled, posted} \subseteq BOOLEAN
    BY DEF Init
  <2> QED BY <2>1, <2>2, <2>3 DEF Init, TypeInvariant, Results, Ends, Kinds
<1>3. Ledger /\ WithinWallet
  BY <1>1 DEF Init, Ledger, WithinWallet, Unbegun, Attempting
<1>4. Answered /\ AnswersRecorded /\ Reachable
  BY DEF Init, Answered, ChargedBeforeSent, OutcomesTrue, AnswersRecorded, Reachable
<1> QED BY <1>2, <1>3, <1>4 DEF Inv

-----------------------------------------------------------------------------
(* Every step keeps the invariant *)

\* Each step keeps the types.
LEMMA NextTyped == TypeInvariant /\ Ledger /\ [Next]_vars => TypeInvariant'
<1> SUFFICES ASSUME TypeInvariant, Ledger, [Next]_vars PROVE TypeInvariant'
  OBVIOUS
<1> USE DEF TypeInvariant, Recorded, Results, Ends, Kinds, GoTo, End, usageVars, tokenVars,
            callVars, worldVars, vars
<1>1. CASE \E k \in Kinds : StartCall(k)
  <2> PICK k \in Kinds : StartCall(k)
    BY <1>1
  <2>1. Used \in Nat /\ LimitOf(k) \in Nat
    BY UsedNat DEF StartCall, LimitOf
  <2>2. scope' \in 0..Wallet
    BY <2>1 DEF StartCall
  <2> QED BY <2>2 DEF StartCall
<1>2. CASE CheckBudget
  BY <1>2 DEF CheckBudget
<1>3. CASE BackOff
  BY <1>3 DEF BackOff
<1>4. CASE Prepare
  BY <1>4 DEF Prepare
<1>5. CASE RefuseCharge
  BY <1>5 DEF RefuseCharge
<1>6. CASE Charge
  BY <1>6 DEF Charge
<1>7. CASE ChargeFails
  BY <1>7 DEF ChargeFails
<1>8. CASE Dispatch
  BY <1>8 DEF Dispatch, Receive
<1>9. CASE RegisterCallback
  <2>1. Key \in Keys
    BY <1>9, KeyInKeys DEF RegisterCallback, Ledger
  <2>2. callbacks' \subseteq Keys
    BY <2>1, <1>9 DEF RegisterCallback
  <2>3. {expired', cancelled', posted'} \subseteq BOOLEAN
    BY <1>9 DEF RegisterCallback
  <2> QED BY <2>2, <2>3, <1>9 DEF RegisterCallback
<1>10. CASE Respond
  BY <1>10 DEF Respond, Unregister, Receive
<1>11. CASE Lose
  BY <1>11 DEF Lose, Unregister, Receive
<1>12. CASE CancelTask
  BY <1>12 DEF CancelTask, Unregister, Receive
<1>13. CASE Complete
  <2>1. Key \in Keys /\ OutcomeOf(result) \in Recorded
    BY <1>13, KeyInKeys DEF Complete, Ledger, OutcomeOf, Answers
  <2>2. held' \in [Keys -> Recorded] /\ saved' \in [Keys -> Recorded]
    BY <2>1, <1>13 DEF Complete
  <2>3. try' \in 0..(Tries - 1)
    BY <1>13 DEF Complete, AfterAttempt, LimitOf
  <2> QED BY <2>2, <2>3, <1>13 DEF Complete, AfterAttempt, EndOf
<1>14. CASE CompleteFails
  <2>1. Key \in Keys /\ OutcomeOf(result) \in Recorded
    BY <1>14, KeyInKeys DEF CompleteFails, Ledger, OutcomeOf, Answers
  <2> QED BY <2>1, <1>14 DEF CompleteFails
<1>15. CASE Transmit
  BY <1>15 DEF Transmit
<1>16. CASE \E k \in Keys : Fire(k)
  BY <1>16 DEF Fire
<1>17. CASE \E k \in Keys, what \in Answers : Provide(k, what)
  BY <1>17 DEF Provide
<1>18. CASE Cancel
  BY <1>18 DEF Cancel
<1>19. CASE Expire
  BY <1>19 DEF Expire
<1>20. CASE Resume
  BY <1>20 DEF Resume
<1>21. CASE Crash
  BY <1>21 DEF Crash
<1>22. CASE Done \/ UNCHANGED vars
  BY <1>22 DEF Done
<1> QED
  BY <1>1, <1>2, <1>3, <1>4, <1>5, <1>6, <1>7, <1>8, <1>9, <1>10, <1>11,
     <1>12, <1>13, <1>14, <1>15, <1>16, <1>17, <1>18, <1>19, <1>20, <1>21, <1>22 DEF Next, Client

\* Each step keeps the ledger.
LEMMA NextLedger == TypeInvariant /\ Ledger /\ [Next]_vars => Ledger'
<1> SUFFICES ASSUME TypeInvariant, Ledger, [Next]_vars PROVE Ledger'
  OBVIOUS
<1> USE DEF Ledger, Attempting, Before, Unbegun, Key, GoTo, End, usageVars, tokenVars, callVars,
            worldVars, vars
<1>c. saved' = saved => Charged(saved)' = Charged(saved)
  BY DEF Charged
<1>1. CASE \E k \in Kinds : StartCall(k)
  <2> PICK k \in Kinds : StartCall(k)
    BY <1>1
  <2> QED BY <1>c DEF StartCall, TypeInvariant, Keys
<1>2. CASE CheckBudget
  BY <1>2, <1>c DEF CheckBudget
<1>3. CASE BackOff
  BY <1>3, <1>c DEF BackOff
<1>4. CASE Prepare
  BY <1>4, <1>c DEF Prepare
<1>5. CASE RefuseCharge
  BY <1>5, <1>c DEF RefuseCharge
<1>6. CASE Charge
  <2>1. Key \in Keys /\ saved = held
    BY <1>6, KeyInKeys DEF Charge
  <2>2. saved' = [saved EXCEPT ![Key] = "unknown"] /\ held' = saved'
    BY <2>1, <1>6 DEF Charge
  <2>3. Charged(saved') = Charged(saved) \union {Key}
    BY <2>1, <2>2 DEF Charged, TypeInvariant
  <2>4. IsFiniteSet(Charged(saved'))
    BY <2>3, FS_AddElement
  <2> QED BY <2>1, <2>2, <2>4, <1>6 DEF Charge, TypeInvariant, Charged
<1>7. CASE ChargeFails
  BY <1>7, <1>c DEF ChargeFails
<1>8. CASE Dispatch
  BY <1>8, <1>c DEF Dispatch, Receive
<1>9. CASE RegisterCallback
  BY <1>9, <1>c DEF RegisterCallback
<1>10. CASE Respond
  BY <1>10, <1>c DEF Respond, Unregister, Receive
<1>11. CASE Lose
  BY <1>11, <1>c DEF Lose, Unregister, Receive
<1>12. CASE CancelTask
  BY <1>12, <1>c DEF CancelTask, Unregister, Receive
<1>13. CASE Complete
  <2>1. Key \in Keys /\ saved = held /\ OutcomeOf(result) # "none"
    BY <1>13, KeyInKeys DEF Complete, OutcomeOf
  <2>2. saved' = [saved EXCEPT ![Key] = OutcomeOf(result)] /\ held' = saved'
    BY <2>1, <1>13 DEF Complete
  <2>3. Charged(saved') = Charged(saved)
    BY <2>1, <2>2, <1>13 DEF Charged, TypeInvariant, Complete
  <2>4. \A k \in Keys : Unbegun(k)' => Unbegun(k) /\ k # Key
    BY <1>13 DEF Complete, AfterAttempt, Keys, TypeInvariant
  <2> QED BY <2>1, <2>2, <2>3, <2>4, <1>13 DEF Complete, AfterAttempt, EndOf, TypeInvariant, Charged
<1>14. CASE CompleteFails
  BY <1>14, <1>c DEF CompleteFails
<1>15. CASE Transmit
  BY <1>15, <1>c DEF Transmit
<1>16. CASE \E k \in Keys : Fire(k)
  BY <1>16, <1>c DEF Fire
<1>17. CASE \E k \in Keys, what \in Answers : Provide(k, what)
  BY <1>17, <1>c DEF Provide
<1>18. CASE Cancel
  BY <1>18, <1>c DEF Cancel
<1>19. CASE Expire
  BY <1>19, <1>c DEF Expire
<1>20. CASE Resume
  BY <1>20, <1>c DEF Resume
<1>21. CASE Crash
  BY <1>21, <1>c DEF Crash
<1>22. CASE Done \/ UNCHANGED vars
  BY <1>22, <1>c DEF Done
<1> QED
  BY <1>1, <1>2, <1>3, <1>4, <1>5, <1>6, <1>7, <1>8, <1>9, <1>10, <1>11,
     <1>12, <1>13, <1>14, <1>15, <1>16, <1>17, <1>18, <1>19, <1>20, <1>21, <1>22 DEF Next, Client

\* The wallet: an attempt is charged below the limit of its call, which is within it.
LEMMA NextWallet ==
  TypeInvariant /\ Ledger /\ WithinWallet /\ [Next]_vars => WithinWallet'
<1> SUFFICES ASSUME TypeInvariant, Ledger, WithinWallet, [Next]_vars PROVE WithinWallet'
  OBVIOUS
<1>c. saved' = saved => Charged(saved)' = Charged(saved)
  BY DEF Charged
<1>1. CASE Charge
  <2>1. Key \in Keys /\ saved = held /\ end = "none"
    BY <1>1, KeyInKeys DEF Charge, Ledger
  <2>2. Charged(saved') = Charged(saved) \union {Key}
    BY <2>1, <1>1 DEF Charge, Charged, TypeInvariant
  <2>3. Used \in Nat /\ Used = Cardinality(Charged(saved)) /\ Used < scope /\ scope \in 0..Wallet
    BY <2>1, <1>1, UsedNat DEF Charge, Exhausted, TypeInvariant
  <2>4. Cardinality(Charged(saved')) <= Used + 1
    BY <2>2, <2>3, FS_AddElement DEF Ledger
  <2>5. Cardinality(Charged(saved')) \in Nat
    BY <2>2, FS_AddElement, FS_CardinalityType DEF Ledger
  <2> QED BY <2>3, <2>4, <2>5 DEF WithinWallet
<1>2. CASE Complete
  <2>1. Key \in Keys /\ saved = held /\ saved[Key] # "none" /\ OutcomeOf(result) # "none"
    BY <1>2, KeyInKeys DEF Complete, OutcomeOf, Ledger, Attempting
  <2>2. Charged(saved') = Charged(saved)
    BY <2>1, <1>2 DEF Complete, Charged, TypeInvariant
  <2> QED BY <2>2 DEF WithinWallet
<1>3. CASE ~(Charge \/ Complete)
  <2>1. saved' = saved
    BY <1>3 DEF Next, Client, StartCall, CheckBudget, BackOff, Prepare, RefuseCharge, ChargeFails,
       Dispatch, RegisterCallback, Respond, Lose, CancelTask, Unregister, CompleteFails, Transmit,
       Fire, Provide, Cancel, Expire, Resume, Crash, Done, usageVars, tokenVars, callVars,
       worldVars, vars
  <2> QED BY <2>1, <1>c DEF WithinWallet
<1> QED BY <1>1, <1>2, <1>3

\* What is sent was charged, and what is recorded happened.
LEMMA NextAnswered ==
  TypeInvariant /\ Ledger /\ Answered /\ [Next]_vars => Answered'
<1> SUFFICES ASSUME TypeInvariant, Ledger, Answered, [Next]_vars PROVE Answered'
  OBVIOUS
<1> USE DEF Answered, ChargedBeforeSent, OutcomesTrue, GoTo, End, usageVars, tokenVars, callVars,
            worldVars, vars
<1>1. CASE \E k \in Kinds : StartCall(k)
  BY <1>1 DEF StartCall
<1>2. CASE CheckBudget
  BY <1>2 DEF Key, CheckBudget
<1>3. CASE BackOff
  BY <1>3 DEF Key, BackOff
<1>4. CASE Prepare
  BY <1>4 DEF Key, Prepare
<1>5. CASE RefuseCharge
  BY <1>5 DEF Key, RefuseCharge
<1>6. CASE Charge
  <2>1. Key \in Keys /\ saved = held
    BY <1>6, KeyInKeys DEF Charge, Ledger
  <2>2. saved' = [saved EXCEPT ![Key] = "unknown"] /\ saved[Key] = "none"
    BY <2>1, <1>6 DEF Charge, Ledger, Unbegun, Before
  <2> QED BY <2>1, <2>2, <1>6 DEF Charge, TypeInvariant
<1>7. CASE ChargeFails
  BY <1>7 DEF Key, ChargeFails
<1>8. CASE Dispatch
  BY <1>8 DEF Dispatch, Receive, Answers
<1>9. CASE RegisterCallback
  BY <1>9 DEF Key, RegisterCallback
<1>10. CASE Respond
  BY <1>10 DEF Respond, Unregister, Receive, Key
<1>11. CASE Lose
  BY <1>11 DEF Lose, Unregister, Receive, Answers, Key
<1>12. CASE CancelTask
  BY <1>12 DEF CancelTask, Unregister, Receive, Answers, Key
<1>13. CASE Complete
  <2>1. Key \in Keys /\ saved = held /\ at' # "complete"
    BY <1>13, KeyInKeys DEF Complete, Ledger, AfterAttempt
  <2>2. saved' = [saved EXCEPT ![Key] = OutcomeOf(result)] /\ provider' = provider
    BY <2>1, <1>13 DEF Complete
  <2>3. OutcomeOf(result) # "none"
    BY DEF OutcomeOf
  <2>4. OutcomeOf(result) = "succeeded" => provider[Key] = "valid"
    BY <1>13 DEF OutcomeOf, Complete, Answers
  <2>5. OutcomeOf(result) = "failed" => provider[Key] \in Answers \ {"valid"}
    BY <1>13 DEF OutcomeOf, Complete
  <2> QED BY <2>1, <2>2, <2>3, <2>4, <2>5 DEF TypeInvariant
<1>14. CASE CompleteFails
  BY <1>14 DEF Key, CompleteFails, OutcomeOf
<1>15. CASE Transmit
  <2>1. Key \in Keys /\ saved[Key] = "unknown"
    BY <1>15, KeyInKeys DEF Transmit, Ledger, Attempting
  <2> QED BY <2>1, <1>15 DEF Transmit, TypeInvariant, Answers
<1>16. CASE \E k \in Keys : Fire(k)
  BY <1>16 DEF Key, Fire
<1>17. CASE \E k \in Keys, what \in Answers : Provide(k, what)
  <2> PICK k \in Keys, what \in Answers : Provide(k, what)
    BY <1>17
  <2>1. provider' = [provider EXCEPT ![k] = what] /\ provider[k] = "received" /\ saved' = saved
    BY DEF Provide
  <2>2. saved[k] \notin {"succeeded", "failed", "none"}
    BY <2>1 DEF Answers
  <2>3. Key' = Key /\ at' = at /\ result' = result
    BY DEF Provide, Key
  <2>4. at = "complete" /\ result \in Answers => k # Key
    BY <2>1 DEF Answers
  <2> QED BY <2>1, <2>2, <2>3, <2>4 DEF TypeInvariant
<1>18. CASE Cancel
  BY <1>18 DEF Key, Cancel
<1>19. CASE Expire
  BY <1>19 DEF Key, Expire
<1>20. CASE Resume
  BY <1>20 DEF Key, Resume
<1>21. CASE Crash
  BY <1>21 DEF Key, Crash
<1>22. CASE Done \/ UNCHANGED vars
  BY <1>22 DEF Key, Done
<1> QED
  BY <1>1, <1>2, <1>3, <1>4, <1>5, <1>6, <1>7, <1>8, <1>9, <1>10, <1>11,
     <1>12, <1>13, <1>14, <1>15, <1>16, <1>17, <1>18, <1>19, <1>20, <1>21, <1>22 DEF Next, Client

\* The answer in the caller's hand is the one whose outcome was saved.
LEMMA NextRecorded ==
  TypeInvariant /\ Ledger /\ AnswersRecorded /\ [Next]_vars => AnswersRecorded'
<1> SUFFICES ASSUME TypeInvariant, Ledger, AnswersRecorded, [Next]_vars PROVE AnswersRecorded'
  OBVIOUS
<1>1. CASE Complete
  <2>1. Key \in Keys /\ saved = held
    BY <1>1, KeyInKeys DEF Complete, Ledger
  <2>2. saved' = [saved EXCEPT ![Key] = OutcomeOf(result)]
    BY <2>1, <1>1 DEF Complete
  <2>3. end' = "answered" => result = "valid" /\ answer' = result /\ Key' = Key
    BY <1>1 DEF Complete, AfterAttempt, End, EndOf, Ledger, Key
  <2> QED BY <2>1, <2>2, <2>3 DEF AnswersRecorded, OutcomeOf, TypeInvariant
<1>2. CASE end' = "answered" /\ ~Complete
  <2>1. end = "answered" /\ at = "idle" /\ saved' = saved /\ answer' = answer /\ Key' = Key
    BY <1>2 DEF Next, Client, StartCall, CheckBudget, BackOff, Prepare, RefuseCharge, Charge,
       ChargeFails, Dispatch, RegisterCallback, Respond, Lose, CancelTask, Unregister, Receive,
       CompleteFails, Transmit, Fire, Provide, Cancel, Expire, Resume, Crash, Done, GoTo, End,
       Ledger, Key, usageVars, tokenVars, callVars, worldVars, vars
  <2> QED BY <2>1 DEF AnswersRecorded
<1> QED BY <1>1, <1>2 DEF AnswersRecorded

\* Each step keeps the callbacks of the attempt under way within reach of the token.
LEMMA NextReachable ==
  TypeInvariant /\ Reachable /\ [Next]_vars => Reachable'
<1> SUFFICES ASSUME TypeInvariant, Reachable, [Next]_vars PROVE Reachable'
  OBVIOUS
<1> USE DEF Reachable, Key, GoTo, End, usageVars, tokenVars, callVars, worldVars, vars
<1>1. CASE \E k \in Kinds : StartCall(k)
  BY <1>1 DEF StartCall
<1>2. CASE CheckBudget
  BY <1>2 DEF CheckBudget
<1>3. CASE BackOff
  BY <1>3 DEF BackOff
<1>4. CASE Prepare
  BY <1>4 DEF Prepare
<1>5. CASE RefuseCharge
  BY <1>5 DEF RefuseCharge
<1>6. CASE Charge
  BY <1>6 DEF Charge
<1>7. CASE ChargeFails
  BY <1>7 DEF ChargeFails
<1>8. CASE Dispatch
  BY <1>8 DEF Dispatch, Receive
<1>9. CASE RegisterCallback
  BY <1>9 DEF RegisterCallback
<1>10. CASE Respond
  BY <1>10 DEF Respond, Unregister, Receive
<1>11. CASE Lose
  BY <1>11 DEF Lose, Unregister, Receive
<1>12. CASE CancelTask
  BY <1>12 DEF CancelTask, Unregister, Receive
<1>13. CASE Complete
  BY <1>13 DEF Complete, AfterAttempt, Retries, OutcomeOf, EndOf
<1>14. CASE CompleteFails
  BY <1>14 DEF CompleteFails, OutcomeOf
<1>15. CASE Transmit
  BY <1>15 DEF Transmit
<1>16. CASE \E k \in Keys : Fire(k)
  <2> PICK k \in Keys : Fire(k)
    BY <1>16
  <2>1. cancelled' = cancelled /\ callbacks' = callbacks /\ firing' = firing \ {k}
    BY DEF Fire
  <2>2. at' = "wait" /\ ~posted' => at = "wait" /\ ~posted /\ k # Key /\ Key' = Key
    BY DEF Fire
  <2> QED BY <2>1, <2>2
<1>17. CASE \E k \in Keys, what \in Answers : Provide(k, what)
  BY <1>17 DEF Provide
<1>18. CASE Cancel
  BY <1>18 DEF Cancel
<1>19. CASE Expire
  BY <1>19 DEF Expire
<1>20. CASE Resume
  BY <1>20 DEF Resume
<1>21. CASE Crash
  BY <1>21 DEF Crash
<1>22. CASE Done \/ UNCHANGED vars
  BY <1>22 DEF Done
<1> QED
  BY <1>1, <1>2, <1>3, <1>4, <1>5, <1>6, <1>7, <1>8, <1>9, <1>10, <1>11,
     <1>12, <1>13, <1>14, <1>15, <1>16, <1>17, <1>18, <1>19, <1>20, <1>21, <1>22 DEF Next, Client

\* The invariant holds in every reachable state.
LEMMA Invariance == Spec => []Inv
<1>1. Inv /\ [Next]_vars => Inv'
  BY NextTyped, NextLedger, NextWallet, NextAnswered, NextRecorded, NextReachable DEF Inv
<1> QED BY InitInv, <1>1, PTL DEF Spec

-----------------------------------------------------------------------------
(* The properties *)

\* A request is in the stored Run before the provider can see it: reserve_request saves the
\* charge and raises when it cannot, and no restart forgets it.
THEOREM Charges == Spec => []ChargedBeforeSent
<1>1. Inv => ChargedBeforeSent
  BY DEF Inv, Answered
<1> QED BY Invariance, <1>1, PTL

\* The wallet bounds what is charged over all calls, retries and restarts: the limit of a
\* call counts what earlier calls charged.
THEOREM Wallets == Spec => []WithinWallet
<1>1. Inv => WithinWallet
  BY DEF Inv
<1> QED BY Invariance, <1>1, PTL

\* What finish_request recorded as succeeded or failed the provider has answered so.
THEOREM Outcomes == Spec => []OutcomesTrue
<1>1. Inv => OutcomesTrue
  BY DEF Inv, Answered
<1> QED BY Invariance, <1>1, PTL

\* No answer reaches the caller without its outcome in the store.
THEOREM AnswersAreRecorded == Spec => []AnswersRecorded
<1>1. Inv => AnswersRecorded
  BY DEF Inv
<1> QED BY Invariance, <1>1, PTL

\* A cancellation whose callbacks were called has reached the attempt under way, whether the
\* attempt registered before the token was cancelled, while it was, or after.
THEOREM CancellationReaches == Spec => []CancelReaches
<1>1. Inv => CancelReaches
  BY DEF Inv, Reachable, CancelReaches
<1> QED BY Invariance, <1>1, PTL

\* A charge stays, and an outcome once decided is the last word on its attempt.
THEOREM ChargesStay == Spec => NeverRefunded
<1>1. Inv /\ [Next]_vars =>
        [\A k \in Keys : saved[k] # "none" =>
           saved'[k] # "none" /\ (saved[k] # "unknown" => saved'[k] = saved[k])]_saved
  <2> SUFFICES ASSUME Inv, Next, saved' # saved, NEW k \in Keys, saved[k] # "none"
               PROVE  saved'[k] # "none" /\ (saved[k] # "unknown" => saved'[k] = saved[k])
    BY DEF vars, usageVars
  <2>1. Charge \/ Complete
    BY DEF Next, Client, StartCall, CheckBudget, BackOff, Prepare, RefuseCharge, ChargeFails,
       Dispatch, RegisterCallback, Respond, Lose, CancelTask, Unregister, CompleteFails, Transmit,
       Fire, Provide, Cancel, Expire, Resume, Crash, Done, usageVars, vars
  <2>2. CASE Charge
    <3>1. Key \in Keys /\ saved = held /\ saved[Key] = "none"
      BY <2>2, KeyInKeys DEF Charge, Inv, Ledger, Unbegun, Before
    <3> QED BY <3>1, <2>2 DEF Charge, Inv, TypeInvariant
  <2>3. CASE Complete
    <3>1. Key \in Keys /\ saved = held /\ saved[Key] = "unknown" /\ OutcomeOf(result) # "none"
      BY <2>3, KeyInKeys DEF Complete, Inv, Ledger, Attempting, OutcomeOf
    <3> QED BY <3>1, <2>3 DEF Complete, Inv, TypeInvariant
  <2> QED BY <2>1, <2>2, <2>3
<1> QED BY Invariance, <1>1, PTL DEF Spec, NeverRefunded

\* The account as a whole, for every wallet and every number of calls and retries.
THEOREM AccountIsRight == Spec => Accounted
<1>1. Inv => TypeInvariant
  BY DEF Inv
<1> QED BY Invariance, <1>1, Charges, Wallets, Outcomes, AnswersAreRecorded, ChargesStay, PTL
        DEF Accounted
=============================================================================
