------------------------------ MODULE CallLedger ------------------------------
(***************************************************************************)
(* What a Session promises of the tool calls its model asks for, whatever  *)
(* the crashes, interrupts and failures: a call is started at most once    *)
(* and only after it was asked for; it gets one receipt, which is final;   *)
(* and the receipt never denies a start, nor claims a success, that did    *)
(* not happen.                                                             *)
(***************************************************************************)
EXTENDS Naturals

CONSTANT Call

VARIABLES
  asked,    \* calls the Session knows
  started,  \* calls whose tool was started
  told      \* what the receipt of a call says: open, untouched, done, doubtful

ledger == <<asked, started, told>>

Tellings == {"open", "untouched", "done", "doubtful"}

Init == asked = {} /\ started = {} /\ told = [c \in Call |-> "open"]

Ask ==
  /\ \E new \in SUBSET (Call \ asked) : new # {} /\ asked' = asked \union new
  /\ UNCHANGED <<started, told>>

Start(c) ==
  /\ c \in asked \ started /\ told[c] = "open"
  /\ started' = started \union {c}
  /\ UNCHANGED <<asked, told>>

\* One save may tell several calls of a turn.
Tell ==
  /\ told' \in [Call -> Tellings] /\ told' # told
  /\ \A c \in Call : told'[c] # told[c] =>
       /\ told[c] = "open" /\ c \in asked
       /\ told'[c] = "untouched" => c \notin started
       /\ told'[c] = "done" => c \in started
  /\ UNCHANGED <<asked, started>>

Next == Ask \/ Tell \/ \E c \in Call : Start(c)

Spec == Init /\ [][Next]_ledger
=============================================================================
