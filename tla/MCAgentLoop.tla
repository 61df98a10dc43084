----------------------------- MODULE MCAgentLoop -----------------------------
(* The Agents a Session may be of, each explored far where the others are not: *)
(* the parent with batches of tools and a death, with notices and interrupts,  *)
(* with its controls, and the Agent of a task whose tools wait for the user or  *)
(* for the automatic review.                                                   *)
EXTENDS AgentLoopProperties, TLC

Tools == {"tool", "finish"}
ParentControls == {"finish", "ask", "work", "reply"}
Guarded == {"guarded", "tool", "finish"}

Agent(scientific, reviewed, kinds) ==
  [scientific |-> scientific, reviewed |-> reviewed, kinds |-> kinds]
Bounded(agent, turnsOf, batch, callsOf, deaths, interventionsOf) ==
  agent @@ [turns |-> turnsOf, batch |-> batch, calls |-> callsOf, crashes |-> deaths,
            interventions |-> interventionsOf]

AllProfiles ==
  {Bounded(Agent(TRUE, FALSE, Tools), 2, 2, 2, 1, 0),
   Bounded(Agent(TRUE, FALSE, Tools), 2, 1, 2, 1, 1),
   Bounded(Agent(TRUE, FALSE, Tools), 1, 2, 2, 1, 1),
   Bounded(Agent(TRUE, FALSE, ParentControls), 2, 1, 2, 1, 1),
   Bounded(Agent(FALSE, FALSE, Guarded), 2, 2, 2, 0, 1),
   Bounded(Agent(FALSE, TRUE, Guarded), 2, 2, 3, 0, 1)}
=============================================================================
