---------------------------- MODULE MCController ----------------------------
(* Small instances of Controller for TLC. *)
EXTENDS ControllerProperties

\* A task depends on the next one, if both are in one work request: the order of
\* the workflow is not the order of its dependencies.
MCChain == [t \in 1..MaxTasks |-> {d \in 1..MaxTasks : d = t + 1}]

\* No task depends on another, so one may start whatever the other did.
MCIndependent == [t \in 1..MaxTasks |-> {}]
=============================================================================
