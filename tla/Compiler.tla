------------------------------- MODULE Compiler -------------------------------
(* From the tasks that Scientific asks for to the Workflow: the drafts are     *)
(* validated, a model routes each task to an Agent, the candidate is accepted  *)
(* as the first Workflow or as a patch of it, and its tasks are settled in the *)
(* order of their dependencies.                                                *)
EXTENDS Naturals, Sequences, FiniteSets, SequencesExt, TLC

CONSTANTS
  Drafts,         \* for each round, the WorkRequestDrafts that Scientific may submit
  Works,          \* the names of the work requests, without their prefix
  Registered,     \* WorkflowAgentRegistry.definitions
  Artifacts,      \* the Run's
  Workspaces,     \* and its workspaces
  MaxTasks,       \* ExecutionLimits.max_tasks
  MaxCalls        \* RunBudget.max_llm_calls

Kinds == {"coding", "experiment"}
NoWorkspace == "none"

ASSUME CompilerAssumption ==
  /\ Registered \subseteq Kinds /\ NoWorkspace \notin Workspaces
  /\ Len(Drafts) = Len(Works) /\ IsInjective(Works)
  /\ MaxTasks \in Nat /\ MaxCalls \in Nat

\* A WorkTaskDraft, and a task of the Workflow, which keeps what the draft asks for.
TaskDraft(key, dependsOn, bindings, outputs) ==
  [key |-> key, dependsOn |-> dependsOn, bindings |-> bindings, outputs |-> outputs,
   workspace |-> NoWorkspace, inputs |-> {}]
NoDraft == <<>>

VARIABLES
  phase, round,           \* of the active work request
  draft, refused,         \* the request that is compiled, and one that was not a WorkRequest
  attempt, feedback,      \* of LLMWorkflowCompiler.compile
  used, before,           \* the model calls of the Run, and initial_usage
  reported,               \* llm_calls of the result or of the error
  candidate,              \* pending_compilation
  workflow, revision,     \* its tasks, in order
  failure,                \* why the work request failed
  answers, asked          \* what the router saw of the request: calls, and requests to its provider

requestVars == <<round, draft, refused>>
routeVars == <<attempt, feedback, used, before, reported>>
graphVars == <<candidate, workflow, revision>>
routerVars == <<answers, asked>>
vars == <<phase, requestVars, routeVars, graphVars, failure, routerVars>>

Init ==
  /\ phase = "scientific" /\ round = 1 /\ draft = NoDraft /\ refused = NoDraft
  /\ attempt = 1 /\ feedback = FALSE /\ used = 0 /\ before = 0 /\ reported = 0
  /\ candidate = <<>> /\ workflow = <<>> /\ revision = 0
  /\ failure = "none" /\ answers = 0 /\ asked = 0

-----------------------------------------------------------------------------
(* The validators of a request and of a graph *)

RECURSIVE Visit(_, _, _)

\* Mutant: a node counts as visited before its dependencies are.
VisitEarly(deps, node, state) ==
  IF ~state.ok \/ node \in state.visited THEN state
  ELSE FoldLeft(LAMBDA s, d : Visit(deps, d, s), [state EXCEPT !.visited = @ \union {node}], deps[node])

\* The depth-first search of both validators: ok as long as no cycle was found.
Visit(deps, node, state) ==
  IF ~state.ok \/ node \in state.visiting THEN [state EXCEPT !.ok = FALSE]
  ELSE IF node \in state.visited THEN state
  ELSE LET below == FoldLeft(LAMBDA s, d : Visit(deps, d, s),
                             [state EXCEPT !.visiting = @ \union {node}], deps[node])
       IN  [below EXCEPT !.visiting = @ \ {node}, !.visited = @ \union {node}]

Unvisited == [ok |-> TRUE, visiting |-> {}, visited |-> {}]
CycleFree(deps, order) == FoldLeft(LAMBDA s, n : Visit(deps, n, s), Unvisited, order).ok

\* The two graphs: of the keys of a draft, and of the ids of tasks.
Known(deps) == \A n \in DOMAIN deps : ToSet(deps[n]) \subseteq DOMAIN deps
Bound(bindings, dependsOn, outputs) ==
  \A b \in bindings : b.source \in ToSet(dependsOn) /\ b.output \in outputs[b.source]

Keys(tasks) == [k \in 1 .. Len(tasks) |-> tasks[k].key]
Ids(tasks) == [k \in 1 .. Len(tasks) |-> tasks[k].id]
Named(names, tasks, node) == tasks[CHOOSE k \in 1 .. Len(tasks) : names[k] = node]

\* Mutant: there is no search for a cycle.
ValidGraphUnsearched(names, tasks) ==
  /\ IsInjective(names)
  /\ LET deps == [n \in ToSet(names) |-> Named(names, tasks, n).dependsOn]
         outputs == [n \in ToSet(names) |-> Named(names, tasks, n).outputs]
     IN  /\ Known(deps)
         /\ \A n \in ToSet(names) : Bound(Named(names, tasks, n).bindings, deps[n], outputs)

ValidGraph(names, tasks) ==
  /\ IsInjective(names)
  /\ LET deps == [n \in ToSet(names) |-> Named(names, tasks, n).dependsOn]
         outputs == [n \in ToSet(names) |-> Named(names, tasks, n).outputs]
     IN  /\ Known(deps)
         /\ \A n \in ToSet(names) : Bound(Named(names, tasks, n).bindings, deps[n], outputs)
         /\ CycleFree(deps, names)

ValidDraft(tasks) ==
  /\ tasks # <<>>
  /\ \A k \in 1 .. Len(tasks) : IsInjective(tasks[k].dependsOn)
  /\ ValidGraph(Keys(tasks), tasks)

-----------------------------------------------------------------------------
(* The request, and what its tasks may use *)

Submit(tasks) ==
  /\ phase = "scientific" /\ round <= Len(Works)
  /\ IF ValidDraft(tasks)
       THEN /\ phase' = "requested" /\ draft' = tasks /\ refused' = NoDraft
       ELSE /\ refused' = tasks /\ UNCHANGED <<phase, draft>>
  /\ failure' = "none" /\ answers' = 0 /\ asked' = 0
  /\ UNCHANGED <<round, routeVars, graphVars>>

\* Mutant: the calls of the whole Run are reported as those of the request.
FailWithAll(why) == phase' = "failed" /\ failure' = why /\ reported' = used'

Fail(why) == phase' = "failed" /\ failure' = why /\ reported' = used' - before

\* A workspace is named when there are several, and it is one of the Run's.
PlaceFound(task) == IF task.workspace = NoWorkspace THEN Cardinality(Workspaces) <= 1
                                                    ELSE task.workspace \in Workspaces
Place(task) == IF task.workspace = NoWorkspace /\ Workspaces # {} THEN CHOOSE w \in Workspaces : TRUE
                                                                   ELSE task.workspace
ResourcesFound(tasks) ==
  /\ Len(tasks) + Len(workflow) <= MaxTasks
  /\ \A k \in 1 .. Len(tasks) : PlaceFound(tasks[k])

Begin ==
  /\ phase = "requested"
  /\ before' = used /\ attempt' = 1 /\ feedback' = FALSE
  /\ IF Len(workflow) >= MaxTasks
       THEN phase' = "failed" /\ failure' = "slots" /\ reported' = 0
       ELSE IF ResourcesFound(draft)
              THEN phase' = "routing" /\ UNCHANGED <<failure, reported>>
              ELSE phase' = "failed" /\ failure' = "resources" /\ reported' = 0
  /\ UNCHANGED <<requestVars, used, graphVars, routerVars>>

-----------------------------------------------------------------------------
(* The routing of the tasks *)

\* What a model may answer: a kind or a reason for each task, one of them twice, not all of
\* them, one that was not asked for, or what is no routing.
Route(key, kind) == [key |-> key, kind |-> kind]           \* "reason" stands for a reason
Covers(keys) ==
  {[k \in 1 .. Len(keys) |-> Route(keys[k], kinds[k])] :
     kinds \in [1 .. Len(keys) -> Kinds \union {"reason"}]}
Routings(keys) ==
  LET whole == [k \in 1 .. Len(keys) |-> Route(keys[k], "coding")]
  IN  Covers(keys) \union {Tail(whole), Append(whole, whole[1]), Append(whole, Route("other", "coding"))}

Exact(routes, keys) ==
  /\ IsInjective(Keys(routes)) /\ ToSet(Keys(routes)) = ToSet(keys)

\* The first route that is not of a registered Agent decides.
Verdict(routes, keys) ==
  IF ~Exact(routes, keys) THEN "invalid"
  ELSE LET wrong == SelectSeq(routes, LAMBDA r : r.kind \notin Registered)
       IN  CASE wrong = <<>> -> "routed"
             [] wrong # <<>> /\ Head(wrong).kind = "reason" -> "unrouteable"
             [] OTHER -> "invalid"

KindOf(routes, key) == Named(Keys(routes), routes, key).kind

\* Mutant: an id is compared with those of the Workflow, and not with those just made.
NewIdsOfWorkflow(keys) ==
  LET Name(key, n) == "task_" \o key \o (IF n = 0 THEN "" ELSE "_" \o Works[round] \o "_" \o ToString(n))
      taken == ToSet(Ids(workflow))
      Free(key) == Name(key, CHOOSE n \in 0 .. Len(workflow) :
                               Name(key, n) \notin taken /\ \A m \in 0 .. n - 1 : Name(key, m) \in taken)
  IN  [k \in 1 .. Len(keys) |-> Free(keys[k])]

\* An id from the key, made new by the name of the request and a counter.
NewIds(keys) ==
  LET Name(key, n) == "task_" \o key \o (IF n = 0 THEN "" ELSE "_" \o Works[round] \o "_" \o ToString(n))
      Free(key, taken) ==
        Name(key, CHOOSE n \in 0 .. Cardinality(taken) :
                    Name(key, n) \notin taken /\ \A m \in 0 .. n - 1 : Name(key, m) \in taken)
  IN  FoldLeft(LAMBDA ids, key : Append(ids, Free(key, ToSet(Ids(workflow)) \union ToSet(ids))), <<>>, keys)

\* Mutant: the dependencies are those that bring an input, and not all that were asked for.
MaterializeInputs(routes) ==
  LET keys == Keys(draft)
      ids == NewIds(keys)
      IdOf(key) == ids[CHOOSE k \in 1 .. Len(keys) : keys[k] = key]
      Brings(k) == SelectSeq(draft[k].dependsOn, LAMBDA d : \E b \in draft[k].bindings : b.source = d)
  IN  [k \in 1 .. Len(draft) |->
         [id |-> ids[k], key |-> keys[k], work |-> Works[round], kind |-> KindOf(routes, keys[k]),
          dependsOn |-> [d \in 1 .. Len(Brings(k)) |-> IdOf(Brings(k)[d])],
          bindings |-> {[b EXCEPT !.source = IdOf(b.source)] : b \in draft[k].bindings},
          outputs |-> draft[k].outputs, inputs |-> draft[k].inputs,
          workspace |-> Place(draft[k]), status |-> "pending"]]

\* _materialize_routes: the tasks of the candidate.
Materialize(routes) ==
  LET keys == Keys(draft)
      ids == NewIds(keys)
      IdOf(key) == ids[CHOOSE k \in 1 .. Len(keys) : keys[k] = key]
  IN  [k \in 1 .. Len(draft) |->
         [id |-> ids[k], key |-> keys[k], work |-> Works[round], kind |-> KindOf(routes, keys[k]),
          dependsOn |-> [d \in 1 .. Len(draft[k].dependsOn) |-> IdOf(draft[k].dependsOn[d])],
          bindings |-> {[b EXCEPT !.source = IdOf(b.source)] : b \in draft[k].bindings},
          outputs |-> draft[k].outputs, inputs |-> draft[k].inputs,
          workspace |-> Place(draft[k]), status |-> "pending"]]

\* Mutant: a routing that is not valid is always answered with feedback.
RetryAlways ==
  /\ attempt' = attempt + 1 /\ feedback' = TRUE
  /\ UNCHANGED <<phase, failure, reported, candidate>>

\* One correction of a routing that is not valid.
Retry ==
  IF attempt = 2
    THEN Fail("routing") /\ UNCHANGED <<attempt, feedback, candidate>>
    ELSE /\ attempt' = attempt + 1 /\ feedback' = TRUE
         /\ UNCHANGED <<phase, failure, reported, candidate>>

\* A call of the router takes one request to the provider or more, each of them charged.
Call(requests) ==
  /\ phase = "routing" /\ used + requests <= MaxCalls
  /\ used' = used + requests
  /\ answers' = answers + 1 /\ asked' = asked + requests

Answer(routes, requests) ==
  /\ Call(requests)
  /\ LET verdict == Verdict(routes, Keys(draft))
     IN  CASE verdict = "invalid" -> Retry /\ UNCHANGED <<requestVars, before, workflow, revision>>
           [] verdict = "unrouteable" ->
                /\ Fail("unrouteable")
                /\ UNCHANGED <<requestVars, attempt, feedback, before, graphVars>>
           [] OTHER ->
                /\ LET tasks == Materialize(routes)
                   IN  IF ValidGraph(Ids(tasks), tasks)
                         THEN /\ candidate' = tasks /\ phase' = "compiled" /\ reported' = used' - before
                              /\ UNCHANGED <<attempt, feedback, failure>>
                         ELSE Retry
                /\ UNCHANGED <<requestVars, before, workflow, revision>>

\* A call that fails, or whose output is no routing.
NoRouting(requests) ==
  /\ Call(requests)
  /\ Retry
  /\ UNCHANGED <<requestVars, before, workflow, revision>>

\* The router is stopped before a request, or with one that was charged.
Stopped(why) ==
  /\ phase = "routing"
  /\ \E sent \in {0, 1} :
       used + sent <= MaxCalls /\ used' = used + sent /\ asked' = asked + sent
  /\ failure' = why /\ reported' = used' - before
  /\ UNCHANGED <<requestVars, attempt, feedback, before, graphVars, answers>>

\* The calls are used up, or the deadline passed: the Run fails.
NoBudget ==
  /\ phase' = "over"
  /\ \/ used = MaxCalls /\ Stopped("budget")
     \/ Stopped("deadline")

\* The user interrupts: the work is cancelled, and a Run that is resumed may ask again.
Interrupted == phase' = "failed" /\ Stopped("interrupted")

-----------------------------------------------------------------------------
(* Acceptance by the Scheduler *)

\* accept_proposal, or apply_patch, which validates the whole graph.
Acceptable ==
  /\ Len(workflow) + Len(candidate) <= MaxTasks
  /\ \A k \in 1 .. Len(candidate) : candidate[k].kind \in Registered /\ candidate[k].inputs \subseteq Artifacts
  /\ ValidGraph(Ids(workflow \o candidate), workflow \o candidate)

\* Mutant: the tasks of the patch take the place of the Workflow.
AcceptReplaces ==
  /\ phase = "compiled"
  /\ IF Acceptable
       THEN /\ workflow' = candidate /\ revision' = revision + 1
            /\ phase' = "executing" /\ UNCHANGED failure
       ELSE /\ phase' = "failed" /\ failure' = "contract" /\ UNCHANGED <<workflow, revision>>
  /\ candidate' = <<>>
  /\ UNCHANGED <<requestVars, routeVars, routerVars>>

Accept ==
  /\ phase = "compiled"
  /\ IF Acceptable
       THEN /\ workflow' = workflow \o candidate /\ revision' = revision + 1
            /\ phase' = "executing" /\ UNCHANGED failure
       ELSE /\ phase' = "failed" /\ failure' = "contract" /\ UNCHANGED <<workflow, revision>>
  /\ candidate' = <<>>
  /\ UNCHANGED <<requestVars, routeVars, routerVars>>

-----------------------------------------------------------------------------
(* The tasks are settled *)

Settled == {"completed", "failed", "blocked"}
StatusIn(tasks, id) == Named(Ids(tasks), tasks, id).status
Ready(k) ==
  /\ workflow[k].status = "pending"
  /\ \A d \in ToSet(workflow[k].dependsOn) : StatusIn(workflow, d) = "completed"

\* Mutant: only a failure of what a task itself depends on blocks it.
BlockDirect(tasks, k) ==
  IF tasks[k].status = "pending" /\ \E d \in ToSet(tasks[k].dependsOn) : StatusIn(tasks, d) = "failed"
    THEN [tasks EXCEPT ![k].status = "blocked"] ELSE tasks

\* A task is blocked when one that it depends on failed or is blocked.
Block(tasks, k) ==
  IF tasks[k].status = "pending" /\ \E d \in ToSet(tasks[k].dependsOn) : StatusIn(tasks, d) \in {"failed", "blocked"}
    THEN [tasks EXCEPT ![k].status = "blocked"] ELSE tasks

\* Mutant: the tasks are gone through in the order they were asked for.
EvaluateInOrder(tasks) == FoldLeft(Block, tasks, [k \in 1 .. Len(tasks) |-> k])

\* The order of graphlib: those that depend on none first.
Topological(tasks) ==
  LET Before(done) == {k \in 1 .. Len(tasks) : ToSet(tasks[k].dependsOn) \subseteq {tasks[j].id : j \in ToSet(done)}}
      Step(done, n) == done \o SetToSeq(Before(done) \ ToSet(done))
  IN  FoldLeft(Step, <<>>, [n \in 1 .. Len(tasks) |-> n])
Evaluate(tasks) == FoldLeft(Block, tasks, Topological(tasks))

Settle(k, status) ==
  /\ phase = "executing" /\ k <= Len(workflow) /\ Ready(k)
  /\ workflow' = Evaluate([workflow EXCEPT ![k].status = status])
  /\ UNCHANGED <<phase, requestVars, routeVars, candidate, revision, failure, routerVars>>

Active == {k \in 1 .. Len(workflow) : workflow[k].work = Works[round]}
Stable == \A k \in Active : workflow[k].status \in Settled

\* The outcome, or the failure, is handed to Scientific, which may ask again.
NextRound ==
  /\ phase = "failed" \/ (phase = "executing" /\ Stable)
  /\ phase' = "scientific" /\ round' = round + 1
  /\ draft' = NoDraft /\ refused' = NoDraft /\ failure' = "none"
  /\ UNCHANGED <<routeVars, graphVars, routerVars>>

Done == (phase = "over" \/ round > Len(Works)) /\ UNCHANGED vars

Next ==
  \/ round <= Len(Works) /\ \E tasks \in Drafts[round] : Submit(tasks)
  \/ Begin
  \/ phase = "routing" /\ \E routes \in Routings(Keys(draft)), requests \in 1 .. 2 : Answer(routes, requests)
  \/ \E requests \in 1 .. 2 : NoRouting(requests)
  \/ NoBudget \/ Interrupted \/ Accept
  \/ \E k \in 1 .. MaxTasks, status \in {"completed", "failed"} : Settle(k, status)
  \/ NextRound \/ Done

Spec == Init /\ [][Next]_vars

-----------------------------------------------------------------------------
(* What is expected of it *)

\* The variables have their types.
TypeInvariant ==
  /\ phase \in {"scientific", "requested", "routing", "compiled", "executing", "failed", "over"}
  /\ round \in 1 .. Len(Works) + 1 /\ attempt \in 1 .. 2 /\ feedback \in BOOLEAN
  /\ used \in 0 .. MaxCalls /\ before \in 0 .. used /\ reported \in 0 .. used
  /\ Len(workflow) <= MaxTasks /\ revision \in 0 .. Len(Works)
  /\ \A k \in 1 .. Len(workflow) :
       /\ workflow[k].kind \in Kinds /\ workflow[k].work \in ToSet(Works)
       /\ workflow[k].workspace \in Workspaces \union {NoWorkspace}
       /\ workflow[k].status \in Settled \union {"pending"}
  /\ failure \in {"none", "slots", "resources", "routing", "unrouteable", "contract", "budget",
                  "deadline", "interrupted"}

\* A graph that can be executed, defined without a search: names are distinct, dependencies
\* are there, every set of tasks has one that depends on none of them, and an output that a
\* task waits for is declared by a task that it depends on.
Sound(names, tasks) ==
  LET nodes == ToSet(names)
      On(n) == ToSet(Named(names, tasks, n).dependsOn)
  IN  /\ Cardinality(nodes) = Len(tasks)
      /\ \A n \in nodes : On(n) \subseteq nodes
      /\ \A S \in SUBSET nodes \ {{}} : \E n \in S : On(n) \intersect S = {}
      /\ \A n \in nodes : \A b \in Named(names, tasks, n).bindings :
           b.source \in On(n) /\ b.output \in Named(names, tasks, b.source).outputs

\* The validator of a request accepts exactly the drafts that are sound (models.py:1209).
DraftsDecided ==
  /\ draft # NoDraft => Sound(Keys(draft), draft)
  /\ refused # NoDraft => \/ ~Sound(Keys(refused), refused)
                          \/ \E k \in 1 .. Len(refused) : ~IsInjective(refused[k].dependsOn)

\* The Workflow of all rounds can be executed, and no task depends on one of another request,
\* whatever keys the drafts use again (compiler.py:159-169).
WorkflowSound ==
  /\ Sound(Ids(workflow), workflow)
  /\ \A j, k \in 1 .. Len(workflow) :
       workflow[j].id \in ToSet(workflow[k].dependsOn) => workflow[j].work = workflow[k].work

\* What is executed is what Scientific asked for: the tasks in their order, each with the
\* dependencies, bindings and outputs of its draft and nothing else, and a registered Agent.
RequestKept ==
  phase = "executing" =>
    LET tasks == SelectSeq(workflow, LAMBDA t : t.work = Works[round])
        KeyOf(id) == Named(Ids(tasks), tasks, id).key
    IN  /\ Keys(tasks) = Keys(draft)
        /\ \A k \in 1 .. Len(tasks) :
             /\ [d \in 1 .. Len(tasks[k].dependsOn) |-> KeyOf(tasks[k].dependsOn[d])] = draft[k].dependsOn
             /\ {[b EXCEPT !.source = KeyOf(b.source)] : b \in tasks[k].bindings} = draft[k].bindings
             /\ tasks[k].outputs = draft[k].outputs /\ tasks[k].kind \in Registered

\* A sound draft whose tasks were all routed is accepted: the validators of the candidate and
\* of the Workflow refuse nothing that those of the request allowed, unknown inputs excepted.
RoutedIsAccepted ==
  /\ failure = "contract" => \E k \in 1 .. Len(draft) : ~(draft[k].inputs \subseteq Artifacts)
  /\ phase = "routing" =>
       \A routes \in Covers(Keys(draft)) :
         Verdict(routes, Keys(draft)) = "routed" => ValidGraph(Ids(Materialize(routes)), Materialize(routes))

\* "One routing call, with at most one correction of invalid output structure"
\* (compiler.py:198), and the calls that are reported are those the provider saw.
CallsReported ==
  /\ answers <= 2
  /\ phase \in {"compiled", "failed", "over"} /\ failure \notin {"slots", "resources"} => reported = asked

\* While a work request is executed one of its tasks can always be started, or it is stable.
NeverStuck == phase = "executing" /\ ~Stable => \E k \in Active : Ready(k)

\* A task is blocked exactly when a task it depends on, however far, has failed.
BlockedRightly ==
  \A k \in 1 .. Len(workflow) :
    LET ids == ToSet(Ids(workflow))
        On(id) == ToSet(Named(Ids(workflow), workflow, id).dependsOn)
        Above == FoldLeft(LAMBDA S, n : S \union UNION {On(id) : id \in S}, On(workflow[k].id),
                          [n \in 1 .. Len(workflow) |-> n])
    IN  workflow[k].status = "blocked" <=> \E id \in Above : StatusIn(workflow, id) = "failed"

\* A patch only appends: no task of an earlier request changes, and no status is taken back.
HistoryKept ==
  [][\A k \in 1 .. Len(workflow) :
       /\ k <= Len(workflow')
       /\ [workflow'[k] EXCEPT !.status = "pending"] = [workflow[k] EXCEPT !.status = "pending"]
       /\ workflow[k].status \in Settled => workflow'[k].status = workflow[k].status]_vars

\* A request is accepted exactly when it is sound, becomes the Workflow it describes, and
\* leaves a Workflow that can be executed, over all rounds and whatever was refused before.
CompiledAsAsked ==
  /\ [](TypeInvariant /\ DraftsDecided /\ RoutedIsAccepted /\ WorkflowSound /\ RequestKept
        /\ CallsReported)
  /\ HistoryKept

\* One pass over the graph spreads a failure to all that depends on it and to nothing else,
\* so that work in progress can always go on or is over.
FailuresSpread == NeverStuck /\ BlockedRightly
===============================================================================
