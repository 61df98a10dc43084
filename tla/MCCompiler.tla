------------------------------- MODULE MCCompiler -------------------------------
(* Instances of Compiler: every graph of two tasks with at most one binding and *)
(* every graph of three in the first round, and in the second a few whose keys  *)
(* and ids get in the way of those of the first.                                *)
EXTENDS Compiler

Task(key, dependsOn) == TaskDraft(key, dependsOn, {}, {})

\* The second of two tasks may wait for an output of the first, of itself or of no task.
KeysAll == {"a", "b", "ghost"}
DepsAll == {<<>>} \union {<<k>> : k \in KeysAll} \union {<<"a", "b">>, <<"a", "a">>}
BindingsAll == {{}} \union {{[source |-> s, output |-> o]} : s \in KeysAll, o \in {"o", "p"}}
Pairs ==
  {<<TaskDraft("a", d1, {}, out), TaskDraft(key, d2, bound, {"p"})>> :
     key \in {"a", "b"}, d1 \in DepsAll, d2 \in DepsAll, bound \in BindingsAll, out \in {{}, {"o"}}}
\* Three tasks in any graph of theirs.
Triples ==
  {<<Task("a", d1), Task("b", d2), Task("c", d3)>> :
     d1 \in {<<>>, <<"b">>, <<"c">>}, d2 \in {<<>>, <<"a">>, <<"c">>, <<"c", "a">>},
     d3 \in {<<>>, <<"a">>, <<"b">>, <<"a", "b">>}}
Placed(task, workspace, inputs) == [task EXCEPT !.workspace = workspace, !.inputs = inputs]
Resources ==
  {<<Placed(Task("a", <<>>), w, i)>> : w \in {NoWorkspace, "ws", "other"}, i \in {{}, {"known"}, {"unknown"}}}

\* Keys that are used again, and one that is the id another would get.
Chain == <<Task("b", <<"a">>), Task("a", <<>>)>>
Clash == <<Task("a", <<>>), Task("a_w2_1", <<"a">>)>>
Loop == <<Task("a", <<"b">>), Task("b", <<"a">>)>>

TwoRounds ==
  <<Pairs \union Triples \union Resources \union {<<>>, Chain, Clash},
    {Clash, Loop, <<Clash[2], Task("a", <<>>)>>}>>
TwoWorks == <<"w1", "w2">>
===============================================================================
