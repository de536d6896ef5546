------------------------------- MODULE MCSearch -------------------------------
(* SearchTool on small workspaces with a link "up" in a directory that leads  *)
(* back to the workspace's root                                               *)
EXTENDS SearchTool

MCLines == [f \in Files |-> 1]
MCBelow == [w |-> Files, d |-> {"f2"}]
MCTrees ==
  {[w |-> entries1, d |-> entries2] : entries1 \in {<<"d">>, <<"f1", "d">>, <<"d", "f1", "x">>},
     entries2 \in {<<"w">>, <<"f2", "w">>, <<"w", "f2">>}}
=============================================================================
