---------------------------- MODULE MCChildTasks ----------------------------
(* A turn with one attempt more than it may launch; a turn's attempt beside a    *)
(* plain background child; two children of one planner run.                      *)
EXTENDS ChildTasks

MCForeground == {"f1", "f2", "f3"}
MCBackground == {"b1", "p1", "p2"}
MCPlanners == {"p1", "p2"}
MCTurnOf == [a \in MCForeground |-> "t1"]
MCCasts == {MCForeground, {"f1", "b1"}, MCPlanners}
=============================================================================
