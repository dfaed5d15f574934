---------------------------- MODULE MCApprovals ----------------------------
(* Two sessions of one user: a file whose name, read as a regular expression,  *)
(* matches another file and one whose name is none, a file in the work         *)
(* directory, a connector tool, a held action, and a request for any tool.     *)
EXTENDS Approvals

Write(session, resource) ==
  [session |-> session, mode |-> "ask_on_write", op |-> "write", tool |-> "edit", resource |-> resource,
   policy |-> "none", risky |-> FALSE, inWorkdir |-> FALSE]

MCAsk == [a1 |-> Write("s1", "a"), q1 |-> Write("s1", "q"), b2 |-> Write("s2", "b"),
          w2 |-> [Write("s2", "w") EXCEPT !.inWorkdir = TRUE],
          c2 |-> [Write("s2", "c") EXCEPT !.tool = "connector", !.op = "admin"],
          any |-> [Write("s1", NoResource) EXCEPT !.tool = AnyTool]]
MCMatching == {<<r, r>> : r \in {"a", "b", "w", "c"}} \cup {<<"a", "b">>} \cup ({NoResource} \X {"a", "b", "q", "w", "c"})
MCPlan == [m1 |-> <<"q1">>, m2 |-> <<"c2", "b2", "w2", "b2">>]
MCHeldCall == [h |-> "a1"]
MCMaxFires == [t |-> 1]
MCCasts == {{"m1", "m2"}, {"m1", "h", "any"}, {"m2", "any"}, {"m2", "h", "t"}}
=============================================================================
