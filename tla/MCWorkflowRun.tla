--------------------------- MODULE MCWorkflowRun ----------------------------
(* Drafts of each shape a workflow can have, over every failure policy. *)
EXTENDS WorkflowRun

Plain ==
  [top |-> {"a"}, first |-> "a", kind |-> [s \in Steps |-> "action"],
   next |-> [s \in Steps |-> None], onTrue |-> [s \in Steps |-> None],
   onFalse |-> [s \in Steps |-> None], policy |-> [s \in Steps |-> "fail"],
   hook |-> [s \in Steps |-> FALSE], maxAttempts |-> [s \in Steps |-> 0],
   retriesTimeouts |-> [s \in Steps |-> TRUE], branches |-> [s \in Steps |-> <<>>],
   kids |-> [s \in Steps |-> {}]]

\* a, then the polling step b, then c.
Linear ==
  {[Plain EXCEPT !.top = {"a", "b", "c"}, !.kind["b"] = "polling",
                 !.next["a"] = "b", !.next["b"] = "c",
                 !.policy["a"] = p, !.policy["b"] = q, !.hook["a"] = h, !.hook["b"] = TRUE,
                 !.maxAttempts["b"] = n, !.retriesTimeouts["b"] = r] :
     p \in Policies, q \in Policies, h \in BOOLEAN, n \in 0..3, r \in BOOLEAN}

\* The condition a goes to b or c, which ends the run, or to a step there is not.
Conditional ==
  {[Plain EXCEPT !.top = {"a", "b", "c"}, !.kind["a"] = "condition",
                 !.onTrue["a"] = x, !.onFalse["a"] = y, !.policy["a"] = p, !.policy["b"] = "skip"] :
     x \in {"b", None}, y \in {"c", "d", None}, p \in {"fail", "continue"}}

\* The branch a: b then c, or d, or nothing; e follows.
Branching ==
  {[Plain EXCEPT !.top = {"a", "e"}, !.kind["a"] = "branch", !.next["a"] = "e",
                 !.branches["a"] = <<<<"b", "c">>, <<"d">>, <<>>>>,
                 !.policy["b"] = p, !.policy["c"] = q] : p \in Policies, q \in Policies}

\* a, then the polling step b, then the condition c, which may lead back to a.
Looping ==
  {[Plain EXCEPT !.top = {"a", "b", "c"}, !.kind["b"] = "polling", !.kind["c"] = "condition",
                 !.next["a"] = "b", !.next["b"] = "c", !.onTrue["c"] = "a",
                 !.policy["b"] = p, !.maxAttempts["b"] = 2] : p \in Policies}

\* A parallel group, and a cycle along nextStepId, which is not published.
Others ==
  {[Plain EXCEPT !.kind["a"] = "parallel", !.kids["a"] = {"b", "c"}],
   [Plain EXCEPT !.top = {"a", "b"}, !.next["a"] = "b", !.next["b"] = "a"]}

SomeDrafts == Linear \cup Conditional \cup Branching \cup Looping \cup Others
=============================================================================
