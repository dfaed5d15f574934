-------------------------- MODULE ToolOrchestrator --------------------------
(***************************************************************************)
(* ToolOrchestrator.executeBatch over ToolExecutor.execute: which tool of  *)
(* a batch may start, and what becomes of it.  A batch is the set of the   *)
(* positions of its calls in the model's response; `kind` gives the        *)
(* category of each call and `tool` the state of its execution.            *)
(*                                                                         *)
(* Read and search tools share MaxParallelReads workers that take them in  *)
(* order.  All others run one after the other, and the first that does not *)
(* succeed makes the rest 'skipped'.                                       *)
(***************************************************************************)
EXTENDS Naturals, FiniteSets

CONSTANT MaxParallelReads    \* executionPolicy.maxConcurrency

ASSUME ReadsAssumption == MaxParallelReads \in Nat \ {0}

\* "failed": the handler answered or threw; "refused": unknown tool, envelope,
\* schema or permission; "cancelled", "skipped": the orchestrator's own results.
ToolStates == {"none", "queued", "running", "ok", "failed", "refused", "cancelled", "skipped"}

Ended(t) == t \in {"ok", "failed", "refused", "cancelled", "skipped"}

Earlier(batch, kind, i) == {j \in batch : j < i /\ kind[j] = kind[i]}

FaultySkips(batch, kind, tool, i) ==
  kind[i] = "write" /\ \E j \in Earlier(batch, kind, i) : tool[j] = "refused"

\* A serial tool behind one that did not succeed.
Skips(batch, kind, tool, i) ==
  kind[i] = "write" /\ \E j \in Earlier(batch, kind, i) : Ended(tool[j]) /\ tool[j] # "ok"

\* Whether it is the turn of call i: a worker of its group is free and has
\* taken every earlier call of the group.
TurnOf(batch, kind, tool, i) ==
  LET earlier == Earlier(batch, kind, i) IN
  IF kind[i] = "write" THEN \A j \in earlier : Ended(tool[j])
  ELSE /\ \A j \in earlier : tool[j] # "queued"
       /\ Cardinality({j \in earlier : tool[j] = "running"}) < MaxParallelReads

=============================================================================
