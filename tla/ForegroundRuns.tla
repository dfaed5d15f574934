--------------------------- MODULE ForegroundRuns ---------------------------
(***************************************************************************)
(* The kernel runs of one session's turns: what processor-orchestration.ts *)
(* does around ForegroundAgent.runTurn, the rows of kernel_runs, the abort *)
(* registry, the route that cancels a session's active run through the     *)
(* CancellationCoordinator, and the sweep of stale rows at startup.        *)
(*                                                                         *)
(* Turns of a session overlap when a processor outlives its timeout, or    *)
(* when one of them comes from a messaging webhook (see SessionTurns), so  *)
(* any two may be under way here.  Rows survive a restart.                 *)
(***************************************************************************)
EXTENDS AgentKernel

CONSTANT MaxRestarts    \* bound: restarts in a behaviour

ASSUME ForegroundAssumption == MaxRestarts \in Nat

VARIABLES
  turn,       \* where the processor of each run is
  row,        \* kernel_runs.status
  created,    \* the order of kernel_runs.created_at; 0: no row
  restarts    \* how often the process restarted

turnVars == <<turn, row, created, restarts>>
vars == <<kernelVars, turnVars>>

\* "begun": before the kernel is called; "lost": a restart ended the process under it.
Places == {"none", "begun", "kernel", "over", "threw", "lost"}
Terminal == {"completed", "failed", "cancelled"}

Init ==
  /\ KernelInit
  /\ turn = [r \in Runs |-> "none"] /\ row = [r \in Runs |-> "none"]
  /\ created = [r \in Runs |-> 0] /\ restarts = 0

-----------------------------------------------------------------------------
\* The run's controller is in the registry, under the id of its row.
Registered(r) == turn[r] \in {"begun", "kernel"}

\* The processor registers the controller and creates the row, then runTurn
\* collects the context and waits for the skill documents.
TurnBegins(r) ==
  /\ r \in cast.runs /\ turn[r] = "none"
  /\ turn' = [turn EXCEPT ![r] = "begun"]
  /\ row' = [row EXCEPT ![r] = "initializing"]
  /\ created' = [created EXCEPT ![r] = Cardinality({q \in Runs : created[q] > 0}) + 1]
  /\ UNCHANGED <<kernelVars, restarts>>

\* runTurn throws before it calls the kernel.  The finally block takes the controller
\* out of the registry; the row is not written.
TurnThrows(r) ==
  /\ turn[r] = "begun"
  /\ turn' = [turn EXCEPT ![r] = "threw"]
  /\ UNCHANGED <<kernelVars, row, created, restarts>>

\* AgentKernel.run is called.
EnterKernel(r) ==
  /\ turn[r] = "begun" /\ Start(r)
  /\ turn' = [turn EXCEPT ![r] = "kernel"]
  /\ UNCHANGED <<row, created, restarts>>

RowOfResult(r) == IF run[r].status = "completed" THEN "completed" ELSE "failed"

FaultyTurnReturns(r) ==
  /\ turn[r] = "kernel" /\ run[r].phase = "done"
  /\ turn' = [turn EXCEPT ![r] = "over"]
  /\ row' = [row EXCEPT ![r] = RowOfResult(r)]
  /\ UNCHANGED <<kernelVars, created, restarts>>

\* runTurn returned: the controller leaves the registry, and the row gets the turn's
\* result unless it is terminal already.
TurnReturns(r) ==
  /\ turn[r] = "kernel" /\ run[r].phase = "done"
  /\ turn' = [turn EXCEPT ![r] = "over"]
  /\ row' = [row EXCEPT ![r] = IF @ \in Terminal THEN @ ELSE RowOfResult(r)]
  /\ UNCHANGED <<kernelVars, created, restarts>>

Active == {r \in Runs : row[r] \notin Terminal \cup {"none"}}

\* The route takes the newest active row; cancelKernelRun writes it and aborts the
\* registered controller, if there is one.  (Rows of this store carry no
\* pendingToolCalls, so nothing is awaited in between.)
CancelActiveRun ==
  \E r \in Active :
    /\ \A q \in Active : created[q] <= created[r]
    /\ row' = [row EXCEPT ![r] = "cancelled"]
    /\ IF Registered(r) /\ run[r].phase # "done" THEN AbortRun(r) ELSE UNCHANGED kernelVars
    /\ UNCHANGED <<turn, created, restarts>>

\* The rows after recover(): of the non-terminal ones those older than the threshold.
Swept(old) == [r \in Runs |-> IF r \in old THEN "failed" ELSE row[r]]

\* The process ends and starts again: createApiContext sweeps the rows.
Restart ==
  /\ restarts < MaxRestarts /\ restarts' = restarts + 1
  /\ \E old \in SUBSET Active : row' = Swept(old)
  /\ turn' = [r \in Runs |-> IF Registered(r) THEN "lost" ELSE turn[r]]
  /\ run' = [r \in Runs |-> IF Registered(r) THEN [Fresh EXCEPT !.phase = "done"] ELSE run[r]]
  /\ strays' = {}
  /\ UNCHANGED <<cast, aborted, created>>

-----------------------------------------------------------------------------
InKernel(r) == turn[r] = "kernel" /\ UNCHANGED turnVars

Next ==
  \/ \E r \in Runs :
       \/ TurnBegins(r) \/ TurnThrows(r) \/ EnterKernel(r) \/ TurnReturns(r)
       \/ InKernel(r) /\ KernelStep(r)
  \/ \E e \in strays : StrayEnds(e) /\ UNCHANGED turnVars
  \/ CancelActiveRun \/ Restart

\* Requests end by their timer, dispatches by the dispatcher's; building an input,
\* internal handlers, compaction and the skill documents are calls within the
\* process that return or throw, and what follows a returned call runs.  Nothing is
\* assumed of tools, of the model's answers or of a stray handler.
Fairness ==
  \A r \in Runs :
    /\ WF_vars(InKernel(r) /\ LoopStep(r))
    /\ WF_vars(TurnThrows(r) \/ EnterKernel(r))
    /\ WF_vars(TurnReturns(r))

Spec == Init /\ [][Next]_vars /\ Fairness

-----------------------------------------------------------------------------
(* Properties *)

\* kernel_runs tells what became of a turn, whichever of the turn, the cancel route
\* and the sweep wrote the row, and in whatever order: a run that was cancelled is
\* never shown as completed or failed; a live run whose row says 'cancelled' has its
\* signal aborted; the sweep closes no live run; and only a turn that threw or was
\* lost can leave a row open (processor-orchestration.ts, "Idempotent terminal write").
RowTellsTheTurn ==
  \A r \in Runs :
    /\ turn[r] \in Places
    /\ row[r] = "none" <=> turn[r] = "none"
    /\ row[r] = "completed" => turn[r] = "over" /\ run[r].status = "completed" /\ r \notin aborted
    /\ row[r] = "failed" => /\ r \notin aborted /\ ~Registered(r)
                            /\ turn[r] = "over" => run[r].status # "completed"
    /\ row[r] = "cancelled" /\ Registered(r) => r \in aborted \/ run[r].phase = "done"
    /\ row[r] = "initializing" => turn[r] \in {"begun", "kernel", "threw", "lost"} /\ r \notin aborted

\* Every turn that entered the kernel comes back with its row closed, however often
\* the model, its tools and its handlers fail, unless the process ends.
RunsReturn ==
  \A r \in Runs : turn[r] = "kernel" ~> turn[r] = "lost" \/ (turn[r] = "over" /\ row[r] \in Terminal)
=============================================================================
