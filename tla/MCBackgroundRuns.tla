------------------------- MODULE MCBackgroundRuns -------------------------
(***************************************************************************)
(* Model-checking instances of BackgroundRuns.                             *)
(***************************************************************************)
EXTENDS BackgroundRuns, TLC

CONSTANTS r1, r2, r3

\* r1 outranks the others, which tie.
PriorityOf == [r \in Runs |-> IF r = r1 THEN 1 ELSE 0]

\* The behaviours in which callers only launch runs and the worker works: no
\* cancellation, pause, watchdog, expiry or restart to blame.
LaunchAndWork ==
  \/ \E r \in Runs : EnqueueBackgroundRun(r, TRUE, FALSE)
  \/ WorkerStep

LaunchAndWorkSpec == Init /\ [][LaunchAndWork]_vars /\ Fairness
=============================================================================
