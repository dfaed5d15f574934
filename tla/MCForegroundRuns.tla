-------------------------- MODULE MCForegroundRuns --------------------------
(* One iteration with a response of up to three calls; two with up to two; two *)
(* turns that overlap.                                                         *)
EXTENDS ForegroundRuns

Sequences(S, n) == UNION {[1..m -> S] : m \in 1..n}

MCCasts ==
  {[runs |-> {"k1"}, maxIterations |-> 1, responses |-> Sequences({"internal", "read", "write"}, 3)],
   [runs |-> {"k1"}, maxIterations |-> 2, responses |-> Sequences({"invalid", "unprojected", "internal", "write"}, 2)],
   [runs |-> {"k1", "k2"}, maxIterations |-> 1, responses |-> {<<"write">>}]}
=============================================================================
