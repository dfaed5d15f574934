--------------------------- MODULE MCLlmFailover ---------------------------
(* One request with breakers of its own; two requests that share them.        *)
EXTENDS LlmFailover

MCProviders == <<"p1", "p2">>

MCSettings ==
  {[scope |-> "request", requests |-> {"r1"}, kinds |-> {"complete", "stream"}, maxTime |-> 2],
   [scope |-> "shared", requests |-> {"r1", "r2"}, kinds |-> {"complete"}, maxTime |-> 2],
   [scope |-> "shared", requests |-> {"r1", "r2"}, kinds |-> {"stream"}, maxTime |-> 0]}
=============================================================================
