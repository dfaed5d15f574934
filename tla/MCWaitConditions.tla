-------------------------- MODULE MCWaitConditions --------------------------
(* Casts: schedules of every kind, two listeners of the same events, and one    *)
(* condition of each owner with the scan, the operation's events and restarts.  *)
EXTENDS WaitConditions

MCKind == [i |-> "interval", o |-> "once", c |-> "cron"]
MCInterval == [i |-> 1, o |-> 1, c |-> 1]
MCTimes == [i |-> {1}, o |-> {1}, c |-> {1, 3}]
MCExpiresAt == [i |-> Never, o |-> 3, c |-> Never]
MCMaxFires == [i |-> 2, o |-> 0, c |-> 0, l |-> 1, m |-> 0]
MCOwner == [w |-> "runtime", b |-> "bridge", a |-> "async"]
MCTimeoutAt == [w |-> 1, b |-> 1, a |-> Never]
MCCasts == {{"i", "o"}, {"c", "l"}, {"l", "m"}, {"w", "b", "a"}, {"m", "b"}}
=============================================================================
