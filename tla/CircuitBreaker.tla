--------------------------- MODULE CircuitBreaker ---------------------------
(***************************************************************************)
(* createCircuitBreaker: the state of one breaker as a record and its four *)
(* operations as functions of it and of the time.  The counters of         *)
(* requests and refusals only feed statistics and are left out; reset,     *)
(* forceOpen and forceClose have no caller.                                *)
(***************************************************************************)
EXTENDS Naturals

CONSTANTS
  FailureThreshold,   \* failures in CLOSED that open it
  SuccessThreshold,   \* successes in HALF_OPEN that close it
  ResetTimeout        \* time after the last failure before a request may probe

ASSUME BreakerAssumption ==
  FailureThreshold \in Nat \ {0} /\ SuccessThreshold \in Nat \ {0} /\ ResetTimeout \in Nat

BreakerStates == {"CLOSED", "OPEN", "HALF_OPEN"}

Breakers ==
  [state : BreakerStates, failures : 0..FailureThreshold, successes : 0..SuccessThreshold, lastFailure : Nat]

ClosedBreaker == [state |-> "CLOSED", failures |-> 0, successes |-> 0, lastFailure |-> 0]

\* failureCount survives the transition to OPEN, and only that one.
TransitionTo(b, s) ==
  [b EXCEPT !.state = s, !.successes = 0, !.failures = IF s = "OPEN" THEN @ ELSE 0]

CanExecute(b, now) == b.state = "OPEN" => now - b.lastFailure >= ResetTimeout

\* canExecute is also an operation: asking an OPEN breaker after its reset
\* timeout makes it HALF_OPEN, whether or not a request follows.
AfterCanExecute(b, now) ==
  IF b.state = "OPEN" /\ CanExecute(b, now) THEN TransitionTo(b, "HALF_OPEN") ELSE b

RecordSuccess(b) ==
  IF b.state # "HALF_OPEN" THEN b
  ELSE IF b.successes + 1 >= SuccessThreshold THEN TransitionTo(b, "CLOSED")
  ELSE [b EXCEPT !.successes = @ + 1]

\* A failure that is reported late, in OPEN, still restarts the reset timeout.
RecordFailure(b, now) ==
  LET late    == [b EXCEPT !.lastFailure = now]
      counted == [late EXCEPT !.failures = @ + 1] IN
  IF b.state = "OPEN" THEN late
  ELSE IF b.state = "HALF_OPEN" THEN TransitionTo(late, "OPEN")
  ELSE IF counted.failures >= FailureThreshold THEN TransitionTo(counted, "OPEN")
  ELSE counted

=============================================================================
