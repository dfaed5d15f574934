----------------------------- MODULE LlmFailover -----------------------------
(***************************************************************************)
(* createLLMAdapter: complete() and stream() over providers in priority    *)
(* order, with retries on one provider, failover to the next and, for a    *)
(* stream, complete() as the last resort; below it the providers of        *)
(* llm/providers.ts, each behind a circuit breaker.  A step is one block   *)
(* between two awaits: an answer of a provider, a chunk, a timer.          *)
(*                                                                         *)
(* provider-runtime.ts builds the providers, breakers included, anew for   *)
(* every request (scope "request"); an adapter filled once by addProvider  *)
(* shares them between its requests (scope "shared").                      *)
(***************************************************************************)
EXTENDS CircuitBreaker, Sequences, FiniteSets

CONSTANTS
  Requests,     \* concurrent calls of the adapter
  Providers,    \* provider ids in priority order
  Streamers,    \* the providers that have a stream method
  MaxRetries,   \* config.retries of every provider
  Settings      \* bound: the scope, requests, kinds of call and clock of a behaviour

ASSUME FailoverAssumption ==
  /\ Providers \in Seq(STRING) /\ \A i, j \in 1..Len(Providers) : Providers[i] = Providers[j] => i = j
  /\ Streamers \subseteq {Providers[i] : i \in 1..Len(Providers)}
  /\ MaxRetries \in Nat /\ "shared" \notin Requests
  /\ \A c \in Settings : /\ c.scope \in {"request", "shared"} /\ c.requests \subseteq Requests
                         /\ c.kinds \subseteq {"complete", "stream"} /\ c.maxTime \in Nat

VARIABLES
  setting,  \* of this behaviour, the owner of the breakers included.  Fixed.
  breaker,  \* by owner and provider
  request,  \* the local state of each call
  now

adapterVars == <<setting, breaker, request, now>>

ProviderSet == {Providers[i] : i \in 1..Len(Providers)}
Owners == Requests \cup {"shared"}
Owner(r) == IF setting.scope = "shared" THEN "shared" ELSE r

\* `yieldedAny` is the flag of the retry loop and `yielded` that of the attempt;
\* `sent` counts the HTTP requests, `tried` holds the providers that were called
\* and `delivered` the passes that gave the caller content, with their loop.
NoCall == [pc |-> "idle", asked |-> "complete", mode |-> "complete", able |-> {}, i |-> 1, retry |-> 0,
           yieldedAny |-> FALSE, yielded |-> FALSE, result |-> "none",
           sent |-> [p \in ProviderSet |-> 0], tried |-> {}, delivered |-> <<>>]

Loops == {"complete", "stream"}
Passes == Loops \X ProviderSet
CallStates ==
  [pc : {"idle", "call", "open", "sleep", "done"}, asked : Loops, mode : Loops,
   able : SUBSET ProviderSet, i : 1..(Len(Providers) + 1), retry : 0..MaxRetries,
   yieldedAny : BOOLEAN, yielded : BOOLEAN, result : {"none", "ok", "failed"},
   sent : [ProviderSet -> Nat], tried : SUBSET Passes, delivered : Seq(Passes)]

AdapterTypeOK ==
  /\ setting \in Settings /\ now \in 0..setting.maxTime
  /\ breaker \in [Owners -> [ProviderSet -> Breakers]]
  /\ \A o \in Owners, p \in ProviderSet : breaker[o][p].lastFailure <= now
  /\ request \in [Requests -> CallStates]
  /\ \A r \in Requests : LET q == request[r] IN
       (q.yielded => q.yieldedAny) /\ ((q.pc = "done") = (q.result # "none"))

AdapterInit ==
  /\ setting \in Settings
  /\ breaker = [o \in Owners |-> [p \in ProviderSet |-> ClosedBreaker]]
  /\ request = [r \in Requests |-> NoCall]
  /\ now = 0

Target(q) == Providers[q.i]

\* getHealthyProviders asks canExecute of every provider.
GetHealthyProviders(r) == {p \in ProviderSet : CanExecute(breaker[Owner(r)][p], now)}

\* The position of the first provider from j on that the loop may use.
From(able, j) ==
  LET left == {k \in j..Len(Providers) : Providers[k] \in able} IN
  IF left = {} THEN Len(Providers) + 1 ELSE CHOOSE k \in left : \A l \in left : k <= l

AskEveryBreaker(r) ==
  breaker' = [breaker EXCEPT ![Owner(r)] = [p \in ProviderSet |-> AfterCanExecute(@[p], now)]]

\* The loop `mode` over the providers that are healthy now; with none of them
\* complete() fails and stream() returns without a word.
Enter(r, q, mode) ==
  LET healthy == GetHealthyProviders(r)
      able    == IF mode = "stream" THEN healthy \cap Streamers ELSE healthy IN
  /\ AskEveryBreaker(r)
  /\ request' = [request EXCEPT ![r] =
       [q EXCEPT !.mode = mode, !.able = able, !.i = From(able, 1),
                 !.pc = IF healthy = {} THEN "done" ELSE "call",
                 !.result = IF healthy = {} THEN "failed" ELSE @]]

NextProvider(q) ==
  [q EXCEPT !.i = From(q.able, @ + 1), !.retry = 0, !.yieldedAny = FALSE, !.yielded = FALSE, !.pc = "call"]

\* Faults: a stream that delivered content is tried again; a final error ends
\* the request; one retry too many.
FaultyAfterError(q, retryable, inTime) ==
  IF retryable /\ q.retry < MaxRetries /\ inTime
  THEN [q EXCEPT !.retry = @ + 1, !.pc = "sleep"]
  ELSE NextProvider(q)
FaultyNoFailover(q, retryable, inTime) ==
  IF retryable /\ ~q.yieldedAny /\ q.retry < MaxRetries /\ inTime
  THEN [q EXCEPT !.retry = @ + 1, !.pc = "sleep"]
  ELSE IF retryable THEN NextProvider(q) ELSE [q EXCEPT !.pc = "done", !.result = "failed"]
FaultyRetryCount(q, retryable, inTime) ==
  IF retryable /\ ~q.yieldedAny /\ q.retry <= MaxRetries /\ inTime
  THEN [q EXCEPT !.retry = @ + 1, !.pc = "sleep"]
  ELSE NextProvider(q)

\* After a failed attempt: wait and try the same provider again, unless the
\* error is final, content was delivered, the retries are used up or the wait
\* would pass the provider's deadline.  Then the next provider's turn comes.
AfterError(q, retryable, inTime) ==
  IF retryable /\ ~q.yieldedAny /\ q.retry < MaxRetries /\ inTime
  THEN [q EXCEPT !.retry = @ + 1, !.pc = "sleep"]
  ELSE NextProvider(q)

-----------------------------------------------------------------------------
StartCall(r, kind) ==
  /\ request[r].pc = "idle"
  /\ Enter(r, [request[r] EXCEPT !.asked = kind], kind)
  /\ UNCHANGED <<setting, now>>

\* provider.complete or provider.stream up to its fetch: the breaker is asked
\* again, and an open one is an error that is not retried.
CallProvider(r) ==
  LET q == request[r]  p == Target(q)  o == Owner(r) IN
  /\ q.pc = "call" /\ q.i <= Len(Providers)
  /\ breaker' = [breaker EXCEPT ![o][p] = AfterCanExecute(@, now)]
  /\ LET called == [q EXCEPT !.tried = @ \cup {<<q.mode, p>>}] IN
     request' = [request EXCEPT ![r] =
       IF CanExecute(breaker[o][p], now) THEN [called EXCEPT !.pc = "open", !.yielded = FALSE, !.sent[p] = @ + 1]
       ELSE NextProvider(called)]
  /\ UNCHANGED <<setting, now>>

\* Fault: the last resort of a stream is the stream again.
FaultyFallBack(r) ==
  /\ request[r].pc = "call" /\ request[r].i > Len(Providers) /\ request[r].mode = "stream"
  /\ request' = [request EXCEPT ![r].pc = "call", ![r].i = From(request[r].able, 1), ![r].retry = 0]
  /\ UNCHANGED <<setting, now, breaker>>

\* No provider streamed to its end: stream() calls complete().
FallBack(r) ==
  /\ request[r].pc = "call" /\ request[r].i > Len(Providers) /\ request[r].mode = "stream"
  /\ Enter(r, request[r], "complete")
  /\ UNCHANGED <<setting, now>>

AllProvidersFailed(r) ==
  /\ request[r].pc = "call" /\ request[r].i > Len(Providers) /\ request[r].mode = "complete"
  /\ request' = [request EXCEPT ![r].pc = "done", ![r].result = "failed"]
  /\ UNCHANGED <<setting, now, breaker>>

-----------------------------------------------------------------------------
Waiting(r, mode) == request[r].pc = "open" /\ request[r].mode = mode

Deliver(q) == [q EXCEPT !.delivered = Append(@, <<q.mode, Target(q)>>)]

\* A complete() that is the last resort of a stream gives its content at once.
CompleteAnswers(r) ==
  LET q == request[r] IN
  /\ Waiting(r, "complete")
  /\ breaker' = [breaker EXCEPT ![Owner(r)][Target(q)] = RecordSuccess(@)]
  /\ request' = [request EXCEPT ![r] = [Deliver(q) EXCEPT !.pc = "done", !.result = "ok"]]
  /\ UNCHANGED <<setting, now>>

\* An HTTP error, a timeout, a broken connection or an unreadable answer.
CompleteFails(r, retryable, inTime) ==
  LET q == request[r] IN
  /\ Waiting(r, "complete")
  /\ breaker' = [breaker EXCEPT ![Owner(r)][Target(q)] = RecordFailure(@, now)]
  /\ request' = [request EXCEPT ![r] = AfterError(q, retryable, inTime)]
  /\ UNCHANGED <<setting, now>>

StreamChunk(r) ==
  LET q == request[r] IN
  /\ Waiting(r, "stream") /\ ~q.yielded
  /\ request' = [request EXCEPT ![r] = [Deliver(q) EXCEPT !.yielded = TRUE, !.yieldedAny = TRUE]]
  /\ UNCHANGED <<setting, now, breaker>>

StreamEnds(r) ==
  LET q == request[r] IN
  /\ Waiting(r, "stream") /\ q.yielded
  /\ breaker' = [breaker EXCEPT ![Owner(r)][Target(q)] = RecordSuccess(@)]
  /\ request' = [request EXCEPT ![r].pc = "done", ![r].result = "ok"]
  /\ UNCHANGED <<setting, now>>

\* A stream that ends without content is first recorded as a success and then
\* thrown, which records a failure.
StreamEndsEmpty(r, inTime) ==
  LET q == request[r] IN
  /\ Waiting(r, "stream") /\ ~q.yielded
  /\ breaker' = [breaker EXCEPT ![Owner(r)][Target(q)] = RecordFailure(RecordSuccess(@), now)]
  /\ request' = [request EXCEPT ![r] = AfterError(q, TRUE, inTime)]
  /\ UNCHANGED <<setting, now>>

\* The error of a refused stream is recorded where it is made, thrown, and
\* recorded again by the catch around it, which makes every error retryable.
StreamRefused(r, inTime) ==
  LET q == request[r] IN
  /\ Waiting(r, "stream") /\ ~q.yielded
  /\ breaker' = [breaker EXCEPT ![Owner(r)][Target(q)] = RecordFailure(RecordFailure(@, now), now)]
  /\ request' = [request EXCEPT ![r] = AfterError(q, TRUE, inTime)]
  /\ UNCHANGED <<setting, now>>

\* The connection breaks or the timeout aborts it, before or after a chunk.
StreamBreaks(r, inTime) ==
  LET q == request[r] IN
  /\ Waiting(r, "stream")
  /\ breaker' = [breaker EXCEPT ![Owner(r)][Target(q)] = RecordFailure(@, now)]
  /\ request' = [request EXCEPT ![r] = AfterError(q, TRUE, inTime)]
  /\ UNCHANGED <<setting, now>>

Wake(r) ==
  /\ request[r].pc = "sleep"
  /\ request' = [request EXCEPT ![r].pc = "call"]
  /\ UNCHANGED <<setting, now, breaker>>

Tick ==
  /\ now < setting.maxTime
  /\ now' = now + 1
  /\ UNCHANGED <<setting, request, breaker>>

Proceed(r) == CallProvider(r) \/ FallBack(r) \/ AllProvidersFailed(r) \/ Wake(r)

Answer(r) ==
  \/ CompleteAnswers(r) \/ StreamEnds(r)
  \/ \E inTime \in BOOLEAN : \/ \E retryable \in BOOLEAN : CompleteFails(r, retryable, inTime)
                             \/ StreamEndsEmpty(r, inTime) \/ StreamRefused(r, inTime) \/ StreamBreaks(r, inTime)

AdapterNext ==
  \/ \E r \in setting.requests : \/ \E kind \in setting.kinds : StartCall(r, kind)
                                 \/ Proceed(r) \/ Answer(r) \/ StreamChunk(r)
  \/ Tick

\* The event loop runs what is due.  A fetch has a timer that aborts it until the
\* headers arrive and is cleared then; that the body ends, read by response.json() and
\* readErrorBody without a timer, is an assumption on the provider.
AdapterFairness == \A r \in Requests : WF_adapterVars(Proceed(r)) /\ WF_adapterVars(Answer(r))

AdapterSpec == AdapterInit /\ [][AdapterNext]_adapterVars /\ AdapterFairness

-----------------------------------------------------------------------------
(* Properties.                                                             *)

\* Retries and the last resort together never send a provider more than
\* retries + 1 requests for a complete() and twice that for a stream(), whatever
\* the other requests do to its breaker.
SendsAreBounded ==
  /\ AdapterTypeOK
  /\ \A r \in Requests, p \in ProviderSet :
       request[r].sent[p] <= (MaxRetries + 1) * (IF request[r].asked = "stream" THEN 2 ELSE 1)

\* No retry of stream() gives the caller the content of one provider twice, wherever
\* in the stream it broke.
NoContentTwiceFromOneLoop ==
  \A r \in Requests : \A i, j \in 1..Len(request[r].delivered) :
    request[r].delivered[i] = request[r].delivered[j] => i = j

\* A request fails only after every provider that was healthy when its last loop
\* began was called, even when breakers open between its attempts.
EveryProviderTried ==
  \A r \in Requests : LET q == request[r] IN
    q.result = "failed" => \A p \in q.able : <<q.mode, p>> \in q.tried

\* Every request ends, whichever providers fail, hang or are shut off.
RequestsEnd ==
  \A r \in Requests : (request[r].pc = "call") ~> (request[r].pc = "done")

=============================================================================
