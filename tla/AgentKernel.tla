---------------------------- MODULE AgentKernel ----------------------------
(***************************************************************************)
(* AgentKernel.run: the loop of model requests and tool calls of a run.    *)
(* A step is one synchronous block between two awaits: an answer of the    *)
(* model, of a tool or of a dispatch, and all the kernel does before it    *)
(* waits again.  ForegroundRuns composes the runs with the turns that      *)
(* start and cancel them.                                                  *)
(*                                                                         *)
(* A response of the model is the sequence of the kinds of its tool calls: *)
(* "invalid" (unparseable arguments), "unprojected", "internal" (handled   *)
(* by the kernel), "read" and "write" (dispatched in batches).             *)
(***************************************************************************)
EXTENDS ToolOrchestrator, Sequences

CONSTANTS
  Runs,           \* kernel runs
  Casts           \* bound: the runs of a behaviour, their maxIterations, the responses they get

CallKinds == {"invalid", "unprojected", "internal", "read", "write"}

ASSUME KernelAssumption ==
  \A c \in Casts : c.runs \subseteq Runs /\ c.maxIterations \in Nat \ {0} /\ c.responses \subseteq Seq(CallKinds)

VARIABLES
  cast,       \* the runs and responses of this behaviour.  Fixed.
  run,        \* the local state of each AgentKernel.run
  aborted,    \* runs whose signal is aborted
  strays      \* executions nobody waits for any more: <<run, iteration, position>>

kernelVars == <<cast, run, aborted, strays>>

Phases == {"idle", "building", "streaming", "calling", "fallback", "handling",
           "dispatching", "compacting", "done"}
InLLM == {"streaming", "calling", "fallback"}
Statuses == {"none", "completed", "failed", "timeout", "cancelled", "max_iterations_reached"}

Fresh == [phase |-> "idle", iteration |-> 0, status |-> "none", response |-> <<>>, pos |-> 1,
          pending |-> {}, answers |-> <<>>, batch |-> {}, tool |-> <<>>, lost |-> {}]

TypeOK ==
  /\ cast \in Casts /\ aborted \subseteq Runs
  /\ \A r \in Runs : LET k == run[r] IN
       /\ k.phase \in Phases /\ k.status \in Statuses
       /\ k.iteration \in 0..cast.maxIterations
       /\ k.pos \in 1..(Len(k.response) + 1)
       /\ k.pending \cup k.batch \cup k.lost \subseteq 1..Len(k.response)
       /\ Len(k.answers) = Len(k.response)
       /\ Len(k.tool) = Len(k.response) /\ \A i \in 1..Len(k.tool) : k.tool[i] \in ToolStates

KernelInit ==
  /\ cast \in Casts
  /\ run = [r \in Runs |-> Fresh]
  /\ aborted = {} /\ strays = {}

-----------------------------------------------------------------------------
(* The local state of a run: pairing of calls and results, and the control  *)
(* flow between two awaits, as functions of the state k.                    *)

\* acceptToolResult and the commit of the result to the transcript.
Accept(k, S, outcome) ==
  [k EXCEPT !.pending = @ \ S,
            !.answers = [i \in 1..Len(k.response) |->
                           IF i \in S THEN Append(k.answers[i], outcome[i]) ELSE k.answers[i]]]

AcceptErrors(k, S) == Accept(k, S, [i \in S |-> "error"])

FaultyFlushPairingGuard(k) == [k EXCEPT !.pending = {}]

\* A synthetic error result for every call that has none.
FlushPairingGuard(k) == AcceptErrors(k, k.pending)

Return(k, st) == [k EXCEPT !.phase = "done", !.status = st]

FlushAndReturn(k, st) == Return(FlushPairingGuard(k), st)

FaultyNextIteration(k, stop, late) ==
  IF stop THEN FlushAndReturn(k, "cancelled")
  ELSE IF late THEN FlushAndReturn(k, "timeout")
  ELSE [k EXCEPT !.phase = "building"]

\* The head of the loop.  stop: the signal is aborted; late: timeoutMs is over.
NextIteration(k, stop, late) ==
  IF k.iteration = cast.maxIterations THEN FlushAndReturn(k, "max_iterations_reached")
  ELSE IF stop THEN FlushAndReturn(k, "cancelled")
  ELSE IF late THEN [FlushAndReturn(k, "timeout") EXCEPT !.iteration = @ + 1]
  ELSE [k EXCEPT !.phase = "building", !.iteration = @ + 1]

\* What follows a response's last call: compaction, or the next iteration.
EndOfCalls(k, stop, late, compact) ==
  LET paired == FlushPairingGuard(k) IN
  IF compact THEN [paired EXCEPT !.phase = "compacting"] ELSE NextIteration(paired, stop, late)

Kinds(k, S) == {i \in 1..Len(k.response) : k.response[i] \in S}

\* The calls from position p to before the next internal one: results for those
\* that cannot run, a batch of the others, and then the batch's dispatch, the
\* internal handler or the end of the response.
HandleCalls(k, p, stop, late, compact) ==
  LET n == Len(k.response)
      inner == {i \in Kinds(k, {"internal"}) : i >= p}
      q == IF inner = {} THEN n + 1 ELSE CHOOSE i \in inner : \A j \in inner : i <= j
      batch == {i \in Kinds(k, {"read", "write"}) : p <= i /\ i < q}
      answered == [AcceptErrors(k, {i \in Kinds(k, {"invalid", "unprojected"}) : p <= i /\ i < q})
                     EXCEPT !.pos = q, !.batch = batch]
  IN  IF batch # {}
      THEN [answered EXCEPT !.phase = "dispatching",
                            !.tool = [i \in 1..n |-> IF i \in batch THEN "queued" ELSE k.tool[i]]]
      ELSE IF q <= n THEN [answered EXCEPT !.phase = "handling"]
      ELSE EndOfCalls(answered, stop, late, compact)

\* dispatchExternalBatch came back.  That all its tools asked to terminate
\* counts only for the last batch of a response.
AfterBatch(k, stop, late, compact, allTerminated) ==
  IF k.pos <= Len(k.response) THEN [k EXCEPT !.phase = "handling"]
  ELSE IF allTerminated THEN FlushAndReturn(k, "completed")
  ELSE EndOfCalls(k, stop, late, compact)

Becomes(r, k) == run' = [run EXCEPT ![r] = k]

Stop(r) == r \in aborted

-----------------------------------------------------------------------------
(* Requests to the model *)

\* run is called; a timeoutMs of zero or less ends it at once.
Start(r) ==
  /\ r \in cast.runs /\ run[r].phase = "idle"
  /\ \E late, expired \in BOOLEAN :
       Becomes(r, IF expired THEN Return(run[r], "timeout") ELSE NextIteration(run[r], Stop(r), late))
  /\ UNCHANGED <<cast, aborted, strays>>

FaultyBuildLLMRequest(r) ==
  /\ run[r].phase = "building"
  /\ \E p \in {"streaming", "calling"} : Becomes(r, [run[r] EXCEPT !.phase = p])
  /\ UNCHANGED <<cast, aborted, strays>>

\* buildLLMRequest returned; signal check 2;
\* then the request, unless the time is over or the building failed.
BuildLLMRequest(r) ==
  /\ run[r].phase = "building"
  /\ \/ IF Stop(r) THEN Becomes(r, FlushAndReturn(run[r], "cancelled"))
        ELSE \E p \in {"streaming", "calling"} : Becomes(r, [run[r] EXCEPT !.phase = p])
     \/ Becomes(r, FlushAndReturn(run[r], "failed"))
  /\ UNCHANGED <<cast, aborted, strays>>

\* A stream that breaks or stays empty: the request is sent once more.
StreamFails(r) ==
  /\ run[r].phase = "streaming" /\ ~Stop(r)
  /\ Becomes(r, [run[r] EXCEPT !.phase = "fallback"])
  /\ UNCHANGED <<cast, aborted, strays>>

\* The request fails or times out, or the signal ends it.
LLMFails(r) ==
  /\ run[r].phase \in InLLM
  /\ Becomes(r, FlushAndReturn(run[r], IF Stop(r) THEN "cancelled" ELSE "failed"))
  /\ UNCHANGED <<cast, aborted, strays>>

\* An answer without tool calls: a final text that is validated, reasoning only,
\* or nothing at all, which costs an iteration.  A fallback without text completes.
LLMAnswersText(r) ==
  LET k == run[r] IN
  /\ k.phase \in InLLM
  /\ \E what \in {"text", "reasoning", "empty"}, valid, late \in BOOLEAN :
       Becomes(r, IF what # "text" /\ k.phase = "fallback" THEN Return(k, "completed")
                  ELSE IF Stop(r) THEN FlushAndReturn(k, "cancelled")
                  ELSE IF what = "text" THEN Return(k, IF valid THEN "completed" ELSE "failed")
                  ELSE IF what = "reasoning" THEN Return(k, "completed")
                  ELSE NextIteration(k, Stop(r), late))
  /\ UNCHANGED <<cast, aborted, strays>>

\* An answer with tool calls.  Signal check 3; all calls are tracked; a response
\* cut at the length limit runs none of them.
LLMAnswersCalls(r) ==
  LET k == run[r] IN
  /\ k.phase \in InLLM
  /\ \E resp \in cast.responses, truncated, late, compact \in BOOLEAN :
       LET n == Len(resp)
           tracked == [k EXCEPT !.response = resp, !.pos = 1, !.batch = {}, !.lost = {}, !.pending = 1..n,
                                !.answers = [i \in 1..n |-> <<>>], !.tool = [i \in 1..n |-> "none"]]
       IN  Becomes(r, IF Stop(r) THEN FlushAndReturn(k, "cancelled")
                      ELSE IF truncated
                      THEN NextIteration(FlushPairingGuard(AcceptErrors(tracked, 1..n)), Stop(r), late)
                      ELSE HandleCalls(tracked, 1, Stop(r), late, compact))
  /\ UNCHANGED <<cast, aborted, strays>>

-----------------------------------------------------------------------------
(* Tools *)

\* An internal handler returns, throws or asks to stop; signal check 4.  The code's
\* try also holds what follows the acceptance of the result (commitTranscript, the
\* broadcast, mergeToolResult): a throw there would commit a second tool_result.  It
\* is left out, for nothing there throws in this program: the internal handlers are
\* the planner's and return plain records, commitTranscript pushes to an array, and
\* the stream's write callback catches.
HandlerReturns(r) ==
  LET k == run[r] IN
  /\ k.phase = "handling"
  /\ \E outcome \in {"ok", "error", "stop"}, late, compact \in BOOLEAN :
       LET told == Accept(k, {k.pos}, [i \in {k.pos} |-> IF outcome = "error" THEN "error" ELSE "ok"])
       IN  Becomes(r, IF outcome = "stop" THEN FlushAndReturn(told, "completed")
                      ELSE IF Stop(r) THEN FlushAndReturn(told, "cancelled")
                      ELSE HandleCalls(told, k.pos + 1, Stop(r), late, compact))
  /\ UNCHANGED <<cast, aborted, strays>>

SetTool(r, i, t) == run' = [run EXCEPT ![r].tool[i] = t]

Dispatched(r, i) == run[r].phase = "dispatching" /\ i \in run[r].batch

MayTake(r, i) ==
  /\ Dispatched(r, i) /\ run[r].tool[i] = "queued"
  /\ TurnOf(run[r].batch, run[r].response, run[r].tool, i)

\* executeWithTerminalPolicy and the synchronous part of execute: the handler
\* starts, or the tool is refused and its row says why.
ToolStarts(r, i) ==
  /\ MayTake(r, i) /\ ~Skips(run[r].batch, run[r].response, run[r].tool, i) /\ ~Stop(r)
  /\ \E t \in {"running", "refused"} : SetTool(r, i, t)
  /\ UNCHANGED <<cast, aborted, strays>>

\* A result without an execution: behind a failed write, or after the abort.
ToolNotStarted(r, i) ==
  /\ MayTake(r, i)
  /\ \/ /\ Skips(run[r].batch, run[r].response, run[r].tool, i) /\ SetTool(r, i, "skipped")
     \/ /\ ~Skips(run[r].batch, run[r].response, run[r].tool, i) /\ Stop(r)
        /\ SetTool(r, i, "cancelled")
  /\ UNCHANGED <<cast, aborted, strays>>

\* The handler answers in time; the row becomes COMPLETED or FAILED.
ToolEnds(r, i) ==
  /\ Dispatched(r, i) /\ run[r].tool[i] = "running"
  /\ \E t \in {"ok", "failed"} : SetTool(r, i, t)
  /\ UNCHANGED <<cast, aborted, strays>>

\* A handler whose result was given up ends; its row becomes FAILED 'CANCELLED'.
StrayEnds(e) ==
  /\ e \in strays /\ strays' = strays \ {e}
  /\ UNCHANGED <<cast, run, aborted>>

RunningTools(r) == {i \in run[r].batch : run[r].tool[i] = "running"}

\* The results of the batch, in the order of the calls.
BatchReturns(r) ==
  LET k == run[r]
      told == Accept(k, k.batch, [i \in k.batch |-> IF k.tool[i] = "ok" THEN "ok" ELSE "error"]) IN
  /\ k.phase = "dispatching" /\ \A i \in k.batch : Ended(k.tool[i])
  /\ \E allTerminated, late, compact \in BOOLEAN :
       /\ allTerminated => \A i \in k.batch : k.tool[i] \in {"ok", "failed"}
       /\ Becomes(r, AfterBatch(told, Stop(r), late, compact, allTerminated))
  /\ UNCHANGED <<cast, aborted, strays>>

\* The batch's signal: what has not ended is cancelled.
Cut(k) == [k EXCEPT !.tool = [i \in DOMAIN @ |-> IF i \in k.batch /\ ~Ended(@[i]) THEN "cancelled" ELSE @[i]]]

\* The dispatcher's timer: it aborts the batch, and the kernel gets one error for
\* the whole of it.  Handlers that run go on.
DispatchTimesOut(r) ==
  LET k == run[r] IN
  /\ k.phase = "dispatching"
  /\ \E late, compact \in BOOLEAN :
       Becomes(r, AfterBatch([AcceptErrors(Cut(k), k.batch) EXCEPT !.lost = @ \cup k.batch],
                             Stop(r), late, compact, FALSE))
  /\ strays' = strays \cup {<<r, k.iteration, i>> : i \in RunningTools(r)}
  /\ UNCHANGED <<cast, aborted>>

\* The dispatch is refused, or throws, before the batch reaches its adapter.
DispatchFails(r) ==
  LET k == run[r] IN
  /\ k.phase = "dispatching" /\ \A i \in k.batch : k.tool[i] = "queued"
  /\ \E late, compact \in BOOLEAN :
       Becomes(r, AfterBatch(AcceptErrors(k, k.batch), Stop(r), late, compact, FALSE))
  /\ UNCHANGED <<cast, aborted, strays>>

\* The compaction executor returns or throws; either way the loop goes on.
CompactEnds(r) ==
  /\ run[r].phase = "compacting"
  /\ \E late \in BOOLEAN : Becomes(r, NextIteration(run[r], Stop(r), late))
  /\ UNCHANGED <<cast, aborted, strays>>

\* abortRun: the listeners of the batch resolve every running tool as cancelled.
AbortRun(r) ==
  LET k == run[r] IN
  /\ r \in cast.runs \ aborted /\ k.phase # "done"
  /\ aborted' = aborted \cup {r}
  /\ strays' = strays \cup {<<r, k.iteration, i>> : i \in RunningTools(r)}
  /\ Becomes(r, [k EXCEPT !.tool = [i \in DOMAIN @ |-> IF i \in RunningTools(r) THEN "cancelled" ELSE @[i]]])
  /\ UNCHANGED <<cast>>

-----------------------------------------------------------------------------
\* The steps that end a wait whatever the model and the tools do.
LoopStep(r) ==
  BuildLLMRequest(r) \/ LLMFails(r) \/ HandlerReturns(r) \/ DispatchTimesOut(r) \/ CompactEnds(r)

ToolStep(r) ==
  \E i \in 1..Len(run[r].response) : ToolStarts(r, i) \/ ToolNotStarted(r, i) \/ ToolEnds(r, i)

KernelStep(r) ==
  \/ LoopStep(r)
  \/ StreamFails(r) \/ LLMAnswersText(r) \/ LLMAnswersCalls(r)
  \/ BatchReturns(r) \/ DispatchFails(r) \/ ToolStep(r)

-----------------------------------------------------------------------------
(* Properties *)

\* Whenever the kernel asks the model again, and when it returns, every tool call
\* of the last response has exactly one result in the transcript, whatever mixture
\* of parse errors, internal handlers, batches, timeouts, stops and aborts came in
\* between (agent-kernel.ts, ToolResultPairingGuard).
EveryCallAnsweredOnce ==
  /\ TypeOK
  /\ \A r \in Runs : \A i \in 1..Len(run[r].response) :
       LET n == Len(run[r].answers[i]) IN
       n <= 1 /\ (run[r].phase \in InLLM \cup {"building", "compacting", "done"} => n = 1)

\* The writes of a batch that took effect are the first ones of the batch: none is
\* applied after one that failed, was refused or was cancelled (executeSerialGroup).
WritesApplyInOrder ==
  \A r \in Runs : \A i \in run[r].batch : \A j \in Earlier(run[r].batch, run[r].response, i) :
    run[r].response[i] = "write" /\ run[r].tool[i] = "ok" => run[r].tool[j] = "ok"

\* The model is told of a success only if the tool's row is COMPLETED, and of an
\* error for a completed tool only if the dispatch of its batch timed out.
AnswersTellTheTools ==
  \A r \in Runs : \A i \in Kinds(run[r], {"read", "write"}) :
    LET k == run[r] IN
    /\ k.answers[i] = <<"ok">> => k.tool[i] = "ok"
    /\ k.answers[i] = <<"error">> /\ k.tool[i] = "ok" => i \in k.lost

\* What the tools of a batch did, and what the model is told of them.
BatchEffectsAreTold == WritesApplyInOrder /\ AnswersTellTheTools

\* Once a run's signal is aborted no tool of it starts and no request is sent; an
\* internal handler starts only if a batch that was already dispatched precedes it
\* (signal checks 1 to 4 and executeWithTerminalPolicy).
NoNewWorkAfterAbort ==
  [][\A r \in aborted :
       LET k == run[r] kk == run'[r] IN
       /\ kk.phase \in InLLM => k.phase \in InLLM
       /\ kk.phase = "handling" => k.phase \in {"handling", "dispatching"}
       /\ \A i \in 1..Len(kk.response) :
            kk.tool[i] = "running" => i <= Len(k.response) /\ k.tool[i] = "running"]_kernelVars
=============================================================================
