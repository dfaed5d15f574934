------------------------ MODULE ForegroundRunsProofs ------------------------
(***************************************************************************)
(* Proofs about AgentKernel and ForegroundRuns, for any runs, responses,   *)
(* limits of iterations and of parallel reads and any number of restarts.  *)
(*                                                                         *)
(* The invariant of a run follows the cursor of its loop over the calls of *)
(* a response: what is pending is exactly the batch that is dispatched and *)
(* the calls from the cursor on, which no tool has touched yet.  So a      *)
(* result that is accepted is the first one of its call, and a synthetic   *)
(* error never hides a tool that completed.  The functions of the run's    *)
(* state that make up the loop are shown to keep it one by one.            *)
(*                                                                         *)
(* The last part is about the LLM adapter that answers the kernel's model  *)
(* calls (LlmFailover), for any providers, retries, thresholds, requests   *)
(* and clock: its invariant follows the position of a call in the order of *)
(* the providers, behind which everyone was called and sent what a loop    *)
(* allows, and before which nobody was.  Of a breaker it says that an open *)
(* one lets nothing through before its reset timeout is over.              *)
(***************************************************************************)
EXTENDS ForegroundRuns, LlmFailover, SequenceTheorems, WellFoundedInduction, TLAPS

-----------------------------------------------------------------------------
(* The invariant of a run *)

\* The results a call may have in the transcript.
Results == {"ok", "error"}
Only(x) == <<x>>
AnswersOfCall == {<<>>, <<"ok">>, <<"error">>}

RunStates ==
  [phase : Phases, iteration : Nat, status : Statuses, response : Seq(CallKinds), pos : Nat,
   pending : SUBSET Nat, answers : Seq(AnswersOfCall), batch : SUBSET Nat, tool : Seq(ToolStates), lost : SUBSET Nat]

Calls(k) == 1..Len(k.response)

Shaped(k) ==
  /\ k \in RunStates /\ k.iteration \in 0..cast.maxIterations /\ k.pos \in 1..(Len(k.response) + 1)
  /\ k.pending \subseteq Calls(k) /\ k.batch \subseteq Calls(k) /\ k.lost \subseteq Calls(k)
  /\ Len(k.answers) = Len(k.response) /\ Len(k.tool) = Len(k.response)

\* The guard's pending calls are those without a result.
Paired(k) == \A i \in Calls(k) : i \in k.pending <=> k.answers[i] = <<>>

Told(k) ==
  \A i \in Kinds(k, {"read", "write"}) :
    /\ k.answers[i] = <<"ok">> => k.tool[i] = "ok"
    /\ k.answers[i] = <<"error">> /\ k.tool[i] = "ok" => i \in k.lost

\* A write of the batch that was started has only successful writes before it.
Ordered(k) ==
  \A i, j \in k.batch :
    j < i /\ k.response[i] = "write" /\ k.response[j] = "write" /\ k.tool[i] \in {"running", "ok"} => k.tool[j] = "ok"

Base(k) == Shaped(k) /\ Paired(k) /\ Told(k) /\ Ordered(k)

\* No tool has touched a call from position p on.
Untouched(k, p) == \A i \in p..Len(k.response) : k.tool[i] = "none"

\* The cursor is behind the last call or at an internal one.
AtInternal(k) == k.pos <= Len(k.response) => k.response[k.pos] = "internal"

PhaseInv(k) ==
  /\ k.phase = "dispatching" =>
       /\ k.pending = k.batch \cup k.pos..Len(k.response)
       /\ \A i \in k.batch : i < k.pos /\ k.response[i] \in {"read", "write"}
       /\ Untouched(k, k.pos) /\ AtInternal(k)
  /\ k.phase = "handling" =>
       k.pos <= Len(k.response) /\ k.pending = k.pos..Len(k.response) /\ Untouched(k, k.pos) /\ AtInternal(k)
  /\ k.phase \notin {"dispatching", "handling"} => k.pending = {}

RunInv(k) == Base(k) /\ PhaseInv(k)

KernelInv == cast \in Casts /\ aborted \subseteq Runs /\ run \in [Runs -> RunStates] /\ \A r \in Runs : RunInv(run[r])

-----------------------------------------------------------------------------
(* The invariant of the rows *)

RowInv ==
  /\ turn \in [Runs -> Places] /\ row \in [Runs -> Terminal \cup {"none", "initializing"}]
  /\ \A r \in aborted : row[r] = "cancelled"
  /\ RowTellsTheTurn

-----------------------------------------------------------------------------
(* Sequences *)

\* A function on 1..n is a sequence of length n.
LEMMA SeqOfFunction ==
  ASSUME NEW n \in Nat, NEW S, NEW f \in [1..n -> S]
  PROVE  f \in Seq(S) /\ Len(f) = n
<1>1. f \in Seq(S)
  BY SeqDef
<1>2. Len(f) \in Nat /\ DOMAIN f = 1..Len(f)
  BY <1>1, LenProperties
<1> QED BY <1>1, <1>2

\* Append to the empty sequence.
LEMMA AppendToNone ==
  ASSUME NEW x
  PROVE  Append(<<>>, x) = <<x>>
OBVIOUS

\* The sequences of a run, as functions on its calls.
LEMMA ShapedProperties ==
  ASSUME NEW k, Shaped(k)
  PROVE  /\ Len(k.response) \in Nat /\ k.response \in [Calls(k) -> CallKinds]
         /\ k.answers \in [Calls(k) -> AnswersOfCall] /\ k.tool \in [Calls(k) -> ToolStates]
<1>1. /\ k.response \in Seq(CallKinds) /\ k.answers \in Seq(AnswersOfCall) /\ k.tool \in Seq(ToolStates)
      /\ Len(k.answers) = Len(k.response) /\ Len(k.tool) = Len(k.response)
  BY DEF Shaped, RunStates
<1> QED BY <1>1, LenProperties DEF Calls

-----------------------------------------------------------------------------
(* The functions of a run's state *)

\* The fields that tell of calls and tools agree.
SameCalls(f, k) ==
  /\ f.response = k.response /\ f.pending = k.pending /\ f.answers = k.answers
  /\ f.batch = k.batch /\ f.tool = k.tool /\ f.lost = k.lost

\* Phase, status, iteration and cursor do not matter for what was answered.
LEMMA SameKeeps ==
  ASSUME NEW k, NEW f, Base(k), SameCalls(f, k), f \in RunStates,
         f.iteration \in 0..cast.maxIterations, f.pos \in 1..(Len(k.response) + 1)
  PROVE  Base(f)
<1>1. Shaped(k) /\ Paired(k) /\ Told(k) /\ Ordered(k)
  BY DEF Base
<1>2. Shaped(f)
  BY <1>1 DEF Shaped, SameCalls, Calls
<1>3. Paired(f)
  BY <1>1 DEF Paired, SameCalls, Calls
<1>4. Told(f)
  BY <1>1 DEF Told, SameCalls, Calls, Kinds
<1>5. Ordered(f)
  BY <1>1 DEF Ordered, SameCalls
<1> QED BY <1>2, <1>3, <1>4, <1>5 DEF Base

\* The calls of S have got their results, and no other call.
Accepted(f, k, S, outcome) ==
  /\ \A i \in S : f.answers[i] = Only(outcome[i])
  /\ \A i \in Calls(k) \ S : f.answers[i] = k.answers[i]

\* acceptToolResult for pending calls: the results ...
LEMMA AcceptAnswers ==
  ASSUME NEW k, Shaped(k), Paired(k), NEW S \in SUBSET k.pending, NEW outcome \in [S -> Results],
         NEW f, f = Accept(k, S, outcome)
  PROVE  f.answers \in [Calls(k) -> AnswersOfCall] /\ f.pending = k.pending \ S /\ Accepted(f, k, S, outcome)
<1> DEFINE a == [i \in Calls(k) |-> IF i \in S THEN Append(k.answers[i], outcome[i]) ELSE k.answers[i]]
<1>1. k \in RunStates /\ S \subseteq Calls(k) /\ k.answers \in [Calls(k) -> AnswersOfCall]
  BY ShapedProperties DEF Shaped
<1>2. \A i \in S : Append(k.answers[i], outcome[i]) = Only(outcome[i]) /\ Only(outcome[i]) \in AnswersOfCall
  <2>1. \A i \in S : k.answers[i] = <<>>
    BY <1>1 DEF Paired
  <2>2. \A i \in S : outcome[i] \in {"ok", "error"}
    BY DEF Results
  <2> QED BY <2>1, <2>2, AppendToNone DEF AnswersOfCall, Only
<1>3. /\ a \in [Calls(k) -> AnswersOfCall]
      /\ \A i \in S : a[i] = Only(outcome[i])
      /\ \A i \in Calls(k) \ S : a[i] = k.answers[i]
  BY <1>1, <1>2
<1>4. f = [k EXCEPT !.pending = k.pending \ S, !.answers = a]
  BY DEF Accept, Calls
<1> HIDE DEF a
<1>5. f.answers = a /\ f.pending = k.pending \ S
  BY <1>1, <1>4 DEF RunStates
<1> QED BY <1>3, <1>5 DEF Accepted

\* ... and everything else.
LEMMA AcceptFields ==
  ASSUME NEW k, Shaped(k), Paired(k), NEW S \in SUBSET k.pending, NEW outcome \in [S -> Results],
         NEW f, f = Accept(k, S, outcome)
  PROVE  /\ f \in RunStates
         /\ f.phase = k.phase /\ f.iteration = k.iteration /\ f.status = k.status /\ f.pos = k.pos
         /\ f.response = k.response /\ f.batch = k.batch /\ f.tool = k.tool /\ f.lost = k.lost
         /\ f.pending = k.pending \ S /\ Len(f.answers) = Len(k.response)
<1> DEFINE a == [i \in 1..Len(k.response) |-> IF i \in S THEN Append(k.answers[i], outcome[i]) ELSE k.answers[i]]
<1>1. k \in RunStates /\ Len(k.response) \in Nat
  BY ShapedProperties DEF Shaped
<1>2. f = [k EXCEPT !.pending = k.pending \ S, !.answers = a]
  BY DEF Accept
<1> HIDE DEF a
<1>3. f.answers = a
  BY <1>1, <1>2 DEF RunStates
<1>4. a \in [1..Len(k.response) -> AnswersOfCall]
  BY <1>3, AcceptAnswers DEF Calls
<1>5. a \in Seq(AnswersOfCall) /\ Len(a) = Len(k.response)
  BY <1>1, <1>4, SeqOfFunction
<1>6. k.pending \ S \in SUBSET Nat
  BY <1>1 DEF RunStates
<1> QED BY <1>1, <1>2, <1>3, <1>5, <1>6 DEF RunStates

\* Results that say what the tools did.
LEMMA AcceptKeeps ==
  ASSUME NEW k, Base(k), NEW S \in SUBSET k.pending, NEW outcome \in [S -> Results],
         \A i \in S : k.response[i] \in {"read", "write"} =>
            /\ outcome[i] = "ok" => k.tool[i] = "ok"
            /\ outcome[i] = "error" /\ k.tool[i] = "ok" => i \in k.lost
  PROVE  Base(Accept(k, S, outcome))
<1> DEFINE f == Accept(k, S, outcome)
<1>0. f = Accept(k, S, outcome)
  OBVIOUS
<1> HIDE DEF f
<1>1. /\ f \in RunStates
      /\ f.iteration = k.iteration /\ f.pos = k.pos
      /\ f.response = k.response /\ f.batch = k.batch /\ f.tool = k.tool /\ f.lost = k.lost
      /\ f.pending = k.pending \ S /\ Len(f.answers) = Len(k.response)
  <2>1. Shaped(k) /\ Paired(k)
    BY DEF Base
  <2> QED BY <1>0, <2>1, AcceptFields
<1>2. Shaped(f) /\ Calls(f) = Calls(k)
  BY <1>1 DEF Base, Shaped, Calls
<1>7. /\ \A i \in S : f.answers[i] = Only(outcome[i])
      /\ \A i \in Calls(k) \ S : f.answers[i] = k.answers[i]
  <2>1. Shaped(k) /\ Paired(k)
    BY DEF Base
  <2> QED BY <1>0, <2>1, AcceptAnswers DEF Accepted
<1>3. \A i \in S : Only(outcome[i]) # <<>> /\ (Only(outcome[i]) = <<"ok">> => outcome[i] = "ok")
                 /\ (Only(outcome[i]) = <<"error">> => outcome[i] = "error")
  BY DEF Only
<1>4. Paired(f)
  BY <1>1, <1>2, <1>3, <1>7 DEF Base, Paired
<1>5. Told(f)
  <2> SUFFICES ASSUME NEW i \in Calls(k), k.response[i] \in {"read", "write"}
               PROVE  /\ f.answers[i] = <<"ok">> => k.tool[i] = "ok"
                      /\ f.answers[i] = <<"error">> /\ k.tool[i] = "ok" => i \in k.lost
    BY <1>1, <1>2 DEF Told, Kinds, Calls
  <2>1. CASE i \in S
    BY <1>3, <1>7, <2>1
  <2>2. CASE i \notin S
    <3>1. /\ k.answers[i] = <<"ok">> => k.tool[i] = "ok"
          /\ k.answers[i] = <<"error">> /\ k.tool[i] = "ok" => i \in k.lost
      BY DEF Base, Told, Kinds, Calls
    <3> QED BY <1>7, <2>2, <3>1
  <2> QED BY <2>1, <2>2
<1>6. Ordered(f)
  BY <1>1 DEF Base, Ordered
<1> QED BY <1>2, <1>4, <1>5, <1>6 DEF Base, f

\* Synthetic errors for pending calls, none of which has completed.
LEMMA ErrorsKeep ==
  ASSUME NEW k, Base(k), NEW S \in SUBSET k.pending, \A i \in S : k.tool[i] # "ok"
  PROVE  LET f == AcceptErrors(k, S) IN
         /\ Base(f) /\ f \in RunStates
         /\ f.phase = k.phase /\ f.iteration = k.iteration /\ f.status = k.status /\ f.pos = k.pos
         /\ f.response = k.response /\ f.batch = k.batch /\ f.tool = k.tool /\ f.lost = k.lost
         /\ f.pending = k.pending \ S
<1> DEFINE outcome == [i \in S |-> "error"]
<1>1. outcome \in [S -> Results] /\ \A i \in S : outcome[i] = "error"
  BY DEF Results
<1>2. Shaped(k) /\ Paired(k)
  BY DEF Base
<1> DEFINE f == AcceptErrors(k, S)
<1>3. f = Accept(k, S, outcome)
  BY DEF AcceptErrors
<1> HIDE DEF outcome, f
<1>4. Base(f)
  BY <1>1, <1>3, AcceptKeeps
<1>5. /\ f \in RunStates
      /\ f.phase = k.phase /\ f.iteration = k.iteration /\ f.status = k.status /\ f.pos = k.pos
      /\ f.response = k.response /\ f.batch = k.batch /\ f.tool = k.tool /\ f.lost = k.lost
      /\ f.pending = k.pending \ S
  BY <1>1, <1>2, <1>3, AcceptFields
<1> QED BY <1>4, <1>5 DEF f

\* The results they leave.
LEMMA ErrorAnswers ==
  ASSUME NEW k, Shaped(k), Paired(k), NEW S \in SUBSET k.pending, NEW f, f = AcceptErrors(k, S)
  PROVE  /\ \A i \in S : f.answers[i] = Only("error")
         /\ \A i \in Calls(k) \ S : f.answers[i] = k.answers[i]
<1> DEFINE outcome == [i \in S |-> "error"]
<1>1. outcome \in [S -> Results]
  BY DEF Results
<1>2. \A i \in S : outcome[i] = "error"
  OBVIOUS
<1>3. f = Accept(k, S, outcome)
  BY DEF AcceptErrors
<1> HIDE DEF outcome
<1>4. Accepted(f, k, S, outcome)
  BY <1>1, <1>3, AcceptAnswers
<1> QED BY <1>2, <1>4 DEF Accepted

\* A run returns.
LEMMA ReturnKeeps ==
  ASSUME NEW k, Base(k), k.pending = {}, NEW st \in Statuses
  PROVE  /\ RunInv(Return(k, st)) /\ Return(k, st).phase = "done" /\ Return(k, st).tool = k.tool
         /\ Return(k, st).response = k.response /\ Return(k, st).iteration = k.iteration
<1> DEFINE f == Return(k, st)
<1>1. k \in RunStates /\ k.iteration \in 0..cast.maxIterations /\ k.pos \in 1..(Len(k.response) + 1)
  BY DEF Base, Shaped
<1>2. f \in RunStates /\ SameCalls(f, k) /\ f.phase = "done" /\ f.iteration = k.iteration /\ f.pos = k.pos
  BY <1>1 DEF Return, RunStates, SameCalls, Phases
<1> HIDE DEF f
<1>3. Base(f)
  BY <1>1, <1>2, SameKeeps
<1>4. RunInv(f)
  BY <1>2, <1>3 DEF RunInv, PhaseInv, SameCalls
<1> QED BY <1>2, <1>4 DEF f, SameCalls

\* flushPairingGuard answers every pending call with an error and leaves the rest of the run.
LEMMA FlushKeeps ==
  ASSUME NEW k, Base(k), \A i \in k.pending : k.tool[i] # "ok"
  PROVE  LET f == FlushPairingGuard(k) IN
         /\ Base(f) /\ f.pending = {} /\ f \in RunStates
         /\ f.phase = k.phase /\ f.iteration = k.iteration /\ f.pos = k.pos
         /\ f.response = k.response /\ f.tool = k.tool
BY ErrorsKeep DEF FlushPairingGuard

\* A run that flushes its pairing guard and returns is done and has answered every call.
LEMMA FlushReturnKeeps ==
  ASSUME NEW k, Base(k), \A i \in k.pending : k.tool[i] # "ok", NEW st \in Statuses
  PROVE  LET f == FlushAndReturn(k, st) IN
         RunInv(f) /\ f.phase = "done" /\ f.tool = k.tool /\ f.response = k.response /\ f.iteration = k.iteration
<1> DEFINE p == FlushPairingGuard(k)
<1>1. Base(p) /\ p.pending = {} /\ p.tool = k.tool /\ p.response = k.response /\ p.iteration = k.iteration
  BY FlushKeeps
<1>2. FlushAndReturn(k, st) = Return(p, st)
  BY DEF FlushAndReturn
<1> HIDE DEF p
<1> QED BY <1>1, <1>2, ReturnKeeps

\* The head of the loop.
LEMMA NextIterationKeeps ==
  ASSUME cast \in Casts, NEW k, Base(k), k.pending = {}, NEW stop \in BOOLEAN, NEW late \in BOOLEAN
  PROVE  LET f == NextIteration(k, stop, late) IN
         /\ RunInv(f) /\ f.tool = k.tool /\ f.response = k.response
         /\ f.phase \in {"building", "done"} /\ (stop => f.phase = "done")
<1>1. /\ cast.maxIterations \in Nat /\ k \in RunStates /\ k.iteration \in 0..cast.maxIterations
      /\ k.pos \in 1..(Len(k.response) + 1)
  BY KernelAssumption DEF Base, Shaped
<1>2. ASSUME NEW st \in Statuses
      PROVE  LET f == FlushAndReturn(k, st) IN
             RunInv(f) /\ f.phase = "done" /\ f.tool = k.tool /\ f.response = k.response /\ f.iteration = k.iteration
  BY FlushReturnKeeps
<1>3. CASE k.iteration = cast.maxIterations \/ stop
  BY <1>2, <1>3 DEF NextIteration, Statuses
<1>4. CASE k.iteration # cast.maxIterations /\ ~stop /\ late
  <2> DEFINE g == FlushAndReturn(k, "timeout")
             f == [g EXCEPT !.iteration = g.iteration + 1]
  <2>1. RunInv(g) /\ g.phase = "done" /\ g.tool = k.tool /\ g.response = k.response /\ g.iteration = k.iteration
    BY <1>2 DEF Statuses
  <2>2. NextIteration(k, stop, late) = f
    BY <1>4 DEF NextIteration
  <2> HIDE DEF g
  <2>3. Base(g) /\ g.pending = {} /\ g \in RunStates /\ g.pos \in 1..(Len(g.response) + 1)
    BY <2>1 DEF RunInv, PhaseInv, Base, Shaped
  <2>4. /\ f \in RunStates /\ SameCalls(f, g) /\ f.phase = "done" /\ f.pos = g.pos
        /\ f.iteration \in 0..cast.maxIterations
    <3>1. k.iteration \in Nat /\ k.iteration + 1 \in 0..cast.maxIterations
      BY <1>1, <1>4
    <3>2. g.iteration + 1 \in Nat
      BY <2>1, <3>1
    <3> QED BY <2>1, <2>3, <3>1, <3>2 DEF RunStates, SameCalls
  <2> HIDE DEF f
  <2>5. Base(f)
    BY <2>3, <2>4, SameKeeps
  <2>6. RunInv(f)
    BY <2>3, <2>4, <2>5 DEF RunInv, PhaseInv, SameCalls
  <2> QED BY <1>4, <2>1, <2>2, <2>4, <2>6 DEF SameCalls
<1>5. CASE k.iteration # cast.maxIterations /\ ~stop /\ ~late
  <2> DEFINE f == [k EXCEPT !.phase = "building", !.iteration = k.iteration + 1]
  <2>1. NextIteration(k, stop, late) = f
    BY <1>5 DEF NextIteration
  <2>2. /\ f \in RunStates /\ SameCalls(f, k) /\ f.phase = "building" /\ f.pos = k.pos
        /\ f.iteration \in 0..cast.maxIterations
    <3>1. k.iteration + 1 \in Nat /\ k.iteration + 1 \in 0..cast.maxIterations /\ "building" \in Phases
      BY <1>1, <1>5 DEF Phases
    <3> QED BY <1>1, <3>1 DEF RunStates, SameCalls
  <2> HIDE DEF f
  <2>3. Base(f)
    BY <1>1, <2>2, SameKeeps
  <2>4. RunInv(f)
    BY <2>2, <2>3 DEF RunInv, PhaseInv, SameCalls
  <2> QED BY <1>5, <2>1, <2>2, <2>4 DEF SameCalls
<1> QED BY <1>3, <1>4, <1>5

\* What follows the last call of a response.
LEMMA EndOfCallsKeeps ==
  ASSUME cast \in Casts, NEW k, Base(k), \A i \in k.pending : k.tool[i] # "ok",
         NEW stop \in BOOLEAN, NEW late \in BOOLEAN, NEW compact \in BOOLEAN
  PROVE  LET f == EndOfCalls(k, stop, late, compact) IN
         RunInv(f) /\ f.tool = k.tool /\ f.response = k.response /\ f.phase \in {"compacting", "building", "done"}
<1> DEFINE p == FlushPairingGuard(k)
<1>1. Base(p) /\ p.pending = {} /\ p \in RunStates /\ p.tool = k.tool /\ p.response = k.response
  BY FlushKeeps
<1>2. EndOfCalls(k, stop, late, compact) =
        IF compact THEN [p EXCEPT !.phase = "compacting"] ELSE NextIteration(p, stop, late)
  BY DEF EndOfCalls
<1> HIDE DEF p
<1>3. CASE ~compact
  BY <1>1, <1>2, <1>3, NextIterationKeeps
<1>4. CASE compact
  <2> DEFINE f == [p EXCEPT !.phase = "compacting"]
  <2>1. /\ f \in RunStates /\ SameCalls(f, p) /\ f.phase = "compacting" /\ f.pos = p.pos /\ f.iteration = p.iteration
    BY <1>1 DEF RunStates, SameCalls, Phases
  <2> HIDE DEF f
  <2>2. p.pos \in 1..(Len(p.response) + 1) /\ p.iteration \in 0..cast.maxIterations
    BY <1>1 DEF Base, Shaped
  <2>3. Base(f)
    BY <1>1, <2>1, <2>2, SameKeeps
  <2>4. RunInv(f)
    BY <1>1, <2>1, <2>3 DEF RunInv, PhaseInv, SameCalls
  <2> QED BY <1>1, <1>2, <1>4, <2>1, <2>4 DEF f, SameCalls
<1> QED BY <1>3, <1>4

\* The first member of a set of positions.
LEMMA FirstOf ==
  ASSUME NEW S \in SUBSET Nat, S # {}, NEW q, q = CHOOSE i \in S : \A j \in S : i <= j
  PROVE  q \in S /\ \A j \in S : q <= j
<1>1. \E x \in S : \A y \in S : <<y, x>> \notin OpToRel(<, Nat)
  BY WFMin, NatLessThanWellFounded
<1>2. PICK x \in S : \A y \in S : ~ (y < x)
  BY <1>1 DEF OpToRel
<1>3. \A y \in S : x <= y
  BY <1>2
<1> QED BY <1>3

\* The loop over the calls from position p on.
LEMMA HandleCallsKeeps ==
  ASSUME cast \in Casts, NEW k, Base(k), NEW p \in 1..(Len(k.response) + 1),
         k.pending = p..Len(k.response), Untouched(k, p),
         NEW stop \in BOOLEAN, NEW late \in BOOLEAN, NEW compact \in BOOLEAN
  PROVE  RunInv(HandleCalls(k, p, stop, late, compact))
<1> DEFINE n == Len(k.response)
           inner == {i \in Kinds(k, {"internal"}) : i >= p}
           q == IF inner = {} THEN n + 1 ELSE CHOOSE i \in inner : \A j \in inner : i <= j
           batch == {i \in Kinds(k, {"read", "write"}) : p <= i /\ i < q}
           bad == {i \in Kinds(k, {"invalid", "unprojected"}) : p <= i /\ i < q}
           e == AcceptErrors(k, bad)
           answered == [e EXCEPT !.pos = q, !.batch = batch]
           tools == [i \in 1..n |-> IF i \in batch THEN "queued" ELSE k.tool[i]]
<1>0. HandleCalls(k, p, stop, late, compact) =
        IF batch # {} THEN [answered EXCEPT !.phase = "dispatching", !.tool = tools]
        ELSE IF q <= n THEN [answered EXCEPT !.phase = "handling"]
        ELSE EndOfCalls(answered, stop, late, compact)
  BY DEF HandleCalls
<1>1. /\ n \in Nat /\ k \in RunStates /\ k.response \in [1..n -> CallKinds] /\ k.tool \in [1..n -> ToolStates]
      /\ k.iteration \in 0..cast.maxIterations /\ k.lost \subseteq 1..n
      /\ p \in Nat /\ 1 <= p /\ p <= n + 1 /\ k.pending = p..n
      /\ \A i \in p..n : k.tool[i] = "none"
  <2>1. Shaped(k) /\ Calls(k) = 1..n
    BY DEF Base, Calls
  <2>2. n \in Nat /\ k.response \in [1..n -> CallKinds] /\ k.tool \in [1..n -> ToolStates]
    BY <2>1, ShapedProperties
  <2>3. k \in RunStates /\ k.iteration \in 0..cast.maxIterations /\ k.lost \subseteq 1..n
    BY <2>1 DEF Shaped
  <2>4. \A i \in p..n : k.tool[i] = "none"
    BY DEF Untouched
  <2> HIDE DEF n
  <2>5. p \in Nat /\ 1 <= p /\ p <= n + 1
    BY <2>2 DEF n
  <2> QED BY <2>2, <2>3, <2>4, <2>5 DEF n
<1>2. inner = {i \in p..n : k.response[i] = "internal"}
  BY <1>1 DEF Kinds
<1>3. q \in p..(n + 1) /\ (q <= n => k.response[q] = "internal") /\ \A i \in p..(q - 1) : k.response[i] # "internal"
  <2>1. CASE inner = {}
    BY <1>1, <1>2, <2>1
  <2>2. CASE inner # {}
    <3> HIDE DEF inner
    <3>1. q = CHOOSE i \in inner : \A j \in inner : i <= j
      BY <2>2
    <3>2. inner \in SUBSET Nat
      BY <1>1, <1>2
    <3> HIDE DEF q
    <3>3. q \in inner /\ \A j \in inner : q <= j
      BY <2>2, <3>1, <3>2, FirstOf
    <3>4. q \in p..n /\ k.response[q] = "internal"
      BY <1>2, <3>3
    <3>5. ASSUME NEW i \in p..(q - 1) PROVE k.response[i] # "internal"
      <4>1. i \in p..n /\ ~(q <= i)
        BY <1>1, <3>4
      <4> QED BY <1>2, <3>3, <4>1
    <3> QED BY <1>1, <3>4, <3>5
  <2> QED BY <2>1, <2>2
<1> HIDE DEF inner, q
<1>4. /\ batch = {i \in p..n : i < q /\ k.response[i] \in {"read", "write"}}
      /\ bad = {i \in p..n : i < q /\ k.response[i] \in {"invalid", "unprojected"}}
  BY <1>1, <1>3 DEF Kinds
<1> HIDE DEF batch, bad
<1>5. (p..n) \ bad = batch \cup q..n
  BY <1>1, <1>3, <1>4 DEF CallKinds
<1>6. /\ Base(e) /\ e \in RunStates /\ e.iteration = k.iteration /\ e.response = k.response
      /\ e.tool = k.tool /\ e.lost = k.lost /\ e.pending = batch \cup q..n
  <2>1. bad \in SUBSET k.pending /\ \A i \in bad : k.tool[i] # "ok"
    BY <1>1, <1>4
  <2> QED BY <1>1, <1>5, <2>1, ErrorsKeep
<1> HIDE DEF e
<1>7. /\ answered \in RunStates /\ answered.iteration = k.iteration /\ answered.response = k.response
      /\ answered.tool = k.tool /\ answered.lost = k.lost /\ answered.pending = batch \cup q..n
      /\ answered.answers = e.answers /\ answered.pos = q /\ answered.batch = batch
  <2>1. q \in Nat /\ batch \in SUBSET Nat
    BY <1>1, <1>3, <1>4
  <2> QED BY <1>6, <2>1 DEF RunStates
<1> HIDE DEF answered
<1>8. batch \subseteq 1..n /\ q \in 1..(n + 1) /\ (batch \cup q..n) \subseteq 1..n
  BY <1>1, <1>3, <1>4
<1>9. /\ e.answers \in [1..n -> AnswersOfCall] /\ Len(e.answers) = n
      /\ \A i \in 1..n : i \in batch \cup q..n <=> e.answers[i] = <<>>
  BY <1>6, ShapedProperties DEF Base, Shaped, Paired, Calls
<1>10. CASE batch # {}
  <2> DEFINE f == [answered EXCEPT !.phase = "dispatching", !.tool = tools]
  <2>1. HandleCalls(k, p, stop, late, compact) = f
    BY <1>0, <1>10
  <2>2. /\ tools \in [1..n -> ToolStates] /\ \A i \in batch : tools[i] = "queued"
        /\ \A i \in (1..n) \ batch : tools[i] = k.tool[i]
    BY <1>1, <1>8 DEF ToolStates
  <2> HIDE DEF tools
  <2>3. tools \in Seq(ToolStates) /\ Len(tools) = n
    BY <1>1, <2>2, SeqOfFunction
  <2>4. /\ f \in RunStates /\ f.iteration = k.iteration /\ f.response = k.response
        /\ f.tool = tools /\ f.lost = k.lost /\ f.pending = batch \cup q..n
        /\ f.answers = e.answers /\ f.pos = q /\ f.batch = batch /\ f.phase = "dispatching"
    BY <1>7, <2>3 DEF RunStates, Phases
  <2> HIDE DEF f
  <2>5. Shaped(f)
    BY <1>1, <1>8, <1>9, <2>3, <2>4 DEF Shaped, Calls
  <2>6. Paired(f)
    BY <1>9, <2>4 DEF Paired, Calls
  <2>7. Told(f)
    <3> SUFFICES ASSUME NEW i \in 1..n, k.response[i] \in {"read", "write"}
                 PROVE  /\ e.answers[i] = <<"ok">> => tools[i] = "ok"
                        /\ e.answers[i] = <<"error">> /\ tools[i] = "ok" => i \in k.lost
      BY <2>4 DEF Told, Kinds
    <3>1. CASE i \in batch
      <4>1. e.answers[i] = <<>> /\ tools[i] = "queued"
        BY <1>9, <2>2, <3>1
      <4> QED BY <4>1
    <3>2. CASE i \notin batch
      <4>1. tools[i] = k.tool[i]
        BY <2>2, <3>2
      <4>2. /\ e.answers[i] = <<"ok">> => k.tool[i] = "ok"
            /\ e.answers[i] = <<"error">> /\ k.tool[i] = "ok" => i \in k.lost
        BY <1>6 DEF Base, Told, Kinds
      <4> QED BY <4>1, <4>2
    <3> QED BY <3>1, <3>2
  <2>8. Ordered(f)
    BY <2>2, <2>4 DEF Ordered
  <2>9. PhaseInv(f)
    <3>1. \A i \in q..n : tools[i] = "none"
      BY <1>1, <1>3, <1>4, <2>2
    <3>2. \A i \in batch : i < q /\ k.response[i] \in {"read", "write"}
      BY <1>4
    <3> QED BY <1>3, <2>4, <3>1, <3>2 DEF PhaseInv, Untouched, AtInternal
  <2> QED BY <2>1, <2>5, <2>6, <2>7, <2>8, <2>9 DEF RunInv, Base
<1>11. CASE batch = {}
  <2>1. Base(answered)
    <3>1. Shaped(answered)
      BY <1>1, <1>6, <1>7, <1>8, <1>9, <1>11 DEF Base, Shaped, Calls
    <3>2. Paired(answered) /\ Told(answered) /\ Ordered(answered)
      BY <1>6, <1>7, <1>11 DEF Base, Paired, Told, Ordered, Kinds, Calls
    <3> QED BY <3>1, <3>2 DEF Base
  <2>2. CASE q <= n
    <3> DEFINE f == [answered EXCEPT !.phase = "handling"]
    <3>1. HandleCalls(k, p, stop, late, compact) = f
      BY <1>0, <1>11, <2>2
    <3>2. /\ f \in RunStates /\ SameCalls(f, answered) /\ f.phase = "handling"
          /\ f.pos = q /\ f.iteration = k.iteration
      BY <1>7 DEF RunStates, SameCalls, Phases
    <3> HIDE DEF f
    <3>3. Base(f)
      BY <1>1, <1>7, <1>8, <2>1, <3>2, SameKeeps
    <3>4. PhaseInv(f)
      <4>1. \A i \in q..n : k.tool[i] = "none"
        BY <1>1, <1>3
      <4> QED BY <1>3, <1>7, <1>11, <2>2, <3>2, <4>1 DEF PhaseInv, SameCalls, Untouched, AtInternal
    <3> QED BY <3>1, <3>3, <3>4 DEF RunInv
  <2>3. CASE ~(q <= n)
    <3>1. answered.pending = {}
      BY <1>1, <1>3, <1>7, <1>11, <2>3
    <3> QED BY <1>0, <1>11, <2>1, <2>3, <3>1, EndOfCallsKeeps
  <2> QED BY <2>2, <2>3
<1> QED BY <1>10, <1>11

\* After a batch: the next internal call, the end of the run or of the response.
LEMMA AfterBatchKeeps ==
  ASSUME cast \in Casts, NEW k, Base(k), k.pending = k.pos..Len(k.response), Untouched(k, k.pos), AtInternal(k),
         NEW stop \in BOOLEAN, NEW late \in BOOLEAN, NEW compact \in BOOLEAN, NEW all \in BOOLEAN
  PROVE  LET f == AfterBatch(k, stop, late, compact, all) IN
         RunInv(f) /\ f.tool = k.tool /\ f.response = k.response /\ f.phase \in {"handling", "compacting", "building", "done"}
<1>1. /\ Len(k.response) \in Nat /\ k \in RunStates /\ k.pos \in 1..(Len(k.response) + 1)
      /\ k.iteration \in 0..cast.maxIterations
      /\ \A i \in k.pending : k.tool[i] # "ok"
  BY ShapedProperties DEF Base, Shaped, Untouched
<1>2. CASE k.pos <= Len(k.response)
  <2> DEFINE f == [k EXCEPT !.phase = "handling"]
  <2>1. AfterBatch(k, stop, late, compact, all) = f
    BY <1>2 DEF AfterBatch
  <2>2. /\ f \in RunStates /\ SameCalls(f, k) /\ f.phase = "handling" /\ f.pos = k.pos /\ f.iteration = k.iteration
    BY <1>1 DEF RunStates, SameCalls, Phases
  <2> HIDE DEF f
  <2>3. Base(f)
    BY <1>1, <2>2, SameKeeps
  <2>4. RunInv(f)
    BY <1>2, <2>2, <2>3 DEF RunInv, PhaseInv, SameCalls, Untouched, AtInternal
  <2> QED BY <2>1, <2>2, <2>4 DEF SameCalls
<1>3. CASE ~(k.pos <= Len(k.response))
  BY <1>1, <1>3, FlushReturnKeeps, EndOfCallsKeeps DEF AfterBatch, Statuses
<1> QED BY <1>2, <1>3

\* Tools that have not succeeded become cancelled.
Cancelled(k, S) == [k EXCEPT !.tool = [i \in DOMAIN k.tool |-> IF i \in S THEN "cancelled" ELSE k.tool[i]]]

\* Nothing that was told or ordered changes by it.
LEMMA CancelKeeps ==
  ASSUME NEW k, Base(k), NEW S \in SUBSET Calls(k), \A i \in S : k.tool[i] # "ok", NEW f, f = Cancelled(k, S)
  PROVE  /\ Base(f) /\ f \in RunStates
         /\ f.phase = k.phase /\ f.iteration = k.iteration /\ f.pos = k.pos /\ f.response = k.response
         /\ f.pending = k.pending /\ f.answers = k.answers /\ f.batch = k.batch /\ f.lost = k.lost
         /\ \A i \in S : f.tool[i] = "cancelled"
         /\ \A i \in Calls(k) \ S : f.tool[i] = k.tool[i]
<1> DEFINE tools == [i \in DOMAIN k.tool |-> IF i \in S THEN "cancelled" ELSE k.tool[i]]
<1>1. /\ k \in RunStates /\ k.tool \in [Calls(k) -> ToolStates] /\ Len(k.response) \in Nat
      /\ Len(k.tool) = Len(k.response)
  BY ShapedProperties DEF Base, Shaped
<1>2. /\ tools \in [Calls(k) -> ToolStates] /\ \A i \in S : tools[i] = "cancelled"
      /\ \A i \in Calls(k) \ S : tools[i] = k.tool[i]
  BY <1>1 DEF ToolStates
<1>3. f = [k EXCEPT !.tool = tools]
  BY DEF Cancelled
<1> HIDE DEF tools
<1>4. tools \in Seq(ToolStates) /\ Len(tools) = Len(k.response)
  BY <1>1, <1>2, SeqOfFunction DEF Calls
<1>5. /\ f \in RunStates /\ f.tool = tools
      /\ f.phase = k.phase /\ f.iteration = k.iteration /\ f.pos = k.pos /\ f.response = k.response
      /\ f.pending = k.pending /\ f.answers = k.answers /\ f.batch = k.batch /\ f.lost = k.lost
  BY <1>1, <1>3, <1>4 DEF RunStates
<1>6. Shaped(f) /\ Paired(f)
  BY <1>4, <1>5 DEF Base, Shaped, Paired, Calls
<1>7. Told(f)
  <2> SUFFICES ASSUME NEW i \in Calls(k), k.response[i] \in {"read", "write"}
               PROVE  /\ k.answers[i] = <<"ok">> => tools[i] = "ok"
                      /\ k.answers[i] = <<"error">> /\ tools[i] = "ok" => i \in k.lost
    BY <1>5 DEF Told, Kinds, Calls
  <2>1. /\ k.answers[i] = <<"ok">> => k.tool[i] = "ok"
        /\ k.answers[i] = <<"error">> /\ k.tool[i] = "ok" => i \in k.lost
    BY DEF Base, Told, Kinds, Calls
  <2> QED BY <1>2, <2>1
<1>8. Ordered(f)
  <2>1. k.batch \subseteq Calls(k)
    BY DEF Base, Shaped
  <2> QED BY <1>2, <1>5, <2>1 DEF Base, Ordered
<1> QED BY <1>2, <1>5, <1>6, <1>7, <1>8 DEF Base

\* One tool of the batch goes on: the state of the run ...
WithTool(k, i, t) == [k EXCEPT !.tool[i] = t]

\* ... its fields ...
LEMMA ToolFields ==
  ASSUME NEW k, Shaped(k), NEW i \in k.batch, NEW t \in ToolStates, NEW f, f = WithTool(k, i, t)
  PROVE  /\ f \in RunStates /\ Len(f.tool) = Len(k.response)
         /\ f.phase = k.phase /\ f.iteration = k.iteration /\ f.pos = k.pos /\ f.response = k.response
         /\ f.pending = k.pending /\ f.answers = k.answers /\ f.batch = k.batch /\ f.lost = k.lost
         /\ f.tool[i] = t /\ \A j \in Calls(k) : j # i => f.tool[j] = k.tool[j]
<1> DEFINE tools == [k.tool EXCEPT ![i] = t]
<1>1. /\ k \in RunStates /\ k.tool \in [Calls(k) -> ToolStates] /\ Len(k.response) \in Nat
      /\ k.batch \subseteq Calls(k) /\ i \in Calls(k)
  BY ShapedProperties DEF Shaped
<1>2. tools \in [Calls(k) -> ToolStates]
  BY <1>1
<1>3. tools[i] = t /\ \A j \in Calls(k) : j # i => tools[j] = k.tool[j]
  BY <1>1
<1>4. f = [k EXCEPT !.tool = tools]
  BY DEF WithTool
<1> HIDE DEF tools
<1>5. tools \in Seq(ToolStates) /\ Len(tools) = Len(k.response)
  BY <1>1, <1>2, SeqOfFunction DEF Calls
<1>6. /\ f \in RunStates /\ f.tool = tools
      /\ f.phase = k.phase /\ f.iteration = k.iteration /\ f.pos = k.pos /\ f.response = k.response
      /\ f.pending = k.pending /\ f.answers = k.answers /\ f.batch = k.batch /\ f.lost = k.lost
  BY <1>1, <1>4, <1>5 DEF RunStates
<1> QED BY <1>3, <1>5, <1>6

\* ... and its invariant, if the writes before one that starts or succeeds have succeeded.
LEMMA ToolKeeps ==
  ASSUME NEW k, RunInv(k), k.phase = "dispatching", NEW i \in k.batch,
         NEW t \in ToolStates,
         t \in {"running", "ok"} /\ k.response[i] = "write" =>
           \A j \in k.batch : j < i /\ k.response[j] = "write" => k.tool[j] = "ok",
         k.tool[i] # "ok",
         NEW f, f \in RunStates, Len(f.tool) = Len(k.response),
         f.phase = k.phase, f.iteration = k.iteration, f.pos = k.pos, f.response = k.response,
         f.pending = k.pending, f.answers = k.answers, f.batch = k.batch, f.lost = k.lost,
         f.tool[i] = t, \A j \in Calls(k) : j # i => f.tool[j] = k.tool[j]
  PROVE  RunInv(f)
<1>1. k.batch \subseteq Calls(k) /\ i \in Calls(k) /\ Calls(f) = Calls(k)
  BY DEF RunInv, Base, Shaped, Calls
<1>2. Shaped(f) /\ Paired(f)
  BY DEF RunInv, Base, Shaped, Paired, Calls
<1>3. i \in k.pending /\ k.answers[i] = <<>> /\ i < k.pos
  BY <1>1 DEF RunInv, Base, PhaseInv, Paired
<1>4. Told(f)
  <2> SUFFICES ASSUME NEW j \in Calls(k), k.response[j] \in {"read", "write"}
               PROVE  /\ k.answers[j] = <<"ok">> => f.tool[j] = "ok"
                      /\ k.answers[j] = <<"error">> /\ f.tool[j] = "ok" => j \in k.lost
    BY DEF Told, Kinds, Calls
  <2>1. CASE j = i
    <3>1. <<>> # <<"ok">> /\ <<>> # <<"error">>
      OBVIOUS
    <3>2. k.answers[j] = <<>>
      BY <1>3, <2>1
    <3>3. k.answers[j] # <<"ok">> /\ k.answers[j] # <<"error">>
      BY <3>1, <3>2, Zenon
    <3> QED BY <3>3, Zenon
  <2>2. CASE j # i
    <3>1. /\ k.answers[j] = <<"ok">> => k.tool[j] = "ok"
          /\ k.answers[j] = <<"error">> /\ k.tool[j] = "ok" => j \in k.lost
      BY DEF RunInv, Base, Told, Kinds, Calls
    <3> QED BY <2>2, <3>1
  <2> QED BY <2>1, <2>2
<1>5. Ordered(f)
  <2> SUFFICES ASSUME NEW a \in k.batch, NEW b \in k.batch, b < a, k.response[a] = "write", k.response[b] = "write",
                      f.tool[a] \in {"running", "ok"}
               PROVE  f.tool[b] = "ok"
    BY DEF Ordered
  <2>1. a \in Calls(k) /\ b \in Calls(k) /\ a # b
    BY <1>1 DEF Calls
  <2>2. CASE a = i
    BY <2>1, <2>2
  <2>3. CASE a # i
    <3>1. k.tool[b] = "ok"
      BY <2>1, <2>3 DEF RunInv, Base, Ordered
    <3> QED BY <2>1, <3>1
  <2> QED BY <2>2, <2>3
<1>6. PhaseInv(f)
  <2>1. \A j \in k.pos..Len(k.response) : f.tool[j] = "none"
    <3> SUFFICES ASSUME NEW j \in k.pos..Len(k.response) PROVE f.tool[j] = "none"
      OBVIOUS
    <3>1. k.pos \in Nat /\ 1 <= k.pos
      BY DEF RunInv, Base, Shaped
    <3>2. j \in Calls(k) /\ j # i
      BY <1>1, <1>3, <3>1 DEF Calls
    <3>3. k.tool[j] = "none"
      BY DEF RunInv, PhaseInv, Untouched
    <3> QED BY <3>2, <3>3
  <2> QED BY <2>1 DEF RunInv, PhaseInv, Untouched, AtInternal
<1> QED BY <1>2, <1>4, <1>5, <1>6 DEF RunInv, Base
-----------------------------------------------------------------------------
(* Steps of a run *)

\* The step from k to f of a run whose signal is aborted begins no work.
Quiet(k, f) ==
  /\ f.phase \in InLLM => k.phase \in InLLM
  /\ f.phase = "handling" => k.phase \in {"handling", "dispatching"}
  /\ \A i \in 1..Len(f.response) : f.tool[i] = "running" => i <= Len(k.response) /\ k.tool[i] = "running"

\* A state with the same calls and tools begins no tool.
LEMMA SameIsQuiet ==
  ASSUME NEW k, Base(k), NEW f, f.response = k.response, f.tool = k.tool,
         f.phase \notin InLLM, f.phase = "handling" => k.phase \in {"handling", "dispatching"}
  PROVE  Quiet(k, f)
<1>1. Len(k.response) \in Nat
  BY ShapedProperties DEF Base
<1> QED BY <1>1 DEF Quiet

\* A step of run r that keeps its invariant and, if its signal is aborted, begins no work.
RunStep(r, f) == RunInv(f) /\ (r \in aborted => Quiet(run[r], f))

\* The same as a step of run r: it begins no work.
LEMMA FlushReturnStep ==
  ASSUME KernelInv, NEW r \in Runs, run[r].pending = {}, NEW st \in Statuses
  PROVE  RunStep(r, FlushAndReturn(run[r], st))
<1> DEFINE k == run[r]
           f == FlushAndReturn(k, st)
<1>1. Base(k) /\ k.pending = {}
  BY DEF KernelInv, RunInv
<1> HIDE DEF k
<1>2. RunInv(f) /\ f.phase = "done" /\ f.tool = k.tool /\ f.response = k.response
  BY <1>1, FlushReturnKeeps
<1> HIDE DEF f
<1>3. Quiet(k, f)
  BY <1>1, <1>2, SameIsQuiet DEF InLLM
<1> QED BY <1>2, <1>3 DEF RunStep, f, k

\* A return without pending calls begins no work.
LEMMA ReturnStep ==
  ASSUME KernelInv, NEW r \in Runs, run[r].pending = {}, NEW st \in Statuses
  PROVE  RunStep(r, Return(run[r], st))
<1> DEFINE k == run[r]
           f == Return(k, st)
<1>1. Base(k) /\ k.pending = {}
  BY DEF KernelInv, RunInv
<1> HIDE DEF k
<1>2. RunInv(f) /\ f.phase = "done" /\ f.tool = k.tool /\ f.response = k.response
  BY <1>1, ReturnKeeps
<1> HIDE DEF f
<1>3. Quiet(k, f)
  BY <1>1, <1>2, SameIsQuiet DEF InLLM
<1> QED BY <1>2, <1>3 DEF RunStep, f, k

\* The next iteration begins work only if the signal is not aborted.
LEMMA NextIterationStep ==
  ASSUME KernelInv, NEW r \in Runs, run[r].pending = {}, NEW stop \in BOOLEAN, NEW late \in BOOLEAN
  PROVE  RunStep(r, NextIteration(run[r], stop, late))
<1> DEFINE k == run[r]
           f == NextIteration(k, stop, late)
<1>1. Base(k) /\ k.pending = {} /\ cast \in Casts
  BY DEF KernelInv, RunInv
<1> HIDE DEF k
<1>2. RunInv(f) /\ f.phase \in {"building", "done"} /\ f.tool = k.tool /\ f.response = k.response
  BY <1>1, NextIterationKeeps
<1> HIDE DEF f
<1>3. Quiet(k, f)
  BY <1>1, <1>2, SameIsQuiet DEF InLLM
<1> QED BY <1>2, <1>3 DEF RunStep, f, k

\* A run changes its phase between two requests.
LEMMA PhaseStep ==
  ASSUME KernelInv, NEW r \in Runs, run[r].pending = {}, NEW p \in InLLM,
         r \in aborted => run[r].phase \in InLLM
  PROVE  RunStep(r, [run[r] EXCEPT !.phase = p])
<1> DEFINE k == run[r]
           f == [k EXCEPT !.phase = p]
<1>1. Base(k) /\ k.pending = {} /\ k \in RunStates
  BY DEF KernelInv, RunInv, Base, Shaped
<1>2. Len(k.response) \in Nat /\ k.pos \in 1..(Len(k.response) + 1) /\ k.iteration \in 0..cast.maxIterations
  BY <1>1, ShapedProperties DEF Base, Shaped
<1>3. r \in aborted => k.phase \in InLLM
  OBVIOUS
<1> HIDE DEF k
<1>4. f \in RunStates /\ SameCalls(f, k) /\ f.phase = p /\ f.pos = k.pos /\ f.iteration = k.iteration
  <2>1. p \in Phases
    BY DEF InLLM, Phases
  <2> QED BY <1>1, <2>1 DEF RunStates, SameCalls
<1> HIDE DEF f
<1>5. Base(f)
  BY <1>1, <1>2, <1>4, SameKeeps
<1>6. RunInv(f)
  BY <1>1, <1>4, <1>5 DEF RunInv, PhaseInv, InLLM, SameCalls
<1>7. r \in aborted => Quiet(k, f)
  BY <1>2, <1>3, <1>4 DEF Quiet, SameCalls, InLLM
<1> QED BY <1>6, <1>7 DEF RunStep, f, k

\* A step of r, as the actions of the kernel make it.
Stepped(r) == \E f : RunStep(r, f) /\ Becomes(r, f)

\* The call of the kernel.
LEMMA StartSteps ==
  ASSUME KernelInv, NEW r \in Runs, Start(r)
  PROVE  Stepped(r)
<1>1. run[r].pending = {}
  BY DEF Start, KernelInv, RunInv, PhaseInv
<1>2. PICK late \in BOOLEAN, expired \in BOOLEAN :
        Becomes(r, IF expired THEN Return(run[r], "timeout") ELSE NextIteration(run[r], Stop(r), late))
  BY DEF Start
<1>3. RunStep(r, Return(run[r], "timeout"))
  BY <1>1, ReturnStep DEF Statuses
<1>4. RunStep(r, NextIteration(run[r], Stop(r), late))
  <2>1. Stop(r) \in BOOLEAN
    BY DEF Stop
  <2> QED BY <1>1, <2>1, NextIterationStep
<1> QED BY <1>2, <1>3, <1>4 DEF Stepped

\* The input of the next request is built, or not.
LEMMA BuildSteps ==
  ASSUME KernelInv, NEW r \in Runs, BuildLLMRequest(r)
  PROVE  Stepped(r)
<1>1. run[r].pending = {}
  BY DEF BuildLLMRequest, KernelInv, RunInv, PhaseInv
<1>2. RunStep(r, FlushAndReturn(run[r], "cancelled")) /\ RunStep(r, FlushAndReturn(run[r], "failed"))
  BY <1>1, FlushReturnStep DEF Statuses
<1>3. ASSUME NEW p \in {"streaming", "calling"}, ~Stop(r) PROVE RunStep(r, [run[r] EXCEPT !.phase = p])
  BY <1>1, <1>3, PhaseStep DEF Stop, InLLM
<1>4. CASE Becomes(r, FlushAndReturn(run[r], "failed"))
  BY <1>2, <1>4 DEF Stepped
<1>5. CASE Stop(r) /\ Becomes(r, FlushAndReturn(run[r], "cancelled"))
  BY <1>2, <1>5 DEF Stepped
<1>6. CASE ~Stop(r) /\ \E p \in {"streaming", "calling"} : Becomes(r, [run[r] EXCEPT !.phase = p])
  BY <1>3, <1>6 DEF Stepped
<1> QED BY <1>4, <1>5, <1>6 DEF BuildLLMRequest

\* The stream breaks.
LEMMA StreamSteps ==
  ASSUME KernelInv, NEW r \in Runs, StreamFails(r)
  PROVE  Stepped(r)
<1>1. run[r].pending = {}
  BY DEF StreamFails, KernelInv, RunInv, PhaseInv
<1>2. RunStep(r, [run[r] EXCEPT !.phase = "fallback"])
  BY <1>1, PhaseStep DEF StreamFails, Stop, InLLM
<1> QED BY <1>2 DEF Stepped, StreamFails

\* The request fails.
LEMMA FailureSteps ==
  ASSUME KernelInv, NEW r \in Runs, LLMFails(r)
  PROVE  Stepped(r)
<1>1. run[r].pending = {}
  BY DEF LLMFails, KernelInv, RunInv, PhaseInv, InLLM
<1>2. RunStep(r, FlushAndReturn(run[r], IF Stop(r) THEN "cancelled" ELSE "failed"))
  BY <1>1, FlushReturnStep DEF Statuses
<1> QED BY <1>2 DEF Stepped, LLMFails

\* An answer without calls.
LEMMA TextSteps ==
  ASSUME KernelInv, NEW r \in Runs, LLMAnswersText(r)
  PROVE  Stepped(r)
<1> DEFINE k == run[r]
<1>1. k.pending = {}
  BY DEF LLMAnswersText, KernelInv, RunInv, PhaseInv, InLLM
<1>2. RunStep(r, FlushAndReturn(k, "cancelled")) /\ RunStep(r, Return(k, "completed")) /\ RunStep(r, Return(k, "failed"))
  BY <1>1, FlushReturnStep, ReturnStep DEF Statuses
<1>3. ASSUME NEW late \in BOOLEAN PROVE RunStep(r, NextIteration(k, Stop(r), late))
  <2>1. Stop(r) \in BOOLEAN
    BY DEF Stop
  <2> QED BY <1>1, <2>1, NextIterationStep
<1>4. PICK what \in {"text", "reasoning", "empty"}, valid \in BOOLEAN, late \in BOOLEAN :
        Becomes(r, IF what # "text" /\ k.phase = "fallback" THEN Return(k, "completed")
                   ELSE IF Stop(r) THEN FlushAndReturn(k, "cancelled")
                   ELSE IF what = "text" THEN Return(k, IF valid THEN "completed" ELSE "failed")
                   ELSE IF what = "reasoning" THEN Return(k, "completed")
                   ELSE NextIteration(k, Stop(r), late))
  BY DEF LLMAnswersText
<1> HIDE DEF k
<1>5. \/ Becomes(r, FlushAndReturn(k, "cancelled")) \/ Becomes(r, Return(k, "completed"))
      \/ Becomes(r, Return(k, "failed")) \/ Becomes(r, NextIteration(k, Stop(r), late))
  <2>1. CASE what # "text" /\ k.phase = "fallback"
    BY <1>4, <2>1
  <2>2. CASE ~(what # "text" /\ k.phase = "fallback") /\ Stop(r)
    BY <1>4, <2>2
  <2>3. CASE ~Stop(r) /\ what = "text"
    BY <1>4, <2>3
  <2>4. CASE ~(what # "text" /\ k.phase = "fallback") /\ ~Stop(r) /\ what = "reasoning"
    BY <1>4, <2>4
  <2>5. CASE ~(what # "text" /\ k.phase = "fallback") /\ ~Stop(r) /\ what = "empty"
    BY <1>4, <2>5
  <2> QED BY <2>1, <2>2, <2>3, <2>4, <2>5
<1> QED BY <1>2, <1>3, <1>5 DEF Stepped

\* Compaction ends.
LEMMA CompactSteps ==
  ASSUME KernelInv, NEW r \in Runs, CompactEnds(r)
  PROVE  Stepped(r)
<1>1. run[r].pending = {}
  BY DEF CompactEnds, KernelInv, RunInv, PhaseInv
<1>2. \A late \in BOOLEAN : RunStep(r, NextIteration(run[r], Stop(r), late))
  <2>1. Stop(r) \in BOOLEAN
    BY DEF Stop
  <2> QED BY <1>1, <2>1, NextIterationStep
<1> QED BY <1>2 DEF Stepped, CompactEnds

\* The calls of a new response: none has a result, none was touched.
Tracked(k, resp) ==
  [k EXCEPT !.response = resp, !.pos = 1, !.batch = {}, !.lost = {}, !.pending = 1..Len(resp),
            !.answers = [i \in 1..Len(resp) |-> <<>>], !.tool = [i \in 1..Len(resp) |-> "none"]]

\* A response is taken up.
LEMMA TrackedKeeps ==
  ASSUME cast \in Casts, NEW k, Base(k), NEW resp \in cast.responses, NEW n, n = Len(resp), NEW f, f = Tracked(k, resp)
  PROVE  /\ Base(f) /\ f.response = resp /\ f.pending = 1..n /\ n \in Nat /\ f.pos = 1
         /\ \A i \in 1..n : f.tool[i] = "none"
<1>1. k \in RunStates /\ k.iteration \in 0..cast.maxIterations
  BY DEF Base, Shaped
<1>2. resp \in Seq(CallKinds) /\ n \in Nat
  BY KernelAssumption, LenProperties
<1> DEFINE a == [i \in 1..n |-> <<>>]
           tools == [i \in 1..n |-> "none"]
<1>3. a \in [1..n -> AnswersOfCall] /\ tools \in [1..n -> ToolStates]
  BY DEF AnswersOfCall, ToolStates
<1>4. \A i \in 1..n : a[i] = <<>> /\ tools[i] = "none"
  OBVIOUS
<1>5. f = [k EXCEPT !.response = resp, !.pos = 1, !.batch = {}, !.lost = {}, !.pending = 1..n,
                    !.answers = a, !.tool = tools]
  BY DEF Tracked
<1> HIDE DEF a, tools
<1>6. a \in Seq(AnswersOfCall) /\ Len(a) = n /\ tools \in Seq(ToolStates) /\ Len(tools) = n
  BY <1>2, <1>3, SeqOfFunction
<1>7. 1 \in Nat /\ 1..n \in SUBSET Nat /\ {} \in SUBSET Nat
  BY <1>2
<1>8. /\ f \in RunStates /\ f.iteration = k.iteration /\ f.response = resp /\ f.pos = 1 /\ f.batch = {}
      /\ f.lost = {} /\ f.pending = 1..n /\ f.answers = a /\ f.tool = tools
  <2>1. f = [phase |-> k.phase, iteration |-> k.iteration, status |-> k.status, response |-> resp, pos |-> 1,
             pending |-> 1..n, answers |-> a, batch |-> {}, tool |-> tools, lost |-> {}]
    BY <1>1, <1>5 DEF RunStates
  <2>2. k.phase \in Phases /\ k.iteration \in Nat /\ k.status \in Statuses
    BY <1>1 DEF RunStates
  <2>3. f \in RunStates
    BY <1>2, <1>6, <1>7, <2>1, <2>2 DEF RunStates
  <2> QED BY <2>1, <2>3
<1>9. Shaped(f)
  <2>1. 1 \in 1..(n + 1) /\ {} \subseteq 1..n
    BY <1>2
  <2> QED BY <1>1, <1>6, <1>8, <2>1 DEF Shaped, Calls
<1>10. Paired(f)
  BY <1>4, <1>8 DEF Paired, Calls
<1>11. Ordered(f)
  BY <1>8 DEF Ordered
<1>12. Told(f)
  <2>1. <<>> # <<"ok">> /\ <<>> # <<"error">>
    OBVIOUS
  <2>2. \A i \in Kinds(f, {"read", "write"}) : f.answers[i] = <<>>
    BY <1>4, <1>8 DEF Kinds
  <2>3. \A i \in Kinds(f, {"read", "write"}) : f.answers[i] # <<"ok">> /\ f.answers[i] # <<"error">>
    BY <2>1, <2>2, Zenon
  <2> QED BY <2>3, Zenon DEF Told
<1> QED BY <1>2, <1>4, <1>8, <1>9, <1>10, <1>11, <1>12 DEF Base

\* An answer with calls.
LEMMA CallsSteps ==
  ASSUME KernelInv, NEW r \in Runs, LLMAnswersCalls(r)
  PROVE  Stepped(r)
<1> DEFINE k == run[r]
<1>1. k.pending = {} /\ cast \in Casts /\ Base(k)
  BY DEF LLMAnswersCalls, KernelInv, RunInv, PhaseInv, InLLM
<1>2. PICK resp \in cast.responses, truncated \in BOOLEAN, late \in BOOLEAN, compact \in BOOLEAN :
        Becomes(r, IF Stop(r) THEN FlushAndReturn(k, "cancelled")
                   ELSE IF truncated
                   THEN NextIteration(FlushPairingGuard(AcceptErrors(Tracked(k, resp), 1..Len(resp))), Stop(r), late)
                   ELSE HandleCalls(Tracked(k, resp), 1, Stop(r), late, compact))
  BY DEF LLMAnswersCalls, Tracked
<1>3. RunStep(r, FlushAndReturn(k, "cancelled"))
  BY <1>1, FlushReturnStep DEF Statuses
<1>4. Stop(r) \in BOOLEAN /\ (RunStep(r, FlushAndReturn(k, "cancelled")) /\ Stop(r) => Stepped(r))
  BY <1>2 DEF Stop, Stepped
<1> DEFINE n == Len(resp)
           t == Tracked(k, resp)
<1>5. /\ Base(t) /\ t.response = resp /\ t.pending = 1..n /\ n \in Nat /\ t.pos = 1
      /\ \A i \in 1..n : t.tool[i] = "none"
  <2>1. n = Len(resp) /\ t = Tracked(k, resp)
    OBVIOUS
  <2> HIDE DEF k, n, t
  <2> QED BY <1>1, <2>1, TrackedKeeps
<1>6. CASE ~Stop(r) /\ truncated
  <2> DEFINE e == AcceptErrors(t, 1..n)
             g == FlushPairingGuard(e)
  <2>1. Becomes(r, NextIteration(g, Stop(r), late))
    BY <1>2, <1>6
  <2> HIDE DEF t
  <2>2. Base(e) /\ e.pending = {}
    BY <1>5, ErrorsKeep
  <2> HIDE DEF e
  <2>3. Base(g) /\ g.pending = {}
    BY <2>2, FlushKeeps
  <2> HIDE DEF g
  <2>4. RunInv(NextIteration(g, Stop(r), late))
    BY <1>1, <1>4, <2>3, NextIterationKeeps
  <2> QED BY <1>6, <2>1, <2>4 DEF Stepped, RunStep, Stop
<1>7. CASE ~Stop(r) /\ ~truncated
  <2>1. Becomes(r, HandleCalls(t, 1, Stop(r), late, compact))
    BY <1>2, <1>7
  <2> HIDE DEF t
  <2>2. 1 \in 1..(Len(t.response) + 1) /\ t.pending = 1..Len(t.response) /\ Untouched(t, 1)
    BY <1>5 DEF Untouched
  <2>3. RunInv(HandleCalls(t, 1, Stop(r), late, compact))
    BY <1>1, <1>4, <1>5, <2>2, HandleCallsKeeps
  <2> QED BY <1>7, <2>1, <2>3 DEF Stepped, RunStep, Stop
<1> QED BY <1>3, <1>4, <1>6, <1>7

\* The result of an internal handler.
AnswerAt(k, o) == Accept(k, {k.pos}, [i \in {k.pos} |-> o])

\* It is the first one of its call.
LEMMA ToldKeeps ==
  ASSUME NEW k, RunInv(k), k.phase = "handling", NEW o \in Results, NEW f, f = AnswerAt(k, o)
  PROVE  /\ Base(f) /\ f.response = k.response /\ f.tool = k.tool /\ f.pending = (k.pos + 1)..Len(k.response)
         /\ k.pos + 1 \in 1..(Len(k.response) + 1) /\ Untouched(f, k.pos + 1)
<1> DEFINE S == {k.pos}
           outcome == [i \in S |-> o]
<1>1. /\ Base(k) /\ Len(k.response) \in Nat /\ k.pos \in Nat /\ 1 <= k.pos /\ k.pos <= Len(k.response)
      /\ k.pending = k.pos..Len(k.response) /\ Untouched(k, k.pos) /\ k.response[k.pos] = "internal"
      /\ Shaped(k) /\ Paired(k)
  BY ShapedProperties DEF RunInv, PhaseInv, AtInternal, Base, Shaped
<1>2. outcome \in [S -> Results] /\ S \in SUBSET k.pending
  BY <1>1
<1>3. f = Accept(k, S, outcome)
  BY DEF AnswerAt
<1>4. \A i \in S : k.response[i] \notin {"read", "write"}
  BY <1>1
<1> HIDE DEF S, outcome
<1>5. Base(f)
  BY <1>1, <1>2, <1>3, <1>4, AcceptKeeps
<1>6. f.response = k.response /\ f.tool = k.tool /\ f.pending = k.pending \ S
  <2>1. Shaped(k) /\ Paired(k)
    BY <1>1
  <2> QED BY <1>2, <1>3, <2>1, AcceptFields
<1>7. f.pending = (k.pos + 1)..Len(k.response)
  <2> DEFINE m == Len(k.response)
             p == k.pos
  <2>1. p \in Nat /\ m \in Nat /\ p <= m /\ f.pending = (p..m) \ {p}
    BY <1>1, <1>6 DEF S
  <2> HIDE DEF m, p
  <2>2. (p..m) \ {p} = (p + 1)..m
    BY <2>1
  <2> QED BY <2>1, <2>2 DEF m, p
<1>8. Untouched(f, k.pos + 1)
  BY <1>1, <1>6 DEF Untouched
<1> QED BY <1>1, <1>5, <1>6, <1>7, <1>8

\* An internal handler returns.
LEMMA HandlerSteps ==
  ASSUME KernelInv, NEW r \in Runs, HandlerReturns(r)
  PROVE  Stepped(r)
<1> DEFINE k == run[r]
           Reply(outcome) == Accept(k, {k.pos}, [i \in {k.pos} |-> IF outcome = "error" THEN "error" ELSE "ok"])
<1>1. RunInv(k) /\ k.phase = "handling" /\ cast \in Casts /\ Base(k)
  BY DEF HandlerReturns, KernelInv, RunInv
<1>2. PICK outcome \in {"ok", "error", "stop"}, late \in BOOLEAN, compact \in BOOLEAN :
        Becomes(r, IF outcome = "stop" THEN FlushAndReturn(Reply(outcome), "completed")
                   ELSE IF Stop(r) THEN FlushAndReturn(Reply(outcome), "cancelled")
                   ELSE HandleCalls(Reply(outcome), k.pos + 1, Stop(r), late, compact))
  BY DEF HandlerReturns
<1>3. Stop(r) \in BOOLEAN
  BY DEF Stop
<1> DEFINE f == Reply(outcome)
<1>4. /\ Base(f) /\ f.response = k.response /\ f.tool = k.tool /\ f.pending = (k.pos + 1)..Len(k.response)
      /\ k.pos + 1 \in 1..(Len(k.response) + 1) /\ Untouched(f, k.pos + 1)
  <2> DEFINE o == IF outcome = "error" THEN "error" ELSE "ok"
  <2>1. o \in Results /\ f = AnswerAt(k, o)
    BY DEF Results, AnswerAt
  <2> HIDE DEF o, f, k
  <2> QED BY <1>1, <2>1, ToldKeeps
<1>5. \/ Becomes(r, FlushAndReturn(f, "completed")) \/ Becomes(r, FlushAndReturn(f, "cancelled"))
      \/ ~Stop(r) /\ Becomes(r, HandleCalls(f, k.pos + 1, Stop(r), late, compact))
  <2> HIDE DEF f
  <2> QED BY <1>2 DEF f
<1> HIDE DEF f, k
<1>6. ASSUME NEW st \in Statuses PROVE RunInv(FlushAndReturn(f, st)) /\ Quiet(k, FlushAndReturn(f, st))
  <2> DEFINE g == FlushAndReturn(f, st)
  <2>1. \A i \in f.pending : f.tool[i] # "ok"
    BY <1>4 DEF Untouched
  <2>2. RunInv(g) /\ g.phase = "done" /\ g.tool = f.tool /\ g.response = f.response
    BY <1>4, <2>1, FlushReturnKeeps
  <2> HIDE DEF g
  <2>3. Quiet(k, g)
    BY <1>1, <1>4, <2>2, SameIsQuiet DEF InLLM
  <2> QED BY <2>2, <2>3 DEF g
<1>7. RunStep(r, FlushAndReturn(f, "completed")) /\ RunStep(r, FlushAndReturn(f, "cancelled"))
  BY <1>6 DEF RunStep, Statuses, k
<1>8. ~Stop(r) => RunStep(r, HandleCalls(f, k.pos + 1, Stop(r), late, compact))
  <2>1. RunInv(HandleCalls(f, k.pos + 1, Stop(r), late, compact))
    BY <1>1, <1>3, <1>4, HandleCallsKeeps
  <2> QED BY <2>1 DEF RunStep, Stop
<1> QED BY <1>5, <1>7, <1>8 DEF Stepped

\* A tool of the batch goes on, as one step of the run.
LEMMA SetToolSteps ==
  ASSUME KernelInv, NEW r \in Runs, NEW i, Dispatched(r, i), run[r].tool[i] # "ok", NEW t \in ToolStates,
         t \in {"running", "ok"} /\ run[r].response[i] = "write" =>
           \A j \in run[r].batch : j < i /\ run[r].response[j] = "write" => run[r].tool[j] = "ok",
         r \in aborted => t # "running", SetTool(r, i, t)
  PROVE  Stepped(r)
<1> DEFINE k == run[r]
           f == WithTool(k, i, t)
<1>1. /\ RunInv(k) /\ k.phase = "dispatching" /\ i \in k.batch /\ k.tool[i] # "ok"
      /\ t \in {"running", "ok"} /\ k.response[i] = "write" =>
           \A j \in k.batch : j < i /\ k.response[j] = "write" => k.tool[j] = "ok"
  BY DEF KernelInv, Dispatched
<1>2. run' = [run EXCEPT ![r] = f]
  BY DEF SetTool, WithTool
<1> HIDE DEF k
<1>3. Shaped(k) /\ k.batch \subseteq Calls(k)
  BY <1>1 DEF RunInv, Base, Shaped
<1>4. f = WithTool(k, i, t)
  OBVIOUS
<1> HIDE DEF f
<1>5. /\ f \in RunStates /\ Len(f.tool) = Len(k.response)
      /\ f.phase = k.phase /\ f.iteration = k.iteration /\ f.pos = k.pos /\ f.response = k.response
      /\ f.pending = k.pending /\ f.answers = k.answers /\ f.batch = k.batch /\ f.lost = k.lost
      /\ f.tool[i] = t /\ \A j \in Calls(k) : j # i => f.tool[j] = k.tool[j]
  BY <1>1, <1>3, <1>4, ToolFields
<1>6. RunInv(f)
  BY <1>1, <1>5, ToolKeeps
<1>7. r \in aborted => Quiet(k, f)
  <2>1. Len(k.response) \in Nat
    BY <1>3, ShapedProperties
  <2> QED BY <1>1, <1>5, <2>1 DEF Quiet, Calls, InLLM
<1> QED BY <1>2, <1>6, <1>7 DEF Stepped, RunStep, Becomes, k

\* A tool of a batch starts, is refused or ends.
LEMMA ToolSteps ==
  ASSUME KernelInv, NEW r \in Runs, NEW i \in 1..Len(run[r].response),
         ToolStarts(r, i) \/ ToolNotStarted(r, i) \/ ToolEnds(r, i)
  PROVE  Stepped(r)
<1> DEFINE k == run[r]
<1>1. CASE ToolStarts(r, i)
  <2>1. PICK t \in {"running", "refused"} : SetTool(r, i, t)
    BY <1>1 DEF ToolStarts
  <2>2. Dispatched(r, i) /\ k.tool[i] = "queued" /\ r \notin aborted
    BY <1>1 DEF ToolStarts, MayTake, Stop
  <2>3. k.response[i] = "write" => \A j \in k.batch : j < i /\ k.response[j] = "write" => k.tool[j] = "ok"
    BY <1>1 DEF ToolStarts, MayTake, TurnOf, Skips, Earlier
  <2> QED BY <2>1, <2>2, <2>3, SetToolSteps DEF ToolStates
<1>2. CASE ToolNotStarted(r, i)
  <2>1. Dispatched(r, i) /\ k.tool[i] = "queued"
    BY <1>2 DEF ToolNotStarted, MayTake
  <2>2. PICK t \in {"skipped", "cancelled"} : SetTool(r, i, t)
    BY <1>2 DEF ToolNotStarted
  <2> QED BY <2>1, <2>2, SetToolSteps DEF ToolStates
<1>3. CASE ToolEnds(r, i)
  <2>1. PICK t \in {"ok", "failed"} : SetTool(r, i, t)
    BY <1>3 DEF ToolEnds
  <2>2. Dispatched(r, i) /\ k.tool[i] = "running" /\ i \in k.batch
    BY <1>3 DEF ToolEnds, Dispatched
  <2>3. k.response[i] = "write" => \A j \in k.batch : j < i /\ k.response[j] = "write" => k.tool[j] = "ok"
    BY <2>2 DEF KernelInv, RunInv, Base, Ordered
  <2> QED BY <2>1, <2>2, <2>3, SetToolSteps DEF ToolStates
<1> QED BY <1>1, <1>2, <1>3

\* What holds when the batch of a run is under way.
LEMMA InBatch ==
  ASSUME NEW k, RunInv(k), k.phase = "dispatching"
  PROVE  /\ Base(k) /\ Shaped(k) /\ Paired(k) /\ k.batch \in SUBSET k.pending /\ k.batch \subseteq Calls(k)
         /\ k.pending \ k.batch = k.pos..Len(k.response) /\ Len(k.response) \in Nat
         /\ Untouched(k, k.pos) /\ AtInternal(k) /\ \A i \in k.batch : i < k.pos
<1>1. /\ Base(k) /\ Shaped(k) /\ Paired(k) /\ k.batch \subseteq Calls(k) /\ k.pos \in Nat
      /\ k.pending = k.batch \cup k.pos..Len(k.response) /\ \A i \in k.batch : i < k.pos
      /\ Untouched(k, k.pos) /\ AtInternal(k)
  BY DEF RunInv, Base, Shaped, PhaseInv
<1>2. Len(k.response) \in Nat
  BY <1>1, ShapedProperties
<1>3. k.pending \ k.batch = k.pos..Len(k.response)
  BY <1>1, <1>2 DEF Calls
<1> QED BY <1>1, <1>2, <1>3

\* The kernel has the results of a batch: the step that follows.
LEMMA BatchStep ==
  ASSUME KernelInv, NEW r \in Runs, run[r].phase = "dispatching",
         NEW g, Base(g), g.response = run[r].response, g.pos = run[r].pos,
         g.pending = g.pos..Len(g.response), Untouched(g, g.pos), AtInternal(g),
         \A i \in Calls(g) : g.tool[i] = "running" => run[r].tool[i] = "running",
         NEW late \in BOOLEAN, NEW compact \in BOOLEAN, NEW all \in BOOLEAN
  PROVE  RunStep(r, AfterBatch(g, Stop(r), late, compact, all))
<1> DEFINE f == AfterBatch(g, Stop(r), late, compact, all)
<1>1. cast \in Casts /\ Stop(r) \in BOOLEAN
  BY DEF KernelInv, Stop
<1>2. /\ RunInv(f) /\ f.tool = g.tool /\ f.response = g.response
      /\ f.phase \in {"handling", "compacting", "building", "done"}
  BY <1>1, AfterBatchKeeps
<1>3. Len(g.response) \in Nat
  BY ShapedProperties DEF Base
<1> HIDE DEF f
<1>4. Quiet(run[r], f)
  BY <1>2, <1>3 DEF Quiet, Calls, InLLM
<1> QED BY <1>2, <1>4 DEF RunStep, f

\* The batch comes back.
LEMMA BatchSteps ==
  ASSUME KernelInv, NEW r \in Runs, BatchReturns(r)
  PROVE  Stepped(r)
<1> DEFINE k == run[r]
           outcome == [i \in k.batch |-> IF k.tool[i] = "ok" THEN "ok" ELSE "error"]
           g == Accept(k, k.batch, outcome)
<1>1. RunInv(k) /\ k.phase = "dispatching"
  BY DEF BatchReturns, KernelInv
<1>2. PICK all \in BOOLEAN, late \in BOOLEAN, compact \in BOOLEAN :
        Becomes(r, AfterBatch(g, Stop(r), late, compact, all))
  BY DEF BatchReturns
<1>3. /\ outcome \in [k.batch -> Results]
      /\ \A i \in k.batch : outcome[i] = IF k.tool[i] = "ok" THEN "ok" ELSE "error"
  BY DEF Results
<1>4. g = Accept(k, k.batch, outcome)
  OBVIOUS
<1> HIDE DEF outcome, g
<1>5. RunStep(r, AfterBatch(g, Stop(r), late, compact, all))
  <2> HIDE DEF k
  <2>1. /\ Base(k) /\ Shaped(k) /\ Paired(k) /\ k.batch \in SUBSET k.pending /\ k.batch \subseteq Calls(k)
        /\ k.pending \ k.batch = k.pos..Len(k.response) /\ Len(k.response) \in Nat
        /\ Untouched(k, k.pos) /\ AtInternal(k)
    BY <1>1, InBatch
  <2>2. Base(g)
    <3>1. \A i \in k.batch : (outcome[i] = "ok" => k.tool[i] = "ok") /\ (outcome[i] = "error" => k.tool[i] # "ok")
      BY <1>3
    <3> QED BY <1>3, <1>4, <2>1, <3>1, AcceptKeeps
  <2>3. g.pos = k.pos /\ g.response = k.response /\ g.tool = k.tool /\ g.pending = k.pending \ k.batch
    BY <1>3, <1>4, <2>1, AcceptFields
  <2>4. g.pending = g.pos..Len(g.response) /\ Untouched(g, g.pos) /\ AtInternal(g)
    BY <2>1, <2>3 DEF Untouched, AtInternal
  <2>5. \A i \in Calls(g) : g.tool[i] = "running" => k.tool[i] = "running"
    BY <2>3
  <2> QED BY <1>1, <2>2, <2>3, <2>4, <2>5, BatchStep DEF k
<1> QED BY <1>2, <1>5 DEF Stepped

\* The dispatch is refused.
LEMMA DispatchFailureSteps ==
  ASSUME KernelInv, NEW r \in Runs, DispatchFails(r)
  PROVE  Stepped(r)
<1> DEFINE k == run[r]
           g == AcceptErrors(k, k.batch)
<1>1. RunInv(k) /\ k.phase = "dispatching" /\ \A i \in k.batch : k.tool[i] # "ok"
  BY DEF DispatchFails, KernelInv
<1>2. PICK late \in BOOLEAN, compact \in BOOLEAN :
        Becomes(r, AfterBatch(g, Stop(r), late, compact, FALSE))
  BY DEF DispatchFails
<1>3. RunStep(r, AfterBatch(g, Stop(r), late, compact, FALSE))
  <2> HIDE DEF k
  <2>1. /\ Base(k) /\ k.batch \in SUBSET k.pending /\ k.batch \subseteq Calls(k)
        /\ k.pending \ k.batch = k.pos..Len(k.response)
        /\ Untouched(k, k.pos) /\ AtInternal(k)
    BY <1>1, InBatch
  <2>2. Base(g) /\ g.pos = k.pos /\ g.response = k.response /\ g.tool = k.tool /\ g.pending = k.pending \ k.batch
    BY <1>1, <2>1, ErrorsKeep
  <2> HIDE DEF g
  <2>3. g.pending = g.pos..Len(g.response) /\ Untouched(g, g.pos) /\ AtInternal(g)
    BY <2>1, <2>2 DEF Untouched, AtInternal
  <2>4. \A i \in Calls(g) : g.tool[i] = "running" => k.tool[i] = "running"
    BY <2>2
  <2> QED BY <1>1, <2>2, <2>3, <2>4, BatchStep DEF k
<1> QED BY <1>2, <1>3 DEF Stepped

\* The batch's timer: what has not ended is cancelled, and every call of it counts as lost.
GivenUp(k) == [AcceptErrors(Cut(k), k.batch) EXCEPT !.lost = @ \cup k.batch]

\* An error may then stand for a tool that completed, and only then.
LEMMA GivenUpKeeps ==
  ASSUME NEW k, RunInv(k), k.phase = "dispatching", NEW f, f = GivenUp(k)
  PROVE  /\ Base(f) /\ f.response = k.response /\ f.pos = k.pos
         /\ f.pending = k.pos..Len(k.response) /\ Untouched(f, k.pos) /\ AtInternal(f)
         /\ \A i \in Calls(k) : f.tool[i] = "running" => k.tool[i] = "running"
<1>1. /\ Base(k) /\ Shaped(k) /\ Paired(k) /\ k.batch \in SUBSET k.pending /\ k.batch \subseteq Calls(k)
      /\ k.pending \ k.batch = k.pos..Len(k.response) /\ Len(k.response) \in Nat
      /\ Untouched(k, k.pos) /\ AtInternal(k) /\ \A i \in k.batch : i < k.pos
  BY InBatch
<1> DEFINE S == {i \in k.batch : ~Ended(k.tool[i])}
           g == Cancelled(k, S)
           outcome == [i \in k.batch |-> "error"]
           e == Accept(g, k.batch, outcome)
<1>2. Cut(k) = g
  BY DEF Cut, Cancelled
<1>3. f = [e EXCEPT !.lost = e.lost \cup k.batch]
  BY <1>2 DEF GivenUp, AcceptErrors
<1>4. S \in SUBSET Calls(k) /\ \A i \in S : k.tool[i] # "ok"
  BY <1>1 DEF Ended
<1>5. g = Cancelled(k, S) /\ e = Accept(g, k.batch, outcome)
  OBVIOUS
<1>6. outcome \in [k.batch -> Results] /\ \A i \in k.batch : outcome[i] = "error"
  BY DEF Results
<1> HIDE DEF S, g, outcome, e
<1>7. /\ Base(g) /\ g \in RunStates
      /\ g.phase = k.phase /\ g.iteration = k.iteration /\ g.pos = k.pos /\ g.response = k.response
      /\ g.pending = k.pending /\ g.answers = k.answers /\ g.batch = k.batch /\ g.lost = k.lost
      /\ \A i \in S : g.tool[i] = "cancelled"
      /\ \A i \in Calls(k) \ S : g.tool[i] = k.tool[i]
  BY <1>1, <1>4, <1>5, CancelKeeps
<1>8. Shaped(g) /\ Paired(g) /\ k.batch \in SUBSET g.pending /\ Calls(g) = Calls(k)
  BY <1>1, <1>7 DEF Base, Calls
<1>9. /\ e \in RunStates /\ e.iteration = k.iteration /\ e.pos = k.pos
      /\ e.response = k.response /\ e.batch = k.batch /\ e.tool = g.tool /\ e.lost = k.lost
      /\ e.pending = k.pos..Len(k.response) /\ Len(e.answers) = Len(k.response)
  <2>1. /\ e \in RunStates /\ e.iteration = g.iteration /\ e.pos = g.pos
        /\ e.response = g.response /\ e.batch = g.batch /\ e.tool = g.tool /\ e.lost = g.lost
        /\ e.pending = g.pending \ k.batch /\ Len(e.answers) = Len(g.response)
    BY <1>5, <1>6, <1>8, AcceptFields
  <2> QED BY <1>1, <1>7, <2>1
<1>10. /\ \A i \in k.batch : e.answers[i] = Only("error")
       /\ \A i \in Calls(k) \ k.batch : e.answers[i] = k.answers[i]
  <2>1. e = AcceptErrors(g, k.batch)
    BY DEF e, outcome, AcceptErrors
  <2>2. /\ \A i \in k.batch : e.answers[i] = Only("error")
        /\ \A i \in Calls(g) \ k.batch : e.answers[i] = g.answers[i]
    BY <1>8, <2>1, ErrorAnswers
  <2> QED BY <1>7, <1>8, <2>2
<1>11. /\ f \in RunStates /\ f.iteration = k.iteration /\ f.pos = k.pos
       /\ f.response = k.response /\ f.batch = k.batch /\ f.tool = g.tool /\ f.lost = k.lost \cup k.batch
       /\ f.pending = k.pos..Len(k.response) /\ f.answers = e.answers
  <2>1. k.lost \cup k.batch \in SUBSET Nat
    BY <1>1 DEF Shaped, RunStates
  <2> QED BY <1>3, <1>9, <2>1 DEF RunStates
<1>12. Shaped(f)
  BY <1>1, <1>7, <1>8, <1>9, <1>11 DEF Shaped, Calls
<1>13. Paired(f)
  <2> SUFFICES ASSUME NEW i \in Calls(k) PROVE i \in k.pos..Len(k.response) <=> e.answers[i] = <<>>
    BY <1>11 DEF Paired, Calls
  <2>1. CASE i \in k.batch
    <3>1. e.answers[i] # <<>>
      BY <1>10, <2>1 DEF Only
    <3> QED BY <1>1, <2>1, <3>1
  <2>2. CASE i \notin k.batch
    <3>1. i \in k.pending <=> k.answers[i] = <<>>
      BY <1>1 DEF Paired
    <3> QED BY <1>1, <1>10, <2>2, <3>1
  <2> QED BY <2>1, <2>2
<1>14. Told(f)
  <2> SUFFICES ASSUME NEW i \in Calls(k), k.response[i] \in {"read", "write"}
               PROVE  /\ e.answers[i] = <<"ok">> => g.tool[i] = "ok"
                      /\ e.answers[i] = <<"error">> /\ g.tool[i] = "ok" => i \in k.lost \cup k.batch
    BY <1>11 DEF Told, Kinds, Calls
  <2>1. CASE i \in k.batch
    <3>1. e.answers[i] # <<"ok">>
      BY <1>10, <2>1 DEF Only
    <3> QED BY <2>1, <3>1
  <2>2. CASE i \notin k.batch
    <3>1. /\ k.answers[i] = <<"ok">> => g.tool[i] = "ok"
          /\ k.answers[i] = <<"error">> /\ g.tool[i] = "ok" => i \in k.lost
      BY <1>7, <1>8 DEF Base, Told, Kinds, Calls
    <3> QED BY <1>10, <2>2, <3>1
  <2> QED BY <2>1, <2>2
<1>15. Ordered(f)
  BY <1>7, <1>11 DEF Base, Ordered
<1>16. Untouched(f, k.pos) /\ AtInternal(f)
  <2>1. \A i \in k.pos..Len(k.response) : i \in Calls(k) /\ i \notin S /\ k.tool[i] = "none"
    <3>1. k.pos \in Nat /\ 1 <= k.pos
      BY <1>1 DEF Shaped
    <3> QED BY <1>1, <3>1 DEF Calls, Untouched, S
  <2>2. \A i \in k.pos..Len(k.response) : g.tool[i] = "none"
    BY <1>7, <2>1
  <2> QED BY <1>1, <1>11, <2>2 DEF Untouched, AtInternal
<1>17. \A i \in Calls(k) : g.tool[i] = "running" => k.tool[i] = "running"
  BY <1>7
<1> QED BY <1>11, <1>12, <1>13, <1>14, <1>15, <1>16, <1>17 DEF Base

\* The dispatch of a batch times out.
LEMMA TimeoutSteps ==
  ASSUME KernelInv, NEW r \in Runs, DispatchTimesOut(r)
  PROVE  Stepped(r)
<1> DEFINE k == run[r]
           g == GivenUp(k)
<1>1. RunInv(k) /\ k.phase = "dispatching"
  BY DEF DispatchTimesOut, KernelInv
<1>2. PICK late \in BOOLEAN, compact \in BOOLEAN :
        Becomes(r, AfterBatch(g, Stop(r), late, compact, FALSE))
  BY DEF DispatchTimesOut, GivenUp
<1>3. RunStep(r, AfterBatch(g, Stop(r), late, compact, FALSE))
  <2>1. g = GivenUp(k)
    OBVIOUS
  <2> HIDE DEF k, g
  <2>2. /\ Base(g) /\ g.response = k.response /\ g.pos = k.pos
        /\ g.pending = k.pos..Len(k.response) /\ Untouched(g, k.pos) /\ AtInternal(g)
        /\ \A i \in Calls(k) : g.tool[i] = "running" => k.tool[i] = "running"
    BY <1>1, <2>1, GivenUpKeeps
  <2>3. g.pending = g.pos..Len(g.response) /\ Untouched(g, g.pos) /\ Calls(g) = Calls(k)
    BY <2>2 DEF Calls
  <2> QED BY <1>1, <2>2, <2>3, BatchStep DEF k
<1> QED BY <1>2, <1>3 DEF Stepped

\* The abort itself begins nothing.
LEMMA AbortSteps ==
  ASSUME KernelInv, NEW r \in Runs, AbortRun(r)
  PROVE  Stepped(r) /\ aborted' \subseteq Runs /\ r \notin aborted
<1> DEFINE k == run[r]
           S == RunningTools(r)
           f == Cancelled(k, S)
<1>1. RunInv(k)
  BY DEF KernelInv
<1>2. Becomes(r, f)
  BY DEF AbortRun, Cancelled
<1>3. r \notin aborted /\ aborted' \subseteq Runs
  BY DEF AbortRun, KernelInv
<1>4. S \in SUBSET Calls(k) /\ \A i \in S : i \in k.batch /\ k.tool[i] # "ok"
  BY <1>1 DEF RunningTools, RunInv, Base, Shaped
<1>5. f = Cancelled(k, S)
  OBVIOUS
<1> HIDE DEF k, S, f
<1>6. /\ Base(f) /\ f \in RunStates /\ f.phase = k.phase /\ f.pos = k.pos /\ f.response = k.response
      /\ f.pending = k.pending /\ f.batch = k.batch
      /\ \A i \in Calls(k) \ S : f.tool[i] = k.tool[i]
  <2>1. Base(k)
    BY <1>1 DEF RunInv
  <2> QED BY <1>4, <1>5, <2>1, CancelKeeps
<1>7. PhaseInv(f)
  <2>1. k.phase = "dispatching" => Untouched(f, k.pos)
    <3> SUFFICES ASSUME k.phase = "dispatching", NEW i \in k.pos..Len(k.response) PROVE f.tool[i] = "none"
      BY <1>6 DEF Untouched
    <3>1. /\ Len(k.response) \in Nat /\ k.pos \in Nat /\ 1 <= k.pos /\ Untouched(k, k.pos)
          /\ \A j \in k.batch : j < k.pos
      <4>1. Shaped(k) /\ Len(k.response) \in Nat /\ Untouched(k, k.pos) /\ \A j \in k.batch : j < k.pos
        BY <1>1, InBatch
      <4> QED BY <4>1 DEF Shaped
    <3>2. i \in Calls(k) /\ i \notin S
      BY <1>4, <3>1 DEF Calls
    <3> QED BY <1>6, <3>1, <3>2 DEF Untouched
  <2>2. k.phase = "handling" => Untouched(f, k.pos)
    <3> SUFFICES ASSUME k.phase = "handling", NEW i \in k.pos..Len(k.response) PROVE f.tool[i] = "none"
      BY <1>6 DEF Untouched
    <3>1. k.pos \in Nat /\ 1 <= k.pos /\ k.tool[i] = "none" /\ Shaped(k)
      BY <1>1 DEF RunInv, PhaseInv, Base, Shaped, Untouched
    <3>2. Len(k.response) \in Nat
      BY <3>1, ShapedProperties
    <3>3. i \in Calls(k)
      BY <3>1, <3>2 DEF Calls
    <3>4. i \notin S
      BY <3>1 DEF S, RunningTools, k
    <3> QED BY <1>6, <3>1, <3>3, <3>4
  <2> QED BY <1>1, <1>6, <2>1, <2>2 DEF RunInv, PhaseInv, AtInternal
<1>8. RunInv(f)
  BY <1>6, <1>7 DEF RunInv
<1> QED BY <1>2, <1>3, <1>8 DEF Stepped, RunStep

-----------------------------------------------------------------------------
(* The kernel's invariant *)

\* The runs that are aborted begin no work in this step.
AllQuiet == \A q \in aborted : Quiet(run[q], run'[q])

\* A run that does not change is quiet.
LEMMA QuietSelf ==
  ASSUME NEW k, RunInv(k)
  PROVE  Quiet(k, k)
<1>1. Len(k.response) \in Nat
  BY ShapedProperties DEF RunInv, Base
<1> QED BY <1>1 DEF Quiet

\* A step of one run.
LEMMA SteppedKeeps ==
  ASSUME KernelInv, NEW r \in Runs, Stepped(r), cast' = cast, aborted' \subseteq Runs
  PROVE  KernelInv' /\ AllQuiet
<1>1. PICK f : RunStep(r, f) /\ run' = [run EXCEPT ![r] = f]
  BY DEF Stepped, Becomes
<1>2. RunInv(f) /\ f \in RunStates /\ (r \in aborted => Quiet(run[r], f))
  BY <1>1 DEF RunStep, RunInv, Base, Shaped
<1>3. run \in [Runs -> RunStates] /\ aborted \subseteq Runs /\ cast \in Casts /\ \A q \in Runs : RunInv(run[q])
  BY DEF KernelInv
<1>4. run' \in [Runs -> RunStates] /\ run'[r] = f /\ \A q \in Runs : q # r => run'[q] = run[q]
  BY <1>1, <1>2, <1>3
<1>5. ASSUME NEW q \in Runs PROVE RunInv(run[q])'
  <2>1. RunInv(run'[q])
    BY <1>2, <1>3, <1>4
  <2> QED BY <2>1 DEF RunInv, Base, Shaped, Paired, Told, Ordered, PhaseInv, Untouched, AtInternal, Calls, Kinds
<1>6. KernelInv'
  BY <1>3, <1>4, <1>5 DEF KernelInv
<1>7. ASSUME NEW q \in aborted PROVE Quiet(run[q], run'[q])
  <2>1. CASE q = r
    BY <1>2, <1>4, <2>1
  <2>2. CASE q # r
    <3>1. q \in Runs /\ RunInv(run[q]) /\ run'[q] = run[q]
      BY <1>3, <1>4, <2>2
    <3>2. Quiet(run[q], run[q])
      BY <3>1, QuietSelf
    <3> QED BY <3>1, <3>2
  <2> QED BY <2>1, <2>2
<1> QED BY <1>6, <1>7 DEF AllQuiet

\* Nothing of the kernel changes.
LEMMA UnchangedKeeps ==
  ASSUME KernelInv, cast' = cast, run' = run, aborted' = aborted
  PROVE  KernelInv' /\ AllQuiet
<1>1. KernelInv'
  BY DEF KernelInv, RunInv, Base, Shaped, Paired, Told, Ordered, PhaseInv, Untouched, AtInternal, Calls, Kinds
<1>2. \A q \in aborted : q \in Runs /\ RunInv(run[q])
  BY DEF KernelInv
<1>3. \A q \in aborted : Quiet(run[q], run[q])
  BY <1>2, QuietSelf
<1> QED BY <1>1, <1>3 DEF AllQuiet

\* A run before its start, and one that a restart ended.
LEMMA FreshInv ==
  ASSUME cast \in Casts, NEW p \in Phases \ {"dispatching", "handling"}, NEW f, f = [Fresh EXCEPT !.phase = p]
  PROVE  RunInv(f) /\ f \in RunStates /\ f.response = <<>> /\ f.phase = p
<1>1. /\ <<>> \in Seq(CallKinds) /\ <<>> \in Seq(AnswersOfCall) /\ <<>> \in Seq(ToolStates)
  BY EmptySeq
<1>2. Len(<<>>) = 0
  BY EmptySeq
<1>3. f = [phase |-> p, iteration |-> 0, status |-> "none", response |-> <<>>, pos |-> 1,
           pending |-> {}, answers |-> <<>>, batch |-> {}, tool |-> <<>>, lost |-> {}]
  BY DEF Fresh
<1>4. f \in RunStates
  <2> DEFINE e == <<>>
  <2>1. e \in Seq(CallKinds) /\ e \in Seq(AnswersOfCall) /\ e \in Seq(ToolStates)
    BY <1>1
  <2>2. f = [phase |-> p, iteration |-> 0, status |-> "none", response |-> e, pos |-> 1,
             pending |-> {}, answers |-> e, batch |-> {}, tool |-> e, lost |-> {}]
    BY <1>3
  <2>3. p \in Phases /\ 0 \in Nat /\ 1 \in Nat /\ "none" \in Statuses /\ {} \in SUBSET Nat
    BY DEF Statuses
  <2>4. ASSUME NEW x \in Seq(CallKinds), NEW y \in Seq(AnswersOfCall), NEW z \in Seq(ToolStates)
        PROVE  [phase |-> p, iteration |-> 0, status |-> "none", response |-> x, pos |-> 1,
                pending |-> {}, answers |-> y, batch |-> {}, tool |-> z, lost |-> {}] \in RunStates
    BY <2>3 DEF RunStates
  <2> HIDE DEF e
  <2>5. [phase |-> p, iteration |-> 0, status |-> "none", response |-> e, pos |-> 1,
         pending |-> {}, answers |-> e, batch |-> {}, tool |-> e, lost |-> {}] \in RunStates
    BY <2>1, <2>4, Zenon
  <2> QED BY <2>2, <2>5
<1>5. /\ f.phase = p /\ f.iteration = 0 /\ f.response = <<>> /\ f.pos = 1 /\ f.pending = {} /\ f.answers = <<>>
      /\ f.batch = {} /\ f.tool = <<>> /\ f.lost = {}
  BY <1>3
<1>6. 0 \in 0..cast.maxIterations
  BY KernelAssumption
<1> HIDE <1>3
<1>7. Calls(f) = {} /\ Len(f.response) = 0
  BY <1>2, <1>5 DEF Calls
<1>8. Shaped(f)
  BY <1>2, <1>4, <1>5, <1>6, <1>7 DEF Shaped
<1>9. Paired(f) /\ Told(f) /\ Ordered(f)
  BY <1>5, <1>7 DEF Paired, Told, Ordered, Kinds, Calls
<1>10. PhaseInv(f)
  BY <1>5 DEF PhaseInv
<1> QED BY <1>4, <1>5, <1>8, <1>9, <1>10 DEF RunInv, Base

\* The process starts again.
LEMMA RestartKeeps ==
  ASSUME KernelInv, Restart
  PROVE  KernelInv' /\ AllQuiet
<1> DEFINE f == [Fresh EXCEPT !.phase = "done"]
<1>1. RunInv(f) /\ f \in RunStates /\ f.response = <<>> /\ f.phase = "done"
  BY FreshInv DEF KernelInv, Phases
<1>2. /\ run \in [Runs -> RunStates] /\ aborted \subseteq Runs /\ cast \in Casts
      /\ \A q \in Runs : RunInv(run[q])
      /\ cast' = cast /\ aborted' = aborted
  BY DEF KernelInv, Restart
<1>3. run' = [r \in Runs |-> IF Registered(r) THEN f ELSE run[r]]
  BY DEF Restart
<1> HIDE DEF f
<1>4. run' \in [Runs -> RunStates] /\ \A q \in Runs : run'[q] = f \/ run'[q] = run[q]
  BY <1>1, <1>2, <1>3
<1>5. ASSUME NEW q \in Runs PROVE RunInv(run[q])'
  <2>1. RunInv(run'[q])
    BY <1>1, <1>2, <1>4
  <2> QED BY <1>2, <2>1
       DEF RunInv, Base, Shaped, Paired, Told, Ordered, PhaseInv, Untouched, AtInternal, Calls, Kinds
<1>6. KernelInv'
  BY <1>2, <1>4, <1>5 DEF KernelInv
<1>7. ASSUME NEW q \in aborted PROVE Quiet(run[q], run'[q])
  <2>1. q \in Runs /\ RunInv(run[q])
    BY <1>2
  <2>2. Quiet(run[q], run[q])
    BY <2>1, QuietSelf
  <2>3. Quiet(run[q], f)
    <3>1. Len(f.response) = 0
      BY <1>1, EmptySeq
    <3> QED BY <1>1, <3>1 DEF Quiet, InLLM
  <2> QED BY <1>4, <2>1, <2>2, <2>3
<1> QED BY <1>6, <1>7 DEF AllQuiet

\* Every step of the kernel.
LEMMA KernelStepKeeps ==
  ASSUME KernelInv, NEW r \in Runs, KernelStep(r)
  PROVE  KernelInv' /\ AllQuiet /\ cast' = cast /\ aborted' = aborted
<1>1. Stepped(r)
  BY BuildSteps, FailureSteps, HandlerSteps, TimeoutSteps, CompactSteps, StreamSteps, TextSteps, CallsSteps,
     BatchSteps, DispatchFailureSteps, ToolSteps DEF KernelStep, LoopStep, ToolStep
<1>2. cast' = cast /\ aborted' = aborted
  BY DEF KernelStep, LoopStep, ToolStep, BuildLLMRequest, LLMFails, HandlerReturns, DispatchTimesOut, CompactEnds,
         StreamFails, LLMAnswersText, LLMAnswersCalls, BatchReturns, DispatchFails, ToolStarts, ToolNotStarted, ToolEnds
<1> QED BY <1>1, <1>2, SteppedKeeps DEF KernelInv

\* A cancelled row's run is aborted, if it is still there.
LEMMA CancelRunKeeps ==
  ASSUME KernelInv, CancelActiveRun
  PROVE  KernelInv' /\ AllQuiet
<1>1. PICK r \in Runs : IF Registered(r) /\ run[r].phase # "done" THEN AbortRun(r) ELSE UNCHANGED kernelVars
  BY DEF CancelActiveRun, Active
<1>2. CASE AbortRun(r)
  <2>1. Stepped(r) /\ aborted' \subseteq Runs /\ cast' = cast
    BY <1>2, AbortSteps DEF AbortRun
  <2> QED BY <2>1, SteppedKeeps
<1>3. CASE UNCHANGED kernelVars
  BY <1>3, UnchangedKeeps DEF kernelVars
<1> QED BY <1>1, <1>2, <1>3

\* Every step of the composed system.
LEMMA NextKeepsKernel ==
  ASSUME KernelInv, [Next]_vars
  PROVE  KernelInv' /\ AllQuiet
<1>1. CASE \E r \in Runs : TurnBegins(r) \/ TurnThrows(r) \/ TurnReturns(r)
  BY <1>1, UnchangedKeeps DEF TurnBegins, TurnThrows, TurnReturns, kernelVars
<1>2. ASSUME NEW r \in Runs, EnterKernel(r) PROVE KernelInv' /\ AllQuiet
  <2>1. Start(r) /\ cast' = cast /\ aborted' = aborted
    BY <1>2 DEF EnterKernel, Start
  <2>2. Stepped(r)
    BY <2>1, StartSteps
  <2> QED BY <2>1, <2>2, SteppedKeeps DEF KernelInv
<1>3. ASSUME NEW r \in Runs, KernelStep(r) PROVE KernelInv' /\ AllQuiet
  BY <1>3, KernelStepKeeps
<1>4. CASE \E e \in strays : StrayEnds(e)
  BY <1>4, UnchangedKeeps DEF StrayEnds
<1>5. CASE UNCHANGED vars
  BY <1>5, UnchangedKeeps DEF vars, kernelVars
<1> QED BY <1>1, <1>2, <1>3, <1>4, <1>5, CancelRunKeeps, RestartKeeps DEF Next

\* The kernel's invariant holds.
LEMMA KernelInvariance == Spec => []KernelInv
<1>1. Init => KernelInv
  <2> SUFFICES ASSUME Init PROVE KernelInv
    OBVIOUS
  <2>1. cast \in Casts /\ aborted = {} /\ run = [r \in Runs |-> Fresh]
    BY DEF Init, KernelInit
  <2>2. Fresh = [Fresh EXCEPT !.phase = "idle"]
    BY DEF Fresh
  <2>3. RunInv(Fresh) /\ Fresh \in RunStates
    BY <2>1, <2>2, FreshInv DEF Phases
  <2> QED BY <2>1, <2>3 DEF KernelInv
<1>2. KernelInv /\ [Next]_vars => KernelInv'
  BY NextKeepsKernel
<1> QED BY <1>1, <1>2, PTL DEF Spec

-----------------------------------------------------------------------------
(* Theorems about the kernel *)

\* The results of a call, by their number.
LEMMA AnswerLengths ==
  ASSUME NEW a \in AnswersOfCall
  PROVE  Len(a) <= 1 /\ (a # <<>> => Len(a) = 1)
<1>1. CASE a = <<>>
  <2>1. Len(a) = 0
    BY <1>1, EmptySeq
  <2> QED BY <1>1, <2>1
<1>2. CASE a = <<"ok">>
  BY <1>2
<1>3. CASE a = <<"error">>
  BY <1>3
<1> QED BY <1>1, <1>2, <1>3 DEF AnswersOfCall

\* Whatever the model answers, the tools do, and the timers, aborts and restarts cut
\* off, every tool call the kernel has taken up has at most one result, and exactly one
\* whenever the model is asked again or the run returns (ToolResultPairingGuard).
THEOREM CallsAreAnswered == Spec => []EveryCallAnsweredOnce
<1>1. KernelInv => EveryCallAnsweredOnce
  <2> SUFFICES ASSUME KernelInv PROVE EveryCallAnsweredOnce
    OBVIOUS
  <2>1. ASSUME NEW r \in Runs
        PROVE  /\ Base(run[r]) /\ Shaped(run[r]) /\ Paired(run[r]) /\ PhaseInv(run[r])
    BY DEF KernelInv, RunInv, Base
  <2>2. TypeOK
    <3>1. cast \in Casts /\ aborted \subseteq Runs
      BY DEF KernelInv
    <3>2. ASSUME NEW r \in Runs
          PROVE  LET k == run[r] IN
                 /\ k.phase \in Phases /\ k.status \in Statuses
                 /\ k.iteration \in 0..cast.maxIterations
                 /\ k.pos \in 1..(Len(k.response) + 1)
                 /\ k.pending \cup k.batch \cup k.lost \subseteq 1..Len(k.response)
                 /\ Len(k.answers) = Len(k.response)
                 /\ Len(k.tool) = Len(k.response)
      BY <2>1 DEF Shaped, RunStates, Calls
    <3>3. ASSUME NEW r \in Runs PROVE \A i \in 1..Len(run[r].tool) : run[r].tool[i] \in ToolStates
      <4>1. run[r].tool \in [Calls(run[r]) -> ToolStates]
        BY <2>1, ShapedProperties
      <4>2. Calls(run[r]) = 1..Len(run[r].tool)
        BY <2>1 DEF Shaped, Calls
      <4> QED BY <4>1, <4>2
    <3> QED BY <3>1, <3>2, <3>3 DEF TypeOK
  <2>3. ASSUME NEW r \in Runs, NEW i \in 1..Len(run[r].response)
        PROVE  LET n == Len(run[r].answers[i]) IN
               n <= 1 /\ (run[r].phase \in InLLM \cup {"building", "compacting", "done"} => n = 1)
    <3>1. run[r].answers[i] \in AnswersOfCall
      BY <2>1, ShapedProperties DEF Calls
    <3>2. ASSUME run[r].phase \in InLLM \cup {"building", "compacting", "done"} PROVE run[r].answers[i] # <<>>
      <4>1. run[r].pending = {}
        BY <2>1, <3>2 DEF PhaseInv, InLLM
      <4> QED BY <2>1, <4>1 DEF Paired, Calls
    <3> QED BY <3>1, <3>2, AnswerLengths
  <2> QED BY <2>2, <2>3 DEF EveryCallAnsweredOnce
<1> QED BY <1>1, KernelInvariance, PTL

\* The writes of a batch take effect in order, and the model is told what its tools
\* did: a success only for a row that is COMPLETED, an error for a completed tool only
\* after a timeout of the dispatch (executeSerialGroup, dispatchExternalBatch).
THEOREM BatchesAreTold == Spec => []BatchEffectsAreTold
<1>1. KernelInv => BatchEffectsAreTold
  <2> SUFFICES ASSUME KernelInv PROVE BatchEffectsAreTold
    OBVIOUS
  <2>1. \A r \in Runs : Told(run[r]) /\ Ordered(run[r])
    BY DEF KernelInv, RunInv, Base
  <2>2. WritesApplyInOrder
    BY <2>1 DEF WritesApplyInOrder, Ordered, Earlier
  <2>3. AnswersTellTheTools
    BY <2>1 DEF AnswersTellTheTools, Told
  <2> QED BY <2>2, <2>3 DEF BatchEffectsAreTold
<1> QED BY <1>1, KernelInvariance, PTL

\* An aborted run sends no request and starts no tool, and begins an internal handler
\* only behind a batch that was dispatched before the abort (signal checks 1 to 4).
THEOREM AbortStopsWork == Spec => NoNewWorkAfterAbort
<1>1. KernelInv /\ [Next]_vars =>
        [\A r \in aborted :
           LET k == run[r] kk == run'[r] IN
           /\ kk.phase \in InLLM => k.phase \in InLLM
           /\ kk.phase = "handling" => k.phase \in {"handling", "dispatching"}
           /\ \A i \in 1..Len(kk.response) :
                kk.tool[i] = "running" => i <= Len(k.response) /\ k.tool[i] = "running"]_kernelVars
  BY NextKeepsKernel DEF AllQuiet, Quiet
<1> QED BY <1>1, KernelInvariance, PTL DEF Spec, NoNewWorkAfterAbort

-----------------------------------------------------------------------------
(* The rows of kernel_runs *)

\* A step of the kernel is one of a run that has not returned, and changes no other run.
LEMMA KernelStepIsLocal ==
  ASSUME KernelInv, NEW r \in Runs, KernelStep(r)
  PROVE  run[r].phase # "done" /\ aborted' = aborted /\ \A q \in Runs : q # r => run'[q] = run[q]
<1>1. run[r].phase # "done"
  BY DEF KernelStep, LoopStep, ToolStep, BuildLLMRequest, LLMFails, HandlerReturns, DispatchTimesOut, CompactEnds,
         StreamFails, LLMAnswersText, LLMAnswersCalls, BatchReturns, DispatchFails, ToolStarts, ToolNotStarted, ToolEnds,
         MayTake, Dispatched, InLLM
<1>2. Stepped(r)
  BY BuildSteps, FailureSteps, HandlerSteps, TimeoutSteps, CompactSteps, StreamSteps, TextSteps, CallsSteps,
     BatchSteps, DispatchFailureSteps, ToolSteps DEF KernelStep, LoopStep, ToolStep
<1>3. \A q \in Runs : q # r => run'[q] = run[q]
  BY <1>2 DEF Stepped, Becomes, KernelInv
<1> QED BY <1>1, <1>3, KernelStepKeeps

\* Every step keeps the rows.
LEMMA NextKeepsRows ==
  ASSUME KernelInv, RowInv, [Next]_vars
  PROVE  RowInv'
<1> USE DEF RowInv, RowTellsTheTurn, Registered, Places, Terminal
<1>0. run \in [Runs -> RunStates]
  BY DEF KernelInv
<1>1. ASSUME NEW r \in Runs, TurnBegins(r) PROVE RowInv'
  BY <1>1 DEF TurnBegins, kernelVars
<1>2. ASSUME NEW r \in Runs, TurnThrows(r) PROVE RowInv'
  BY <1>2 DEF TurnThrows, kernelVars
<1>3. ASSUME NEW r \in Runs, EnterKernel(r) PROVE RowInv'
  <2>1. /\ turn[r] = "begun" /\ run[r].phase = "idle" /\ turn' = [turn EXCEPT ![r] = "kernel"]
        /\ row' = row /\ aborted' = aborted
    BY <1>3 DEF EnterKernel, Start
  <2>2. \A q \in Runs : q # r => run'[q] = run[q]
    BY <1>3 DEF EnterKernel, Start, Becomes, KernelInv
  <2> QED BY <2>1, <2>2
<1>4. ASSUME NEW r \in Runs, TurnReturns(r) PROVE RowInv'
  <2>1. /\ turn[r] = "kernel" /\ turn' = [turn EXCEPT ![r] = "over"] /\ run' = run /\ aborted' = aborted
        /\ row' = [row EXCEPT ![r] = IF row[r] \in Terminal THEN row[r] ELSE RowOfResult(r)]
    BY <1>4 DEF TurnReturns, kernelVars
  <2>2. row[r] \in {"cancelled", "initializing"}
    BY <2>1
  <2>3. CASE row[r] = "cancelled"
    BY <2>1, <2>3
  <2>4. CASE row[r] = "initializing"
    <3>1. row' = [row EXCEPT ![r] = IF run[r].status = "completed" THEN "completed" ELSE "failed"]
      BY <2>1, <2>4 DEF RowOfResult
    <3> QED BY <2>1, <2>4, <3>1
  <2> QED BY <2>2, <2>3, <2>4
<1>5. ASSUME NEW r \in Runs, InKernel(r), KernelStep(r) PROVE RowInv'
  <2>1. turn[r] = "kernel" /\ turn' = turn /\ row' = row
    BY <1>5 DEF InKernel, turnVars
  <2>2. run[r].phase # "done" /\ aborted' = aborted /\ \A q \in Runs : q # r => run'[q] = run[q]
    BY <1>5, KernelStepIsLocal
  <2> QED BY <2>1, <2>2
<1>6. ASSUME NEW e \in strays, StrayEnds(e), UNCHANGED turnVars PROVE RowInv'
  BY <1>6 DEF StrayEnds, turnVars
<1>7. CASE CancelActiveRun
  <2>1. PICK r \in Active :
          /\ row' = [row EXCEPT ![r] = "cancelled"] /\ turn' = turn
          /\ IF Registered(r) /\ run[r].phase # "done" THEN AbortRun(r) ELSE UNCHANGED kernelVars
    BY <1>7 DEF CancelActiveRun
  <2>2. r \in Runs /\ row[r] = "initializing"
    BY <2>1 DEF Active
  <2>3. CASE Registered(r) /\ run[r].phase # "done"
    <3>1. AbortRun(r)
      BY <2>1, <2>3
    <3>2. aborted' = aborted \cup {r} /\ \A q \in Runs : q # r => run'[q] = run[q]
      BY <1>0, <3>1 DEF AbortRun, Becomes
    <3> QED BY <2>1, <2>2, <3>2
  <2>4. CASE ~(Registered(r) /\ run[r].phase # "done")
    <3>1. run' = run /\ aborted' = aborted
      BY <2>1, <2>4 DEF kernelVars
    <3> QED BY <2>1, <2>2, <2>4, <3>1
  <2> QED BY <2>3, <2>4
<1>8. CASE Restart
  <2>1. PICK old \in SUBSET Active : row' = Swept(old)
    BY <1>8 DEF Restart
  <2>2. /\ turn' = [r \in Runs |-> IF Registered(r) THEN "lost" ELSE turn[r]] /\ aborted' = aborted
        /\ \A r \in Runs : ~Registered(r) => run'[r] = run[r]
    BY <1>8 DEF Restart
  <2>3. \A r \in Runs : row'[r] = IF r \in old THEN "failed" ELSE row[r]
    BY <2>1 DEF Swept
  <2>4. row' \in [Runs -> Terminal \cup {"none", "initializing"}]
    BY <2>1 DEF Swept
  <2>5. \A r \in old : row[r] = "initializing" /\ r \in Runs
    BY <2>1 DEF Active
  <2>6. turn' \in [Runs -> Places]
    BY <2>2
  <2>7. \A r \in aborted : row'[r] = "cancelled"
    <3>1. \A r \in aborted : r \in Runs /\ row[r] = "cancelled" /\ r \notin old
      BY <2>5 DEF KernelInv
    <3> QED BY <2>3, <3>1
  <2>8. ASSUME NEW r \in Runs
        PROVE  /\ turn'[r] \in Places
               /\ row'[r] = "none" <=> turn'[r] = "none"
               /\ row'[r] = "completed" => turn'[r] = "over" /\ run'[r].status = "completed" /\ r \notin aborted
               /\ row'[r] = "failed" => /\ r \notin aborted /\ turn'[r] \notin {"begun", "kernel"}
                                        /\ turn'[r] = "over" => run'[r].status # "completed"
               /\ turn'[r] \notin {"begun", "kernel"}
               /\ row'[r] = "initializing" => turn'[r] \in {"begun", "kernel", "threw", "lost"} /\ r \notin aborted
    <3>1. turn'[r] = IF Registered(r) THEN "lost" ELSE turn[r]
      BY <2>2
    <3>2. CASE r \in old
      <4>1. row[r] = "initializing" /\ row'[r] = "failed"
        BY <2>3, <2>5, <3>2
      <4> QED BY <3>1, <4>1
    <3>3. CASE r \notin old
      <4>1. row'[r] = row[r]
        BY <2>3, <3>3
      <4>2. CASE Registered(r)
        BY <3>1, <4>1, <4>2
      <4>3. CASE ~Registered(r)
        BY <2>2, <3>1, <4>1, <4>3
      <4> QED BY <4>2, <4>3
    <3> QED BY <3>2, <3>3
  <2> QED BY <2>2, <2>4, <2>6, <2>7, <2>8
<1>9. CASE UNCHANGED vars
  BY <1>9 DEF vars, kernelVars, turnVars
<1> QED BY <1>1, <1>2, <1>3, <1>4, <1>5, <1>6, <1>7, <1>8, <1>9 DEF Next

\* A row of kernel_runs tells what became of its turn, whichever of the turn, the
\* cancel route and the sweep at startup wrote it, for any number of overlapping turns
\* and restarts (processor-orchestration.ts, "Idempotent terminal write").
THEOREM RowsAreTrue == Spec => []RowTellsTheTurn
<1>1. Init => RowInv
  BY DEF Init, KernelInit, RowInv, RowTellsTheTurn, Registered, Places, Terminal
<1>2. KernelInv /\ RowInv /\ [Next]_vars => RowInv'
  BY NextKeepsRows
<1>3. RowInv => RowTellsTheTurn
  BY DEF RowInv
<1> QED BY <1>1, <1>2, <1>3, KernelInvariance, PTL DEF Spec

-----------------------------------------------------------------------------
(* The LLM adapter *)

\* The invariant of a breaker at time t: its counters stay below the thresholds
\* at which they are acted upon.
Sound(b, t) ==
  /\ b \in Breakers /\ b.lastFailure <= t
  /\ b.state = "CLOSED" => b.failures < FailureThreshold
  /\ b.state = "HALF_OPEN" => b.successes < SuccessThreshold

\* Where a call of the adapter is, and what its flags say there.
CallFlow(q) ==
  /\ q.pc = "idle" => q = NoCall
  /\ q.pc \in {"open", "sleep"} => q.i <= Len(Providers)
  /\ q.mode = "stream" => q.asked = "stream"
  /\ q.yielded = q.yieldedAny
  /\ q.yieldedAny => q.mode = "stream" /\ q.pc \in {"open", "done"}
  /\ (q.pc = "done") = (q.result # "none")
  /\ q.result = "failed" => q.i > Len(Providers)

\* What the provider at position j may have been sent: all it is allowed in a
\* loop that is over or has passed it, what the retries count when it is its turn.
SpentBefore(q) == IF q.asked # q.mode THEN MaxRetries + 1 ELSE 0
SpentNow(q, j) ==
  IF j < q.i THEN MaxRetries + 1 ELSE IF j > q.i THEN 0
  ELSE IF q.pc \in {"open", "done"} THEN q.retry + 1 ELSE q.retry
Spent(q, j) == SpentBefore(q) + SpentNow(q, j)

Sends(q) == \A j \in 1..Len(Providers) : q.sent[Providers[j]] <= Spent(q, j)

\* What was delivered came from the loop that is over, from a provider that the
\* loop has passed or from the one whose turn it is, and then no attempt follows.
Behind(q, p) ==
  \E j \in 1..Len(Providers) :
    Providers[j] = p /\ (j < q.i \/ (j = q.i /\ (q.yieldedAny \/ q.pc = "done")))

Contents(q) ==
  /\ \A a, b \in 1..Len(q.delivered) : q.delivered[a] = q.delivered[b] => a = b
  /\ \A a \in 1..Len(q.delivered) :
       IF q.delivered[a][1] = q.mode THEN Behind(q, q.delivered[a][2]) ELSE q.mode = "complete"

\* Whoever the loop has passed was called.
Tries(q) ==
  /\ \A j \in 1..Len(Providers) :
       j < q.i /\ Providers[j] \in q.able => <<q.mode, Providers[j]>> \in q.tried
  /\ q.pc = "open" => <<q.mode, Target(q)>> \in q.tried

CallInv(q) == q \in CallStates /\ CallFlow(q) /\ Sends(q) /\ Contents(q) /\ Tries(q)

AdapterInv ==
  /\ setting \in Settings /\ now \in 0..setting.maxTime
  /\ breaker \in [Owners -> [ProviderSet -> Breakers]]
  /\ \A o \in Owners, p \in ProviderSet : Sound(breaker[o][p], now)
  /\ request \in [Requests -> CallStates]
  /\ \A r \in Requests : CallInv(request[r])

-----------------------------------------------------------------------------
\* The constants: there are finitely many positions, and a provider has one.
LEMMA Positions ==
  /\ Len(Providers) \in Nat /\ MaxRetries \in Nat
  /\ \A j \in 1..Len(Providers) : Providers[j] \in ProviderSet
  /\ \A p \in ProviderSet : \E j \in 1..Len(Providers) : Providers[j] = p
  /\ \A i, j \in 1..Len(Providers) : Providers[i] = Providers[j] => i = j
<1> QED BY FailoverAssumption DEF ProviderSet

\* From finds the next provider of the loop and skips none.
LEMMA FromSkipsNone ==
  ASSUME NEW able, NEW j \in 1..(Len(Providers) + 1)
  PROVE  /\ From(able, j) \in j..(Len(Providers) + 1)
         /\ \A k \in j..Len(Providers) : k < From(able, j) => Providers[k] \notin able
<1> DEFINE left == {k \in j..Len(Providers) : Providers[k] \in able}
           q == CHOOSE k \in left : \A l \in left : k <= l
<1>0. From(able, j) = IF left = {} THEN Len(Providers) + 1 ELSE q
  BY DEF From
<1>1. Len(Providers) \in Nat /\ left \in SUBSET Nat
  BY Positions
<1>2. CASE left = {}
  BY <1>0, <1>1, <1>2
<1>3. CASE left # {}
  <2>1. q \in left /\ \A l \in left : q <= l
    <3> HIDE DEF left
    <3> QED BY <1>1, <1>3, FirstOf
  <2>2. q \in j..Len(Providers) /\ From(able, j) = q
    BY <2>1, <1>0, <1>3
  <2>3. ASSUME NEW k \in j..Len(Providers), k < q PROVE Providers[k] \notin able
    <3>1. k \notin left
      <4> HIDE DEF left
      <4> QED BY <2>1, <2>2, <2>3, <1>1
    <3> QED BY <3>1
  <2> HIDE DEF q, left
  <2> QED BY <1>1, <2>2, <2>3
<1> QED BY <1>2, <1>3

\* What a transition leaves of a breaker.
LEMMA TransitionFields ==
  ASSUME NEW b \in Breakers, NEW s \in BreakerStates, NEW f, f = TransitionTo(b, s)
  PROVE  /\ f \in Breakers /\ f.state = s /\ f.successes = 0 /\ f.lastFailure = b.lastFailure
         /\ s # "OPEN" => f.failures = 0
<1> DEFINE n == IF s = "OPEN" THEN b.failures ELSE 0
<1>1. n \in 0..FailureThreshold /\ 0 \in 0..SuccessThreshold
  BY BreakerAssumption DEF Breakers
<1>2. f = [b EXCEPT !.state = s, !.successes = 0, !.failures = n]
  BY DEF TransitionTo, Breakers
<1>3. s # "OPEN" => n = 0
  OBVIOUS
<1> HIDE DEF n
<1> QED BY <1>1, <1>2, <1>3 DEF Breakers

\* A breaker stays sound when it is asked, told of an answer or left alone.
LEMMA BreakerKeeps ==
  ASSUME NEW t \in Nat, NEW b, Sound(b, t)
  PROVE  /\ Sound(AfterCanExecute(b, t), t) /\ Sound(RecordSuccess(b), t) /\ Sound(RecordFailure(b, t), t)
         /\ Sound(b, t + 1)
<1>0. /\ FailureThreshold \in Nat /\ 0 < FailureThreshold
      /\ SuccessThreshold \in Nat /\ 0 < SuccessThreshold
  BY BreakerAssumption
<1>1. /\ b \in Breakers /\ b.lastFailure <= t /\ b.lastFailure \in Nat /\ b.state \in BreakerStates
      /\ b.failures \in 0..FailureThreshold /\ b.successes \in 0..SuccessThreshold
  BY DEF Sound, Breakers
<1>2. ASSUME NEW c \in Breakers, c.lastFailure <= t, NEW s \in BreakerStates
      PROVE  Sound(TransitionTo(c, s), t)
  <2> DEFINE f == TransitionTo(c, s)
  <2>1. /\ f \in Breakers /\ f.state = s /\ f.successes = 0 /\ f.lastFailure = c.lastFailure
        /\ s # "OPEN" => f.failures = 0
    BY <1>2, TransitionFields
  <2> HIDE DEF f
  <2>2. Sound(f, t)
    BY <1>0, <1>2, <2>1 DEF Sound
  <2> QED BY <2>2 DEF f
<1>3. Sound(AfterCanExecute(b, t), t)
  BY <1>1, <1>2 DEF AfterCanExecute, BreakerStates
<1>4. Sound(RecordSuccess(b), t)
  <2>1. Sound(TransitionTo(b, "CLOSED"), t)
    BY <1>1, <1>2 DEF BreakerStates
  <2>2. ASSUME b.state = "HALF_OPEN", ~(b.successes + 1 >= SuccessThreshold)
        PROVE  Sound([b EXCEPT !.successes = @ + 1], t)
    BY <1>0, <1>1, <2>2 DEF Sound, Breakers
  <2> QED BY <2>1, <2>2 DEF RecordSuccess
<1>5. Sound(RecordFailure(b, t), t)
  <2> DEFINE late == [b EXCEPT !.lastFailure = t]
             counted == [late EXCEPT !.failures = @ + 1]
  <2>1. /\ late \in Breakers /\ late.lastFailure = t /\ late.state = b.state
        /\ late.failures = b.failures /\ late.successes = b.successes
    BY <1>1 DEF Breakers
  <2>2. Sound(late, t)
    <3> HIDE DEF late
    <3> QED BY <2>1 DEF Sound
  <2>3. Sound(TransitionTo(late, "OPEN"), t)
    <3> HIDE DEF late
    <3> QED BY <1>2, <2>1 DEF BreakerStates
  <2>4. ASSUME b.state = "CLOSED"
        PROVE  /\ counted \in Breakers /\ counted.lastFailure = t /\ counted.state = "CLOSED"
               /\ counted.failures = b.failures + 1
    <3>1. b.failures + 1 \in 0..FailureThreshold
      BY <1>0, <1>1, <2>4 DEF Sound
    <3> HIDE DEF late
    <3> QED BY <2>1, <2>4, <3>1 DEF Breakers
  <2>5. ASSUME b.state = "CLOSED" PROVE Sound(TransitionTo(counted, "OPEN"), t)
    <3> HIDE DEF counted
    <3> QED BY <1>2, <2>4, <2>5 DEF BreakerStates
  <2>6. ASSUME b.state = "CLOSED", ~(counted.failures >= FailureThreshold) PROVE Sound(counted, t)
    <3> HIDE DEF counted
    <3>1. counted.failures \in Nat
      BY <2>4, <2>6 DEF Breakers
    <3> QED BY <1>0, <2>4, <2>6, <3>1 DEF Sound
  <2>7. RecordFailure(b, t) = IF b.state = "OPEN" THEN late
                              ELSE IF b.state = "HALF_OPEN" THEN TransitionTo(late, "OPEN")
                              ELSE IF counted.failures >= FailureThreshold THEN TransitionTo(counted, "OPEN")
                              ELSE counted
    BY DEF RecordFailure
  <2> HIDE DEF late, counted
  <2> QED BY <1>1, <2>2, <2>3, <2>5, <2>6, <2>7 DEF BreakerStates
<1>6. Sound(b, t + 1)
  BY <1>1 DEF Sound
<1> QED BY <1>3, <1>4, <1>5, <1>6

-----------------------------------------------------------------------------
\* The fields of a call.
LEMMA CallTypes ==
  ASSUME NEW q \in CallStates
  PROVE  /\ q.pc \in {"idle", "call", "open", "sleep", "done"} /\ q.asked \in Loops /\ q.mode \in Loops
         /\ q.able \subseteq ProviderSet /\ q.i \in 1..(Len(Providers) + 1) /\ q.i \in Nat
         /\ q.retry \in 0..MaxRetries /\ q.retry \in Nat
         /\ q.yieldedAny \in BOOLEAN /\ q.yielded \in BOOLEAN /\ q.result \in {"none", "ok", "failed"}
         /\ q.sent \in [ProviderSet -> Nat] /\ q.tried \subseteq Passes /\ q.delivered \in Seq(Passes)
<1> QED BY Positions DEF CallStates

\* The two parts of what a provider may have been sent.
LEMMA SpentTypes ==
  ASSUME NEW q \in CallStates, NEW j \in Nat
  PROVE  /\ SpentBefore(q) \in Nat /\ SpentNow(q, j) \in Nat /\ SpentNow(q, j) <= MaxRetries + 1
         /\ Spent(q, j) = SpentBefore(q) + SpentNow(q, j) /\ Spent(q, j) \in Nat
<1>1. MaxRetries \in Nat /\ q.retry \in Nat /\ q.retry <= MaxRetries /\ q.i \in Nat
  BY CallTypes, Positions
<1>2. SpentBefore(q) \in Nat
  BY <1>1 DEF SpentBefore
<1>3. SpentNow(q, j) \in Nat /\ SpentNow(q, j) <= MaxRetries + 1
  BY <1>1 DEF SpentNow
<1> QED BY <1>2, <1>3 DEF Spent

\* A step that delivers nothing keeps what is said of the content.
LEMMA ContentsStay ==
  ASSUME NEW q, Contents(q), NEW f, f.delivered = q.delivered, f.mode = q.mode,
         \A x : Behind(q, x) => Behind(f, x)
  PROVE  Contents(f)
<1> QED BY DEF Contents

\* The next provider's turn comes when the present one was called.
LEMMA NextProviderKeeps ==
  ASSUME NEW q, CallInv(q), q.pc \in {"call", "open"}, q.i <= Len(Providers),
         <<q.mode, Target(q)>> \in q.tried
  PROVE  CallInv(NextProvider(q))
<1> DEFINE n == Len(Providers)
           to == From(q.able, q.i + 1)
           f == NextProvider(q)
<1>1. q \in CallStates /\ CallFlow(q) /\ Sends(q) /\ Contents(q) /\ Tries(q)
  BY DEF CallInv
<1>2. /\ n \in Nat /\ MaxRetries \in Nat /\ q.i \in 1..n /\ q.retry \in 0..MaxRetries
      /\ q.sent \in [ProviderSet -> Nat] /\ q.delivered \in Seq(Passes)
  BY <1>1, CallTypes, Positions
<1>3. /\ to \in (q.i + 1)..(n + 1)
      /\ \A k \in (q.i + 1)..n : k < to => Providers[k] \notin q.able
  <2>1. q.i + 1 \in 1..(n + 1)
    BY <1>2
  <2> QED BY <2>1, FromSkipsNone
<1> HIDE DEF to
<1>4. /\ f \in CallStates /\ f.pc = "call" /\ f.asked = q.asked /\ f.mode = q.mode /\ f.able = q.able
      /\ f.i = to /\ f.retry = 0 /\ f.yieldedAny = FALSE /\ f.yielded = FALSE /\ f.result = q.result
      /\ f.sent = q.sent /\ f.tried = q.tried /\ f.delivered = q.delivered
  <2>1. f = [q EXCEPT !.i = to, !.retry = 0, !.yieldedAny = FALSE, !.yielded = FALSE, !.pc = "call"]
    BY <1>1 DEF NextProvider, to, CallStates
  <2>2. to \in 1..(n + 1) /\ 0 \in 0..MaxRetries
    BY <1>2, <1>3
  <2>3. [q EXCEPT !.i = to, !.retry = 0, !.yieldedAny = FALSE, !.yielded = FALSE, !.pc = "call"] \in CallStates
    BY <1>1, <2>2 DEF CallStates
  <2> HIDE DEF f
  <2> QED BY <1>1, <2>1, <2>3 DEF CallStates
<1> HIDE DEF f
<1>5. CallFlow(f)
  <2>1. q.result = "none"
    BY <1>1 DEF CallFlow
  <2> QED BY <1>1, <1>4, <2>1 DEF CallFlow
<1>6. Sends(f)
  <2>1. ASSUME NEW j \in 1..n PROVE Spent(q, j) <= Spent(f, j)
    <3>1. SpentBefore(f) = SpentBefore(q)
      BY <1>4 DEF SpentBefore
    <3>2. SpentNow(q, j) <= SpentNow(f, j)
      <4>1. CASE j > q.i
        <5>1. SpentNow(q, j) = 0
          BY <1>2, <4>1 DEF SpentNow
        <5> QED BY <1>2, <1>4, <5>1, SpentTypes
      <4>2. CASE j <= q.i
        <5>1. SpentNow(f, j) = MaxRetries + 1
          BY <1>2, <1>3, <1>4, <4>2 DEF SpentNow
        <5> QED BY <1>1, <5>1, SpentTypes
      <4> QED BY <1>2, <4>1, <4>2
    <3> QED BY <1>1, <1>4, <3>1, <3>2, SpentTypes
  <2>2. ASSUME NEW j \in 1..n PROVE Spent(q, j) \in Nat /\ Spent(f, j) \in Nat /\ q.sent[Providers[j]] \in Nat
    <3>1. Spent(q, j) \in Nat /\ Spent(f, j) \in Nat
      BY <1>1, <1>4, SpentTypes
    <3>2. q.sent[Providers[j]] \in Nat
      BY <1>2, Positions
    <3> QED BY <3>1, <3>2
  <2>3. \A j \in 1..n : q.sent[Providers[j]] <= Spent(q, j)
    BY <1>1 DEF Sends
  <2> QED BY <1>4, <2>1, <2>2, <2>3 DEF Sends
<1>7. Contents(f)
  <2>1. ASSUME NEW p, Behind(q, p) PROVE Behind(f, p)
    BY <1>2, <1>3, <1>4, <2>1 DEF Behind
  <2> QED BY <1>1, <1>4, <2>1, ContentsStay
<1>8. Tries(f)
  <2>1. ASSUME NEW j \in 1..n, j < to, Providers[j] \in q.able PROVE <<q.mode, Providers[j]>> \in q.tried
    <3>1. CASE j < q.i
      BY <1>1, <2>1, <3>1 DEF Tries
    <3>2. CASE j = q.i
      BY <3>2 DEF Target
    <3>3. CASE j > q.i
      BY <1>2, <1>3, <2>1, <3>3
    <3> QED BY <1>2, <3>1, <3>2, <3>3
  <2> QED BY <1>4, <2>1 DEF Tries
<1>9. CallInv(f)
  BY <1>4, <1>5, <1>6, <1>7, <1>8 DEF CallInv
<1> QED BY <1>9 DEF f

\* A failed attempt is followed by another one or by the next provider.
LEMMA AfterErrorKeeps ==
  ASSUME NEW q, CallInv(q), q.pc = "open", NEW retryable \in BOOLEAN, NEW inTime \in BOOLEAN
  PROVE  CallInv(AfterError(q, retryable, inTime))
<1>1. q \in CallStates /\ CallFlow(q) /\ Sends(q) /\ Contents(q) /\ Tries(q)
  BY DEF CallInv
<1>2. q.i <= Len(Providers) /\ <<q.mode, Target(q)>> \in q.tried /\ q.result = "none"
  BY <1>1 DEF CallFlow, Tries
<1>3. CallInv(NextProvider(q))
  BY <1>2, NextProviderKeeps
<1>4. ASSUME ~q.yieldedAny, q.retry < MaxRetries PROVE CallInv([q EXCEPT !.retry = @ + 1, !.pc = "sleep"])
  <2> DEFINE f == [q EXCEPT !.retry = @ + 1, !.pc = "sleep"]
  <2>1. /\ q.retry \in Nat /\ MaxRetries \in Nat /\ q.i \in Nat /\ q.delivered \in Seq(Passes)
    BY <1>1, CallTypes, Positions
  <2>2. /\ f \in CallStates /\ f.pc = "sleep" /\ f.asked = q.asked /\ f.mode = q.mode /\ f.able = q.able
        /\ f.i = q.i /\ f.retry = q.retry + 1 /\ f.yieldedAny = q.yieldedAny /\ f.yielded = q.yielded
        /\ f.result = q.result /\ f.sent = q.sent /\ f.tried = q.tried /\ f.delivered = q.delivered
    <3>1. q.retry + 1 \in 0..MaxRetries
      BY <1>4, <2>1
    <3> QED BY <1>1, <3>1 DEF CallStates
  <2> HIDE DEF f
  <2>3. CallFlow(f)
    BY <1>1, <1>2, <1>4, <2>2 DEF CallFlow
  <2>4. Sends(f)
    <3>1. ASSUME NEW j \in 1..Len(Providers) PROVE Spent(f, j) = Spent(q, j)
      BY <2>1, <2>2 DEF Spent, SpentBefore, SpentNow
    <3> QED BY <1>1, <2>2, <3>1 DEF Sends
  <2>5. Contents(f)
    <3>1. ASSUME NEW p, Behind(q, p) PROVE Behind(f, p)
      BY <1>4, <2>1, <2>2, <3>1 DEF Behind
    <3> QED BY <1>1, <2>2, <3>1, ContentsStay
  <2>6. Tries(f)
    BY <1>1, <2>2 DEF Tries
  <2>7. CallInv(f)
    BY <2>2, <2>3, <2>4, <2>5, <2>6 DEF CallInv
  <2> QED BY <2>7 DEF f
<1> QED BY <1>3, <1>4 DEF AfterError

\* A call of a provider, whether its breaker lets it through or not.
LEMMA CallKeeps ==
  ASSUME NEW q, CallInv(q), q.pc = "call", q.i <= Len(Providers), NEW p, p = Target(q),
         NEW called, called = [q EXCEPT !.tried = @ \cup {<<q.mode, p>>}]
  PROVE  /\ CallInv(NextProvider(called))
         /\ CallInv([called EXCEPT !.pc = "open", !.yielded = FALSE, !.sent[p] = @ + 1])
<1>1. q \in CallStates /\ CallFlow(q) /\ Sends(q) /\ Contents(q) /\ Tries(q)
  BY DEF CallInv
<1>2. /\ Len(Providers) \in Nat /\ MaxRetries \in Nat /\ q.i \in 1..Len(Providers) /\ q.retry \in 0..MaxRetries
      /\ q.mode \in Loops /\ p = Providers[q.i] /\ p \in ProviderSet
      /\ q.sent \in [ProviderSet -> Nat] /\ q.tried \subseteq Passes /\ q.delivered \in Seq(Passes)
  BY <1>1, CallTypes, Positions DEF Target
<1>3. q.yieldedAny = FALSE /\ q.yielded = FALSE /\ q.result = "none" /\ q.pc # "done"
  BY <1>1, CallTypes DEF CallFlow
<1>4. /\ called \in CallStates /\ called.pc = "call" /\ called.asked = q.asked /\ called.mode = q.mode
      /\ called.able = q.able /\ called.i = q.i /\ called.retry = q.retry /\ called.yieldedAny = FALSE
      /\ called.yielded = FALSE /\ called.result = "none" /\ called.sent = q.sent
      /\ called.delivered = q.delivered /\ called.tried = q.tried \cup {<<q.mode, p>>}
  <2>1. q.tried \cup {<<q.mode, p>>} \in SUBSET Passes
    BY <1>2 DEF Passes
  <2> QED BY <1>1, <1>3, <2>1 DEF CallStates
<1>5. CallInv(called)
  <2>1. CallFlow(called)
    BY <1>1, <1>4 DEF CallFlow
  <2>2. Sends(called)
    BY <1>1, <1>4 DEF Sends, Spent, SpentBefore, SpentNow
  <2>3. ASSUME NEW x, Behind(q, x) PROVE Behind(called, x)
    BY <1>3, <1>4, <2>3 DEF Behind
  <2>4. Contents(called)
    BY <1>1, <1>4, <2>3, ContentsStay
  <2>5. Tries(called)
    BY <1>1, <1>4 DEF Tries
  <2> QED BY <1>4, <2>1, <2>2, <2>4, <2>5 DEF CallInv
<1>6. CallInv(NextProvider(called))
  <2>1. Target(called) = p
    BY <1>4 DEF Target
  <2> QED BY <1>4, <1>5, <2>1, NextProviderKeeps
<1>7. CallInv([called EXCEPT !.pc = "open", !.yielded = FALSE, !.sent[p] = @ + 1])
  <2> DEFINE sends == [q.sent EXCEPT ![p] = @ + 1]
             f == [called EXCEPT !.pc = "open", !.yielded = FALSE, !.sent[p] = @ + 1]
  <2>1. sends \in [ProviderSet -> Nat] /\ \A x \in ProviderSet : sends[x] = IF x = p THEN q.sent[p] + 1 ELSE q.sent[x]
    BY <1>2
  <2>2. f = [called EXCEPT !.pc = "open", !.yielded = FALSE, !.sent = sends]
    BY <1>4 DEF CallStates
  <2> HIDE DEF sends
  <2>3. /\ f \in CallStates /\ f.pc = "open" /\ f.asked = q.asked /\ f.mode = q.mode /\ f.able = q.able
        /\ f.i = q.i /\ f.retry = q.retry /\ f.yieldedAny = FALSE /\ f.yielded = FALSE /\ f.result = "none"
        /\ f.sent = sends /\ f.tried = called.tried /\ f.delivered = q.delivered
    <3>1. [called EXCEPT !.pc = "open", !.yielded = FALSE, !.sent = sends] \in CallStates
      BY <1>4, <2>1 DEF CallStates
    <3> HIDE DEF f
    <3> QED BY <1>4, <2>2, <3>1 DEF CallStates
  <2> HIDE DEF f
  <2>4. CallFlow(f)
    BY <1>1, <1>2, <2>3 DEF CallFlow
  <2>5. Sends(f)
    <3> SUFFICES ASSUME NEW j \in 1..Len(Providers) PROVE sends[Providers[j]] <= Spent(f, j)
      BY <2>3 DEF Sends
    <3>1. q.sent[Providers[j]] <= Spent(q, j) /\ q.sent[Providers[j]] \in Nat /\ Providers[j] \in ProviderSet
      BY <1>1, <1>2, Positions DEF Sends
    <3>2. CASE j = q.i
      <4>1. Spent(f, j) = Spent(q, j) + 1
        <5>1. SpentNow(q, j) = q.retry
          BY <1>2, <3>2 DEF SpentNow
        <5>2. SpentNow(f, j) = q.retry + 1
          BY <1>2, <2>3, <3>2 DEF SpentNow
        <5>3. SpentBefore(f) = SpentBefore(q)
          BY <2>3 DEF SpentBefore
        <5>4. Spent(q, j) = SpentBefore(q) + SpentNow(q, j) /\ Spent(f, j) = SpentBefore(f) + SpentNow(f, j)
          BY DEF Spent
        <5>5. SpentBefore(q) \in Nat /\ q.retry \in Nat
          BY <1>2 DEF SpentBefore
        <5> QED BY <5>1, <5>2, <5>3, <5>4, <5>5
      <4>2. Spent(q, j) \in Nat
        BY <1>1, SpentTypes
      <4>3. sends[Providers[j]] = q.sent[Providers[j]] + 1
        BY <1>2, <2>1, <3>1, <3>2
      <4> QED BY <3>1, <4>1, <4>2, <4>3
    <3>3. CASE j # q.i
      <4>1. Spent(f, j) = Spent(q, j)
        BY <1>2, <2>3, <3>3 DEF Spent, SpentBefore, SpentNow
      <4>2. Providers[j] # p
        BY <1>2, <3>3, Positions
      <4>3. sends[Providers[j]] = q.sent[Providers[j]]
        BY <2>1, <3>1, <4>2
      <4> QED BY <3>1, <4>1, <4>3
    <3> QED BY <3>2, <3>3
  <2>6. Contents(f)
    <3>1. ASSUME NEW x, Behind(q, x) PROVE Behind(f, x)
      BY <1>3, <2>3, <3>1 DEF Behind
    <3> QED BY <1>1, <2>3, <3>1, ContentsStay
  <2>7. Tries(f)
    <3>1. Target(f) = p
      BY <2>3, <1>2 DEF Target
    <3> QED BY <1>1, <1>4, <2>3, <3>1 DEF Tries
  <2>8. CallInv(f)
    BY <2>3, <2>4, <2>5, <2>6, <2>7 DEF CallInv
  <2> QED BY <2>8 DEF f
<1> QED BY <1>6, <1>7

\* Content is delivered once for every pass: the loop has not been at this
\* provider before, and this attempt has delivered nothing yet.
LEMMA DeliverKeeps ==
  ASSUME NEW q, CallInv(q), q.pc = "open", ~q.yieldedAny,
         NEW f \in CallStates, f.delivered = Append(q.delivered, <<q.mode, Target(q)>>),
         f.asked = q.asked, f.mode = q.mode, f.able = q.able, f.i = q.i, f.retry = q.retry,
         f.sent = q.sent, f.tried = q.tried, f.yielded = f.yieldedAny,
         \/ f.yieldedAny /\ f.mode = "stream" /\ f.pc = "open" /\ f.result = q.result
         \/ ~f.yieldedAny /\ f.pc = "done" /\ f.result = "ok"
  PROVE  CallInv(f)
<1>1. q \in CallStates /\ CallFlow(q) /\ Sends(q) /\ Contents(q) /\ Tries(q)
  BY DEF CallInv
<1>2. /\ Len(Providers) \in Nat /\ q.i \in 1..Len(Providers) /\ q.mode \in Loops /\ Target(q) = Providers[q.i]
      /\ Target(q) \in ProviderSet /\ q.delivered \in Seq(Passes) /\ q.yieldedAny = FALSE
  BY <1>1, CallTypes, Positions DEF Target, CallFlow
<1> DEFINE d == <<q.mode, Target(q)>>
           n == Len(q.delivered)
<1>3. /\ n \in Nat /\ Len(f.delivered) = n + 1 /\ f.delivered[n + 1] = d
      /\ \A a \in 1..n : f.delivered[a] = q.delivered[a]
      /\ d[1] = q.mode /\ d[2] = Providers[q.i]
  BY <1>2 DEF Passes
<1>4. \A a \in 1..n : q.delivered[a] # d
  <2> SUFFICES ASSUME NEW a \in 1..n, q.delivered[a] = d PROVE FALSE
    OBVIOUS
  <2>1. Behind(q, Providers[q.i])
    BY <1>1, <1>3 DEF Contents
  <2> QED BY <1>2, <2>1, Positions DEF Behind
<1> HIDE DEF d
<1>5. CallFlow(f)
  BY <1>1, <1>2 DEF CallFlow
<1>6. Sends(f)
  <2>1. \A j \in 1..Len(Providers) : Spent(f, j) = Spent(q, j)
    BY DEF Spent, SpentBefore, SpentNow
  <2> QED BY <1>1, <2>1 DEF Sends
<1>7. Contents(f)
  <2>1. ASSUME NEW a \in 1..(n + 1), NEW b \in 1..(n + 1), f.delivered[a] = f.delivered[b] PROVE a = b
    <3>1. CASE a \in 1..n /\ b \in 1..n
      BY <1>1, <1>3, <2>1, <3>1 DEF Contents
    <3>2. CASE a = n + 1 /\ b \in 1..n
      BY <1>3, <1>4, <2>1, <3>2
    <3>3. CASE b = n + 1 /\ a \in 1..n
      BY <1>3, <1>4, <2>1, <3>3
    <3> QED BY <1>3, <3>1, <3>2, <3>3
  <2>2. ASSUME NEW a \in 1..(n + 1)
        PROVE  IF f.delivered[a][1] = f.mode THEN Behind(f, f.delivered[a][2]) ELSE f.mode = "complete"
    <3>1. CASE a \in 1..n
      <4>1. ASSUME NEW x, Behind(q, x) PROVE Behind(f, x)
        BY <1>2, <4>1 DEF Behind
      <4> QED BY <1>1, <1>3, <3>1, <4>1 DEF Contents
    <3>2. CASE a = n + 1
      <4>1. Behind(f, Providers[q.i])
        BY <1>2 DEF Behind
      <4> QED BY <1>3, <3>2, <4>1
    <3> QED BY <1>3, <3>1, <3>2
  <2>3. Len(f.delivered) = n + 1
    BY <1>3
  <2> QED BY <2>1, <2>2, <2>3 DEF Contents
<1>8. Tries(f)
  BY <1>1 DEF Tries, Target
<1> QED BY <1>5, <1>6, <1>7, <1>8 DEF CallInv

\* A call that only changes its place: the end of a stream, of a wait and of the
\* last loop.
LEMMA PlaceKeeps ==
  ASSUME NEW q, CallInv(q), NEW place, NEW result, NEW f, f = [q EXCEPT !.pc = place, !.result = result],
         \/ q.pc = "open" /\ q.yielded /\ place = "done" /\ result = "ok"
         \/ q.pc = "sleep" /\ place = "call" /\ result = q.result
         \/ q.pc = "call" /\ q.i > Len(Providers) /\ place = "done" /\ result = "failed"
  PROVE  CallInv(f)
<1>1. q \in CallStates /\ CallFlow(q) /\ Sends(q) /\ Contents(q) /\ Tries(q)
  BY DEF CallInv
<1>2. /\ Len(Providers) \in Nat /\ q.i \in 1..(Len(Providers) + 1) /\ q.delivered \in Seq(Passes)
      /\ q.yieldedAny \in BOOLEAN
  BY <1>1, CallTypes, Positions
<1>3. /\ f \in CallStates /\ f.pc = place /\ f.result = result /\ f.asked = q.asked /\ f.mode = q.mode
      /\ f.able = q.able /\ f.i = q.i /\ f.retry = q.retry /\ f.yieldedAny = q.yieldedAny
      /\ f.yielded = q.yielded /\ f.sent = q.sent /\ f.tried = q.tried /\ f.delivered = q.delivered
  <2>1. place \in {"call", "done"} /\ result \in {"none", "ok", "failed"}
    BY <1>1, CallTypes
  <2> QED BY <1>1, <2>1 DEF CallStates
<1>4. CallFlow(f)
  BY <1>1, <1>3 DEF CallFlow
<1>5. Sends(f)
  <2>1. \A j \in 1..Len(Providers) : Spent(f, j) = Spent(q, j)
    BY <1>2, <1>3 DEF Spent, SpentBefore, SpentNow
  <2> QED BY <1>1, <1>3, <2>1 DEF Sends
<1>6. Contents(f)
  <2>1. ASSUME NEW x, Behind(q, x) PROVE Behind(f, x)
    BY <1>2, <1>3, <2>1 DEF Behind
  <2> QED BY <1>1, <1>3, <2>1, ContentsStay
<1>7. Tries(f)
  BY <1>1, <1>3 DEF Tries, Target
<1> QED BY <1>3, <1>4, <1>5, <1>6, <1>7 DEF CallInv

\* What holds before a loop begins: nothing of it was sent or delivered.
MayEnter(q, mode) ==
  /\ mode = "stream" => q.asked = "stream"
  /\ ~q.yieldedAny /\ ~q.yielded
  /\ \A j \in 1..Len(Providers) : q.sent[Providers[j]] <= IF q.asked # mode THEN MaxRetries + 1 ELSE 0
  /\ \A a, b \in 1..Len(q.delivered) : q.delivered[a] = q.delivered[b] => a = b
  /\ \A a \in 1..Len(q.delivered) : q.delivered[a][1] # mode /\ mode = "complete"

\* A loop that begins keeps the invariant.
LEMMA EnterKeeps ==
  ASSUME NEW q \in CallStates, NEW mode \in Loops, MayEnter(q, mode), NEW able \in SUBSET ProviderSet,
         NEW f \in CallStates, f.asked = q.asked, f.mode = mode, f.able = able, f.i = From(able, 1),
         f.retry = q.retry, f.yieldedAny = q.yieldedAny, f.yielded = q.yielded, f.sent = q.sent,
         f.tried = q.tried, f.delivered = q.delivered,
         \/ f.pc = "call" /\ f.result = "none"
         \/ f.pc = "done" /\ f.result = "failed" /\ able = {}
  PROVE  CallInv(f)
<1> DEFINE n == Len(Providers)
           to == From(able, 1)
<1>1. /\ n \in Nat /\ MaxRetries \in Nat /\ q.retry \in Nat /\ q.yieldedAny = FALSE /\ q.yielded = FALSE
      /\ q.sent \in [ProviderSet -> Nat] /\ q.delivered \in Seq(Passes)
  BY CallTypes, Positions DEF MayEnter
<1>2. /\ to \in 1..(n + 1)
      /\ \A k \in 1..n : k < to => Providers[k] \notin able
  <2>1. 1 \in 1..(n + 1)
    BY <1>1
  <2> QED BY <2>1, FromSkipsNone
<1>3. able = {} => to > n
  <2>1. able = {} => to = n + 1
    BY DEF From
  <2> QED BY <2>1, <1>1
<1>4. f.i = to
  OBVIOUS
<1> HIDE DEF to
<1>5. CallFlow(f)
  BY <1>1, <1>3, <1>4 DEF CallFlow, MayEnter
<1>6. Sends(f)
  <2> SUFFICES ASSUME NEW j \in 1..n PROVE q.sent[Providers[j]] <= Spent(f, j)
    BY <1>4 DEF Sends
  <2>1. q.sent[Providers[j]] <= SpentBefore(f) /\ q.sent[Providers[j]] \in Nat
    BY <1>1, Positions DEF MayEnter, SpentBefore
  <2>2. /\ SpentBefore(f) \in Nat /\ SpentNow(f, j) \in Nat /\ Spent(f, j) = SpentBefore(f) + SpentNow(f, j)
    BY SpentTypes
  <2> QED BY <2>1, <2>2
<1>7. Contents(f)
  <2>1. \A a \in 1..Len(f.delivered) : f.delivered[a][1] # f.mode /\ f.mode = "complete"
    BY <1>4 DEF MayEnter
  <2>2. \A a, b \in 1..Len(f.delivered) : f.delivered[a] = f.delivered[b] => a = b
    BY <1>4 DEF MayEnter
  <2> QED BY <2>1, <2>2 DEF Contents
<1>8. Tries(f)
  BY <1>2, <1>4 DEF Tries
<1> QED BY <1>4, <1>5, <1>6, <1>7, <1>8 DEF CallInv

-----------------------------------------------------------------------------
\* What a step of one call has to keep.
LEMMA LocalKeeps ==
  ASSUME AdapterInv, UNCHANGED <<setting, now>>, NEW r \in Requests, NEW f, CallInv(f),
         request' = [request EXCEPT ![r] = f],
         \/ UNCHANGED breaker
         \/ \E o \in Owners, p \in ProviderSet, b \in Breakers :
              Sound(b, now) /\ breaker' = [breaker EXCEPT ![o][p] = b]
         \/ \E o \in Owners, b \in [ProviderSet -> Breakers] :
              /\ \A p \in ProviderSet : Sound(b[p], now)
              /\ breaker' = [breaker EXCEPT ![o] = b]
  PROVE  AdapterInv'
<1>1. f \in CallStates
  BY DEF CallInv
<1>2. request' \in [Requests -> CallStates] /\ \A x \in Requests : request'[x] = IF x = r THEN f ELSE request[x]
  BY <1>1 DEF AdapterInv
<1>3. \A x \in Requests : CallInv(request'[x])
  BY <1>2 DEF AdapterInv
<1>4. breaker \in [Owners -> [ProviderSet -> Breakers]] /\ \A o \in Owners, p \in ProviderSet : Sound(breaker[o][p], now)
  BY DEF AdapterInv
<1>5. /\ breaker' \in [Owners -> [ProviderSet -> Breakers]]
      /\ \A o \in Owners, p \in ProviderSet : Sound(breaker'[o][p], now)
  <2>1. CASE UNCHANGED breaker
    BY <1>4, <2>1
  <2>2. ASSUME NEW o \in Owners, NEW p \in ProviderSet, NEW b \in Breakers, Sound(b, now),
               breaker' = [breaker EXCEPT ![o][p] = b]
        PROVE  <1>5
    BY <1>4, <2>2
  <2>3. ASSUME NEW o \in Owners, NEW b \in [ProviderSet -> Breakers], \A p \in ProviderSet : Sound(b[p], now),
               breaker' = [breaker EXCEPT ![o] = b]
        PROVE  <1>5
    BY <1>4, <2>3
  <2> QED BY <2>1, <2>2, <2>3
<1>6. (setting \in Settings)' /\ (now \in 0..setting.maxTime)' /\ now' = now
  BY DEF AdapterInv
<1> QED BY <1>2, <1>3, <1>5, <1>6 DEF AdapterInv

\* Whose breakers a call uses, and the invariants it meets.
LEMMA CallFacts ==
  ASSUME AdapterInv, NEW r \in setting.requests
  PROVE  /\ r \in Requests /\ Owner(r) \in Owners /\ now \in Nat /\ CallInv(request[r]) /\ request[r] \in CallStates
         /\ breaker \in [Owners -> [ProviderSet -> Breakers]] /\ request \in [Requests -> CallStates]
         /\ \A p \in ProviderSet : Sound(breaker[Owner(r)][p], now)
<1>1. setting \in Settings /\ setting.requests \subseteq Requests /\ setting.maxTime \in Nat
  BY FailoverAssumption DEF AdapterInv
<1>2. r \in Requests /\ Owner(r) \in Owners /\ now \in Nat
  BY <1>1 DEF Owner, Owners, AdapterInv
<1> QED BY <1>2 DEF AdapterInv

\* An attempt that is under way is at a provider.
LEMMA OpenFacts ==
  ASSUME AdapterInv, NEW r \in setting.requests, NEW mode, Waiting(r, mode)
  PROVE  /\ request[r].pc = "open" /\ request[r].mode = mode /\ Target(request[r]) \in ProviderSet
         /\ \A b : Sound(b, now) => b \in Breakers
<1>1. request[r].pc = "open" /\ request[r].mode = mode
  BY DEF Waiting
<1>2. request[r].i \in 1..Len(Providers)
  BY <1>1, CallFacts, CallTypes, Positions DEF CallInv, CallFlow
<1> QED BY <1>1, <1>2, Positions DEF Target, Sound

\* A loop begins.
LEMMA EnterStep ==
  ASSUME AdapterInv, NEW r \in setting.requests, NEW q \in CallStates, NEW mode \in Loops,
         Enter(r, q, mode), UNCHANGED <<setting, now>>, q.result = "none",
         MayEnter(q, mode)
  PROVE  AdapterInv'
<1> DEFINE healthy == GetHealthyProviders(r)
           able == IF mode = "stream" THEN healthy \cap Streamers ELSE healthy
           place == IF healthy = {} THEN "done" ELSE "call"
           result == IF healthy = {} THEN "failed" ELSE "none"
           to == From(able, 1)
           f == [q EXCEPT !.mode = mode, !.able = able, !.i = to, !.pc = place, !.result = result]
           b == [p \in ProviderSet |-> AfterCanExecute(breaker[Owner(r)][p], now)]
<1>1. able \in SUBSET ProviderSet /\ (healthy = {} => able = {})
  BY DEF GetHealthyProviders
<1>2. request' = [request EXCEPT ![r] = f]
  BY DEF Enter, CallStates
<1>3. breaker' = [breaker EXCEPT ![Owner(r)] = b]
  BY CallFacts DEF Enter, AskEveryBreaker
<1>4. CallInv(f)
  <2>1. to \in 1..(Len(Providers) + 1)
    <3>1. 1 \in 1..(Len(Providers) + 1)
      BY Positions
    <3> QED BY <3>1, FromSkipsNone
  <2>2. /\ place \in {"call", "done"} /\ result \in {"none", "failed"}
        /\ \/ place = "call" /\ result = "none"
           \/ place = "done" /\ result = "failed" /\ able = {}
    BY <1>1
  <2> HIDE DEF able, to, place, result
  <2>3. /\ f \in CallStates /\ f.pc = place /\ f.result = result /\ f.asked = q.asked /\ f.mode = mode
        /\ f.able = able /\ f.i = to /\ f.retry = q.retry /\ f.yieldedAny = q.yieldedAny /\ f.yielded = q.yielded
        /\ f.sent = q.sent /\ f.tried = q.tried /\ f.delivered = q.delivered
    BY <1>1, <2>1, <2>2 DEF CallStates
  <2>4. f.i = From(able, 1)
    BY <2>3 DEF to
  <2> HIDE DEF f
  <2> QED BY <1>1, <2>2, <2>3, <2>4, EnterKeeps
<1> HIDE DEF f
<1>5. \A p \in ProviderSet : Sound(AfterCanExecute(breaker[Owner(r)][p], now), now)
  BY CallFacts, BreakerKeeps
<1>6. b \in [ProviderSet -> Breakers] /\ \A p \in ProviderSet : Sound(b[p], now)
  BY <1>5 DEF Sound
<1> HIDE DEF b
<1>7. r \in Requests /\ Owner(r) \in Owners
  BY CallFacts
<1> QED BY <1>2, <1>3, <1>4, <1>6, <1>7, LocalKeeps

\* Every step of the adapter keeps the invariant.
LEMMA AdapterStepKeeps ==
  ASSUME AdapterInv, AdapterNext
  PROVE  AdapterInv'
<1>1. ASSUME NEW r \in setting.requests, NEW kind \in setting.kinds, StartCall(r, kind) PROVE AdapterInv'
  <2> DEFINE q == [NoCall EXCEPT !.asked = kind]
  <2>1. kind \in Loops
    BY FailoverAssumption DEF AdapterInv, Loops
  <2>2. request[r] = NoCall
    BY <1>1, CallFacts DEF StartCall, CallInv, CallFlow
  <2>3. /\ q \in CallStates /\ q.result = "none" /\ q.asked = kind /\ ~q.yieldedAny /\ ~q.yielded /\ q.delivered = <<>>
        /\ q.sent = [p \in ProviderSet |-> 0]
    <3>1. 0 \in 0..MaxRetries /\ 1 \in 1..(Len(Providers) + 1)
      BY Positions
    <3>2. [p \in ProviderSet |-> 0] \in [ProviderSet -> Nat] /\ <<>> \in Seq(Passes)
      OBVIOUS
    <3>3. NoCall \in CallStates
      BY <3>1, <3>2 DEF NoCall, CallStates, Loops
    <3> QED BY <2>1, <3>3 DEF NoCall, CallStates
  <2>4. Enter(r, q, kind) /\ UNCHANGED <<setting, now>>
    BY <1>1, <2>2 DEF StartCall
  <2> HIDE DEF q
  <2>5. \A j \in 1..Len(Providers) : q.sent[Providers[j]] <= IF q.asked # kind THEN MaxRetries + 1 ELSE 0
    BY <2>3, Positions
  <2>6. Len(q.delivered) = 0
    BY <2>3
  <2>7. MayEnter(q, kind)
    BY <2>3, <2>5, <2>6 DEF MayEnter
  <2> QED BY <2>1, <2>3, <2>4, <2>7, EnterStep
<1>2. ASSUME NEW r \in setting.requests, CallProvider(r) PROVE AdapterInv'
  <2> DEFINE q == request[r]
             p == Target(q)
             called == [q EXCEPT !.tried = @ \cup {<<q.mode, p>>}]
             opened == [called EXCEPT !.pc = "open", !.yielded = FALSE, !.sent[p] = @ + 1]
             f == IF CanExecute(breaker[Owner(r)][p], now) THEN opened ELSE NextProvider(called)
             b == AfterCanExecute(breaker[Owner(r)][p], now)
  <2>1. /\ q.pc = "call" /\ q.i <= Len(Providers) /\ UNCHANGED <<setting, now>>
        /\ request' = [request EXCEPT ![r] = f]
    BY <1>2 DEF CallProvider
  <2>2. CallInv(NextProvider(called)) /\ CallInv(opened)
    <3> HIDE DEF p
    <3> QED BY <2>1, CallFacts, CallKeeps DEF p
  <2>3. p \in ProviderSet
    BY <2>1, CallFacts, CallTypes, Positions DEF Target
  <2>4. Sound(b, now) /\ b \in Breakers
    BY <2>3, CallFacts, BreakerKeeps DEF Sound
  <2>5. breaker' = [breaker EXCEPT ![Owner(r)][p] = b]
    BY <1>2, <2>3, CallFacts DEF CallProvider
  <2>6. CallInv(f)
    BY <2>2
  <2> HIDE DEF b, f, p
  <2> QED BY <2>1, <2>3, <2>4, <2>5, <2>6, CallFacts, LocalKeeps
<1>3. ASSUME NEW r \in setting.requests, FallBack(r) PROVE AdapterInv'
  <2> DEFINE q == request[r]
  <2>1. /\ q.pc = "call" /\ q.i > Len(Providers) /\ q.mode = "stream"
        /\ Enter(r, q, "complete") /\ UNCHANGED <<setting, now>>
    BY <1>3 DEF FallBack
  <2>2. q \in CallStates /\ CallFlow(q) /\ Sends(q) /\ Contents(q)
    BY CallFacts DEF CallInv
  <2>3. q.i \in Nat /\ q.yieldedAny \in BOOLEAN /\ q.delivered \in Seq(Passes) /\ MaxRetries \in Nat
    BY <2>2, CallTypes, Positions
  <2> HIDE DEF q
  <2>4. q.asked = "stream" /\ ~q.yieldedAny /\ ~q.yielded /\ q.result = "none"
    BY <2>1, <2>2 DEF CallFlow
  <2>5. ASSUME NEW j \in 1..Len(Providers) PROVE q.sent[Providers[j]] <= MaxRetries + 1
    <3>1. Spent(q, j) = MaxRetries + 1
      BY <2>1, <2>3, <2>4, Positions DEF Spent, SpentBefore, SpentNow
    <3> QED BY <2>2, <3>1 DEF Sends
  <2>6. /\ \A a, b \in 1..Len(q.delivered) : q.delivered[a] = q.delivered[b] => a = b
        /\ \A a \in 1..Len(q.delivered) : q.delivered[a][1] # "complete"
    BY <2>1, <2>2 DEF Contents
  <2>7. MayEnter(q, "complete")
    BY <2>4, <2>5, <2>6 DEF MayEnter
  <2> QED BY <2>1, <2>2, <2>4, <2>7, EnterStep DEF Loops
<1>4. ASSUME NEW r \in setting.requests, AllProvidersFailed(r) PROVE AdapterInv'
  <2> DEFINE q == request[r]
             f == [q EXCEPT !.pc = "done", !.result = "failed"]
  <2>1. q.pc = "call" /\ q.i > Len(Providers) /\ UNCHANGED <<setting, now, breaker>>
    BY <1>4 DEF AllProvidersFailed
  <2>2. request' = [request EXCEPT ![r] = f]
    BY <1>4, CallFacts DEF AllProvidersFailed, CallStates
  <2>3. CallInv(f)
    BY <2>1, CallFacts, PlaceKeeps
  <2> QED BY <2>1, <2>2, <2>3, CallFacts, LocalKeeps
<1>5. ASSUME NEW r \in setting.requests, Wake(r) PROVE AdapterInv'
  <2> DEFINE q == request[r]
             f == [q EXCEPT !.pc = "call", !.result = q.result]
  <2>1. q.pc = "sleep" /\ UNCHANGED <<setting, now, breaker>>
    BY <1>5 DEF Wake
  <2>2. request' = [request EXCEPT ![r] = f]
    BY <1>5, CallFacts DEF Wake, CallStates
  <2>3. CallInv(f)
    BY <2>1, CallFacts, PlaceKeeps
  <2> QED BY <2>1, <2>2, <2>3, CallFacts, LocalKeeps
<1>6. ASSUME NEW r \in setting.requests, StreamChunk(r) PROVE AdapterInv'
  <2> DEFINE q == request[r]
             f == [Deliver(q) EXCEPT !.yielded = TRUE, !.yieldedAny = TRUE]
  <2>1. /\ Waiting(r, "stream") /\ ~q.yielded /\ UNCHANGED <<setting, now, breaker>>
        /\ request' = [request EXCEPT ![r] = f]
    BY <1>6 DEF StreamChunk
  <2>2. q.pc = "open" /\ q.mode = "stream" /\ Target(q) \in ProviderSet
    BY <2>1, OpenFacts
  <2>3. q \in CallStates /\ CallInv(q) /\ ~q.yieldedAny /\ q.delivered \in Seq(Passes)
    BY <2>1, CallFacts, CallTypes DEF CallInv, CallFlow
  <2>4. Append(q.delivered, <<q.mode, Target(q)>>) \in Seq(Passes)
    BY <2>2, <2>3 DEF Passes, Loops
  <2>5. /\ f \in CallStates /\ f.delivered = Append(q.delivered, <<q.mode, Target(q)>>)
        /\ f.asked = q.asked /\ f.mode = q.mode /\ f.able = q.able /\ f.i = q.i /\ f.retry = q.retry
        /\ f.sent = q.sent /\ f.tried = q.tried /\ f.yielded = TRUE /\ f.yieldedAny = TRUE
        /\ f.pc = q.pc /\ f.result = q.result
    BY <2>3, <2>4 DEF CallStates, Deliver
  <2> HIDE DEF q, f
  <2>6. CallInv(f)
    BY <2>2, <2>3, <2>5, DeliverKeeps
  <2> QED BY <2>1, <2>6, CallFacts, LocalKeeps
<1>7. ASSUME NEW r \in setting.requests, CompleteAnswers(r) PROVE AdapterInv'
  <2> DEFINE q == request[r]
             f == [Deliver(q) EXCEPT !.pc = "done", !.result = "ok"]
             b == RecordSuccess(breaker[Owner(r)][Target(q)])
  <2>1. /\ Waiting(r, "complete") /\ UNCHANGED <<setting, now>>
        /\ request' = [request EXCEPT ![r] = f]
    BY <1>7 DEF CompleteAnswers
  <2>2. q.pc = "open" /\ q.mode = "complete" /\ Target(q) \in ProviderSet
    BY <2>1, OpenFacts
  <2>3. q \in CallStates /\ CallInv(q) /\ q.yieldedAny = FALSE /\ q.yielded = FALSE /\ q.delivered \in Seq(Passes)
    BY <2>2, CallFacts, CallTypes DEF CallInv, CallFlow
  <2>4. Append(q.delivered, <<q.mode, Target(q)>>) \in Seq(Passes)
    BY <2>2, <2>3 DEF Passes, Loops
  <2>5. /\ f \in CallStates /\ f.delivered = Append(q.delivered, <<q.mode, Target(q)>>)
        /\ f.asked = q.asked /\ f.mode = q.mode /\ f.able = q.able /\ f.i = q.i /\ f.retry = q.retry
        /\ f.sent = q.sent /\ f.tried = q.tried /\ f.yielded = FALSE /\ f.yieldedAny = FALSE
        /\ f.pc = "done" /\ f.result = "ok"
    BY <2>3, <2>4 DEF CallStates, Deliver
  <2>6. Sound(b, now) /\ b \in Breakers
    BY <2>2, CallFacts, BreakerKeeps DEF Sound
  <2>7. breaker' = [breaker EXCEPT ![Owner(r)][Target(q)] = b]
    BY <1>7, <2>2, CallFacts DEF CompleteAnswers
  <2> HIDE DEF q, f, b
  <2>8. CallInv(f)
    BY <2>2, <2>3, <2>5, DeliverKeeps
  <2> QED BY <2>1, <2>2, <2>6, <2>7, <2>8, CallFacts, LocalKeeps
<1>8. ASSUME NEW r \in setting.requests, StreamEnds(r) PROVE AdapterInv'
  <2> DEFINE q == request[r]
             f == [q EXCEPT !.pc = "done", !.result = "ok"]
             b == RecordSuccess(breaker[Owner(r)][Target(q)])
  <2>1. Waiting(r, "stream") /\ q.yielded /\ UNCHANGED <<setting, now>>
    BY <1>8 DEF StreamEnds
  <2>2. q.pc = "open" /\ Target(q) \in ProviderSet
    BY <2>1, OpenFacts
  <2>3. request' = [request EXCEPT ![r] = f]
    BY <1>8, CallFacts DEF StreamEnds, CallStates
  <2>4. CallInv(f)
    BY <2>1, <2>2, CallFacts, PlaceKeeps
  <2>5. Sound(b, now) /\ b \in Breakers
    BY <2>2, CallFacts, BreakerKeeps DEF Sound
  <2>6. breaker' = [breaker EXCEPT ![Owner(r)][Target(q)] = b]
    BY <1>8, <2>2, CallFacts DEF StreamEnds
  <2> HIDE DEF q, f, b
  <2> QED BY <2>1, <2>2, <2>3, <2>4, <2>5, <2>6, CallFacts, LocalKeeps
<1>9. ASSUME NEW r \in setting.requests, NEW mode, Waiting(r, mode), UNCHANGED <<setting, now>>,
             NEW retryable \in BOOLEAN, NEW inTime \in BOOLEAN, NEW b, Sound(b, now),
             breaker' = [breaker EXCEPT ![Owner(r)][Target(request[r])] = b],
             request' = [request EXCEPT ![r] = AfterError(request[r], retryable, inTime)]
      PROVE  AdapterInv'
  <2>1. request[r].pc = "open" /\ Target(request[r]) \in ProviderSet /\ b \in Breakers
    BY <1>9, OpenFacts
  <2>2. CallInv(AfterError(request[r], retryable, inTime))
    BY <2>1, CallFacts, AfterErrorKeeps
  <2>3. r \in Requests /\ Owner(r) \in Owners
    BY CallFacts
  <2> QED BY <1>9, <2>1, <2>2, <2>3, LocalKeeps
<1>10. ASSUME NEW r \in setting.requests, NEW inTime \in BOOLEAN, NEW retryable \in BOOLEAN, CompleteFails(r, retryable, inTime) PROVE AdapterInv'
  <2> DEFINE c == breaker[Owner(r)][Target(request[r])]
             b == RecordFailure(c, now)
  <2>1. /\ Waiting(r, "complete") /\ UNCHANGED <<setting, now>>
        /\ request' = [request EXCEPT ![r] = AfterError(request[r], retryable, inTime)]
    BY <1>10 DEF CompleteFails
  <2>2. Target(request[r]) \in ProviderSet
    BY <2>1, OpenFacts
  <2>3. Sound(b, now)
    BY <2>2, CallFacts, BreakerKeeps
  <2>4. breaker' = [breaker EXCEPT ![Owner(r)][Target(request[r])] = b]
    BY <1>10, <2>2, CallFacts DEF CompleteFails
  <2> HIDE DEF b
  <2> QED BY <1>9, <2>1, <2>3, <2>4
<1>11. ASSUME NEW r \in setting.requests, NEW inTime \in BOOLEAN, StreamEndsEmpty(r, inTime) PROVE AdapterInv'
  <2> DEFINE c == breaker[Owner(r)][Target(request[r])]
             b == RecordFailure(RecordSuccess(c), now)
  <2>1. /\ Waiting(r, "stream") /\ UNCHANGED <<setting, now>>
        /\ request' = [request EXCEPT ![r] = AfterError(request[r], TRUE, inTime)]
    BY <1>11 DEF StreamEndsEmpty
  <2>2. Target(request[r]) \in ProviderSet
    BY <2>1, OpenFacts
  <2>3. Sound(b, now)
    BY <2>2, CallFacts, BreakerKeeps
  <2>4. breaker' = [breaker EXCEPT ![Owner(r)][Target(request[r])] = b]
    BY <1>11, <2>2, CallFacts DEF StreamEndsEmpty
  <2> HIDE DEF b
  <2> QED BY <1>9, <2>1, <2>3, <2>4
<1>12. ASSUME NEW r \in setting.requests, NEW inTime \in BOOLEAN, StreamRefused(r, inTime) PROVE AdapterInv'
  <2> DEFINE c == breaker[Owner(r)][Target(request[r])]
             b == RecordFailure(RecordFailure(c, now), now)
  <2>1. /\ Waiting(r, "stream") /\ UNCHANGED <<setting, now>>
        /\ request' = [request EXCEPT ![r] = AfterError(request[r], TRUE, inTime)]
    BY <1>12 DEF StreamRefused
  <2>2. Target(request[r]) \in ProviderSet
    BY <2>1, OpenFacts
  <2>3. Sound(b, now)
    BY <2>2, CallFacts, BreakerKeeps
  <2>4. breaker' = [breaker EXCEPT ![Owner(r)][Target(request[r])] = b]
    BY <1>12, <2>2, CallFacts DEF StreamRefused
  <2> HIDE DEF b
  <2> QED BY <1>9, <2>1, <2>3, <2>4
<1>13. ASSUME NEW r \in setting.requests, NEW inTime \in BOOLEAN, StreamBreaks(r, inTime) PROVE AdapterInv'
  <2> DEFINE c == breaker[Owner(r)][Target(request[r])]
             b == RecordFailure(c, now)
  <2>1. /\ Waiting(r, "stream") /\ UNCHANGED <<setting, now>>
        /\ request' = [request EXCEPT ![r] = AfterError(request[r], TRUE, inTime)]
    BY <1>13 DEF StreamBreaks
  <2>2. Target(request[r]) \in ProviderSet
    BY <2>1, OpenFacts
  <2>3. Sound(b, now)
    BY <2>2, CallFacts, BreakerKeeps
  <2>4. breaker' = [breaker EXCEPT ![Owner(r)][Target(request[r])] = b]
    BY <1>13, <2>2, CallFacts DEF StreamBreaks
  <2> HIDE DEF b
  <2> QED BY <1>9, <2>1, <2>3, <2>4
<1>14. ASSUME Tick PROVE AdapterInv'
  <2>1. /\ now < setting.maxTime /\ now' = now + 1 /\ UNCHANGED <<setting, request, breaker>>
        /\ now \in Nat /\ setting.maxTime \in Nat
    BY <1>14, FailoverAssumption DEF Tick, AdapterInv
  <2>2. \A o \in Owners, p \in ProviderSet : Sound(breaker[o][p], now + 1)
    BY <2>1, BreakerKeeps DEF AdapterInv
  <2>3. now' \in 0..setting.maxTime
    BY <2>1
  <2> QED BY <2>1, <2>2, <2>3 DEF AdapterInv
<1>15. CASE Tick
  BY <1>14, <1>15
<1>16. ASSUME NEW r \in setting.requests, Proceed(r) PROVE AdapterInv'
  BY <1>2, <1>3, <1>4, <1>5, <1>16 DEF Proceed
<1>17. ASSUME NEW r \in setting.requests, Answer(r) PROVE AdapterInv'
  BY <1>7, <1>8, <1>10, <1>11, <1>12, <1>13, <1>17 DEF Answer
<1> QED BY <1>1, <1>6, <1>15, <1>16, <1>17 DEF AdapterNext

-----------------------------------------------------------------------------
\* The invariant of the adapter, with the finer one of its breakers.
LEMMA AdapterInvariance == AdapterSpec => []AdapterInv
<1>1. AdapterInit => AdapterInv
  <2> SUFFICES ASSUME AdapterInit PROVE AdapterInv
    OBVIOUS
  <2>1. /\ setting \in Settings /\ setting.maxTime \in Nat /\ now = 0
        /\ breaker = [o \in Owners |-> [p \in ProviderSet |-> ClosedBreaker]]
        /\ request = [r \in Requests |-> NoCall]
    BY FailoverAssumption DEF AdapterInit
  <2>2. Sound(ClosedBreaker, 0) /\ ClosedBreaker \in Breakers
    BY BreakerAssumption DEF Sound, ClosedBreaker, Breakers, BreakerStates
  <2>3. NoCall \in CallStates
    <3>1. 0 \in 0..MaxRetries /\ 1 \in 1..(Len(Providers) + 1)
      BY Positions
    <3>2. [p \in ProviderSet |-> 0] \in [ProviderSet -> Nat] /\ <<>> \in Seq(Passes)
      OBVIOUS
    <3> QED BY <3>1, <3>2 DEF NoCall, CallStates, Loops
  <2>4. CallInv(NoCall)
    <3>1. CallFlow(NoCall)
      BY DEF CallFlow, NoCall
    <3>2. Sends(NoCall)
      <4>1. \A j \in 1..Len(Providers) : NoCall.sent[Providers[j]] = 0
        BY Positions DEF NoCall
      <4>2. \A j \in 1..Len(Providers) : Spent(NoCall, j) \in Nat
        BY Positions DEF NoCall, Spent, SpentBefore, SpentNow
      <4> QED BY <4>1, <4>2 DEF Sends
    <3>3. Contents(NoCall)
      BY DEF Contents, NoCall
    <3>4. Tries(NoCall)
      BY DEF Tries, NoCall
    <3> QED BY <2>3, <3>1, <3>2, <3>3, <3>4 DEF CallInv
  <2>5. now \in 0..setting.maxTime
    BY <2>1
  <2> QED BY <2>1, <2>2, <2>3, <2>4, <2>5 DEF AdapterInv
<1>2. AdapterInv /\ [AdapterNext]_adapterVars => AdapterInv'
  <2>1. ASSUME AdapterInv, UNCHANGED adapterVars PROVE AdapterInv'
    BY <2>1 DEF AdapterInv, adapterVars
  <2> QED BY <2>1, AdapterStepKeeps
<1> QED BY <1>1, <1>2, PTL DEF AdapterSpec

\* However the providers, their breakers and the other requests behave, retries,
\* failover and the last resort of a stream send a provider at most retries + 1
\* requests for a complete() and twice that for a stream().
THEOREM ProvidersAreSpared == AdapterSpec => []SendsAreBounded
<1>1. AdapterInv => SendsAreBounded
  <2> SUFFICES ASSUME AdapterInv PROVE SendsAreBounded
    OBVIOUS
  <2>1. AdapterTypeOK
    BY DEF AdapterInv, AdapterTypeOK, Sound, CallInv, CallFlow
  <2>2. ASSUME NEW r \in Requests, NEW p \in ProviderSet
        PROVE  request[r].sent[p] <= (MaxRetries + 1) * (IF request[r].asked = "stream" THEN 2 ELSE 1)
    <3> DEFINE q == request[r]
    <3>1. q \in CallStates /\ CallFlow(q) /\ Sends(q)
      BY DEF AdapterInv, CallInv
    <3>2. PICK j \in 1..Len(Providers) : Providers[j] = p
      BY Positions
    <3>3. q.sent[p] <= Spent(q, j) /\ q.sent[p] \in Nat
      BY <3>1, <3>2, CallTypes DEF Sends
    <3>4. /\ q.retry \in Nat /\ q.retry <= MaxRetries /\ MaxRetries \in Nat
          /\ q.asked \in Loops /\ q.mode \in Loops /\ q.i \in Nat
      BY <3>1, CallTypes, Positions
    <3>5. q.asked # q.mode => q.asked = "stream"
      BY <3>1, <3>4 DEF CallFlow, Loops
    <3> HIDE DEF q
    <3>9. /\ SpentBefore(q) \in Nat /\ SpentNow(q, j) \in Nat /\ SpentNow(q, j) <= MaxRetries + 1
          /\ Spent(q, j) = SpentBefore(q) + SpentNow(q, j)
      BY <3>1, SpentTypes
    <3>6. /\ SpentBefore(q) \in {0, MaxRetries + 1}
          /\ q.asked = q.mode => SpentBefore(q) = 0
      BY DEF SpentBefore
    <3>7. CASE q.asked = "stream"
      <4>1. q.sent[p] <= (MaxRetries + 1) + (MaxRetries + 1)
        BY <3>3, <3>4, <3>6, <3>9
      <4> QED BY <3>3, <3>4, <3>7, <4>1 DEF q
    <3>8. CASE q.asked # "stream"
      <4>1. q.sent[p] <= MaxRetries + 1
        BY <3>3, <3>4, <3>5, <3>6, <3>8, <3>9
      <4> QED BY <3>3, <3>4, <3>8, <4>1 DEF q
    <3> QED BY <3>7, <3>8
  <2> QED BY <2>1, <2>2 DEF SendsAreBounded
<1> QED BY <1>1, AdapterInvariance, PTL

\* Wherever a stream breaks and whatever follows it, no provider gives the caller
\* its content twice in one loop.
THEOREM ContentOnce == AdapterSpec => []NoContentTwiceFromOneLoop
<1>1. AdapterInv => NoContentTwiceFromOneLoop
  BY DEF AdapterInv, CallInv, Contents, NoContentTwiceFromOneLoop
<1> QED BY <1>1, AdapterInvariance, PTL

\* A request that fails has called every provider that was healthy when its last
\* loop began, even when breakers open between its attempts.
THEOREM FailureIsLastWord == AdapterSpec => []EveryProviderTried
<1>1. AdapterInv => EveryProviderTried
  <2> SUFFICES ASSUME AdapterInv, NEW r \in Requests, request[r].result = "failed", NEW p \in request[r].able
               PROVE  <<request[r].mode, p>> \in request[r].tried
    BY DEF EveryProviderTried
  <2>1. request[r] \in CallStates /\ CallFlow(request[r]) /\ Tries(request[r])
    BY DEF AdapterInv, CallInv
  <2>2. PICK j \in 1..Len(Providers) : Providers[j] = p
    BY <2>1, CallTypes, Positions
  <2>3. j < request[r].i
    BY <2>1, CallTypes, Positions DEF CallFlow
  <2> QED BY <2>1, <2>2, <2>3 DEF Tries
<1> QED BY <1>1, AdapterInvariance, PTL

-----------------------------------------------------------------------------
(* An open breaker shields its provider *)

\* Open, and the reset timeout after its last failure is not over.
Resting(b, t) == b.state = "OPEN" /\ t - b.lastFailure < ResetTimeout

\* It stays so at this moment of the clock, and nothing is sent past it.
Shields(o, p) ==
  /\ Resting(breaker'[o][p], now)
  /\ \A u \in Requests : Owner(u) = o => request'[u].sent[p] = request[u].sent[p]

\* Asking it, and answers that come late, good or bad, do not open it to requests.
LEMMA RestingStays ==
  ASSUME NEW t \in Nat, NEW b, Sound(b, t), Resting(b, t)
  PROVE  /\ ~CanExecute(b, t) /\ AfterCanExecute(b, t) = b /\ RecordSuccess(b) = b
         /\ Resting(RecordFailure(b, t), t) /\ Resting(RecordFailure(RecordFailure(b, t), t), t)
<1>1. b \in Breakers /\ b.state = "OPEN" /\ b.lastFailure \in Nat /\ b.lastFailure <= t /\ t - b.lastFailure < ResetTimeout
  BY DEF Sound, Resting, Breakers
<1>2. ResetTimeout \in Nat
  BY BreakerAssumption
<1>3. ~CanExecute(b, t)
  BY <1>1, <1>2 DEF CanExecute
<1>4. AfterCanExecute(b, t) = b /\ RecordSuccess(b) = b
  BY <1>1, <1>3 DEF AfterCanExecute, RecordSuccess
<1>5. ASSUME NEW c \in Breakers, c.state = "OPEN"
      PROVE  RecordFailure(c, t) \in Breakers /\ Resting(RecordFailure(c, t), t)
  <2> DEFINE late == [c EXCEPT !.lastFailure = t]
  <2>1. RecordFailure(c, t) = late
    BY <1>5 DEF RecordFailure
  <2>2. late \in Breakers /\ late.state = "OPEN" /\ late.lastFailure = t
    BY <1>5 DEF Breakers
  <2> HIDE DEF late
  <2> QED BY <1>1, <1>2, <2>1, <2>2 DEF Resting
<1> QED BY <1>1, <1>3, <1>4, <1>5 DEF Resting

\* What follows an answer counts no request.
LEMMA SentStays ==
  ASSUME NEW q \in CallStates, NEW retryable \in BOOLEAN, NEW inTime \in BOOLEAN
  PROVE  NextProvider(q).sent = q.sent /\ AfterError(q, retryable, inTime).sent = q.sent /\ Deliver(q).sent = q.sent
<1>1. NextProvider(q).sent = q.sent
  BY DEF NextProvider, CallStates
<1>2. [q EXCEPT !.retry = @ + 1, !.pc = "sleep"].sent = q.sent
  BY DEF CallStates
<1>3. Deliver(q).sent = q.sent
  BY DEF Deliver, CallStates
<1> QED BY <1>1, <1>2, <1>3 DEF AfterError

\* What a step of the call r has to show.
LEMMA LocalShields ==
  ASSUME AdapterInv, NEW o \in Owners, NEW p \in ProviderSet, Resting(breaker[o][p], now),
         NEW r \in Requests, NEW f, request' = [request EXCEPT ![r] = f], Owner(r) = o => f.sent[p] = request[r].sent[p],
         \/ UNCHANGED breaker
         \/ \E x \in ProviderSet, c \in Breakers : /\ breaker' = [breaker EXCEPT ![Owner(r)][x] = c]
                                                   /\ Owner(r) = o /\ x = p => Resting(c, now)
         \/ \E c \in [ProviderSet -> Breakers] : /\ breaker' = [breaker EXCEPT ![Owner(r)] = c]
                                                 /\ Owner(r) = o => Resting(c[p], now)
  PROVE  Shields(o, p)
<1>1. request \in [Requests -> CallStates] /\ breaker \in [Owners -> [ProviderSet -> Breakers]]
  BY DEF AdapterInv
<1>2. \A u \in Requests : Owner(u) = o => request'[u].sent[p] = request[u].sent[p]
  BY <1>1
<1>3. Resting(breaker'[o][p], now)
  <2>1. CASE UNCHANGED breaker
    BY <2>1
  <2>2. ASSUME NEW x \in ProviderSet, NEW c \in Breakers, breaker' = [breaker EXCEPT ![Owner(r)][x] = c],
               Owner(r) = o /\ x = p => Resting(c, now)
        PROVE  Resting(breaker'[o][p], now)
    <3>1. CASE Owner(r) = o /\ x = p
      <4>1. breaker'[o][p] = c
        BY <1>1, <2>2, <3>1
      <4> QED BY <2>2, <3>1, <4>1
    <3>2. CASE ~(Owner(r) = o /\ x = p)
      <4>1. breaker'[o][p] = breaker[o][p]
        BY <1>1, <2>2, <3>2
      <4> QED BY <4>1
    <3> QED BY <3>1, <3>2
  <2>3. ASSUME NEW c \in [ProviderSet -> Breakers], breaker' = [breaker EXCEPT ![Owner(r)] = c],
               Owner(r) = o => Resting(c[p], now)
        PROVE  Resting(breaker'[o][p], now)
    <3>1. breaker'[o][p] = IF Owner(r) = o THEN c[p] ELSE breaker[o][p]
      BY <1>1, <2>3
    <3> QED BY <2>3, <3>1
  <2> QED BY <2>1, <2>2, <2>3
<1> QED BY <1>2, <1>3 DEF Shields

\* An answer to r, good or bad, after which the breaker of its provider is c.
LEMMA AnswerShields ==
  ASSUME AdapterInv, NEW o \in Owners, NEW p \in ProviderSet, Resting(breaker[o][p], now),
         NEW r \in setting.requests, NEW mode, Waiting(r, mode),
         NEW f, f.sent = request[r].sent, request' = [request EXCEPT ![r] = f],
         NEW c, c \in {RecordSuccess(breaker[Owner(r)][Target(request[r])]),
                       RecordFailure(breaker[Owner(r)][Target(request[r])], now),
                       RecordFailure(RecordSuccess(breaker[Owner(r)][Target(request[r])]), now),
                       RecordFailure(RecordFailure(breaker[Owner(r)][Target(request[r])], now), now)},
         breaker' = [breaker EXCEPT ![Owner(r)][Target(request[r])] = c]
  PROVE  Shields(o, p)
<1> DEFINE x == Target(request[r])
           b == breaker[Owner(r)][x]
<1>1. x \in ProviderSet /\ r \in Requests /\ now \in Nat
  BY CallFacts, OpenFacts
<1>2. Sound(b, now)
  BY <1>1, CallFacts
<1>3. c \in Breakers
  <2>1. Sound(RecordSuccess(b), now) /\ Sound(RecordFailure(b, now), now)
    BY <1>1, <1>2, BreakerKeeps
  <2>2. Sound(RecordFailure(RecordSuccess(b), now), now) /\ Sound(RecordFailure(RecordFailure(b, now), now), now)
    BY <1>1, <2>1, BreakerKeeps
  <2> HIDE DEF b
  <2> QED BY <2>1, <2>2 DEF Sound, b
<1>4. ASSUME Owner(r) = o, x = p PROVE Resting(c, now)
  <2>1. Resting(b, now)
    BY <1>4
  <2>2. /\ RecordSuccess(b) = b /\ Resting(RecordFailure(b, now), now)
        /\ Resting(RecordFailure(RecordFailure(b, now), now), now)
    BY <1>1, <1>2, <2>1, RestingStays
  <2>3. c \in {RecordSuccess(b), RecordFailure(b, now), RecordFailure(RecordSuccess(b), now),
               RecordFailure(RecordFailure(b, now), now)}
    OBVIOUS
  <2> HIDE DEF b
  <2> QED BY <2>1, <2>2, <2>3
<1>5. breaker' = [breaker EXCEPT ![Owner(r)][x] = c]
  OBVIOUS
<1> HIDE DEF x, b
<1> QED BY <1>1, <1>3, <1>4, <1>5, LocalShields

\* A loop begins: every breaker is asked, and none that rests gives way.
LEMMA EnterShields ==
  ASSUME AdapterInv, NEW o \in Owners, NEW p \in ProviderSet, Resting(breaker[o][p], now),
         NEW r \in setting.requests, NEW q \in CallStates, q.sent = request[r].sent, NEW mode, Enter(r, q, mode)
  PROVE  Shields(o, p)
<1> DEFINE c == [x \in ProviderSet |-> AfterCanExecute(breaker[Owner(r)][x], now)]
<1>1. breaker' = [breaker EXCEPT ![Owner(r)] = c]
  BY CallFacts DEF Enter, AskEveryBreaker
<1>2. r \in Requests /\ now \in Nat
  BY CallFacts
<1>3. \A x \in ProviderSet : Sound(AfterCanExecute(breaker[Owner(r)][x], now), now)
  BY CallFacts, BreakerKeeps
<1>4. c \in [ProviderSet -> Breakers]
  BY <1>3 DEF Sound
<1>5. ASSUME Owner(r) = o PROVE Resting(c[p], now)
  <2>1. Sound(breaker[o][p], now)
    BY DEF AdapterInv
  <2>2. AfterCanExecute(breaker[o][p], now) = breaker[o][p]
    BY <1>2, <2>1, RestingStays
  <2> QED BY <1>5, <2>2
<1>6. PICK f : request' = [request EXCEPT ![r] = f] /\ f.sent = q.sent
  <2> DEFINE healthy == GetHealthyProviders(r)
             able == IF mode = "stream" THEN healthy \cap Streamers ELSE healthy
             place == IF healthy = {} THEN "done" ELSE "call"
             result == IF healthy = {} THEN "failed" ELSE q.result
             f == [q EXCEPT !.mode = mode, !.able = able, !.i = From(able, 1), !.pc = place, !.result = result]
  <2>1. request' = [request EXCEPT ![r] = f]
    BY DEF Enter, CallStates
  <2>2. f.sent = q.sent
    <3> HIDE DEF able, place, result
    <3> QED BY DEF CallStates
  <2> HIDE DEF f
  <2> QED BY <2>1, <2>2
<1> HIDE DEF c
<1> QED BY <1>1, <1>2, <1>4, <1>5, <1>6, LocalShields

\* A provider is called: past a breaker that rests nothing is sent.
LEMMA CallShields ==
  ASSUME AdapterInv, NEW o \in Owners, NEW p \in ProviderSet, Resting(breaker[o][p], now),
         NEW r \in setting.requests, CallProvider(r)
  PROVE  Shields(o, p)
<1> DEFINE q == request[r]
           x == Target(q)
           b == breaker[Owner(r)][x]
           called == [q EXCEPT !.tried = @ \cup {<<q.mode, x>>}]
           opened == [called EXCEPT !.pc = "open", !.yielded = FALSE, !.sent[x] = @ + 1]
           f == IF CanExecute(b, now) THEN opened ELSE NextProvider(called)
<1>1. /\ q.pc = "call" /\ q.i <= Len(Providers) /\ request' = [request EXCEPT ![r] = f]
  BY DEF CallProvider
<1>2. r \in Requests /\ now \in Nat /\ q \in CallStates
  BY CallFacts
<1>3. x \in ProviderSet
  BY <1>1, <1>2, CallTypes, Positions DEF Target
<1>4. breaker' = [breaker EXCEPT ![Owner(r)][x] = AfterCanExecute(b, now)]
  BY <1>3, CallFacts DEF CallProvider
<1>5. Sound(b, now)
  BY <1>3, CallFacts
<1>6. AfterCanExecute(b, now) \in Breakers
  BY <1>2, <1>5, BreakerKeeps DEF Sound
<1>7. ASSUME Owner(r) = o, x = p PROVE Resting(AfterCanExecute(b, now), now) /\ ~CanExecute(b, now)
  BY <1>2, <1>5, <1>7, RestingStays
<1>8. called \in CallStates /\ called.sent = q.sent
  <2>1. <<q.mode, x>> \in Passes
    BY <1>2, <1>3, CallTypes DEF Passes
  <2> HIDE DEF q, x
  <2> QED BY <1>2, <2>1 DEF CallStates
<1>9. ASSUME Owner(r) = o PROVE f.sent[p] = q.sent[p]
  <2>1. CASE x = p
    <3>1. f = NextProvider(called)
      BY <1>7, <1>9, <2>1
    <3> HIDE DEF f, called
    <3> QED BY <1>8, <3>1, SentStays
  <2>2. CASE x # p
    <3>1. NextProvider(called).sent = q.sent
      <4> HIDE DEF called
      <4> QED BY <1>8, SentStays
    <3>2. opened.sent[p] = q.sent[p]
      <4>1. opened.sent = [called.sent EXCEPT ![x] = @ + 1]
        <5> HIDE DEF called
        <5> QED BY <1>8 DEF CallStates
      <4>2. called.sent \in [ProviderSet -> Nat]
        BY <1>8, CallTypes
      <4> HIDE DEF opened, called, x
      <4> QED BY <1>8, <2>2, <4>1, <4>2
    <3> HIDE DEF opened, called
    <3> QED BY <3>1, <3>2
  <2> QED BY <2>1, <2>2
<1> HIDE DEF f, b, x
<1> QED BY <1>1, <1>2, <1>3, <1>4, <1>6, <1>7, <1>9, LocalShields

\* One case for each action.
LEMMA ShieldStep ==
  ASSUME AdapterInv, AdapterNext, NEW o \in Owners, NEW p \in ProviderSet, Resting(breaker[o][p], now)
  PROVE  Shields(o, p)
<1>1. ASSUME NEW r \in setting.requests, NEW kind \in setting.kinds, StartCall(r, kind) PROVE Shields(o, p)
  <2>1. kind \in Loops /\ request[r] \in CallStates
    BY CallFacts, FailoverAssumption DEF AdapterInv, Loops
  <2>2. [request[r] EXCEPT !.asked = kind] \in CallStates /\ [request[r] EXCEPT !.asked = kind].sent = request[r].sent
    BY <2>1 DEF CallStates
  <2> QED BY <1>1, <2>2, EnterShields DEF StartCall
<1>2. ASSUME NEW r \in setting.requests, Proceed(r) PROVE Shields(o, p)
  <2>1. request[r] \in CallStates /\ r \in Requests
    BY CallFacts
  <2>2. CASE CallProvider(r)
    BY <2>2, CallShields
  <2>3. CASE FallBack(r)
    BY <2>1, <2>3, EnterShields DEF FallBack
  <2>4. CASE AllProvidersFailed(r) \/ Wake(r)
    <3>1. PICK f : request' = [request EXCEPT ![r] = f] /\ f.sent = request[r].sent /\ breaker' = breaker
      <4>1. CASE AllProvidersFailed(r)
        <5> DEFINE f == [request[r] EXCEPT !.pc = "done", !.result = "failed"]
        <5>1. request' = [request EXCEPT ![r] = f] /\ f.sent = request[r].sent /\ breaker' = breaker
          BY <2>1, <4>1 DEF AllProvidersFailed, CallStates, AdapterInv
        <5> QED BY <5>1
      <4>2. CASE Wake(r)
        <5> DEFINE f == [request[r] EXCEPT !.pc = "call"]
        <5>1. request' = [request EXCEPT ![r] = f] /\ f.sent = request[r].sent /\ breaker' = breaker
          BY <2>1, <4>2 DEF Wake, CallStates, AdapterInv
        <5> QED BY <5>1
      <4> QED BY <2>4, <4>1, <4>2
    <3> QED BY <2>1, <3>1, LocalShields
  <2> QED BY <1>2, <2>2, <2>3, <2>4 DEF Proceed
<1>3. ASSUME NEW r \in setting.requests, Answer(r) PROVE Shields(o, p)
  <2> DEFINE q == request[r]
             b == breaker[Owner(r)][Target(q)]
  <2>1. q \in CallStates /\ r \in Requests /\ TRUE \in BOOLEAN
    BY CallFacts
  <2>2. breaker \in [Owners -> [ProviderSet -> Breakers]] /\ Owner(r) \in Owners
    BY CallFacts
  <2>3. ASSUME NEW mode, Waiting(r, mode) PROVE Target(q) \in ProviderSet
    BY <2>3, OpenFacts
  <2>4. CASE CompleteAnswers(r)
    <3> DEFINE f == [Deliver(q) EXCEPT !.pc = "done", !.result = "ok"]
    <3>1. Waiting(r, "complete") /\ request' = [request EXCEPT ![r] = f]
      BY <2>4 DEF CompleteAnswers
    <3>2. breaker' = [breaker EXCEPT ![Owner(r)][Target(q)] = RecordSuccess(b)]
      BY <2>2, <2>3, <2>4, <3>1 DEF CompleteAnswers
    <3>3. f.sent = q.sent
      BY <2>1 DEF Deliver, CallStates
    <3> HIDE DEF f
    <3> QED BY <3>1, <3>2, <3>3, AnswerShields
  <2>5. CASE StreamEnds(r)
    <3> DEFINE f == [q EXCEPT !.pc = "done", !.result = "ok"]
    <3>1. Waiting(r, "stream") /\ request' = [request EXCEPT ![r] = f]
      BY <2>1, <2>5 DEF StreamEnds, AdapterInv
    <3>2. breaker' = [breaker EXCEPT ![Owner(r)][Target(q)] = RecordSuccess(b)]
      BY <2>2, <2>3, <2>5, <3>1 DEF StreamEnds
    <3>3. f.sent = q.sent
      BY <2>1 DEF CallStates
    <3> HIDE DEF f
    <3> QED BY <3>1, <3>2, <3>3, AnswerShields
  <2>6. ASSUME NEW mode, Waiting(r, mode), NEW retryable \in BOOLEAN, NEW inTime \in BOOLEAN,
               request' = [request EXCEPT ![r] = AfterError(q, retryable, inTime)],
               NEW c, c \in {RecordFailure(b, now), RecordFailure(RecordSuccess(b), now),
                             RecordFailure(RecordFailure(b, now), now)},
               breaker' = [breaker EXCEPT ![Owner(r)][Target(q)] = c]
        PROVE  Shields(o, p)
    <3>1. AfterError(q, retryable, inTime).sent = q.sent
      BY <2>1, SentStays
    <3> QED BY <2>6, <3>1, AnswerShields
  <2>7. ASSUME NEW inTime \in BOOLEAN, NEW retryable \in BOOLEAN, CompleteFails(r, retryable, inTime) PROVE Shields(o, p)
    <3>1. Waiting(r, "complete") /\ request' = [request EXCEPT ![r] = AfterError(q, retryable, inTime)]
      BY <2>7 DEF CompleteFails
    <3>2. breaker' = [breaker EXCEPT ![Owner(r)][Target(q)] = RecordFailure(b, now)]
      BY <2>2, <2>3, <2>7, <3>1 DEF CompleteFails
    <3> QED BY <2>6, <3>1, <3>2
  <2>8. ASSUME NEW inTime \in BOOLEAN, StreamEndsEmpty(r, inTime) PROVE Shields(o, p)
    <3>1. Waiting(r, "stream") /\ request' = [request EXCEPT ![r] = AfterError(q, TRUE, inTime)]
      BY <2>8 DEF StreamEndsEmpty
    <3>2. breaker' = [breaker EXCEPT ![Owner(r)][Target(q)] = RecordFailure(RecordSuccess(b), now)]
      BY <2>2, <2>3, <2>8, <3>1 DEF StreamEndsEmpty
    <3> QED BY <2>1, <2>6, <3>1, <3>2
  <2>9. ASSUME NEW inTime \in BOOLEAN, StreamRefused(r, inTime) PROVE Shields(o, p)
    <3>1. Waiting(r, "stream") /\ request' = [request EXCEPT ![r] = AfterError(q, TRUE, inTime)]
      BY <2>9 DEF StreamRefused
    <3>2. breaker' = [breaker EXCEPT ![Owner(r)][Target(q)] = RecordFailure(RecordFailure(b, now), now)]
      BY <2>2, <2>3, <2>9, <3>1 DEF StreamRefused
    <3> QED BY <2>1, <2>6, <3>1, <3>2
  <2>10. ASSUME NEW inTime \in BOOLEAN, StreamBreaks(r, inTime) PROVE Shields(o, p)
    <3>1. Waiting(r, "stream") /\ request' = [request EXCEPT ![r] = AfterError(q, TRUE, inTime)]
      BY <2>10 DEF StreamBreaks
    <3>2. breaker' = [breaker EXCEPT ![Owner(r)][Target(q)] = RecordFailure(b, now)]
      BY <2>2, <2>3, <2>10, <3>1 DEF StreamBreaks
    <3> QED BY <2>1, <2>6, <3>1, <3>2
  <2> QED BY <1>3, <2>4, <2>5, <2>7, <2>8, <2>9, <2>10 DEF Answer
<1>4. ASSUME NEW r \in setting.requests, StreamChunk(r) PROVE Shields(o, p)
  <2> DEFINE f == [Deliver(request[r]) EXCEPT !.yielded = TRUE, !.yieldedAny = TRUE]
  <2>1. request[r] \in CallStates /\ r \in Requests
    BY CallFacts
  <2>2. request' = [request EXCEPT ![r] = f] /\ breaker' = breaker
    BY <1>4 DEF StreamChunk
  <2>3. f.sent = request[r].sent
    BY <2>1 DEF Deliver, CallStates
  <2> HIDE DEF f
  <2> QED BY <2>1, <2>2, <2>3, LocalShields
<1>5. CASE Tick
  BY <1>5 DEF Tick, Shields
<1> QED BY <1>1, <1>2, <1>3, <1>4, <1>5 DEF AdapterNext

\* An open breaker shields its provider for the reset timeout after the last failure,
\* in either scope: no request that uses the breaker is sent to the provider, and
\* neither a canExecute of any request nor an answer that comes late, a success
\* included, ends its rest.
THEOREM OpenBreakersShield ==
  AdapterSpec => [][\A o \in Owners, p \in ProviderSet : Resting(breaker[o][p], now) => Shields(o, p)]_adapterVars
<1>1. AdapterInv /\ [AdapterNext]_adapterVars =>
        [\A o \in Owners, p \in ProviderSet : Resting(breaker[o][p], now) => Shields(o, p)]_adapterVars
  BY ShieldStep
<1> QED BY <1>1, AdapterInvariance, PTL DEF AdapterSpec
=============================================================================
