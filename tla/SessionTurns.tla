---------------------------- MODULE SessionTurns ----------------------------
(***************************************************************************)
(* The turns of one session: user messages from the web API, messages from *)
(* messaging webhooks, auto-continued turns for terminal background-run    *)
(* notifications and turns that carry the answer to an ask_user question.  *)
(*                                                                         *)
(* SessionBusyTracker is the per-session slot (running, queue,             *)
(* idleCallbacks); the schedulers of synthetic turns check it, claim their *)
(* row, and hold it while MessageProcessor.process runs.  process races    *)
(* the real processor against a timeout, so a processor may outlive its    *)
(* turn.  In every processor the foreground agent collects the session's   *)
(* pending notifications into the model's context.                         *)
(*                                                                         *)
(* A synthetic turn is named by the background run or the ask it is for.   *)
(* An action is one synchronous block.                                     *)
(***************************************************************************)
EXTENDS Integers, Sequences, FiniteSets

CONSTANTS
  UserTurns,      \* POST /sessions/:id/messages
  WebhookTurns,   \* messages received by messaging-webhooks.ts
  Notifs,         \* background runs of the session that end
  Asks,           \* ask_user questions of the session
  AutoContinue,   \* is a parentTurnTrigger configured?
  MaxRestarts     \* bound: process restarts

Turns == UserTurns \cup WebhookTurns \cup Notifs \cup Asks
Synthetic == Notifs \cup Asks

ASSUME TurnsAssumption ==
  /\ UserTurns \cap (WebhookTurns \cup Synthetic) = {}
  /\ WebhookTurns \cap Synthetic = {} /\ Notifs \cap Asks = {}
ASSUME BoundsAssumption == AutoContinue \in BOOLEAN /\ MaxRestarts \in Nat
ASSUME NamesAssumption == "none" \notin Turns

VARIABLES
  running,        \* SessionBusyEntry.running
  queue,          \* SessionBusyEntry.queue
  idleCallbacks,  \* SessionBusyEntry.idleCallbacks, named by their turn
  pc,             \* where each turn's handler is
  processor,      \* the processor of each turn
  collected,      \* turns whose processor has collected notifications
  saved,          \* notification_type set, or the ask answered
  claimed,        \* notification_delivered_at / response_claimed_at set
  injected,       \* how many model contexts carried it (history)
  restarts        \* process restarts so far (history)

vars == <<running, queue, idleCallbacks, pc, processor, collected,
          saved, claimed, injected, restarts>>

\* "new": not yet there; "queued": waiting in withBusy; "held": given the slot by
\* clearBusy, not resumed yet; "processing": awaiting process; "delivering":
\* awaiting deliverNotification; "retrying": waiting in idleCallbacks;
\* "done": the turn ran; "dropped": its scheduler returned without a turn, or a
\* restart lost it.
Places == {"new", "queued", "held", "processing", "delivering", "retrying", "done", "dropped"}

\* "late": process already answered with TIMEOUT, the processor still runs.
Processors == {"none", "running", "late", "ended"}

Holds(t) == t \notin WebhookTurns /\ pc[t] \in {"held", "processing", "delivering"}
Holders == {t \in Turns : Holds(t)}
Live(t) == processor[t] \in {"running", "late"}

TypeOK ==
  /\ running \in BOOLEAN
  /\ queue \in Seq(UserTurns) /\ idleCallbacks \in Seq(Synthetic)
  /\ pc \in [Turns -> Places] /\ processor \in [Turns -> Processors]
  /\ collected \subseteq Turns
  /\ saved \subseteq Synthetic /\ claimed \subseteq Synthetic
  /\ injected \in [Synthetic -> Nat]
  /\ restarts \in 0..MaxRestarts

Init ==
  /\ running = FALSE /\ queue = <<>> /\ idleCallbacks = <<>>
  /\ pc = [t \in Turns |-> "new"] /\ processor = [t \in Turns |-> "none"]
  /\ collected = {} /\ saved = {} /\ claimed = {}
  /\ injected = [n \in Synthetic |-> 0]
  /\ restarts = 0

-----------------------------------------------------------------------------
(* SessionBusyTracker.clearBusy *)

\* The callbacks of a drain run one after the other.  Each one whose row is
\* still unclaimed claims it and takes the slot; the first to do so leaves the
\* rest to find the session busy, and a retry does not register again.
DrainWinner(cs) == {i \in 1..Len(cs) : /\ cs[i] \notin claimed
                                       /\ \A j \in 1..(i - 1) : cs[j] \in claimed}
Drained == {idleCallbacks[i] : i \in 1..Len(idleCallbacks)}

FaultyClearBusy(t) ==
  /\ pc' = [pc EXCEPT ![t] = "done"]
  /\ running' = FALSE
  /\ UNCHANGED <<queue, idleCallbacks, claimed>>

FaultyClearBusyFree(t) ==
  /\ queue # <<>>
  /\ pc' = [pc EXCEPT ![t] = "done", ![Head(queue)] = "held"]
  /\ queue' = Tail(queue)
  /\ running' = FALSE
  /\ UNCHANGED <<idleCallbacks, claimed>>

FaultyClearBusyLast(t) ==
  /\ queue # <<>>
  /\ pc' = [pc EXCEPT ![t] = "done", ![queue[Len(queue)]] = "held"]
  /\ queue' = SubSeq(queue, 1, Len(queue) - 1)
  /\ UNCHANGED <<running, idleCallbacks, claimed>>

\* Turn t is over: hand the slot to the head of the queue, or free it and drain
\* the idle callbacks.
ClearBusy(t) ==
  \/ /\ queue # <<>>
     /\ pc' = [pc EXCEPT ![t] = "done", ![Head(queue)] = "held"]
     /\ queue' = Tail(queue)
     /\ UNCHANGED <<running, idleCallbacks, claimed>>
  \/ /\ queue = <<>>
     /\ idleCallbacks' = <<>>
     /\ LET winner == {idleCallbacks[i] : i \in DrainWinner(idleCallbacks)}
        IN /\ pc' = [q \in Turns |-> IF q = t THEN "done"
                                     ELSE IF q \in winner THEN "processing"
                                     ELSE IF q \in Drained THEN "dropped" ELSE pc[q]]
           /\ running' = (winner # {})
           /\ claimed' = claimed \cup winner
     /\ UNCHANGED queue

\* Processors: that of t becomes p, those of the turns now processing run.
ProcessorsAfter(t, p) ==
  processor' = [q \in Turns |->
                  IF q = t THEN p
                  ELSE IF pc'[q] = "processing" /\ pc[q] # "processing" THEN "running"
                  ELSE processor[q]]

-----------------------------------------------------------------------------
(* Arrivals *)

\* The messages route: withBusy takes the slot or waits in line.
UserMessage(u) ==
  /\ pc[u] = "new"
  /\ IF running
       THEN /\ queue' = Append(queue, u)
            /\ pc' = [pc EXCEPT ![u] = "queued"]
            /\ UNCHANGED <<running, processor>>
       ELSE /\ running' = TRUE
            /\ pc' = [pc EXCEPT ![u] = "processing"]
            /\ processor' = [processor EXCEPT ![u] = "running"]
            /\ UNCHANGED queue
  /\ UNCHANGED <<idleCallbacks, collected, saved, claimed, injected, restarts>>

\* A waiter resumes with the slot that clearBusy handed to it.
WaiterResumes(u) ==
  /\ pc[u] = "held"
  /\ pc' = [pc EXCEPT ![u] = "processing"]
  /\ processor' = [processor EXCEPT ![u] = "running"]
  /\ UNCHANGED <<running, queue, idleCallbacks, collected, saved, claimed, injected, restarts>>

\* The messaging webhook calls process without the busy tracker.
WebhookMessage(w) ==
  /\ pc[w] = "new"
  /\ pc' = [pc EXCEPT ![w] = "processing"]
  /\ processor' = [processor EXCEPT ![w] = "running"]
  /\ UNCHANGED <<running, queue, idleCallbacks, collected, saved, claimed, injected, restarts>>

\* scheduleBackgroundNotificationTurn / scheduleAskResponseTurn, first call:
\* while busy register one retry, else claim and take the slot.
Schedule(n) ==
  IF running
    THEN /\ idleCallbacks' = Append(idleCallbacks, n)
         /\ pc' = [pc EXCEPT ![n] = "retrying"]
         /\ UNCHANGED <<running, claimed, processor>>
    ELSE /\ claimed' = claimed \cup {n}
         /\ running' = TRUE
         /\ pc' = [pc EXCEPT ![n] = "processing"]
         /\ processor' = [processor EXCEPT ![n] = "running"]
         /\ UNCHANGED idleCallbacks

\* A background run ends: its notification is saved; the trigger, if there is
\* one, schedules the parent turn in the same block.  (The trigger drops an event
\* that arrives before the processor is there.)
BackgroundRunEnds(n, triggered) ==
  /\ pc[n] = "new" /\ n \notin saved
  /\ saved' = saved \cup {n}
  /\ triggered => AutoContinue
  /\ IF triggered THEN Schedule(n)
     ELSE UNCHANGED <<running, idleCallbacks, pc, processor, claimed>>
  /\ UNCHANGED <<queue, collected, injected, restarts>>

\* The answer route accepts one answer per ask and schedules its turn.
AskAnswered(a) ==
  /\ pc[a] = "new" /\ a \notin saved
  /\ saved' = saved \cup {a}
  /\ Schedule(a)
  /\ UNCHANGED <<queue, collected, injected, restarts>>

-----------------------------------------------------------------------------
(* A turn's processor *)

FaultyPending == Notifs \cap saved

Pending == (Notifs \cap saved) \ claimed

\* ForegroundAgent.runTurn: collectParentTurnNotifications marks every pending
\* notification of the session delivered and puts it into the model's context;
\* an ask_response turn adds the answer it carries.
CollectNotifications(t) ==
  /\ Live(t) /\ t \notin collected
  /\ collected' = collected \cup {t}
  /\ claimed' = claimed \cup Pending
  /\ injected' = [n \in Synthetic |->
                    IF n \in Pending \/ (n \in Asks /\ n = t) THEN injected[n] + 1
                    ELSE injected[n]]
  /\ UNCHANGED <<running, queue, idleCallbacks, pc, processor, saved, restarts>>

\* process resolves.  A synthetic turn that failed rolls its claim back; it then
\* delivers its text or its error with the slot still held.  A user turn leaves
\* the slot at once.  p is what has become of the processor.
ProcessAnswers(t, ok, p) ==
  \/ /\ t \in Synthetic
     /\ pc' = [pc EXCEPT ![t] = "delivering"]
     /\ processor' = [processor EXCEPT ![t] = p]
     /\ claimed' = IF ok THEN claimed ELSE claimed \ {t}
     /\ UNCHANGED <<running, queue, idleCallbacks>>
  \/ /\ t \in UserTurns
     /\ ClearBusy(t) /\ ProcessorsAfter(t, p)
  \/ /\ t \in WebhookTurns
     /\ pc' = [pc EXCEPT ![t] = "done"]
     /\ processor' = [processor EXCEPT ![t] = p]
     /\ UNCHANGED <<running, queue, idleCallbacks, claimed>>

\* The processor wins the race; only one that ran the model can succeed.
ProcessorEnds(t, ok) ==
  /\ processor[t] = "running" /\ pc[t] = "processing"
  /\ ok => t \in collected
  /\ ProcessAnswers(t, ok, "ended")
  /\ UNCHANGED <<collected, saved, injected, restarts>>

\* The timeout wins the race: the turn is over, the processor is not.
ProcessTimesOut(t) ==
  /\ processor[t] = "running" /\ pc[t] = "processing"
  /\ ProcessAnswers(t, FALSE, "late")
  /\ UNCHANGED <<collected, saved, injected, restarts>>

LateProcessorEnds(t) ==
  /\ processor[t] = "late"
  /\ processor' = [processor EXCEPT ![t] = "ended"]
  /\ UNCHANGED <<running, queue, idleCallbacks, pc, collected, saved, claimed, injected, restarts>>

\* deliverNotification resolves or throws; either way the slot is released.
DeliveryEnds(n) ==
  /\ pc[n] = "delivering"
  /\ ClearBusy(n)
  /\ ProcessorsAfter(n, processor[n])
  /\ UNCHANGED <<collected, saved, injected, restarts>>

\* A restart loses every turn in progress and the tracker; the claims are rows.
Restart ==
  /\ restarts < MaxRestarts
  /\ restarts' = restarts + 1
  /\ running' = FALSE /\ queue' = <<>> /\ idleCallbacks' = <<>>
  /\ pc' = [t \in Turns |-> IF pc[t] \in {"new", "done"} THEN pc[t] ELSE "dropped"]
  /\ processor' = [t \in Turns |-> IF processor[t] = "none" THEN "none" ELSE "ended"]
  /\ UNCHANGED <<collected, saved, claimed, injected>>

-----------------------------------------------------------------------------
TurnStep(t) ==
  \/ CollectNotifications(t)
  \/ \E ok \in BOOLEAN : ProcessorEnds(t, ok)
  \/ ProcessTimesOut(t)
  \/ LateProcessorEnds(t)

Next ==
  \/ \E u \in UserTurns : UserMessage(u) \/ WaiterResumes(u)
  \/ \E w \in WebhookTurns : WebhookMessage(w)
  \/ \E n \in Notifs, triggered \in BOOLEAN : BackgroundRunEnds(n, triggered)
  \/ \E a \in Asks : AskAnswered(a)
  \/ \E t \in Turns : TurnStep(t)
  \/ \E n \in Synthetic : DeliveryEnds(n)
  \/ Restart

Spec == Init /\ [][Next]_vars

\* A microtask that is ready runs; a processor ends or its timer fires; a
\* delivery settles.
Fairness ==
  /\ \A u \in UserTurns : WF_vars(WaiterResumes(u))
  /\ \A t \in Turns :
       /\ WF_vars(CollectNotifications(t))
       /\ WF_vars(ProcessTimesOut(t) \/ \E ok \in BOOLEAN : ProcessorEnds(t, ok))
  /\ \A n \in Synthetic : WF_vars(DeliveryEnds(n))

FairSpec == Spec /\ Fairness

-----------------------------------------------------------------------------
(* Properties *)

\* The busy bit tells the truth: it is set exactly while one turn owns the slot,
\* through hand-overs, drains, failed turns and failed deliveries.  (Turns of the
\* messaging webhook do not take part.)
BusyIffOneHolder == Cardinality(Holders) = IF running THEN 1 ELSE 0

\* Nobody is stranded: the queue holds exactly the waiting user turns and the
\* idle callbacks exactly the pending retries, each once, and both are empty
\* when the session is idle.
NobodyStranded ==
  /\ ~running => queue = <<>> /\ idleCallbacks = <<>>
  /\ {queue[i] : i \in 1..Len(queue)} = {t \in Turns : pc[t] = "queued"}
  /\ Drained = {t \in Turns : pc[t] = "retrying"}
  /\ Len(queue) = Cardinality({t \in Turns : pc[t] = "queued"})
  /\ Len(idleCallbacks) = Cardinality({t \in Turns : pc[t] = "retrying"})

\* The slot of a session and its two queues agree with the turns, through
\* hand-overs, drains, failures and restarts (session-busy-tracker.ts).
SlotTellsTheTurns == TypeOK /\ BusyIffOneHolder /\ NobodyStranded

\* No notification and no answer enters two model contexts, also when its turn
\* fails or times out, its claim is rolled back and another turn collects it.
InjectedAtMostOnce == \A n \in Synthetic : injected[n] <= 1

\* Unless the process restarts, every message that waits for the session gets
\* its turn.
WaitersAreServed ==
  \A u \in UserTurns : pc[u] = "queued" /\ restarts = MaxRestarts ~> pc[u] = "done"

\* SessionBusyTracker and its users implement a FIFO lock.
Holder == IF running THEN CHOOSE t \in Turns : Holds(t) ELSE "none"
Lock == INSTANCE TurnLock WITH NoTurn <- "none", holder <- Holder, waiting <- queue
IsFifoLock == Lock!Spec
=============================================================================
