------------------------- MODULE SessionTurnsProofs -------------------------
(***************************************************************************)
(* Proofs about SessionTurns, for any turns, notifications and asks and    *)
(* any number of restarts: the slot and its two queues agree with the      *)
(* turns, nothing is injected twice, and the tracker with its users        *)
(* implements the FIFO lock of TurnLock.                                   *)
(*                                                                         *)
(* The slot's invariant names the holder instead of counting holders and   *)
(* says that neither list repeats a turn, which is what a hand-over needs; *)
(* the cardinalities of the checked properties follow from it.             *)
(***************************************************************************)
EXTENDS SessionTurns, SequenceTheorems, FiniteSetTheorems, TLAPS

Members(s) == {s[i] : i \in 1..Len(s)}
NoDuplicates(s) == \A i, j \in 1..Len(s) : s[i] = s[j] => i = j

At(place) == {t \in Turns : pc[t] = place}

OneHolder == IF running THEN \E h \in Turns : Holders = {h} ELSE Holders = {}

SlotInv ==
  /\ OneHolder
  /\ ~running => queue = <<>> /\ idleCallbacks = <<>>
  /\ NoDuplicates(queue) /\ Members(queue) = At("queued")
  /\ NoDuplicates(idleCallbacks) /\ Members(idleCallbacks) = At("retrying")

\* A notification that entered a context stays claimed, for its own turn, the only
\* one that could roll the claim back, is not under way and will not be.  An
\* answer enters a context only through the processor of its own turn.
ContextInv ==
  /\ \A n \in Synthetic : pc[n] = "processing" => n \in claimed
  /\ \A n \in Notifs : injected[n] # 0 => injected[n] = 1 /\ n \in saved /\ n \in claimed /\ pc[n] # "processing"
  /\ \A a \in Asks : injected[a] # 0 => injected[a] = 1 /\ a \in collected

IInv == TypeOK /\ SlotInv

\* What a step may do to the slot and its queue.
SlotStep ==
  \/ UNCHANGED <<running, queue>> /\ Holders' = Holders
  \/ ~running /\ running' /\ UNCHANGED queue
  \/ /\ running /\ UNCHANGED running /\ Holders' = Holders
     /\ \E t \in Turns : queue' = Append(queue, t)
  \/ /\ running /\ queue # <<>> /\ running'
     /\ Holders' = {Head(queue)} /\ queue' = Tail(queue)
  \/ running /\ queue = <<>> /\ UNCHANGED queue
  \/ ~running' /\ queue' = <<>>

-----------------------------------------------------------------------------
(* Sequences without duplicates *)

\* Appending a newcomer.
LEMMA AppendMembers ==
  ASSUME NEW S, NEW s \in Seq(S), NEW e \in S, NoDuplicates(s), e \notin Members(s)
  PROVE  /\ Append(s, e) \in Seq(S) /\ Append(s, e) # <<>>
         /\ NoDuplicates(Append(s, e))
         /\ Members(Append(s, e)) = Members(s) \cup {e}
<1> DEFINE a == Append(s, e)
<1>1. /\ a \in Seq(S) /\ a # <<>> /\ Len(a) = Len(s) + 1 /\ Len(s) \in Nat
      /\ \A i \in 1..Len(s) : a[i] = s[i]
      /\ a[Len(s) + 1] = e
  BY AppendProperties, LenProperties
<1> HIDE DEF a
<1>2. NoDuplicates(a)
  BY <1>1 DEF NoDuplicates, Members
<1>3. Members(a) = Members(s) \cup {e}
  BY <1>1 DEF Members
<1> QED BY <1>1, <1>2, <1>3 DEF a

\* Taking the head.
LEMMA TailMembers ==
  ASSUME NEW S, NEW s \in Seq(S), s # <<>>, NoDuplicates(s)
  PROVE  /\ Head(s) \in S /\ Tail(s) \in Seq(S)
         /\ Head(s) \in Members(s)
         /\ NoDuplicates(Tail(s))
         /\ Members(Tail(s)) = Members(s) \ {Head(s)}
<1> DEFINE t == Tail(s)
<1>1. /\ Head(s) \in S /\ t \in Seq(S) /\ Len(s) \in Nat \ {0}
      /\ Len(t) = Len(s) - 1 /\ Head(s) = s[1]
      /\ \A i \in 1..Len(t) : t[i] = s[i + 1]
  BY HeadTailProperties, LenProperties, EmptySeq
<1> HIDE DEF t
<1>2. Head(s) \in Members(s)
  BY <1>1 DEF Members
<1>3. NoDuplicates(t)
  BY <1>1 DEF NoDuplicates
<1>4. Members(t) = Members(s) \ {Head(s)}
  <2>1. ASSUME NEW x \in Members(t) PROVE x \in Members(s) \ {Head(s)}
    BY <1>1, <2>1 DEF Members, NoDuplicates
  <2>2. ASSUME NEW x \in Members(s), x # Head(s) PROVE x \in Members(t)
    <3>1. PICK i \in 1..Len(s) : x = s[i]
      BY DEF Members
    <3>2. i - 1 \in 1..Len(t) /\ t[i - 1] = s[i]
      BY <1>1, <2>2, <3>1
    <3> QED BY <3>1, <3>2 DEF Members
  <2> QED BY <2>1, <2>2
<1> QED BY <1>1, <1>2, <1>3, <1>4 DEF t

\* Its length counts its members.
LEMMA LenCounts ==
  ASSUME NEW S, NEW s \in Seq(S), NoDuplicates(s)
  PROVE  Len(s) = Cardinality(Members(s))
<1>1. Len(s) \in Nat /\ s \in [1..Len(s) -> S] /\ DOMAIN s = 1..Len(s)
  BY LenProperties
<1>2. s \in [1..Len(s) -> Members(s)]
  BY <1>1 DEF Members
<1>3. s \in Bijection(1..Len(s), Members(s))
  BY <1>1, <1>2 DEF Bijection, Injection, IsInjective, Surjection, Members, NoDuplicates
<1>4. ExistsBijection(1..Len(s), Members(s))
  BY <1>3 DEF ExistsBijection
<1> QED BY <1>1, <1>4, FS_CountingElements

-----------------------------------------------------------------------------
(* The slot *)

\* What clearBusy leaves behind when the holder's turn is over.
LEMMA ClearBusyKeeps ==
  ASSUME TypeOK, SlotInv, NEW t \in Turns, Holds(t), ClearBusy(t)
  PROVE  /\ pc' \in [Turns -> Places] /\ running' \in BOOLEAN
         /\ queue' \in Seq(UserTurns) /\ idleCallbacks' \in Seq(Synthetic)
         /\ claimed' \subseteq Synthetic
         /\ SlotInv' /\ SlotStep
<1>0. /\ Holders = {t} /\ running
  BY DEF SlotInv, OneHolder, Holders
<1>1. CASE queue # <<>>
  <2> DEFINE h == Head(queue)
  <2>1. /\ pc' = [pc EXCEPT ![t] = "done", ![h] = "held"]
        /\ queue' = Tail(queue) /\ UNCHANGED <<running, idleCallbacks, claimed>>
    BY <1>1 DEF ClearBusy
  <2>2. /\ h \in UserTurns /\ Tail(queue) \in Seq(UserTurns) /\ h \in Members(queue)
        /\ NoDuplicates(Tail(queue)) /\ Members(Tail(queue)) = Members(queue) \ {h}
    BY <1>1, TailMembers DEF TypeOK, SlotInv
  <2>3. h \in Turns /\ pc[h] = "queued" /\ h \notin WebhookTurns /\ h # t
    BY <2>2, TurnsAssumption DEF SlotInv, At, Turns, Holds, Synthetic
  <2> HIDE DEF h
  <2>4. /\ pc' \in [Turns -> Places]
        /\ \A q \in Turns : pc'[q] = IF q = h THEN "held" ELSE IF q = t THEN "done" ELSE pc[q]
    BY <2>1, <2>3 DEF TypeOK, Places
  <2>5. Holders' = {h}
    BY <1>0, <2>3, <2>4 DEF Holders, Holds
  <2>6. /\ At("queued")' = At("queued") \ {h}
        /\ At("retrying")' = At("retrying")
    BY <2>3, <2>4 DEF At, Holds
  <2>7. SlotStep
    BY <1>0, <1>1, <2>1, <2>5 DEF SlotStep, h
  <2> QED BY <1>0, <2>1, <2>2, <2>3, <2>4, <2>5, <2>6, <2>7 DEF SlotInv, OneHolder, TypeOK
<1>2. CASE queue = <<>>
  <2> DEFINE winner == {idleCallbacks[i] : i \in DrainWinner(idleCallbacks)}
  <2>1. /\ idleCallbacks' = <<>> /\ queue' = queue
        /\ pc' = [q \in Turns |-> IF q = t THEN "done"
                                  ELSE IF q \in winner THEN "processing"
                                  ELSE IF q \in Drained THEN "dropped" ELSE pc[q]]
        /\ running' = (winner # {})
        /\ claimed' = claimed \cup winner
    BY <1>2 DEF ClearBusy
  <2>2. winner \subseteq Drained /\ \A x, y \in winner : x = y
    BY LenProperties DEF DrainWinner, Drained, TypeOK
  <2>3. Drained = At("retrying") /\ Drained \subseteq Synthetic /\ Drained \subseteq Turns
    BY ElementOfSeq DEF SlotInv, Members, Drained, TypeOK, Turns, Synthetic
  <2> HIDE DEF winner
  <2>4. t \notin Drained
    BY <2>3 DEF At, Holds
  <2>5. /\ pc' \in [Turns -> Places]
        /\ \A q \in Turns : pc'[q] = IF q = t THEN "done" ELSE IF q \in winner THEN "processing"
                                      ELSE IF q \in Drained THEN "dropped" ELSE pc[q]
    BY <2>1 DEF TypeOK, Places
  <2>6. Holders' = winner
    <3>1. \A q \in winner : q \notin WebhookTurns
      BY <2>2, <2>3, TurnsAssumption
    <3> QED BY <1>0, <2>2, <2>3, <2>4, <2>5, <3>1 DEF Holders, Holds
  <2>7. At("queued")' = At("queued") /\ At("retrying")' = {}
    <3>1. t \in Turns /\ pc[t] \notin {"queued", "retrying"}
      BY DEF Holds
    <3>2. \A q \in Turns : pc'[q] = "queued" <=> pc[q] = "queued"
      BY <2>2, <2>3, <2>5, <3>1 DEF At
    <3>3. \A q \in Turns : pc'[q] # "retrying"
      BY <2>3, <2>5 DEF At
    <3> QED BY <3>2, <3>3 DEF At
  <2>8. Members(<<>>) = {} /\ NoDuplicates(<<>>) /\ <<>> \in Seq(Synthetic)
    BY EmptySeq DEF Members, NoDuplicates
  <2>9. OneHolder'
    <3>1. CASE winner = {}
      BY <2>1, <2>6, <3>1 DEF OneHolder
    <3>2. CASE winner # {}
      <4>1. PICK h \in winner : TRUE
        BY <3>2
      <4>2. winner = {h} /\ h \in Turns
        BY <2>2, <2>3, <4>1
      <4>3. running' /\ Holders' = {h}
        BY <2>1, <2>6, <3>2, <4>2
      <4> QED BY <4>2, <4>3 DEF OneHolder
    <3> QED BY <3>1, <3>2
  <2>10. running' \in BOOLEAN /\ claimed' \subseteq Synthetic
    BY <2>1, <2>2, <2>3 DEF TypeOK
  <2>11. SlotStep
    BY <1>0, <1>2, <2>1 DEF SlotStep
  <2> QED BY <1>2, <2>1, <2>5, <2>7, <2>8, <2>9, <2>10, <2>11 DEF SlotInv, TypeOK
<1> QED BY <1>1, <1>2

\* A turn that moves between two places outside the queues, as the holder or not.
LEMMA MoveKeeps ==
  ASSUME TypeOK, SlotInv, NEW t \in Turns, NEW p \in Places,
         pc[t] \notin {"queued", "retrying"}, p \notin {"queued", "retrying"},
         pc' = [pc EXCEPT ![t] = p],
         UNCHANGED <<running, queue, idleCallbacks>>,
         t \in WebhookTurns \/ ((pc[t] \in {"held", "processing", "delivering"})
                               <=> (p \in {"held", "processing", "delivering"}))
  PROVE  pc' \in [Turns -> Places] /\ SlotInv' /\ SlotStep
<1>1. /\ pc' \in [Turns -> Places]
      /\ \A q \in Turns : pc'[q] = IF q = t THEN p ELSE pc[q]
  BY DEF TypeOK
<1>2. Holders' = Holders /\ At("queued")' = At("queued") /\ At("retrying")' = At("retrying")
  BY <1>1 DEF Holders, Holds, At
<1> QED BY <1>1, <1>2 DEF SlotInv, OneHolder, SlotStep

\* A turn that takes the free slot.
LEMMA TakeKeeps ==
  ASSUME TypeOK, SlotInv, NEW t \in Turns \ WebhookTurns, pc[t] = "new", ~running,
         pc' = [pc EXCEPT ![t] = "processing"], running' = TRUE,
         UNCHANGED <<queue, idleCallbacks>>
  PROVE  pc' \in [Turns -> Places] /\ SlotInv' /\ SlotStep
<1>1. /\ pc' \in [Turns -> Places]
      /\ \A q \in Turns : pc'[q] = IF q = t THEN "processing" ELSE pc[q]
  BY DEF TypeOK, Places
<1>2. Holders' = {t} /\ At("queued")' = At("queued") /\ At("retrying")' = At("retrying")
  BY <1>1 DEF Holders, Holds, At, SlotInv, OneHolder
<1> QED BY <1>1, <1>2 DEF SlotInv, OneHolder, SlotStep

\* The first call of a scheduler takes the slot or registers one retry.
LEMMA ScheduleKeeps ==
  ASSUME TypeOK, SlotInv, NEW n \in Synthetic, pc[n] = "new", Schedule(n), UNCHANGED queue
  PROVE  /\ pc' \in [Turns -> Places] /\ running' \in BOOLEAN
         /\ queue' \in Seq(UserTurns) /\ idleCallbacks' \in Seq(Synthetic)
         /\ claimed' \subseteq Synthetic /\ processor' \in [Turns -> Processors]
         /\ SlotInv' /\ SlotStep
<1>1. n \in Turns \ WebhookTurns
  BY TurnsAssumption DEF Turns, Synthetic
<1>2. CASE running
  <2>1. /\ idleCallbacks' = Append(idleCallbacks, n)
        /\ pc' = [pc EXCEPT ![n] = "retrying"]
        /\ UNCHANGED <<running, claimed, processor>>
    BY <1>2 DEF Schedule
  <2>2. /\ pc' \in [Turns -> Places]
        /\ \A q \in Turns : pc'[q] = IF q = n THEN "retrying" ELSE pc[q]
    BY <1>1, <2>1 DEF TypeOK, Places
  <2>3. /\ Holders' = Holders /\ At("queued")' = At("queued")
        /\ At("retrying")' = At("retrying") \cup {n} /\ n \notin At("retrying")
    BY <1>1, <2>2 DEF Holders, Holds, At
  <2>4. /\ idleCallbacks' \in Seq(Synthetic) /\ NoDuplicates(idleCallbacks')
        /\ Members(idleCallbacks') = Members(idleCallbacks) \cup {n}
    BY <2>1, <2>3, AppendMembers DEF TypeOK, SlotInv
  <2> QED BY <1>2, <2>1, <2>2, <2>3, <2>4 DEF SlotInv, OneHolder, SlotStep, TypeOK
<1>3. CASE ~running
  <2>1. /\ claimed' = claimed \cup {n} /\ running' = TRUE
        /\ pc' = [pc EXCEPT ![n] = "processing"]
        /\ processor' = [processor EXCEPT ![n] = "running"]
        /\ UNCHANGED idleCallbacks
    BY <1>3 DEF Schedule
  <2>2. pc' \in [Turns -> Places] /\ SlotInv' /\ SlotStep
    BY <1>1, <1>3, <2>1, TakeKeeps
  <2> QED BY <1>1, <2>1, <2>2 DEF TypeOK, Processors
<1> QED BY <1>2, <1>3

\* Whoever answers first, the processor or its timer.
LEMMA AnswerKeeps ==
  ASSUME TypeOK, SlotInv, NEW t \in Turns, NEW ok \in BOOLEAN, NEW p \in Processors,
         pc[t] = "processing", ProcessAnswers(t, ok, p)
  PROVE  /\ pc' \in [Turns -> Places] /\ running' \in BOOLEAN
         /\ queue' \in Seq(UserTurns) /\ idleCallbacks' \in Seq(Synthetic)
         /\ claimed' \subseteq Synthetic /\ processor' \in [Turns -> Processors]
         /\ SlotInv' /\ SlotStep
<1>1. CASE t \in UserTurns
  <2>1. ClearBusy(t) /\ ProcessorsAfter(t, p) /\ Holds(t)
    BY <1>1, TurnsAssumption DEF ProcessAnswers, Holds, Synthetic
  <2>2. processor' \in [Turns -> Processors]
    BY <2>1 DEF ProcessorsAfter, TypeOK, Processors
  <2> QED BY <2>1, <2>2, ClearBusyKeeps
<1>2. CASE t \in Synthetic
  <2>1. /\ pc' = [pc EXCEPT ![t] = "delivering"]
        /\ processor' = [processor EXCEPT ![t] = p]
        /\ claimed' = IF ok THEN claimed ELSE claimed \ {t}
        /\ UNCHANGED <<running, queue, idleCallbacks>>
    BY <1>2, TurnsAssumption DEF ProcessAnswers, Synthetic
  <2>2. pc' \in [Turns -> Places] /\ SlotInv' /\ SlotStep
    BY <2>1, MoveKeeps DEF Places
  <2> QED BY <2>1, <2>2 DEF TypeOK
<1>3. CASE t \in WebhookTurns
  <2>1. /\ pc' = [pc EXCEPT ![t] = "done"]
        /\ processor' = [processor EXCEPT ![t] = p]
        /\ UNCHANGED <<running, queue, idleCallbacks, claimed>>
    BY <1>3, TurnsAssumption DEF ProcessAnswers, Synthetic
  <2>2. pc' \in [Turns -> Places] /\ SlotInv' /\ SlotStep
    BY <1>3, <2>1, MoveKeeps DEF Places
  <2> QED BY <2>1, <2>2 DEF TypeOK
<1> QED BY <1>1, <1>2, <1>3 DEF Turns, Synthetic

\* Every step keeps the types and the slot's invariant, and is a step of the slot.
LEMMA NextKeeps ==
  ASSUME IInv, [Next]_vars
  PROVE  IInv' /\ SlotStep
<1> DEFINE Goal == IInv' /\ SlotStep
<1>0. TypeOK /\ SlotInv
  BY DEF IInv
<1>1. ASSUME NEW u \in UserTurns, UserMessage(u) PROVE Goal
  <2>1. u \in Turns \ WebhookTurns
    BY TurnsAssumption DEF Turns
  <2>2. CASE running
    <3>1. /\ queue' = Append(queue, u) /\ pc' = [pc EXCEPT ![u] = "queued"]
          /\ UNCHANGED <<running, processor, idleCallbacks, collected, saved, claimed, injected, restarts>>
      BY <1>1, <2>2 DEF UserMessage
    <3>2. /\ pc' \in [Turns -> Places] /\ pc[u] = "new"
          /\ \A q \in Turns : pc'[q] = IF q = u THEN "queued" ELSE pc[q]
      BY <1>0, <1>1, <2>1, <3>1 DEF TypeOK, Places, UserMessage
    <3>3. /\ Holders' = Holders /\ At("retrying")' = At("retrying")
          /\ At("queued")' = At("queued") \cup {u} /\ u \notin At("queued")
      BY <2>1, <3>2 DEF Holders, Holds, At
    <3>4. /\ queue' \in Seq(UserTurns) /\ NoDuplicates(queue')
          /\ Members(queue') = Members(queue) \cup {u}
      BY <1>0, <3>1, <3>3, AppendMembers DEF TypeOK, SlotInv
    <3>5. TypeOK'
      BY <1>0, <3>1, <3>2, <3>4 DEF TypeOK
    <3>6. SlotInv' /\ SlotStep
      BY <1>0, <2>1, <2>2, <3>1, <3>3, <3>4 DEF SlotInv, OneHolder, SlotStep
    <3> QED BY <3>5, <3>6 DEF IInv
  <2>3. CASE ~running
    <3>1. /\ pc[u] = "new" /\ running' = TRUE /\ pc' = [pc EXCEPT ![u] = "processing"]
          /\ processor' = [processor EXCEPT ![u] = "running"]
          /\ UNCHANGED <<queue, idleCallbacks, collected, saved, claimed, injected, restarts>>
      BY <1>1, <2>3 DEF UserMessage
    <3>2. pc' \in [Turns -> Places] /\ SlotInv' /\ SlotStep
      BY <1>0, <2>1, <2>3, <3>1, TakeKeeps
    <3>3. TypeOK'
      BY <1>0, <2>1, <3>1, <3>2 DEF TypeOK, Processors
    <3> QED BY <3>2, <3>3 DEF IInv
  <2> QED BY <2>2, <2>3
<1>2. ASSUME NEW u \in Turns,
             WaiterResumes(u) \/ (u \in WebhookTurns /\ WebhookMessage(u))
      PROVE  Goal
  <2>1. pc' \in [Turns -> Places] /\ SlotInv' /\ SlotStep
    BY <1>0, <1>2, MoveKeeps DEF WaiterResumes, WebhookMessage, Places
  <2>2. TypeOK'
    BY <1>0, <1>2, <2>1 DEF WaiterResumes, WebhookMessage, TypeOK, Processors
  <2> QED BY <2>1, <2>2 DEF IInv
<1>3. ASSUME NEW n \in Synthetic, pc[n] = "new", saved' = saved \cup {n}, Schedule(n),
             UNCHANGED <<queue, collected, injected, restarts>>
      PROVE  Goal
  <2>1. TypeOK'
    BY <1>0, <1>3, ScheduleKeeps DEF TypeOK
  <2> QED BY <1>0, <1>3, <2>1, ScheduleKeeps DEF IInv
<1>4. ASSUME NEW n \in Notifs, NEW triggered \in BOOLEAN, BackgroundRunEnds(n, triggered)
      PROVE  Goal
  <2>1. CASE triggered
    BY <1>3, <1>4, <2>1 DEF BackgroundRunEnds, Synthetic
  <2>2. CASE ~triggered
    <3>1. /\ saved' = saved \cup {n}
          /\ UNCHANGED <<running, queue, idleCallbacks, pc, processor, collected, claimed, injected, restarts>>
      BY <1>4, <2>2 DEF BackgroundRunEnds
    <3>2. TypeOK'
      BY <1>0, <3>1 DEF TypeOK, Synthetic
    <3>3. SlotInv' /\ SlotStep
      BY <1>0, <3>1 DEF SlotInv, OneHolder, SlotStep, Holders, Holds, At
    <3> QED BY <3>2, <3>3 DEF IInv
  <2> QED BY <2>1, <2>2
<1>5. ASSUME NEW a \in Asks, AskAnswered(a) PROVE Goal
  BY <1>3, <1>5 DEF AskAnswered, Synthetic
<1>6. ASSUME NEW t \in Turns, CollectNotifications(t) PROVE Goal
  <2>1. /\ collected' = collected \cup {t} /\ claimed' = claimed \cup Pending
        /\ injected' = [n \in Synthetic |->
                          IF n \in Pending \/ (n \in Asks /\ n = t) THEN injected[n] + 1 ELSE injected[n]]
        /\ UNCHANGED <<running, queue, idleCallbacks, pc, processor, saved, restarts>>
    BY <1>6 DEF CollectNotifications
  <2>2. TypeOK'
    BY <1>0, <2>1 DEF TypeOK, Pending, Synthetic
  <2>3. SlotInv' /\ SlotStep
    BY <1>0, <2>1 DEF SlotInv, OneHolder, SlotStep, Holders, Holds, At
  <2> QED BY <2>2, <2>3 DEF IInv
<1>7. ASSUME NEW t \in Turns, (\E ok \in BOOLEAN : ProcessorEnds(t, ok)) \/ ProcessTimesOut(t)
      PROVE  Goal
  <2>1. PICK ok \in BOOLEAN, p \in Processors :
          /\ pc[t] = "processing" /\ ProcessAnswers(t, ok, p)
          /\ UNCHANGED <<collected, saved, injected, restarts>>
    BY <1>7 DEF ProcessorEnds, ProcessTimesOut, Processors
  <2>2. TypeOK'
    BY <1>0, <2>1, AnswerKeeps DEF TypeOK
  <2> QED BY <1>0, <2>1, <2>2, AnswerKeeps DEF IInv
<1>8. ASSUME NEW t \in Turns, LateProcessorEnds(t) PROVE Goal
  <2>1. /\ processor' = [processor EXCEPT ![t] = "ended"]
        /\ UNCHANGED <<running, queue, idleCallbacks, pc, collected, saved, claimed, injected, restarts>>
    BY <1>8 DEF LateProcessorEnds
  <2>2. TypeOK'
    BY <1>0, <2>1 DEF TypeOK, Processors
  <2>3. SlotInv' /\ SlotStep
    BY <1>0, <2>1 DEF SlotInv, OneHolder, SlotStep, Holders, Holds, At
  <2> QED BY <2>2, <2>3 DEF IInv
<1>9. ASSUME NEW n \in Synthetic, DeliveryEnds(n) PROVE Goal
  <2>1. n \in Turns /\ Holds(n)
    BY <1>9, TurnsAssumption DEF DeliveryEnds, Holds, Turns, Synthetic
  <2>2. processor' \in [Turns -> Processors]
    BY <1>0, <1>9, <2>1 DEF DeliveryEnds, ProcessorsAfter, TypeOK, Processors
  <2>3. TypeOK'
    BY <1>0, <1>9, <2>1, <2>2, ClearBusyKeeps DEF DeliveryEnds, TypeOK
  <2> QED BY <1>0, <1>9, <2>1, <2>3, ClearBusyKeeps DEF DeliveryEnds, IInv
<1>10. ASSUME Restart PROVE Goal
  <2>1. /\ restarts < MaxRestarts /\ restarts' = restarts + 1
        /\ running' = FALSE /\ queue' = <<>> /\ idleCallbacks' = <<>>
        /\ pc' = [t \in Turns |-> IF pc[t] \in {"new", "done"} THEN pc[t] ELSE "dropped"]
        /\ processor' = [t \in Turns |-> IF processor[t] = "none" THEN "none" ELSE "ended"]
        /\ UNCHANGED <<collected, saved, claimed, injected>>
    BY <1>10 DEF Restart
  <2>2. <<>> \in Seq(UserTurns) /\ <<>> \in Seq(Synthetic)
    BY EmptySeq
  <2>3. restarts' \in 0..MaxRestarts
    BY <1>0, <2>1, BoundsAssumption DEF TypeOK
  <2>4. TypeOK'
    BY <1>0, <2>1, <2>2, <2>3 DEF TypeOK, Places, Processors
  <2>5. Holders' = {} /\ At("queued")' = {} /\ At("retrying")' = {}
    BY <2>1 DEF Holders, Holds, At
  <2>6. Members(<<>>) = {} /\ NoDuplicates(<<>>)
    BY EmptySeq DEF Members, NoDuplicates
  <2>7. SlotInv' /\ SlotStep
    BY <2>1, <2>5, <2>6 DEF SlotInv, OneHolder, SlotStep
  <2> QED BY <2>4, <2>7 DEF IInv
<1>11. ASSUME UNCHANGED vars PROVE Goal
  BY <1>0, <1>11 DEF vars, IInv, TypeOK, SlotInv, OneHolder, SlotStep, Holders, Holds, At
<1> QED
  BY <1>1, <1>2, <1>4, <1>5, <1>6, <1>7, <1>8, <1>9, <1>10, <1>11
  DEF Next, TurnStep, Turns

\* The initial states satisfy the invariant.
LEMMA InitKeeps == Init => IInv
<1> SUFFICES ASSUME Init PROVE IInv
  OBVIOUS
<1>1. Members(<<>>) = {} /\ NoDuplicates(<<>>)
  BY EmptySeq DEF Members, NoDuplicates
<1>2. Holders = {} /\ At("queued") = {} /\ At("retrying") = {}
  BY DEF Init, Holders, Holds, At
<1>3. queue \in Seq(UserTurns) /\ idleCallbacks \in Seq(Synthetic)
  BY EmptySeq DEF Init
<1>4. restarts \in 0..MaxRestarts
  BY BoundsAssumption DEF Init
<1>5. TypeOK
  BY <1>3, <1>4 DEF Init, TypeOK, Places, Processors
<1> QED BY <1>1, <1>2, <1>5 DEF Init, IInv, SlotInv, OneHolder

\* The invariant holds in every reachable state.
THEOREM Invariance == Spec => []IInv
<1>1. IInv /\ [Next]_vars => IInv'
  BY NextKeeps
<1> QED BY InitKeeps, <1>1, PTL DEF Spec

\* The busy bit is set exactly while one turn owns the slot; the queue and the idle
\* callbacks hold exactly the turns that wait, each once, and nobody waits for an
\* idle session (session-busy-tracker.ts).
THEOREM SlotIsTrue == Spec => []SlotTellsTheTurns
<1>1. IInv => SlotTellsTheTurns
  <2> SUFFICES ASSUME TypeOK, SlotInv PROVE SlotTellsTheTurns
    BY DEF IInv
  <2>1. BusyIffOneHolder
    BY FS_EmptySet, FS_Singleton DEF SlotInv, OneHolder, BusyIffOneHolder
  <2>2. /\ Len(queue) = Cardinality(Members(queue))
        /\ Len(idleCallbacks) = Cardinality(Members(idleCallbacks))
    BY LenCounts DEF TypeOK, SlotInv
  <2>3. NobodyStranded
    BY <2>2 DEF SlotInv, NobodyStranded, Members, At, Drained
  <2> QED BY <2>1, <2>3 DEF SlotTellsTheTurns
<1> QED BY Invariance, <1>1, PTL

-----------------------------------------------------------------------------
(* Contexts *)

\* A drain claims what it starts, and clearBusy takes no claim back.
LEMMA ClearBusyClaims ==
  ASSUME TypeOK, NEW t \in Turns, ClearBusy(t)
  PROVE  /\ claimed \subseteq claimed'
         /\ \A q \in Turns : pc'[q] = "processing" /\ q \in Synthetic
                 => pc[q] = "processing" \/ (q \in claimed' /\ q \notin claimed)
<1>1. CASE queue # <<>>
  BY <1>1 DEF ClearBusy, TypeOK
<1>2. CASE queue = <<>>
  <2> DEFINE winner == {idleCallbacks[i] : i \in DrainWinner(idleCallbacks)}
  <2>1. /\ pc' = [q \in Turns |-> IF q = t THEN "done"
                                  ELSE IF q \in winner THEN "processing"
                                  ELSE IF q \in Drained THEN "dropped" ELSE pc[q]]
        /\ claimed' = claimed \cup winner
    BY <1>2 DEF ClearBusy
  <2>2. winner \cap claimed = {}
    BY DEF DrainWinner
  <2> HIDE DEF winner
  <2> QED BY <2>1, <2>2
<1> QED BY <1>1, <1>2

\* Every step keeps what is known of saved, claimed and injected items.
LEMMA ContextKeeps ==
  ASSUME TypeOK, ContextInv, [Next]_vars
  PROVE  ContextInv'
<1> USE DEF ContextInv
<1>1. ASSUME NEW t \in Turns, ClearBusy(t), UNCHANGED <<saved, injected, collected>>
      PROVE  ContextInv'
  BY <1>1, ClearBusyClaims DEF Turns, Synthetic, TypeOK
<1>2. ASSUME NEW n \in Synthetic, pc[n] = "new", n \notin saved, saved' = saved \cup {n}, Schedule(n),
             UNCHANGED <<collected, injected>>
      PROVE  ContextInv'
  BY <1>2 DEF Schedule, TypeOK, Turns, Synthetic
<1>3. ASSUME NEW t \in Turns, CollectNotifications(t)
      PROVE  ContextInv'
  <2>1. /\ t \notin collected /\ collected' = collected \cup {t} /\ claimed' = claimed \cup Pending
        /\ injected' = [n \in Synthetic |->
                          IF n \in Pending \/ (n \in Asks /\ n = t) THEN injected[n] + 1 ELSE injected[n]]
        /\ UNCHANGED <<pc, saved>>
    BY <1>3 DEF CollectNotifications
  <2>2. \A n \in Pending : n \in Notifs /\ n \in saved /\ n \notin claimed /\ n \notin Asks
    BY TurnsAssumption DEF Pending
  <2>3. ASSUME NEW n \in Notifs, injected'[n] # 0
        PROVE  injected'[n] = 1 /\ n \in saved /\ n \in claimed' /\ pc[n] # "processing"
    <3>1. n \in Synthetic /\ n \notin Asks
      BY TurnsAssumption DEF Synthetic
    <3>2. CASE n \in Pending
      BY <2>1, <2>2, <2>3, <3>1, <3>2 DEF TypeOK
    <3>3. CASE n \notin Pending
      BY <2>1, <2>3, <3>1, <3>3
    <3> QED BY <3>2, <3>3
  <2>4. ASSUME NEW a \in Asks, injected'[a] # 0
        PROVE  injected'[a] = 1 /\ a \in collected'
    <3>1. a \in Synthetic /\ a \notin Pending
      BY <2>2 DEF Synthetic
    <3>2. CASE a = t
      BY <2>1, <3>1, <3>2 DEF TypeOK
    <3>3. CASE a # t
      BY <2>1, <2>4, <3>1, <3>3
    <3> QED BY <3>2, <3>3
  <2> QED BY <2>1, <2>3, <2>4
<1>4. ASSUME NEW t \in Turns, (\E ok \in BOOLEAN : ProcessorEnds(t, ok)) \/ ProcessTimesOut(t)
      PROVE  ContextInv'
  <2>1. PICK ok \in BOOLEAN, p \in Processors :
          /\ pc[t] = "processing" /\ ProcessAnswers(t, ok, p)
          /\ UNCHANGED <<collected, saved, injected, restarts>>
    BY <1>4 DEF ProcessorEnds, ProcessTimesOut, Processors
  <2>2. CASE t \in Synthetic /\ pc' = [pc EXCEPT ![t] = "delivering"] /\ claimed \ {t} \subseteq claimed'
    BY <2>1, <2>2 DEF TypeOK, Turns, Synthetic
  <2>3. CASE t \in WebhookTurns /\ pc' = [pc EXCEPT ![t] = "done"] /\ UNCHANGED claimed
    BY <2>1, <2>3 DEF TypeOK, Turns, Synthetic
  <2> QED BY <1>1, <2>1, <2>2, <2>3 DEF ProcessAnswers
<1>5. ASSUME NEW n \in Synthetic, DeliveryEnds(n) PROVE ContextInv'
  BY <1>1, <1>5 DEF DeliveryEnds, Turns, Synthetic
<1>6. ASSUME Restart PROVE ContextInv'
  BY <1>6 DEF Restart, Turns, Synthetic
<1>7. ASSUME NEW t \in UserTurns \cup WebhookTurns,
             UserMessage(t) \/ WaiterResumes(t) \/ WebhookMessage(t)
      PROVE  ContextInv'
  BY <1>7, TurnsAssumption DEF UserMessage, WaiterResumes, WebhookMessage, TypeOK, Turns, Synthetic
<1>8. ASSUME NEW n \in Notifs, NEW triggered \in BOOLEAN, BackgroundRunEnds(n, triggered)
      PROVE  ContextInv'
  BY <1>2, <1>8 DEF BackgroundRunEnds, Synthetic
<1>9. ASSUME NEW a \in Asks, AskAnswered(a) PROVE ContextInv'
  BY <1>2, <1>9 DEF AskAnswered, Synthetic
<1>10. ASSUME NEW t \in Turns, LateProcessorEnds(t) PROVE ContextInv'
  BY <1>10 DEF LateProcessorEnds
<1>11. ASSUME UNCHANGED vars PROVE ContextInv'
  BY <1>11 DEF vars
<1> QED
  BY <1>3, <1>4, <1>5, <1>6, <1>7, <1>8, <1>9, <1>10, <1>11 DEF Next, TurnStep

\* No notification and no answer enters two model contexts, however often its
\* claim is rolled back and whoever collects it (background-notification-turn.ts,
\* ask-response-turn.ts, collectParentTurnNotifications).
THEOREM InjectedOnce == Spec => []InjectedAtMostOnce
<1>1. Init => ContextInv
  BY DEF Init, ContextInv, Turns, Synthetic
<1>2. IInv /\ ContextInv /\ [Next]_vars => ContextInv'
  BY ContextKeeps DEF IInv
<1>3. IInv /\ ContextInv => InjectedAtMostOnce
  BY DEF IInv, TypeOK, ContextInv, InjectedAtMostOnce, Synthetic
<1> QED BY Invariance, <1>1, <1>2, <1>3, PTL DEF Spec

-----------------------------------------------------------------------------
(* The refinement of TurnLock *)

\* The abstract holder is the turn that owns the slot.
LEMMA HolderOwns ==
  ASSUME OneHolder
  PROVE  /\ ~running => Holder = "none"
         /\ \A h : running /\ Holders = {h} => Holder = h
         /\ running => Holder \in Turns /\ Holder # "none" /\ Holders = {Holder}
<1>1. ASSUME NEW h, running, Holders = {h} PROVE Holder = h
  BY <1>1 DEF Holder, Holders
<1> QED BY <1>1, NamesAssumption DEF OneHolder, Holder, Holders

\* A step of the slot is a step of the lock.
LEMMA StepRefines ==
  ASSUME OneHolder, OneHolder', SlotInv, SlotStep
  PROVE  [Lock!Next]_(Lock!lockVars)
<1>1. /\ ~running => Holder = "none"
      /\ running => Holder \in Turns /\ Holder # "none" /\ Holders = {Holder}
  BY HolderOwns
<1>2. /\ ~running' => Holder' = "none"
      /\ \A h : running' /\ Holders' = {h} => Holder' = h
      /\ running' => Holder' \in Turns
  BY HolderOwns, NamesAssumption DEF OneHolder, Holder, Holders
<1> USE DEF Lock!Next, Lock!lockVars
<1>3. CASE UNCHANGED <<running, queue>> /\ Holders' = Holders
  BY <1>1, <1>2, <1>3
<1>4. CASE ~running /\ running' /\ UNCHANGED queue
  BY <1>1, <1>2, <1>4 DEF Lock!Acquire, SlotInv
<1>5. CASE /\ running /\ UNCHANGED running /\ Holders' = Holders
           /\ \E t \in Turns : queue' = Append(queue, t)
  BY <1>1, <1>2, <1>5 DEF Lock!Wait
<1>6. CASE /\ running /\ queue # <<>> /\ running'
           /\ Holders' = {Head(queue)} /\ queue' = Tail(queue)
  BY <1>1, <1>2, <1>6 DEF Lock!HandOver
<1>7. CASE running /\ queue = <<>> /\ UNCHANGED queue
  BY <1>1, <1>2, <1>7 DEF Lock!HandOver
<1>8. CASE ~running' /\ queue' = <<>>
  BY <1>2, <1>8 DEF Lock!Reset
<1> QED BY <1>3, <1>4, <1>5, <1>6, <1>7, <1>8 DEF SlotStep

\* The busy tracker and everyone who uses it implement a FIFO lock: while a turn
\* waits, only the head of the queue gets the slot (session-busy-tracker.ts).
THEOREM Refinement == Spec => IsFifoLock
<1>1. Init => Lock!Init
  BY DEF Init, Lock!Init, Holder
<1>2. IInv /\ IInv' /\ [Next]_vars => [Lock!Next]_(Lock!lockVars)
  BY NextKeeps, StepRefines DEF IInv, SlotInv
<1> QED BY Invariance, <1>1, <1>2, PTL DEF Spec, IsFifoLock, Lock!Spec
=============================================================================
