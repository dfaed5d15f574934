-------------------------- MODULE ApprovalsProofs --------------------------
(***************************************************************************)
(* Proofs about Approvals, for any calls, batches, held actions, triggers, *)
(* limits and lifetimes of grants.                                         *)
(*                                                                         *)
(* What the properties need beside themselves is which approvals a request *)
(* has reached: a pending one has no grant and no request, an approval is  *)
(* the only one for its held action, and a trigger has heard of an answer  *)
(* only when the request that gave it is done.                             *)
(***************************************************************************)
EXTENDS Approvals, SequenceTheorems, FiniteSetTheorems, TLAPS

Statuses == {"pending", "approved", "rejected"}
Approval == [call : Calls, status : Statuses, action : HeldActions \cup {NoAction}]
Grant == [from : Nat, tool : {Ask[c].tool : c \in Calls}, resource : {Ask[c].resource : c \in Calls},
          since : Nat, until : Nat]
BatchState == [pc : {"idle", "running", "done"}, todo : Seq(Calls), held : SUBSET Grant]
Registration == [status : {"none", "active", "completed"}, pattern : Nat, count : Nat]

Types ==
  /\ approvals \in Seq(Approval) /\ Len(approvals) <= MaxApprovals /\ now \in 0..MaxTime
  /\ grants \subseteq Grant
  /\ action \in [HeldActions -> {"waiting_for_approval", "created", "denied"}]
  /\ trigger \in [Triggers -> Registration]
  /\ answer \in [1..MaxApprovals -> {"none", "open", "done", "failed", "lost", "tool"}]
  /\ batch \in [Batches -> BatchState] /\ \A b \in Batches : batch[b].held \subseteq grants

\* A request has reached an approval only after it was created, and decided it.
Reached ==
  \A i \in 1..MaxApprovals : answer[i] # "none" => i \in DOMAIN approvals /\ approvals[i].status # "pending"

\* One grant for each approved approval, given in the past.
Granted ==
  /\ \A g \in grants : /\ g.from \in DOMAIN approvals /\ approvals[g.from].status = "approved"
                       /\ g.since <= g.until /\ g.since <= now /\ answer[g.from] # "tool"
  /\ \A g, h \in grants : g.from = h.from => g = h
  /\ \A i \in DOMAIN approvals :
       approvals[i].status = "approved" /\ answer[i] \notin {"lost", "tool"} => \E g \in grants : g.from = i

\* A held action has one approval, and follows it.
Held ==
  /\ \A i, j \in DOMAIN approvals : approvals[i].action = approvals[j].action /\ i # j => approvals[i].action = NoAction
  /\ HeldActionFollowsAnswer

\* A trigger has heard of settled answers only, those its pattern names, and none
\* before its registration; one that is active has fires left.
Heard(t) == {i \in DOMAIN approvals : <<i, t>> \in resumed}

Counted ==
  /\ resumed \subseteq (DOMAIN approvals) \X Triggers
  /\ \A e \in resumed : answer[e[1]] = "done" /\ trigger[e[2]].status # "none" /\ trigger[e[2]].pattern \in {0, e[1]}
  /\ \A t \in Triggers : /\ trigger[t].count = Cardinality(Heard(t))
                         /\ MaxFires[t] > 0 => trigger[t].count <= MaxFires[t]
                         /\ MaxFires[t] > 0 /\ trigger[t].status = "active" => trigger[t].count < MaxFires[t]

ApprovalsInv == Types /\ Reached /\ Granted /\ AllowedIsCovered /\ Held /\ Counted

-----------------------------------------------------------------------------
(* Rows *)

\* The positions of the rows.
LEMMA RowPositions ==
  ASSUME Types
  PROVE  /\ DOMAIN approvals \subseteq 1..MaxApprovals /\ MaxApprovals \in Nat
         /\ DOMAIN approvals = 1..Len(approvals) /\ Len(approvals) \in Nat
         /\ approvals \in [DOMAIN approvals -> Approval]
<1>1. approvals \in Seq(Approval) /\ Len(approvals) <= MaxApprovals /\ MaxApprovals \in Nat
  BY ApprovalsAssumption DEF Types
<1>2. approvals \in [1..Len(approvals) -> Approval] /\ Len(approvals) \in Nat /\ DOMAIN approvals = 1..Len(approvals)
  BY <1>1, LenProperties
<1> QED BY <1>1, <1>2

\* A row is created behind the others ...
LEMMA RowCreated ==
  ASSUME NEW s \in Seq(Approval), NEW e \in Approval, NEW t, t = Append(s, e), Len(s) < MaxApprovals
  PROVE  /\ t \in Seq(Approval) /\ Len(t) <= MaxApprovals
         /\ DOMAIN s \subseteq DOMAIN t /\ Len(s) + 1 \in DOMAIN t /\ DOMAIN t = DOMAIN s \cup {Len(s) + 1}
         /\ Len(s) + 1 \notin DOMAIN s /\ t[Len(s) + 1] = e
<1>1. t \in Seq(Approval) /\ Len(t) = Len(s) + 1 /\ t[Len(s) + 1] = e
  BY AppendProperties
<1>2. Len(s) \in Nat /\ DOMAIN s = 1..Len(s) /\ DOMAIN t = 1..(Len(s) + 1)
  BY <1>1, LenProperties
<1>3. MaxApprovals \in Nat
  BY ApprovalsAssumption
<1> QED BY <1>1, <1>2, <1>3

\* ... which stay as they are.
LEMMA RowsStay ==
  ASSUME NEW s \in Seq(Approval), NEW e \in Approval, NEW t, t = Append(s, e)
  PROVE  \A i \in DOMAIN s : t[i] = s[i]
<1>1. \A i \in 1..Len(s) : t[i] = s[i]
  BY AppendProperties
<1>2. DOMAIN s = 1..Len(s)
  BY LenProperties
<1> QED BY <1>1, <1>2

\* A row is decided.
LEMMA RowDecided ==
  ASSUME NEW s \in Seq(Approval), NEW i \in DOMAIN s, NEW st \in Statuses, NEW t, t = [s EXCEPT ![i].status = st]
  PROVE  /\ t \in Seq(Approval) /\ Len(t) = Len(s) /\ DOMAIN t = DOMAIN s
         /\ t[i].status = st /\ t[i].call = s[i].call /\ t[i].action = s[i].action
         /\ \A j \in DOMAIN s : j # i => t[j] = s[j]
<1>1. DOMAIN s = 1..Len(s) /\ Len(s) \in Nat /\ s \in [1..Len(s) -> Approval]
  BY LenProperties
<1> DEFINE n == Len(s)
<1>2. n \in Nat /\ s \in [1..n -> Approval] /\ i \in 1..n /\ DOMAIN s = 1..n
  BY <1>1
<1> HIDE DEF n
<1>3. s[i] \in Approval
  BY <1>2
<1>4. [s[i] EXCEPT !.status = st] \in Approval
  BY <1>3 DEF Approval
<1>5. t = [s EXCEPT ![i] = [s[i] EXCEPT !.status = st]]
  OBVIOUS
<1>6. t \in [1..n -> Approval] /\ t[i] = [s[i] EXCEPT !.status = st] /\ \A j \in 1..n : j # i => t[j] = s[j]
  BY <1>2, <1>4, <1>5
<1>7. t \in Seq(Approval) /\ DOMAIN t = 1..n
  BY <1>2, <1>6, SeqDef
<1>8. Len(t) = n
  BY <1>2, <1>7, LenProperties
<1>9. t[i].status = st /\ t[i].call = s[i].call /\ t[i].action = s[i].action
  BY <1>3, <1>6 DEF Approval
<1> QED BY <1>2, <1>6, <1>7, <1>8, <1>9 DEF n

-----------------------------------------------------------------------------
(* An approval is asked for *)

\* The row of a new approval, for a call or for a held action that has none.
NewApproval(e) ==
  /\ e \in Approval /\ e.status = "pending"
  /\ e.action # NoAction => action[e.action] = "waiting_for_approval" /\ \A i \in DOMAIN approvals : approvals[i].action # e.action

\* Nothing that was there changes by it.
LEMMA CreationKeeps ==
  ASSUME Types, Reached, Granted, Held, Counted, NEW e, NewApproval(e),
         Len(approvals) < MaxApprovals, approvals' = Append(approvals, e),
         UNCHANGED <<grants, action, trigger, resumed, answer, now>>
  PROVE  /\ approvals' \in Seq(Approval) /\ Len(approvals') <= MaxApprovals
         /\ Reached' /\ Granted' /\ Held' /\ Counted'
         /\ DOMAIN approvals \subseteq DOMAIN approvals' /\ \A i \in DOMAIN approvals : approvals'[i] = approvals[i]
<1> DEFINE n == Len(approvals) + 1
           D == DOMAIN approvals
           DD == DOMAIN approvals'
<1>1. approvals \in Seq(Approval) /\ e \in Approval /\ D \subseteq 1..MaxApprovals
  BY RowPositions DEF Types, NewApproval
<1>2. /\ approvals' \in Seq(Approval) /\ Len(approvals') <= MaxApprovals
      /\ D \subseteq DD /\ n \in DD /\ DD = D \cup {n} /\ n \notin D /\ approvals'[n] = e
  BY <1>1, RowCreated
<1>3. \A i \in D : approvals'[i] = approvals[i]
  BY <1>1, RowsStay
<1>4. n \in 1..MaxApprovals /\ answer[n] = "none"
  <2>1. n \in 1..MaxApprovals
    BY RowPositions
  <2> QED BY <1>2, <2>1 DEF Reached
<1> HIDE DEF n, D, DD
<1>5. Reached'
  BY <1>2, <1>3 DEF Reached, D, DD
<1>6. Granted'
  <2>1. \A i \in DD : approvals'[i].status = "approved" => i \in D
    BY <1>2 DEF NewApproval
  <2> QED BY <1>2, <1>3, <2>1 DEF Granted, D, DD
<1>7. Held'
  <2>1. \A i, j \in DD : approvals'[i].action = approvals'[j].action /\ i # j => approvals'[i].action = NoAction
    BY <1>2, <1>3 DEF Held, NewApproval, D, DD
  <2>2. HeldActionFollowsAnswer'
    <3> SUFFICES ASSUME NEW i \in DD, approvals'[i].action # NoAction
                 PROVE  LET h == approvals'[i].action IN
                        /\ action[h] = "created" => approvals'[i].status = "approved"
                        /\ action[h] = "denied" => approvals'[i].status = "rejected"
                        /\ action[h] = "waiting_for_approval" => approvals'[i].status = "pending" \/ answer[i] \in {"failed", "lost", "tool"}
      BY DEF HeldActionFollowsAnswer, DD
    <3>1. CASE i \in D
      BY <1>3, <3>1 DEF Held, HeldActionFollowsAnswer, D
    <3>2. CASE i = n
      BY <1>2, <3>2 DEF NewApproval
    <3> QED BY <1>2, <3>1, <3>2
  <2> QED BY <2>1, <2>2 DEF Held, DD
<1>8. Counted'
  <2>1. resumed \subseteq D \X Triggers
    BY DEF Counted, D
  <2>2. \A t \in Triggers : {i \in DD : <<i, t>> \in resumed} = {i \in D : <<i, t>> \in resumed}
    BY <1>2, <2>1
  <2>3. \A t \in Triggers : Heard(t)' = Heard(t)
    BY <2>2 DEF Heard, D, DD
  <2>4. (resumed \subseteq (DOMAIN approvals) \X Triggers)'
    BY <1>2, <2>1 DEF DD
  <2> QED BY <2>3, <2>4 DEF Counted
<1> QED BY <1>2, <1>3, <1>5, <1>6, <1>7, <1>8 DEF D, DD

-----------------------------------------------------------------------------
(* Writes that were let through *)

Covered(r) ==
  LET a == Ask[r.call] IN
  \/ a.policy = "allow" \/ InWorkdir(a) \/ ~AsksOnWrite(a)
  \/ \E g \in grants : Fits(g, a) /\ g.since <= r.at /\ r.at <= g.until /\ approvals[g.from].status = "approved"

\* What was covered stays covered while grants and approved rows stay.
LEMMA CoverStays ==
  ASSUME Types, Granted, grants \subseteq grants',
         \A i \in DOMAIN approvals : approvals[i].status = "approved" => approvals'[i].status = "approved",
         NEW r, Covered(r)
  PROVE  Covered(r)'
BY DEF Covered, Granted

\* A decision that allows a call has a reason.
LEMMA AllowedHasReason ==
  ASSUME Types, Granted, NEW c \in Calls, NEW held \in SUBSET grants, "allowed" \in CheckPermission(Ask[c], held)
  PROVE  Covered([call |-> c, at |-> now])
<1> DEFINE a == Ask[c]
<1>1. \/ a.policy = "allow" \/ InWorkdir(a) \/ ~AsksOnWrite(a) \/ \E g \in held : Covers(g, a)
  <2> HIDE DEF a
  <2>1. "allowed" \in CheckPermission(a, held)
    BY DEF a
  <2>2. "allowed" \in ByGrants(a, held) => ~AsksOnWrite(a) \/ \E g \in held : Covers(g, a)
    BY DEF ByGrants, WithoutGrant
  <2> QED BY <2>1, <2>2 DEF CheckPermission
<1>2. \A g \in held : Covers(g, a) =>
        g \in grants /\ Fits(g, a) /\ g.since <= now /\ now <= g.until /\ approvals[g.from].status = "approved"
  BY DEF Granted, Covers
<1> DEFINE r == [call |-> c, at |-> now]
<1>3. r.call = c /\ r.at = now
  OBVIOUS
<1> HIDE DEF r
<1>4. Covered(r)
  BY <1>1, <1>2, <1>3 DEF Covered
<1> QED BY <1>4 DEF r

-----------------------------------------------------------------------------
(* Batches and held actions *)

\* A step that leaves approvals, grants, answers, actions and triggers alone, and
\* changes what batches remember or the time.
LEMMA RowsAloneKeeps ==
  ASSUME Reached, Granted, AllowedIsCovered, Held, Counted, Types, now' \in 0..MaxTime, now <= now',
         UNCHANGED <<approvals, grants, action, trigger, resumed, answer, ran>>
  PROVE  Reached' /\ Granted' /\ AllowedIsCovered' /\ Held' /\ Counted'
<1>1. Reached' /\ AllowedIsCovered' /\ Held'
  BY DEF Reached, AllowedIsCovered, Held, HeldActionFollowsAnswer
<1>2. Counted'
  <2>1. \A t \in Triggers : Heard(t)' = Heard(t)
    BY DEF Heard
  <2> QED BY <2>1 DEF Counted
<1>3. Granted'
  <2>1. \A g \in grants : g.since \in Nat
    BY DEF Types, Grant
  <2>2. now \in Nat /\ now' \in Nat
    BY ApprovalsAssumption DEF Types
  <2> QED BY <2>1, <2>2 DEF Granted
<1> QED BY <1>1, <1>2, <1>3

\* A batch reads the grants.
LEMMA StartBatchKeeps ==
  ASSUME ApprovalsInv, NEW b \in Batches, StartBatch(b)
  PROVE  ApprovalsInv'
<1>1. UNCHANGED <<approvals, grants, action, trigger, resumed, answer, ran, now>>
  BY DEF StartBatch
<1>2. batch' \in [Batches -> BatchState] /\ \A q \in Batches : batch'[q].held \subseteq grants
  <2>1. batch \in [Batches -> BatchState] /\ grants \subseteq Grant /\ \A q \in Batches : batch[q].held \subseteq grants
    BY DEF ApprovalsInv, Types
  <2>2. batch' = [batch EXCEPT ![b] = [batch[b] EXCEPT !.pc = "running", !.held = grants]]
    BY DEF StartBatch
  <2> QED BY <2>1, <2>2 DEF BatchState
<1>3. Types'
  BY <1>1, <1>2 DEF ApprovalsInv, Types
<1>4. now' \in 0..MaxTime /\ now <= now'
  BY <1>1, ApprovalsAssumption DEF ApprovalsInv, Types
<1> QED BY <1>1, <1>3, <1>4, RowsAloneKeeps DEF ApprovalsInv

\* Time passes.
LEMMA TickKeeps ==
  ASSUME ApprovalsInv, Tick
  PROVE  ApprovalsInv'
<1>1. UNCHANGED <<approvals, grants, action, trigger, resumed, answer, batch, ran>>
  BY DEF Tick
<1>2. now' \in 0..MaxTime /\ now <= now'
  BY ApprovalsAssumption DEF Tick, ApprovalsInv, Types
<1>3. Types'
  BY <1>1, <1>2 DEF ApprovalsInv, Types
<1> QED BY <1>1, <1>2, <1>3, RowsAloneKeeps DEF ApprovalsInv

\* The next call of a batch is checked.
LEMMA CheckCallKeeps ==
  ASSUME ApprovalsInv, NEW b \in Batches, CheckCall(b)
  PROVE  ApprovalsInv'
<1> DEFINE c == Head(batch[b].todo)
           held == batch[b].held
           e == [call |-> c, status |-> "pending", action |-> NoAction]
<1>1. UNCHANGED <<grants, action, trigger, resumed, answer, now>>
  BY DEF CheckCall
<1>2. /\ Types /\ Reached /\ Granted /\ AllowedIsCovered /\ Held /\ Counted
      /\ batch \in [Batches -> BatchState] /\ \A q \in Batches : batch[q].held \subseteq grants
  BY DEF ApprovalsInv, Types
<1>3. c \in Calls /\ Tail(batch[b].todo) \in Seq(Calls) /\ held \in SUBSET grants
  <2>1. batch[b].todo \in Seq(Calls) /\ batch[b].todo # <<>>
    BY <1>2 DEF CheckCall, BatchState
  <2> QED BY <1>2, <2>1, HeadTailProperties
<1>4. PICK d \in CheckPermission(Ask[c], held), rest \in {Tail(batch[b].todo), <<>>}, p \in {batch[b].pc, "done"} :
        Decide(c, d) /\ batch' = [batch EXCEPT ![b] = [batch[b] EXCEPT !.todo = rest, !.pc = p]]
  <2>1. PICK d \in CheckPermission(Ask[c], held), rest \in {Tail(batch[b].todo), <<>>} :
          Decide(c, d) /\ batch' = [batch EXCEPT ![b].todo = rest, ![b].pc = IF rest = <<>> THEN "done" ELSE @]
    BY DEF CheckCall
  <2>2. PICK p \in {batch[b].pc, "done"} : batch' = [batch EXCEPT ![b] = [batch[b] EXCEPT !.todo = rest, !.pc = p]]
    BY <2>1
  <2> QED BY <2>1, <2>2
<1>5. batch' \in [Batches -> BatchState] /\ \A q \in Batches : batch'[q].held \subseteq grants
  <2> DEFINE new == [batch[b] EXCEPT !.todo = rest, !.pc = p]
  <2>1. rest \in Seq(Calls)
    <3>1. Tail(batch[b].todo) \in Seq(Calls) /\ <<>> \in Seq(Calls)
      BY <1>3
    <3> QED BY <1>4, <3>1
  <2>2. batch[b] \in BatchState /\ p \in {"idle", "running", "done"}
    BY <1>2 DEF BatchState
  <2>3. new \in BatchState /\ new.held = held
    BY <2>1, <2>2 DEF BatchState
  <2>4. batch' = [batch EXCEPT ![b] = new]
    BY <1>4
  <2> HIDE DEF new
  <2> QED BY <1>2, <2>3, <2>4
<1>6. /\ IF d = "requires_approval"
         THEN Len(approvals) < MaxApprovals /\ approvals' = Append(approvals, e) ELSE approvals' = approvals
      /\ ran' = IF d = "allowed" THEN ran \cup {[call |-> c, at |-> now]} ELSE ran
  BY <1>4 DEF Decide, CreateApprovalRequest
<1>7. NewApproval(e)
  BY <1>3 DEF NewApproval, Approval, Statuses
<1>8. d = "allowed" => Covered([call |-> c, at |-> now])
  BY <1>2, <1>3, <1>4, AllowedHasReason
<1> HIDE DEF c, held, e
<1>9. /\ approvals' \in Seq(Approval) /\ Len(approvals') <= MaxApprovals
      /\ Reached' /\ Granted' /\ Held' /\ Counted' /\ \A i \in DOMAIN approvals : approvals'[i] = approvals[i]
  <2>1. CASE d = "requires_approval"
    <3>1. Len(approvals) < MaxApprovals /\ approvals' = Append(approvals, e)
      BY <1>6, <2>1
    <3> QED BY <1>1, <1>2, <1>7, <3>1, CreationKeeps
  <2>2. CASE d # "requires_approval"
    <3>1. approvals' = approvals
      BY <1>6, <2>2
    <3>2. Reached' /\ Held'
      BY <1>1, <1>2, <3>1 DEF Reached, Held, HeldActionFollowsAnswer
    <3>3. Granted'
      BY <1>1, <1>2, <3>1 DEF Granted
    <3>4. Counted'
      <4>1. \A t \in Triggers : Heard(t)' = Heard(t)
        BY <1>1, <3>1 DEF Heard
      <4> QED BY <1>1, <1>2, <3>1, <4>1 DEF Counted
    <3> QED BY <1>2, <3>1, <3>2, <3>3, <3>4 DEF Types
  <2> QED BY <2>1, <2>2
<1>10. AllowedIsCovered'
  <2>1. \A r \in ran' : Covered(r)
    BY <1>2, <1>6, <1>8 DEF AllowedIsCovered, Covered
  <2>2. \A r \in ran' : Covered(r)'
    BY <1>1, <1>2, <1>9, <2>1, CoverStays
  <2> QED BY <2>2 DEF AllowedIsCovered, Covered
<1>11. Types'
  BY <1>1, <1>2, <1>5, <1>9 DEF Types
<1> QED BY <1>9, <1>10, <1>11 DEF ApprovalsInv

\* The owner of a held action asks for it, or the tool for what the model names.
LEMMA AskKeeps ==
  ASSUME ApprovalsInv, NEW c \in Calls, NEW h \in HeldActions \cup {NoAction}, CreateApprovalRequest(c, h),
         UNCHANGED <<grants, action, trigger, resumed, answer, batch, ran, now>>,
         h # NoAction => action[h] = "waiting_for_approval" /\ \A i \in DOMAIN approvals : approvals[i].action # h
  PROVE  ApprovalsInv'
<1> DEFINE e == [call |-> c, status |-> "pending", action |-> h]
<1>1. Len(approvals) < MaxApprovals /\ approvals' = Append(approvals, e)
  BY DEF CreateApprovalRequest
<1>2. Types /\ Reached /\ Granted /\ AllowedIsCovered /\ Held /\ Counted
  BY DEF ApprovalsInv
<1>3. NewApproval(e)
  BY DEF NewApproval, Approval, Statuses
<1> HIDE DEF e
<1>4. /\ approvals' \in Seq(Approval) /\ Len(approvals') <= MaxApprovals
      /\ Reached' /\ Granted' /\ Held' /\ Counted' /\ \A i \in DOMAIN approvals : approvals'[i] = approvals[i]
  BY <1>1, <1>2, <1>3, CreationKeeps
<1>5. AllowedIsCovered'
  <2>1. \A r \in ran : Covered(r)
    BY <1>2 DEF AllowedIsCovered, Covered
  <2>2. \A r \in ran : Covered(r)'
    BY <1>1, <1>2, <1>4, <2>1, CoverStays
  <2> QED BY <1>1, <2>2 DEF AllowedIsCovered, Covered
<1>6. Types'
  BY <1>1, <1>2, <1>4 DEF Types
<1> QED BY <1>4, <1>5, <1>6 DEF ApprovalsInv

-----------------------------------------------------------------------------
(* Answers *)

\* Requests settle, fail or are lost; no row changes.
LEMMA RequestsKeep ==
  ASSUME Types, Reached, Granted, AllowedIsCovered, Held,
         UNCHANGED <<approvals, grants, action, ran, now>>,
         \A i \in 1..MaxApprovals : answer'[i] = answer[i] \/ (answer[i] = "open" /\ answer'[i] \in {"done", "failed", "lost"})
  PROVE  Reached' /\ Granted' /\ AllowedIsCovered' /\ Held'
<1>1. DOMAIN approvals \subseteq 1..MaxApprovals
  BY RowPositions
<1>2. Reached' /\ AllowedIsCovered'
  BY DEF Reached, AllowedIsCovered
<1>3. Granted'
  BY <1>1 DEF Granted
<1>4. Held'
  <2>1. HeldActionFollowsAnswer'
    <3> SUFFICES ASSUME NEW i \in DOMAIN approvals, approvals[i].action # NoAction
                 PROVE  LET h == approvals[i].action IN
                        /\ action[h] = "created" => approvals[i].status = "approved"
                        /\ action[h] = "denied" => approvals[i].status = "rejected"
                        /\ action[h] = "waiting_for_approval" => approvals[i].status = "pending" \/ answer'[i] \in {"failed", "lost", "tool"}
      BY DEF HeldActionFollowsAnswer
    <3>1. answer[i] = "open" => approvals[i].status # "pending"
      BY <1>1 DEF Reached
    <3> QED BY <1>1, <3>1 DEF Held, HeldActionFollowsAnswer
  <2> QED BY <2>1 DEF Held
<1> QED BY <1>2, <1>3, <1>4

\* The answer reaches the triggers.
LEMMA SettlesKeeps ==
  ASSUME ApprovalsInv, NEW i \in DOMAIN approvals, AnswerSettles(i)
  PROVE  ApprovalsInv'
<1> DEFINE firing == {t \in Triggers : Matches(t, i)}
<1>1. /\ UNCHANGED <<approvals, grants, action, batch, ran, now>>
      /\ answer[i] = "open" /\ answer' = [answer EXCEPT ![i] = "done"]
      /\ trigger' = [t \in Triggers |-> IF t \in firing THEN Fired(trigger[t], t) ELSE trigger[t]]
      /\ resumed' = resumed \cup ({i} \X firing)
  BY DEF AnswerSettles
<1>2. Types /\ Reached /\ Granted /\ AllowedIsCovered /\ Held /\ Counted
  BY DEF ApprovalsInv
<1>3. i \in 1..MaxApprovals /\ answer \in [1..MaxApprovals -> {"none", "open", "done", "failed", "lost", "tool"}]
  BY <1>2, RowPositions DEF Types
<1>4. Reached' /\ Granted' /\ AllowedIsCovered' /\ Held'
  BY <1>1, <1>2, <1>3, RequestsKeep
<1>5. \A t \in firing : t \in Triggers /\ trigger[t].status = "active" /\ trigger[t].pattern \in {0, i}
  BY DEF Matches
<1>6. ASSUME NEW t \in Triggers PROVE trigger[t] \in Registration /\ MaxFires[t] \in Nat
  BY <1>2, ApprovalsAssumption DEF Types
<1>7. ASSUME NEW t \in Triggers, t \in firing
      PROVE  /\ trigger'[t] \in Registration /\ trigger'[t].count = trigger[t].count + 1
             /\ trigger'[t].pattern = trigger[t].pattern
             /\ trigger'[t].status = IF MaxFires[t] > 0 /\ trigger[t].count + 1 >= MaxFires[t] THEN "completed" ELSE "active"
  <2> DEFINE st == IF MaxFires[t] > 0 /\ trigger[t].count + 1 >= MaxFires[t] THEN "completed" ELSE "active"
             k == trigger[t].count + 1
  <2>1. trigger'[t] = [trigger[t] EXCEPT !.count = k, !.status = st]
    BY <1>1, <1>5, <1>6, <1>7 DEF Fired, Registration
  <2>2. st \in {"completed", "active"}
    OBVIOUS
  <2>3. k \in Nat
    BY <1>6 DEF Registration
  <2> HIDE DEF st, k
  <2>4. trigger'[t] \in Registration /\ trigger'[t].count = k /\ trigger'[t].pattern = trigger[t].pattern /\ trigger'[t].status = st
    BY <1>6, <2>1, <2>2, <2>3 DEF Registration
  <2> QED BY <2>4 DEF st, k
<1>8. \A t \in Triggers \ firing : trigger'[t] = trigger[t]
  BY <1>1
<1> HIDE DEF firing
<1>9. Types'
  <2>1. trigger' \in [Triggers -> Registration]
    <3>1. \A t \in Triggers : trigger'[t] \in Registration
      BY <1>6, <1>7, <1>8
    <3> QED BY <1>1, <3>1
  <2>2. answer' \in [1..MaxApprovals -> {"none", "open", "done", "failed", "lost", "tool"}]
    BY <1>1, <1>3
  <2> QED BY <1>1, <1>2, <2>1, <2>2 DEF Types
<1>10. Counted'
  <2>1. (resumed \subseteq (DOMAIN approvals) \X Triggers)'
    BY <1>1, <1>2, <1>5 DEF Counted
  <2>2. ASSUME NEW e \in resumed'
        PROVE  answer'[e[1]] = "done" /\ trigger'[e[2]].status # "none" /\ trigger'[e[2]].pattern \in {0, e[1]}
    <3>1. CASE e \in resumed
      <4>1. /\ answer[e[1]] = "done" /\ trigger[e[2]].status # "none" /\ trigger[e[2]].pattern \in {0, e[1]}
            /\ e[1] \in DOMAIN approvals /\ e[2] \in Triggers
        BY <1>2, <3>1 DEF Counted
      <4>2. e[1] \in 1..MaxApprovals /\ answer'[e[1]] = "done"
        BY <1>1, <1>2, <1>3, <4>1, RowPositions
      <4>3. CASE e[2] \in firing
        BY <1>7, <4>1, <4>2, <4>3
      <4>4. CASE e[2] \notin firing
        BY <1>8, <4>1, <4>2, <4>4
      <4> QED BY <4>3, <4>4
    <3>2. CASE e \in {i} \X firing
      <4>1. e[1] = i /\ e[2] \in firing
        BY <3>2
      <4>2. answer'[i] = "done"
        BY <1>1, <1>3
      <4> QED BY <1>5, <1>7, <4>1, <4>2
    <3> QED BY <1>1, <3>1, <3>2
  <2>3. ASSUME NEW t \in Triggers
        PROVE  /\ trigger'[t].count = Cardinality(Heard(t)')
               /\ MaxFires[t] > 0 => trigger'[t].count <= MaxFires[t]
               /\ MaxFires[t] > 0 /\ trigger'[t].status = "active" => trigger'[t].count < MaxFires[t]
    <3>1. /\ trigger[t].count = Cardinality(Heard(t)) /\ trigger[t].count \in Nat /\ MaxFires[t] \in Nat
          /\ MaxFires[t] > 0 => trigger[t].count <= MaxFires[t]
          /\ MaxFires[t] > 0 /\ trigger[t].status = "active" => trigger[t].count < MaxFires[t]
      BY <1>2, <1>6 DEF Counted, Registration
    <3>2. CASE t \in firing
      <4>1. i \notin Heard(t)
        BY <1>1, <1>2 DEF Heard, Counted
      <4>2. Heard(t)' = Heard(t) \cup {i}
        BY <1>1, <3>2 DEF Heard
      <4>3. IsFiniteSet(Heard(t))
        <5>1. DOMAIN approvals = 1..Len(approvals) /\ Len(approvals) \in Nat
          BY <1>2, RowPositions
        <5>2. 1 \in Int /\ Len(approvals) \in Int
          BY <5>1
        <5>3. IsFiniteSet(1..Len(approvals))
          BY <5>2, FS_Interval
        <5>4. Heard(t) \in SUBSET (1..Len(approvals))
          BY <5>1 DEF Heard
        <5> QED BY <5>3, <5>4, FS_Subset
      <4>4. Cardinality(Heard(t)') = Cardinality(Heard(t)) + 1
        BY <4>1, <4>2, <4>3, FS_AddElement
      <4>5. /\ trigger'[t].count = trigger[t].count + 1
            /\ trigger'[t].status = IF MaxFires[t] > 0 /\ trigger[t].count + 1 >= MaxFires[t] THEN "completed" ELSE "active"
        BY <1>7, <3>2
      <4>6. trigger[t].status = "active"
        BY <1>5, <3>2
      <4> QED BY <3>1, <4>4, <4>5, <4>6
    <3>3. CASE t \notin firing
      <4>1. Heard(t)' = Heard(t)
        BY <1>1, <3>3 DEF Heard
      <4> QED BY <1>8, <3>1, <3>3, <4>1
    <3> QED BY <3>2, <3>3
  <2> QED BY <2>1, <2>2, <2>3 DEF Counted
<1> QED BY <1>4, <1>9, <1>10 DEF ApprovalsInv

\* The dispatch of the released action throws.
LEMMA ThrowsKeeps ==
  ASSUME ApprovalsInv, NEW i \in DOMAIN approvals, DispatchThrows(i)
  PROVE  ApprovalsInv'
<1>1. /\ UNCHANGED <<approvals, grants, action, trigger, resumed, batch, ran, now>>
      /\ answer[i] = "open" /\ answer' = [answer EXCEPT ![i] = "failed"]
  BY DEF DispatchThrows
<1>2. Types /\ Reached /\ Granted /\ AllowedIsCovered /\ Held /\ Counted
  BY DEF ApprovalsInv
<1>3. i \in 1..MaxApprovals /\ answer \in [1..MaxApprovals -> {"none", "open", "done", "failed", "lost", "tool"}]
  BY <1>2, RowPositions DEF Types
<1>4. Reached' /\ Granted' /\ AllowedIsCovered' /\ Held'
  BY <1>1, <1>2, <1>3, RequestsKeep
<1>5. Types'
  BY <1>1, <1>2, <1>3 DEF Types
<1>6. Counted'
  <2>1. \A t \in Triggers : Heard(t)' = Heard(t)
    BY <1>1 DEF Heard
  <2>2. \A e \in resumed : answer'[e[1]] = "done"
    <3>1. \A e \in resumed : answer[e[1]] = "done" /\ e[1] \in 1..MaxApprovals
      BY <1>2, RowPositions DEF Counted
    <3> QED BY <1>1, <1>3, <3>1
  <2> QED BY <1>1, <1>2, <2>1, <2>2 DEF Counted
<1> QED BY <1>4, <1>5, <1>6 DEF ApprovalsInv

\* A trigger is registered.
LEMMA RegisterKeeps ==
  ASSUME ApprovalsInv, NEW t \in Triggers, NEW pattern \in 0..MaxApprovals, RegisterTrigger(t, pattern)
  PROVE  ApprovalsInv'
<1> DEFINE w == [status |-> "active", pattern |-> pattern, count |-> 0]
<1>1. /\ UNCHANGED <<approvals, grants, action, resumed, answer, batch, ran, now>>
      /\ trigger[t].status = "none" /\ trigger' = [trigger EXCEPT ![t] = w]
  BY DEF RegisterTrigger
<1>2. Types /\ Reached /\ Granted /\ AllowedIsCovered /\ Held /\ Counted
  BY DEF ApprovalsInv
<1>3. w \in Registration /\ w.status = "active" /\ w.count = 0
  BY ApprovalsAssumption DEF Registration
<1> HIDE DEF w
<1>4. trigger \in [Triggers -> Registration] /\ MaxFires \in [Triggers -> Nat]
  BY <1>2, ApprovalsAssumption DEF Types
<1>5. Types'
  BY <1>1, <1>2, <1>3, <1>4 DEF Types
<1>6. Reached' /\ Granted' /\ AllowedIsCovered' /\ Held'
  BY <1>1, <1>2 DEF Reached, Granted, AllowedIsCovered, Held, HeldActionFollowsAnswer
<1>7. Counted'
  <2>1. \A q \in Triggers : Heard(q)' = Heard(q)
    BY <1>1 DEF Heard
  <2>2. \A e \in resumed : e[2] # t /\ e[2] \in Triggers
    BY <1>1, <1>2 DEF Counted
  <2>3. Heard(t) = {}
    <3>1. \A j : <<j, t>> \notin resumed
      BY <2>2
    <3> QED BY <3>1 DEF Heard
  <2>4. trigger'[t].count = Cardinality(Heard(t)')
    BY <1>1, <1>3, <1>4, <2>1, <2>3, FS_EmptySet
  <2>5. \A q \in Triggers : q # t => trigger'[q] = trigger[q]
    BY <1>1, <1>4
  <2>6. \A e \in resumed : trigger'[e[2]] = trigger[e[2]]
    BY <2>2, <2>5
  <2> QED BY <1>1, <1>2, <1>3, <1>4, <2>1, <2>4, <2>5, <2>6 DEF Counted
<1> QED BY <1>5, <1>6, <1>7 DEF ApprovalsInv

\* The process ends.
LEMMA ForgottenKeeps ==
  ASSUME ApprovalsInv, NEW lost \in SUBSET (1..MaxApprovals), Forgotten(lost), grants \subseteq grants'
  PROVE  /\ batch' \in [Batches -> BatchState] /\ \A b \in Batches : batch'[b].held \subseteq grants'
         /\ answer' \in [1..MaxApprovals -> {"none", "open", "done", "failed", "lost", "tool"}]
         /\ \A j \in 1..MaxApprovals : j \notin lost => answer'[j] = answer[j] \/ (answer[j] = "open" /\ answer'[j] = "lost")
         /\ \A j \in lost : answer'[j] = "lost"
<1>1. /\ batch \in [Batches -> BatchState] /\ \A b \in Batches : batch[b].held \subseteq grants
      /\ answer \in [1..MaxApprovals -> {"none", "open", "done", "failed", "lost", "tool"}]
  BY DEF ApprovalsInv, Types
<1>2. batch' \in [Batches -> BatchState] /\ \A b \in Batches : batch'[b].held \subseteq grants'
  <2>1. ASSUME NEW b \in Batches PROVE batch'[b] \in BatchState /\ batch'[b].held = batch[b].held
    <3>1. batch[b] \in BatchState /\ batch'[b] \in {batch[b], [batch[b] EXCEPT !.pc = "done"]}
      BY <1>1 DEF Forgotten
    <3> QED BY <3>1 DEF BatchState
  <2>2. batch' \in [Batches -> BatchState]
    BY <2>1 DEF Forgotten
  <2> QED BY <1>1, <2>1, <2>2
<1>3. answer' = [j \in 1..MaxApprovals |-> IF answer[j] = "open" \/ j \in lost THEN "lost" ELSE answer[j]]
  BY DEF Forgotten
<1> QED BY <1>1, <1>2, <1>3

\* The process ends outside the route.
LEMMA RestartKeeps ==
  ASSUME ApprovalsInv, Restart
  PROVE  ApprovalsInv'
<1>1. Forgotten({}) /\ UNCHANGED <<approvals, grants, action, trigger, resumed, ran, now>>
  BY DEF Restart, Forgotten
<1>2. Types /\ Reached /\ Granted /\ AllowedIsCovered /\ Held /\ Counted
  BY DEF ApprovalsInv
<1>3. /\ batch' \in [Batches -> BatchState] /\ \A b \in Batches : batch'[b].held \subseteq grants'
      /\ answer' \in [1..MaxApprovals -> {"none", "open", "done", "failed", "lost", "tool"}]
      /\ \A j \in 1..MaxApprovals : answer'[j] = answer[j] \/ (answer[j] = "open" /\ answer'[j] = "lost")
  <2>1. {} \in SUBSET (1..MaxApprovals) /\ grants \subseteq grants'
    BY <1>1
  <2> QED BY <1>1, <2>1, ForgottenKeeps
<1>4. Reached' /\ Granted' /\ AllowedIsCovered' /\ Held'
  BY <1>1, <1>2, <1>3, RequestsKeep
<1>5. Types'
  BY <1>1, <1>2, <1>3 DEF Types
<1>6. Counted'
  <2>1. \A t \in Triggers : Heard(t)' = Heard(t)
    BY <1>1 DEF Heard
  <2>2. \A e \in resumed : answer'[e[1]] = "done"
    <3>1. \A e \in resumed : answer[e[1]] = "done" /\ e[1] \in 1..MaxApprovals
      BY <1>2, RowPositions DEF Counted
    <3> QED BY <1>3, <3>1
  <2> QED BY <1>1, <1>2, <2>1, <2>2 DEF Counted
<1> QED BY <1>4, <1>5, <1>6 DEF ApprovalsInv

-----------------------------------------------------------------------------
(* The route *)

\* What a request that has written the row, and the grant unless the process
\* ended first, may have made of its own state and of the others'.
RouteLeaves(i, n) ==
  /\ answer' \in [1..MaxApprovals -> {"none", "open", "done", "failed", "lost", "tool"}]
  /\ answer'[i] \in (IF n = 1 THEN {"lost", "tool"} ELSE {"open", "failed", "lost"})
  /\ \A j \in 1..MaxApprovals : j # i => answer'[j] = answer[j] \/ (answer[j] = "open" /\ answer'[j] = "lost")

\* The row, and what it says of the others.
LEMMA RouteDecides ==
  ASSUME Types, NEW i \in DOMAIN approvals, NEW response \in Responses, NEW n \in 1..3, RouteWrites(i, response, n)
  PROVE  /\ approvals' \in Seq(Approval) /\ Len(approvals') = Len(approvals) /\ DOMAIN approvals' = DOMAIN approvals
         /\ approvals'[i].status = StatusOf(response) /\ StatusOf(response) \in {"approved", "rejected"}
         /\ \A j \in DOMAIN approvals : j # i => approvals'[j] = approvals[j]
         /\ \A j \in DOMAIN approvals : approvals'[j].action = approvals[j].action
<1>1. StatusOf(response) \in {"approved", "rejected"}
  BY DEF StatusOf
<1>2. approvals \in Seq(Approval) /\ StatusOf(response) \in Statuses
  BY <1>1 DEF Types, Statuses
<1>3. approvals' = [approvals EXCEPT ![i].status = StatusOf(response)]
  BY DEF RouteWrites
<1> QED BY <1>1, <1>2, <1>3, RowDecided

\* The grant.
LEMMA RouteGrants ==
  ASSUME Types, NEW i \in DOMAIN approvals, NEW response \in Responses
  PROVE  /\ GrantOf(i, response) \in Grant /\ GrantOf(i, response).from = i
         /\ GrantOf(i, response).since = now /\ now <= GrantOf(i, response).until
<1>1. approvals[i].call \in Calls /\ i \in Nat
  BY RowPositions DEF Approval
<1>2. now \in Nat /\ OnceTTL \in Nat /\ AlwaysTTL \in Nat
  BY ApprovalsAssumption DEF Types
<1> DEFINE u == now + (IF response = "approve_once" THEN OnceTTL ELSE AlwaysTTL)
<1>3. u \in Nat /\ now <= u
  BY <1>2
<1> HIDE DEF u
<1>4. GrantOf(i, response) = [from |-> i, tool |-> Ask[approvals[i].call].tool,
                              resource |-> Ask[approvals[i].call].resource, since |-> now, until |-> u]
  BY DEF GrantOf, u
<1> QED BY <1>1, <1>2, <1>3, <1>4 DEF Grant

\* The writes keep one grant for each approved row, and everything that was heard.
LEMMA RouteKeeps ==
  ASSUME Types, Reached, Granted, AllowedIsCovered, Counted,
         NEW i \in DOMAIN approvals, NEW response \in Responses, NEW n \in 1..3,
         approvals[i].status = "pending", RouteWrites(i, response, n), RouteLeaves(i, n),
         UNCHANGED <<trigger, resumed, ran, now>>
  PROVE  /\ grants' \subseteq Grant /\ grants \subseteq grants'
         /\ Reached' /\ Granted' /\ AllowedIsCovered' /\ Counted'
<1> DEFINE D == DOMAIN approvals
           st == StatusOf(response)
           g0 == GrantOf(i, response)
<1>1. /\ DOMAIN approvals' = D /\ approvals'[i].status = st /\ st \in {"approved", "rejected"}
      /\ \A j \in D : j # i => approvals'[j] = approvals[j]
  BY RouteDecides
<1>2. g0 \in Grant /\ g0.from = i /\ g0.since = now /\ now <= g0.until
  BY RouteGrants
<1>3. /\ grants' = IF n >= 2 /\ response # "reject" THEN grants \cup {g0} ELSE grants
      /\ st = "approved" <=> response # "reject"
  BY DEF RouteWrites, StatusOf
<1>4. D \subseteq 1..MaxApprovals
  BY RowPositions
<1>5. \A g \in grants : g.from # i
  BY DEF Granted
<1>6. \A j \in 1..MaxApprovals : j # i => answer'[j] = answer[j] \/ (answer[j] = "open" /\ answer'[j] = "lost")
  BY DEF RouteLeaves
<1>7. IF n = 1 THEN answer'[i] \in {"lost", "tool"} ELSE answer'[i] # "tool"
  BY DEF RouteLeaves
<1> HIDE DEF D, st, g0
<1>8. grants' \subseteq Grant /\ grants \subseteq grants'
  BY <1>2, <1>3 DEF Types
<1>9. Reached'
  BY <1>1, <1>4, <1>6 DEF Reached, D
<1>10. Granted'
  <2>1. \A g \in grants : g.from \in D /\ approvals'[g.from].status = "approved" /\ g.since <= g.until /\ g.since <= now
    BY <1>1, <1>5 DEF Granted, D
  <2>8. \A g \in grants : answer'[g.from] # "tool"
    BY <1>4, <1>5, <1>6 DEF Granted, D
  <2>9. g0 \in grants \/ g0 \notin grants' \/ answer'[i] # "tool"
    <3>1. n >= 2 => n # 1
      OBVIOUS
    <3> QED BY <1>3, <1>7, <3>1
  <2>2. g0 \in grants' => st = "approved" \/ g0 \in grants
    BY <1>3
  <2>3. \A g \in grants' : g \in grants \/ (g = g0 /\ st = "approved")
    BY <1>3
  <2>4. now <= now
    BY ApprovalsAssumption DEF Types
  <2>5. (\A g \in grants : /\ g.from \in DOMAIN approvals /\ approvals[g.from].status = "approved"
                           /\ g.since <= g.until /\ g.since <= now /\ answer[g.from] # "tool")'
    BY <1>1, <1>2, <2>1, <2>3, <2>4, <2>8, <2>9 DEF D
  <2>6. (\A g, h \in grants : g.from = h.from => g = h)'
    BY <1>2, <1>5, <2>3 DEF Granted
  <2>7. ASSUME NEW j \in D, approvals'[j].status = "approved", answer'[j] \notin {"lost", "tool"}
        PROVE  \E g \in grants' : g.from = j
    <3>1. CASE j # i
      BY <1>1, <1>4, <1>6, <1>8, <2>7, <3>1 DEF Granted, D
    <3>2. CASE j = i
      <4>1. n # 1 /\ response # "reject"
        BY <1>1, <1>3, <1>7, <2>7, <3>2
      <4>2. n >= 2
        BY <4>1
      <4> QED BY <1>2, <1>3, <3>2, <4>1, <4>2
    <3> QED BY <3>1, <3>2
  <2> QED BY <1>1, <2>5, <2>6, <2>7 DEF Granted
<1>11. AllowedIsCovered'
  <2>1. \A r \in ran : Covered(r)
    BY DEF AllowedIsCovered, Covered
  <2>2. \A j \in DOMAIN approvals : approvals[j].status = "approved" => approvals'[j].status = "approved"
    BY <1>1 DEF D
  <2>3. \A r \in ran : Covered(r)'
    BY <1>8, <2>1, <2>2, CoverStays
  <2> QED BY <2>3 DEF AllowedIsCovered, Covered
<1>12. Counted'
  <2>1. \A t \in Triggers : Heard(t)' = Heard(t)
    BY <1>1 DEF Heard, D
  <2>2. \A e \in resumed : answer'[e[1]] = "done"
    <3>1. ASSUME NEW e \in resumed PROVE answer[e[1]] = "done" /\ e[1] \in 1..MaxApprovals
      BY <1>4 DEF Counted, D
    <3>2. ASSUME NEW e \in resumed PROVE e[1] # i
      BY <3>1 DEF Reached
    <3> QED BY <1>6, <3>1, <3>2
  <2> QED BY <1>1, <2>1, <2>2 DEF Counted, D
<1> QED BY <1>8, <1>9, <1>10, <1>11, <1>12

\* A held action whose approval is answered.
LEMMA RouteHolds ==
  ASSUME Types, Reached, Held, NEW i \in DOMAIN approvals, NEW response \in Responses, NEW n \in 1..3,
         approvals[i].status = "pending", RouteWrites(i, response, n), RouteLeaves(i, n),
         DispatchPendingAction(i, response) \/ (UNCHANGED action /\ answer'[i] \in {"failed", "lost", "tool"})
  PROVE  Held' /\ action' \in [HeldActions -> {"waiting_for_approval", "created", "denied"}]
<1> DEFINE D == DOMAIN approvals
           h0 == approvals[i].action
           st == StatusOf(response)
           ac == IF response = "reject" THEN "denied" ELSE "created"
<1>1. /\ DOMAIN approvals' = D /\ approvals'[i].status = st /\ \A j \in D : j # i => approvals'[j] = approvals[j]
      /\ \A j \in D : approvals'[j].action = approvals[j].action
  BY RouteDecides
<1>2. (ac = "created" /\ st = "approved") \/ (ac = "denied" /\ st = "rejected")
  BY DEF StatusOf
<1>3. D \subseteq 1..MaxApprovals /\ \A j \in D : approvals[j].action \in HeldActions \cup {NoAction}
  BY RowPositions DEF Approval
<1>4. h0 # NoAction => h0 \in HeldActions /\ action[h0] = "waiting_for_approval"
  <2>1. h0 # NoAction => h0 \in HeldActions
    BY <1>3
  <2>2. h0 \in HeldActions => action[h0] \in {"waiting_for_approval", "created", "denied"}
    BY DEF Types
  <2> QED BY <2>1, <2>2 DEF Held, HeldActionFollowsAnswer
<1>5. \/ h0 # NoAction /\ action' = [action EXCEPT ![h0] = ac]
      \/ h0 = NoAction /\ action' = action
      \/ action' = action /\ answer'[i] \in {"failed", "lost", "tool"}
  BY <1>4 DEF DispatchPendingAction
<1>6. \A j, k \in D : approvals[j].action = approvals[k].action /\ j # k => approvals[j].action = NoAction
  BY DEF Held
<1>7. \A j \in 1..MaxApprovals : j # i => answer'[j] = answer[j] \/ (answer[j] = "open" /\ answer'[j] = "lost")
  BY DEF RouteLeaves
<1>8. action \in [HeldActions -> {"waiting_for_approval", "created", "denied"}]
  BY DEF Types
<1> HIDE DEF D, h0, st, ac
<1>9. HeldActionFollowsAnswer'
  <2> SUFFICES ASSUME NEW j \in D, approvals[j].action # NoAction
               PROVE  LET h == approvals[j].action IN
                      /\ action'[h] = "created" => approvals'[j].status = "approved"
                      /\ action'[h] = "denied" => approvals'[j].status = "rejected"
                      /\ action'[h] = "waiting_for_approval" => approvals'[j].status = "pending" \/ answer'[j] \in {"failed", "lost", "tool"}
    BY <1>1 DEF HeldActionFollowsAnswer, D
  <2> DEFINE h == approvals[j].action
  <2>1. h \in HeldActions /\ h # NoAction
    BY <1>3
  <2>2. CASE j = i
    <3>1. h = h0
      BY <2>2 DEF h0
    <3>2. CASE action' = [action EXCEPT ![h0] = ac]
      <4>1. action'[h] = ac
        BY <1>8, <2>1, <3>1, <3>2
      <4> QED BY <1>1, <1>2, <2>2, <4>1
    <3>3. CASE action' = action /\ answer'[i] \in {"failed", "lost", "tool"}
      <4>1. action'[h] = "waiting_for_approval"
        BY <1>4, <2>1, <3>1, <3>3
      <4> QED BY <2>2, <3>3, <4>1
    <3> QED BY <1>5, <2>1, <3>1, <3>2, <3>3
  <2>3. CASE j # i
    <3>1. h # h0
      BY <1>6, <2>1, <2>3 DEF D, h0
    <3>2. action'[h] = action[h]
      BY <1>5, <1>8, <2>1, <3>1
    <3>3. approvals'[j] = approvals[j]
      BY <1>1, <2>3
    <3>4. answer'[j] = answer[j] \/ answer'[j] = "lost"
      BY <1>3, <1>7, <2>3
    <3>5. /\ action[h] = "created" => approvals[j].status = "approved"
          /\ action[h] = "denied" => approvals[j].status = "rejected"
          /\ action[h] = "waiting_for_approval" => approvals[j].status = "pending" \/ answer[j] \in {"failed", "lost", "tool"}
      BY <2>1 DEF Held, HeldActionFollowsAnswer, D
    <3> QED BY <3>2, <3>3, <3>4, <3>5
  <2> QED BY <2>2, <2>3
<1>10. (\A j, k \in DOMAIN approvals : approvals[j].action = approvals[k].action /\ j # k => approvals[j].action = NoAction)'
  BY <1>1, <1>6
<1>11. action' \in [HeldActions -> {"waiting_for_approval", "created", "denied"}]
  BY <1>2, <1>5, <1>8
<1> QED BY <1>9, <1>10, <1>11 DEF Held

\* An approval is answered, as far as the route gets.
LEMMA RouteStep ==
  ASSUME ApprovalsInv, NEW i \in DOMAIN approvals, NEW response \in Responses, NEW n \in 1..3,
         approvals[i].status = "pending", RouteWrites(i, response, n), RouteLeaves(i, n),
         DispatchPendingAction(i, response) \/ (UNCHANGED action /\ answer'[i] \in {"failed", "lost", "tool"}),
         UNCHANGED <<trigger, resumed, ran, now>>,
         batch' \in [Batches -> BatchState], \A b \in Batches : batch'[b].held \subseteq grants'
  PROVE  ApprovalsInv'
<1>1. Types /\ Reached /\ Granted /\ AllowedIsCovered /\ Held /\ Counted
  BY DEF ApprovalsInv
<1>2. grants' \subseteq Grant /\ Reached' /\ Granted' /\ AllowedIsCovered' /\ Counted'
  BY <1>1, RouteKeeps
<1>3. Held' /\ action' \in [HeldActions -> {"waiting_for_approval", "created", "denied"}]
  BY <1>1, RouteHolds
<1>4. approvals' \in Seq(Approval) /\ Len(approvals') = Len(approvals)
  BY <1>1, RouteDecides
<1>5. Types'
  BY <1>1, <1>2, <1>3, <1>4 DEF Types, RouteLeaves
<1> QED BY <1>2, <1>3, <1>5 DEF ApprovalsInv

\* What a request of its own makes of its state.
LEMMA OneRequest ==
  ASSUME Types, NEW i \in DOMAIN approvals, NEW n \in {2, 3}, NEW a \in {"open", "failed"}, answer' = [answer EXCEPT ![i] = a]
  PROVE  RouteLeaves(i, n) /\ answer'[i] = a
<1>1. i \in 1..MaxApprovals /\ answer \in [1..MaxApprovals -> {"none", "open", "done", "failed", "lost", "tool"}]
  BY RowPositions DEF Types
<1> QED BY <1>1 DEF RouteLeaves

\* The actions of the route.
LEMMA AnswersKeep ==
  ASSUME ApprovalsInv, NEW i \in DOMAIN approvals, NEW r \in Responses,
         AnswerApproval(i, r) \/ AnswerClashes(i, r) \/ \E n \in 1..3 : RestartInAnswer(i, r, n)
  PROVE  ApprovalsInv'
<1>1. Types /\ batch \in [Batches -> BatchState] /\ \A b \in Batches : batch[b].held \subseteq grants
  BY DEF ApprovalsInv, Types
<1>2. \A n \in 1..3 : RouteWrites(i, r, n) => grants \subseteq grants'
  BY DEF RouteWrites
<1>3. CASE AnswerApproval(i, r)
  <2>1. /\ approvals[i].status = "pending" /\ RouteWrites(i, r, 3) /\ DispatchPendingAction(i, r)
        /\ answer' = [answer EXCEPT ![i] = "open"] /\ UNCHANGED <<trigger, resumed, batch, ran, now>> /\ 3 \in 1..3
    BY <1>3 DEF AnswerApproval
  <2>2. RouteLeaves(i, 3)
    BY <1>1, <2>1, OneRequest
  <2>3. grants \subseteq grants'
    BY <1>2, <2>1
  <2>4. batch' \in [Batches -> BatchState] /\ \A b \in Batches : batch'[b].held \subseteq grants'
    BY <1>1, <2>1, <2>3
  <2> QED BY <2>1, <2>2, <2>4, RouteStep
<1>4. CASE AnswerClashes(i, r)
  <2>1. /\ approvals[i].status = "pending" /\ RouteWrites(i, r, 2) /\ UNCHANGED action
        /\ answer' = [answer EXCEPT ![i] = "failed"] /\ UNCHANGED <<trigger, resumed, batch, ran, now>> /\ 2 \in 1..3
    BY <1>4 DEF AnswerClashes
  <2>2. RouteLeaves(i, 2) /\ answer'[i] = "failed"
    BY <1>1, <2>1, OneRequest
  <2>3. grants \subseteq grants'
    BY <1>2, <2>1
  <2>4. batch' \in [Batches -> BatchState] /\ \A b \in Batches : batch'[b].held \subseteq grants'
    BY <1>1, <2>1, <2>3
  <2> QED BY <2>1, <2>2, <2>4, RouteStep
<1>5. ASSUME NEW n \in 1..3, RestartInAnswer(i, r, n) PROVE ApprovalsInv'
  <2>1. /\ approvals[i].status = "pending" /\ RouteWrites(i, r, n) /\ Forgotten({i})
        /\ UNCHANGED <<action, trigger, resumed, ran, now>>
    BY <1>5 DEF RestartInAnswer, Forgotten
  <2>2. grants \subseteq grants' /\ {i} \in SUBSET (1..MaxApprovals)
    BY <1>1, <1>2, <2>1, RowPositions
  <2>3. /\ batch' \in [Batches -> BatchState] /\ \A b \in Batches : batch'[b].held \subseteq grants'
        /\ answer' \in [1..MaxApprovals -> {"none", "open", "done", "failed", "lost", "tool"}]
        /\ \A j \in 1..MaxApprovals : j \notin {i} => answer'[j] = answer[j] \/ (answer[j] = "open" /\ answer'[j] = "lost")
        /\ \A j \in {i} : answer'[j] = "lost"
    BY <2>1, <2>2, ForgottenKeeps
  <2>4. RouteLeaves(i, n) /\ answer'[i] = "lost"
    BY <2>3 DEF RouteLeaves
  <2> QED BY <2>1, <2>3, <2>4, RouteStep
<1> QED BY <1>3, <1>4, <1>5

\* The tool answers, which is the first of the route's writes and no more.
LEMMA ToolKeeps ==
  ASSUME ApprovalsInv, NEW i \in DOMAIN approvals, NEW s \in {"approved", "rejected"}, AnswerByTool(i, s)
  PROVE  ApprovalsInv'
<1>1. Types /\ batch \in [Batches -> BatchState] /\ \A b \in Batches : batch[b].held \subseteq grants
  BY DEF ApprovalsInv, Types
<1>2. /\ approvals[i].status = "pending" /\ UNCHANGED <<grants, eventTimes, action, trigger, resumed, batch, ran, now>>
      /\ approvals' = [approvals EXCEPT ![i].status = s] /\ answer' = [answer EXCEPT ![i] = "tool"]
  BY DEF AnswerByTool
<1>3. PICK r \in Responses : StatusOf(r) = s
  <2>1. "reject" \in Responses /\ StatusOf("reject") = "rejected" /\ "approve_once" \in Responses /\ StatusOf("approve_once") = "approved"
    BY DEF Responses, StatusOf
  <2> QED BY <2>1
<1>4. RouteWrites(i, r, 1) /\ 1 \in 1..3
  BY <1>2, <1>3 DEF RouteWrites
<1>5. RouteLeaves(i, 1) /\ answer'[i] = "tool"
  <2>1. i \in 1..MaxApprovals /\ answer \in [1..MaxApprovals -> {"none", "open", "done", "failed", "lost", "tool"}]
    BY <1>1, RowPositions DEF Types
  <2> QED BY <1>2, <2>1 DEF RouteLeaves
<1>6. batch' \in [Batches -> BatchState] /\ \A b \in Batches : batch'[b].held \subseteq grants'
  BY <1>1, <1>2
<1> QED BY <1>2, <1>4, <1>5, <1>6, RouteStep

-----------------------------------------------------------------------------
(* Every step *)

\* No approval at the start.
LEMMA ApprovalsInitially ==
  ASSUME Init
  PROVE  ApprovalsInv
<1>1. approvals = <<>> /\ grants = {} /\ resumed = {} /\ ran = {} /\ now = 0 /\ answer = [i \in 1..MaxApprovals |-> "none"]
  BY DEF Init
<1>2. PICK cast \in Casts :
        /\ action = [h \in HeldActions |-> IF h \in cast THEN "waiting_for_approval" ELSE "created"]
        /\ trigger = [t \in Triggers |-> [status |-> IF t \in cast THEN "none" ELSE "completed", pattern |-> 0, count |-> 0]]
        /\ batch = [b \in Batches |-> [pc |-> IF b \in cast THEN "idle" ELSE "done", todo |-> Plan[b], held |-> {}]]
  BY DEF Init
<1>3. approvals \in Seq(Approval) /\ Len(approvals) = 0 /\ DOMAIN approvals = {}
  BY <1>1
<1>4. MaxApprovals \in Nat /\ MaxTime \in Nat /\ \A b \in Batches : Plan[b] \in Seq(Calls)
  BY ApprovalsAssumption
<1>5. trigger \in [Triggers -> Registration] /\ \A t \in Triggers : trigger[t].count = 0 /\ trigger[t].status # "active"
  BY <1>2 DEF Registration
<1>6. batch \in [Batches -> BatchState] /\ \A b \in Batches : batch[b].held = {}
  <2>1. ASSUME NEW b \in Batches PROVE batch[b] \in BatchState /\ batch[b].held = {}
    <3>1. PICK p \in {"idle", "done"} : batch[b] = [pc |-> p, todo |-> Plan[b], held |-> {}]
      BY <1>2
    <3> QED BY <1>4, <3>1 DEF BatchState
  <2> QED BY <1>2, <2>1
<1>7. action \in [HeldActions -> {"waiting_for_approval", "created", "denied"}]
  BY <1>2
<1>8. Types
  BY <1>1, <1>3, <1>4, <1>5, <1>6, <1>7 DEF Types
<1>9. Reached /\ Granted /\ AllowedIsCovered /\ Held
  BY <1>1, <1>3 DEF Reached, Granted, AllowedIsCovered, Held, HeldActionFollowsAnswer
<1>10. Counted
  <2>1. \A t \in Triggers : Heard(t) = {}
    BY <1>3 DEF Heard
  <2>2. Cardinality({}) = 0 /\ MaxFires \in [Triggers -> Nat]
    BY FS_EmptySet, ApprovalsAssumption
  <2>3. \A t \in Triggers : Cardinality(Heard(t)) = 0 /\ MaxFires[t] \in Nat
    BY <2>1, <2>2
  <2>4. resumed \subseteq (DOMAIN approvals) \X Triggers
    BY <1>1
  <2>5. \A n \in Nat : n > 0 => 0 <= n
    OBVIOUS
  <2> QED BY <1>1, <1>5, <2>3, <2>4, <2>5 DEF Counted
<1> QED BY <1>8, <1>9, <1>10 DEF ApprovalsInv

\* One case for each action.
LEMMA ApprovalsStep ==
  ASSUME ApprovalsInv, [Next]_vars
  PROVE  ApprovalsInv'
<1>1. CASE UNCHANGED vars
  <2>1. UNCHANGED <<approvals, grants, action, trigger, resumed, answer, batch, ran, now>>
    BY <1>1 DEF vars
  <2>2. now' \in 0..MaxTime /\ now <= now'
    BY <2>1, ApprovalsAssumption DEF ApprovalsInv, Types
  <2>3. Types'
    BY <2>1 DEF ApprovalsInv, Types
  <2> QED BY <2>1, <2>2, <2>3, RowsAloneKeeps DEF ApprovalsInv
<1>2. ASSUME NEW b \in Batches, StartBatch(b) \/ CheckCall(b) PROVE ApprovalsInv'
  BY <1>2, StartBatchKeeps, CheckCallKeeps
<1>3. ASSUME NEW h \in HeldActions, AskForHeld(h) PROVE ApprovalsInv'
  BY <1>3, AskKeeps, ApprovalsAssumption DEF AskForHeld
<1>4. ASSUME NEW c \in Requests, RequestApproval(c) PROVE ApprovalsInv'
  BY <1>4, AskKeeps, ApprovalsAssumption DEF RequestApproval
<1>5. ASSUME NEW i \in DOMAIN approvals, AnswerSettles(i) \/ DispatchThrows(i) PROVE ApprovalsInv'
  BY <1>5, SettlesKeeps, ThrowsKeeps
<1>6. ASSUME NEW i \in DOMAIN approvals, NEW r \in Responses,
             AnswerApproval(i, r) \/ AnswerClashes(i, r) \/ \E n \in 1..3 : RestartInAnswer(i, r, n)
      PROVE  ApprovalsInv'
  BY <1>6, AnswersKeep
<1>7. ASSUME NEW i \in DOMAIN approvals, NEW s \in {"approved", "rejected"}, AnswerByTool(i, s) PROVE ApprovalsInv'
  BY <1>7, ToolKeeps
<1>8. ASSUME NEW t \in Triggers, NEW pattern \in 0..MaxApprovals, RegisterTrigger(t, pattern) PROVE ApprovalsInv'
  BY <1>8, RegisterKeeps
<1>9. CASE Tick \/ Restart
  BY <1>9, TickKeeps, RestartKeeps
<1> QED BY <1>1, <1>2, <1>3, <1>4, <1>5, <1>6, <1>7, <1>8, <1>9 DEF Next

\* The inductive invariant holds in every reachable state.
LEMMA ApprovalsInvariance == Spec => []ApprovalsInv
BY ApprovalsInitially, ApprovalsStep, PTL DEF Spec

\* Requests are made once.
LEMMA WantedAreRequests == Spec => [](wanted \subseteq Requests)
<1>1. Init => wanted \subseteq Requests
  BY DEF Init
<1>2. wanted \subseteq Requests /\ [Next]_vars => (wanted \subseteq Requests)'
  <2> SUFFICES ASSUME [Next]_vars PROVE wanted' \subseteq wanted
    OBVIOUS
  <2> QED BY DEF Next, vars, StartBatch, CheckCall, AskForHeld, RequestApproval, AnswerSettles, DispatchThrows,
             AnswerByTool, AnswerApproval, AnswerClashes, RestartInAnswer, RegisterTrigger, Tick, Restart, Forgotten
<1> QED BY <1>1, <1>2, PTL DEF Spec

-----------------------------------------------------------------------------
(* Results *)

\* Under the invariant an approval has at most one grant, and has one exactly
\* when it was approved and its request was not cut short.
LEMMA OneGrant ==
  ASSUME ApprovalsInv, wanted \subseteq Requests
  PROVE  GrantMatchesAnswer
<1>1. Types /\ Granted
  BY DEF ApprovalsInv
<1>2. TypeOK
  <2>1. \A i \in DOMAIN approvals : /\ approvals[i].call \in Calls /\ approvals[i].action \in HeldActions \cup {NoAction}
                                    /\ approvals[i].status \in {"pending", "approved", "rejected"}
    BY <1>1, RowPositions DEF Approval, Statuses
  <2>2. \A t \in Triggers : trigger[t].status \in {"none", "active", "completed"} /\ trigger[t].count \in Nat
    BY <1>1 DEF Types, Registration
  <2>3. \A b \in Batches : batch[b].pc \in {"idle", "running", "done"} /\ batch[b].held \subseteq grants
    BY <1>1 DEF Types, BatchState
  <2>4. \A g \in grants : g.from \in DOMAIN approvals /\ g.since <= g.until
    BY <1>1 DEF Granted
  <2> QED BY <1>1, <2>1, <2>2, <2>3, <2>4 DEF TypeOK, Types
<1>3. ASSUME NEW i \in DOMAIN approvals
      PROVE  /\ Cardinality(GrantsOf(i)) <= 1
             /\ GrantsOf(i) # {} => approvals[i].status = "approved" /\ answer[i] # "tool"
             /\ approvals[i].status = "approved" /\ answer[i] \notin {"lost", "tool"} => GrantsOf(i) # {}
  <2>1. GrantsOf(i) = {} \/ \E g \in grants : GrantsOf(i) = {g}
    BY <1>1 DEF Granted, GrantsOf
  <2>2. Cardinality(GrantsOf(i)) <= 1
    <3>1. CASE GrantsOf(i) = {}
      <4>1. Cardinality(GrantsOf(i)) = 0
        BY <3>1, FS_EmptySet
      <4> QED BY <4>1
    <3>2. CASE \E g \in grants : GrantsOf(i) = {g}
      <4>1. Cardinality(GrantsOf(i)) = 1
        BY <3>2, FS_Singleton
      <4> QED BY <4>1
    <3> QED BY <2>1, <3>1, <3>2
  <2> QED BY <1>1, <2>2 DEF Granted, GrantsOf
<1> QED BY <1>2, <1>3 DEF GrantMatchesAnswer

\* However answers, clashes of event ids and ends of the process interleave, an
\* approval yields one grant if the route approved it and none otherwise; an approved
\* one has none only if the process ended inside the route or the tool answered.
THEOREM GrantsMatch == Spec => []GrantMatchesAnswer
BY ApprovalsInvariance, WantedAreRequests, OneGrant, PTL

\* A write, deletion or execution that is asked about ran only under a grant whose
\* tool and pattern fit it, that was given before and had not expired, although its
\* batch read the grants earlier; whatever the patterns match.
THEOREM WritesAreCovered == Spec => []AllowedIsCovered
<1>1. ApprovalsInv => AllowedIsCovered
  BY DEF ApprovalsInv
<1> QED BY <1>1, ApprovalsInvariance, PTL

\* A held action is released or denied as its approval was answered, and a trigger
\* counts each answer it resumed its target for, up to its maxTriggers.
THEOREM AnswersAreFollowed == Spec => []AnswerIsFollowed
<1>1. ASSUME ApprovalsInv PROVE AnswerIsFollowed
  <2>1. Types /\ Reached /\ Held /\ Counted
    BY <1>1 DEF ApprovalsInv
  <2>2. ASSUME NEW t \in Triggers
        PROVE  /\ trigger[t].count = Cardinality(Heard(t))
               /\ MaxFires[t] > 0 => trigger[t].count <= MaxFires[t]
               /\ \A i \in Heard(t) : approvals[i].status # "pending" /\ trigger[t].pattern \in {0, i}
    <3>1. ASSUME NEW i \in Heard(t) PROVE approvals[i].status # "pending" /\ trigger[t].pattern \in {0, i}
      <4>1. <<i, t>> \in resumed /\ i \in 1..MaxApprovals
        BY <2>1, RowPositions DEF Heard
      <4>2. answer[i] = "done" /\ trigger[t].pattern \in {0, i}
        BY <2>1, <4>1 DEF Counted
      <4> QED BY <2>1, <4>1, <4>2 DEF Reached
    <3> QED BY <2>1, <3>1 DEF Counted
  <2>3. TriggerCountsItsAnswers
    BY <2>2 DEF TriggerCountsItsAnswers, Heard
  <2> QED BY <2>1, <2>3 DEF AnswerIsFollowed, Held
<1> QED BY <1>1, ApprovalsInvariance, PTL
=============================================================================
