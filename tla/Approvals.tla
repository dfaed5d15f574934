------------------------------ MODULE Approvals ------------------------------
(***************************************************************************)
(* The permission engine's decision on a tool call, the approval it may    *)
(* ask for, the route that answers an approval, the grant and the released *)
(* action that follow, and the triggers that wait for the answer.          *)
(*                                                                         *)
(* A batch of tool calls reads the user's grants once, when the tool plane *)
(* adapter starts it, and checks its calls one by one, with awaits between *)
(* them.  Rows (approvals, grants, actions, triggers, event ids) are       *)
(* durable; batches and requests in flight end with the process, also      *)
(* between two writes of the route.                                        *)
(***************************************************************************)
EXTENDS Naturals, Sequences, FiniteSets

CONSTANTS
  Calls, Ask,             \* tool calls and what the engine is told of each
  Matching,               \* pairs <<p, r>>: the pattern made of p matches the resource r
  NoRegExp,               \* resources that are no regular expression
  Requests,               \* what approval_request is called for
  Batches, Plan,          \* batches of tool calls: those that run one after the other
  HeldActions, HeldCall,  \* runtime actions 'waiting_for_approval' and the call each stands for
  Triggers, MaxFires,     \* approval triggers and their maxTriggers (0: none)
  MaxPending,             \* maxPendingApprovals
  OnceTTL, AlwaysTTL,     \* how long a grant lasts
  Casts,                  \* which batches, held actions, triggers and requests take part
  MaxApprovals, MaxTime   \* bounds

Modes == {"read_only", "ask_on_write", "write_allowed", "restricted", "background_limited", "hard_deny"}
Operations == {"read", "write", "delete", "execute", "admin"}
NoAction == "none"
NoResource == "none"  \* a call that names no resource, and the pattern '*' of its grant
AnyTool == "*"        \* the action of a grant that serves every tool

ASSUME ApprovalsAssumption ==
  /\ \A c \in Calls : /\ Ask[c].mode \in Modes /\ Ask[c].op \in Operations
                      /\ Ask[c].policy \in {"none", "allow", "deny"}
                      /\ Ask[c].risky \in BOOLEAN /\ Ask[c].inWorkdir \in BOOLEAN
  /\ \A b \in Batches : Plan[b] \in Seq(Calls)
  /\ Requests \subseteq Calls
  /\ HeldCall \in [HeldActions -> Calls] /\ NoAction \notin HeldActions
  /\ MaxFires \in [Triggers -> Nat] /\ MaxPending \in Nat \ {0}
  /\ Casts \subseteq SUBSET (Batches \cup HeldActions \cup Triggers \cup Requests)
  /\ OnceTTL \in Nat /\ AlwaysTTL \in Nat /\ MaxApprovals \in Nat /\ MaxTime \in Nat

VARIABLES
  approvals,   \* rows in the order of their creation
  grants,      \* rows, with the approval they come from
  action,      \* status of the held actions
  trigger,     \* registrations
  resumed,     \* resume actions of triggers: <<approval, trigger>>
  eventTimes,  \* `evt-approval-<ms>`: the times an answer's event id is taken
  answer,      \* the request that answers each approval
  batch, ran,  \* the batches, and the calls that were let through
  wanted,      \* the requests to come
  now

vars == <<approvals, grants, action, trigger, resumed, eventTimes, answer, batch, ran, wanted, now>>

TypeOK ==
  /\ Len(approvals) <= MaxApprovals /\ now \in 0..MaxTime
  /\ \A i \in DOMAIN approvals : /\ approvals[i].call \in Calls /\ approvals[i].action \in HeldActions \cup {NoAction}
                                 /\ approvals[i].status \in {"pending", "approved", "rejected"}
  /\ \A g \in grants : g.from \in DOMAIN approvals /\ g.since <= g.until
  /\ action \in [HeldActions -> {"waiting_for_approval", "created", "denied"}]
  /\ \A t \in Triggers : trigger[t].status \in {"none", "active", "completed"} /\ trigger[t].count \in Nat
  /\ wanted \subseteq Requests
  /\ answer \in [1..MaxApprovals -> {"none", "open", "done", "failed", "lost", "tool"}]
  /\ \A b \in Batches : batch[b].pc \in {"idle", "running", "done"} /\ batch[b].held \subseteq grants

Init ==
  /\ approvals = <<>> /\ grants = {} /\ resumed = {} /\ eventTimes = {} /\ ran = {} /\ now = 0
  /\ answer = [i \in 1..MaxApprovals |-> "none"]
  /\ \E cast \in Casts :
       /\ action = [h \in HeldActions |-> IF h \in cast THEN "waiting_for_approval" ELSE "created"]
       /\ trigger = [t \in Triggers |-> [status |-> IF t \in cast THEN "none" ELSE "completed", pattern |-> 0, count |-> 0]]
       /\ wanted = Requests \cap cast
       /\ batch = [b \in Batches |-> [pc |-> IF b \in cast THEN "idle" ELSE "done", todo |-> Plan[b], held |-> {}]]

-----------------------------------------------------------------------------
(* The decision.                                                           *)

ModeAllowsOperation(mode, op) ==
  mode # "hard_deny" /\ (mode \in {"read_only", "background_limited"} => op = "read")

ForTool(g, a) == g.tool \in {a.tool, AnyTool}

\* The resource of a grant is used as a regular expression, with '*' for '.*' and
\* everything else unescaped: it may match other resources, and need not match
\* itself.  A call that names no resource is not compared.
Fits(g, a) == ForTool(g, a) /\ (a.resource = NoResource \/ <<g.resource, a.resource>> \in Matching)

\* Mutant: the expiry is not looked at.
FaultyCovers(g, a) == Fits(g, a)

\* checkExistingGrants: tool, pattern and expiry.  A grant is the user's and
\* serves every session.
Covers(g, a) == Fits(g, a) /\ now <= g.until

\* A grant, expired or not, whose pattern cannot be compiled.
Breaks(g, a) == ForTool(g, a) /\ a.resource # NoResource /\ g.resource \in NoRegExp

\* Operations of the kind 'admin', which tools of the categories admin and
\* connector have, are not asked about.
AsksOnWrite(a) == a.mode \in {"ask_on_write", "write_allowed"} /\ a.op \in {"write", "delete", "execute"}

InWorkdir(a) == a.inWorkdir /\ a.op \in {"read", "write"}

PendingOf(session) == {i \in DOMAIN approvals : approvals[i].status = "pending" /\ Ask[approvals[i].call].session = session}

\* An approval past its expiresAt stays pending and keeps its place.
TooMany(session) == Cardinality(PendingOf(session)) >= MaxPending

WithoutGrant(a) ==
  IF ~AsksOnWrite(a) THEN "allowed" ELSE IF TooMany(a.session) THEN "denied" ELSE "requires_approval"

\* The first grant that covers the call allows it, unless one that breaks the check
\* comes before; the rows are read in no stated order.
ByGrants(a, held) ==
  LET covered == \E g \in held : Covers(g, a)
      broken == \E g \in held : Breaks(g, a)
  IN  (IF covered THEN {"allowed"} ELSE {}) \cup (IF broken THEN {"throws"} ELSE {})
      \cup (IF covered \/ broken THEN {} ELSE {WithoutGrant(a)})

\* What checkPermission may answer.
CheckPermission(a, held) ==
  IF a.mode = "hard_deny" \/ a.policy = "deny"              THEN {"denied"}
  ELSE IF a.policy = "allow"                                THEN {"allowed"}
  ELSE IF ~ModeAllowsOperation(a.mode, a.op)                THEN {"denied"}
  ELSE IF a.mode = "restricted" /\ a.risky                  THEN {"denied"}
  ELSE IF InWorkdir(a)                                      THEN {"allowed"}
  ELSE ByGrants(a, held)

\* Every check that needs an approval asks for a new one, also for a call whose
\* twin is still pending.
CreateApprovalRequest(c, h) ==
  /\ Len(approvals) < MaxApprovals
  /\ approvals' = Append(approvals, [call |-> c, status |-> "pending", action |-> h])

Decide(c, d) ==
  /\ IF d = "requires_approval" THEN CreateApprovalRequest(c, NoAction) ELSE UNCHANGED approvals
  /\ ran' = IF d = "allowed" THEN ran \cup {[call |-> c, at |-> now]} ELSE ran

-----------------------------------------------------------------------------
(* Batches of tool calls, held actions and requests.                       *)

StartBatch(b) ==
  /\ batch[b].pc = "idle"
  /\ batch' = [batch EXCEPT ![b].pc = "running", ![b].held = grants]
  /\ UNCHANGED <<approvals, grants, action, trigger, resumed, eventTimes, answer, ran, wanted, now>>

\* The tool runs if it is allowed; one that does not run, or fails, makes the
\* orchestrator skip the rest of the batch.
CheckCall(b) == LET c == Head(batch[b].todo) IN
  /\ batch[b].pc = "running" /\ batch[b].todo # <<>>
  /\ \E d \in CheckPermission(Ask[c], batch[b].held), succeeds \in BOOLEAN :
       LET rest == IF d = "allowed" /\ succeeds THEN Tail(batch[b].todo) ELSE <<>> IN
       /\ Decide(c, d)
       /\ batch' = [batch EXCEPT ![b].todo = rest, ![b].pc = IF rest = <<>> THEN "done" ELSE @]
  /\ UNCHANGED <<grants, action, trigger, resumed, eventTimes, answer, wanted, now>>

\* The owner of a held action asks for it with pendingActionId.
AskForHeld(h) ==
  /\ action[h] = "waiting_for_approval" /\ \A i \in DOMAIN approvals : approvals[i].action # h
  /\ "requires_approval" \in CheckPermission(Ask[HeldCall[h]], grants)
  /\ CreateApprovalRequest(HeldCall[h], h)
  /\ UNCHANGED <<grants, action, trigger, resumed, eventTimes, answer, batch, ran, wanted, now>>

\* The tool approval_request asks for an operation the model names; it looks at no
\* permission and no bound.
RequestApproval(c) ==
  /\ c \in wanted
  /\ CreateApprovalRequest(c, NoAction)
  /\ wanted' = wanted \ {c}
  /\ UNCHANGED <<grants, action, trigger, resumed, eventTimes, answer, batch, ran, now>>

-----------------------------------------------------------------------------
(* PATCH /api/v1/approvals/:approvalId.                                    *)

Responses == {"reject", "approve_once", "approve_always"}
StatusOf(response) == IF response = "reject" THEN "rejected" ELSE "approved"

GrantOf(i, response) ==
  [from |-> i, tool |-> Ask[approvals[i].call].tool, resource |-> Ask[approvals[i].call].resource, since |-> now,
   until |-> now + (IF response = "approve_once" THEN OnceTTL ELSE AlwaysTTL)]

\* The writes of the route in their order: the row, the grant, the event.
RouteWrites(i, response, n) ==
  /\ approvals' = IF n >= 1 THEN [approvals EXCEPT ![i].status = StatusOf(response)] ELSE approvals
  /\ grants' = IF n >= 2 /\ response # "reject" THEN grants \cup {GrantOf(i, response)} ELSE grants
  /\ eventTimes' = IF n >= 3 THEN eventTimes \cup {now} ELSE eventTimes

\* Mutant: a rejection releases the action as well.
FaultyDispatchPendingAction(i, response) ==
  LET h == approvals[i].action IN
  action' = IF h # NoAction /\ action[h] = "waiting_for_approval" THEN [action EXCEPT ![h] = "created"] ELSE action

\* dispatchPendingAction up to its await.
DispatchPendingAction(i, response) ==
  LET h == approvals[i].action IN
  action' = IF h # NoAction /\ action[h] = "waiting_for_approval"
            THEN [action EXCEPT ![h] = IF response = "reject" THEN "denied" ELSE "created"]
            ELSE action

\* Mutant: an approval that was answered may be answered again.
FaultyAnswerApproval(i, response) ==
  /\ answer[i] # "open" /\ now \notin eventTimes
  /\ RouteWrites(i, response, 3)
  /\ DispatchPendingAction(i, response)
  /\ answer' = [answer EXCEPT ![i] = "open"]
  /\ UNCHANGED <<trigger, resumed, batch, ran, wanted, now>>

\* A pending approval is answered, late or not, and only once.
AnswerApproval(i, response) ==
  /\ approvals[i].status = "pending" /\ now \notin eventTimes
  /\ RouteWrites(i, response, 3)
  /\ DispatchPendingAction(i, response)
  /\ answer' = [answer EXCEPT ![i] = "open"]
  /\ UNCHANGED <<trigger, resumed, batch, ran, wanted, now>>

\* The id of the event is taken by an answer of the same millisecond: append
\* throws, after the row and the grant are written.
AnswerClashes(i, response) ==
  /\ approvals[i].status = "pending" /\ now \in eventTimes
  /\ RouteWrites(i, response, 2)
  /\ answer' = [answer EXCEPT ![i] = "failed"]
  /\ UNCHANGED <<action, trigger, resumed, batch, ran, wanted, now>>

\* approval_request with a decision answers a pending approval itself: it writes
\* the row, and nothing follows.
AnswerByTool(i, status) ==
  /\ approvals[i].status = "pending"
  /\ approvals' = [approvals EXCEPT ![i].status = status]
  /\ answer' = [answer EXCEPT ![i] = "tool"]
  /\ UNCHANGED <<grants, action, trigger, resumed, eventTimes, batch, ran, wanted, now>>

Matches(t, i) == trigger[t].status = "active" /\ trigger[t].pattern \in {0, i}

Fired(w, t) ==
  [w EXCEPT !.count = @ + 1, !.status = IF MaxFires[t] > 0 /\ w.count + 1 >= MaxFires[t] THEN "completed" ELSE @]

\* The dispatch returned, or there was none: handleApprovalResolved.
AnswerSettles(i) ==
  LET firing == {t \in Triggers : Matches(t, i)} IN
  /\ answer[i] = "open"
  /\ trigger' = [t \in Triggers |-> IF t \in firing THEN Fired(trigger[t], t) ELSE trigger[t]]
  /\ resumed' = resumed \cup ({i} \X firing)
  /\ answer' = [answer EXCEPT ![i] = "done"]
  /\ UNCHANGED <<approvals, grants, action, eventTimes, batch, ran, wanted, now>>

\* The dispatch of the released action threw: no trigger hears of the answer.
DispatchThrows(i) ==
  /\ answer[i] = "open" /\ approvals[i].status = "approved" /\ approvals[i].action # NoAction
  /\ answer' = [answer EXCEPT ![i] = "failed"]
  /\ UNCHANGED <<approvals, grants, action, trigger, resumed, eventTimes, batch, ran, wanted, now>>

\* registerTrigger for one approval, or for all of them (pattern '*', here 0).
RegisterTrigger(t, pattern) ==
  /\ trigger[t].status = "none" /\ pattern \in DOMAIN approvals \cup {0}
  /\ trigger' = [trigger EXCEPT ![t] = [status |-> "active", pattern |-> pattern, count |-> 0]]
  /\ UNCHANGED <<approvals, grants, action, resumed, eventTimes, answer, batch, ran, wanted, now>>

Tick ==
  /\ now < MaxTime
  /\ now' = now + 1
  /\ UNCHANGED <<approvals, grants, action, trigger, resumed, eventTimes, answer, batch, ran, wanted>>

\* What the end of the process does to the work in flight.
Forgotten(lost) ==
  /\ batch' = [b \in Batches |-> IF batch[b].pc = "running" THEN [batch[b] EXCEPT !.pc = "done"] ELSE batch[b]]
  /\ answer' = [i \in 1..MaxApprovals |-> IF answer[i] = "open" \/ i \in lost THEN "lost" ELSE answer[i]]
  /\ UNCHANGED <<action, trigger, resumed, ran, wanted, now>>

Restart == Forgotten({}) /\ UNCHANGED <<approvals, grants, eventTimes>>

\* The process ends after n writes of the route.
RestartInAnswer(i, response, n) ==
  /\ approvals[i].status = "pending" /\ now \notin eventTimes
  /\ RouteWrites(i, response, n)
  /\ Forgotten({i})

Next ==
  \/ \E b \in Batches : StartBatch(b) \/ CheckCall(b)
  \/ \E h \in HeldActions : AskForHeld(h)
  \/ \E c \in Requests : RequestApproval(c)
  \/ \E i \in DOMAIN approvals : \/ AnswerSettles(i) \/ DispatchThrows(i)
                                 \/ \E s \in {"approved", "rejected"} : AnswerByTool(i, s)
                                 \/ \E r \in Responses : \/ AnswerApproval(i, r) \/ AnswerClashes(i, r)
                                                         \/ \E n \in 1..3 : RestartInAnswer(i, r, n)
  \/ \E t \in Triggers, pattern \in 0..MaxApprovals : RegisterTrigger(t, pattern)
  \/ Tick \/ Restart

Spec == Init /\ [][Next]_vars

-----------------------------------------------------------------------------
(* Properties.                                                             *)

GrantsOf(i) == {g \in grants : g.from = i}

\* An approval yields one grant if the route approved it and none otherwise, however
\* often and by whom it is answered; an approved one has none only if the process
\* ended inside the route or the tool answered.
GrantMatchesAnswer ==
  /\ TypeOK
  /\ \A i \in DOMAIN approvals :
       /\ Cardinality(GrantsOf(i)) <= 1
       /\ GrantsOf(i) # {} => approvals[i].status = "approved" /\ answer[i] # "tool"
       /\ approvals[i].status = "approved" /\ answer[i] \notin {"lost", "tool"} => GrantsOf(i) # {}

\* A write, a deletion or an execution in a mode that asks ran only under a grant
\* that was given before for its tool (or for any), had not expired and whose
\* pattern, as the code compiles it, matches the resource, although the batch read
\* the grants earlier.  Free are what a policy or the work directory allows, and
\* what the engine never asks about: reads, and admin and connector tools.
AllowedIsCovered ==
  \A r \in ran : LET a == Ask[r.call] IN
    \/ a.policy = "allow" \/ InWorkdir(a) \/ ~AsksOnWrite(a)
    \/ \E g \in grants : /\ Fits(g, a)
                         /\ g.since <= r.at /\ r.at <= g.until /\ approvals[g.from].status = "approved"

\* A held action is released only by an approval and denied only by a rejection,
\* and still waits after an answer only if the request broke off or the tool gave it.
HeldActionFollowsAnswer ==
  \A i \in DOMAIN approvals : LET h == approvals[i].action IN h # NoAction =>
    /\ action[h] = "created" => approvals[i].status = "approved"
    /\ action[h] = "denied" => approvals[i].status = "rejected"
    /\ action[h] = "waiting_for_approval" => approvals[i].status = "pending" \/ answer[i] \in {"failed", "lost", "tool"}

\* A trigger has counted the answers it resumed its target for, stops at its
\* maxTriggers, and never resumes for an answer that was not given.
TriggerCountsItsAnswers ==
  \A t \in Triggers : LET heard == {i \in DOMAIN approvals : <<i, t>> \in resumed} IN
    /\ trigger[t].count = Cardinality(heard)
    /\ MaxFires[t] > 0 => trigger[t].count <= MaxFires[t]
    /\ \A i \in heard : approvals[i].status # "pending" /\ trigger[t].pattern \in {0, i}

\* What waits for an answer follows it: the held action and the triggers.
AnswerIsFollowed == HeldActionFollowsAnswer /\ TriggerCountsItsAnswers
=============================================================================
