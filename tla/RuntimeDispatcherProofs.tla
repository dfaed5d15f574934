----------------------- MODULE RuntimeDispatcherProofs ----------------------
(***************************************************************************)
(* Proofs about RuntimeDispatcher for any set of actions and keys, with    *)
(* and without a hook, a UNIQUE constraint and restarts.                   *)
(*                                                                         *)
(* The invariants the runs check are not inductive: that only one action   *)
(* of a key executes follows from who owns the key (KeyOwner,              *)
(* FirstIsOriginal), and that answers match rows from where each dispatch  *)
(* is (Progress).                                                          *)
(***************************************************************************)
EXTENDS RuntimeDispatcher, TLAPS

\* Who got past the duplicate check with a key owns it.
KeyOwner ==
  \A a \in Actions :
    KeyOf[a] # NoKey /\ (adapter[a] # None \/ pc[a] \in {"permission", "executing"})
    => first[KeyOf[a]] = a

\* The owner of a key has that key, has been dispatched and is no duplicate.
FirstIsOriginal ==
  \A k \in Keys :
    first[k] # None => /\ KeyOf[first[k]] = k
                       /\ pc[first[k]] # "new"
                       /\ duplicateOf[first[k]] = None

\* A duplicate is over and refers to the owner of its key.
DuplicatesAreOver ==
  \A a \in Actions :
    duplicateOf[a] # None => /\ pc[a] = "answered" /\ adapter[a] = None
                             /\ KeyOf[a] # NoKey /\ duplicateOf[a] = first[KeyOf[a]]

\* What the row, the answer and the adapter are at each place of dispatch.
Progress ==
  \A a \in Actions :
    /\ pc[a] = "new" => row[a] = None /\ answer[a] = None /\ adapter[a] = None
    /\ pc[a] = "permission" => row[a] = "created" /\ answer[a] = None /\ adapter[a] = None
    /\ pc[a] = "executing" => row[a] = "dispatching" /\ answer[a] = None
                              /\ adapter[a] = "running"
    /\ pc[a] = "lost" => answer[a] = None /\ adapter[a] # "running"
    /\ pc[a] = "answered" => row[a] # "dispatching"

IInv ==
  /\ TypeOK
  /\ KeyOwner
  /\ FirstIsOriginal
  /\ DuplicatesAreOver
  /\ Progress
  /\ AnswerMatchesRow
  /\ WritesAreNotReplayed
  /\ StragglersAreSignalled

-----------------------------------------------------------------------------
\* The initial states satisfy the invariant.
LEMMA InitIInv == Init => IInv
  BY ActionsAssumption, KeysAssumption, BoundAssumption
  DEF Init, IInv, TypeOK, KeyOwner, FirstIsOriginal, DuplicatesAreOver, Progress,
      AnswerMatchesRow, WritesAreNotReplayed, StragglersAreSignalled, None, Places, Terminal, Outcomes

\* What the blocks of one dispatch have in common: they write the entries of
\* their own action only, and at most give it a free key.
LocalStep(a) ==
  /\ \A b \in Actions \ {a} : /\ row'[b] = row[b] /\ pc'[b] = pc[b]
                              /\ answer'[b] = answer[b] /\ adapter'[b] = adapter[b]
                              /\ duplicateOf'[b] = duplicateOf[b]
  /\ signalled \subseteq signalled' /\ signalled' \subseteq signalled \cup {a}
  /\ \/ first' = first
     \/ /\ KeyOf[a] # NoKey /\ first[KeyOf[a]] = None
        /\ first' = [first EXCEPT ![KeyOf[a]] = a]
        /\ pc'[a] # "new"

\* Launch changes the row, the place and the adapter of one action, within their types.
LEMMA LaunchStep ==
  ASSUME IInv, NEW a \in Actions, NEW h \in BOOLEAN, Launch(a, h),
         pc[a] \in {"new", "permission"}
  PROVE  /\ row' \in [Actions -> Terminal \cup {None, "created", "dispatching"}]
         /\ pc' \in [Actions -> Places]
         /\ answer' \in [Actions -> Terminal \cup {None, "thrown"}]
         /\ adapter' \in [Actions -> {None, "running", "ended"}]
         /\ signalled' \subseteq Actions
         /\ \A b \in Actions \ {a} : /\ row'[b] = row[b] /\ pc'[b] = pc[b]
                                     /\ answer'[b] = answer[b] /\ adapter'[b] = adapter[b]
         /\ signalled \subseteq signalled' /\ signalled' \subseteq signalled \cup {a}
         /\ \/ /\ pc'[a] = "executing" /\ row'[a] = "dispatching"
               /\ answer'[a] = None /\ adapter'[a] = "running"
            \/ /\ pc'[a] = "answered" /\ row'[a] = "failed"
               /\ answer'[a] = "failed" /\ adapter'[a] = None
  BY DEF Launch, Close, Answer, IInv, TypeOK, Progress, Places, Terminal, Outcomes, None

\* A block that leaves its action's entries consistent keeps the invariant.
LEMMA LocalStepKeeps ==
  ASSUME IInv, NEW a \in Actions, LocalStep(a), TypeOK',
         /\ pc'[a] = "permission" => row'[a] = "created" /\ answer'[a] = None /\ adapter'[a] = None
         /\ pc'[a] = "executing" => row'[a] = "dispatching" /\ answer'[a] = None
                                    /\ adapter'[a] = "running"
         /\ pc'[a] = "answered" => row'[a] # "dispatching"
         /\ pc'[a] \notin {"new", "lost"},
         /\ answer'[a] \in {"completed", "timeout", "denied"} => row'[a] = answer'[a]
         /\ answer'[a] = "failed" => row'[a] \in {"failed", None}
         /\ answer'[a] = "duplicate" => row'[a] \in {"duplicate", "created"}
         /\ answer'[a] = "thrown" => row'[a] \in {"created", None},
         a \in Writes /\ answer'[a] = "duplicate" => row'[a] = "duplicate",
         pc'[a] = "answered" /\ adapter'[a] = "running" => a \in signalled',
         KeyOf[a] # NoKey /\ (adapter'[a] # None \/ pc'[a] \in {"permission", "executing"})
           => first'[KeyOf[a]] = a,
         \/ duplicateOf'[a] = duplicateOf[a] /\ duplicateOf[a] = None
         \/ /\ duplicateOf'[a] # None /\ pc'[a] = "answered" /\ adapter'[a] = None
            /\ KeyOf[a] # NoKey /\ pc[a] = "new" /\ first' = first
            /\ duplicateOf'[a] = first[KeyOf[a]]
  PROVE  IInv'
<1> USE ActionsAssumption, KeysAssumption DEF IInv, LocalStep
<1>1. KeyOwner'
  BY DEF KeyOwner, TypeOK, None
<1>2. FirstIsOriginal'
  <2> SUFFICES ASSUME NEW k \in Keys, first'[k] # None
               PROVE  KeyOf[first'[k]] = k /\ pc'[first'[k]] # "new" /\ duplicateOf'[first'[k]] = None
    BY DEF FirstIsOriginal
  <2>1. CASE first'[k] = first[k]
    BY <2>1 DEF FirstIsOriginal, TypeOK
  <2>2. CASE first'[k] # first[k]
    <3>1. first'[k] = a /\ KeyOf[a] = k /\ first[k] = None
      BY <2>2 DEF TypeOK
    <3>2. duplicateOf'[a] = None
      BY <3>1 DEF TypeOK
    <3> QED BY <3>1, <3>2
  <2> QED BY <2>1, <2>2
<1>3. DuplicatesAreOver'
  <2> SUFFICES ASSUME NEW b \in Actions, duplicateOf'[b] # None
               PROVE  /\ pc'[b] = "answered" /\ adapter'[b] = None
                      /\ KeyOf[b] # NoKey /\ duplicateOf'[b] = first'[KeyOf[b]]
    BY DEF DuplicatesAreOver
  <2>1. CASE b = a
    BY <2>1
  <2>2. CASE b # a
    BY <2>2 DEF DuplicatesAreOver, TypeOK
  <2> QED BY <2>1, <2>2
<1>4. Progress'
  BY DEF Progress
<1>5. AnswerMatchesRow' /\ WritesAreNotReplayed' /\ StragglersAreSignalled'
  BY DEF AnswerMatchesRow, WritesAreNotReplayed, StragglersAreSignalled
<1> QED BY <1>1, <1>2, <1>3, <1>4, <1>5

-----------------------------------------------------------------------------
\* A dispatch begins: validation, the row and the duplicate check.
LEMMA BeginsKeeps ==
  ASSUME IInv, NEW a \in Actions, DispatchBegins(a)
  PROVE  IInv'
<1> USE ActionsAssumption, KeysAssumption, BoundAssumption DEF config
<1>0. /\ TypeOK /\ pc[a] = "new" /\ row[a] = None /\ answer[a] = None /\ adapter[a] = None
      /\ duplicateOf[a] = None
  BY DEF IInv, Progress, DuplicatesAreOver, DispatchBegins, DispatchInvalid,
         DispatchRejectedByStore, DispatchDuplicate, Dispatch, None
<1>1. CASE DispatchInvalid(a) \/ DispatchRejectedByStore(a)
  <2>1. TypeOK' /\ LocalStep(a)
    BY <1>0, <1>1 DEF DispatchInvalid, DispatchRejectedByStore, Answer, TypeOK, LocalStep,
                      Places, Terminal, Outcomes
  <2> QED BY <1>0, <1>1, <2>1, LocalStepKeeps
          DEF DispatchInvalid, DispatchRejectedByStore, Answer, TypeOK, None
<1>2. ASSUME NEW behavior \in Behaviors, DispatchDuplicate(a, behavior)
      PROVE  IInv'
  <2>1. KeyOf[a] \in Keys /\ first[KeyOf[a]] \in Actions
    BY <1>0, <1>2 DEF DispatchDuplicate, IsDuplicate, TypeOK
  <2>2. \/ answer'[a] = "duplicate" /\ row'[a] = "created" /\ a \notin Writes
        \/ answer'[a] = "duplicate" /\ row'[a] = "duplicate"
        \/ answer'[a] = "failed" /\ row'[a] = "failed"
    BY <1>0, <1>2 DEF DispatchDuplicate, ResolveDuplicate, EffectiveBehavior, Close, Answer, TypeOK
  <2>3. pc' = [pc EXCEPT ![a] = "answered"]
    BY <1>2 DEF DispatchDuplicate, ResolveDuplicate, Close, Answer
  <2>4. TypeOK' /\ LocalStep(a)
    BY <1>0, <1>2, <2>1 DEF DispatchDuplicate, ResolveDuplicate, RememberKey, EffectiveBehavior, Close, Answer,
       TypeOK, LocalStep, Places, Terminal, Outcomes, Behaviors
  <2>5. duplicateOf'[a] = first[KeyOf[a]] /\ adapter' = adapter /\ first' = first
    BY <1>0, <1>2 DEF DispatchDuplicate, ResolveDuplicate, RememberKey, TypeOK
  <2> QED BY <1>0, <2>1, <2>2, <2>3, <2>4, <2>5, LocalStepKeeps DEF TypeOK, None
<1>3. ASSUME NEW h \in BOOLEAN, Dispatch(a, h)
      PROVE  IInv'
  <2>1. /\ row' \in [Actions -> Terminal \cup {None, "created", "dispatching"}]
        /\ pc' \in [Actions -> Places]
        /\ answer' \in [Actions -> Terminal \cup {None, "thrown"}]
        /\ adapter' \in [Actions -> {None, "running", "ended"}]
        /\ signalled' \subseteq Actions
        /\ \A b \in Actions \ {a} : /\ row'[b] = row[b] /\ pc'[b] = pc[b]
                                    /\ answer'[b] = answer[b] /\ adapter'[b] = adapter[b]
        /\ signalled \subseteq signalled' /\ signalled' \subseteq signalled \cup {a}
        /\ \/ pc'[a] = "executing" /\ row'[a] = "dispatching" /\ answer'[a] = None /\ adapter'[a] = "running"
           \/ pc'[a] = "answered" /\ row'[a] = "failed" /\ answer'[a] = "failed" /\ adapter'[a] = None
           \/ pc'[a] = "permission" /\ row'[a] = "created" /\ answer'[a] = None /\ adapter'[a] = None
    <3>1. CASE hasHook
      BY <1>0, <1>3, <3>1 DEF Dispatch, Proceed, TypeOK, Places, Terminal, Outcomes
    <3>2. CASE ~hasHook
      <4>1. Launch(a, h)
        BY <1>3, <3>2 DEF Dispatch, Proceed
      <4> QED BY <1>0, <4>1, LaunchStep
    <3> QED BY <3>1, <3>2
  <2>2. /\ UNCHANGED <<config, duplicateOf, aborted, restarts>>
        /\ \/ KeyOf[a] = NoKey /\ first' = first
           \/ /\ KeyOf[a] \in Keys /\ first[KeyOf[a]] = None
              /\ first' = [first EXCEPT ![KeyOf[a]] = a] /\ first'[KeyOf[a]] = a
    BY <1>0, <1>3 DEF Dispatch, RememberKey, IsDuplicate, TypeOK
  <2>3. TypeOK' /\ LocalStep(a)
    BY <1>0, <2>1, <2>2 DEF TypeOK, LocalStep
  <2> QED BY <1>0, <2>1, <2>2, <2>3, LocalStepKeeps DEF None
<1> QED BY <1>1, <1>2, <1>3 DEF DispatchBegins

\* A dispatch goes on after an await.
LEMMA GoesOnKeeps ==
  ASSUME IInv, NEW a \in Actions, DispatchGoesOn(a)
  PROVE  IInv'
<1> USE ActionsAssumption, KeysAssumption, BoundAssumption DEF config
<1>0. TypeOK /\ (pc[a] \in {"permission", "executing"} => duplicateOf[a] = None)
  BY DEF IInv, DuplicatesAreOver, TypeOK
<1>1. ASSUME NEW h \in BOOLEAN, PermissionAllowed(a, h)
      PROVE  IInv'
  <2>0. Launch(a, h) /\ pc[a] = "permission"
        /\ UNCHANGED <<config, first, duplicateOf, aborted, restarts>>
    BY <1>1 DEF PermissionAllowed
  <2>1. LocalStep(a) /\ TypeOK'
    BY <1>0, <2>0, LaunchStep DEF LocalStep, TypeOK
  <2>2. KeyOf[a] # NoKey => first'[KeyOf[a]] = a
    BY <2>0 DEF IInv, KeyOwner
  <2> QED BY <1>0, <2>0, <2>1, <2>2, LaunchStep, LocalStepKeeps DEF None
<1>2. CASE PermissionDenied(a) \/ PermissionThrows(a)
  <2>1. /\ pc[a] = "permission" /\ row[a] = "created" /\ adapter[a] = None
        /\ UNCHANGED <<first, duplicateOf, adapter>>
    BY <1>2 DEF PermissionDenied, PermissionThrows, IInv, Progress
  <2>2. LocalStep(a) /\ TypeOK'
    BY <1>0, <1>2 DEF PermissionDenied, PermissionThrows, Close, Answer, LocalStep, TypeOK,
                      Places, Terminal, Outcomes
  <2>3. /\ pc'[a] = "answered"
        /\ \/ row'[a] = "denied" /\ answer'[a] = "denied"
           \/ row'[a] = "created" /\ answer'[a] = "thrown"
    BY <1>0, <1>2, <2>1 DEF PermissionDenied, PermissionThrows, Close, Answer, TypeOK
  <2> QED BY <1>0, <2>1, <2>2, <2>3, LocalStepKeeps DEF None
<1>3. ASSUME NEW o \in Outcomes, AdapterEnds(a, o)
      PROVE  IInv'
  <2>1. TypeOK'
    BY <1>0, <1>3 DEF AdapterEnds, Close, Answer, TypeOK, Places, Terminal
  <2>2. CASE pc[a] = "executing"
    <3>1. LocalStep(a) /\ pc'[a] = "answered" /\ row'[a] = o /\ answer'[a] = o
          /\ adapter'[a] = "ended" /\ UNCHANGED <<first, duplicateOf>>
      BY <1>0, <1>3, <2>2 DEF AdapterEnds, Close, Answer, LocalStep, TypeOK
    <3>2. KeyOf[a] # NoKey => first'[KeyOf[a]] = a
      BY <2>2, <3>1 DEF IInv, KeyOwner
    <3> QED BY <1>0, <2>1, <2>2, <3>1, <3>2, LocalStepKeeps DEF None, Outcomes
  <2>3. CASE pc[a] # "executing"
    <3>1. /\ UNCHANGED <<row, pc, answer, first, duplicateOf, aborted, signalled, restarts>>
          /\ adapter' = [adapter EXCEPT ![a] = "ended"] /\ adapter[a] = "running"
      BY <1>3, <2>3 DEF AdapterEnds
    <3>2. pc[a] = "answered"
      BY <1>0, <2>3, <3>1 DEF IInv, Progress, TypeOK, Places, None
    <3> QED BY <2>1, <3>1, <3>2 DEF IInv, TypeOK, KeyOwner, FirstIsOriginal, DuplicatesAreOver,
               Progress, AnswerMatchesRow, WritesAreNotReplayed, StragglersAreSignalled, None
  <2> QED BY <2>2, <2>3
<1>4. CASE TimerFires(a)
  <2>1. LocalStep(a) /\ TypeOK' /\ pc'[a] = "answered" /\ row'[a] = "timeout"
        /\ answer'[a] = "timeout" /\ UNCHANGED <<first, duplicateOf, adapter>> /\ a \in signalled'
        /\ pc[a] = "executing"
    BY <1>0, <1>4 DEF TimerFires, Close, Answer, LocalStep, TypeOK, Places, Terminal, Outcomes
  <2>2. KeyOf[a] # NoKey => first'[KeyOf[a]] = a
    BY <2>1 DEF IInv, KeyOwner
  <2> QED BY <1>0, <2>1, <2>2, LocalStepKeeps DEF None
<1>5. CASE CallerAborts(a)
  BY <1>0, <1>5 DEF CallerAborts, IInv, TypeOK, KeyOwner, FirstIsOriginal, DuplicatesAreOver,
     Progress, AnswerMatchesRow, WritesAreNotReplayed, StragglersAreSignalled
<1> QED BY <1>1, <1>2, <1>3, <1>4, <1>5 DEF DispatchGoesOn

\* The process restarts and sweeps old rows.
LEMMA RestartKeeps ==
  ASSUME IInv, Restart
  PROVE  IInv'
<1> USE ActionsAssumption, KeysAssumption, BoundAssumption DEF config
<1>1. PICK old \in SUBSET Swept :
        row' = [a \in Actions |-> IF a \in old THEN "timeout" ELSE row[a]]
  BY DEF Restart
<1>2. \A a \in old : row[a] = "dispatching" /\ pc[a] # "answered" /\ answer[a] = None
  BY DEF Swept, IInv, TypeOK, Progress, Places
<1>3. TypeOK'
  BY <1>1 DEF Restart, IInv, TypeOK, Places, Terminal, Outcomes
<1>4. KeyOwner' /\ FirstIsOriginal' /\ DuplicatesAreOver'
  BY DEF Restart, IInv, TypeOK, KeyOwner, FirstIsOriginal, DuplicatesAreOver, Progress, None
<1>5. Progress' /\ AnswerMatchesRow' /\ WritesAreNotReplayed' /\ StragglersAreSignalled'
  BY <1>1, <1>2 DEF Restart, IInv, TypeOK, Progress, AnswerMatchesRow, WritesAreNotReplayed,
                    StragglersAreSignalled, None, Swept
<1> QED BY <1>3, <1>4, <1>5 DEF IInv

\* Every step keeps the invariant.
LEMMA NextKeeps == IInv /\ [Next]_vars => IInv'
<1> SUFFICES ASSUME IInv, [Next]_vars PROVE IInv'
  OBVIOUS
<1>1. CASE UNCHANGED vars
  BY <1>1 DEF vars, IInv, TypeOK, KeyOwner, FirstIsOriginal, DuplicatesAreOver, Progress,
              AnswerMatchesRow, WritesAreNotReplayed, StragglersAreSignalled
<1>2. CASE Next
  BY <1>2, BeginsKeeps, GoesOnKeeps, RestartKeeps DEF Next
<1> QED BY <1>1, <1>2

-----------------------------------------------------------------------------
\* Every reachable state of the dispatcher satisfies the inductive invariant.
THEOREM Invariance == Spec => []IInv
  BY InitIInv, NextKeeps, PTL DEF Spec

\* The variables keep their types.
THEOREM TypeCorrect == Spec => []TypeOK
<1>1. IInv => TypeOK
  BY DEF IInv
<1> QED BY <1>1, Invariance, PTL

\* dispatch hands at most one action of an idempotency key to an adapter, for
\* any number of concurrent dispatches and restarts.
THEOREM Idempotency == Spec => []OneExecutionPerKey
<1>1. IInv => OneExecutionPerKey
  BY DEF IInv, OneExecutionPerKey, KeyOwner
<1> QED BY <1>1, Invariance, PTL

\* The result dispatch returned and the row's status never disagree.
THEOREM AnswersAreTrue == Spec => []AnswerMatchesRow
<1>1. IInv => AnswerMatchesRow
  BY DEF IInv
<1> QED BY <1>1, Invariance, PTL

\* An adapter that outlives its dispatch has been told to stop.
THEOREM Stragglers == Spec => []StragglersAreSignalled
<1>1. IInv => StragglersAreSignalled
  BY DEF IInv
<1> QED BY <1>1, Invariance, PTL

\* A duplicate refers to an original of the same key and never executes; a
\* duplicate write is not answered with a previous result.
THEOREM Duplicates == Spec => [](DuplicatesPointToOriginal /\ WritesAreNotReplayed)
<1>1. IInv => DuplicatesPointToOriginal /\ WritesAreNotReplayed
  BY ActionsAssumption, KeysAssumption
  DEF IInv, TypeOK, DuplicatesPointToOriginal, DuplicatesAreOver, FirstIsOriginal
<1> QED BY <1>1, Invariance, PTL

\* No step changes an outcome: neither a late adapter nor a later start.
THEOREM OutcomesAreFinal == Spec => FinalStatusKept
<1>1. IInv /\ [Next]_vars => [\A a \in Actions : row[a] \in Terminal => row'[a] = row[a]]_vars
  <2> SUFFICES ASSUME IInv, Next, NEW b \in Actions, row[b] \in Terminal
               PROVE  row'[b] = row[b]
    BY DEF vars
  <2>0. TypeOK /\ row[b] \notin {None, "created", "dispatching"}
        /\ pc[b] \notin {"new", "permission", "executing"}
    BY DEF IInv, Progress, Terminal, Outcomes, None
  <2>1. ASSUME NEW a \in Actions, DispatchBegins(a) PROVE row'[b] = row[b]
    BY <2>0, <2>1 DEF DispatchBegins, DispatchInvalid, DispatchRejectedByStore, DispatchDuplicate,
       Dispatch, Proceed, Launch, ResolveDuplicate, Close, Answer, TypeOK
  <2>2. ASSUME NEW a \in Actions, DispatchGoesOn(a) PROVE row'[b] = row[b]
    BY <2>0, <2>2 DEF DispatchGoesOn, PermissionAllowed, PermissionDenied, PermissionThrows,
       AdapterEnds, TimerFires, CallerAborts, Launch, Close, Answer, TypeOK
  <2>3. CASE Restart
    BY <2>0, <2>3 DEF Restart, Swept
  <2> QED BY <2>1, <2>2, <2>3 DEF Next
<1> QED BY <1>1, Invariance, PTL DEF Spec, FinalStatusKept
=============================================================================
