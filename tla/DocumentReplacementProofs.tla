--------------------- MODULE DocumentReplacementProofs ---------------------
(***************************************************************************)
(* Proofs about DocumentReplacement, for any sets of jobs, parents, chunks *)
(* and versions and any limits: types and the lock for any number of       *)
(* processes; for one process and no late requests the gate and the truth  *)
(* of the outcome, and the completeness of the walk where nothing lags;    *)
(* without any of these restrictions, that a document stays served.        *)
(***************************************************************************)
EXTENDS DocumentReplacement, FiniteSetTheorems, WellFoundedInduction, TLAPS

-----------------------------------------------------------------------------
(* Types. *)

\* A job that has been called has its arguments.
CallKnown == \A j \in Jobs : pc[j] # "new" => call[j] \in Calls

Typing == TypeOK /\ CallKnown

LEMMA CallTypes ==
    ASSUME NEW c \in Calls
    PROVE  /\ LockKeyOf(c) \in LockKeys
           /\ c.parent \in Parents
           /\ c.chunks \in SUBSET Chunks
  BY VersionsAssumption DEF Calls, LockKeyOf, LockKeys

LEMMA InitTyping == Init => Typing
  BY LimitsAssumption
     DEF Init, Typing, TypeOK, CallKnown, Status, Critical, Posting, NoVerdicts,
         Verdicts, Outcomes, Lock!MutexInit, Lock!MutexTypeOK

LEMMA LockTypes ==
    ASSUME Lock!MutexTypeOK, NEW j \in Jobs, NEW k \in LockKeys,
           Lock!Request(j, k) \/ Lock!Grant(j, k) \/ Lock!Abandon(j, k) \/ Lock!Release(j, k)
    PROVE  Lock!MutexTypeOK'
  BY DEF Lock!MutexTypeOK, Lock!Request, Lock!Grant, Lock!Abandon, Lock!Release

LEMMA CarryOutTypes ==
    ASSUME Typing, NEW j \in Jobs, pc[j] # "new", NEW s \in SUBSET Chunks, CarryOut(j, s)
    PROVE  /\ index' \in [Parents -> [Chunks -> Jobs \cup {NoJob}]]
           /\ lagging' \in [Parents -> SUBSET Chunks]
<1> USE DEF Effect
<1>1. Parent(j) \in Parents
  BY CallTypes DEF Typing, CallKnown, Parent
<1>2. PICK row : row = [k \in Chunks |->
           IF k \notin s THEN index[Parent(j)][k] ELSE IF pc[j] = "uploading" THEN j ELSE NoJob]
  OBVIOUS
<1>3. row \in [Chunks -> Jobs \cup {NoJob}]
  BY <1>1, <1>2 DEF Typing, TypeOK
<1>4. index' = [index EXCEPT ![Parent(j)] = row]
  BY <1>2 DEF CarryOut
<1>5. index' \in [Parents -> [Chunks -> Jobs \cup {NoJob}]]
  BY <1>1, <1>3, <1>4 DEF Typing, TypeOK
<1>6. lagging' \in [Parents -> SUBSET Chunks]
  BY <1>1 DEF CarryOut, Typing, TypeOK
<1> QED
  BY <1>5, <1>6

LateTypeOK == late \in [Parents -> SUBSET (Chunks \X (Jobs \cup {NoJob}))]

LEMMA GiveUpTypes ==
    ASSUME Typing, NEW j \in Jobs, pc[j] # "new", NEW s \in SUBSET Chunks, GiveUpOn(j, s)
    PROVE  LateTypeOK'
<1>1. Parent(j) \in Parents
  BY CallTypes DEF Typing, CallKnown, Parent
<1>2. s \X {Effect(j)} \in SUBSET (Chunks \X (Jobs \cup {NoJob}))
  BY DEF Effect
<1> QED
  BY <1>1, <1>2 DEF GiveUpOn, LateTypeOK, Typing, TypeOK

LEMMA ReturnTypes ==
    ASSUME Typing, NEW j \in Jobs, pc[j] # "new", NEW w \in Outcomes, Return(j, w),
           index' \in [Parents -> [Chunks -> Jobs \cup {NoJob}]],
           lagging' \in [Parents -> SUBSET Chunks],
           LateTypeOK',
           call' = call
    PROVE  Typing'
<1>1. Lock!MutexTypeOK'
  BY CallTypes, LockTypes DEF Return, Typing, TypeOK, CallKnown
<1>2. pc' \in [Jobs -> Status] /\ CallKnown'
  BY DEF Return, Goto, Typing, TypeOK, CallKnown, Status
<1>3. /\ unsent' \in [Jobs -> SUBSET Chunks]
      /\ again' \in [Jobs -> SUBSET Chunks]
      /\ listed' \in [Jobs -> SUBSET Chunks]
      /\ cursor' \in [Jobs -> Chunks \cup {0}]
      /\ outcome' \in [Jobs -> Outcomes]
  BY DEF Return, Typing, TypeOK
<1>4. attempt' \in [Jobs -> 0 .. MaxAttempts]
  BY LimitsAssumption DEF Return, Typing, TypeOK
<1>5. verdict' \in [Jobs -> [Chunks -> Verdicts]]
  BY DEF Return, Typing, TypeOK, NoVerdicts, Verdicts
<1>6. call' \in [Jobs -> Calls \cup {NoCall}]
  BY DEF Typing, TypeOK
<1> QED
  BY <1>1, <1>2, <1>3, <1>4, <1>5, <1>6 DEF Typing, TypeOK, LateTypeOK

LEMMA StartTypes ==
    ASSUME Typing, NEW j \in Jobs, NEW s \in SUBSET Chunks, StartAction(j, s)
    PROVE  /\ unsent' \in [Jobs -> SUBSET Chunks]
           /\ again' \in [Jobs -> SUBSET Chunks]
           /\ attempt' \in [Jobs -> 0 .. MaxAttempts]
           /\ verdict' \in [Jobs -> [Chunks -> Verdicts]]
  BY LimitsAssumption DEF StartAction, Typing, TypeOK, NoVerdicts, Verdicts

LEMMA PostTypes ==
    ASSUME Typing, NEW j \in Jobs, NEW b \in SUBSET unsent[j], NEW a \in Answers(b),
           NEW s \in SUBSET b, Post(j, b, a, s)
    PROVE  Typing'
<1>1. unsent[j] \in SUBSET Chunks /\ pc[j] # "new"
  BY DEF Typing, TypeOK, Post, Posting
<1>2. /\ index' \in [Parents -> [Chunks -> Jobs \cup {NoJob}]]
      /\ lagging' \in [Parents -> SUBSET Chunks]
  BY <1>1, CarryOutTypes DEF Post
<1>3. PICK row : row = [k \in Chunks |-> IF k \in b /\ a[k] # "none" THEN a[k] ELSE verdict[j][k]]
  OBVIOUS
<1>4. row \in [Chunks -> Verdicts]
  BY <1>3 DEF Answers, Typing, TypeOK
<1>5. verdict' = [verdict EXCEPT ![j] = row]
  BY <1>3 DEF Post
<1>6. verdict' \in [Jobs -> [Chunks -> Verdicts]]
  BY <1>4, <1>5 DEF Typing, TypeOK
<1>7. unsent' \in [Jobs -> SUBSET Chunks] /\ again' \in [Jobs -> SUBSET Chunks]
  BY <1>1 DEF Post, Typing, TypeOK
<1>8. LateTypeOK'
  BY <1>1, GiveUpTypes DEF Post
<1> QED
  BY <1>2, <1>6, <1>7, <1>8
     DEF LateTypeOK, Post, Typing, TypeOK, CallKnown, lockVars, walkVars, Lock!MutexTypeOK

LEMMA StepTyping ==
    ASSUME Typing, NEW j \in Jobs, JobStep(j) \/ Fault(j) \/ \E c \in Calls : Call(j, c)
    PROVE  Typing'
<1> USE DEF Goto
<1>1. ASSUME pc[j] # "new"
      PROVE  /\ call[j] \in Calls
             /\ LockKeyOf(call[j]) \in LockKeys
             /\ Expected(j) \in SUBSET Chunks
  BY <1>1, CallTypes DEF Typing, CallKnown, Expected
<1>2. unsent[j] \in SUBSET Chunks /\ again[j] \in SUBSET Chunks /\ Stale(j) \in SUBSET Chunks
  BY DEF Typing, TypeOK, Stale
<1>3. ASSUME NEW c \in Calls, Call(j, c) PROVE Typing'
  <2>1. Lock!MutexTypeOK'
    BY <1>3, CallTypes, LockTypes DEF Call, Typing, TypeOK
  <2> QED
    BY <1>3, <2>1
       DEF Call, Typing, TypeOK, CallKnown, Status, indexVars, retryVars, walkVars
<1>4. CASE Enter(j)
  <2>1. Lock!MutexTypeOK'
    BY <1>1, <1>4, LockTypes DEF Enter, Typing, TypeOK
  <2> QED
    BY <1>4, <2>1
       DEF Enter, Typing, TypeOK, CallKnown, Status, Critical, indexVars, retryVars, walkVars
<1>5. CASE CancelAcquire(j)
  <2>1. Lock!MutexTypeOK'
    BY <1>1, <1>5, LockTypes DEF CancelAcquire, Typing, TypeOK
  <2> QED
    BY <1>5, <2>1
       DEF CancelAcquire, Typing, TypeOK, CallKnown, Status, Outcomes,
           indexVars, retryVars, walkVars
<1>6. CASE Refuse(j)
  BY <1>6, ReturnTypes DEF Refuse, Outcomes, indexVars, LateTypeOK, Typing, TypeOK
<1>7. CASE BeginUpload(j)
  <2>1. StartAction(j, Expected(j)) /\ Expected(j) \in SUBSET Chunks
    BY <1>1, <1>7 DEF BeginUpload
  <2> QED
    BY <1>7, <2>1, StartTypes
       DEF BeginUpload, Typing, TypeOK, CallKnown, Status, Critical, Posting,
           lockVars, indexVars, walkVars, Lock!MutexTypeOK
<1>8. CASE PostSome(j)
  BY <1>8, PostTypes DEF PostSome
<1>9. CASE Retry(j)
  <2>1. attempt' \in [Jobs -> 0 .. MaxAttempts]
    BY <1>9, LimitsAssumption DEF Retry, Typing, TypeOK
  <2>2. unsent' \in [Jobs -> SUBSET Chunks] /\ again' \in [Jobs -> SUBSET Chunks]
    BY <1>2, <1>9 DEF Retry, Typing, TypeOK
  <2> QED
    BY <1>9, <2>1, <2>2
       DEF Retry, Typing, TypeOK, CallKnown, lockVars, indexVars, walkVars, Lock!MutexTypeOK
<1>10. CASE GateBlocks(j)
  BY <1>10, ReturnTypes DEF GateBlocks, Outcomes, indexVars, LateTypeOK, Typing, TypeOK
<1>11. CASE BeginListing(j)
  BY <1>11
     DEF BeginListing, Typing, TypeOK, CallKnown, Status, Critical,
         lockVars, indexVars, retryVars, walkVars, Lock!MutexTypeOK
<1>12. ASSUME NEW v \in Views(Parent(j)), ListPage(j, v) PROVE Typing'
  <2>1. Page(v, cursor[j]) \in SUBSET Chunks
    BY DEF Views, Page
  <2>2. listed' \in [Jobs -> SUBSET Chunks] /\ cursor' \in [Jobs -> Chunks \cup {0}]
    BY <1>12, <2>1 DEF ListPage, Typing, TypeOK
  <2> QED
    BY <1>12, <2>2
       DEF ListPage, Typing, TypeOK, CallKnown, lockVars, indexVars, retryVars, Lock!MutexTypeOK
<1>13. ASSUME NEW v \in Views(Parent(j)), NothingStale(j, v) PROVE Typing'
  BY <1>13, ReturnTypes DEF NothingStale, Outcomes, indexVars, LateTypeOK, Typing, TypeOK
<1>14. ASSUME NEW v \in Views(Parent(j)), BeginRemoving(j, v) PROVE Typing'
  <2>1. StartAction(j, Stale(j))
    BY <1>14 DEF BeginRemoving
  <2> QED
    BY <1>2, <1>14, <2>1, StartTypes
       DEF BeginRemoving, Typing, TypeOK, CallKnown, Status, Critical, Posting,
           lockVars, indexVars, walkVars, Lock!MutexTypeOK
<1>15. CASE Finish(j)
  <2>1. PICK w \in Outcomes : Return(j, w)
    BY <1>15 DEF Finish, Outcomes
  <2> QED
    BY <1>15, <2>1, ReturnTypes DEF Finish, indexVars, LateTypeOK, Typing, TypeOK
<1>16. ASSUME NEW s \in SUBSET unsent[j], NEW d \in SUBSET (unsent[j] \ s),
              PostRaises(j, s) \/ CancelPost(j, s, d)
       PROVE  Typing'
  <2>1. PICK w \in Outcomes : Return(j, w)
    BY <1>16 DEF PostRaises, CancelPost, Outcomes
  <2>2. pc[j] # "new" /\ CarryOut(j, s) /\ call' = call
    BY <1>16 DEF PostRaises, CancelPost, Posting
  <2>3. LateTypeOK'
    BY <1>2, <1>16, <2>2, GiveUpTypes DEF PostRaises, CancelPost, LateTypeOK, Typing, TypeOK
  <2> QED
    BY <1>2, <2>1, <2>2, <2>3, CarryOutTypes, ReturnTypes
<1>17. CASE ListRaises(j)
  <2>1. PICK w \in Outcomes : Return(j, w)
    BY <1>17 DEF ListRaises, Outcomes
  <2> QED
    BY <1>17, <2>1, ReturnTypes DEF ListRaises, indexVars, LateTypeOK, Typing, TypeOK
<1> QED
  BY <1>3, <1>4, <1>5, <1>6, <1>7, <1>8, <1>9, <1>10, <1>11, <1>12, <1>13, <1>14, <1>15,
     <1>16, <1>17
     DEF JobStep, Fault, Abort, Query

LEMMA NextTyping == Typing /\ [Next]_vars => Typing'
<1> SUFFICES ASSUME Typing, [Next]_vars PROVE Typing'
  OBVIOUS
<1>1. CASE UNCHANGED vars
  BY <1>1
     DEF vars, lockVars, indexVars, retryVars, walkVars, Typing, TypeOK, CallKnown,
         Lock!MutexTypeOK
<1>2. ASSUME NEW p \in Parents, NEW k \in Chunks, BecomesQueryable(p, k) PROVE Typing'
  BY <1>2
     DEF BecomesQueryable, lockVars, retryVars, walkVars, Typing, TypeOK, CallKnown,
         Lock!MutexTypeOK
<1>3. ASSUME NEW p \in Parents, NEW k \in Chunks, NEW w \in Jobs \cup {NoJob}, LandsLate(p, k, w)
      PROVE  Typing'
  <2>1. index' \in [Parents -> [Chunks -> Jobs \cup {NoJob}]]
    BY <1>3 DEF LandsLate, Typing, TypeOK
  <2>2. lagging' \in [Parents -> SUBSET Chunks] /\ LateTypeOK'
    BY <1>3 DEF LandsLate, Typing, TypeOK, LateTypeOK
  <2> QED
    BY <1>3, <2>1, <2>2
       DEF LandsLate, lockVars, retryVars, walkVars, Typing, TypeOK, CallKnown,
           LateTypeOK, Lock!MutexTypeOK
<1> QED
  BY <1>1, <1>2, <1>3, StepTyping DEF Next

LEMMA TypesHold == Spec => []Typing
  BY InitTyping, NextTyping, PTL DEF Spec

(* Every reachable state is well typed: in particular no action is         *)
(* attempted more than MaxAttempts times.                                  *)
THEOREM TypeCorrect == Spec => []TypeOK
<1>1. Typing => TypeOK
  BY DEF Typing
<1> QED
  BY <1>1, TypesHold, PTL

-----------------------------------------------------------------------------
(* The critical section. *)

LockFollowsJob ==
    \A j \in Jobs, k \in LockKeys :
        /\ owner[k] = j <=> (pc[j] \in Critical /\ LockKeyOf(call[j]) = k)
        /\ j \in waiting[k] <=> (pc[j] = "acquiring" /\ LockKeyOf(call[j]) = k)

LEMMA InitLock == Init => LockFollowsJob
  BY NoJobAssumption DEF Init, LockFollowsJob, Critical, Posting, Lock!MutexInit

(* What a job's step may do to the locals of another one: nothing.         *)
Untouched(i) ==
    /\ pc'[i] = pc[i] /\ call'[i] = call[i]
    /\ unsent'[i] = unsent[i] /\ again'[i] = again[i] /\ verdict'[i] = verdict[i]
    /\ listed'[i] = listed[i] /\ cursor'[i] = cursor[i] /\ outcome'[i] = outcome[i]

LEMMA OthersUntouched ==
    ASSUME Typing, NEW j \in Jobs, NEW i \in Jobs, i # j,
           JobStep(j) \/ Fault(j) \/ \E c \in Calls : Call(j, c)
    PROVE  Untouched(i)
<1>1. CASE \E c \in Calls : Call(j, c)
  BY <1>1 DEF Call, Goto, Untouched, Typing, TypeOK, retryVars, walkVars
<1>2. CASE Enter(j) \/ CancelAcquire(j)
  BY <1>2 DEF Enter, CancelAcquire, Goto, Untouched, Typing, TypeOK, retryVars, walkVars
<1>3. ASSUME NEW w \in Outcomes, Return(j, w), call' = call PROVE Untouched(i)
  BY <1>3 DEF Return, Goto, Untouched, Typing, TypeOK
<1>4. CASE Refuse(j) \/ GateBlocks(j) \/ Finish(j) \/ ListRaises(j)
  <2>1. PICK w \in Outcomes : Return(j, w)
    BY <1>4 DEF Refuse, GateBlocks, Finish, ListRaises, Outcomes
  <2> QED
    BY <1>3, <1>4, <2>1 DEF Refuse, GateBlocks, Finish, ListRaises
<1>5. ASSUME NEW s \in SUBSET unsent[j], NEW d \in SUBSET (unsent[j] \ s),
             PostRaises(j, s) \/ CancelPost(j, s, d)
      PROVE  Untouched(i)
  <2>1. PICK w \in Outcomes : Return(j, w)
    BY <1>5 DEF PostRaises, CancelPost, Outcomes
  <2> QED
    BY <1>3, <1>5, <2>1 DEF PostRaises, CancelPost
<1>6. ASSUME NEW v \in Views(Parent(j)), NothingStale(j, v) PROVE Untouched(i)
  BY <1>3, <1>6 DEF NothingStale, Outcomes
<1>7. CASE BeginUpload(j) \/ BeginListing(j) \/ Retry(j)
  BY <1>7
     DEF BeginUpload, BeginListing, Retry, StartAction, Goto, Untouched, Typing, TypeOK,
         retryVars, walkVars
<1>8. ASSUME NEW v \in Views(Parent(j)), ListPage(j, v) \/ BeginRemoving(j, v)
      PROVE  Untouched(i)
  BY <1>8
     DEF ListPage, BeginRemoving, StartAction, Goto, Untouched, Typing, TypeOK,
         retryVars, walkVars
<1>9. CASE PostSome(j)
  BY <1>9 DEF PostSome, Post, Untouched, Typing, TypeOK, walkVars
<1> QED
  BY <1>1, <1>2, <1>4, <1>5, <1>6, <1>7, <1>8, <1>9 DEF JobStep, Fault, Abort, Query

(* And what it does to the lock.                                           *)
LockMove(j) ==
    \/ /\ pc[j] = "new" /\ pc'[j] = "acquiring" /\ call'[j] \in Calls
       /\ Lock!Request(j, LockKeyOf(call'[j]))
    \/ /\ pc[j] = "acquiring" /\ pc'[j] \in Critical /\ call'[j] = call[j]
       /\ Lock!Grant(j, LockKeyOf(call[j]))
    \/ /\ pc[j] = "acquiring" /\ pc'[j] = "done" /\ call'[j] = call[j]
       /\ Lock!Abandon(j, LockKeyOf(call[j]))
    \/ /\ pc[j] \in Critical /\ pc'[j] = "done" /\ call'[j] = call[j]
       /\ Lock!Release(j, LockKeyOf(call[j]))
    \/ /\ pc[j] \in Critical /\ pc'[j] \in Critical /\ call'[j] = call[j]
       /\ UNCHANGED <<owner, waiting>>

LEMMA StepMovesLock ==
    ASSUME Typing, NEW j \in Jobs,
           JobStep(j) \/ Fault(j) \/ \E c \in Calls : Call(j, c)
    PROVE  LockMove(j)
<1> USE DEF Goto
<1>1. CASE \E c \in Calls : Call(j, c)
  BY <1>1 DEF Call, LockMove, Typing, TypeOK
<1>2. CASE Enter(j) \/ CancelAcquire(j)
  BY <1>2 DEF Enter, CancelAcquire, LockMove, Critical, Typing, TypeOK
<1>3. ASSUME NEW w \in Outcomes, Return(j, w), call' = call, pc[j] \in Critical
      PROVE  LockMove(j)
  BY <1>3 DEF Return, LockMove, Typing, TypeOK
<1>4. CASE Refuse(j) \/ GateBlocks(j) \/ Finish(j) \/ ListRaises(j)
  <2>1. PICK w \in Outcomes : Return(j, w)
    BY <1>4 DEF Refuse, GateBlocks, Finish, ListRaises, Outcomes
  <2> QED
    BY <1>3, <1>4, <2>1 DEF Refuse, GateBlocks, Finish, ListRaises, Critical, Posting
<1>5. ASSUME NEW s \in SUBSET unsent[j], NEW d \in SUBSET (unsent[j] \ s),
             PostRaises(j, s) \/ CancelPost(j, s, d)
      PROVE  LockMove(j)
  <2>1. PICK w \in Outcomes : Return(j, w)
    BY <1>5 DEF PostRaises, CancelPost, Outcomes
  <2> QED
    BY <1>3, <1>5, <2>1 DEF PostRaises, CancelPost, Critical
<1>6. ASSUME NEW v \in Views(Parent(j)), NothingStale(j, v) PROVE LockMove(j)
  BY <1>3, <1>6 DEF NothingStale, Outcomes, Critical
<1>7. CASE BeginUpload(j) \/ BeginListing(j) \/ Retry(j)
  BY <1>7
     DEF BeginUpload, BeginListing, Retry, LockMove, lockVars, Critical, Posting, Typing, TypeOK
<1>8. ASSUME NEW v \in Views(Parent(j)), ListPage(j, v) \/ BeginRemoving(j, v)
      PROVE  LockMove(j)
  BY <1>8 DEF ListPage, BeginRemoving, LockMove, lockVars, Critical, Posting, Typing, TypeOK
<1>9. CASE PostSome(j)
  BY <1>9 DEF PostSome, Post, LockMove, lockVars, Critical
<1> QED
  BY <1>1, <1>2, <1>4, <1>5, <1>6, <1>7, <1>8, <1>9 DEF JobStep, Fault, Abort, Query

LEMMA StepLock ==
    ASSUME Typing, LockFollowsJob, NEW j \in Jobs,
           JobStep(j) \/ Fault(j) \/ \E c \in Calls : Call(j, c)
    PROVE  LockFollowsJob'
<1> SUFFICES ASSUME NEW i \in Jobs, NEW k \in LockKeys
             PROVE  /\ owner'[k] = i <=> (pc'[i] \in Critical /\ LockKeyOf(call'[i]) = k)
                    /\ i \in waiting'[k] <=> (pc'[i] = "acquiring" /\ LockKeyOf(call'[i]) = k)
  BY DEF LockFollowsJob
<1>1. LockMove(j)
  BY StepMovesLock
<1>2. /\ owner[k] = i <=> (pc[i] \in Critical /\ LockKeyOf(call[i]) = k)
      /\ i \in waiting[k] <=> (pc[i] = "acquiring" /\ LockKeyOf(call[i]) = k)
      /\ owner[k] = j <=> (pc[j] \in Critical /\ LockKeyOf(call[j]) = k)
      /\ j \in waiting[k] <=> (pc[j] = "acquiring" /\ LockKeyOf(call[j]) = k)
  BY DEF LockFollowsJob
<1>3. i # j => pc'[i] = pc[i] /\ call'[i] = call[i]
  BY OthersUntouched DEF Untouched
<1>4. /\ owner \in [LockKeys -> Jobs \cup {NoJob}] /\ waiting \in [LockKeys -> SUBSET Jobs]
      /\ pc[j] # "new" => LockKeyOf(call[j]) \in LockKeys
  BY CallTypes DEF Typing, TypeOK, CallKnown, Lock!MutexTypeOK
<1>5. "new" \notin Critical /\ "acquiring" \notin Critical /\ "done" \notin Critical
  BY DEF Critical, Posting
<1> USE NoJobAssumption
<1>6. CASE /\ pc[j] = "new" /\ pc'[j] = "acquiring" /\ call'[j] \in Calls
           /\ Lock!Request(j, LockKeyOf(call'[j]))
  BY <1>2, <1>3, <1>4, <1>5, <1>6, CallTypes DEF Lock!Request
<1>7. CASE /\ pc[j] = "acquiring" /\ pc'[j] \in Critical /\ call'[j] = call[j]
           /\ Lock!Grant(j, LockKeyOf(call[j]))
  BY <1>2, <1>3, <1>4, <1>5, <1>7 DEF Lock!Grant
<1>8. CASE /\ pc[j] = "acquiring" /\ pc'[j] = "done" /\ call'[j] = call[j]
           /\ Lock!Abandon(j, LockKeyOf(call[j]))
  BY <1>2, <1>3, <1>4, <1>5, <1>8 DEF Lock!Abandon
<1>9. CASE /\ pc[j] \in Critical /\ pc'[j] = "done" /\ call'[j] = call[j]
           /\ Lock!Release(j, LockKeyOf(call[j]))
  BY <1>2, <1>3, <1>4, <1>5, <1>9 DEF Lock!Release
<1>10. CASE /\ pc[j] \in Critical /\ pc'[j] \in Critical /\ call'[j] = call[j]
            /\ UNCHANGED <<owner, waiting>>
  BY <1>2, <1>3, <1>4, <1>5, <1>10
<1> QED
  BY <1>1, <1>6, <1>7, <1>8, <1>9, <1>10 DEF LockMove

-----------------------------------------------------------------------------
(* The gate, for one process.                                              *)

(* What an acknowledgement is worth: as long as the job is in its critical *)
(* section, an upserted chunk stays as it wrote it and a removed one stays *)
(* away.                                                                   *)
AcknowledgedStays(j) ==
    /\ pc[j] = "uploading" =>
          \A k \in Chunks : verdict[j][k] = "succeeded" => index[Parent(j)][k] = j
    /\ pc[j] \in {"listing", "removing"} => \A k \in Expected(j) : index[Parent(j)][k] = j
    /\ pc[j] = "removing" =>
          /\ unsent[j] \subseteq Stale(j) /\ again[j] \subseteq Stale(j)
          /\ \A k \in Chunks : verdict[j][k] = "succeeded" => index[Parent(j)][k] = NoJob

\* No request is carried out after it was given up on.
NothingLate == late = [p \in Parents |-> {}]

SafetyInvariant ==
    Typing /\ LockFollowsJob /\ NothingLate /\ \A j \in Jobs : AcknowledgedStays(j)

SingleProcess == \A p, q \in Processes : p = q

\* One process: two jobs inside their critical sections work on two parents.
LEMMA OneJobPerParent ==
    ASSUME Typing, LockFollowsJob, SingleProcess, NEW i \in Jobs, NEW j \in Jobs,
           pc[i] \in Critical, pc[j] \in Critical, Parent(i) = Parent(j)
    PROVE  i = j
<1>1. call[i] \in Calls /\ call[j] \in Calls
  BY DEF Typing, CallKnown, Critical, Posting
<1>2. LockKeyOf(call[i]) = LockKeyOf(call[j]) /\ LockKeyOf(call[i]) \in LockKeys
  BY <1>1, CallTypes DEF SingleProcess, Calls, LockKeyOf, Parent
<1>3. owner[LockKeyOf(call[i])] = i /\ owner[LockKeyOf(call[i])] = j
  BY <1>2 DEF LockFollowsJob
<1> QED
  BY <1>3

\* A step changes the index only in a row its job is working on.
LEMMA StepKeepsOtherRows ==
    ASSUME Typing, NEW j \in Jobs, NEW p \in Parents,
           JobStep(j) \/ Fault(j) \/ \E c \in Calls : Call(j, c),
           index'[p] # index[p]
    PROVE  pc[j] \in Critical /\ Parent(j) = p
<1>1. CASE PostSome(j)
  BY <1>1 DEF PostSome, Post, CarryOut, Critical, Typing, TypeOK
<1>2. CASE \E s \in SUBSET unsent[j] : Abort(j, s)
  BY <1>2 DEF Abort, PostRaises, CancelPost, CarryOut, Critical, Typing, TypeOK
<1>3. CASE \E v \in Views(Parent(j)) :
               ListPage(j, v) \/ NothingStale(j, v) \/ BeginRemoving(j, v)
  BY <1>3 DEF ListPage, NothingStale, BeginRemoving, indexVars
<1> QED
  BY <1>1, <1>2, <1>3
     DEF JobStep, Fault, Query, Enter, Refuse, BeginUpload, Retry, GateBlocks, BeginListing,
         Finish, CancelAcquire, ListRaises, Call, indexVars

\* The row of its parent after a job's request was carried out.
LEMMA CarriedOut ==
    ASSUME Typing, NEW j \in Jobs, pc[j] # "new", NEW s \in SUBSET Chunks, CarryOut(j, s)
    PROVE  \A k \in Chunks : index'[Parent(j)][k] =
              IF k \notin s THEN index[Parent(j)][k]
              ELSE IF pc[j] = "uploading" THEN j ELSE NoJob
  BY CallTypes DEF CarryOut, Effect, Typing, TypeOK, CallKnown, Parent

LEMMA OwnStepAcknowledged ==
    ASSUME Typing, NEW j \in Jobs, AcknowledgedStays(j),
           JobStep(j) \/ Fault(j) \/ \E c \in Calls : Call(j, c)
    PROVE  AcknowledgedStays(j)'
<1> USE DEF Goto
<1>1. CASE pc'[j] \notin {"uploading", "listing", "removing"}
  BY <1>1 DEF AcknowledgedStays
<1>2. ASSUME NEW w \in Outcomes, Return(j, w) PROVE AcknowledgedStays(j)'
  <2>1. pc'[j] = "done"
    BY <1>2 DEF Return, Typing, TypeOK
  <2> QED
    BY <1>1, <2>1
<1>3. CASE \E c \in Calls : Call(j, c)
  BY <1>1, <1>3 DEF Call, Typing, TypeOK
<1>4. CASE Enter(j) \/ CancelAcquire(j)
  BY <1>1, <1>4 DEF Enter, CancelAcquire, Typing, TypeOK
<1>5. CASE Refuse(j) \/ GateBlocks(j) \/ Finish(j) \/ ListRaises(j)
  BY <1>2, <1>5 DEF Refuse, GateBlocks, Finish, ListRaises, Outcomes
<1>6. CASE \E s \in SUBSET unsent[j] : Abort(j, s)
  BY <1>2, <1>6 DEF Abort, PostRaises, CancelPost, Outcomes
<1>7. CASE \E v \in Views(Parent(j)) : NothingStale(j, v)
  BY <1>2, <1>7 DEF NothingStale, Outcomes
<1>8. CASE BeginUpload(j)
  BY <1>8
     DEF BeginUpload, StartAction, AcknowledgedStays, NoVerdicts, Typing, TypeOK
<1>9. CASE BeginListing(j)
  <2>1. pc[j] = "uploading" /\ GateOpens(j) /\ pc'[j] = "listing"
        /\ UNCHANGED <<indexVars, call, retryVars, walkVars>>
    BY <1>9 DEF BeginListing, Typing, TypeOK
  <2>2. Expected(j) \subseteq Chunks
    BY <2>1, CallTypes DEF Typing, CallKnown, Expected
  <2> QED
    BY <2>1, <2>2
       DEF GateOpens, AcknowledgedStays, Parent, Expected, indexVars, retryVars, walkVars
<1>10. CASE Retry(j)
  BY <1>10
     DEF Retry, Posting, AcknowledgedStays, Parent, Expected, Stale, indexVars, walkVars,
         Typing, TypeOK
<1>11. CASE \E v \in Views(Parent(j)) : ListPage(j, v)
  BY <1>11
     DEF ListPage, AcknowledgedStays, Parent, Expected, Stale, indexVars, retryVars
<1>12. CASE \E v \in Views(Parent(j)) : BeginRemoving(j, v)
  BY <1>12
     DEF BeginRemoving, StartAction, AcknowledgedStays, NoVerdicts, Parent, Expected, Stale,
         indexVars, walkVars, Typing, TypeOK
<1>13. ASSUME NEW b \in SUBSET unsent[j], NEW a \in Answers(b), NEW s \in SUBSET b,
              Post(j, b, a, s)
       PROVE  AcknowledgedStays(j)'
  <2>1. /\ pc[j] \in Posting /\ pc' = pc /\ call' = call /\ listed' = listed
        /\ CarryOut(j, s) /\ Agrees(a, s)
    BY <1>13 DEF Post, walkVars
  <2>2. unsent[j] \in SUBSET Chunks /\ again[j] \in SUBSET Chunks /\ s \in SUBSET Chunks
    BY DEF Typing, TypeOK
  <2>3. \A k \in Chunks : index'[Parent(j)][k] =
           IF k \notin s THEN index[Parent(j)][k]
           ELSE IF pc[j] = "uploading" THEN j ELSE NoJob
    BY <2>1, <2>2, CarriedOut DEF Posting
  <2>4. \A k \in Chunks : verdict'[j][k] =
           IF k \in b /\ a[k] # "none" THEN a[k] ELSE verdict[j][k]
    BY <1>13 DEF Post, Typing, TypeOK
  <2>5. \A k \in Chunks :
           verdict'[j][k] = "succeeded" => k \in s \/ verdict[j][k] = "succeeded"
    BY <2>1, <2>4 DEF Agrees, Answers
  <2>6. unsent'[j] = unsent[j] \ b
        /\ again'[j] = again[j] \cup {k \in b : a[k] \in {"none", "retryable"}}
    BY <1>13 DEF Post, Typing, TypeOK
  <2>7. CASE pc[j] = "uploading"
    BY <2>1, <2>3, <2>5, <2>7 DEF AcknowledgedStays, Parent, Expected
  <2>8. CASE pc[j] = "removing"
    <3>1. s \cap Expected(j) = {} /\ b \subseteq Stale(j)
      BY <2>8 DEF AcknowledgedStays, Stale
    <3>2. Expected(j) \subseteq Chunks
      BY <2>8, CallTypes DEF Typing, CallKnown, Expected
    <3>3. \A k \in Expected(j) : index'[Parent(j)][k] = j
      BY <2>3, <2>8, <3>1, <3>2 DEF AcknowledgedStays
    <3>4. \A k \in Chunks : verdict'[j][k] = "succeeded" => index'[Parent(j)][k] = NoJob
      BY <2>3, <2>5, <2>8 DEF AcknowledgedStays
    <3>5. unsent'[j] \subseteq Stale(j) /\ again'[j] \subseteq Stale(j)
      BY <2>6, <2>8, <3>1 DEF AcknowledgedStays
    <3> QED
      BY <2>1, <2>8, <3>3, <3>4, <3>5 DEF AcknowledgedStays, Parent, Expected, Stale
  <2> QED
    BY <2>1, <2>7, <2>8 DEF Posting
<1> QED
  BY <1>3, <1>4, <1>5, <1>6, <1>7, <1>8, <1>9, <1>10, <1>11, <1>12, <1>13
     DEF JobStep, Fault, Query, PostSome

LEMMA OthersAcknowledged ==
    ASSUME Typing, LockFollowsJob, SingleProcess, NEW j \in Jobs, NEW i \in Jobs, i # j,
           AcknowledgedStays(i),
           JobStep(j) \/ Fault(j) \/ \E c \in Calls : Call(j, c)
    PROVE  AcknowledgedStays(i)'
<1>1. Untouched(i)
  BY OthersUntouched
<1>2. ASSUME pc[i] \in Critical PROVE index'[Parent(i)] = index[Parent(i)]
  <2>1. Parent(i) \in Parents
    BY <1>2, CallTypes DEF Typing, CallKnown, Critical, Posting, Parent
  <2> QED
    BY <1>2, <2>1, StepKeepsOtherRows, OneJobPerParent
<1> QED
  BY <1>1, <1>2 DEF Untouched, AcknowledgedStays, Critical, Posting, Parent, Expected, Stale

LEMMA LateStays ==
    ASSUME Typing, NothingLate, ~Late, [Next]_vars
    PROVE  NothingLate'
<1>1. ASSUME NEW j \in Jobs, NEW s, GiveUpOn(j, s) PROVE late' = late
  BY <1>1 DEF GiveUpOn, Typing, TypeOK
<1>2. CASE UNCHANGED vars
  BY <1>2 DEF vars, indexVars, NothingLate
<1>3. CASE \E p \in Parents, k \in Chunks :
               BecomesQueryable(p, k) \/ \E w \in Jobs \cup {NoJob} : LandsLate(p, k, w)
  BY <1>3 DEF BecomesQueryable, LandsLate, NothingLate
<1>4. ASSUME NEW j \in Jobs, JobStep(j) \/ Fault(j) \/ \E c \in Calls : Call(j, c)
      PROVE  late' = late
  <2>1. CASE PostSome(j)
    BY <1>1, <2>1 DEF PostSome, Post
  <2>2. CASE \E s \in SUBSET unsent[j] : Abort(j, s)
    BY <1>1, <2>2 DEF Abort, PostRaises, CancelPost
  <2>3. CASE \E v \in Views(Parent(j)) :
                 ListPage(j, v) \/ NothingStale(j, v) \/ BeginRemoving(j, v)
    BY <2>3 DEF ListPage, NothingStale, BeginRemoving, indexVars
  <2> QED
    BY <1>4, <2>1, <2>2, <2>3
       DEF JobStep, Fault, Query, Enter, Refuse, BeginUpload, Retry, GateBlocks, BeginListing,
           Finish, CancelAcquire, ListRaises, Call, indexVars
<1> QED
  BY <1>2, <1>3, <1>4 DEF Next, NothingLate

LEMMA NoneLandsLate ==
    SafetyInvariant =>
        ~ \E p \in Parents, k \in Chunks, w \in Jobs \cup {NoJob} : LandsLate(p, k, w)
  BY DEF SafetyInvariant, NothingLate, LandsLate

LEMMA InitSafety == Init => SafetyInvariant
  BY InitTyping, InitLock DEF Init, SafetyInvariant, AcknowledgedStays, NothingLate

LEMMA NextSafety ==
    ASSUME SingleProcess, ~Late
    PROVE  SafetyInvariant /\ [Next]_vars => SafetyInvariant'
<1> SUFFICES ASSUME SafetyInvariant, [Next]_vars PROVE SafetyInvariant'
  OBVIOUS
<1>1. Typing' /\ NothingLate'
  BY NextTyping, LateStays DEF SafetyInvariant
<1>2. CASE UNCHANGED vars
  BY <1>1, <1>2
     DEF SafetyInvariant, LockFollowsJob, AcknowledgedStays, Parent, Expected, Stale,
         vars, lockVars, indexVars, retryVars, walkVars
<1>3. ASSUME NEW p \in Parents, NEW k \in Chunks, BecomesQueryable(p, k)
      PROVE  SafetyInvariant'
  BY <1>1, <1>3
     DEF BecomesQueryable, SafetyInvariant, LockFollowsJob, AcknowledgedStays, Parent,
         Expected, Stale, lockVars, retryVars, walkVars
<1>4. ASSUME NEW j \in Jobs, JobStep(j) \/ Fault(j) \/ \E c \in Calls : Call(j, c)
      PROVE  SafetyInvariant'
  <2>1. LockFollowsJob'
    BY <1>4, StepLock DEF SafetyInvariant
  <2>2. ASSUME NEW i \in Jobs PROVE AcknowledgedStays(i)'
    <3>1. CASE i = j
      BY <1>4, <3>1, OwnStepAcknowledged DEF SafetyInvariant
    <3>2. CASE i # j
      BY <1>4, <3>2, OthersAcknowledged DEF SafetyInvariant
    <3> QED
      BY <3>1, <3>2
  <2> QED
    BY <1>1, <2>1, <2>2 DEF SafetyInvariant
<1> QED
  BY <1>2, <1>3, <1>4, NoneLandsLate DEF Next

LEMMA SafetyHolds ==
    ASSUME SingleProcess, ~Late
    PROVE  Spec => []SafetyInvariant
  BY InitSafety, NextSafety, PTL DEF Spec

(* No removal before every chunk of the new version is durable, for every  *)
(* document, version and schedule of failures.                             *)
THEOREM GateProtects ==
    ASSUME SingleProcess, ~Late
    PROVE  Spec => []DurableBeforeRemoval
<1>1. SafetyInvariant => DurableBeforeRemoval
  BY DEF SafetyInvariant, AcknowledgedStays, DurableBeforeRemoval
<1> QED
  BY <1>1, SafetyHolds, PTL

-----------------------------------------------------------------------------
(* What is reported, and what stays served. *)

LEMMA StepReports ==
    ASSUME SafetyInvariant, NEW j \in Jobs,
           JobStep(j) \/ Fault(j) \/ \E c \in Calls : Call(j, c),
           NEW w \in {"completed", "incomplete"}, Reports(j, w)
    PROVE  LET survivors == (Indexed(Parent(j)) \ Expected(j)) \cap listed[j]
           IN  /\ w = "completed" =>
                     survivors = {} /\ \A k \in Expected(j) : index[Parent(j)][k] = j
               /\ w = "incomplete" => survivors \subseteq Unresolved(j)
<1>1. outcome \in [Jobs -> Outcomes] /\ outcome'[j] # outcome[j]
  BY DEF SafetyInvariant, Typing, TypeOK, Reports
<1>2. CASE \E v \in Views(Parent(j)) : NothingStale(j, v)
  <2>1. pc[j] = "listing" /\ Stale(j) = {} /\ outcome'[j] = "completed"
    BY <1>1, <1>2 DEF NothingStale, Return
  <2> QED
    BY <2>1 DEF Reports, Stale, SafetyInvariant, AcknowledgedStays
<1>3. CASE Finish(j)
  <2>1. /\ pc[j] = "removing"
        /\ outcome'[j] = IF Unresolved(j) = {} THEN "completed" ELSE "incomplete"
    BY <1>1, <1>3 DEF Finish, Return
  <2>2. \A k \in Chunks : k \in Stale(j) \ Unresolved(j) => index[Parent(j)][k] = NoJob
    BY <2>1 DEF Unresolved, SafetyInvariant, AcknowledgedStays
  <2>3. (Indexed(Parent(j)) \ Expected(j)) \cap listed[j] \subseteq Unresolved(j)
    BY <2>2 DEF Indexed, Stale
  <2> QED
    BY <2>1, <2>3 DEF Reports, SafetyInvariant, AcknowledgedStays
<1>4. CASE Refuse(j) \/ GateBlocks(j) \/ ListRaises(j) \/ CancelAcquire(j)
  BY <1>1, <1>4 DEF Refuse, GateBlocks, ListRaises, CancelAcquire, Return, Reports
<1>5. CASE \E s \in SUBSET unsent[j] : Abort(j, s)
  BY <1>1, <1>5 DEF Abort, PostRaises, CancelPost, Return, Reports
<1>6. CASE \E v \in Views(Parent(j)) : ListPage(j, v) \/ BeginRemoving(j, v)
  BY <1>1, <1>6 DEF ListPage, BeginRemoving
<1>7. CASE PostSome(j)
  BY <1>1, <1>7 DEF PostSome, Post
<1> QED
  BY <1>1, <1>2, <1>3, <1>4, <1>5, <1>6, <1>7
     DEF JobStep, Fault, Query, Enter, BeginUpload, Retry, BeginListing, Call

(* A report is true when it is made: completed means this version, and     *)
(* nothing else the listing showed; incomplete names all survivors.        *)
THEOREM ReportsAreTrue ==
    ASSUME SingleProcess, ~Late
    PROVE  Spec => OutcomeIsTrue
<1> DEFINE True(j) ==
        LET survivors == (Indexed(Parent(j)) \ Expected(j)) \cap listed[j]
        IN  /\ Reports(j, "completed") =>
                  survivors = {} /\ \A k \in Expected(j) : index[Parent(j)][k] = j
            /\ Reports(j, "incomplete") => survivors \subseteq Unresolved(j)
<1>1. ASSUME SafetyInvariant, Next, NEW i \in Jobs PROVE True(i)
  <2>1. CASE outcome'[i] = outcome[i]
    BY <2>1 DEF Reports
  <2>2. CASE outcome'[i] # outcome[i]
    <3>1. PICK j \in Jobs : JobStep(j) \/ Fault(j) \/ \E c \in Calls : Call(j, c)
      BY <1>1, <2>2, NoneLandsLate DEF Next, BecomesQueryable
    <3>2. j = i
      BY <1>1, <2>2, <3>1, OthersUntouched DEF SafetyInvariant, Untouched
    <3>3. Reports(i, "completed") =>
            /\ (Indexed(Parent(i)) \ Expected(i)) \cap listed[i] = {}
            /\ \A k \in Expected(i) : index[Parent(i)][k] = i
      BY <1>1, <3>1, <3>2, StepReports
    <3>4. Reports(i, "incomplete") =>
            (Indexed(Parent(i)) \ Expected(i)) \cap listed[i] \subseteq Unresolved(i)
      BY <1>1, <3>1, <3>2, StepReports
    <3> QED
      BY <3>3, <3>4
  <2> QED
    BY <2>1, <2>2
<1>2. SafetyInvariant /\ [Next]_vars => [\A j \in Jobs : True(j)]_vars
  BY <1>1
<1> QED
  BY <1>2, SafetyHolds, PTL DEF Spec, OutcomeIsTrue

LEMMA CarryOutKeepsServing ==
    ASSUME SafetyInvariant, NEW j \in Jobs, pc[j] \in Posting,
           NEW s \in SUBSET unsent[j], CarryOut(j, s), NEW p \in Parents, Indexed(p) # {}
    PROVE  Indexed(p)' # {}
<1>1. s \in SUBSET Chunks /\ Typing /\ pc[j] # "new"
  BY DEF SafetyInvariant, Typing, TypeOK, Posting
<1>2. CASE p # Parent(j)
  BY <1>2 DEF CarryOut, Indexed, SafetyInvariant, Typing, TypeOK
<1>3. CASE p = Parent(j) /\ pc[j] = "uploading"
  <2>1. PICK k \in Chunks : index[p][k] # NoJob
    BY DEF Indexed
  <2>2. index'[p][k] # NoJob
    BY <1>1, <1>3, <2>1, CarriedOut, NoJobAssumption
  <2> QED
    BY <2>2 DEF Indexed
<1>4. CASE p = Parent(j) /\ pc[j] = "removing"
  <2>1. call[j] \in Calls
    BY <1>1 DEF Typing, CallKnown
  <2>2. PICK k \in Expected(j) : k \in Chunks
    BY <2>1, VersionsAssumption DEF Calls, Expected
  <2>3. k \notin s /\ index[p][k] = j
    BY <1>4 DEF SafetyInvariant, AcknowledgedStays, Stale
  <2>4. index'[p][k] # NoJob
    BY <1>1, <1>4, <2>2, <2>3, CarriedOut, NoJobAssumption
  <2> QED
    BY <2>2, <2>4 DEF Indexed
<1> QED
  BY <1>2, <1>3, <1>4 DEF Posting

(* Once served, always served: with one process no schedule of failures,   *)
(* cancellations and versions empties a document.                          *)
THEOREM DocumentsStayServed ==
    ASSUME SingleProcess, ~Late
    PROVE  Spec => NeverGoesDark
<1>1. ASSUME SafetyInvariant, [Next]_vars, index' # index,
             NEW p \in Parents, Indexed(p) # {}
      PROVE  Indexed(p)' # {}
  <2>1. PICK j \in Jobs : JobStep(j) \/ Fault(j) \/ \E c \in Calls : Call(j, c)
    BY <1>1, NoneLandsLate DEF Next, vars, indexVars, BecomesQueryable
  <2>2. CASE PostSome(j)
    <3>1. PICK b \in SUBSET unsent[j], s \in SUBSET unsent[j] :
             pc[j] \in Posting /\ CarryOut(j, s)
      BY <2>2 DEF PostSome, Post
    <3> QED
      BY <1>1, <3>1, CarryOutKeepsServing
  <2>3. CASE \E s \in SUBSET unsent[j] : Abort(j, s)
    BY <1>1, <2>3, CarryOutKeepsServing DEF Abort, PostRaises, CancelPost
  <2>4. CASE \E v \in Views(Parent(j)) :
                 ListPage(j, v) \/ NothingStale(j, v) \/ BeginRemoving(j, v)
    BY <1>1, <2>4 DEF ListPage, NothingStale, BeginRemoving, indexVars
  <2> QED
    BY <1>1, <2>1, <2>2, <2>3, <2>4
       DEF JobStep, Fault, Query, Enter, Refuse, BeginUpload, Retry, GateBlocks,
           BeginListing, Finish, CancelAcquire, ListRaises, Call, indexVars
<1>2. SafetyInvariant /\ [Next]_vars =>
          [\A p \in Parents : Indexed(p) # {} => Indexed(p)' # {}]_index
  BY <1>1
<1> QED
  BY <1>2, SafetyHolds, PTL DEF Spec, NeverGoesDark

-----------------------------------------------------------------------------
(* Nothing lags: the walk misses nothing, and completed means replaced.    *)

LEMMA LeastOfNaturals ==
    ASSUME NEW S \in SUBSET Nat, S # {}
    PROVE  \E m \in S : \A n \in S : m <= n
<1>1. PICK m \in S : \A n \in S : <<n, m>> \notin OpToRel(<, Nat)
  BY NatLessThanWellFounded, WFMin
<1>2. \A n \in S : ~(n < m)
  BY <1>1 DEF OpToRel
<1>3. m \in Nat /\ \A n \in S : n \in Nat
  OBVIOUS
<1> QED
  BY <1>2, <1>3

\* The walk ends only where nothing is left of the view ...
LEMMA EmptyPageEnds ==
    ASSUME NEW view \in SUBSET Chunks, NEW after \in Nat, Page(view, after) = {}
    PROVE  \A k \in view : k <= after
<1> DEFINE rest == {k \in view : k > after}
<1> SUFFICES ASSUME rest # {} PROVE FALSE
  BY ChunksAssumption
<1>1. PICK m \in rest : \A n \in rest : m <= n
  BY ChunksAssumption, LeastOfNaturals
<1>2. \A i \in view : i \in Nat
  BY ChunksAssumption
<1>3. ASSUME NEW i \in view, after < i, i <= m PROVE i = m
  BY <1>1, <1>2, <1>3
<1>4. {i \in view : after < i /\ i <= m} = {m}
  BY <1>1, <1>2, <1>3
<1>5. Cardinality({i \in view : after < i /\ i <= m}) = 1
  BY <1>4, FS_Singleton
<1>6. m \in Page(view, after)
  BY <1>1, <1>5, LimitsAssumption DEF Page
<1> QED
  BY <1>6

\* ... and skips nothing on its way.
LEMMA PageIsGapless ==
    ASSUME NEW view \in SUBSET Chunks, NEW after \in Nat, NEW last \in Page(view, after),
           NEW k \in view, after < k, k <= last
    PROVE  k \in Page(view, after)
<1> DEFINE Upto(n) == {i \in view : after < i /\ i <= n}
<1>1. last \in view /\ Cardinality(Upto(last)) <= PageSize
  BY DEF Page
<1>2. Upto(k) \in SUBSET Upto(last)
  <2>1. last \in Nat /\ \A i \in view : i \in Nat
    BY <1>1, ChunksAssumption
  <2> QED
    BY <2>1
<1>3. IsFiniteSet(Upto(last)) /\ IsFiniteSet(Upto(k))
  BY ChunksAssumption, FS_Subset
<1>4. Cardinality(Upto(k)) \in Nat /\ Cardinality(Upto(last)) \in Nat
  BY <1>3, FS_CardinalityType
<1>5. Cardinality(Upto(k)) <= Cardinality(Upto(last))
  BY <1>2, <1>3, FS_Subset
<1> QED
  BY <1>1, <1>4, <1>5, LimitsAssumption DEF Page

(* What is indexed and the walk has passed is listed; when it is over, all *)
(* that is indexed is.                                                     *)
WalkSawAll(j) ==
    /\ pc[j] \notin {"listing", "removing"} => cursor[j] = 0
    /\ pc[j] = "listing" => \A k \in Indexed(Parent(j)) : k <= cursor[j] => k \in listed[j]
    /\ pc[j] = "removing" => Indexed(Parent(j)) \subseteq listed[j]

NothingLags == lagging = [p \in Parents |-> {}]

WalkInvariant == SafetyInvariant /\ NothingLags /\ \A j \in Jobs : WalkSawAll(j)

LEMMA CursorIsNatural ==
    ASSUME Typing, NEW j \in Jobs
    PROVE  cursor[j] \in Nat
<1>1. cursor[j] \in Chunks \cup {0}
  BY DEF Typing, TypeOK
<1>2. Chunks \cup {0} \subseteq Nat
  BY ChunksAssumption
<1> QED
  BY <1>1, <1>2

LEMMA ViewIsIndex ==
    ASSUME NothingLags, NEW p \in Parents, NEW v \in Views(p)
    PROVE  v = Indexed(p)
  BY DEF NothingLags, Views

LEMMA LagStays ==
    ASSUME Typing, NothingLags, ~Lags, [Next]_vars
    PROVE  NothingLags'
<1>1. ASSUME NEW j \in Jobs, NEW s, CarryOut(j, s) PROVE lagging' = lagging
  BY <1>1 DEF CarryOut, Typing, TypeOK
<1>2. CASE UNCHANGED vars
  BY <1>2 DEF vars, indexVars, NothingLags
<1>3. CASE \E p \in Parents, k \in Chunks :
               BecomesQueryable(p, k) \/ \E w \in Jobs \cup {NoJob} : LandsLate(p, k, w)
  BY <1>3 DEF BecomesQueryable, LandsLate, NothingLags, Typing, TypeOK
<1>4. ASSUME NEW j \in Jobs, JobStep(j) \/ Fault(j) \/ \E c \in Calls : Call(j, c)
      PROVE  lagging' = lagging
  <2>1. CASE PostSome(j)
    BY <1>1, <2>1 DEF PostSome, Post
  <2>2. CASE \E s \in SUBSET unsent[j] : Abort(j, s)
    BY <1>1, <2>2 DEF Abort, PostRaises, CancelPost
  <2>3. CASE \E v \in Views(Parent(j)) :
                 ListPage(j, v) \/ NothingStale(j, v) \/ BeginRemoving(j, v)
    BY <2>3 DEF ListPage, NothingStale, BeginRemoving, indexVars
  <2> QED
    BY <1>4, <2>1, <2>2, <2>3
       DEF JobStep, Fault, Query, Enter, Refuse, BeginUpload, Retry, GateBlocks, BeginListing,
           Finish, CancelAcquire, ListRaises, Call, indexVars
<1> QED
  BY <1>2, <1>3, <1>4 DEF Next, NothingLags

LEMMA OwnStepWalks ==
    ASSUME SafetyInvariant, NothingLags, NEW j \in Jobs, WalkSawAll(j),
           JobStep(j) \/ Fault(j) \/ \E c \in Calls : Call(j, c)
    PROVE  WalkSawAll(j)'
<1> USE DEF Goto
<1>1. Typing /\ cursor[j] \in Nat
  BY CursorIsNatural DEF SafetyInvariant
<1>2. ASSUME NEW w, Return(j, w) PROVE WalkSawAll(j)'
  <2>1. pc'[j] = "done" /\ cursor'[j] = 0
    BY <1>1, <1>2 DEF Return, Typing, TypeOK
  <2> QED
    BY <2>1 DEF WalkSawAll
<1>3. CASE \/ \E c \in Calls : Call(j, c)
           \/ Enter(j) \/ CancelAcquire(j) \/ BeginUpload(j)
  <2>1. pc[j] \notin {"listing", "removing"} /\ pc'[j] \notin {"listing", "removing"}
        /\ cursor' = cursor
    BY <1>1, <1>3 DEF Call, Enter, CancelAcquire, BeginUpload, walkVars, Typing, TypeOK
  <2> QED
    BY <2>1 DEF WalkSawAll
<1>4. CASE Refuse(j) \/ GateBlocks(j) \/ Finish(j) \/ ListRaises(j)
  BY <1>2, <1>4 DEF Refuse, GateBlocks, Finish, ListRaises
<1>5. CASE \E s \in SUBSET unsent[j] : Abort(j, s)
  BY <1>2, <1>5 DEF Abort, PostRaises, CancelPost
<1>6. CASE \E v \in Views(Parent(j)) : NothingStale(j, v)
  BY <1>2, <1>6 DEF NothingStale
<1>7. CASE Retry(j)
  BY <1>7 DEF Retry, WalkSawAll, Indexed, Parent, indexVars, walkVars
<1>8. CASE BeginListing(j)
  <2>1. cursor'[j] = 0 /\ pc'[j] = "listing" /\ Indexed(Parent(j))' \in SUBSET Chunks
    BY <1>1, <1>8 DEF BeginListing, WalkSawAll, walkVars, Indexed, Typing, TypeOK
  <2>2. \A k \in Chunks : ~ (k <= 0)
    BY ChunksAssumption
  <2> QED
    BY <2>1, <2>2 DEF WalkSawAll
<1>9. ASSUME pc[j] # "new", NEW v \in Views(Parent(j))
      PROVE  v = Indexed(Parent(j)) /\ v \in SUBSET Chunks
  BY <1>1, <1>9, ViewIsIndex, CallTypes DEF Typing, CallKnown, Parent, Indexed
<1>10. ASSUME NEW v \in Views(Parent(j)), ListPage(j, v) PROVE WalkSawAll(j)'
  <2>1. pc[j] = "listing" /\ pc'[j] = "listing" /\ v = Indexed(Parent(j)) /\ v \in SUBSET Chunks
    BY <1>9, <1>10 DEF ListPage
  <2>2. PICK last \in Page(v, cursor[j]) : cursor'[j] = last
    BY <1>1, <1>10 DEF ListPage, Typing, TypeOK
  <2>3. listed'[j] = listed[j] \cup Page(v, cursor[j])
    BY <1>1, <1>10 DEF ListPage, Typing, TypeOK
  <2>4. Indexed(Parent(j))' = v
    BY <1>10, <2>1 DEF ListPage, Indexed, Parent, indexVars
  <2>5. ASSUME NEW k \in v, k <= last PROVE k \in listed'[j]
    <3>1. CASE k <= cursor[j]
      BY <2>1, <2>3, <3>1 DEF WalkSawAll
    <3>2. CASE cursor[j] < k
      BY <1>1, <2>1, <2>3, <2>5, <3>2, PageIsGapless
    <3> QED
      BY <1>1, <2>1, <3>1, <3>2, ChunksAssumption
  <2> QED
    BY <2>1, <2>2, <2>4, <2>5 DEF WalkSawAll
<1>11. ASSUME NEW v \in Views(Parent(j)), BeginRemoving(j, v) PROVE WalkSawAll(j)'
  <2>1. /\ pc[j] = "listing" /\ pc'[j] = "removing" /\ Page(v, cursor[j]) = {}
        /\ v = Indexed(Parent(j)) /\ v \in SUBSET Chunks
    BY <1>1, <1>9, <1>11 DEF BeginRemoving, Typing, TypeOK
  <2>2. Indexed(Parent(j))' = v /\ listed' = listed
    BY <1>11, <2>1 DEF BeginRemoving, Indexed, Parent, indexVars, walkVars
  <2>3. \A k \in v : k <= cursor[j]
    BY <1>1, <2>1, EmptyPageEnds
  <2> QED
    BY <2>1, <2>2, <2>3 DEF WalkSawAll
<1>12. CASE PostSome(j)
  <2>1. PICK b \in SUBSET unsent[j] : \E a \in Answers(b), s \in SUBSET b : Post(j, b, a, s)
    BY <1>12 DEF PostSome
  <2>. PICK a \in Answers(b), s \in SUBSET b : Post(j, b, a, s)
    BY <2>1
  <2>2. /\ pc[j] \in {"uploading", "removing"} /\ pc' = pc /\ call' = call
        /\ cursor' = cursor /\ listed' = listed /\ CarryOut(j, s)
    BY DEF Post, Posting, walkVars
  <2>3. CASE pc[j] = "removing"
    <3>1. s \in SUBSET Chunks
      BY <1>1 DEF Typing, TypeOK
    <3>2. \A k \in Chunks : index'[Parent(j)][k] # NoJob => index[Parent(j)][k] # NoJob
      BY <1>1, <2>2, <2>3, <3>1, CarriedOut
    <3> QED
      BY <2>2, <2>3, <3>2 DEF WalkSawAll, Indexed, Parent
  <2> QED
    BY <2>2, <2>3 DEF WalkSawAll
<1> QED
  BY <1>3, <1>4, <1>5, <1>6, <1>7, <1>8, <1>10, <1>11, <1>12 DEF JobStep, Fault, Query

LEMMA OthersWalk ==
    ASSUME SafetyInvariant, SingleProcess, NEW j \in Jobs, NEW i \in Jobs, i # j, WalkSawAll(i),
           JobStep(j) \/ Fault(j) \/ \E c \in Calls : Call(j, c)
    PROVE  WalkSawAll(i)'
<1>1. Typing /\ LockFollowsJob
  BY DEF SafetyInvariant
<1>2. Untouched(i)
  BY <1>1, OthersUntouched
<1>3. ASSUME pc[i] \in Critical PROVE index'[Parent(i)] = index[Parent(i)]
  <2>1. Parent(i) \in Parents
    BY <1>1, <1>3, CallTypes DEF Typing, CallKnown, Critical, Posting, Parent
  <2> QED
    BY <1>1, <1>3, <2>1, StepKeepsOtherRows, OneJobPerParent
<1> QED
  BY <1>2, <1>3 DEF Untouched, WalkSawAll, Indexed, Critical, Posting, Parent

LEMMA WalkHolds ==
    ASSUME SingleProcess, ~Lags, ~Late
    PROVE  Spec => []WalkInvariant
<1>1. Init => WalkInvariant
  BY InitSafety DEF Init, WalkInvariant, WalkSawAll, NothingLags
<1>2. ASSUME WalkInvariant, [Next]_vars PROVE WalkInvariant'
  <2>1. SafetyInvariant'
    BY <1>2, NextSafety DEF WalkInvariant
  <2>2. NothingLags'
    BY <1>2, LagStays DEF WalkInvariant, SafetyInvariant
  <2>3. CASE \/ UNCHANGED vars
             \/ \E p \in Parents, k \in Chunks : BecomesQueryable(p, k)
    BY <1>2, <2>1, <2>2, <2>3
       DEF WalkInvariant, WalkSawAll, Indexed, Parent, BecomesQueryable,
           vars, indexVars, walkVars
  <2>4. ASSUME NEW j \in Jobs, JobStep(j) \/ Fault(j) \/ \E c \in Calls : Call(j, c)
        PROVE  \A i \in Jobs : WalkSawAll(i)'
    BY <1>2, <2>4, OwnStepWalks, OthersWalk DEF WalkInvariant
  <2> QED
    BY <1>2, <2>1, <2>2, <2>3, <2>4, NoneLandsLate DEF Next, WalkInvariant
<1> QED
  BY <1>1, <1>2, PTL DEF Spec

LEMMA StepReplaces ==
    ASSUME WalkInvariant, NEW j \in Jobs,
           JobStep(j) \/ Fault(j) \/ \E c \in Calls : Call(j, c),
           Reports(j, "completed")
    PROVE  Indexed(Parent(j)) = Expected(j)
<1>1. /\ (Indexed(Parent(j)) \ Expected(j)) \cap listed[j] = {}
      /\ \A k \in Expected(j) : index[Parent(j)][k] = j
  BY StepReports DEF WalkInvariant
<1>2. Typing /\ outcome'[j] # outcome[j] /\ outcome'[j] = "completed"
  BY DEF WalkInvariant, SafetyInvariant, Reports
<1>3. pc[j] # "new" => Expected(j) \subseteq Indexed(Parent(j))
  BY <1>1, <1>2, CallTypes, NoJobAssumption DEF Typing, CallKnown, Indexed, Expected
<1>4. ASSUME NEW v \in Views(Parent(j)), NothingStale(j, v)
      PROVE  Indexed(Parent(j)) \subseteq listed[j] /\ pc[j] # "new"
  <2>1. pc[j] = "listing" /\ Page(v, cursor[j]) = {} /\ cursor[j] \in Nat
    BY <1>2, <1>4, CursorIsNatural DEF NothingStale
  <2>2. v = Indexed(Parent(j)) /\ v \in SUBSET Chunks
    BY <1>2, <2>1, ViewIsIndex, CallTypes
       DEF WalkInvariant, Typing, CallKnown, Parent, Indexed
  <2> QED
    BY <2>1, <2>2, EmptyPageEnds DEF WalkInvariant, WalkSawAll
<1>5. CASE Finish(j)
  BY <1>1, <1>3, <1>5 DEF Finish, WalkInvariant, WalkSawAll
<1>6. CASE \E v \in Views(Parent(j)) : NothingStale(j, v)
  BY <1>1, <1>3, <1>4, <1>6
<1>7. CASE Refuse(j) \/ GateBlocks(j) \/ ListRaises(j) \/ CancelAcquire(j)
  BY <1>2, <1>7 DEF Refuse, GateBlocks, ListRaises, CancelAcquire, Return, Typing, TypeOK
<1>8. CASE \E s \in SUBSET unsent[j] : Abort(j, s)
  BY <1>2, <1>8 DEF Abort, PostRaises, CancelPost, Return, Typing, TypeOK
<1>9. CASE \E v \in Views(Parent(j)) : ListPage(j, v) \/ BeginRemoving(j, v)
  BY <1>2, <1>9 DEF ListPage, BeginRemoving
<1>10. CASE PostSome(j)
  BY <1>2, <1>10 DEF PostSome, Post
<1> QED
  BY <1>2, <1>5, <1>6, <1>7, <1>8, <1>9, <1>10
     DEF JobStep, Fault, Query, Enter, BeginUpload, Retry, BeginListing, Call

(* Completed means replaced: with one process and a service that shows     *)
(* what it holds, exactly the reported version is left under the parent,   *)
(* for any page size and any failures on the way.                          *)
THEOREM CompletedIsReplaced ==
    ASSUME SingleProcess, ~Lags, ~Late
    PROVE  Spec => CompletedMeansReplaced
<1>1. ASSUME WalkInvariant, [Next]_vars, NEW i \in Jobs, Reports(i, "completed")
      PROVE  Indexed(Parent(i)) = Expected(i)
  <2>1. PICK j \in Jobs : JobStep(j) \/ Fault(j) \/ \E c \in Calls : Call(j, c)
    BY <1>1, NoneLandsLate DEF Next, BecomesQueryable, vars, Reports, WalkInvariant
  <2>2. j = i
    BY <1>1, <2>1, OthersUntouched DEF WalkInvariant, SafetyInvariant, Untouched, Reports
  <2> QED
    BY <1>1, <2>1, <2>2, StepReplaces
<1>2. WalkInvariant /\ [Next]_vars =>
          [\A j \in Jobs : Reports(j, "completed") => Indexed(Parent(j)) = Expected(j)]_vars
  BY <1>1
<1> QED
  BY <1>2, WalkHolds, PTL DEF Spec, CompletedMeansReplaced

-----------------------------------------------------------------------------
(* A chunk common to all versions carries a document through everything.   *)

\* What the first chunk of every version is owed, for any number of processes
\* and however late a request may land: nobody removes it, and who removes
\* others knows it to be there.
ChunkIsKept(c) ==
    /\ \A j \in Jobs :
           /\ pc[j] = "uploading" /\ verdict[j][c] = "succeeded" => index[Parent(j)][c] # NoJob
           /\ pc[j] \in {"listing", "removing"} => index[Parent(j)][c] # NoJob
           /\ pc[j] = "removing" => c \notin unsent[j] \cup again[j]
    /\ \A p \in Parents, k \in Chunks :
           <<k, NoJob>> \in late[p] => k # c /\ index[p][c] # NoJob

KeptInvariant(c) == Typing /\ ChunkIsKept(c)

\* What may happen to one row of the index in a step.
RowSafe(p, c) ==
    /\ index[p][c] # NoJob => index'[p][c] # NoJob
    /\ Indexed(p) # {} => Indexed(p)' # {}

LEMMA CarryOutIsSafe ==
    ASSUME NEW c \in Chunks, KeptInvariant(c), NEW j \in Jobs, pc[j] \in Posting,
           NEW s \in SUBSET unsent[j], CarryOut(j, s), NEW p \in Parents
    PROVE  RowSafe(p, c)
<1>1. s \in SUBSET Chunks /\ Typing /\ pc[j] # "new"
  BY DEF KeptInvariant, Typing, TypeOK, Posting
<1>2. CASE p # Parent(j)
  BY <1>1, <1>2 DEF CarryOut, RowSafe, Indexed, Typing, TypeOK
<1>3. CASE p = Parent(j) /\ pc[j] = "uploading"
  <2>1. \A k \in Chunks : index[p][k] # NoJob => index'[p][k] # NoJob
    BY <1>1, <1>3, CarriedOut, NoJobAssumption
  <2> QED
    BY <2>1 DEF RowSafe, Indexed
<1>4. CASE p = Parent(j) /\ pc[j] = "removing"
  <2>1. c \notin s /\ index[p][c] # NoJob
    BY <1>4 DEF KeptInvariant, ChunkIsKept
  <2>2. index'[p][c] # NoJob
    BY <1>1, <1>4, <2>1, CarriedOut
  <2> QED
    BY <2>2 DEF RowSafe, Indexed
<1> QED
  BY <1>2, <1>3, <1>4 DEF Posting

LEMMA EveryStepIsSafe ==
    ASSUME NEW c \in Chunks, KeptInvariant(c), [Next]_vars, NEW p \in Parents
    PROVE  RowSafe(p, c)
<1>1. CASE index' = index
  BY <1>1 DEF RowSafe, Indexed
<1>2. ASSUME NEW q \in Parents, NEW k \in Chunks, NEW w \in Jobs \cup {NoJob}, LandsLate(q, k, w)
      PROVE  RowSafe(p, c)
  <2>1. CASE p # q
    BY <1>2, <2>1 DEF LandsLate, RowSafe, Indexed, KeptInvariant, Typing, TypeOK
  <2>2. CASE p = q /\ w # NoJob
    <3>1. \A i \in Chunks : index[p][i] # NoJob => index'[p][i] # NoJob
      BY <1>2, <2>2 DEF LandsLate, KeptInvariant, Typing, TypeOK
    <3> QED
      BY <3>1 DEF RowSafe, Indexed
  <2>3. CASE p = q /\ w = NoJob
    <3>1. k # c /\ index[p][c] # NoJob
      BY <1>2, <2>3 DEF LandsLate, KeptInvariant, ChunkIsKept
    <3>2. index'[p][c] # NoJob
      BY <1>2, <2>3, <3>1 DEF LandsLate, KeptInvariant, Typing, TypeOK
    <3> QED
      BY <3>2 DEF RowSafe, Indexed
  <2> QED
    BY <2>1, <2>2, <2>3
<1>3. ASSUME NEW j \in Jobs, JobStep(j) \/ Fault(j) \/ \E d \in Calls : Call(j, d)
      PROVE  RowSafe(p, c)
  <2>1. CASE PostSome(j)
    <3>1. PICK b \in SUBSET unsent[j], s \in SUBSET unsent[j] :
             pc[j] \in Posting /\ CarryOut(j, s)
      BY <2>1 DEF PostSome, Post
    <3> QED
      BY <3>1, CarryOutIsSafe
  <2>2. CASE \E s \in SUBSET unsent[j] : Abort(j, s)
    BY <2>2, CarryOutIsSafe DEF Abort, PostRaises, CancelPost
  <2>3. CASE \E v \in Views(Parent(j)) :
                 ListPage(j, v) \/ NothingStale(j, v) \/ BeginRemoving(j, v)
    BY <1>1, <2>3 DEF ListPage, NothingStale, BeginRemoving, indexVars
  <2> QED
    BY <1>1, <1>3, <2>1, <2>2, <2>3
       DEF JobStep, Fault, Query, Enter, Refuse, BeginUpload, Retry, GateBlocks, BeginListing,
           Finish, CancelAcquire, ListRaises, Call, indexVars
<1>4. CASE \E q \in Parents, k \in Chunks : BecomesQueryable(q, k)
  BY <1>1, <1>4 DEF BecomesQueryable
<1> QED
  BY <1>1, <1>2, <1>3, <1>4 DEF Next, vars, indexVars

\* What a job has yet to send, and what it may have left behind.
KeptBy(j, c) ==
    /\ pc[j] = "uploading" /\ verdict[j][c] = "succeeded" => index[Parent(j)][c] # NoJob
    /\ pc[j] \in {"listing", "removing"} => index[Parent(j)][c] # NoJob
    /\ pc[j] = "removing" => c \notin unsent[j] \cup again[j]

KeptLate(p, c) ==
    \A k \in Chunks : <<k, NoJob>> \in late[p] => k # c /\ index[p][c] # NoJob

LEMMA OwnStepKeeps ==
    ASSUME NEW c \in Chunks, \A v \in Versions : c \in v, KeptInvariant(c), NEW j \in Jobs,
           JobStep(j) \/ Fault(j) \/ \E d \in Calls : Call(j, d),
           \A p \in Parents : RowSafe(p, c)
    PROVE  KeptBy(j, c)'
<1> USE DEF Goto
<1>1. Typing /\ KeptBy(j, c)
  BY DEF KeptInvariant, ChunkIsKept, KeptBy
<1>2. ASSUME pc[j] # "new", call' = call
      PROVE  /\ c \in Expected(j) /\ Parent(j)' = Parent(j) /\ Expected(j) \in SUBSET Chunks
             /\ index[Parent(j)][c] # NoJob => index'[Parent(j)][c] # NoJob
  BY <1>1, <1>2, CallTypes DEF Typing, CallKnown, Calls, Expected, Parent, RowSafe
<1>3. CASE pc'[j] \notin {"uploading", "listing", "removing"}
  BY <1>3 DEF KeptBy
<1>4. ASSUME NEW w, Return(j, w) PROVE KeptBy(j, c)'
  BY <1>1, <1>3, <1>4 DEF Return, Typing, TypeOK
<1>5. CASE Enter(j) \/ CancelAcquire(j) \/ \E d \in Calls : Call(j, d)
  BY <1>1, <1>3, <1>5 DEF Enter, CancelAcquire, Call, Typing, TypeOK
<1>6. CASE Refuse(j) \/ GateBlocks(j) \/ Finish(j) \/ ListRaises(j)
  BY <1>4, <1>6 DEF Refuse, GateBlocks, Finish, ListRaises
<1>7. CASE \E s \in SUBSET unsent[j] : Abort(j, s)
  BY <1>4, <1>7 DEF Abort, PostRaises, CancelPost
<1>8. CASE \E v \in Views(Parent(j)) : NothingStale(j, v)
  BY <1>4, <1>8 DEF NothingStale
<1>9. CASE BeginUpload(j)
  BY <1>1, <1>9 DEF BeginUpload, StartAction, NoVerdicts, KeptBy, Typing, TypeOK
<1>10. CASE Retry(j)
  BY <1>1, <1>2, <1>10 DEF Retry, Posting, KeptBy, Typing, TypeOK
<1>11. CASE BeginListing(j)
  <2>1. pc[j] = "uploading" /\ pc'[j] = "listing" /\ call' = call /\ verdict[j][c] = "succeeded"
    BY <1>1, <1>2, <1>11 DEF BeginListing, GateOpens, Typing, TypeOK
  <2> QED
    BY <1>1, <1>2, <2>1 DEF KeptBy
<1>12. CASE \E v \in Views(Parent(j)) : ListPage(j, v)
  BY <1>1, <1>2, <1>12 DEF ListPage, KeptBy
<1>13. CASE \E v \in Views(Parent(j)) : BeginRemoving(j, v)
  <2>1. /\ pc[j] = "listing" /\ pc'[j] = "removing" /\ call' = call
        /\ unsent'[j] = Stale(j) /\ again'[j] = {}
    BY <1>1, <1>13 DEF BeginRemoving, StartAction, Typing, TypeOK
  <2> QED
    BY <1>1, <1>2, <2>1 DEF KeptBy, Stale
<1>14. CASE PostSome(j)
  <2>1. PICK b \in SUBSET unsent[j] : \E a \in Answers(b), s \in SUBSET b : Post(j, b, a, s)
    BY <1>14 DEF PostSome
  <2>. PICK a \in Answers(b), s \in SUBSET b : Post(j, b, a, s)
    BY <2>1
  <2>2. /\ pc[j] \in Posting /\ pc' = pc /\ call' = call /\ CarryOut(j, s) /\ Agrees(a, s)
    BY DEF Post
  <2>3. /\ unsent'[j] = unsent[j] \ b
        /\ again'[j] = again[j] \cup {k \in b : a[k] \in {"none", "retryable"}}
        /\ verdict'[j][c] = IF c \in b /\ a[c] # "none" THEN a[c] ELSE verdict[j][c]
    BY <1>1 DEF Post, Typing, TypeOK
  <2>4. CASE pc[j] = "uploading"
    <3>1. verdict'[j][c] = "succeeded" => c \in s \/ verdict[j][c] = "succeeded"
      BY <2>2, <2>3 DEF Agrees, Answers
    <3>2. s \in SUBSET Chunks /\ pc[j] # "new"
      BY <1>1, <2>4 DEF Typing, TypeOK
    <3>3. c \in s => index'[Parent(j)][c] = j
      BY <1>1, <2>2, <2>4, <3>2, CarriedOut
    <3> QED
      BY <1>1, <1>2, <2>2, <2>4, <3>1, <3>2, <3>3, NoJobAssumption DEF KeptBy
  <2>5. CASE pc[j] = "removing"
    BY <1>1, <1>2, <2>2, <2>3, <2>5 DEF KeptBy
  <2> QED
    BY <2>2, <2>4, <2>5 DEF Posting
<1> QED
  BY <1>5, <1>6, <1>7, <1>8, <1>9, <1>10, <1>11, <1>12, <1>13, <1>14 DEF JobStep, Fault, Query

\* Another job's step leaves it with what it knows.
LEMMA OthersKeep ==
    ASSUME NEW c \in Chunks, KeptInvariant(c), NEW j \in Jobs, NEW i \in Jobs, i # j,
           JobStep(j) \/ Fault(j) \/ \E d \in Calls : Call(j, d),
           \A p \in Parents : RowSafe(p, c)
    PROVE  KeptBy(i, c)'
<1>1. Untouched(i) /\ Typing /\ KeptBy(i, c)
  BY OthersUntouched DEF KeptInvariant, ChunkIsKept, KeptBy
<1>2. pc[i] # "new" => Parent(i) \in Parents
  BY <1>1, CallTypes DEF Typing, CallKnown, Parent
<1> QED
  BY <1>1, <1>2 DEF KeptBy, Untouched, Parent, RowSafe

\* A removal that is given up on spares the chunk, whenever it lands.
LEMMA GivenUpSpares ==
    ASSUME NEW c \in Chunks, KeptInvariant(c), NEW j \in Jobs, pc[j] \in Posting,
           NEW s \in SUBSET unsent[j], GiveUpOn(j, s), NEW p \in Parents,
           RowSafe(p, c)
    PROVE  KeptLate(p, c)'
<1>1. Typing /\ KeptBy(j, c) /\ KeptLate(p, c)
  BY DEF KeptInvariant, ChunkIsKept, KeptBy, KeptLate
<1>2. late'[p] \subseteq IF p = Parent(j) THEN late[p] \cup s \X {Effect(j)} ELSE late[p]
  BY <1>1 DEF GiveUpOn, Typing, TypeOK
<1>3. ASSUME NEW k \in Chunks, <<k, NoJob>> \in late'[p]
      PROVE  k # c /\ index[p][c] # NoJob
  <2>1. CASE <<k, NoJob>> \in late[p]
    BY <1>1, <2>1 DEF KeptLate
  <2>2. CASE p = Parent(j) /\ k \in s /\ Effect(j) = NoJob
    <3>1. pc[j] = "removing"
      BY <2>2, NoJobAssumption DEF Effect, Posting
    <3> QED
      BY <1>1, <2>2, <3>1 DEF KeptBy
  <2> QED
    BY <1>2, <1>3, <2>1, <2>2
<1> QED
  BY <1>3 DEF KeptLate, RowSafe

LEMMA StepKeepsLate ==
    ASSUME NEW c \in Chunks, KeptInvariant(c), NEW j \in Jobs, NEW p \in Parents, RowSafe(p, c),
           JobStep(j) \/ Fault(j) \/ \E d \in Calls : Call(j, d)
    PROVE  KeptLate(p, c)'
<1>1. KeptLate(p, c)
  BY DEF KeptInvariant, ChunkIsKept, KeptLate
<1>2. CASE late' = late
  BY <1>1, <1>2 DEF KeptLate, RowSafe
<1>3. CASE PostSome(j)
  <2>1. PICK s \in SUBSET unsent[j] : pc[j] \in Posting /\ GiveUpOn(j, s)
    BY <1>3 DEF PostSome, Post
  <2> QED
    BY <2>1, GivenUpSpares
<1>4. CASE \E s \in SUBSET unsent[j] : Abort(j, s)
  <2>1. CASE \E s \in SUBSET unsent[j] : PostRaises(j, s)
    BY <1>2, <2>1 DEF PostRaises
  <2>2. CASE \E s \in SUBSET unsent[j], d \in SUBSET unsent[j] : CancelPost(j, s, d)
    BY <2>2, GivenUpSpares DEF CancelPost
  <2> QED
    BY <1>4, <2>1, <2>2 DEF Abort
<1>5. CASE \E v \in Views(Parent(j)) :
               ListPage(j, v) \/ NothingStale(j, v) \/ BeginRemoving(j, v)
  BY <1>2, <1>5 DEF ListPage, NothingStale, BeginRemoving, indexVars
<1> QED
  BY <1>2, <1>3, <1>4, <1>5
     DEF JobStep, Fault, Query, Enter, Refuse, BeginUpload, Retry, GateBlocks, BeginListing,
         Finish, CancelAcquire, ListRaises, Call, indexVars

LEMMA KeptHolds ==
    ASSUME NEW c \in Chunks, \A v \in Versions : c \in v
    PROVE  Spec => []KeptInvariant(c)
<1>1. Init => KeptInvariant(c)
  BY InitTyping DEF Init, KeptInvariant, ChunkIsKept
<1>2. ASSUME KeptInvariant(c), [Next]_vars PROVE KeptInvariant(c)'
  <2>1. Typing /\ Typing' /\ \A p \in Parents : RowSafe(p, c)
    BY <1>2, NextTyping, EveryStepIsSafe DEF KeptInvariant
  <2>2. \A j \in Jobs : KeptBy(j, c) /\ (pc[j] # "new" => Parent(j) \in Parents)
    BY <1>2, <2>1, CallTypes DEF KeptInvariant, ChunkIsKept, KeptBy, Typing, CallKnown, Parent
  <2>3. \A p \in Parents : KeptLate(p, c)
    BY <1>2 DEF KeptInvariant, ChunkIsKept, KeptLate
  <2>4. ASSUME UNCHANGED <<pc, call, verdict, unsent, again>> PROVE \A j \in Jobs : KeptBy(j, c)'
    BY <2>1, <2>2, <2>4 DEF KeptBy, Parent, RowSafe
  <2>5. ASSUME \A p \in Parents : late'[p] \subseteq late[p]
        PROVE  \A p \in Parents : KeptLate(p, c)'
    BY <2>1, <2>3, <2>5 DEF KeptLate, RowSafe
  <2>6. CASE UNCHANGED vars
    BY <2>1, <2>4, <2>5, <2>6
       DEF vars, indexVars, retryVars, KeptInvariant, ChunkIsKept, KeptBy, KeptLate
  <2>7. CASE \E p \in Parents, k \in Chunks :
                 BecomesQueryable(p, k) \/ \E w \in Jobs \cup {NoJob} : LandsLate(p, k, w)
    <3>1. UNCHANGED <<pc, call, verdict, unsent, again>>
      BY <2>7 DEF BecomesQueryable, LandsLate, retryVars
    <3>2. \A p \in Parents : late'[p] \subseteq late[p]
      <4>1. ASSUME NEW q \in Parents, NEW k \in Chunks, NEW w, LandsLate(q, k, w), NEW p \in Parents
            PROVE  late'[p] \subseteq late[p]
        BY <2>1, <4>1 DEF LandsLate, Typing, TypeOK
      <4> QED
        BY <2>7, <4>1 DEF BecomesQueryable
    <3> QED
      BY <2>1, <2>4, <2>5, <3>1, <3>2 DEF KeptInvariant, ChunkIsKept, KeptBy, KeptLate
  <2>8. ASSUME NEW j \in Jobs, JobStep(j) \/ Fault(j) \/ \E d \in Calls : Call(j, d)
        PROVE  KeptInvariant(c)'
    <3>1. \A i \in Jobs : KeptBy(i, c)'
      BY <1>2, <2>1, <2>8, OwnStepKeeps, OthersKeep
    <3>2. \A p \in Parents : KeptLate(p, c)'
      BY <1>2, <2>1, <2>8, StepKeepsLate
    <3> QED
      BY <2>1, <3>1, <3>2 DEF KeptInvariant, ChunkIsKept, KeptBy, KeptLate
  <2> QED
    BY <1>2, <2>6, <2>7, <2>8 DEF Next
<1> QED
  BY <1>1, <1>2, PTL DEF Spec

(* Once served, always served, for any number of processes, any lag and    *)
(* requests carried out however late: all this needs is a chunk that is in *)
(* every version of a document, which make_chunk_id provides by numbering  *)
(* the chunks of each version from the same start.                         *)
THEOREM CommonChunkServes ==
    ASSUME NEW c \in Chunks, \A v \in Versions : c \in v
    PROVE  Spec => NeverGoesDark
<1>1. KeptInvariant(c) /\ [Next]_vars =>
          [\A p \in Parents : Indexed(p) # {} => Indexed(p)' # {}]_index
  BY EveryStepIsSafe DEF RowSafe
<1> QED
  BY <1>1, KeptHolds, PTL DEF Spec, NeverGoesDark
=============================================================================
