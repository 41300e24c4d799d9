----------------------- MODULE ConversationTurnsProofs -----------------------
(***************************************************************************)
(* Proofs about a conversation turn as ConversationTurns models it, for    *)
(* any sets of turns, callers, conversation ids and lock registries, any   *)
(* budget and any token usages.                                            *)
(***************************************************************************)
EXTENDS ConversationTurns, TLAPS

-----------------------------------------------------------------------------
(* Types. *)

\* A turn that has arrived has a request.
RequestKnown == \A t \in Turns : pc[t] # "new" => req[t] \in Requests

Typing == TypeOK /\ RequestKnown

LEMMA RequestTypes ==
    ASSUME NEW r \in Requests
    PROVE  /\ ConversationOf(r) \in Conversations
           /\ LockKeyOf(r) \in LockKeys
           /\ r.caller.groups \in Scopes
           /\ r.caller.groups # NoScope
  BY PrincipalsAssumption
     DEF Requests, ConversationOf, LockKeyOf, Conversations, LockKeys, Tenants, Scopes

LEMMA AbsentIsConversation == Absent \in Conversation
  BY DEF Absent, Conversation

LEMMA DraftIsConversation ==
    ASSUME NEW r \in Requests PROVE Draft(r.caller) \in Conversation
  BY RequestTypes, AbsentIsConversation DEF Draft, Absent, Conversation

LEMMA InitTyping == Init => Typing
  BY AbsentIsConversation
     DEF Init, Typing, TypeOK, RequestKnown, Status, Critical,
         Lock!MutexInit, Lock!MutexTypeOK

(* The moves of the lock keep its type. *)
LEMMA LockTypes ==
    ASSUME Lock!MutexTypeOK, NEW t \in Turns, NEW k \in LockKeys,
           Lock!Request(t, k) \/ Lock!Grant(t, k) \/ Lock!Abandon(t, k) \/ Lock!Release(t, k)
    PROVE  Lock!MutexTypeOK'
  BY DEF Lock!MutexTypeOK, Lock!Request, Lock!Grant, Lock!Abandon, Lock!Release

(* An append leaves a well-typed store. *)
LEMMA StoreTypes ==
    ASSUME Typing, NEW t \in Turns, pc[t] # "new", NEW n \in Usages, Appended(t, n)
    PROVE  store' \in [Conversations -> Conversation]
<1> DEFINE c == Conv(t)
<1>1. c \in Conversations
  BY RequestTypes DEF Typing, RequestKnown, Conv
<1>2. store[c] \in Conversation /\ session[t] \in Conversation
  BY <1>1 DEF Typing, TypeOK
<1>3. n \in Nat
  BY UsagesAssumption
<1>4. store' = [store EXCEPT ![c] =
            [log |-> Append(store[c].log, t),
             revision |-> store[c].revision + 1,
             spent |-> store[c].spent + n,
             scope |-> IF store[c].revision = 0 THEN session[t].scope ELSE store[c].scope]]
  BY DEF Appended
<1> HIDE DEF c
<1>5. [log |-> Append(store[c].log, t),
       revision |-> store[c].revision + 1,
       spent |-> store[c].spent + n,
       scope |-> IF store[c].revision = 0 THEN session[t].scope ELSE store[c].scope]
      \in Conversation
  <2>1. Append(store[c].log, t) \in Seq(Turns)
    BY <1>2 DEF Conversation
  <2>2. store[c].revision + 1 \in Nat /\ store[c].spent + n \in Nat
    BY <1>2, <1>3 DEF Conversation
  <2>3. (IF store[c].revision = 0 THEN session[t].scope ELSE store[c].scope)
          \in Scopes \cup {NoScope}
    BY <1>2 DEF Conversation
  <2> QED
    BY <2>1, <2>2, <2>3 DEF Conversation
<1> QED
  BY <1>1, <1>4, <1>5 DEF Typing, TypeOK

(* One more event is one more event. *)
LEMMA EmitTypes ==
    ASSUME Typing, NEW t \in Turns, NEW o \in {"success", "rejected", "error"},
           NEW a \in BOOLEAN, NEW b \in BOOLEAN, Emit(t, o, a, b)
    PROVE  audit' \in [Turns -> Seq(Event)]
<1>1. [outcome |-> o, attempted |-> a, committed |-> b] \in Event
  BY DEF Event
<1>2. audit[t] \in Seq(Event)
  BY DEF Typing, TypeOK
<1>3. Append(audit[t], [outcome |-> o, attempted |-> a, committed |-> b]) \in Seq(Event)
  BY <1>1, <1>2
<1> QED
  BY <1>3 DEF Emit, Typing, TypeOK

LEMMA FinishTypes ==
    ASSUME Typing, NEW t \in Turns, pc[t] # "new",
           NEW o \in {"success", "rejected", "error"}, NEW a \in BOOLEAN, NEW b \in BOOLEAN,
           NEW w \in {"nothing", "headers", "done", "reply", "error"},
           Finish(t, o, a, b, w)
    PROVE  /\ Lock!MutexTypeOK'
           /\ pc' \in [Turns -> Status] /\ pc'[t] = "done"
           /\ \A u \in Turns : u # t => pc'[u] = pc[u]
           /\ told' \in [Turns -> {"nothing", "headers", "done", "reply", "error"}]
           /\ audit' \in [Turns -> Seq(Event)]
<1>1. Key(t) \in LockKeys
  BY RequestTypes DEF Typing, RequestKnown, Key
<1>2. Lock!MutexTypeOK'
  BY <1>1, LockTypes DEF Finish, Typing, TypeOK
<1>3. audit' \in [Turns -> Seq(Event)]
  BY EmitTypes DEF Finish
<1> QED
  BY <1>2, <1>3 DEF Finish, Goto, Tell, Typing, TypeOK, Status

LEMMA UnwindTypes ==
    ASSUME Typing, NEW t \in Turns, pc[t] # "new", Unwind(t)
    PROVE  Typing'
<1>1. Key(t) \in LockKeys
  BY RequestTypes DEF Typing, RequestKnown, Key
<1>2. Lock!MutexTypeOK'
  BY <1>1, LockTypes DEF Unwind, Typing, TypeOK
<1> QED
  BY <1>2 DEF Unwind, Goto, Typing, TypeOK, RequestKnown, Status

LEMMA StepTyping ==
    ASSUME Typing, NEW t \in Turns, TurnStep(t) \/ Outside(t)
    PROVE  Typing'
<1> USE DEF Goto, Tell
<1>1. ASSUME pc[t] # "new" PROVE Key(t) \in LockKeys /\ req[t] \in Requests
  BY <1>1, RequestTypes DEF Typing, RequestKnown, Key
<1>2. ASSUME NEW r \in Requests, Arrive(t, r) PROVE Typing'
  <2>1. Lock!MutexTypeOK'
    BY <1>2, LockTypes, RequestTypes DEF Arrive, Typing, TypeOK
  <2> QED
    BY <1>2, <2>1 DEF Arrive, Typing, TypeOK, RequestKnown, Status
<1>3. ASSUME NEW r \in Requests, RefuseTask(t, r) PROVE Typing'
  <2>1. audit' \in [Turns -> Seq(Event)]
    BY <1>3, EmitTypes DEF RefuseTask
  <2>2. Lock!MutexTypeOK'
    BY <1>3 DEF RefuseTask, lockVars, Typing, TypeOK, Lock!MutexTypeOK
  <2> QED
    BY <1>3, <2>1, <2>2 DEF RefuseTask, Typing, TypeOK, RequestKnown, Status
<1>4. CASE Enter(t)
  <2>1. Lock!MutexTypeOK'
    BY <1>1, <1>4, LockTypes DEF Enter, Typing, TypeOK
  <2> QED
    BY <1>4, <2>1 DEF Enter, Typing, TypeOK, RequestKnown, Status, Critical
<1>5. CASE CancelAcquire(t)
  <2>1. Lock!MutexTypeOK'
    BY <1>1, <1>5, LockTypes DEF CancelAcquire, Typing, TypeOK
  <2> QED
    BY <1>5, <2>1 DEF CancelAcquire, Typing, TypeOK, RequestKnown, Status
<1>6. CASE LoadFails(t)
  BY <1>6, FinishTypes DEF LoadFails, Typing, TypeOK, RequestKnown
<1>7. CASE Reject(t)
  BY <1>7, FinishTypes DEF Reject, Typing, TypeOK, RequestKnown
<1>8. CASE Infer(t)
  <2>1. Loaded(t) \in Conversation
    BY <1>1, <1>8, DraftIsConversation, RequestTypes
       DEF Infer, Loaded, Typing, TypeOK, Conv
  <2>2. Lock!MutexTypeOK'
    BY <1>8 DEF Infer, lockVars, Typing, TypeOK, Lock!MutexTypeOK
  <2> QED
    BY <1>8, <2>1, <2>2 DEF Infer, Typing, TypeOK, RequestKnown, Status, Critical
<1>9. CASE ProviderFails(t)
  BY <1>9, FinishTypes DEF ProviderFails, Typing, TypeOK, RequestKnown
<1>10. ASSUME NEW n \in Usages, ReplyCommits(t, n) PROVE Typing'
  <2>1. store' \in [Conversations -> Conversation]
    BY <1>10, StoreTypes DEF ReplyCommits
  <2> QED
    BY <1>10, <2>1, FinishTypes DEF ReplyCommits, Typing, TypeOK, RequestKnown
<1>11. CASE ReplyNotStored(t)
  BY <1>11, FinishTypes DEF ReplyNotStored, Typing, TypeOK, RequestKnown
<1>12. CASE ReplyDiscarded(t)
  BY <1>12, FinishTypes DEF ReplyDiscarded, Typing, TypeOK, RequestKnown
<1>13. CASE CancelInference(t)
  BY <1>13, UnwindTypes DEF CancelInference
<1>14. CASE StreamOpens(t)
  BY <1>14 DEF StreamOpens, lockVars, Typing, TypeOK, RequestKnown, Status, Critical,
               Lock!MutexTypeOK
<1>15. CASE FirstPull(t) \/ NeverPulled(t)
  BY <1>15 DEF FirstPull, NeverPulled, lockVars, Typing, TypeOK, RequestKnown, Status,
               Critical, Lock!MutexTypeOK
<1>16. CASE Delta(t)
  BY <1>16 DEF Delta, lockVars, Typing, TypeOK, RequestKnown, Status, Critical,
               Lock!MutexTypeOK
<1>17. CASE DeltaSent(t)
  BY <1>17 DEF DeltaSent, lockVars, Typing, TypeOK, RequestKnown, Status, Critical,
               Lock!MutexTypeOK
<1>18. ASSUME NEW n \in Usages, TerminalCommits(t, n) PROVE Typing'
  <2>1. store' \in [Conversations -> Conversation]
    BY <1>18, StoreTypes DEF TerminalCommits
  <2>2. Lock!MutexTypeOK'
    BY <1>18 DEF TerminalCommits, lockVars, Typing, TypeOK, Lock!MutexTypeOK
  <2> QED
    BY <1>18, <2>1, <2>2 DEF TerminalCommits, Typing, TypeOK, RequestKnown, Status, Critical
<1>19. CASE TerminalDiscarded(t)
  BY <1>19 DEF TerminalDiscarded, lockVars, Typing, TypeOK, RequestKnown, Status, Critical,
               Lock!MutexTypeOK
<1>20. CASE StreamBreaks(t)
  BY <1>20, FinishTypes DEF StreamBreaks, Typing, TypeOK, RequestKnown
<1>21. CASE CancelStreaming(t)
  <2>1. told[t] \in {"nothing", "headers", "done", "reply", "error"}
    BY DEF Typing, TypeOK
  <2> QED
    BY <1>21, <2>1, FinishTypes DEF CancelStreaming, Typing, TypeOK, RequestKnown
<1>22. CASE StopConsuming(t)
  BY <1>22 DEF StopConsuming, lockVars, Typing, TypeOK, RequestKnown, Status, Critical,
               Lock!MutexTypeOK
<1>23. CASE CloseObserver(t)
  <2>1. audit' \in [Turns -> Seq(Event)]
    BY <1>23, EmitTypes DEF CloseObserver
  <2>2. Lock!MutexTypeOK'
    BY <1>23 DEF CloseObserver, lockVars, Typing, TypeOK, Lock!MutexTypeOK
  <2> QED
    BY <1>23, <2>1, <2>2 DEF CloseObserver, Typing, TypeOK, RequestKnown, Status, Critical
<1>24. CASE CloseStream(t)
  BY <1>24, UnwindTypes DEF CloseStream
<1> QED
  BY <1>2, <1>3, <1>4, <1>5, <1>6, <1>7, <1>8, <1>9, <1>10, <1>11, <1>12, <1>13, <1>14,
     <1>15, <1>16, <1>17, <1>18, <1>19, <1>20, <1>21, <1>22, <1>23, <1>24 DEF TurnStep, Outside

(* A stuttering step changes nothing that is typed. *)
LEMMA StutterTyping == Typing /\ UNCHANGED vars => Typing'
  BY DEF Typing, TypeOK, RequestKnown, vars, lockVars, turnVars, Lock!MutexTypeOK

THEOREM TypesHold == Spec => []Typing
<1>1. Init => Typing
  BY InitTyping
<1>2. Typing /\ [Next]_vars => Typing'
  BY StepTyping, StutterTyping DEF Next
<1> QED
  BY <1>1, <1>2, PTL DEF Spec

(* TypeOK: every variable of a turn stays within its type.                 *)
THEOREM TypeCorrect == Spec => []TypeOK
<1>1. Typing => TypeOK
  BY DEF Typing
<1> QED
  BY <1>1, TypesHold, PTL

-----------------------------------------------------------------------------
(* The lock follows the turn. *)

\* The turn ends and gives its lock back.
Ends(t) ==
    /\ pc[t] \in Critical
    /\ pc' = [pc EXCEPT ![t] = "done"]
    /\ Lock!Release(t, Key(t))
    /\ UNCHANGED req

\* The turn goes on inside its critical section.
Works(t) ==
    /\ pc[t] \in Critical
    /\ \E p \in Critical : pc' = [pc EXCEPT ![t] = p]
    /\ UNCHANGED <<owner, waiting, req>>

(* What the steps of a turn do to its lock. *)
LEMMA LockSteps ==
    ASSUME NEW t \in Turns, TurnStep(t) \/ Outside(t)
    PROVE  \/ \E r \in Requests : Arrive(t, r) \/ RefuseTask(t, r)
           \/ Enter(t)
           \/ CancelAcquire(t)
           \/ Ends(t)
           \/ Works(t)
<1> USE DEF Goto, Tell, Finish, Unwind, Ends, Works, Critical, lockVars
<1>1. CASE LoadFails(t) \/ Reject(t)
  BY <1>1 DEF LoadFails, Reject
<1>2. CASE ProviderFails(t)
  BY <1>2 DEF ProviderFails
<1>3. CASE ReplyNotStored(t) \/ ReplyDiscarded(t) \/ \E n \in Usages : ReplyCommits(t, n)
  BY <1>3 DEF ReplyNotStored, ReplyDiscarded, ReplyCommits
<1>4. CASE CancelInference(t) \/ CancelStreaming(t) \/ StreamBreaks(t) \/ CloseStream(t)
  BY <1>4 DEF CancelInference, CancelStreaming, StreamBreaks, CloseStream
<1>5. CASE Infer(t) \/ StreamOpens(t) \/ FirstPull(t) \/ NeverPulled(t) \/ Delta(t) \/ DeltaSent(t)
  BY <1>5 DEF Infer, StreamOpens, FirstPull, NeverPulled, Delta, DeltaSent
<1>6. CASE TerminalDiscarded(t) \/ \E n \in Usages : TerminalCommits(t, n)
  BY <1>6 DEF TerminalDiscarded, TerminalCommits
<1>7. CASE StopConsuming(t) \/ CloseObserver(t)
  BY <1>7 DEF StopConsuming, CloseObserver
<1> QED
  BY <1>1, <1>2, <1>3, <1>4, <1>5, <1>6, <1>7 DEF TurnStep, Outside

LEMMA LockFollowsStep ==
    ASSUME Typing, LockFollowsTurn, NEW t \in Turns, TurnStep(t) \/ Outside(t)
    PROVE  LockFollowsTurn'
<1> USE NoTurnAssumption DEF LockFollowsTurn, Typing, TypeOK, RequestKnown, Key, Critical,
        Lock!MutexTypeOK
<1>1. ASSUME NEW r \in Requests, Arrive(t, r) PROVE LockFollowsTurn'
  BY <1>1, RequestTypes DEF Arrive, Goto, Lock!Request
<1>2. ASSUME NEW r \in Requests, RefuseTask(t, r) PROVE LockFollowsTurn'
  BY <1>2 DEF RefuseTask, Goto, lockVars
<1>3. CASE Enter(t)
  BY <1>3, RequestTypes DEF Enter, Goto, Lock!Grant
<1>4. CASE CancelAcquire(t)
  BY <1>4, RequestTypes DEF CancelAcquire, Goto, Lock!Abandon
<1>5. CASE Ends(t)
  BY <1>5, RequestTypes DEF Ends, Lock!Release
<1>6. CASE Works(t)
  BY <1>6 DEF Works
<1> QED
  BY <1>1, <1>2, <1>3, <1>4, <1>5, <1>6, LockSteps

(* LockFollowsTurn: the lock of a conversation is owned exactly by the     *)
(* turn inside its critical section, also on every path out of it, save    *)
(* for a response that was dropped before its first frame.                 *)
THEOREM LockFollowsTurns == Spec => []LockFollowsTurn
<1>1. Init => LockFollowsTurn
  BY NoTurnAssumption DEF Init, LockFollowsTurn, Lock!MutexInit, Critical
<1>2. LockFollowsTurn /\ UNCHANGED vars => LockFollowsTurn'
  BY DEF LockFollowsTurn, vars, lockVars, turnVars, Key
<1>3. Typing /\ LockFollowsTurn /\ [Next]_vars => LockFollowsTurn'
  BY <1>2, LockFollowsStep DEF Next
<1> QED
  BY <1>1, <1>3, TypesHold, PTL DEF Spec

-----------------------------------------------------------------------------
(* The history.  What makes CausalLog inductive is what a turn's copy of   *)
(* its conversation says as long as its revision is the store's.           *)

\* Phases before a turn's append.
Early == {"new", "acquiring", "loading"} \cup Uncommitted

StoreShape ==
    \A c \in Conversations :
        /\ store[c].revision = Len(store[c].log)
        /\ store[c].revision = 0 <=> store[c].scope = NoScope
        /\ store[c].revision = 0 => store[c].spent = 0

SnapshotsFaithful ==
    \A t \in Turns : pc[t] \in Uncommitted =>
        /\ session[t].scope = req[t].caller.groups
        /\ Within(session[t].spent)
        /\ session[t].revision <= store[Conv(t)].revision
        /\ session[t].revision = store[Conv(t)].revision =>
               /\ session[t].log = store[Conv(t)].log
               /\ session[t].spent = store[Conv(t)].spent
               /\ store[Conv(t)].scope \in {NoScope, session[t].scope}

RepliesInOrder ==
    \A t \in Turns :
        /\ pc[t] \in Early => reply[t] = "none"
        /\ reply[t] = "kept" => InLog(t, Conv(t))

EntriesCommitted ==
    \A c \in Conversations, u \in Turns : InLog(u, c) =>
        /\ reply[u] = "kept"
        /\ Conv(u) = c
        /\ req[u].caller.groups = store[c].scope

HistoryInv ==
    StoreShape /\ SnapshotsFaithful /\ RepliesInOrder /\ EntriesCommitted /\ CausalLog

\* A step that leaves the store and the copies alone.
Quiet(t) ==
    /\ UNCHANGED <<store, session>>
    /\ \/ UNCHANGED req
       \/ pc[t] = "new" /\ \E r \in Requests : req' = [req EXCEPT ![t] = r]
    /\ \E p \in Status :
          /\ pc' = [pc EXCEPT ![t] = p]
          /\ p \in Early => pc[t] \in Early
          /\ p \in Uncommitted => pc[t] \in Uncommitted
          /\ \/ UNCHANGED reply
             \/ /\ pc[t] \in Uncommitted
                /\ p \notin Early
                /\ reply' = [reply EXCEPT ![t] = "discarded"]

\* A turn's append.
Commits(t, n) ==
    /\ pc[t] \in Uncommitted
    /\ Accepts(Conv(t), session[t].revision)
    /\ Appended(t, n)
    /\ reply' = [reply EXCEPT ![t] = "kept"]
    /\ usage' = [usage EXCEPT ![t] = n]
    /\ \E p \in {"done", "sendingDone"} : pc' = [pc EXCEPT ![t] = p]
    /\ UNCHANGED <<req, session>>

(* What the steps of a turn do to the history. *)
LEMMA HistorySteps ==
    ASSUME NEW t \in Turns, TurnStep(t) \/ Outside(t)
    PROVE  Quiet(t) \/ Infer(t) \/ \E n \in Usages : Commits(t, n)
<1> USE DEF Goto, Tell, Finish, Unwind, Early, Uncommitted, Critical, Status
<1>1. CASE \E r \in Requests : Arrive(t, r) \/ RefuseTask(t, r)
  BY <1>1 DEF Arrive, RefuseTask, Quiet
<1>2. CASE Enter(t) \/ CancelAcquire(t)
  BY <1>2 DEF Enter, CancelAcquire, Quiet
<1>3. CASE LoadFails(t) \/ Reject(t)
  BY <1>3 DEF LoadFails, Reject, Quiet
<1>4. CASE ProviderFails(t) \/ ReplyNotStored(t) \/ ReplyDiscarded(t)
  BY <1>4, ZenonT(60) DEF ProviderFails, ReplyNotStored, ReplyDiscarded, Quiet
<1>5. CASE CancelInference(t) \/ CancelStreaming(t) \/ StreamBreaks(t) \/ CloseStream(t)
  BY <1>5 DEF CancelInference, CancelStreaming, StreamBreaks, CloseStream, Quiet
<1>6. CASE StreamOpens(t) \/ FirstPull(t) \/ NeverPulled(t) \/ Delta(t) \/ DeltaSent(t)
  BY <1>6 DEF StreamOpens, FirstPull, NeverPulled, Delta, DeltaSent, Quiet
<1>7. CASE StopConsuming(t) \/ CloseObserver(t)
  BY <1>7 DEF StopConsuming, CloseObserver, Quiet
<1>8. CASE TerminalDiscarded(t)
  <2>1. /\ UNCHANGED <<store, session, req>>
        /\ reply' = [reply EXCEPT ![t] = "discarded"]
        /\ pc' = [pc EXCEPT ![t] = "sendingDone"]
        /\ pc[t] = "streaming"
    BY <1>8 DEF TerminalDiscarded
  <2> QED
    BY <2>1 DEF Quiet
<1>9. ASSUME NEW n \in Usages, ReplyCommits(t, n) \/ TerminalCommits(t, n)
      PROVE \E m \in Usages : Commits(t, m)
  BY <1>9 DEF ReplyCommits, TerminalCommits, Commits
<1> HIDE DEF Goto, Tell, Finish, Unwind, Early, Uncommitted, Critical, Status
<1> QED
  BY <1>1, <1>2, <1>3, <1>4, <1>5, <1>6, <1>7, <1>8, <1>9 DEF TurnStep, Outside

LEMMA QuietHistory ==
    ASSUME Typing, HistoryInv, NEW t \in Turns, Quiet(t)
    PROVE  HistoryInv'
<1> USE DEF Typing, TypeOK, HistoryInv
<1>1. PICK p \in Status :
          /\ pc' = [pc EXCEPT ![t] = p]
          /\ p \in Early => pc[t] \in Early
          /\ p \in Uncommitted => pc[t] \in Uncommitted
          /\ \/ UNCHANGED reply
             \/ /\ pc[t] \in Uncommitted
                /\ p \notin Early
                /\ reply' = [reply EXCEPT ![t] = "discarded"]
  BY DEF Quiet
<1>2. store' = store /\ session' = session
  BY DEF Quiet
<1>3. \A u \in Turns : pc[u] # "new" \/ u # t => req'[u] = req[u]
  BY DEF Quiet
<1>4. reply[t] = "kept" => pc[t] \notin Early /\ reply' = reply /\ pc[t] # "new"
  BY <1>1 DEF RepliesInOrder, Early, Uncommitted
<1>5. \A u \in Turns : reply[u] = "kept" <=> reply'[u] = "kept"
  BY <1>1, <1>4 DEF RepliesInOrder, Early
<1>6. \A u \in Turns : reply[u] = "kept" => req'[u] = req[u]
  BY <1>3, <1>4
<1>7. StoreShape'
  BY <1>2 DEF StoreShape
<1>8. SnapshotsFaithful'
  BY <1>1, <1>2, <1>3 DEF SnapshotsFaithful, Uncommitted, Conv
<1>9. RepliesInOrder'
  <2>1. \A u \in Turns : pc'[u] \in Early => reply'[u] = "none"
    BY <1>1 DEF RepliesInOrder
  <2>2. \A u \in Turns : reply'[u] = "kept" => InLog(u, Conv(u)) /\ req'[u] = req[u]
    BY <1>5, <1>6 DEF RepliesInOrder
  <2>3. \A u \in Turns : reply'[u] = "kept" => InLog(u, Conv(u))'
    BY <1>2, <2>2 DEF InLog, Conv
  <2> QED
    BY <2>1, <2>3 DEF RepliesInOrder
<1>10. EntriesCommitted'
  BY <1>2, <1>5, <1>6 DEF EntriesCommitted, Conv, InLog
<1>11. CausalLog'
  BY <1>2 DEF CausalLog
<1> QED
  BY <1>7, <1>8, <1>9, <1>10, <1>11

LEMMA InferHistory ==
    ASSUME Typing, HistoryInv, NEW t \in Turns, Infer(t)
    PROVE  HistoryInv'
<1> USE DEF Typing, TypeOK, HistoryInv
<1>1. /\ store' = store /\ req' = req /\ reply' = reply
      /\ session' = [session EXCEPT ![t] = Loaded(t)]
      /\ pc' = [pc EXCEPT ![t] = "inference"]
      /\ pc[t] = "loading"
  BY DEF Infer, Goto
<1>2. \A c \in Conversations : \A i \in DOMAIN store[c].log :
          store[c].log[i] \in Turns /\ store[c].log[i] # t
  <2>1. \A c \in Conversations : ~InLog(t, c)
    BY <1>1 DEF EntriesCommitted, RepliesInOrder, Early
  <2>2. \A c \in Conversations : store[c].log \in Seq(Turns)
    BY DEF Conversation
  <2> QED
    BY <2>1, <2>2 DEF InLog
<1>3. StoreShape' /\ EntriesCommitted'
  BY <1>1 DEF StoreShape, EntriesCommitted, Conv, InLog
<1>4. CausalLog'
  BY <1>1, <1>2 DEF CausalLog
<1>5. RepliesInOrder'
  BY <1>1, ZenonT(60) DEF RepliesInOrder, InLog, Conv, Early
<1>6. req[t] \in Requests /\ Conv(t) \in Conversations
  BY <1>1, RequestTypes DEF RequestKnown, Conv
<1>7. store[Conv(t)] \in Conversation
  BY <1>6
<1>8. /\ Loaded(t).scope = req[t].caller.groups
      /\ Within(Loaded(t).spent)
      /\ Loaded(t).revision <= store[Conv(t)].revision
      /\ Loaded(t).revision = store[Conv(t)].revision =>
             /\ Loaded(t).log = store[Conv(t)].log
             /\ Loaded(t).spent = store[Conv(t)].spent
             /\ store[Conv(t)].scope \in {NoScope, Loaded(t).scope}
  <2>1. CASE req[t].fresh
    <3>1. Loaded(t) = Draft(req[t].caller)
      BY <2>1 DEF Loaded
    <3>2. /\ Loaded(t).log = <<>> /\ Loaded(t).revision = 0 /\ Loaded(t).spent = 0
          /\ Loaded(t).scope = req[t].caller.groups
      BY <3>1 DEF Draft, Absent
    <3>3. store[Conv(t)].revision \in Nat /\ store[Conv(t)].log \in Seq(Turns)
      BY <1>7 DEF Conversation
    <3>4. store[Conv(t)].revision = 0 =>
              store[Conv(t)].log = <<>> /\ store[Conv(t)].spent = 0
                /\ store[Conv(t)].scope = NoScope
      BY <1>6, <3>3 DEF StoreShape
    <3>5. Within(Loaded(t).spent)
      BY DEF Infer
    <3> QED
      BY <3>2, <3>3, <3>4, <3>5
  <2>2. CASE ~req[t].fresh
    <3>1. Loaded(t) = store[Conv(t)]
      BY <2>2 DEF Loaded
    <3>2. store[Conv(t)].scope = req[t].caller.groups
      BY <2>2 DEF Infer, NotFound
    <3>3. Within(Loaded(t).spent)
      BY DEF Infer
    <3>4. store[Conv(t)].revision \in Nat
      BY <1>7 DEF Conversation
    <3> QED
      BY <3>1, <3>2, <3>3, <3>4
  <2> QED
    BY <2>1, <2>2
<1>9. SnapshotsFaithful'
  <2> SUFFICES ASSUME NEW u \in Turns, (pc[u] \in Uncommitted)'
               PROVE  (/\ session[u].scope = req[u].caller.groups
                       /\ Within(session[u].spent)
                       /\ session[u].revision <= store[Conv(u)].revision
                       /\ session[u].revision = store[Conv(u)].revision =>
                              /\ session[u].log = store[Conv(u)].log
                              /\ session[u].spent = store[Conv(u)].spent
                              /\ store[Conv(u)].scope \in {NoScope, session[u].scope})'
    BY DEF SnapshotsFaithful
  <2>1. CASE u = t
    BY <1>1, <1>8, <2>1 DEF Conv, Within
  <2>2. CASE u # t
    BY <1>1, <2>2 DEF Conv, Within, SnapshotsFaithful, Uncommitted
  <2> QED
    BY <2>1, <2>2
<1> QED
  BY <1>3, <1>4, <1>5, <1>9

(* Prefixes survive an append. *)
LEMMA PrefixOfAppend ==
    ASSUME NEW S, NEW s \in Seq(S), NEW x \in S
    PROVE  /\ Append(s, x) \in Seq(S)
           /\ Len(Append(s, x)) = Len(s) + 1
           /\ \A i \in 1..Len(s) : Append(s, x)[i] = s[i]
           /\ Append(s, x)[Len(s) + 1] = x
           /\ \A i \in 1..(Len(s) + 1) : SubSeq(Append(s, x), 1, i - 1) = SubSeq(s, 1, i - 1)
           /\ SubSeq(s, 1, Len(s)) = s
<1>1. /\ Append(s, x) \in Seq(S) /\ Len(Append(s, x)) = Len(s) + 1
      /\ \A i \in 1..Len(s) : Append(s, x)[i] = s[i]
      /\ Append(s, x)[Len(s) + 1] = x
  OBVIOUS
<1>2. ASSUME NEW i \in 1..(Len(s) + 1)
      PROVE SubSeq(Append(s, x), 1, i - 1) = SubSeq(s, 1, i - 1)
  <2>1. Len(s) \in Nat
    OBVIOUS
  <2>2. \A j \in 1..(i - 1) : Append(s, x)[j] = s[j]
    BY <1>1, <2>1
  <2> QED
    BY <1>1, <2>1, <2>2
<1>3. SubSeq(s, 1, Len(s)) = s
  OBVIOUS
<1> QED
  BY <1>1, <1>2, <1>3

\* The turns of an extended log.
LEMMA ElementsOfAppend ==
    ASSUME NEW s \in Seq(Turns), NEW x \in Turns, NEW u \in Turns
    PROVE  (\E i \in DOMAIN Append(s, x) : Append(s, x)[i] = u)
             <=> (\E i \in DOMAIN s : s[i] = u) \/ u = x
<1>1. /\ DOMAIN Append(s, x) = 1..(Len(s) + 1) /\ DOMAIN s = 1..Len(s) /\ Len(s) \in Nat
      /\ \A i \in 1..Len(s) : Append(s, x)[i] = s[i]
      /\ Append(s, x)[Len(s) + 1] = x
  BY PrefixOfAppend
<1> QED
  BY <1>1

LEMMA CommitHistory ==
    ASSUME Typing, HistoryInv, NEW t \in Turns, NEW n \in Usages, Commits(t, n)
    PROVE  HistoryInv'
<1> USE DEF Typing, TypeOK, HistoryInv
<1>1. PICK c \in Conversations : c = Conv(t)
  BY RequestTypes DEF Commits, RequestKnown, Conv, Uncommitted
<1>2. /\ store[c] \in Conversation /\ session[t] \in Conversation
      /\ store[c].log \in Seq(Turns) /\ Len(store[c].log) \in Nat
      /\ store[c].revision \in Nat /\ store[c].spent \in Nat
      /\ store[c].revision = Len(store[c].log)
      /\ n \in Nat
  BY <1>1, UsagesAssumption DEF Conversation, StoreShape
<1>3. /\ session[t].revision = store[c].revision
      /\ session[t].log = store[c].log
      /\ session[t].spent = store[c].spent
      /\ store[c].scope \in {NoScope, session[t].scope}
      /\ session[t].scope = req[t].caller.groups
      /\ session[t].scope # NoScope
  <2>1. pc[t] \in Uncommitted /\ session[t].revision = store[c].revision
    BY <1>1 DEF Commits, Accepts
  <2>2. req[t] \in Requests
    BY <2>1 DEF RequestKnown, Uncommitted
  <2> QED
    BY <1>1, <2>1, <2>2, RequestTypes DEF SnapshotsFaithful
<1>4. PICK w :
        w = [log |-> Append(store[c].log, t),
             revision |-> store[c].revision + 1,
             spent |-> store[c].spent + n,
             scope |-> IF store[c].revision = 0 THEN session[t].scope ELSE store[c].scope]
  OBVIOUS
<1>5. /\ store'[c] = w
      /\ \A d \in Conversations : d # c => store'[d] = store[d]
  BY <1>1, <1>4 DEF Commits, Appended
<1>6. w.scope = session[t].scope
  BY <1>1, <1>2, <1>3, <1>4 DEF StoreShape
<1>7. /\ req' = req /\ session' = session
      /\ reply' = [reply EXCEPT ![t] = "kept"]
  BY DEF Commits
<1>8. PICK p \in {"done", "sendingDone"} : pc' = [pc EXCEPT ![t] = p]
  BY DEF Commits
<1>9. /\ Len(w.log) = store[c].revision + 1
      /\ \A i \in 1..Len(store[c].log) : w.log[i] = store[c].log[i]
      /\ w.log[Len(store[c].log) + 1] = t
      /\ DOMAIN w.log = 1..(Len(store[c].log) + 1)
      /\ DOMAIN store[c].log = 1..Len(store[c].log)
  BY <1>2, <1>4, PrefixOfAppend
<1>10. \A u \in Turns, d \in Conversations :
          InLog(u, d)' <=> InLog(u, d) \/ (d = c /\ u = t)
  <2>1. ASSUME NEW u \in Turns PROVE InLog(u, c)' <=> InLog(u, c) \/ u = t
    <3>1. PICK s \in Seq(Turns) : s = store[c].log
      BY <1>2
    <3>2. store'[c].log = Append(s, t)
      BY <1>4, <1>5, <3>1
    <3>3. (\E i \in DOMAIN Append(s, t) : Append(s, t)[i] = u)
             <=> (\E i \in DOMAIN s : s[i] = u) \/ u = t
      BY ElementsOfAppend
    <3> QED
      BY <3>1, <3>2, <3>3 DEF InLog
  <2>2. ASSUME NEW u \in Turns, NEW d \in Conversations, d # c
        PROVE  InLog(u, d)' <=> InLog(u, d)
    BY <1>5, <2>2 DEF InLog
  <2> QED
    BY <2>1, <2>2
<1>11. StoreShape'
  <2>1. w.revision = Len(w.log) /\ w.revision # 0 /\ w.scope # NoScope
    BY <1>2, <1>3, <1>4, <1>6, <1>9
  <2> QED
    BY <1>5, <2>1 DEF StoreShape
<1>12. SnapshotsFaithful'
  <2> SUFFICES ASSUME NEW u \in Turns, pc'[u] \in Uncommitted
               PROVE  (/\ session[u].scope = req[u].caller.groups
                       /\ Within(session[u].spent)
                       /\ session[u].revision <= store[Conv(u)].revision
                       /\ session[u].revision = store[Conv(u)].revision =>
                              /\ session[u].log = store[Conv(u)].log
                              /\ session[u].spent = store[Conv(u)].spent
                              /\ store[Conv(u)].scope \in {NoScope, session[u].scope})'
    BY DEF SnapshotsFaithful, Uncommitted
  <2>1. u # t /\ pc[u] \in Uncommitted
    BY <1>8 DEF Uncommitted
  <2>2. /\ session[u].scope = req[u].caller.groups
        /\ Within(session[u].spent)
        /\ session[u].revision <= store[Conv(u)].revision
        /\ session[u].revision = store[Conv(u)].revision =>
               /\ session[u].log = store[Conv(u)].log
               /\ session[u].spent = store[Conv(u)].spent
               /\ store[Conv(u)].scope \in {NoScope, session[u].scope}
    BY <2>1 DEF SnapshotsFaithful
  <2>3. Conv(u)' = Conv(u) /\ Conv(u) \in Conversations
    BY <1>7, <2>1, RequestTypes DEF Conv, RequestKnown, Uncommitted
  <2>4. CASE Conv(u) = c
    <3>1. session[u] \in Conversation /\ session[u].revision \in Nat
      BY DEF Conversation
    <3>2. session[u].revision <= w.revision /\ session[u].revision # w.revision
      BY <1>2, <1>4, <2>2, <2>4, <3>1
    <3> QED
      BY <1>5, <1>7, <2>2, <2>3, <2>4, <3>2 DEF Within
  <2>5. CASE Conv(u) # c
    BY <1>5, <1>7, <2>2, <2>3, <2>5 DEF Within
  <2> QED
    BY <2>4, <2>5
<1>13. RepliesInOrder'
  <2>1. \A u \in Turns : pc'[u] \in Early => reply'[u] = "none"
    BY <1>7, <1>8 DEF RepliesInOrder, Early, Uncommitted
  <2>2. ASSUME NEW u \in Turns, reply'[u] = "kept" PROVE InLog(u, Conv(u))'
    <3>1. CASE u = t
      <4>1. Conv(u)' = c
        BY <1>1, <1>7, <3>1 DEF Conv
      <4>2. InLog(u, c)'
        BY <1>10, <3>1
      <4> QED
        BY <4>1, <4>2 DEF InLog
    <3>2. CASE u # t
      <4>1. PICK d \in Conversations : d = Conv(u)
        BY <2>2, <1>7, <3>2, RequestTypes DEF RepliesInOrder, Early, RequestKnown, Conv
      <4>2. InLog(u, d) /\ Conv(u)' = d
        BY <1>7, <2>2, <3>2, <4>1 DEF RepliesInOrder, Conv
      <4>3. InLog(u, d)'
        BY <1>10, <4>2
      <4> QED
        BY <4>2, <4>3 DEF InLog
    <3> QED
      BY <3>1, <3>2
  <2> QED
    BY <2>1, <2>2 DEF RepliesInOrder
<1>14. EntriesCommitted'
  <2> SUFFICES ASSUME NEW d \in Conversations, NEW u \in Turns, InLog(u, d)'
               PROVE  (/\ reply[u] = "kept"
                       /\ Conv(u) = d
                       /\ req[u].caller.groups = store[d].scope)'
    BY DEF EntriesCommitted
  <2>1. CASE d = c /\ u = t
    BY <1>1, <1>3, <1>4, <1>5, <1>6, <1>7, <2>1 DEF Conv
  <2>2. CASE ~(d = c /\ u = t)
    <3>1. InLog(u, d)
      BY <1>10, <2>2
    <3>2. reply[u] = "kept" /\ Conv(u) = d /\ req[u].caller.groups = store[d].scope
      BY <3>1 DEF EntriesCommitted
    <3>3. store'[d].scope = store[d].scope
      <4>1. d = c => store[c].revision # 0
        BY <1>2, <1>9, <3>1 DEF InLog
      <4> QED
        BY <1>4, <1>5, <4>1
    <3> QED
      BY <1>7, <3>2, <3>3 DEF Conv
  <2> QED
    BY <2>1, <2>2
<1>15. CausalLog'
  <2> SUFFICES ASSUME NEW d \in Conversations, NEW i \in DOMAIN store'[d].log
               PROVE  session'[store'[d].log[i]].log = SubSeq(store'[d].log, 1, i - 1)
    BY DEF CausalLog
  <2>1. CASE d # c
    BY <1>5, <1>7, <2>1 DEF CausalLog
  <2>2. CASE d = c
    <3>1. i \in 1..(Len(store[c].log) + 1) /\ store'[d].log = Append(store[c].log, t)
      BY <1>4, <1>5, <1>9, <2>2
    <3>2. SubSeq(store'[d].log, 1, i - 1) = SubSeq(store[c].log, 1, i - 1)
      BY <1>2, <3>1, PrefixOfAppend
    <3>3. CASE i = Len(store[c].log) + 1
      <4>1. store'[d].log[i] = t /\ i - 1 = Len(store[c].log)
        BY <1>2, <1>5, <1>9, <2>2, <3>3
      <4>2. SubSeq(store[c].log, 1, Len(store[c].log)) = store[c].log
        BY <1>2, PrefixOfAppend
      <4> QED
        BY <1>3, <1>7, <3>2, <4>1, <4>2
    <3>4. CASE i # Len(store[c].log) + 1
      <4>1. i \in DOMAIN store[c].log /\ store'[d].log[i] = store[c].log[i]
        BY <1>2, <1>5, <1>9, <2>2, <3>1, <3>4
      <4> QED
        BY <1>7, <3>2, <4>1 DEF CausalLog
    <3> QED
      BY <3>3, <3>4
  <2> QED
    BY <2>1, <2>2
<1> QED
  BY <1>11, <1>12, <1>13, <1>14, <1>15

LEMMA InitHistory == Init => HistoryInv
<1> SUFFICES ASSUME Init PROVE HistoryInv
  OBVIOUS
<1>1. \A c \in Conversations :
          /\ store[c].log = <<>> /\ store[c].revision = 0
          /\ store[c].spent = 0 /\ store[c].scope = NoScope
  BY DEF Init, Absent
<1>2. \A t \in Turns : pc[t] = "new" /\ reply[t] = "none"
  BY DEF Init
<1>3. StoreShape
  BY <1>1 DEF StoreShape
<1>4. SnapshotsFaithful /\ RepliesInOrder
  BY <1>2 DEF SnapshotsFaithful, RepliesInOrder, Uncommitted
<1>5. EntriesCommitted /\ CausalLog
  BY <1>1 DEF EntriesCommitted, CausalLog, InLog
<1> QED
  BY <1>3, <1>4, <1>5 DEF HistoryInv

LEMMA StutterHistory == HistoryInv /\ UNCHANGED vars => HistoryInv'
  BY DEF HistoryInv, StoreShape, SnapshotsFaithful, RepliesInOrder, EntriesCommitted,
         CausalLog, InLog, Conv, Within, vars, turnVars

THEOREM HistoryHolds == Spec => []HistoryInv
<1>1. Typing /\ HistoryInv /\ [Next]_vars => HistoryInv'
  BY HistorySteps, QuietHistory, InferHistory, CommitHistory, StutterHistory DEF Next
<1> QED
  BY <1>1, InitHistory, TypesHold, PTL DEF Spec

(* CausalLog: on any number of replicas, the model had seen exactly the    *)
(* turns that precede its reply in the log.                                *)
THEOREM CausalHistory == Spec => []CausalLog
<1>1. HistoryInv => CausalLog
  BY DEF HistoryInv
<1> QED
  BY <1>1, HistoryHolds, PTL

(* ScopeIsolation: whoever wrote a turn of a conversation is of its tenant *)
(* and has the groups it was created under.                                *)
THEOREM ScopeIsIdentity == Spec => []ScopeIsolation
<1>1. ASSUME Typing, HistoryInv PROVE ScopeIsolation
  <2> SUFFICES ASSUME NEW c \in Conversations, NEW i \in DOMAIN store[c].log
               PROVE  /\ req[store[c].log[i]].caller.tenant = c[1]
                      /\ req[store[c].log[i]].caller.groups = store[c].scope
    BY DEF ScopeIsolation
  <2>1. PICK u \in Turns : u = store[c].log[i]
    BY <1>1 DEF Typing, TypeOK, Conversation
  <2>2. InLog(u, c)
    BY <2>1 DEF InLog
  <2>3. Conv(u) = c /\ req[u].caller.groups = store[c].scope
    BY <1>1, <2>2 DEF HistoryInv, EntriesCommitted
  <2>4. req[u].caller.tenant = c[1]
    BY <2>3 DEF Conv, ConversationOf
  <2> QED
    BY <2>1, <2>3, <2>4
<1> QED
  BY <1>1, TypesHold, HistoryHolds, PTL

-----------------------------------------------------------------------------
(* The services implement the append-only log. *)

LEMMA InitLog == Init => ConversationLog!LogInit
<1> SUFFICES ASSUME Init PROVE ConversationLog!LogInit
  OBVIOUS
<1>1. \A c \in Conversations :
          store[c].log = <<>> /\ store[c].spent = 0 /\ store[c].scope = NoScope
  BY DEF Init, Absent
<1>2. \A t \in Turns : reply[t] # "kept"
  BY DEF Init
<1> QED
  BY <1>1, <1>2 DEF ConversationLog!LogInit

(* Whatever is not an append leaves the abstract log as it is. *)
LEMMA QuietLog ==
    ASSUME Typing, HistoryInv, NEW t \in Turns, Quiet(t) \/ Infer(t)
    PROVE  UNCHANGED ConversationLog!logVars
<1>1. store' = store
  BY DEF Quiet, Infer
<1>2. ASSUME NEW u \in Turns
      PROVE  (IF reply'[u] = "kept" THEN session'[u].log ELSE <<>>)
               = (IF reply[u] = "kept" THEN session[u].log ELSE <<>>)
  <2>1. CASE Infer(t)
    <3>1. reply' = reply /\ session' = [session EXCEPT ![t] = Loaded(t)] /\ reply[t] = "none"
      BY <2>1 DEF Infer, HistoryInv, RepliesInOrder, Early
    <3> QED
      BY <3>1 DEF Typing, TypeOK
  <2>2. CASE Quiet(t)
    <3>1. session' = session
      BY <2>2 DEF Quiet
    <3>2. \/ reply' = reply
          \/ reply' = [reply EXCEPT ![t] = "discarded"] /\ pc[t] \in Uncommitted
      BY <2>2 DEF Quiet
    <3>3. pc[t] \in Uncommitted => reply[t] = "none"
      BY DEF HistoryInv, RepliesInOrder, Early
    <3> QED
      BY <3>1, <3>2, <3>3 DEF Typing, TypeOK
  <2> QED
    BY <2>1, <2>2
<1>3. [u \in Turns |-> IF reply'[u] = "kept" THEN session'[u].log ELSE <<>>]
        = [u \in Turns |-> IF reply[u] = "kept" THEN session[u].log ELSE <<>>]
  BY <1>2
<1> QED
  BY <1>1, <1>3 DEF ConversationLog!logVars

(* An append is a commit of the abstract log. *)
LEMMA CommitsLog ==
    ASSUME Typing, HistoryInv, NEW t \in Turns, NEW n \in Usages, Commits(t, n)
    PROVE  ConversationLog!LogNext
<1> USE DEF Typing, TypeOK
<1>1. PICK c \in Conversations : c = Conv(t)
  BY RequestTypes DEF Commits, RequestKnown, Conv, Uncommitted
<1>2. PICK s \in Scopes : s = session[t].scope
  <2>1. req[t] \in Requests
    BY DEF Commits, RequestKnown, Uncommitted
  <2> QED
    BY <2>1, RequestTypes DEF Commits, HistoryInv, SnapshotsFaithful
<1>3. /\ pc[t] \in Uncommitted /\ reply[t] = "none"
      /\ session[t].revision = store[c].revision
      /\ session[t].log = store[c].log
      /\ Within(store[c].spent)
      /\ store[c].scope \in {NoScope, s}
  BY <1>1, <1>2 DEF Commits, Accepts, HistoryInv, SnapshotsFaithful, RepliesInOrder, Early
<1>4. PICK w :
        w = [log |-> Append(store[c].log, t),
             revision |-> store[c].revision + 1,
             spent |-> store[c].spent + n,
             scope |-> IF store[c].revision = 0 THEN session[t].scope ELSE store[c].scope]
  OBVIOUS
<1>5. store' = [store EXCEPT ![c] = w]
  BY <1>1, <1>4 DEF Commits, Appended
<1>6. w.log = Append(store[c].log, t) /\ w.spent = store[c].spent + n /\ w.scope = s
  BY <1>1, <1>2, <1>3, <1>4 DEF HistoryInv, StoreShape
<1>7. session' = session /\ reply' = [reply EXCEPT ![t] = "kept"]
  BY DEF Commits
<1>8. \A d \in Conversations : \A i \in DOMAIN store[d].log : store[d].log[i] # t
  BY <1>3 DEF HistoryInv, EntriesCommitted, InLog
<1>9. [d \in Conversations |-> store'[d].log]
        = [[d \in Conversations |-> store[d].log] EXCEPT ![c] = Append(@, t)]
  BY <1>5, <1>6
<1>10. [d \in Conversations |-> store'[d].spent]
         = [[d \in Conversations |-> store[d].spent] EXCEPT ![c] = @ + n]
  BY <1>5, <1>6
<1>11. [d \in Conversations |-> store'[d].scope]
         = [[d \in Conversations |-> store[d].scope] EXCEPT ![c] = s]
  BY <1>5, <1>6
<1>12. [u \in Turns |-> IF reply'[u] = "kept" THEN session'[u].log ELSE <<>>]
         = [[u \in Turns |-> IF reply[u] = "kept" THEN session[u].log ELSE <<>>]
              EXCEPT ![t] = store[c].log]
  BY <1>3, <1>7
<1>13. ConversationLog!Commit(t, c, s, n)
  BY <1>3, <1>8, <1>9, <1>10, <1>11, <1>12 DEF ConversationLog!Commit
<1> QED
  BY <1>13 DEF ConversationLog!LogNext

(* ImplementsConversationLog: /chat, /chat/stream and /agent together are  *)
(* an append-only log whose turns happen at one instant, on any number of  *)
(* replicas.                                                               *)
THEOREM Refinement == Spec => ImplementsConversationLog
<1>1. Typing /\ HistoryInv /\ [Next]_vars => [ConversationLog!LogNext]_(ConversationLog!logVars)
  <2>1. UNCHANGED vars => UNCHANGED ConversationLog!logVars
    BY DEF vars, turnVars, ConversationLog!logVars
  <2> QED
    BY <2>1, HistorySteps, QuietLog, CommitsLog DEF Next
<1> QED
  BY <1>1, InitLog, TypesHold, HistoryHolds, PTL
     DEF Spec, ImplementsConversationLog, ConversationLog!LogSpec

-----------------------------------------------------------------------------
(* One lock registry: nobody infers on a stale snapshot. *)

SingleReplica == \A q, r \in Replicas : q = r

\* An issued id is nobody else's.
IssuedOnce ==
    \A t, u \in Turns :
        pc[t] # "new" /\ pc[u] # "new" /\ req[t].fresh /\ req[u].fresh
          /\ req[t].id = req[u].id => t = u

\* Until its first turn has loaded, an issued conversation stays empty.
DraftsUntouched ==
    \A t \in Turns : pc[t] \in {"acquiring", "loading"} /\ req[t].fresh =>
        /\ store[Conv(t)].revision = 0
        /\ \A u \in Turns : pc[u] \in Uncommitted => Conv(u) # Conv(t)

CurrentInv == IssuedOnce /\ DraftsUntouched /\ SnapshotStaysCurrent

(* With one registry, two turns inside one conversation are one turn. *)
LEMMA OneInside ==
    ASSUME SingleReplica, Typing, LockFollowsTurn, NEW t \in Turns, NEW u \in Turns,
           pc[t] \in Uncommitted, pc[u] \in Uncommitted, Conv(t) = Conv(u)
    PROVE  t = u
<1>1. req[t] \in Requests /\ req[u] \in Requests
  BY DEF Typing, RequestKnown, Uncommitted
<1>2. req[t].replica = req[u].replica
  BY <1>1 DEF Requests, SingleReplica
<1>3. Key(t) = Key(u) /\ Key(t) \in LockKeys
  BY <1>1, <1>2, RequestTypes DEF Key, LockKeyOf, Conv
<1>4. pc[t] \in Critical /\ pc[u] \in Critical
  BY DEF Uncommitted, Critical
<1>5. owner[Key(t)] = t /\ owner[Key(t)] = u
  BY <1>3, <1>4 DEF LockFollowsTurn
<1> QED
  BY <1>5

LEMMA ArriveCurrent ==
    ASSUME Typing, HistoryInv, CurrentInv, NEW t \in Turns, NEW r \in Requests, Arrive(t, r)
    PROVE  CurrentInv'
<1> USE DEF Typing, TypeOK
<1>1. /\ pc[t] = "new" /\ store' = store /\ session' = session
      /\ req' = [req EXCEPT ![t] = r] /\ pc' = [pc EXCEPT ![t] = "acquiring"]
      /\ r.fresh => IsFresh(r.id)
  BY DEF Arrive, Goto
<1>2. \A u \in Turns : u # t => req'[u] = req[u] /\ pc'[u] = pc[u]
  BY <1>1
<1>3. req'[t] = r /\ pc'[t] = "acquiring"
  BY <1>1
<1>4. ASSUME NEW u \in Turns, pc[u] # "new", r.fresh PROVE req[u].id # r.id
  BY <1>1, <1>4 DEF IsFresh
<1>5. IssuedOnce'
  BY <1>2, <1>3, <1>4, <1>1 DEF IssuedOnce, CurrentInv
<1>6. SnapshotStaysCurrent'
  BY <1>1, <1>2, <1>3 DEF SnapshotStaysCurrent, CurrentInv, Accepts, Conv, Uncommitted
<1>7. r.fresh => store[ConversationOf(r)].revision = 0
  <2> SUFFICES ASSUME r.fresh, store[ConversationOf(r)].revision # 0 PROVE FALSE
    OBVIOUS
  <2>1. PICK c \in Conversations : c = ConversationOf(r)
    BY RequestTypes
  <2>2. store[c].log \in Seq(Turns) /\ Len(store[c].log) # 0
    BY <2>1 DEF HistoryInv, StoreShape, Conversation
  <2>3. PICK u \in Turns : InLog(u, c)
    <3>1. 1 \in DOMAIN store[c].log /\ store[c].log[1] \in Turns
      BY <2>2
    <3> QED
      BY <3>1 DEF InLog
  <2>4. Conv(u) = c /\ pc[u] # "new"
    BY <2>3 DEF HistoryInv, EntriesCommitted, RepliesInOrder, Early
  <2>5. req[u].id = r.id
    BY <2>1, <2>4 DEF Conv, ConversationOf
  <2> QED
    BY <1>4, <2>4, <2>5
<1>8. DraftsUntouched'
  <2> SUFFICES ASSUME NEW v \in Turns, pc'[v] \in {"acquiring", "loading"}, req'[v].fresh
               PROVE  (/\ store[Conv(v)].revision = 0
                       /\ \A u \in Turns : pc[u] \in Uncommitted => Conv(u) # Conv(v))'
    BY DEF DraftsUntouched
  <2>1. CASE v = t
    <3>1. \A u \in Turns : pc[u] # "new" => Conv(u) # ConversationOf(r)
      BY <1>3, <1>4, <2>1 DEF Conv, ConversationOf
    <3> QED
      BY <1>1, <1>2, <1>3, <1>7, <2>1, <3>1 DEF Conv, Uncommitted
  <2>2. CASE v # t
    BY <1>1, <1>2, <1>3, <2>2 DEF Conv, Uncommitted, DraftsUntouched, CurrentInv
  <2> QED
    BY <2>1, <2>2
<1> QED
  BY <1>5, <1>6, <1>8 DEF CurrentInv

\* A step of a turn that has arrived and neither loads nor appends.
Onward(t) ==
    /\ UNCHANGED <<store, session>>
    /\ \/ UNCHANGED req
       \/ \E r \in Requests : ~r.fresh /\ pc[t] = "new" /\ req' = [req EXCEPT ![t] = r]
    /\ \E p \in Status \ {"new", "acquiring"} :
          /\ pc' = [pc EXCEPT ![t] = p]
          /\ p = "loading" => pc[t] = "acquiring"
          /\ p \in Uncommitted => pc[t] \in Uncommitted
          /\ p # "done" => UNCHANGED req
          /\ pc[t] = "new" => ~req'[t].fresh

LEMMA CurrentSteps ==
    ASSUME Typing, NEW t \in Turns, TurnStep(t) \/ Outside(t)
    PROVE  \/ \E r \in Requests : Arrive(t, r)
           \/ Onward(t)
           \/ Infer(t)
           \/ \E n \in Usages : Commits(t, n)
<1> USE DEF Goto, Tell, Finish, Unwind, Uncommitted, Critical, Status
<1>1. ASSUME NEW r \in Requests, RefuseTask(t, r) PROVE Onward(t)
  BY <1>1 DEF RefuseTask, Onward, Typing, TypeOK
<1>2. CASE Enter(t) \/ CancelAcquire(t)
  BY <1>2 DEF Enter, CancelAcquire, Onward
<1>3. CASE LoadFails(t) \/ Reject(t)
  BY <1>3 DEF LoadFails, Reject, Onward
<1>4. CASE ProviderFails(t) \/ ReplyNotStored(t) \/ ReplyDiscarded(t)
  BY <1>4 DEF ProviderFails, ReplyNotStored, ReplyDiscarded, Onward
<1>5. CASE CancelInference(t) \/ CancelStreaming(t) \/ StreamBreaks(t) \/ CloseStream(t)
  BY <1>5 DEF CancelInference, CancelStreaming, StreamBreaks, CloseStream, Onward
<1>6. CASE StreamOpens(t) \/ FirstPull(t) \/ NeverPulled(t) \/ Delta(t) \/ DeltaSent(t)
  BY <1>6 DEF StreamOpens, FirstPull, NeverPulled, Delta, DeltaSent, Onward
<1>7. CASE StopConsuming(t) \/ CloseObserver(t) \/ TerminalDiscarded(t)
  BY <1>7 DEF StopConsuming, CloseObserver, TerminalDiscarded, Onward
<1>8. ASSUME NEW n \in Usages, ReplyCommits(t, n) \/ TerminalCommits(t, n)
      PROVE \E m \in Usages : Commits(t, m)
  BY <1>8 DEF ReplyCommits, TerminalCommits, Commits
<1> HIDE DEF Goto, Tell, Finish, Unwind, Uncommitted, Critical, Status
<1> QED
  BY <1>1, <1>2, <1>3, <1>4, <1>5, <1>6, <1>7, <1>8 DEF TurnStep, Outside

LEMMA OnwardCurrent ==
    ASSUME Typing, CurrentInv, NEW t \in Turns, Onward(t)
    PROVE  CurrentInv'
<1> USE DEF Typing, TypeOK
<1>1. PICK p \in Status \ {"new", "acquiring"} :
          /\ pc' = [pc EXCEPT ![t] = p]
          /\ p = "loading" => pc[t] = "acquiring"
          /\ p \in Uncommitted => pc[t] \in Uncommitted
          /\ p # "done" => UNCHANGED req
          /\ pc[t] = "new" => ~req'[t].fresh
  BY DEF Onward
<1>2. store' = store /\ session' = session
  BY DEF Onward
<1>3. \A u \in Turns : u # t => req'[u] = req[u] /\ pc'[u] = pc[u]
  BY <1>1 DEF Onward
<1>4. pc[t] # "new" => req'[t] = req[t]
  BY DEF Onward
<1>5. pc'[t] = p
  BY <1>1
<1>6. IssuedOnce'
  BY <1>1, <1>3, <1>4, <1>5 DEF IssuedOnce, CurrentInv
<1>7. \A u \in Turns : pc'[u] \in Uncommitted => pc[u] \in Uncommitted /\ req'[u] = req[u]
  BY <1>1, <1>3, <1>4, <1>5 DEF Uncommitted
<1>8. SnapshotStaysCurrent'
  BY <1>2, <1>7 DEF SnapshotStaysCurrent, CurrentInv, Accepts, Conv
<1>9. \A u \in Turns : pc'[u] \in {"acquiring", "loading"} =>
          pc[u] \in {"acquiring", "loading"} /\ req'[u] = req[u]
  BY <1>1, <1>3, <1>4, <1>5
<1>10. DraftsUntouched'
  BY <1>2, <1>7, <1>9 DEF DraftsUntouched, CurrentInv, Conv
<1> QED
  BY <1>6, <1>8, <1>10 DEF CurrentInv

LEMMA InferCurrent ==
    ASSUME Typing, CurrentInv, NEW t \in Turns, Infer(t)
    PROVE  CurrentInv'
<1> USE DEF Typing, TypeOK
<1>1. /\ store' = store /\ req' = req /\ pc[t] = "loading"
      /\ session' = [session EXCEPT ![t] = Loaded(t)]
      /\ pc' = [pc EXCEPT ![t] = "inference"]
      /\ ~NotFound(t)
  BY DEF Infer, Goto
<1>2. \A u \in Turns : u # t => pc'[u] = pc[u] /\ session'[u] = session[u]
  BY <1>1
<1>3. pc'[t] = "inference" /\ session'[t] = Loaded(t)
  BY <1>1
<1>4. Loaded(t).revision = store[Conv(t)].revision
  <2>1. CASE req[t].fresh
    BY <1>1, <2>1 DEF Loaded, Draft, Absent, DraftsUntouched, CurrentInv
  <2>2. CASE ~req[t].fresh
    BY <2>2 DEF Loaded
  <2> QED
    BY <2>1, <2>2
<1>5. IssuedOnce'
  BY <1>1, <1>2, <1>3 DEF IssuedOnce, CurrentInv
<1>6. SnapshotStaysCurrent'
  BY <1>1, <1>2, <1>3, <1>4 DEF SnapshotStaysCurrent, CurrentInv, Accepts, Conv, Uncommitted
<1>7. ASSUME NEW v \in Turns, pc[v] \in {"acquiring", "loading"}, req[v].fresh, v # t
      PROVE  Conv(t) # Conv(v)
  <2>1. CASE req[t].fresh
    <3>1. req[t].id # req[v].id
      BY <1>1, <1>7, <2>1 DEF IssuedOnce, CurrentInv
    <3> QED
      BY <3>1 DEF Conv, ConversationOf
  <2>2. CASE ~req[t].fresh
    <3>1. store[Conv(t)].revision # 0
      BY <1>1, <2>2 DEF NotFound
    <3> QED
      BY <1>7, <3>1 DEF DraftsUntouched, CurrentInv
  <2> QED
    BY <2>1, <2>2
<1>8. DraftsUntouched'
  BY <1>1, <1>2, <1>3, <1>7 DEF DraftsUntouched, CurrentInv, Conv, Uncommitted
<1> QED
  BY <1>5, <1>6, <1>8 DEF CurrentInv

LEMMA CommitCurrent ==
    ASSUME SingleReplica, Typing, LockFollowsTurn, CurrentInv,
           NEW t \in Turns, NEW n \in Usages, Commits(t, n)
    PROVE  CurrentInv'
<1> USE DEF Typing, TypeOK
<1>1. PICK p \in {"done", "sendingDone"} : pc' = [pc EXCEPT ![t] = p]
  BY DEF Commits
<1>2. req' = req /\ session' = session /\ pc[t] \in Uncommitted
  BY DEF Commits
<1>3. PICK w : store' = [store EXCEPT ![Conv(t)] = w]
  BY DEF Commits, Appended
<1>4. \A c \in Conversations : c # Conv(t) => store'[c] = store[c]
  BY <1>3
<1>5. \A u \in Turns : pc'[u] \in Uncommitted => u # t /\ pc[u] \in Uncommitted
  BY <1>1 DEF Uncommitted
<1>6. \A u \in Turns : pc'[u] \in {"acquiring", "loading"} => u # t /\ pc'[u] = pc[u]
  BY <1>1
<1>7. IssuedOnce'
  BY <1>1, <1>2 DEF IssuedOnce, CurrentInv, Uncommitted
<1>8. \A u \in Turns : pc[u] # "new" => Conv(u) \in Conversations
  BY RequestTypes DEF RequestKnown, Conv
<1>9. SnapshotStaysCurrent'
  <2> SUFFICES ASSUME NEW u \in Turns, pc'[u] \in Uncommitted
               PROVE  Accepts(Conv(u), session[u].revision)'
    BY DEF SnapshotStaysCurrent, Uncommitted
  <2>1. u # t /\ pc[u] \in Uncommitted /\ Accepts(Conv(u), session[u].revision)
    BY <1>5 DEF SnapshotStaysCurrent, CurrentInv
  <2>2. Conv(u) # Conv(t)
    BY <1>2, <2>1, OneInside
  <2>3. store'[Conv(u)] = store[Conv(u)]
    BY <1>4, <1>8, <2>1, <2>2 DEF Uncommitted
  <2> QED
    BY <1>2, <2>1, <2>3 DEF Accepts, Conv
<1>10. DraftsUntouched'
  <2> SUFFICES ASSUME NEW v \in Turns, pc'[v] \in {"acquiring", "loading"}, req'[v].fresh
               PROVE  (/\ store[Conv(v)].revision = 0
                       /\ \A u \in Turns : pc[u] \in Uncommitted => Conv(u) # Conv(v))'
    BY DEF DraftsUntouched
  <2>1. /\ store[Conv(v)].revision = 0
        /\ \A u \in Turns : pc[u] \in Uncommitted => Conv(u) # Conv(v)
    BY <1>2, <1>6 DEF DraftsUntouched, CurrentInv
  <2>2. store'[Conv(v)] = store[Conv(v)]
    BY <1>2, <1>4, <1>6, <1>8, <2>1
  <2> QED
    BY <1>2, <1>5, <2>1, <2>2 DEF Conv
<1> QED
  BY <1>7, <1>9, <1>10 DEF CurrentInv

(* SnapshotStaysCurrent: with one lock registry for all endpoints no turn  *)
(* ever infers or commits on a stale snapshot of its conversation.         *)
THEOREM SnapshotsStayCurrent ==
    ASSUME SingleReplica
    PROVE  Spec => []SnapshotStaysCurrent
<1>1. Init => CurrentInv
  BY DEF Init, CurrentInv, IssuedOnce, DraftsUntouched, SnapshotStaysCurrent, Uncommitted
<1>2. CurrentInv /\ UNCHANGED vars => CurrentInv'
  BY DEF CurrentInv, IssuedOnce, DraftsUntouched, SnapshotStaysCurrent, Accepts, Conv,
         vars, turnVars
<1>3. Typing /\ LockFollowsTurn /\ HistoryInv /\ CurrentInv /\ [Next]_vars => CurrentInv'
  BY <1>2, CurrentSteps, ArriveCurrent, OnwardCurrent, InferCurrent, CommitCurrent DEF Next
<1>4. CurrentInv => SnapshotStaysCurrent
  BY DEF CurrentInv
<1> QED
  BY <1>1, <1>3, <1>4, TypesHold, LockFollowsTurns, HistoryHolds, PTL DEF Spec

-----------------------------------------------------------------------------
(* What the client is told. *)

AnswerInv ==
    \A t \in Turns :
        /\ told[t] \in {"error", "reply"} => pc[t] = "done"
        /\ told[t] = "error" => reply[t] # "kept"
        /\ told[t] \in {"done", "reply"} => reply[t] # "none"
        /\ pc[t] \in {"new", "acquiring", "loading", "inference"} => told[t] = "nothing"
        /\ pc[t] \in {"opened", "streaming", "sending"} => told[t] = "headers"

LEMMA FinishAnswer ==
    ASSUME Typing, AnswerInv, RepliesInOrder, NEW t \in Turns, pc[t] \in Early,
           NEW o, NEW a, NEW b, NEW w \in {"error", "headers"}, Finish(t, o, a, b, w),
           UNCHANGED reply
    PROVE  AnswerInv'
<1>1. /\ pc' = [pc EXCEPT ![t] = "done"] /\ told' = [told EXCEPT ![t] = w] /\ reply' = reply
  BY DEF Finish, Goto, Tell
<1>2. reply[t] = "none"
  BY DEF RepliesInOrder
<1> QED
  BY <1>1, <1>2 DEF AnswerInv, Typing, TypeOK

LEMMA StepAnswer ==
    ASSUME Typing, AnswerInv, RepliesInOrder, NEW t \in Turns, TurnStep(t) \/ Outside(t)
    PROVE  AnswerInv'
<1> USE DEF Goto, Tell, AnswerInv, Typing, TypeOK
<1>1. ASSUME NEW r \in Requests, Arrive(t, r) PROVE AnswerInv'
  BY <1>1 DEF Arrive
<1>2. ASSUME NEW r \in Requests, RefuseTask(t, r) PROVE AnswerInv'
  BY <1>2 DEF RefuseTask, RepliesInOrder, Early
<1>3. CASE Enter(t) \/ CancelAcquire(t)
  BY <1>3 DEF Enter, CancelAcquire
<1>4. CASE LoadFails(t) \/ Reject(t)
  BY <1>4, FinishAnswer DEF LoadFails, Reject, Early
<1>5. CASE ProviderFails(t) \/ ReplyNotStored(t)
  BY <1>5, FinishAnswer DEF ProviderFails, ReplyNotStored, Early, Uncommitted
<1>6. CASE StreamBreaks(t)
  BY <1>6, FinishAnswer DEF StreamBreaks, Early, Uncommitted
<1>7. CASE CancelStreaming(t)
  <2>1. told[t] = "headers"
    BY <1>7 DEF CancelStreaming
  <2>2. Finish(t, "error", TRUE, FALSE, "headers") /\ UNCHANGED reply /\ pc[t] \in Early
    BY <1>7, <2>1 DEF CancelStreaming, Early, Uncommitted
  <2> QED
    BY <2>2, FinishAnswer
<1>8. CASE ReplyDiscarded(t)
  BY <1>8 DEF ReplyDiscarded, Finish
<1>9. ASSUME NEW n \in Usages, ReplyCommits(t, n) PROVE AnswerInv'
  BY <1>9 DEF ReplyCommits, Finish
<1>10. ASSUME NEW n \in Usages, TerminalCommits(t, n) PROVE AnswerInv'
  BY <1>10 DEF TerminalCommits
<1>11. CASE TerminalDiscarded(t)
  BY <1>11 DEF TerminalDiscarded
<1>12. CASE CancelInference(t) \/ CloseStream(t)
  BY <1>12 DEF CancelInference, CloseStream, Unwind
<1>13. CASE Infer(t) \/ StreamOpens(t) \/ FirstPull(t) \/ NeverPulled(t) \/ Delta(t) \/ DeltaSent(t)
  BY <1>13 DEF Infer, StreamOpens, FirstPull, NeverPulled, Delta, DeltaSent
<1>14. CASE StopConsuming(t) \/ CloseObserver(t)
  BY <1>14, ZenonT(60) DEF StopConsuming, CloseObserver
<1> HIDE DEF Goto, Tell, AnswerInv, Typing, TypeOK
<1> QED
  BY <1>1, <1>2, <1>3, <1>4, <1>5, <1>6, <1>7, <1>8, <1>9, <1>10, <1>11, <1>12, <1>13, <1>14
     DEF TurnStep, Outside

(* AnswersMatchHistory: a client shown message.done or a reply to keep     *)
(* finds the turn in the history, an error means it left no trace.         *)
THEOREM AnswersTellTheTruth == Spec => []AnswersMatchHistory
<1>1. Init => AnswerInv
  BY DEF Init, AnswerInv
<1>2. AnswerInv /\ UNCHANGED vars => AnswerInv'
  BY DEF AnswerInv, vars, turnVars
<1>3. HistoryInv => RepliesInOrder
  BY DEF HistoryInv
<1>4. Typing /\ HistoryInv /\ AnswerInv /\ [Next]_vars => AnswerInv'
  BY <1>2, <1>3, StepAnswer DEF Next
<1>5. ASSUME Typing, HistoryInv, AnswerInv PROVE AnswersMatchHistory
  <2>1. ASSUME NEW t \in Turns PROVE Committed(t) <=> reply[t] = "kept"
    <3>1. ASSUME Committed(t) PROVE reply[t] = "kept"
      BY <1>5, <3>1 DEF Committed, HistoryInv, EntriesCommitted
    <3>2. ASSUME reply[t] = "kept" PROVE Committed(t)
      <4>1. pc[t] # "new" /\ InLog(t, Conv(t))
        BY <1>5, <3>2 DEF HistoryInv, RepliesInOrder, Early
      <4>2. Conv(t) \in Conversations
        BY <1>5, <4>1, RequestTypes DEF Typing, RequestKnown, Conv
      <4> QED
        BY <4>1, <4>2 DEF Committed
    <3> QED
      BY <3>1, <3>2
  <2> QED
    BY <1>5, <2>1 DEF AnswersMatchHistory, AnswerInv
<1> QED
  BY <1>1, <1>4, <1>5, TypesHold, HistoryHolds, PTL DEF Spec

-----------------------------------------------------------------------------
(* The budget. *)

LEMMA UsageSteps ==
    ASSUME NEW t \in Turns, TurnStep(t) \/ Outside(t)
    PROVE  UNCHANGED <<store, usage>> \/ \E n \in Usages : Commits(t, n)
<1> USE DEF Finish, Unwind, Commits, Uncommitted, Goto, Tell
<1>1. CASE \E r \in Requests : Arrive(t, r) \/ RefuseTask(t, r)
  BY <1>1 DEF Arrive, RefuseTask
<1>2. CASE Enter(t) \/ CancelAcquire(t) \/ LoadFails(t) \/ Reject(t) \/ Infer(t)
  BY <1>2 DEF Enter, CancelAcquire, LoadFails, Reject, Infer
<1>3. CASE ProviderFails(t) \/ ReplyNotStored(t) \/ ReplyDiscarded(t)
  BY <1>3 DEF ProviderFails, ReplyNotStored, ReplyDiscarded
<1>4. CASE CancelInference(t) \/ CancelStreaming(t) \/ StreamBreaks(t) \/ CloseStream(t)
  BY <1>4 DEF CancelInference, CancelStreaming, StreamBreaks, CloseStream
<1>5. CASE StreamOpens(t) \/ FirstPull(t) \/ NeverPulled(t) \/ Delta(t) \/ DeltaSent(t)
  BY <1>5 DEF StreamOpens, FirstPull, NeverPulled, Delta, DeltaSent
<1>6. CASE StopConsuming(t) \/ CloseObserver(t) \/ TerminalDiscarded(t)
  BY <1>6 DEF StopConsuming, CloseObserver, TerminalDiscarded
<1>7. ASSUME NEW n \in Usages, ReplyCommits(t, n) \/ TerminalCommits(t, n)
      PROVE  \E m \in Usages : Commits(t, m)
  BY <1>7 DEF ReplyCommits, TerminalCommits
<1> HIDE DEF Finish, Unwind, Commits, Uncommitted, Goto, Tell
<1> QED
  BY <1>1, <1>2, <1>3, <1>4, <1>5, <1>6, <1>7 DEF TurnStep, Outside

LEMMA CommitBudget ==
    ASSUME Typing, HistoryInv, BudgetOvershootsByOneTurn,
           NEW t \in Turns, NEW n \in Usages, Commits(t, n)
    PROVE  BudgetOvershootsByOneTurn'
<1>1. pc[t] \in Uncommitted /\ pc[t] # "new"
  BY DEF Commits, Uncommitted
<1>2. Conv(t) \in Conversations
  BY <1>1, RequestTypes DEF Typing, RequestKnown, Conv
<1>3. /\ session[t].revision = store[Conv(t)].revision
      /\ usage' = [usage EXCEPT ![t] = n]
  BY DEF Commits, Accepts
<1>4. Within(store[Conv(t)].spent)
  BY <1>1, <1>3 DEF HistoryInv, SnapshotsFaithful
<1>5. store[Conv(t)] \in Conversation /\ n \in Nat
  BY <1>2, UsagesAssumption DEF Typing, TypeOK
<1>6. store[Conv(t)].log \in Seq(Turns) /\ store[Conv(t)].spent \in Nat
  BY <1>5 DEF Conversation
<1>7. /\ store'[Conv(t)].log = Append(store[Conv(t)].log, t)
      /\ store'[Conv(t)].spent = store[Conv(t)].spent + n
      /\ \A c \in Conversations : c # Conv(t) => store'[c] = store[c]
  BY <1>2 DEF Commits, Appended, Typing, TypeOK
<1> SUFFICES ASSUME NEW c \in Conversations, Budget # NoBudget, store'[c].log # <<>>
             PROVE  store'[c].spent - usage'[store'[c].log[Len(store'[c].log)]] < Budget
  BY DEF BudgetOvershootsByOneTurn
<1>8. CASE c = Conv(t)
  <2>1. store'[c].log[Len(store'[c].log)] = t
    BY <1>6, <1>7, <1>8
  <2>2. usage'[t] = n
    BY <1>3 DEF Typing, TypeOK
  <2>3. store'[c].spent - n = store[c].spent
    BY <1>5, <1>6, <1>7, <1>8
  <2>4. store[c].spent < Budget
    BY <1>4, <1>8 DEF Within
  <2> QED
    BY <2>1, <2>2, <2>3, <2>4
<1>9. CASE c # Conv(t)
  <2> DEFINE u == store[c].log[Len(store[c].log)]
  <2>1. store'[c] = store[c] /\ store[c].log \in Seq(Turns)
    BY <1>7, <1>9 DEF Typing, TypeOK, Conversation
  <2>2. Len(store[c].log) \in DOMAIN store[c].log /\ u \in Turns
    BY <2>1
  <2>3. Conv(u) = c
    BY <2>2 DEF InLog, HistoryInv, EntriesCommitted
  <2>4. usage'[u] = usage[u]
    BY <1>3, <1>9, <2>2, <2>3 DEF Typing, TypeOK
  <2> QED
    BY <2>1, <2>4 DEF BudgetOvershootsByOneTurn
<1> QED
  BY <1>8, <1>9

(* BudgetOvershootsByOneTurn: a turn that is appended was admitted below   *)
(* the line, and what it was admitted on is what it is appended to, also   *)
(* with several replicas (_check_budget and the conditional append).       *)
THEOREM BudgetIsOvershotOnce == Spec => []BudgetOvershootsByOneTurn
<1>1. Init => BudgetOvershootsByOneTurn
  BY DEF Init, Absent, BudgetOvershootsByOneTurn
<1>2. BudgetOvershootsByOneTurn /\ UNCHANGED <<store, usage>> => BudgetOvershootsByOneTurn'
  BY DEF BudgetOvershootsByOneTurn
<1>3. Typing /\ HistoryInv /\ BudgetOvershootsByOneTurn /\ [Next]_vars => BudgetOvershootsByOneTurn'
  BY <1>2, UsageSteps, CommitBudget DEF Next, vars, turnVars
<1> QED
  BY <1>1, <1>3, TypesHold, HistoryHolds, PTL DEF Spec

-----------------------------------------------------------------------------
(* The audit log. *)

\* An event that says what became of the turn.
IsTrue(t, event) ==
    /\ event.committed <=> reply[t] = "kept"
    /\ event.outcome = "success" <=> reply[t] # "none"
    /\ event.attempted <=> session[t] # Absent

AuditInv ==
    \A t \in Turns :
        /\ pc[t] \in {"new", "acquiring", "loading"} => session[t] = Absent
        /\ pc[t] \in Critical \ {"loading"} => session[t] # Absent
        /\ pc[t] \notin {"closing", "done"} => audit[t] = <<>>
        /\ pc[t] = "closing" => Len(audit[t]) = 1
        /\ pc[t] = "done" /\ told[t] # "nothing" => Len(audit[t]) = 1
        /\ Len(audit[t]) <= 1
        /\ \A i \in DOMAIN audit[t] : IsTrue(t, audit[t][i])

LEMMA OneEvent ==
    ASSUME Typing, NEW t \in Turns, audit[t] = <<>>, NEW o, NEW a, NEW b, Emit(t, o, a, b)
    PROVE  /\ Len(audit'[t]) = 1 /\ DOMAIN audit'[t] = {1}
           /\ audit'[t][1] = [outcome |-> o, attempted |-> a, committed |-> b]
           /\ \A u \in Turns : u # t => audit'[u] = audit[u]
<1>1. audit' = [audit EXCEPT ![t] = Append(<<>>, [outcome |-> o, attempted |-> a, committed |-> b])]
  BY DEF Emit
<1>2. audit'[t] = <<[outcome |-> o, attempted |-> a, committed |-> b]>>
  BY <1>1 DEF Typing, TypeOK
<1> QED
  BY <1>1, <1>2 DEF Typing, TypeOK

\* The turn ends, or its observer is closed, with an event that is true.
LEMMA EmittedAudit ==
    ASSUME Typing, AuditInv, NEW t \in Turns, audit[t] = <<>>,
           NEW o, NEW a \in BOOLEAN, NEW b \in BOOLEAN, Emit(t, o, a, b),
           NEW p \in {"done", "closing"}, pc' = [pc EXCEPT ![t] = p],
           p = "closing" => pc[t] = "abandoned",
           NEW w, told' = [told EXCEPT ![t] = w],
           session' = session,
           NEW v, reply' = [reply EXCEPT ![t] = v],
           b <=> v = "kept", o = "success" <=> v # "none", a <=> session[t] # Absent
    PROVE  AuditInv'
<1>1. /\ Len(audit'[t]) = 1 /\ DOMAIN audit'[t] = {1}
      /\ audit'[t][1] = [outcome |-> o, attempted |-> a, committed |-> b]
      /\ \A u \in Turns : u # t => audit'[u] = audit[u]
  BY OneEvent
<1>2. /\ pc'[t] = p /\ told'[t] = w /\ reply'[t] = v
      /\ \A u \in Turns : u # t => pc'[u] = pc[u] /\ told'[u] = told[u] /\ reply'[u] = reply[u]
  BY DEF Typing, TypeOK
<1>3. /\ audit'[t][1].committed <=> reply'[t] = "kept"
      /\ audit'[t][1].outcome = "success" <=> reply'[t] # "none"
      /\ audit'[t][1].attempted <=> session'[t] # Absent
  BY <1>1, <1>2
<1> SUFFICES ASSUME NEW u \in Turns
             PROVE  (/\ pc[u] \in {"new", "acquiring", "loading"} => session[u] = Absent
                     /\ pc[u] \in Critical \ {"loading"} => session[u] # Absent
                     /\ pc[u] \notin {"closing", "done"} => audit[u] = <<>>
                     /\ pc[u] = "closing" => Len(audit[u]) = 1
                     /\ pc[u] = "done" /\ told[u] # "nothing" => Len(audit[u]) = 1
                     /\ Len(audit[u]) <= 1
                     /\ \A i \in DOMAIN audit[u] : IsTrue(u, audit[u][i]))'
  BY DEF AuditInv
<1>4. CASE u = t
  <2>1. p = "closing" => session[t] # Absent
    BY DEF AuditInv, Critical
  <2>2. (\A i \in DOMAIN audit[t] : IsTrue(t, audit[t][i]))'
    BY <1>1, <1>3 DEF IsTrue
  <2>3. pc'[u] = p /\ session'[u] = session[t] /\ Len(audit'[u]) = 1
    BY <1>1, <1>2, <1>4
  <2>4. /\ pc'[u] \in {"new", "acquiring", "loading"} => session'[u] = Absent
        /\ pc'[u] \in Critical \ {"loading"} => session'[u] # Absent
    BY <2>1, <2>3 DEF Critical
  <2>5. /\ pc'[u] \notin {"closing", "done"} => audit'[u] = <<>>
        /\ Len(audit'[u]) <= 1
    BY <2>3
  <2> QED
    BY <1>4, <2>2, <2>3, <2>4, <2>5 DEF IsTrue
<1>5. CASE u # t
  BY <1>1, <1>2, <1>5 DEF AuditInv, IsTrue
<1> QED
  BY <1>4, <1>5

\* A step that emits nothing.
LEMMA SilentAudit ==
    ASSUME Typing, AuditInv, NEW t \in Turns,
           UNCHANGED <<session, audit>>, pc[t] # "done",
           NEW p \in Status \ {"new", "closing"}, pc' = [pc EXCEPT ![t] = p],
           p \in {"acquiring", "loading"} => pc[t] \in {"new", "acquiring"},
           p \in Critical \ {"loading"} => pc[t] \in Critical \ {"loading", "closing"},
           p = "done" => UNCHANGED told /\ (pc[t] = "closing" \/ told[t] = "nothing"),
           \A u \in Turns : u # t => told'[u] = told[u] /\ reply'[u] = reply[u],
           UNCHANGED reply \/ audit[t] = <<>>
    PROVE  AuditInv'
<1>1. pc'[t] = p /\ \A u \in Turns : u # t => pc'[u] = pc[u]
  BY DEF Typing, TypeOK
<1>2. session' = session /\ audit' = audit
  OBVIOUS
<1>3. pc[t] \in Status
  BY DEF Typing, TypeOK
<1> SUFFICES ASSUME NEW u \in Turns
             PROVE  (/\ pc[u] \in {"new", "acquiring", "loading"} => session[u] = Absent
                     /\ pc[u] \in Critical \ {"loading"} => session[u] # Absent
                     /\ pc[u] \notin {"closing", "done"} => audit[u] = <<>>
                     /\ pc[u] = "closing" => Len(audit[u]) = 1
                     /\ pc[u] = "done" /\ told[u] # "nothing" => Len(audit[u]) = 1
                     /\ Len(audit[u]) <= 1
                     /\ \A i \in DOMAIN audit[u] : IsTrue(u, audit[u][i]))'
  BY DEF AuditInv
<1>4. CASE u = t
  <2>1. /\ pc'[t] \in {"new", "acquiring", "loading"} => session[t] = Absent
        /\ pc'[t] \in Critical \ {"loading"} => session[t] # Absent
    BY <1>1, <1>3 DEF AuditInv, Status, Critical
  <2>2. /\ pc'[t] \notin {"closing", "done"} => audit[t] = <<>>
        /\ pc'[t] = "closing" => Len(audit[t]) = 1
        /\ Len(audit[t]) <= 1
    BY <1>1, <1>3 DEF AuditInv, Status, Critical
  <2>3. pc'[t] = "done" /\ told'[t] # "nothing" => Len(audit[t]) = 1
    BY <1>1 DEF AuditInv
  <2>4. (\A i \in DOMAIN audit[t] : IsTrue(t, audit[t][i]))'
    <3>1. CASE UNCHANGED reply
      BY <1>2, <3>1 DEF AuditInv, IsTrue
    <3>2. CASE audit[t] = <<>>
      BY <1>2, <3>2
    <3> QED
      BY <3>1, <3>2
  <2> QED
    BY <1>2, <1>4, <2>1, <2>2, <2>3, <2>4 DEF IsTrue
<1>5. CASE u # t
  BY <1>1, <1>2, <1>5 DEF AuditInv, IsTrue
<1> QED
  BY <1>4, <1>5

LEMMA InferAudit ==
    ASSUME Typing, AuditInv, NEW t \in Turns, Infer(t)
    PROVE  AuditInv'
<1>1. /\ pc[t] = "loading" /\ pc' = [pc EXCEPT ![t] = "inference"]
      /\ session' = [session EXCEPT ![t] = Loaded(t)]
      /\ UNCHANGED <<reply, told, audit>>
      /\ ~NotFound(t)
  BY DEF Infer, Goto
<1>2. /\ pc'[t] = "inference" /\ session'[t] = Loaded(t)
      /\ \A u \in Turns : u # t => pc'[u] = pc[u] /\ session'[u] = session[u]
  BY <1>1 DEF Typing, TypeOK
<1>3. Loaded(t) # Absent
  <2>1. CASE req[t].fresh
    <3>1. req[t].caller.groups # NoScope
      BY <1>1, RequestTypes DEF Typing, RequestKnown
    <3>2. Loaded(t).scope = req[t].caller.groups /\ Absent.scope = NoScope
      BY <2>1 DEF Loaded, Draft, Absent
    <3> QED
      BY <3>1, <3>2
  <2>2. CASE ~req[t].fresh
    <3>1. Loaded(t).revision # 0 /\ Absent.revision = 0
      BY <1>1, <2>2 DEF Loaded, NotFound, Absent
    <3> QED
      BY <3>1
  <2> QED
    BY <2>1, <2>2
<1>4. audit[t] = <<>> /\ audit' = audit /\ told' = told /\ reply' = reply
  BY <1>1 DEF AuditInv
<1> SUFFICES ASSUME NEW u \in Turns
             PROVE  (/\ pc[u] \in {"new", "acquiring", "loading"} => session[u] = Absent
                     /\ pc[u] \in Critical \ {"loading"} => session[u] # Absent
                     /\ pc[u] \notin {"closing", "done"} => audit[u] = <<>>
                     /\ pc[u] = "closing" => Len(audit[u]) = 1
                     /\ pc[u] = "done" /\ told[u] # "nothing" => Len(audit[u]) = 1
                     /\ Len(audit[u]) <= 1
                     /\ \A i \in DOMAIN audit[u] : IsTrue(u, audit[u][i]))'
  BY DEF AuditInv
<1>5. CASE u = t
  BY <1>2, <1>3, <1>4, <1>5 DEF Critical
<1>6. CASE u # t
  BY <1>2, <1>4, <1>6 DEF AuditInv, IsTrue
<1> QED
  BY <1>5, <1>6

(* The same for a turn that ends without a reply: a refusal, a failure.    *)
LEMMA FailureAudit ==
    ASSUME Typing, AuditInv, NEW t \in Turns, audit[t] = <<>>, reply[t] = "none",
           NEW o \in {"error", "rejected"}, NEW a \in BOOLEAN, Emit(t, o, a, FALSE),
           NEW p \in {"done", "closing"}, pc' = [pc EXCEPT ![t] = p],
           p = "closing" => pc[t] = "abandoned",
           NEW w, told' = [told EXCEPT ![t] = w],
           session' = session, reply' = reply, a <=> session[t] # Absent
    PROVE  AuditInv'
<1>1. reply' = [reply EXCEPT ![t] = "none"]
  BY DEF Typing, TypeOK
<1>2. (FALSE <=> "none" = "kept") /\ (o = "success" <=> "none" # "none") /\ FALSE \in BOOLEAN
  OBVIOUS
<1> QED
  BY <1>1, <1>2, EmittedAudit

LEMMA StepAudit ==
    ASSUME Typing, RepliesInOrder, AnswerInv, AuditInv, NEW t \in Turns, TurnStep(t) \/ Outside(t)
    PROVE  AuditInv'
<1> USE DEF Goto, Tell
<1>1. /\ pc[t] \notin {"closing", "done"} => audit[t] = <<>>
      /\ pc[t] \in Early => reply[t] = "none"
      /\ pc[t] \in {"new", "acquiring", "loading"} => session[t] = Absent
      /\ pc[t] \in Critical \ {"loading"} => session[t] # Absent
      /\ pc[t] \in {"new", "acquiring", "loading", "inference"} => told[t] = "nothing"
      /\ reply = [reply EXCEPT ![t] = reply[t]]
  BY DEF AuditInv, AnswerInv, RepliesInOrder, Typing, TypeOK
<1>2. ASSUME NEW r \in Requests, Arrive(t, r) PROVE AuditInv'
  BY <1>1, <1>2, SilentAudit DEF Arrive, Status, Critical
<1>3. ASSUME NEW r \in Requests, RefuseTask(t, r) PROVE AuditInv'
  <2>1. /\ pc[t] = "new" /\ pc' = [pc EXCEPT ![t] = "done"] /\ told' = [told EXCEPT ![t] = "error"]
        /\ UNCHANGED <<session, reply>> /\ Emit(t, "rejected", FALSE, FALSE)
    BY <1>3 DEF RefuseTask
  <2>2. /\ reply' = [reply EXCEPT ![t] = "none"] /\ session' = session
        /\ session[t] = Absent /\ audit[t] = <<>>
    BY <1>1, <2>1 DEF Early
  <2>3. reply[t] = "none" /\ (FALSE <=> session[t] # Absent)
    BY <1>1, <2>1, <2>2 DEF Early
  <2> QED
    BY <2>1, <2>2, <2>3, FailureAudit
<1>4. CASE Enter(t) \/ CancelAcquire(t)
  BY <1>1, <1>4, SilentAudit DEF Enter, CancelAcquire, Status, Critical
<1>5. ASSUME NEW o \in {"error", "rejected"}, LoadFails(t) \/ Reject(t), Finish(t, o, FALSE, FALSE, "error")
      PROVE  AuditInv'
  <2>1. pc[t] = "loading" /\ UNCHANGED <<session, reply>>
    BY <1>5 DEF LoadFails, Reject
  <2> QED
    BY <1>1, <1>5, <2>1, EmittedAudit DEF Finish, Early
<1>6. ASSUME NEW o \in {"error", "rejected"}, NEW w, Finish(t, o, TRUE, FALSE, w),
             pc[t] \in Uncommitted, UNCHANGED <<session, reply>>
      PROVE  AuditInv'
  <2>1. session[t] # Absent /\ reply[t] = "none" /\ audit[t] = <<>>
    BY <1>1, <1>6 DEF Uncommitted, Critical, Early
  <2> QED
    BY <1>1, <1>6, <2>1, EmittedAudit DEF Finish
<1>7. CASE ProviderFails(t) \/ ReplyNotStored(t) \/ StreamBreaks(t) \/ CancelStreaming(t)
  BY <1>6, <1>7 DEF ProviderFails, ReplyNotStored, StreamBreaks, CancelStreaming, Uncommitted
<1>8. CASE LoadFails(t) \/ Reject(t)
  BY <1>5, <1>8 DEF LoadFails, Reject
<1>9. CASE ReplyDiscarded(t)
  <2>1. /\ pc[t] = "inference" /\ Finish(t, "success", TRUE, FALSE, "reply")
        /\ session' = session /\ reply' = [reply EXCEPT ![t] = "discarded"]
    BY <1>9 DEF ReplyDiscarded
  <2>2. session[t] # Absent /\ audit[t] = <<>>
    BY <1>1, <2>1 DEF Critical
  <2> QED
    BY <2>1, <2>2, EmittedAudit DEF Finish
<1>10. ASSUME NEW n \in Usages, ReplyCommits(t, n) PROVE AuditInv'
  <2>1. /\ pc[t] = "inference" /\ Finish(t, "success", TRUE, TRUE, "reply")
        /\ session' = session /\ reply' = [reply EXCEPT ![t] = "kept"]
    BY <1>10 DEF ReplyCommits
  <2>2. session[t] # Absent /\ audit[t] = <<>>
    BY <1>1, <2>1 DEF Critical
  <2> QED
    BY <2>1, <2>2, EmittedAudit DEF Finish
<1>11. CASE TerminalDiscarded(t) \/ \E n \in Usages : TerminalCommits(t, n)
  <2>1. PICK v : /\ pc[t] = "streaming" /\ UNCHANGED <<session, audit>>
                 /\ pc' = [pc EXCEPT ![t] = "sendingDone"]
                 /\ reply' = [reply EXCEPT ![t] = v] /\ told' = [told EXCEPT ![t] = "done"]
    BY <1>11 DEF TerminalDiscarded, TerminalCommits
  <2>2. \A u \in Turns : u # t => told'[u] = told[u] /\ reply'[u] = reply[u]
    BY <2>1 DEF Typing, TypeOK
  <2> QED
    BY <1>1, <2>1, <2>2, SilentAudit DEF Status, Critical
<1>12. CASE CancelInference(t) \/ CloseStream(t)
  BY <1>1, <1>12, SilentAudit DEF CancelInference, CloseStream, Unwind, Status, Critical
<1>13. CASE FirstPull(t) \/ NeverPulled(t) \/ Delta(t) \/ DeltaSent(t) \/ StopConsuming(t)
  BY <1>1, <1>13, SilentAudit
     DEF FirstPull, NeverPulled, Delta, DeltaSent, StopConsuming, Status, Critical
<1>14. CASE StreamOpens(t)
  <2>1. /\ pc[t] = "inference" /\ UNCHANGED <<session, audit, reply>>
        /\ pc' = [pc EXCEPT ![t] = "opened"] /\ told' = [told EXCEPT ![t] = "headers"]
    BY <1>14 DEF StreamOpens
  <2>2. \A u \in Turns : u # t => told'[u] = told[u] /\ reply'[u] = reply[u]
    BY <2>1 DEF Typing, TypeOK
  <2> QED
    BY <1>1, <2>1, <2>2, SilentAudit DEF Status, Critical
<1>15. CASE CloseObserver(t)
  <2>1. /\ pc[t] = "abandoned" /\ pc' = [pc EXCEPT ![t] = "closing"]
        /\ UNCHANGED <<session, reply, told>>
        /\ IF reply[t] # "none" THEN Emit(t, "success", TRUE, reply[t] = "kept")
                                ELSE Emit(t, "error", TRUE, FALSE)
    BY <1>15 DEF CloseObserver
  <2>2. session[t] # Absent /\ audit[t] = <<>> /\ told = [told EXCEPT ![t] = told[t]]
    BY <1>1, <2>1 DEF Critical, Typing, TypeOK
  <2>3. CASE reply[t] # "none"
    BY <1>1, <2>1, <2>2, <2>3, EmittedAudit, ZenonT(60)
  <2>4. CASE reply[t] = "none"
    <3>1. Emit(t, "error", TRUE, FALSE) /\ (TRUE <=> session[t] # Absent)
      BY <2>1, <2>2, <2>4
    <3> QED
      BY <2>1, <2>2, <2>4, <3>1, FailureAudit
  <2> QED
    BY <2>3, <2>4
<1> HIDE DEF Goto, Tell
<1> QED
  BY <1>2, <1>3, <1>4, <1>7, <1>8, <1>9, <1>10, <1>11, <1>12, <1>13, <1>14, <1>15, InferAudit
     DEF TurnStep, Outside

(* AuditTellsTheTruth: never two events, one whenever somebody was         *)
(* answered and the turn is over, and what it says of the commit, the      *)
(* outcome and the call is so, on every path of all three endpoints.       *)
THEOREM AuditIsTruthful == Spec => []AuditTellsTheTruth
<1>1. Init => AnswerInv /\ AuditInv
  BY DEF Init, AnswerInv, AuditInv, Critical
<1>2. AnswerInv /\ AuditInv /\ UNCHANGED vars => AnswerInv' /\ AuditInv'
  BY DEF AnswerInv, AuditInv, IsTrue, vars, turnVars
<1>3. HistoryInv => RepliesInOrder
  BY DEF HistoryInv
<1>4. Typing /\ HistoryInv /\ AnswerInv /\ AuditInv /\ [Next]_vars => AnswerInv' /\ AuditInv'
  BY <1>2, <1>3, StepAnswer, StepAudit DEF Next
<1>5. AuditInv /\ AnswersMatchHistory => AuditTellsTheTruth
  BY DEF AuditInv, IsTrue, AnswersMatchHistory, AuditTellsTheTruth
<1> QED
  BY <1>1, <1>4, <1>5, TypesHold, HistoryHolds, AnswersTellTheTruth, PTL DEF Spec

=============================================================================
