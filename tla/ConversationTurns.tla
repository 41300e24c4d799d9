-------------------------- MODULE ConversationTurns --------------------------
(***************************************************************************)
(* A conversation turn from the request to the audit event: /chat,         *)
(* /chat/stream and /agent over one conversation store and one keyed lock  *)
(* (services/conversation.py, services/agent_turn.py,                      *)
(* services/conversation_store.py, api/chat.py, api/streaming.py,          *)
(* api/agent.py, core/errors.py).                                          *)
(*                                                                         *)
(* A step of this module runs from one suspension of the turn's task to    *)
(* the next, so it is what no other turn can observe half done.  The       *)
(* in-memory store never suspends: an append happens in the step that      *)
(* consumed the provider's answer.  A cancellation (client gone, worker    *)
(* stopping) may arrive wherever the task is suspended.                    *)
(*                                                                         *)
(* A turn writes one unit of text: what is said of the log holds of the    *)
(* transcript and of the replay items, which one append extends together.  *)
(***************************************************************************)
EXTENDS Naturals, Sequences, FiniteSets, Functions

CONSTANTS
    Turns,        \* requests, each of which is one turn
    Replicas,     \* lock registries; main.create_app builds one
    Principals,   \* callers: records with a tenant and groups
    Ids,          \* conversation ids
    Kinds,        \* the endpoints in use, out of "chat", "stream", "agent"
    Usages,       \* total_tokens a provider may report (0: no usage object)
    Budget,       \* Settings.conversation_token_budget
    NoBudget,     \* its value None
    NoScope,      \* the groups of a conversation that does not exist
    NoTurn,       \* nobody owns the lock
    NoReq,        \* the request of a turn that has not arrived
    StoreFails    \* BOOLEAN: the store may raise, as a networked adapter would

ASSUME KindsAssumption == Kinds \subseteq {"chat", "stream", "agent"}
ASSUME PrincipalsAssumption ==
    \A p \in Principals : {"tenant", "groups"} \subseteq DOMAIN p /\ p.groups # NoScope
ASSUME UsagesAssumption == Usages \subseteq Nat
ASSUME BudgetAssumption == Budget = NoBudget \/ (Budget \in Nat /\ Budget > 0)
ASSUME NoTurnAssumption == NoTurn \notin Turns
ASSUME StoreFailsAssumption == StoreFails \in BOOLEAN

Tenants == {p.tenant : p \in Principals}
Scopes == {p.groups : p \in Principals}
Conversations == Tenants \X Ids

(* fresh: the request named no conversation, the service issues the id.    *)
Requests == [kind : Kinds, caller : Principals, id : Ids, fresh : BOOLEAN,
             replica : Replicas]

ConversationOf(r) == <<r.caller.tenant, r.id>>
LockKeyOf(r) == <<r.replica, ConversationOf(r)>>
LockKeys == Replicas \X Conversations

(* A stored conversation, also the copy of it a turn works on.             *)
Conversation == [log : Seq(Turns), revision : Nat, spent : Nat, scope : Scopes \cup {NoScope}]
Absent == [log |-> <<>>, revision |-> 0, spent |-> 0, scope |-> NoScope]

Event == [outcome : {"success", "rejected", "error"}, attempted : BOOLEAN, committed : BOOLEAN]

VARIABLES
    owner, waiting,  \* the keyed lock, see KeyedMutex
    store,    \* store[c]: InMemoryConversationStore at c, Absent if it has no such key
    pc,       \* pc[t]: where the turn's task is
    req,      \* req[t]: its request
    session,  \* session[t]: the conversation as _load returned it
    reply,    \* reply[t]: the keep rule's verdict on the terminal: "none", "kept", "discarded"
    usage,    \* usage[t]: the tokens its append carried
    told,     \* told[t]: the last thing handed to the client
    audit     \* audit[t]: the chat.turn or agent.run events of this turn, in order

lockVars == <<owner, waiting>>
turnVars == <<pc, req, session, reply, usage, told, audit>>
vars == <<lockVars, store, turnVars>>

Lock == INSTANCE KeyedMutex WITH Tasks <- Turns, Keys <- LockKeys, NoTask <- NoTurn

(* "acquiring": inside acquire(); "loading": holds the lock, reads the     *)
(* store next; "inference": awaits the provider call; "opened": the        *)
(* response is built and its first frame not pulled; "streaming": awaits   *)
(* the provider's next event; "sending", "sendingDone": awaits the socket; *)
(* "abandoned": its generators are suspended and nobody pulls them;        *)
(* "closing": the audit observer is closed, the committing generator not;  *)
(* "leaked": the response was dropped before its first frame was pulled.   *)
Critical == {"loading", "inference", "opened", "streaming", "sending", "sendingDone",
             "abandoned", "closing", "leaked"}
Status == {"new", "acquiring", "done"} \cup Critical

TypeOK ==
    /\ Lock!MutexTypeOK
    /\ store \in [Conversations -> Conversation]
    /\ pc \in [Turns -> Status]
    /\ req \in [Turns -> Requests \cup {NoReq}]
    /\ session \in [Turns -> Conversation]
    /\ reply \in [Turns -> {"none", "kept", "discarded"}]
    /\ usage \in [Turns -> Usages \cup {0}]
    /\ told \in [Turns -> {"nothing", "headers", "done", "reply", "error"}]
    /\ audit \in [Turns -> Seq(Event)]

Init ==
    /\ Lock!MutexInit
    /\ store = [c \in Conversations |-> Absent]
    /\ pc = [t \in Turns |-> "new"]
    /\ req = [t \in Turns |-> NoReq]
    /\ session = [t \in Turns |-> Absent]
    /\ reply = [t \in Turns |-> "none"]
    /\ usage = [t \in Turns |-> 0]
    /\ told = [t \in Turns |-> "nothing"]
    /\ audit = [t \in Turns |-> <<>>]

-----------------------------------------------------------------------------
(* Helpers. *)

Conv(t) == ConversationOf(req[t])
Key(t) == LockKeyOf(req[t])

\* uuid4(): an id no request has named or been given.
IsFresh(id) == \A u \in Turns : pc[u] # "new" => req[u].id # id

\* _load without a conversation_id: the draft carries the creator's scope.
Draft(p) == [Absent EXCEPT !.scope = p.groups]

\* _load raises ConversationNotFoundError.
NotFound(t) ==
    /\ ~req[t].fresh
    /\ \/ store[Conv(t)].revision = 0
       \/ store[Conv(t)].scope # req[t].caller.groups

\* What _load returns when it returns.
Loaded(t) == IF req[t].fresh THEN Draft(req[t].caller) ELSE store[Conv(t)]

\* _check_budget passes.
WithinOrAt(tokens) == Budget = NoBudget \/ tokens <= Budget
Within(tokens) == Budget = NoBudget \/ tokens < Budget

\* The store accepts an append that presents this revision.  (A turn carries
\* its scope iff its revision is 0, which is what the store asks for next.)
Accepts(c, revision) == store[c].revision = revision

AppendedForgettingHistory(t, tokens) ==
    store' = [store EXCEPT ![Conv(t)] = [@ EXCEPT !.log = <<t>>, !.revision = @ + 1,
                  !.spent = @ + tokens, !.scope = session[t].scope]]

\* InMemoryConversationStore.append: both lists, scope, revision and ledger at once.
Appended(t, tokens) ==
    LET c == Conv(t)
        s == store[c]
    IN  store' = [store EXCEPT ![c] =
            [log |-> Append(s.log, t),
             revision |-> s.revision + 1,
             spent |-> s.spent + tokens,
             scope |-> IF s.revision = 0 THEN session[t].scope ELSE s.scope]]

Emit(t, outcome, attempted, committed) ==
    audit' = [audit EXCEPT ![t] =
        Append(@, [outcome |-> outcome, attempted |-> attempted, committed |-> committed])]

Goto(t, label) == pc' = [pc EXCEPT ![t] = label]
Tell(t, what) == told' = [told EXCEPT ![t] = what]

\* The turn ends: lock released, one event, one answer.
Finish(t, outcome, attempted, committed, what) ==
    /\ Goto(t, "done")
    /\ Lock!Release(t, Key(t))
    /\ Emit(t, outcome, attempted, committed)
    /\ Tell(t, what)

UnwindKeepingLock(t) ==
    /\ Goto(t, "done")
    /\ UNCHANGED <<lockVars, store, req, session, reply, usage, told, audit>>

\* The task is cancelled: the lock is released and no event is emitted.
Unwind(t) ==
    /\ Goto(t, "done")
    /\ Lock!Release(t, Key(t))
    /\ UNCHANGED <<store, req, session, reply, usage, told, audit>>

-----------------------------------------------------------------------------
(* Before the provider is called. *)

\* A request comes in and asks for its conversation's lock.
Arrive(t, r) ==
    /\ pc[t] = "new"
    /\ r.fresh => IsFresh(r.id)
    /\ req' = [req EXCEPT ![t] = r]
    /\ Goto(t, "acquiring")
    /\ Lock!Request(t, LockKeyOf(r))
    /\ UNCHANGED <<store, session, reply, usage, told, audit>>

\* /agent refuses a task that is too long before it resolves an id or takes
\* the lock.
RefuseTask(t, r) ==
    /\ pc[t] = "new"
    /\ r.kind = "agent"
    /\ ~r.fresh
    /\ req' = [req EXCEPT ![t] = r]
    /\ Goto(t, "done")
    /\ Emit(t, "rejected", FALSE, FALSE)
    /\ Tell(t, "error")
    /\ UNCHANGED <<lockVars, store, session, reply, usage>>

Enter(t) ==
    /\ pc[t] = "acquiring"
    /\ Lock!Grant(t, Key(t))
    /\ Goto(t, "loading")
    /\ UNCHANGED <<store, req, session, reply, usage, told, audit>>

CancelAcquire(t) ==
    /\ pc[t] = "acquiring"
    /\ Lock!Abandon(t, Key(t))
    /\ Goto(t, "done")
    /\ UNCHANGED <<store, req, session, reply, usage, told, audit>>

\* The store raises in get(): StorageError, the provider was never called.
LoadFails(t) ==
    /\ pc[t] = "loading"
    /\ StoreFails /\ ~req[t].fresh
    /\ Finish(t, "error", FALSE, FALSE, "error")
    /\ UNCHANGED <<store, req, session, reply, usage>>

\* 404 or 429 before any inference.
Reject(t) ==
    /\ pc[t] = "loading"
    /\ NotFound(t) \/ ~Within(Loaded(t).spent)
    /\ Finish(t, "rejected", FALSE, FALSE, "error")
    /\ UNCHANGED <<store, req, session, reply, usage>>

\* The turn is admitted and the provider called with what was loaded.
Infer(t) ==
    /\ pc[t] = "loading"
    /\ ~NotFound(t) /\ Within(Loaded(t).spent)
    /\ session' = [session EXCEPT ![t] = Loaded(t)]
    /\ Goto(t, "inference")
    /\ UNCHANGED <<lockVars, store, req, reply, usage, told, audit>>

-----------------------------------------------------------------------------
(* /chat and /agent: the provider answers once. *)

\* UpstreamError, an empty completed reply, or a failed agent run; for a
\* stream, a failure before the first byte.
ProviderFails(t) ==
    /\ pc[t] = "inference"
    /\ \/ Finish(t, "error", TRUE, FALSE, "error")
       \/ /\ req[t].kind # "agent"  \* 400: content filter, context length
          /\ Finish(t, "rejected", TRUE, FALSE, "error")
    /\ UNCHANGED <<store, req, session, reply, usage>>

\* The reply is one the client keeps, and the conditional append succeeds.
ReplyCommits(t, n) ==
    /\ pc[t] = "inference" /\ req[t].kind # "stream"
    /\ Accepts(Conv(t), session[t].revision)
    /\ Appended(t, n)
    /\ reply' = [reply EXCEPT ![t] = "kept"]
    /\ usage' = [usage EXCEPT ![t] = n]
    /\ Finish(t, "success", TRUE, TRUE, "reply")
    /\ UNCHANGED <<req, session>>

\* The append is refused as stale or fails: ChatStorageCommitError or
\* AgentStorageCommitError.
ReplyNotStored(t) ==
    /\ pc[t] = "inference" /\ req[t].kind # "stream"
    /\ StoreFails \/ ~Accepts(Conv(t), session[t].revision)
    /\ Finish(t, "error", TRUE, FALSE, "error")
    /\ UNCHANGED <<store, req, session, reply, usage>>

ReplyDiscardedIntoHistory(t) ==
    /\ pc[t] = "inference" /\ req[t].kind = "chat"
    /\ Appended(t, 0)
    /\ reply' = [reply EXCEPT ![t] = "discarded"]
    /\ Finish(t, "success", TRUE, FALSE, "reply")
    /\ UNCHANGED <<req, session, usage>>

\* content_filter or other: a 200 the client must discard.
ReplyDiscarded(t) ==
    /\ pc[t] = "inference" /\ req[t].kind = "chat"
    /\ reply' = [reply EXCEPT ![t] = "discarded"]
    /\ Finish(t, "success", TRUE, FALSE, "reply")
    /\ UNCHANGED <<store, req, session, usage>>

CancelInference(t) == pc[t] = "inference" /\ Unwind(t)

-----------------------------------------------------------------------------
(* /chat/stream: the lock outlives open_stream(). *)

StreamOpensAndReleases(t) ==
    /\ pc[t] = "inference" /\ req[t].kind = "stream"
    /\ Goto(t, "streaming")
    /\ Tell(t, "headers")
    /\ Lock!Release(t, Key(t))
    /\ UNCHANGED <<store, req, session, reply, usage, audit>>

StreamOpens(t) ==
    /\ pc[t] = "inference" /\ req[t].kind = "stream"
    /\ Goto(t, "opened")
    /\ Tell(t, "headers")
    /\ UNCHANGED <<lockVars, store, req, session, reply, usage, audit>>

\* The server pulls the first frame: the generators start.
FirstPull(t) ==
    /\ pc[t] = "opened"
    /\ Goto(t, "streaming")
    /\ UNCHANGED <<lockVars, store, req, session, reply, usage, told, audit>>

\* Cancelled while the headers are sent: generators that never started have
\* no frame to unwind, so no finally clause runs and no event is emitted.
NeverPulled(t) ==
    /\ pc[t] = "opened"
    /\ Goto(t, "leaked")
    /\ UNCHANGED <<lockVars, store, req, session, reply, usage, told, audit>>

Delta(t) ==
    /\ pc[t] = "streaming"
    /\ Goto(t, "sending")
    /\ UNCHANGED <<lockVars, store, req, session, reply, usage, told, audit>>

DeltaSent(t) ==
    /\ pc[t] = "sending"
    /\ Goto(t, "streaming")
    /\ UNCHANGED <<lockVars, store, req, session, reply, usage, told, audit>>

\* A terminal the client keeps: _commit_on_done appends, then yields it.
TerminalCommits(t, n) ==
    /\ pc[t] = "streaming"
    /\ Accepts(Conv(t), session[t].revision)
    /\ Appended(t, n)
    /\ reply' = [reply EXCEPT ![t] = "kept"]
    /\ usage' = [usage EXCEPT ![t] = n]
    /\ Goto(t, "sendingDone")
    /\ Tell(t, "done")
    /\ UNCHANGED <<lockVars, req, session, audit>>

\* A terminal the client must discard is passed on uncommitted.
TerminalDiscarded(t) ==
    /\ pc[t] = "streaming"
    /\ reply' = [reply EXCEPT ![t] = "discarded"]
    /\ Goto(t, "sendingDone")
    /\ Tell(t, "done")
    /\ UNCHANGED <<lockVars, store, req, session, usage, audit>>

\* The commit fails, the provider fails, or its stream ends without a
\* terminal: the generators unwind and an error event ends the body.
StreamBreaks(t) ==
    /\ pc[t] = "streaming"
    /\ Finish(t, "error", TRUE, FALSE, "error")
    /\ UNCHANGED <<store, req, session, reply, usage>>

\* Cancelled while the provider is awaited: the exception unwinds the chain,
\* client_disconnect is recorded.
CancelStreaming(t) ==
    /\ pc[t] = "streaming"
    /\ Finish(t, "error", TRUE, FALSE, told[t])
    /\ UNCHANGED <<store, req, session, reply, usage>>

\* Nobody pulls the generators any more: message.done was the last event
\* _render_sse wanted, or the task was cancelled in send().
StopConsuming(t) ==
    /\ pc[t] \in {"sending", "sendingDone"}
    /\ Goto(t, "abandoned")
    /\ UNCHANGED <<lockVars, store, req, session, reply, usage, told, audit>>

CloseObserverAsDisconnect(t) ==
    /\ pc[t] = "abandoned"
    /\ Emit(t, "error", TRUE, FALSE)
    /\ Goto(t, "closing")
    /\ UNCHANGED <<lockVars, store, req, session, reply, usage, told>>

\* The event loop closes _audit_observed: success once it has seen the
\* terminal, client_disconnect before.
CloseObserver(t) ==
    /\ pc[t] = "abandoned"
    /\ IF reply[t] # "none"
       THEN Emit(t, "success", TRUE, reply[t] = "kept")
       ELSE Emit(t, "error", TRUE, FALSE)
    /\ Goto(t, "closing")
    /\ UNCHANGED <<lockVars, store, req, session, reply, usage, told>>

\* Then it closes _commit_on_done, whose finally clause releases the lock.
CloseStream(t) == pc[t] = "closing" /\ Unwind(t)

-----------------------------------------------------------------------------
TurnStep(t) ==
    \/ Enter(t)
    \/ LoadFails(t)
    \/ Reject(t)
    \/ Infer(t)
    \/ ProviderFails(t)
    \/ \E n \in Usages : ReplyCommits(t, n)
    \/ ReplyNotStored(t)
    \/ ReplyDiscarded(t)
    \/ StreamOpens(t)
    \/ FirstPull(t)
    \/ Delta(t)
    \/ DeltaSent(t)
    \/ \E n \in Usages : TerminalCommits(t, n)
    \/ TerminalDiscarded(t)
    \/ StreamBreaks(t)
    \/ StopConsuming(t)
    \/ CloseObserver(t)
    \/ CloseStream(t)

Outside(t) ==
    \/ \E r \in Requests : Arrive(t, r) \/ RefuseTask(t, r)
    \/ CancelAcquire(t)
    \/ CancelInference(t)
    \/ NeverPulled(t)
    \/ CancelStreaming(t)

Next == \E t \in Turns : TurnStep(t) \/ Outside(t)

Spec == Init /\ [][Next]_vars

(* Fairness.  Enter: KeyedLock serves its waiters in order, so a lock that *)
(* is free again and again is some day this waiter's.  The provider call   *)
(* has a timeout, its output a token cap, so a stream comes to its end;    *)
(* the event loop runs what is ready and closes abandoned generators.  A   *)
(* socket drains or dies: this is assumed, the code sets no limit.         *)
StreamEnds(t) ==
    \/ \E n \in Usages : TerminalCommits(t, n)
    \/ TerminalDiscarded(t)
    \/ StreamBreaks(t)

Progress(t) ==
    \/ LoadFails(t) \/ Reject(t) \/ Infer(t)
    \/ ProviderFails(t) \/ ReplyNotStored(t) \/ ReplyDiscarded(t)
    \/ \E n \in Usages : ReplyCommits(t, n)
    \/ StreamOpens(t) \/ FirstPull(t)
    \/ DeltaSent(t) \/ StopConsuming(t)
    \/ CloseObserver(t) \/ CloseStream(t)

Fairness ==
    \A t \in Turns :
        SF_vars(Enter(t)) /\ WF_vars(Progress(t)) /\ SF_vars(StreamEnds(t))

FairSpec == Spec /\ Fairness

-----------------------------------------------------------------------------
(* Properties. *)

InLog(t, c) == \E i \in DOMAIN store[c].log : store[c].log[i] = t
Committed(t) == \E c \in Conversations : InLog(t, c)

(* The history never lies about causes: the model had seen exactly the     *)
(* turns that precede its reply in the log, on one replica or on several   *)
(* (conversation.py: a commit presents the revision it read).              *)
CausalLog ==
    \A c \in Conversations : \A i \in DOMAIN store[c].log :
        session[store[c].log[i]].log = SubSeq(store[c].log, 1, i - 1)

(* With one lock registry for all endpoints no inference is ever wasted on *)
(* a stale snapshot: between its load and its commit a turn's conversation *)
(* does not move, so an append is never refused as a conflict              *)
(* (conversation.py: read, inference, commit is one critical section).     *)
Uncommitted == {"inference", "opened", "streaming", "sending"}

SnapshotStaysCurrent ==
    \A t \in Turns :
        pc[t] \in Uncommitted => Accepts(Conv(t), session[t].revision)

(* A client that was shown message.done or a reply to keep finds that turn *)
(* in the history; an error, a 404, a 429 or a discarded reply left no     *)
(* trace in it (conversation.py: a failed turn leaves no trace).           *)
AnswersMatchHistory ==
    \A t \in Turns :
        /\ told[t] = "error" => ~Committed(t)
        /\ told[t] \in {"done", "reply"} => reply[t] # "none"
        /\ Committed(t) <=> reply[t] = "kept"

(* The audit log records commit truth: at most one event per request,      *)
(* exactly one once anything was answered and the turn is over, and its    *)
(* fields agree with the store and with what was asked of the provider     *)
(* (api/chat.py, api/streaming.py, api/agent.py, core/errors.py).          *)
AuditTellsTheTruth ==
    \A t \in Turns :
        /\ Len(audit[t]) <= 1
        /\ pc[t] = "done" /\ told[t] # "nothing" => Len(audit[t]) = 1
        /\ \A i \in DOMAIN audit[t] :
               /\ audit[t][i].committed <=> Committed(t)
               /\ audit[t][i].outcome = "success" <=> reply[t] # "none"
               /\ audit[t][i].attempted <=> session[t] # Absent

(* The post-paid budget overshoots by one turn at most: without its last   *)
(* turn a conversation was still below the line (_check_budget).           *)
BudgetOvershootsByOneTurn ==
    \A c \in Conversations :
        Budget # NoBudget /\ store[c].log # <<>> =>
            store[c].spent - usage[store[c].log[Len(store[c].log)]] < Budget

(* No turn enters a conversation but by a caller of its tenant whose       *)
(* groups are the ones it was created under (Day 15, Day 18).              *)
ScopeIsolation ==
    \A c \in Conversations : \A i \in DOMAIN store[c].log :
        LET caller == req[store[c].log[i]].caller
        IN  caller.tenant = c[1] /\ caller.groups = store[c].scope

(* The lock follows the turn: it is owned exactly from the grant to the    *)
(* end of the turn, on every path out of it but one, the response dropped  *)
(* before its first frame (conversation.py, agent_turn.py: finally).       *)
LockFollowsTurn ==
    \A t \in Turns, k \in LockKeys :
        /\ owner[k] = t <=> (pc[t] \in Critical /\ Key(t) = k)
        /\ t \in waiting[k] <=> (pc[t] = "acquiring" /\ Key(t) = k)

\* A response of the turn's conversation was dropped before its first frame.
Blocked(t) ==
    pc[t] # "new" /\ \E u \in Turns : pc[u] = "leaked" /\ Key(u) = Key(t)

(* A follow-up turn does not deadlock on an abandoned stream's lock        *)
(* (tests/unit/test_conversation_service.py:336).                          *)
FollowUpsAreServed ==
    \A t \in Turns : pc[t] = "acquiring" ~> pc[t] \in {"done", "leaked"}

(* Every turn that asks for the lock ends, so no conversation stays locked *)
(* (agent_turn.py: a leaked entry blocks the conversation forever), unless *)
(* a response of that conversation was dropped before its first frame; and *)
(* whoever was told something is in the audit log some day, also after a   *)
(* disconnect (streaming.py: the event waits for the generators to close), *)
(* save in the window docs/audit-logging.md discloses.                     *)
EveryTurnEndsAudited ==
    \A t \in Turns :
        /\ pc[t] = "acquiring" ~> pc[t] = "done" \/ Blocked(t)
        /\ told[t] # "nothing" ~> audit[t] # <<>> \/ pc[t] = "leaked"

(* The services implement the append-only log of ConversationLog.          *)
ConversationLog == INSTANCE ConversationLog WITH
    log <- [c \in Conversations |-> store[c].log],
    spent <- [c \in Conversations |-> store[c].spent],
    scope <- [c \in Conversations |-> store[c].scope],
    seen <- [t \in Turns |-> IF reply[t] = "kept" THEN session[t].log ELSE <<>>]

ImplementsConversationLog == ConversationLog!LogSpec
=============================================================================
