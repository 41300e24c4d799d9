------------------------------ MODULE KeyedLock ------------------------------
(***************************************************************************)
(* core/keyed_lock.py: a lock per key whose registry empties itself.       *)
(*                                                                         *)
(* An entry is an object: a task that looked one up keeps its reference    *)
(* across the await, while release() and the deletions go through the      *)
(* registry by key, so "the entry of my key" and "the entry I hold" are    *)
(* two different things that the reference count has to keep equal.        *)
(*                                                                         *)
(* asyncio.Lock is modelled from its observable rules: first in first out; *)
(* release() clears the flag and resolves the future of the first waiter,  *)
(* who takes the lock only when it next runs; in between the lock is free  *)
(* but a newcomer still queues unless every waiter's future is cancelled;  *)
(* a waiter cancelled in the queue passes the wake-up on.                  *)
(***************************************************************************)
EXTENDS Naturals, FiniteSets

CONSTANTS Tasks, Keys,
          Entries,   \* identities of _Entry objects; one is reused once it is garbage
          NoTask,    \* the owner of a free key (for the refinement)
          NoKey,     \* the key of an idle task
          NoEntry    \* no entry object

ASSUME TasksAssumption == IsFiniteSet(Tasks) /\ NoTask \notin Tasks
ASSUME NoKeyAssumption == NoKey \notin Keys
ASSUME NoEntryAssumption == NoEntry \notin Entries

VARIABLES
    registry,  \* registry[k]: KeyedLock._entries, NoEntry where k is absent
    refs,      \* refs[e]: _Entry.refs
    locked,    \* locked[e]: the flag of _Entry.lock
    pc,        \* where each task is, see Status
    key,       \* key[t]: the argument of the acquire() that t is in or holds
    entry,     \* entry[t]: the local variable of that call
    ahead      \* ahead[t]: the tasks in front of t in the deque of waiters

vars == <<registry, refs, locked, pc, key, entry, ahead>>

(* "pending", "woken" and "cancelled" are the states of a waiter's future; *)
(* "doomed" is a waiter whose future was resolved and whose task was then  *)
(* cancelled before it ran.                                                *)
Queued == {"pending", "woken", "cancelled", "doomed"}
Status == {"idle", "holding"} \cup Queued

TypeOK ==
    /\ registry \in [Keys -> Entries \cup {NoEntry}]
    /\ refs \in [Entries -> Nat]
    /\ locked \in [Entries -> BOOLEAN]
    /\ pc \in [Tasks -> Status]
    /\ key \in [Tasks -> Keys \cup {NoKey}]
    /\ entry \in [Tasks -> Entries \cup {NoEntry}]
    /\ ahead \in [Tasks -> SUBSET Tasks]

Init ==
    /\ registry = [k \in Keys |-> NoEntry]
    /\ refs = [e \in Entries |-> 0]
    /\ locked = [e \in Entries |-> FALSE]
    /\ pc = [t \in Tasks |-> "idle"]
    /\ key = [t \in Tasks |-> NoKey]
    /\ entry = [t \in Tasks |-> NoEntry]
    /\ ahead = [t \in Tasks |-> {}]

-----------------------------------------------------------------------------
(* Entries and waiters. *)

Users(e) == {t \in Tasks : pc[t] # "idle" /\ entry[t] = e}
Waiters(e) == {t \in Tasks : pc[t] \in Queued /\ entry[t] = e}

\* A new _Entry() is an object nobody refers to.
FreshEntries ==
    {e \in Entries : Users(e) = {} /\ \A k \in Keys : registry[k] # e}

\* The entry acquire(k) works on, looked up or created.
EntryFor(k) == IF registry[k] = NoEntry THEN FreshEntries ELSE {registry[k]}

\* The fast path of asyncio.Lock.acquire().
MayBarge(e) == ~locked[e]  \* a bug: the queue is not looked at

MayTakeAtOnce(e) == ~locked[e] /\ \A u \in Waiters(e) : pc[u] = "cancelled"

\* asyncio.Lock._wake_up_first() over the waiters other than the leaver.
WokenOnlyBehindNobody(e, leaver) ==  \* a bug: the leaver still counts as first
    {u \in Waiters(e) \ {leaver} : ahead[u] = {} /\ pc[u] = "pending"}

WokenOnBehalfOf(e, leaver) ==
    {u \in Waiters(e) \ {leaver} : ahead[u] \subseteq {leaver} /\ pc[u] = "pending"}

\* One reference is dropped and the registry forgets the key at zero.
DropReferenceEarly(e, k) ==  \* a bug: the last user but one deletes the entry
    /\ refs' = [refs EXCEPT ![e] = @ - 1]
    /\ registry' = IF refs'[e] <= 1 THEN [registry EXCEPT ![k] = NoEntry] ELSE registry

DropReferenceOnly(e, k) ==  \* a bug: nobody deletes the entry
    /\ refs' = [refs EXCEPT ![e] = @ - 1]
    /\ UNCHANGED registry

DropReference(e, k) ==
    /\ refs' = [refs EXCEPT ![e] = @ - 1]
    /\ registry' = IF refs'[e] = 0 THEN [registry EXCEPT ![k] = NoEntry] ELSE registry

-----------------------------------------------------------------------------
(* Operations. *)

\* acquire(k) up to its first suspension: the reference is counted before it.
Acquire(t, k) ==
    /\ pc[t] = "idle"
    /\ \E e \in EntryFor(k) :
        /\ registry' = [registry EXCEPT ![k] = e]
        /\ refs' = [refs EXCEPT ![e] = IF registry[k] = NoEntry THEN 1 ELSE @ + 1]
        /\ key' = [key EXCEPT ![t] = k]
        /\ entry' = [entry EXCEPT ![t] = e]
        /\ \/ /\ MayTakeAtOnce(e)
              /\ pc' = [pc EXCEPT ![t] = "holding"]
              /\ locked' = [locked EXCEPT ![e] = TRUE]
              /\ UNCHANGED ahead
           \/ /\ ~MayTakeAtOnce(e)
              /\ pc' = [pc EXCEPT ![t] = "pending"]
              /\ ahead' = [ahead EXCEPT ![t] = Waiters(e)]
              /\ UNCHANGED locked

\* The task whose future was resolved runs: it leaves the deque and locks.
Resume(t) ==
    /\ pc[t] = "woken"
    /\ pc' = [pc EXCEPT ![t] = "holding"]
    /\ locked' = [locked EXCEPT ![entry[t]] = TRUE]
    /\ ahead' = [u \in Tasks |-> ahead[u] \ {t}]
    /\ UNCHANGED <<registry, refs, key, entry>>

\* Someone cancels a task that waits: its future is cancelled, or the
\* CancelledError is kept for the moment the resolved task runs.
CancelWaiter(t) ==
    /\ \/ pc[t] = "pending" /\ pc' = [pc EXCEPT ![t] = "cancelled"]
       \/ pc[t] = "woken" /\ pc' = [pc EXCEPT ![t] = "doomed"]
    /\ UNCHANGED <<registry, refs, locked, key, entry, ahead>>

\* The cancelled task runs: asyncio passes the wake-up on if the lock is free,
\* then acquire()'s except clause drops the reference and releases nothing.
LeaveQueue(t) ==
    LET e == entry[t]
        woken == IF locked[e] THEN {} ELSE WokenOnBehalfOf(e, t)
    IN  /\ pc[t] \in {"cancelled", "doomed"}
        /\ pc' = [u \in Tasks |-> CASE u = t -> "idle"
                                    [] u \in woken -> "woken"
                                    [] OTHER -> pc[u]]
        /\ ahead' = [u \in Tasks |-> IF u = t THEN {} ELSE ahead[u] \ {t}]
        /\ DropReference(e, key[t])
        /\ key' = [key EXCEPT ![t] = NoKey]
        /\ entry' = [entry EXCEPT ![t] = NoEntry]
        /\ UNCHANGED locked

\* release(k): the entry is the one the registry has for k now.
Release(t) ==
    LET k == key[t]
        e == registry[k]
        woken == WokenOnBehalfOf(e, t)
    IN  /\ pc[t] = "holding"
        /\ e # NoEntry
        /\ locked[e]
        /\ locked' = [locked EXCEPT ![e] = FALSE]
        /\ pc' = [u \in Tasks |-> CASE u = t -> "idle"
                                    [] u \in woken -> "woken"
                                    [] OTHER -> pc[u]]
        /\ DropReference(e, k)
        /\ key' = [key EXCEPT ![t] = NoKey]
        /\ entry' = [entry EXCEPT ![t] = NoEntry]
        /\ UNCHANGED ahead

Next ==
    \E t \in Tasks :
        \/ \E k \in Keys : Acquire(t, k)
        \/ Resume(t)
        \/ CancelWaiter(t)
        \/ LeaveQueue(t)
        \/ Release(t)

Spec == Init /\ [][Next]_vars

(* The event loop runs every ready task, and every holder's critical       *)
(* section ends in a finally clause that releases.  Nobody is obliged to   *)
(* acquire or to cancel.                                                   *)
Fairness ==
    \A t \in Tasks :
        /\ WF_vars(Resume(t))
        /\ WF_vars(LeaveQueue(t))
        /\ WF_vars(Release(t))

FairSpec == Spec /\ Fairness

-----------------------------------------------------------------------------
(* Properties. *)

(* Two operations are never inside the critical section of one key: the    *)
(* entry a newcomer finds is the one the holder locked, in every order of  *)
(* cancellations, hand-overs and deletions.                                *)
MutualExclusion ==
    \A t, u \in Tasks :
        pc[t] = "holding" /\ pc[u] = "holding" /\ key[t] = key[u] => t = u

(* The entry is never reclaimed from under a task that holds it or is      *)
(* queued for it: the registry still maps the task's key to that object.   *)
EntryOutlivesUsers ==
    \A t \in Tasks : pc[t] # "idle" => registry[key[t]] = entry[t]

(* The registry empties itself: an entry is registered exactly as long as  *)
(* somebody holds or awaits it, and holders(key) counts them.              *)
RefsCountUsers ==
    \A k \in Keys :
        registry[k] # NoEntry =>
            /\ refs[registry[k]] = Cardinality(Users(registry[k]))
            /\ refs[registry[k]] > 0

(* No wake-up is lost when waiters are cancelled: while a key is free and  *)
(* tasks queue for it, the one in front has been resolved or is about to   *)
(* run and pass the wake-up on.                                            *)
NoLostWakeup ==
    \A t \in Tasks :
        pc[t] \in Queued /\ ~locked[entry[t]] /\ ahead[t] = {} => pc[t] # "pending"

(* The inductive invariant: what ties the registry, the flags and the      *)
(* queues together between any two steps, and why the four invariants      *)
(* above hold.                                                             *)
IdleHasNothing ==
    \A t \in Tasks :
        /\ pc[t] = "idle" => key[t] = NoKey /\ entry[t] = NoEntry
        /\ pc[t] # "idle" => key[t] \in Keys /\ entry[t] \in Entries

OneKeyPerEntry ==
    \A k, l \in Keys : registry[k] # NoEntry /\ registry[k] = registry[l] => k = l

LockedMeansHeld ==
    /\ \A t \in Tasks : pc[t] = "holding" => locked[entry[t]]
    /\ \A e \in Entries : locked[e] => \E t \in Tasks : pc[t] = "holding" /\ entry[t] = e

WokenIsFirst ==
    \A t \in Tasks : pc[t] \in {"woken", "doomed"} => ahead[t] = {} /\ ~locked[entry[t]]

QueueIsOrdered ==
    /\ \A t \in Tasks : pc[t] \notin Queued => ahead[t] = {}
    /\ \A t \in Tasks : ahead[t] \subseteq Waiters(entry[t]) \ {t}
    /\ \A t, u \in Tasks :
          pc[t] \in Queued /\ pc[u] \in Queued /\ entry[t] = entry[u] /\ t # u
          => t \in ahead[u] \/ u \in ahead[t]

IndInv ==
    /\ TypeOK
    /\ IdleHasNothing
    /\ EntryOutlivesUsers
    /\ OneKeyPerEntry
    /\ RefsCountUsers
    /\ LockedMeansHeld
    /\ MutualExclusion
    /\ WokenIsFirst
    /\ QueueIsOrdered
    /\ NoLostWakeup

(* A task that waits is not overtaken: nobody enters the critical section  *)
(* of a key while an earlier task still waits for it uncancelled.          *)
FirstComeFirstServed ==
    [][\A t, u \in Tasks :
          (/\ pc[t] # "holding" /\ pc'[t] = "holding"
           /\ pc[u] \in {"pending", "woken"} /\ key[u] = key'[t])
          => (pc[t] # "idle" /\ u \notin ahead[t])]_vars

(* A task that waits is let in or cancelled in the end.                    *)
EveryWaiterServed ==
    \A t \in Tasks : pc[t] = "pending" ~> pc[t] \in {"holding", "cancelled", "doomed"}

(* The keyed lock implements one mutual exclusion per key: a task owns a   *)
(* key of KeyedMutex while it is between acquire() and release().          *)
Holder(k) == {t \in Tasks : pc[t] = "holding" /\ key[t] = k}
Sole(S) == IF S = {} THEN NoTask ELSE CHOOSE t \in S : TRUE
AbstractOwner == [k \in Keys |-> Sole(Holder(k))]
Awaiting(k) == {t \in Tasks : pc[t] \in Queued /\ key[t] = k}
AbstractWaiting == [k \in Keys |-> Awaiting(k)]

Mutex == INSTANCE KeyedMutex WITH owner <- AbstractOwner, waiting <- AbstractWaiting
ImplementsKeyedMutex == Mutex!MutexSpec
=============================================================================
