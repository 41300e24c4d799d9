----------------------------- MODULE KeyedMutex -----------------------------
(***************************************************************************)
(* What core/keyed_lock.py promises its callers: one operation at a time   *)
(* per key, the others in parallel.  Nothing here speaks of entries, of    *)
(* reference counts or of futures; KeyedLock implements this module, and   *)
(* ConversationTurns and DocumentReplacement are written against it.       *)
(***************************************************************************)
CONSTANTS Tasks,   \* the asyncio tasks that use the lock
          Keys,    \* whatever hashable keys the callers serialise on
          NoTask   \* the owner of a free key, a value that is no task

VARIABLES owner,    \* owner[k]: the task inside the critical section of k
          waiting   \* waiting[k]: the tasks inside acquire(k)

mutexVars == <<owner, waiting>>

MutexTypeOK ==
    /\ owner \in [Keys -> Tasks \cup {NoTask}]
    /\ waiting \in [Keys -> SUBSET Tasks]

MutexInit ==
    /\ owner = [k \in Keys |-> NoTask]
    /\ waiting = [k \in Keys |-> {}]

\* A task uses one key at a time: it neither waits for nor owns another one.
Idle(t) == \A k \in Keys : t \notin waiting[k] /\ owner[k] # t

\* acquire(k) is called and does not return at once.
Request(t, k) ==
    /\ Idle(t)
    /\ waiting' = [waiting EXCEPT ![k] = @ \cup {t}]
    /\ UNCHANGED owner

\* acquire(k) is called on a free key and returns without suspending.
Take(t, k) ==
    /\ Idle(t)
    /\ owner[k] = NoTask
    /\ owner' = [owner EXCEPT ![k] = t]
    /\ UNCHANGED waiting

\* A waiting task is let in.
Grant(t, k) ==
    /\ t \in waiting[k]
    /\ owner[k] = NoTask
    /\ owner' = [owner EXCEPT ![k] = t]
    /\ waiting' = [waiting EXCEPT ![k] = @ \ {t}]

\* A waiting task is cancelled: it leaves the queue and releases nothing.
Abandon(t, k) ==
    /\ t \in waiting[k]
    /\ waiting' = [waiting EXCEPT ![k] = @ \ {t}]
    /\ UNCHANGED owner

Release(t, k) ==
    /\ owner[k] = t
    /\ owner' = [owner EXCEPT ![k] = NoTask]
    /\ UNCHANGED waiting

MutexNext ==
    \E t \in Tasks, k \in Keys :
        \/ Request(t, k)
        \/ Take(t, k)
        \/ Grant(t, k)
        \/ Abandon(t, k)
        \/ Release(t, k)

MutexSpec == MutexInit /\ [][MutexNext]_mutexVars
=============================================================================
