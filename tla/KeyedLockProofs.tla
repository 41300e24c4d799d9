--------------------------- MODULE KeyedLockProofs ---------------------------
(***************************************************************************)
(* Proofs about core/keyed_lock.py as KeyedLock models it, for any finite  *)
(* number of tasks and any sets of keys and entry objects.                 *)
(***************************************************************************)
EXTENDS KeyedLock, FiniteSetTheorems, TLAPS

(* The users of an entry are some of the tasks, so they can be counted.    *)
LEMMA UsersFinite ==
    \A e : IsFiniteSet(Users(e)) /\ Cardinality(Users(e)) \in Nat
  BY TasksAssumption, FS_Subset, FS_CardinalityType DEF Users

(* The first acquire() of a process finds an empty registry.               *)
LEMMA InitIndInv == Init => IndInv
  BY NoKeyAssumption, NoEntryAssumption
     DEF Init, IndInv, TypeOK, IdleHasNothing, EntryOutlivesUsers, OneKeyPerEntry,
         RefsCountUsers, LockedMeansHeld, MutualExclusion, WokenIsFirst,
         QueueIsOrdered, NoLostWakeup, Status, Queued, Waiters

(* acquire() up to its first suspension preserves the invariant, whether   *)
(* it looks the entry up or creates it, takes the lock or queues.          *)
LEMMA AcquirePreserves ==
    ASSUME IndInv, NEW t \in Tasks, NEW k \in Keys, Acquire(t, k)
    PROVE  IndInv'
<1> USE NoKeyAssumption, NoEntryAssumption
<1>1. PICK e \in EntryFor(k) :
        /\ registry' = [registry EXCEPT ![k] = e]
        /\ refs' = [refs EXCEPT ![e] = IF registry[k] = NoEntry THEN 1 ELSE @ + 1]
        /\ key' = [key EXCEPT ![t] = k]
        /\ entry' = [entry EXCEPT ![t] = e]
        /\ \/ /\ MayTakeAtOnce(e)
              /\ pc' = [pc EXCEPT ![t] = "holding"]
              /\ locked' = [locked EXCEPT ![e] = TRUE]
              /\ UNCHANGED ahead
           \/ /\ ~MayTakeAtOnce(e)
              /\ pc' = [pc EXCEPT ![t] = "pending"]
              /\ ahead' = [ahead EXCEPT ![t] = Waiters(e)]
              /\ UNCHANGED locked
  BY DEF Acquire
<1>2. pc[t] = "idle" /\ TypeOK
  BY DEF Acquire, IndInv
<1>3. e \in Entries /\ e # NoEntry
  BY <1>2 DEF EntryFor, FreshEntries, TypeOK
<1>4. /\ registry[k] = NoEntry => Users(e) = {} /\ \A l \in Keys : registry[l] # e
      /\ registry[k] # NoEntry => registry[k] = e
  BY DEF EntryFor, FreshEntries
<1>5. TypeOK'
  <2>1. refs' \in [Entries -> Nat]
    BY <1>1, <1>2, <1>3 DEF TypeOK
  <2>2. locked' \in [Entries -> BOOLEAN]
    BY <1>1, <1>2 DEF TypeOK
  <2>3. pc' \in [Tasks -> Status] /\ ahead' \in [Tasks -> SUBSET Tasks]
    BY <1>1, <1>2 DEF TypeOK, Status, Queued, Waiters
  <2> QED
    BY <2>1, <2>2, <2>3, <1>1, <1>2, <1>3 DEF TypeOK
<1>6. /\ Users(e)' = Users(e) \cup {t}
      /\ t \notin Users(e)
      /\ \A f : f # e => Users(f)' = Users(f)
  BY <1>1, <1>2 DEF Users, TypeOK
<1>7. IdleHasNothing'
  BY <1>1, <1>2, <1>3 DEF IndInv, IdleHasNothing, TypeOK
<1>8. EntryOutlivesUsers'
  <2> SUFFICES ASSUME NEW u \in Tasks, pc'[u] # "idle"
               PROVE  registry'[key'[u]] = entry'[u]
    BY DEF EntryOutlivesUsers
  <2>1. CASE u = t
    BY <1>1, <1>2, <2>1 DEF TypeOK
  <2>2. CASE u # t
    <3>1. pc[u] # "idle" /\ key'[u] = key[u] /\ entry'[u] = entry[u]
      BY <1>1, <1>2, <2>2 DEF TypeOK
    <3>2. registry[key[u]] = entry[u] /\ key[u] \in Keys /\ entry[u] \in Entries
      BY <3>1 DEF IndInv, EntryOutlivesUsers, IdleHasNothing
    <3>3. key[u] = k => registry[k] = e
      BY <3>2, <1>4
    <3> QED
      BY <3>1, <3>2, <3>3, <1>1, <1>2 DEF TypeOK
  <2> QED
    BY <2>1, <2>2
<1>9. OneKeyPerEntry'
  BY <1>1, <1>2, <1>4 DEF IndInv, OneKeyPerEntry, TypeOK
<1>10. RefsCountUsers'
  <2>1. refs'[e] = Cardinality(Users(e)') /\ refs'[e] > 0
    <3>1. CASE registry[k] = NoEntry
      <4>1. Users(e)' = {t} /\ refs'[e] = 1
        BY <3>1, <1>1, <1>2, <1>3, <1>4, <1>6 DEF TypeOK
      <4> QED
        BY <4>1, FS_Singleton
    <3>2. CASE registry[k] # NoEntry
      <4>1. refs[e] = Cardinality(Users(e)) /\ refs[e] > 0
        BY <3>2, <1>4 DEF IndInv, RefsCountUsers
      <4>2. Cardinality(Users(e) \cup {t}) = Cardinality(Users(e)) + 1
        BY <1>6, UsersFinite, FS_AddElement
      <4>3. refs'[e] = refs[e] + 1
        BY <3>2, <1>1, <1>2, <1>3 DEF TypeOK
      <4> QED
        BY <4>1, <4>2, <4>3, <1>6, UsersFinite
    <3> QED
      BY <3>1, <3>2
  <2> SUFFICES ASSUME NEW l \in Keys, NEW f \in Entries, registry'[l] = f
               PROVE  refs'[f] = Cardinality(Users(f)') /\ refs'[f] > 0
    BY <1>5 DEF RefsCountUsers, Users, TypeOK
  <2>2. CASE f = e
    BY <2>1, <2>2
  <2>3. CASE f # e
    <3>1. registry[l] = f
      BY <2>3, <1>1, <1>2 DEF TypeOK
    <3>2. refs[f] = Cardinality(Users(f)) /\ refs[f] > 0
      BY <3>1 DEF IndInv, RefsCountUsers
    <3>3. refs'[f] = refs[f] /\ Users(f)' = Users(f)
      BY <2>3, <1>1, <1>2, <1>6 DEF TypeOK
    <3> QED
      BY <3>2, <3>3
  <2> QED
    BY <2>2, <2>3
<1>11. \A u \in Tasks : pc[u] # "idle" /\ key[u] = k => entry[u] = e
  BY <1>4 DEF IndInv, EntryOutlivesUsers, IdleHasNothing
<1>12. \A u \in Tasks : u # t => pc'[u] = pc[u] /\ entry'[u] = entry[u] /\ key'[u] = key[u]
  BY <1>1, <1>2 DEF TypeOK
<1>13. CASE MayTakeAtOnce(e)
  <2>1. /\ pc' = [pc EXCEPT ![t] = "holding"]
        /\ locked' = [locked EXCEPT ![e] = TRUE]
        /\ ahead' = ahead
    BY <1>1, <1>13
  <2>2. ~locked[e] /\ \A u \in Waiters(e) : pc[u] = "cancelled"
    BY <1>13 DEF MayTakeAtOnce
  <2>3. \A u \in Tasks : pc[u] = "holding" => entry[u] # e
    BY <2>2 DEF IndInv, LockedMeansHeld
  <2>4. LockedMeansHeld'
    BY <2>1, <1>1, <1>2, <1>3, <1>12 DEF IndInv, LockedMeansHeld, TypeOK
  <2>5. MutualExclusion'
    BY <2>1, <2>3, <1>1, <1>2, <1>11, <1>12 DEF IndInv, MutualExclusion, TypeOK
  <2>6. WokenIsFirst'
    BY <2>1, <2>2, <1>2, <1>12 DEF IndInv, WokenIsFirst, TypeOK, Waiters, Queued
  <2>7. \A f : Waiters(f)' = Waiters(f)
    BY <2>1, <1>1, <1>2 DEF Waiters, Queued, TypeOK
  <2>8. QueueIsOrdered'
    BY <2>1, <2>7, <1>1, <1>2, <1>12 DEF IndInv, QueueIsOrdered, TypeOK, Queued, Waiters
  <2>9. NoLostWakeup'
    BY <2>1, <1>1, <1>2, <1>12 DEF IndInv, NoLostWakeup, TypeOK, Queued
  <2> QED
    BY <1>5, <1>7, <1>8, <1>9, <1>10, <2>4, <2>5, <2>6, <2>8, <2>9 DEF IndInv
<1>14. CASE ~MayTakeAtOnce(e)
  <2>1. /\ pc' = [pc EXCEPT ![t] = "pending"]
        /\ locked' = locked
        /\ ahead' = [ahead EXCEPT ![t] = Waiters(e)]
    BY <1>1, <1>14
  <2>2. Waiters(e)' = Waiters(e) \cup {t} /\ t \notin Waiters(e)
    BY <2>1, <1>1, <1>2 DEF Waiters, Queued, TypeOK
  <2>3. \A f : f # e => Waiters(f)' = Waiters(f)
    BY <2>1, <1>1, <1>2 DEF Waiters, Queued, TypeOK
  <2>4. LockedMeansHeld'
    BY <2>1, <1>2, <1>12 DEF IndInv, LockedMeansHeld, TypeOK
  <2>5. MutualExclusion'
    BY <2>1, <1>2, <1>12 DEF IndInv, MutualExclusion, TypeOK
  <2>6. WokenIsFirst'
    BY <2>1, <1>2, <1>12 DEF IndInv, WokenIsFirst, TypeOK
  <2>7. QueueIsOrdered'
    BY <2>1, <2>2, <2>3, <1>1, <1>2, <1>12 DEF IndInv, QueueIsOrdered, TypeOK, Queued, Waiters
  <2>8. NoLostWakeup'
    BY <2>1, <1>1, <1>2, <1>12, <1>14
       DEF IndInv, NoLostWakeup, MayTakeAtOnce, TypeOK, Queued
  <2> QED
    BY <1>5, <1>7, <1>8, <1>9, <1>10, <2>4, <2>5, <2>6, <2>7, <2>8 DEF IndInv
<1> QED
  BY <1>13, <1>14

(* Leaving an entry, by release() or by the error path of acquire(), drops *)
(* one reference and keeps the registry and the counts in step.            *)
LEMMA LeavingAnEntry ==
    ASSUME IndInv, NEW t \in Tasks, pc[t] # "idle",
           DropReference(entry[t], key[t]),
           key' = [key EXCEPT ![t] = NoKey],
           entry' = [entry EXCEPT ![t] = NoEntry],
           pc' \in [Tasks -> Status],
           pc'[t] = "idle",
           \A u \in Tasks : u # t /\ pc'[u] = "idle" => pc[u] = "idle",
           \A u \in Tasks : u # t /\ pc[u] = "idle" => pc'[u] = "idle"
    PROVE  /\ registry' \in [Keys -> Entries \cup {NoEntry}]
           /\ refs' \in [Entries -> Nat]
           /\ key' \in [Tasks -> Keys \cup {NoKey}]
           /\ entry' \in [Tasks -> Entries \cup {NoEntry}]
           /\ IdleHasNothing'
           /\ EntryOutlivesUsers'
           /\ OneKeyPerEntry'
           /\ RefsCountUsers'
<1> USE NoKeyAssumption, NoEntryAssumption
<1>1. TypeOK
  BY DEF IndInv
<1>2. PICK e \in Entries, k \in Keys : entry[t] = e /\ key[t] = k /\ registry[k] = e
  BY DEF IndInv, IdleHasNothing, EntryOutlivesUsers
<1>3. refs[e] = Cardinality(Users(e)) /\ refs[e] > 0
  BY <1>2 DEF IndInv, RefsCountUsers
<1>4. refs' = [refs EXCEPT ![e] = @ - 1]
  BY <1>2 DEF DropReference
<1>5. refs'[e] = refs[e] - 1 /\ refs' \in [Entries -> Nat]
  BY <1>1, <1>2, <1>3, <1>4 DEF TypeOK
<1>6. /\ Users(e)' = Users(e) \ {t}
      /\ t \in Users(e)
      /\ \A f : f # e => Users(f)' = Users(f)
  <2>1. \A u \in Tasks : u # t => entry'[u] = entry[u]
    BY <1>1 DEF TypeOK
  <2> QED
    BY <2>1, <1>2 DEF Users
<1>7. refs'[e] = Cardinality(Users(e)')
  BY <1>3, <1>5, <1>6, UsersFinite, FS_RemoveElement
<1>8. refs'[e] = 0 => Users(e)' = {}
  BY <1>6, <1>7, UsersFinite, FS_RemoveElement, FS_EmptySet
<1>9. /\ refs'[e] = 0 => registry' = [registry EXCEPT ![k] = NoEntry]
      /\ refs'[e] # 0 => registry' = registry
  BY <1>2 DEF DropReference
<1>10. registry' \in [Keys -> Entries \cup {NoEntry}]
  BY <1>1, <1>9 DEF TypeOK
<1>11. IdleHasNothing'
  BY <1>1 DEF IndInv, IdleHasNothing, TypeOK
<1>12. EntryOutlivesUsers'
  <2> SUFFICES ASSUME NEW u \in Tasks, pc'[u] # "idle"
               PROVE  registry'[key'[u]] = entry'[u]
    BY DEF EntryOutlivesUsers
  <2>1. u # t /\ pc[u] # "idle" /\ key'[u] = key[u] /\ entry'[u] = entry[u]
    BY <1>1 DEF TypeOK
  <2>2. registry[key[u]] = entry[u] /\ key[u] \in Keys /\ entry[u] \in Entries
    BY <2>1 DEF IndInv, EntryOutlivesUsers, IdleHasNothing
  <2>3. CASE refs'[e] = 0
    <3>1. entry[u] # e
      BY <2>1, <2>3, <1>8 DEF Users
    <3> QED
      BY <3>1, <2>1, <2>2, <2>3, <1>1, <1>2, <1>9 DEF TypeOK
  <2>4. CASE refs'[e] # 0
    BY <2>1, <2>2, <2>4, <1>9
  <2> QED
    BY <2>3, <2>4
<1>13. OneKeyPerEntry'
  BY <1>1, <1>2, <1>9 DEF IndInv, OneKeyPerEntry, TypeOK
<1>14. RefsCountUsers'
  <2> SUFFICES ASSUME NEW l \in Keys, NEW f \in Entries, registry'[l] = f
               PROVE  refs'[f] = Cardinality(Users(f)') /\ refs'[f] > 0
    BY <1>10 DEF RefsCountUsers, Users
  <2>1. registry[l] = f
    BY <1>1, <1>2, <1>9 DEF TypeOK
  <2>2. CASE f = e
    <3>1. l = k
      BY <2>1, <2>2, <1>2 DEF IndInv, OneKeyPerEntry
    <3>2. refs'[e] # 0
      BY <3>1, <1>1, <1>9 DEF TypeOK
    <3>3. refs'[e] > 0
      <4>1. refs'[e] \in Nat
        BY <1>5
      <4> QED
        BY <4>1, <3>2
    <3> QED
      BY <3>3, <2>2, <1>7
  <2>3. CASE f # e
    <3>1. refs[f] = Cardinality(Users(f)) /\ refs[f] > 0
      BY <2>1 DEF IndInv, RefsCountUsers
    <3>2. refs'[f] = refs[f] /\ Users(f)' = Users(f)
      BY <2>3, <1>1, <1>4, <1>6 DEF TypeOK
    <3> QED
      BY <3>1, <3>2
  <2> QED
    BY <2>2, <2>3
<1>15. key' \in [Tasks -> Keys \cup {NoKey}] /\ entry' \in [Tasks -> Entries \cup {NoEntry}]
  BY <1>1 DEF TypeOK
<1> QED
  BY <1>5, <1>10, <1>11, <1>12, <1>13, <1>14, <1>15

(* The resolved waiter takes the lock.                                     *)
LEMMA ResumePreserves ==
    ASSUME IndInv, NEW t \in Tasks, Resume(t)
    PROVE  IndInv'
<1> USE NoKeyAssumption, NoEntryAssumption
<1> DEFINE e == entry[t]
<1>1. /\ pc[t] = "woken" /\ pc' = [pc EXCEPT ![t] = "holding"]
      /\ locked' = [locked EXCEPT ![e] = TRUE]
      /\ ahead' = [u \in Tasks |-> ahead[u] \ {t}]
      /\ registry' = registry /\ refs' = refs /\ key' = key /\ entry' = entry
  BY DEF Resume
<1>2. TypeOK
  BY DEF IndInv
<1>3. e \in Entries
  BY <1>1 DEF IndInv, IdleHasNothing
<1>4. ahead[t] = {} /\ ~locked[e]
  BY <1>1 DEF IndInv, WokenIsFirst
<1>5. \A u \in Tasks : pc[u] = "holding" => entry[u] # e
  BY <1>4 DEF IndInv, LockedMeansHeld
<1>6. \A u \in Tasks : u # t => pc'[u] = pc[u]
  BY <1>1, <1>2 DEF TypeOK
<1>7. TypeOK'
  BY <1>1, <1>2 DEF TypeOK, Status
<1>8. IdleHasNothing' /\ EntryOutlivesUsers' /\ OneKeyPerEntry'
  BY <1>1, <1>2, <1>6 DEF IndInv, IdleHasNothing, EntryOutlivesUsers, OneKeyPerEntry, TypeOK
<1>9. RefsCountUsers'
  <2>1. \A f : Users(f)' = Users(f)
    BY <1>1, <1>2 DEF Users, TypeOK
  <2> QED
    BY <2>1, <1>1 DEF IndInv, RefsCountUsers, Users
<1>10. LockedMeansHeld'
  BY <1>1, <1>2, <1>3, <1>6 DEF IndInv, LockedMeansHeld, TypeOK
<1>11. MutualExclusion'
  <2>1. \A u \in Tasks : pc[u] = "holding" => key[u] # key[t]
    BY <1>1, <1>5 DEF IndInv, EntryOutlivesUsers
  <2> QED
    BY <2>1, <1>1, <1>2, <1>6 DEF IndInv, MutualExclusion, TypeOK
<1>12. WokenIsFirst'
  <2> SUFFICES ASSUME NEW u \in Tasks, pc'[u] \in {"woken", "doomed"}
               PROVE  ahead'[u] = {} /\ ~locked'[entry[u]]
    BY <1>1 DEF WokenIsFirst
  <2>1. u # t /\ pc[u] \in {"woken", "doomed"}
    BY <1>1, <1>2, <1>6 DEF TypeOK
  <2>2. ahead[u] = {} /\ ~locked[entry[u]]
    BY <2>1 DEF IndInv, WokenIsFirst
  <2>3. entry[u] # e
    BY <2>1, <2>2, <1>1, <1>4 DEF IndInv, QueueIsOrdered, Queued
  <2> QED
    BY <2>1, <2>2, <2>3, <1>1, <1>2 DEF TypeOK
<1>13. QueueIsOrdered'
  <2>1. \A f : Waiters(f)' = Waiters(f) \ {t}
    BY <1>1, <1>2 DEF Waiters, Queued, TypeOK
  <2> QED
    BY <2>1, <1>1, <1>2, <1>4, <1>6 DEF IndInv, QueueIsOrdered, TypeOK, Queued, Waiters
<1>14. NoLostWakeup'
  <2> SUFFICES ASSUME NEW u \in Tasks, pc'[u] = "pending", ~locked'[entry[u]],
                      ahead'[u] = {}
               PROVE  FALSE
    BY <1>1 DEF NoLostWakeup
  <2>1. u # t /\ pc[u] = "pending" /\ entry[u] # e /\ ~locked[entry[u]]
    BY <1>1, <1>2, <1>3, <1>6 DEF TypeOK
  <2>2. ahead[u] = {}
    BY <2>1, <1>1, <1>2 DEF IndInv, QueueIsOrdered, Waiters, TypeOK
  <2> QED
    BY <2>1, <2>2 DEF IndInv, NoLostWakeup, Queued
<1> QED
  BY <1>7, <1>8, <1>9, <1>10, <1>11, <1>12, <1>13, <1>14 DEF IndInv

(* A cancellation marks the waiter and touches nothing else.               *)
LEMMA CancelWaiterPreserves ==
    ASSUME IndInv, NEW t \in Tasks, CancelWaiter(t)
    PROVE  IndInv'
<1>1. /\ \/ pc[t] = "pending" /\ pc' = [pc EXCEPT ![t] = "cancelled"]
         \/ pc[t] = "woken" /\ pc' = [pc EXCEPT ![t] = "doomed"]
      /\ registry' = registry /\ refs' = refs /\ locked' = locked
      /\ key' = key /\ entry' = entry /\ ahead' = ahead
  BY DEF CancelWaiter
<1>2. TypeOK
  BY DEF IndInv
<1>3. TypeOK'
  BY <1>1, <1>2 DEF TypeOK, Status, Queued
<1>5. (\A f : Users(f)' = Users(f)) /\ (\A f : Waiters(f)' = Waiters(f))
  BY <1>1, <1>2 DEF Users, Waiters, Queued, TypeOK
<1>6. IdleHasNothing'
  BY <1>1, <1>2 DEF IndInv, IdleHasNothing, TypeOK
<1>7. EntryOutlivesUsers'
  BY <1>1, <1>2 DEF IndInv, EntryOutlivesUsers, TypeOK
<1>8. OneKeyPerEntry'
  BY <1>1 DEF IndInv, OneKeyPerEntry
<1>9. RefsCountUsers'
  BY <1>1, <1>5 DEF IndInv, RefsCountUsers, Users
<1>10. LockedMeansHeld'
  BY <1>1, <1>2 DEF IndInv, LockedMeansHeld, TypeOK
<1>11. MutualExclusion'
  BY <1>1, <1>2 DEF IndInv, MutualExclusion, TypeOK
<1>12. WokenIsFirst'
  BY <1>1, <1>2 DEF IndInv, WokenIsFirst, TypeOK
<1>13. QueueIsOrdered'
  BY <1>1, <1>2, <1>5 DEF IndInv, QueueIsOrdered, TypeOK, Queued, Waiters
<1>14. NoLostWakeup'
  BY <1>1, <1>2 DEF IndInv, NoLostWakeup, TypeOK, Queued
<1> QED
  BY <1>3, <1>6, <1>7, <1>8, <1>9, <1>10, <1>11, <1>12, <1>13, <1>14 DEF IndInv

(* A cancelled waiter leaves the queue, passes the wake-up on and drops    *)
(* its reference.                                                          *)
LEMMA LeaveQueuePreserves ==
    ASSUME IndInv, NEW t \in Tasks, LeaveQueue(t)
    PROVE  IndInv'
<1> USE NoKeyAssumption, NoEntryAssumption
<1>1. TypeOK
  BY DEF IndInv
<1>2. PICK e \in Entries : entry[t] = e
  BY DEF IndInv, LeaveQueue, IdleHasNothing
<1> DEFINE woken == IF locked[e] THEN {} ELSE WokenOnBehalfOf(e, t)
<1>3. /\ pc[t] \in {"cancelled", "doomed"}
      /\ pc' = [u \in Tasks |-> CASE u = t -> "idle"
                                  [] u \in woken -> "woken"
                                  [] OTHER -> pc[u]]
      /\ ahead' = [u \in Tasks |-> IF u = t THEN {} ELSE ahead[u] \ {t}]
      /\ DropReference(entry[t], key[t])
      /\ key' = [key EXCEPT ![t] = NoKey]
      /\ entry' = [entry EXCEPT ![t] = NoEntry]
      /\ locked' = locked
  BY <1>2 DEF LeaveQueue
<1>4. \A u \in woken : /\ u \in Tasks /\ u # t /\ pc[u] = "pending" /\ entry[u] = e
                       /\ ahead[u] \subseteq {t} /\ ~locked[e]
  BY DEF WokenOnBehalfOf, Waiters
<1>5. /\ pc'[t] = "idle" /\ entry'[t] = NoEntry /\ ahead'[t] = {}
      /\ \A u \in woken : pc'[u] = "woken"
      /\ \A u \in Tasks : u # t /\ u \notin woken => pc'[u] = pc[u]
      /\ \A u \in Tasks : u # t => entry'[u] = entry[u] /\ key'[u] = key[u]
                                   /\ ahead'[u] = ahead[u] \ {t}
  BY <1>1, <1>3, <1>4 DEF TypeOK
<1>6. pc' \in [Tasks -> Status]
  BY <1>1, <1>3, <1>5 DEF TypeOK, Status, Queued
<1>7. /\ registry' \in [Keys -> Entries \cup {NoEntry}]
      /\ refs' \in [Entries -> Nat]
      /\ key' \in [Tasks -> Keys \cup {NoKey}]
      /\ entry' \in [Tasks -> Entries \cup {NoEntry}]
      /\ IdleHasNothing' /\ EntryOutlivesUsers' /\ OneKeyPerEntry' /\ RefsCountUsers'
  BY <1>3, <1>4, <1>5, <1>6, LeavingAnEntry
<1>8. TypeOK'
  BY <1>1, <1>3, <1>6, <1>7 DEF TypeOK
<1>9. \A u \in Tasks : u # t =>
         /\ pc'[u] = "holding" => pc[u] = "holding"
         /\ pc[u] = "holding" => pc'[u] = "holding"
         /\ pc'[u] \in Queued => pc[u] \in Queued
         /\ pc[u] \in Queued => pc'[u] \in Queued
  BY <1>4, <1>5 DEF Queued
<1>10. LockedMeansHeld'
  <2>1. pc[t] # "holding" /\ pc'[t] # "holding"
    BY <1>3, <1>5
  <2> QED
    BY <2>1, <1>3, <1>5, <1>9 DEF IndInv, LockedMeansHeld
<1>11. MutualExclusion'
  BY <1>5, <1>9 DEF IndInv, MutualExclusion
<1>12. WokenIsFirst'
  <2> SUFFICES ASSUME NEW u \in Tasks, pc'[u] \in {"woken", "doomed"}
               PROVE  ahead'[u] = {} /\ ~locked'[entry'[u]]
    BY DEF WokenIsFirst
  <2>1. u # t
    BY <1>5
  <2>2. CASE u \in woken
    BY <2>1, <2>2, <1>3, <1>4, <1>5
  <2>3. CASE u \notin woken
    <3>1. pc[u] \in {"woken", "doomed"}
      BY <2>1, <2>3, <1>5
    <3>2. ahead[u] = {} /\ ~locked[entry[u]]
      BY <3>1 DEF IndInv, WokenIsFirst
    <3> QED
      BY <3>2, <2>1, <1>3, <1>5
  <2> QED
    BY <2>2, <2>3
<1>13. \A f \in Entries : Waiters(f)' = Waiters(f) \ {t}
  BY <1>5, <1>9 DEF Waiters, Queued
<1>14. QueueIsOrdered'
  <2>1. \A u \in Tasks : pc'[u] \notin Queued => ahead'[u] = {}
    BY <1>5, <1>9 DEF IndInv, QueueIsOrdered
  <2>2. \A u \in Tasks : \A v \in ahead'[u] :
          v \in Tasks /\ v # u /\ pc'[v] \in Queued /\ entry'[v] = entry'[u]
    <3> SUFFICES ASSUME NEW u \in Tasks, NEW v \in ahead'[u]
                 PROVE  v \in Tasks /\ v # u /\ pc'[v] \in Queued /\ entry'[v] = entry'[u]
      OBVIOUS
    <3>1. u # t /\ v # t /\ v \in ahead[u]
      BY <1>5
    <3>2. v \in Tasks /\ v # u /\ pc[v] \in Queued /\ entry[v] = entry[u]
      BY <3>1 DEF IndInv, QueueIsOrdered, Waiters
    <3> QED
      BY <3>1, <3>2, <1>5, <1>9
  <2>3. \A u, v \in Tasks :
          pc'[u] \in Queued /\ pc'[v] \in Queued /\ entry'[u] = entry'[v] /\ u # v
          => u \in ahead'[v] \/ v \in ahead'[u]
    BY <1>5, <1>9 DEF IndInv, QueueIsOrdered, Queued
  <2> QED
    BY <2>1, <2>2, <2>3 DEF QueueIsOrdered, Waiters
<1>15. NoLostWakeup'
  <2> SUFFICES ASSUME NEW u \in Tasks, pc'[u] = "pending", ~locked'[entry'[u]],
                      ahead'[u] = {}
               PROVE  FALSE
    BY DEF NoLostWakeup
  <2>1. u # t /\ u \notin woken /\ pc[u] = "pending" /\ ~locked[entry[u]] /\ ahead[u] \subseteq {t}
    BY <1>3, <1>5
  <2>2. ahead[u] # {}
    BY <2>1 DEF IndInv, NoLostWakeup, Queued
  <2>3. entry[u] = e
    BY <2>1, <2>2, <1>2 DEF IndInv, QueueIsOrdered, Waiters
  <2> QED
    BY <2>1, <2>3 DEF WokenOnBehalfOf, Waiters, Queued
<1> QED
  BY <1>7, <1>8, <1>10, <1>11, <1>12, <1>14, <1>15 DEF IndInv

(* release() unlocks the entry the registry has for the key, which is the  *)
(* one the task locked, wakes the first waiter and drops the reference.    *)
LEMMA ReleasePreserves ==
    ASSUME IndInv, NEW t \in Tasks, Release(t)
    PROVE  IndInv'
<1> USE NoKeyAssumption, NoEntryAssumption
<1>1. TypeOK
  BY DEF IndInv
<1>2. PICK e \in Entries : entry[t] = e /\ registry[key[t]] = e
  BY DEF IndInv, Release, IdleHasNothing, EntryOutlivesUsers
<1> DEFINE woken == WokenOnBehalfOf(e, t)
<1>3. /\ pc[t] = "holding"
      /\ locked' = [locked EXCEPT ![e] = FALSE]
      /\ pc' = [u \in Tasks |-> CASE u = t -> "idle"
                                  [] u \in woken -> "woken"
                                  [] OTHER -> pc[u]]
      /\ DropReference(entry[t], key[t])
      /\ key' = [key EXCEPT ![t] = NoKey]
      /\ entry' = [entry EXCEPT ![t] = NoEntry]
      /\ ahead' = ahead
  BY <1>2 DEF Release
<1>4. \A u \in Tasks : t \notin ahead[u]
  BY <1>3 DEF IndInv, QueueIsOrdered, Waiters, Queued
<1>5. \A u \in woken : /\ u \in Tasks /\ u # t /\ pc[u] = "pending" /\ entry[u] = e
                       /\ ahead[u] = {}
  BY <1>4 DEF WokenOnBehalfOf, Waiters
<1>6. /\ pc'[t] = "idle" /\ entry'[t] = NoEntry
      /\ \A u \in woken : pc'[u] = "woken"
      /\ \A u \in Tasks : u # t /\ u \notin woken => pc'[u] = pc[u]
      /\ \A u \in Tasks : u # t => entry'[u] = entry[u] /\ key'[u] = key[u]
  BY <1>1, <1>3, <1>5 DEF TypeOK
<1>7. locked'[e] = FALSE /\ \A f \in Entries : f # e => locked'[f] = locked[f]
  BY <1>1, <1>3 DEF TypeOK
<1>8. pc' \in [Tasks -> Status]
  BY <1>1, <1>3, <1>6 DEF TypeOK, Status, Queued
<1>9. /\ registry' \in [Keys -> Entries \cup {NoEntry}]
      /\ refs' \in [Entries -> Nat]
      /\ key' \in [Tasks -> Keys \cup {NoKey}]
      /\ entry' \in [Tasks -> Entries \cup {NoEntry}]
      /\ IdleHasNothing' /\ EntryOutlivesUsers' /\ OneKeyPerEntry' /\ RefsCountUsers'
  BY <1>3, <1>5, <1>6, <1>8, LeavingAnEntry, ZenonT(60)
<1>10. TypeOK'
  BY <1>1, <1>3, <1>8, <1>9 DEF TypeOK
<1>11. \A u \in Tasks : u # t =>
         /\ pc'[u] = "holding" => pc[u] = "holding"
         /\ pc[u] = "holding" => pc'[u] = "holding"
         /\ pc'[u] \in Queued => pc[u] \in Queued
         /\ pc[u] \in Queued => pc'[u] \in Queued
         /\ pc[u] # "idle" => entry[u] \in Entries
  BY <1>5, <1>6 DEF IndInv, IdleHasNothing, Queued
<1>12. \A u \in Tasks : pc[u] = "holding" /\ entry[u] = e => u = t
  <2> SUFFICES ASSUME NEW u \in Tasks, pc[u] = "holding", entry[u] = e
               PROVE  u = t
    OBVIOUS
  <2>1. key[u] \in Keys /\ key[t] \in Keys /\ registry[key[u]] = e
    BY <1>3 DEF IndInv, IdleHasNothing, EntryOutlivesUsers
  <2>2. key[u] = key[t]
    BY <2>1, <1>2 DEF IndInv, OneKeyPerEntry
  <2> QED
    BY <2>2, <1>3 DEF IndInv, MutualExclusion
<1>13. LockedMeansHeld'
  <2>1. \A u \in Tasks : pc'[u] = "holding" => locked'[entry'[u]]
    <3> SUFFICES ASSUME NEW u \in Tasks, pc'[u] = "holding" PROVE locked'[entry'[u]]
      OBVIOUS
    <3>1. u # t /\ pc[u] = "holding" /\ entry'[u] = entry[u] /\ entry[u] \in Entries
      BY <1>6, <1>11
    <3>2. locked[entry[u]] /\ entry[u] # e
      BY <3>1, <1>12 DEF IndInv, LockedMeansHeld
    <3> QED
      BY <3>1, <3>2, <1>7
  <2>2. \A f \in Entries : locked'[f] => \E u \in Tasks : pc'[u] = "holding" /\ entry'[u] = f
    <3> SUFFICES ASSUME NEW f \in Entries, locked'[f]
                 PROVE  \E u \in Tasks : pc'[u] = "holding" /\ entry'[u] = f
      OBVIOUS
    <3>1. f # e /\ locked[f]
      BY <1>7
    <3>2. PICK u \in Tasks : pc[u] = "holding" /\ entry[u] = f
      BY <3>1 DEF IndInv, LockedMeansHeld
    <3> QED
      BY <3>1, <3>2, <1>2, <1>6, <1>11
  <2> QED
    BY <2>1, <2>2 DEF LockedMeansHeld
<1>14. MutualExclusion'
  BY <1>6, <1>11 DEF IndInv, MutualExclusion
<1>15. WokenIsFirst'
  <2> SUFFICES ASSUME NEW u \in Tasks, pc'[u] \in {"woken", "doomed"}
               PROVE  ahead'[u] = {} /\ ~locked'[entry'[u]]
    BY DEF WokenIsFirst
  <2>1. u # t
    BY <1>6
  <2>2. CASE u \in woken
    BY <2>1, <2>2, <1>3, <1>5, <1>6, <1>7
  <2>3. CASE u \notin woken
    <3>1. pc[u] \in {"woken", "doomed"} /\ entry[u] \in Entries
      BY <2>1, <2>3, <1>6, <1>11
    <3>2. ahead[u] = {} /\ ~locked[entry[u]]
      BY <3>1 DEF IndInv, WokenIsFirst
    <3> QED
      BY <3>1, <3>2, <2>1, <1>3, <1>6, <1>7
  <2> QED
    BY <2>2, <2>3
<1>16. QueueIsOrdered'
  <2>1. \A u \in Tasks : pc'[u] \notin Queued => ahead'[u] = {}
    BY <1>3, <1>6, <1>11 DEF IndInv, QueueIsOrdered, Queued
  <2>2. \A u \in Tasks : \A v \in ahead'[u] :
          v \in Tasks /\ v # u /\ pc'[v] \in Queued /\ entry'[v] = entry'[u]
    <3> SUFFICES ASSUME NEW u \in Tasks, NEW v \in ahead'[u]
                 PROVE  v \in Tasks /\ v # u /\ pc'[v] \in Queued /\ entry'[v] = entry'[u]
      OBVIOUS
    <3>1. v \in ahead[u] /\ v # t
      BY <1>3, <1>4
    <3>2. v \in Tasks /\ v # u /\ pc[v] \in Queued /\ entry[v] = entry[u]
      BY <3>1 DEF IndInv, QueueIsOrdered, Waiters
    <3>3. u # t
      BY <3>1, <1>3 DEF IndInv, QueueIsOrdered, Queued
    <3> QED
      BY <3>1, <3>2, <3>3, <1>6, <1>11
  <2>3. \A u, v \in Tasks :
          pc'[u] \in Queued /\ pc'[v] \in Queued /\ entry'[u] = entry'[v] /\ u # v
          => u \in ahead'[v] \/ v \in ahead'[u]
    BY <1>3, <1>6, <1>11 DEF IndInv, QueueIsOrdered, Queued
  <2> QED
    BY <2>1, <2>2, <2>3 DEF QueueIsOrdered, Waiters
<1>17. NoLostWakeup'
  <2> SUFFICES ASSUME NEW u \in Tasks, pc'[u] = "pending", ~locked'[entry'[u]],
                      ahead'[u] = {}
               PROVE  FALSE
    BY DEF NoLostWakeup
  <2>1. u # t /\ u \notin woken /\ pc[u] = "pending" /\ entry[u] \in Entries /\ ahead[u] = {}
        /\ entry'[u] = entry[u]
    BY <1>3, <1>6, <1>11
  <2>2. entry[u] # e
    BY <2>1 DEF WokenOnBehalfOf, Waiters, Queued
  <2>3. ~locked[entry[u]]
    BY <2>1, <2>2, <1>7
  <2> QED
    BY <2>1, <2>3 DEF IndInv, NoLostWakeup, Queued
<1> QED
  BY <1>9, <1>10, <1>13, <1>14, <1>15, <1>16, <1>17 DEF IndInv

(* Every step of the event loop preserves the invariant.                   *)
LEMMA NextPreserves == IndInv /\ [Next]_vars => IndInv'
<1> SUFFICES ASSUME IndInv, [Next]_vars PROVE IndInv'
  OBVIOUS
<1>1. ASSUME NEW t \in Tasks, NEW k \in Keys, Acquire(t, k) PROVE IndInv'
  BY <1>1, AcquirePreserves
<1>2. ASSUME NEW t \in Tasks, Resume(t) PROVE IndInv'
  BY <1>2, ResumePreserves
<1>3. ASSUME NEW t \in Tasks, CancelWaiter(t) PROVE IndInv'
  BY <1>3, CancelWaiterPreserves
<1>4. ASSUME NEW t \in Tasks, LeaveQueue(t) PROVE IndInv'
  BY <1>4, LeaveQueuePreserves
<1>5. ASSUME NEW t \in Tasks, Release(t) PROVE IndInv'
  BY <1>5, ReleasePreserves
<1>6. CASE UNCHANGED vars
  <2>1. \A e : Users(e)' = Users(e) /\ Waiters(e)' = Waiters(e)
    BY <1>6 DEF vars, Users, Waiters
  <2>2. TypeOK' /\ IdleHasNothing' /\ EntryOutlivesUsers' /\ OneKeyPerEntry'
    BY <1>6 DEF vars, IndInv, TypeOK, IdleHasNothing, EntryOutlivesUsers, OneKeyPerEntry
  <2>3. RefsCountUsers'
    BY <1>6, <2>1 DEF vars, IndInv, RefsCountUsers
  <2>4. LockedMeansHeld' /\ MutualExclusion' /\ WokenIsFirst'
    BY <1>6 DEF vars, IndInv, LockedMeansHeld, MutualExclusion, WokenIsFirst
  <2>5. QueueIsOrdered'
    BY <1>6, <2>1 DEF vars, IndInv, QueueIsOrdered
  <2>6. NoLostWakeup'
    BY <1>6, <2>1 DEF vars, IndInv, NoLostWakeup
  <2> QED
    BY <2>2, <2>3, <2>4, <2>5, <2>6 DEF IndInv
<1> QED
  BY <1>1, <1>2, <1>3, <1>4, <1>5, <1>6 DEF Next

(* The invariant of core/keyed_lock.py, in every reachable state.          *)
THEOREM LockInvariant == Spec => []IndInv
  BY InitIndInv, NextPreserves, PTL DEF Spec

(* The state of the registry, the entries and the waiters stays well formed. *)
THEOREM TypeCorrect == Spec => []TypeOK
  BY LockInvariant, PTL DEF IndInv

(* At most one task is inside the critical section of a key.               *)
THEOREM Exclusion == Spec => []MutualExclusion
  BY LockInvariant, PTL DEF IndInv

(* An entry is registered exactly while somebody uses it, its reference    *)
(* count is the number of its users, and no user ever loses it.            *)
THEOREM RegistryCountsUsers == Spec => [](EntryOutlivesUsers /\ RefsCountUsers)
  BY LockInvariant, PTL DEF IndInv

(* A free key with waiters always has a wake-up under way.                 *)
THEOREM WakeupsAreKept == Spec => []NoLostWakeup
  BY LockInvariant, PTL DEF IndInv

(* A task that waits is never overtaken.                                   *)
THEOREM Fifo == Spec => FirstComeFirstServed
<1> DEFINE Fair == \A t, u \in Tasks :
                      (/\ pc[t] # "holding" /\ pc'[t] = "holding"
                       /\ pc[u] \in {"pending", "woken"} /\ key[u] = key'[t])
                      => (pc[t] # "idle" /\ u \notin ahead[t])
<1>1. ASSUME IndInv, [Next]_vars PROVE [Fair]_vars
  <2> SUFFICES ASSUME Next, NEW t \in Tasks, NEW u \in Tasks,
                      pc[t] # "holding", pc'[t] = "holding",
                      pc[u] \in {"pending", "woken"}, key[u] = key'[t]
               PROVE  pc[t] # "idle" /\ u \notin ahead[t]
    BY <1>1
  <2>1. TypeOK
    BY <1>1 DEF IndInv
  <2>2. ASSUME NEW v \in Tasks, NEW k \in Keys, Acquire(v, k) PROVE FALSE
    <3>1. PICK e \in EntryFor(k) :
            /\ key' = [key EXCEPT ![v] = k]
            /\ \/ MayTakeAtOnce(e) /\ pc' = [pc EXCEPT ![v] = "holding"]
               \/ pc' = [pc EXCEPT ![v] = "pending"]
      BY <2>2 DEF Acquire
    <3>2. v = t /\ MayTakeAtOnce(e) /\ key[u] = k
      BY <3>1, <2>1 DEF TypeOK
    <3>3. entry[u] = registry[k] /\ entry[u] \in Entries
      BY <3>2, <1>1 DEF IndInv, EntryOutlivesUsers, IdleHasNothing
    <3>4. e = registry[k]
      BY <3>3, NoEntryAssumption DEF EntryFor
    <3> QED
      BY <3>2, <3>3, <3>4 DEF MayTakeAtOnce, Waiters, Queued
  <2>3. ASSUME NEW v \in Tasks, Resume(v) PROVE pc[t] # "idle" /\ u \notin ahead[t]
    <3>1. v = t /\ pc[t] = "woken"
      BY <2>1, <2>3 DEF Resume, TypeOK
    <3> QED
      BY <3>1, <1>1 DEF IndInv, WokenIsFirst
  <2>4. ASSUME NEW v \in Tasks, CancelWaiter(v) PROVE FALSE
    BY <2>1, <2>4 DEF CancelWaiter, TypeOK
  <2>5. ASSUME NEW v \in Tasks, LeaveQueue(v) PROVE FALSE
    BY <2>1, <2>5 DEF LeaveQueue, TypeOK
  <2>6. ASSUME NEW v \in Tasks, Release(v) PROVE FALSE
    BY <2>1, <2>6 DEF Release, TypeOK
  <2> QED
    BY <2>2, <2>3, <2>4, <2>5, <2>6 DEF Next
<1>2. Spec => []IndInv
  BY LockInvariant
<1> QED
  BY <1>1, <1>2, PTL DEF Spec, FirstComeFirstServed

-----------------------------------------------------------------------------
(* The refinement. *)

LEMMA SoleElement == \A t : Sole({}) = NoTask /\ Sole({t}) = t
  BY DEF Sole

(* A step that changes the holder of one key changes the owner of that key. *)
LEMMA OwnerChange ==
    ASSUME NEW k \in Keys, NEW x, Sole(Holder(k)') = x,
           \A l \in Keys : l # k => Holder(l)' = Holder(l)
    PROVE  AbstractOwner' = [AbstractOwner EXCEPT ![k] = x]
  BY DEF AbstractOwner

(* Every operation of the keyed lock is an operation of the mutex.         *)
LEMMA StepImplements == IndInv /\ [Next]_vars => [Mutex!MutexNext]_<<AbstractOwner, AbstractWaiting>>
<1> SUFFICES ASSUME IndInv, [Next]_vars
             PROVE  Mutex!MutexNext \/ UNCHANGED <<AbstractOwner, AbstractWaiting>>
  BY DEF Mutex!mutexVars
<1> USE NoKeyAssumption, NoEntryAssumption
<1>1. TypeOK
  BY DEF IndInv
<1>2. \A t \in Tasks, k \in Keys : pc[t] = "holding" /\ key[t] = k => Holder(k) = {t}
  BY DEF IndInv, MutualExclusion, Holder
<1>3. \A t \in Tasks : pc[t] = "idle" => Mutex!Idle(t)
  <2> SUFFICES ASSUME NEW t \in Tasks, pc[t] = "idle", NEW k \in Keys
               PROVE  t \notin AbstractWaiting[k] /\ AbstractOwner[k] # t
    BY DEF Mutex!Idle
  <2>1. t \notin AbstractWaiting[k]
    BY DEF AbstractWaiting, Awaiting, Queued
  <2>2. CASE Holder(k) = {}
    BY <2>1, <2>2, SoleElement, TasksAssumption DEF AbstractOwner
  <2>3. CASE Holder(k) # {}
    <3>1. PICK v \in Tasks : pc[v] = "holding" /\ key[v] = k
      BY <2>3 DEF Holder
    <3>2. AbstractOwner[k] = v
      BY <3>1, <1>2, SoleElement DEF AbstractOwner
    <3> QED
      BY <2>1, <3>1, <3>2
  <2> QED
    BY <2>2, <2>3
<1>4. ASSUME NEW t \in Tasks, NEW k \in Keys, Acquire(t, k)
      PROVE  Mutex!Take(t, k) \/ Mutex!Request(t, k)
  <2>1. PICK e \in EntryFor(k) :
          /\ key' = [key EXCEPT ![t] = k]
          /\ \/ MayTakeAtOnce(e) /\ pc' = [pc EXCEPT ![t] = "holding"]
             \/ pc' = [pc EXCEPT ![t] = "pending"]
    BY <1>4 DEF Acquire
  <2>2. pc[t] = "idle" /\ Mutex!Idle(t)
    BY <1>3, <1>4 DEF Acquire
  <2>3. CASE MayTakeAtOnce(e) /\ pc' = [pc EXCEPT ![t] = "holding"]
    <3>1. Holder(k) = {}
      <4> SUFFICES ASSUME NEW v \in Tasks, pc[v] = "holding", key[v] = k PROVE FALSE
        BY DEF Holder
      <4>1. entry[v] = registry[k] /\ entry[v] \in Entries
        BY DEF IndInv, EntryOutlivesUsers, IdleHasNothing
      <4>2. e = entry[v]
        BY <4>1 DEF EntryFor
      <4> QED
        BY <4>2, <2>3 DEF IndInv, LockedMeansHeld, MayTakeAtOnce
    <3>2. Holder(k)' = {t} /\ \A l \in Keys : l # k => Holder(l)' = Holder(l)
      BY <2>1, <2>2, <2>3, <3>1, <1>1 DEF Holder, TypeOK
    <3>3. AbstractOwner' = [AbstractOwner EXCEPT ![k] = t]
      BY <3>2, SoleElement, OwnerChange
    <3>4. AbstractOwner[k] = NoTask
      BY <3>1, SoleElement DEF AbstractOwner
    <3>5. AbstractWaiting' = AbstractWaiting
      BY <2>1, <2>2, <2>3, <1>1 DEF AbstractWaiting, Awaiting, Queued, TypeOK
    <3> QED
      BY <2>2, <3>3, <3>4, <3>5 DEF Mutex!Take
  <2>4. CASE pc' = [pc EXCEPT ![t] = "pending"]
    <3>1. \A l \in Keys : Holder(l)' = Holder(l)
      BY <2>1, <2>2, <2>4, <1>1 DEF Holder, TypeOK
    <3>2. AbstractOwner' = AbstractOwner
      BY <3>1 DEF AbstractOwner
    <3>3. AbstractWaiting' = [AbstractWaiting EXCEPT ![k] = @ \cup {t}]
      <4>1. Awaiting(k)' = Awaiting(k) \cup {t}
        BY <2>1, <2>2, <2>4, <1>1 DEF Awaiting, Queued, TypeOK
      <4>2. \A l \in Keys : l # k => Awaiting(l)' = Awaiting(l)
        BY <2>1, <2>2, <2>4, <1>1 DEF Awaiting, Queued, TypeOK
      <4> QED
        BY <4>1, <4>2 DEF AbstractWaiting
    <3> QED
      BY <2>2, <3>2, <3>3 DEF Mutex!Request
  <2> QED
    BY <2>1, <2>3, <2>4
<1>5. ASSUME NEW t \in Tasks, Resume(t) PROVE Mutex!Grant(t, key[t])
  <2>1. pc[t] = "woken" /\ pc' = [pc EXCEPT ![t] = "holding"] /\ key' = key
    BY <1>5 DEF Resume
  <2>2. PICK k \in Keys : key[t] = k
    BY <2>1 DEF IndInv, IdleHasNothing
  <2>3. Holder(k) = {}
    <3> SUFFICES ASSUME NEW v \in Tasks, pc[v] = "holding", key[v] = k PROVE FALSE
      BY DEF Holder
    <3>1. entry[v] = entry[t]
      BY <2>1, <2>2 DEF IndInv, EntryOutlivesUsers
    <3> QED
      BY <2>1, <3>1 DEF IndInv, LockedMeansHeld, WokenIsFirst
  <2>4. Holder(k)' = {t} /\ \A l \in Keys : l # k => Holder(l)' = Holder(l)
    BY <2>1, <2>2, <2>3, <1>1 DEF Holder, TypeOK
  <2>5. AbstractOwner' = [AbstractOwner EXCEPT ![k] = t] /\ AbstractOwner[k] = NoTask
    BY <2>3, <2>4, SoleElement, OwnerChange DEF AbstractOwner
  <2>6. t \in AbstractWaiting[k] /\ AbstractWaiting' = [AbstractWaiting EXCEPT ![k] = @ \ {t}]
    <3>1. Awaiting(k)' = Awaiting(k) \ {t} /\ t \in Awaiting(k)
      BY <2>1, <2>2, <1>1 DEF Awaiting, Queued, TypeOK
    <3>2. \A l \in Keys : l # k => Awaiting(l)' = Awaiting(l)
      BY <2>1, <2>2, <1>1 DEF Awaiting, Queued, TypeOK
    <3> QED
      BY <3>1, <3>2 DEF AbstractWaiting
  <2> QED
    BY <2>2, <2>5, <2>6 DEF Mutex!Grant
<1>6. ASSUME NEW t \in Tasks, CancelWaiter(t)
      PROVE  UNCHANGED <<AbstractOwner, AbstractWaiting>>
  <2>1. \A k \in Keys : Holder(k)' = Holder(k)
    BY <1>1, <1>6 DEF CancelWaiter, Holder, TypeOK
  <2>2. AbstractOwner' = AbstractOwner
    BY <2>1 DEF AbstractOwner
  <2>3. AbstractWaiting' = AbstractWaiting
    BY <1>1, <1>6 DEF CancelWaiter, AbstractWaiting, Awaiting, Queued, TypeOK
  <2> QED
    BY <2>2, <2>3
<1>7. ASSUME NEW t \in Tasks, LeaveQueue(t) PROVE Mutex!Abandon(t, key[t])
  <2>1. /\ pc[t] \in {"cancelled", "doomed"}
        /\ pc'[t] = "idle"
        /\ \A u \in Tasks : u # t => key'[u] = key[u] /\ (pc'[u] = pc[u] \/ (pc[u] = "pending" /\ pc'[u] = "woken"))
    BY <1>1, <1>7 DEF LeaveQueue, WokenOnBehalfOf, TypeOK
  <2>2. PICK k \in Keys : key[t] = k
    BY <2>1 DEF IndInv, IdleHasNothing
  <2>3. \A l \in Keys : Holder(l)' = Holder(l)
    BY <2>1 DEF Holder
  <2>4. AbstractOwner' = AbstractOwner
    BY <2>3 DEF AbstractOwner
  <2>5. t \in AbstractWaiting[k] /\ AbstractWaiting' = [AbstractWaiting EXCEPT ![k] = @ \ {t}]
    BY <2>1, <2>2, ZenonT(60) DEF AbstractWaiting, Awaiting, Queued
  <2> QED
    BY <2>2, <2>4, <2>5 DEF Mutex!Abandon
<1>8. ASSUME NEW t \in Tasks, Release(t) PROVE Mutex!Release(t, key[t])
  <2>1. /\ pc[t] = "holding"
        /\ pc'[t] = "idle"
        /\ \A u \in Tasks : u # t => key'[u] = key[u] /\ (pc'[u] = pc[u] \/ (pc[u] = "pending" /\ pc'[u] = "woken"))
    BY <1>1, <1>8 DEF Release, WokenOnBehalfOf, TypeOK
  <2>2. PICK k \in Keys : key[t] = k
    BY <2>1 DEF IndInv, IdleHasNothing
  <2>3. Holder(k) = {t}
    BY <2>1, <2>2, <1>2
  <2>4. Holder(k)' = {} /\ \A l \in Keys : l # k => Holder(l)' = Holder(l)
    BY <2>1, <2>2, <2>3 DEF Holder
  <2>5. AbstractOwner' = [AbstractOwner EXCEPT ![k] = NoTask] /\ AbstractOwner[k] = t
    BY <2>3, <2>4, SoleElement, OwnerChange DEF AbstractOwner
  <2>6. AbstractWaiting' = AbstractWaiting
    BY <2>1 DEF AbstractWaiting, Awaiting, Queued
  <2> QED
    BY <2>2, <2>5, <2>6 DEF Mutex!Release
<1>9. \A t \in Tasks : pc[t] # "idle" => key[t] \in Keys
  BY DEF IndInv, IdleHasNothing
<1>10. CASE UNCHANGED vars
  BY <1>10 DEF vars, AbstractOwner, AbstractWaiting, Awaiting, Holder
<1>11. CASE Next
  <2>1. CASE \E t \in Tasks : \E k \in Keys : Acquire(t, k)
    BY <2>1, <1>4 DEF Mutex!MutexNext
  <2>2. CASE \E t \in Tasks : Resume(t)
    BY <2>2, <1>5, <1>9 DEF Mutex!MutexNext, Resume
  <2>3. CASE \E t \in Tasks : CancelWaiter(t)
    BY <2>3, <1>6
  <2>4. CASE \E t \in Tasks : LeaveQueue(t)
    BY <2>4, <1>7, <1>9 DEF Mutex!MutexNext, LeaveQueue
  <2>5. CASE \E t \in Tasks : Release(t)
    BY <2>5, <1>8, <1>9 DEF Mutex!MutexNext, Release
  <2> QED
    BY <1>11, <2>1, <2>2, <2>3, <2>4, <2>5 DEF Next
<1> QED
  BY <1>10, <1>11

(* The registry of reference-counted entries implements one mutual         *)
(* exclusion per key: whatever is shown of code written against KeyedMutex *)
(* holds of code that runs on core/keyed_lock.py.                          *)
THEOREM Refinement == Spec => ImplementsKeyedMutex
<1>1. Init => Mutex!MutexInit
  <2> SUFFICES ASSUME Init PROVE Mutex!MutexInit
    OBVIOUS
  <2>1. \A k \in Keys : Holder(k) = {}
    BY DEF Init, Holder
  <2>2. AbstractOwner = [k \in Keys |-> NoTask]
    BY <2>1, SoleElement DEF AbstractOwner
  <2>3. AbstractWaiting = [k \in Keys |-> {}]
    BY DEF Init, AbstractWaiting, Awaiting, Queued
  <2> QED
    BY <2>2, <2>3 DEF Mutex!MutexInit
<1>2. Spec => []IndInv
  BY LockInvariant
<1>3. IndInv /\ [Next]_vars => [Mutex!MutexNext]_<<AbstractOwner, AbstractWaiting>>
  BY StepImplements
<1> QED
  BY <1>1, <1>2, <1>3, PTL DEF Spec, ImplementsKeyedMutex, Mutex!MutexSpec, Mutex!mutexVars
=============================================================================
