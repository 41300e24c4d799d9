---------------------- MODULE AuthenticatedAnswerProofs ----------------------
(***************************************************************************)
(* Proofs about the way of an authenticated question: about JwksCache,     *)
(* whose keys verify its token, for any number of calls and key ids and    *)
(* any age limit and cooldown; then about RagAnswer, for any index and     *)
(* access lists, any callers, configurations and replies, any budget and   *)
(* any number of hits.                                                     *)
(***************************************************************************)
EXTENDS JwksCache, RagAnswer, FiniteSetTheorems, SequenceTheorems, TLAPS

-----------------------------------------------------------------------------
(* The signing keys: the inductive invariant. *)

\* Whoever is refreshing holds the lock.
RefreshersHoldLock == \A r \in Calls : task[r] \in Refreshing => holder = r

\* The attempt is stamped no earlier than the refresh goes out.
AttemptsAreStamped == attempted <= lastFetch

\* What a refresh is answered with is a key set.
AnswersAreSets == \A r \in Calls : task[r] = "answered" => got[r] \in KeySets

SafetyInvariant == TypeOK /\ RefreshersHoldLock /\ AttemptsAreStamped /\ AnswersAreSets

LEMMA InitSafety == JwksInit => SafetyInvariant
<1> SUFFICES ASSUME JwksInit PROVE SafetyInvariant
  OBVIOUS
<1>1. TypeOK
  <2>1. published \in KeySets /\ cache \in KeySets
    BY DEF JwksInit
  <2>2. /\ age \in 0 .. MaxAge
        /\ attempted \in 0 .. Cooldown /\ lastFetch \in 0 .. Cooldown
    BY TimesAssumption DEF JwksInit
  <2>3. /\ got \in [Calls -> SUBSET Kids]
        /\ kid \in [Calls -> Kids \cup {NoKid}]
        /\ queue \in Seq(Calls)
    BY DEF JwksInit
  <2> QED
    BY <2>1, <2>2, <2>3 DEF JwksInit, TypeOK
<1>2. RefreshersHoldLock /\ AttemptsAreStamped /\ AnswersAreSets
  BY DEF JwksInit, RefreshersHoldLock, AttemptsAreStamped, AnswersAreSets, Refreshing
<1> QED
  BY <1>1, <1>2 DEF SafetyInvariant

\* The end of a request changes neither the lock nor the clocks.
LEMMA EndKeeps ==
    ASSUME SafetyInvariant, NEW r \in Calls, NEW k, NEW keys, AnswerFrom(r, k, keys)
    PROVE  /\ task' = [task EXCEPT ![r] = "done"]
           /\ outcome' \in [Calls -> {"none", "accepted", "rejected", "crashed", "cancelled"}]
  BY DEF SafetyInvariant, TypeOK, AnswerFrom, End, Goto

\* The owner of the free lock: it goes home, crashes or starts its refresh.
LEMMA InsideLockKeeps ==
    ASSUME SafetyInvariant, NEW r \in Calls, NEW k, NEW why,
           holder = NoCall, InsideLock(r, k, why), age' = age
    PROVE  /\ task' \in [Calls -> {"new", "queued", "done"} \cup Refreshing]
           /\ outcome' \in [Calls -> {"none", "accepted", "rejected", "crashed", "cancelled"}]
           /\ holder' \in Calls \cup {NoCall}
           /\ attempted' \in 0 .. Cooldown /\ lastFetch' \in 0 .. Cooldown
           /\ attempted' <= lastFetch'
           /\ \A q \in Calls : task'[q] \in Refreshing => holder' = q
           /\ \A q \in Calls : task'[q] # "answered"
           /\ task'[r] = "discovering" => lastFetch = Cooldown
<1>1. \A q \in Calls : task[q] \notin Refreshing
  BY NoCallAssumption DEF SafetyInvariant, RefreshersHoldLock
<1>2. CASE Declines(k, why) /\ AnswerFrom(r, k, cache) /\ UNCHANGED <<attempted, holder, lastFetch>>
  BY <1>1, <1>2, EndKeeps DEF SafetyInvariant, TypeOK, AttemptsAreStamped, Refreshing
<1>3. CASE ~Declines(k, why) /\ StartFetch(r)
  <2>1. attempted = Cooldown /\ lastFetch = Cooldown
    BY <1>3, TimesAssumption DEF Declines, SafetyInvariant, TypeOK, AttemptsAreStamped
  <2>2. CASE closed
    BY <1>1, <1>3, <2>1, <2>2, TimesAssumption, SMTT(30)
       DEF StartFetch, End, Goto, SafetyInvariant, TypeOK, Refreshing
  <2>3. CASE ~closed
    BY <1>1, <1>3, <2>1, <2>3, TimesAssumption
       DEF StartFetch, Goto, SafetyInvariant, TypeOK, Refreshing
  <2> QED
    BY <2>2, <2>3
<1> QED
  BY <1>2, <1>3 DEF InsideLock

-----------------------------------------------------------------------------
(* Every step keeps the invariant. *)

LEMMA ArrivalSafety ==
    ASSUME SafetyInvariant, NEW r \in Calls, NEW k \in Kids,
           Serve(r, k) \/ ServeClosed(r, k) \/ Refresh(r, k) \/ QueueUp(r, k)
    PROVE  SafetyInvariant'
<1> USE DEF SafetyInvariant, TypeOK, RefreshersHoldLock, AttemptsAreStamped, AnswersAreSets
<1>1. CASE Serve(r, k)
  BY <1>1 DEF Serve, End, Goto, Refreshing, cacheVars, lockVars
<1>2. CASE ServeClosed(r, k)
  BY <1>2, EndKeeps DEF ServeClosed, Refreshing, cacheVars, lockVars
<1>3. CASE Refresh(r, k)
  <2>1. reason' \in [Calls -> {"none", "miss", "age"}] /\ kid' \in [Calls -> Kids \cup {NoKid}]
    BY <1>3 DEF Refresh, ReasonFor
  <2> QED
    BY <1>3, <2>1, InsideLockKeeps DEF Refresh
<1>4. CASE QueueUp(r, k)
  <2>1. queue' \in Seq(Calls)
    BY <1>4 DEF QueueUp
  <2>2. reason' \in [Calls -> {"none", "miss", "age"}] /\ kid' \in [Calls -> Kids \cup {NoKid}]
    BY <1>4 DEF QueueUp, ReasonFor
  <2> QED
    BY <1>4, <2>1, <2>2 DEF QueueUp, Goto, Refreshing, cacheVars
<1> QED
  BY <1>1, <1>2, <1>3, <1>4

LEMMA WorkSafety ==
    ASSUME SafetyInvariant, NEW r \in Calls, Works(r)
    PROVE  SafetyInvariant'
<1> USE DEF SafetyInvariant, TypeOK, RefreshersHoldLock, AttemptsAreStamped, AnswersAreSets
<1>1. CASE Resume(r)
  <2>1. queue' \in Seq(Calls)
    BY <1>1 DEF Resume
  <2> QED
    BY <1>1, <2>1, InsideLockKeeps DEF Resume
<1>2. CASE DiscoveryArrives(r)
  BY <1>2, NoCallAssumption DEF DiscoveryArrives, End, Goto, Refreshing, cacheVars
<1>3. CASE KeysServed(r)
  <2>1. got' \in [Calls -> SUBSET Kids]
    BY <1>3 DEF KeysServed, KeySets
  <2> QED
    BY <1>3, <2>1 DEF KeysServed, Goto, Refreshing, cacheVars, lockVars
<1>4. CASE FetchFails(r)
  BY <1>4, EndKeeps, NoCallAssumption, SMTT(30) DEF FetchFails, Refreshing, cacheVars
<1>5. CASE Publish(r)
  <2>1. cache' \in KeySets /\ age' \in 0 .. MaxAge
    BY <1>5, TimesAssumption DEF Publish
  <2>2. /\ task' = [task EXCEPT ![r] = "done"]
        /\ outcome' \in [Calls -> {"none", "accepted", "rejected", "crashed", "cancelled"}]
    BY <1>5, EndKeeps DEF Publish
  <2> QED
    BY <1>5, <2>1, <2>2, NoCallAssumption DEF Publish, Refreshing
<1> QED
  BY <1>1, <1>2, <1>3, <1>4, <1>5 DEF Works

LEMMA CancelSafety ==
    ASSUME SafetyInvariant, NEW r \in Calls, Cancel(r)
    PROVE  SafetyInvariant'
<1> USE DEF SafetyInvariant, TypeOK, RefreshersHoldLock, AttemptsAreStamped, AnswersAreSets
<1>1. CASE task[r] = "queued"
  <2>1. holder' = holder
    BY <1>1 DEF Cancel, Refreshing
  <2>2. PICK i \in DOMAIN queue : queue' = RemoveAt(queue, i)
    BY <1>1 DEF Cancel, Refreshing
  <2>3. queue' \in Seq(Calls)
    BY <2>2 DEF RemoveAt
  <2> QED
    BY <1>1, <2>1, <2>3 DEF Cancel, End, Goto, Refreshing, cacheVars
<1>2. CASE task[r] \in Refreshing
  BY <1>2, NoCallAssumption DEF Cancel, End, Goto, Refreshing, cacheVars
<1> QED
  BY <1>1, <1>2 DEF Cancel

LEMMA StepSafety == SafetyInvariant /\ [JwksNext]_jwksVars => SafetyInvariant'
<1> SUFFICES ASSUME SafetyInvariant, [JwksNext]_jwksVars PROVE SafetyInvariant'
  OBVIOUS
<1> USE DEF SafetyInvariant, TypeOK, RefreshersHoldLock, AttemptsAreStamped, AnswersAreSets
<1>1. ASSUME NEW r \in Calls, Arrives(r) PROVE SafetyInvariant'
  BY <1>1, ArrivalSafety DEF Arrives
<1>2. ASSUME NEW r \in Calls, Works(r) PROVE SafetyInvariant'
  BY <1>2, WorkSafety
<1>3. ASSUME NEW r \in Calls, Cancel(r) PROVE SafetyInvariant'
  BY <1>3, CancelSafety
<1>4. CASE Close
  BY <1>4 DEF Close, lockVars, requestVars
<1>5. CASE Rotate
  BY <1>5 DEF Rotate, cacheVars, lockVars, requestVars
<1>6. CASE Tick
  BY <1>6, TimesAssumption DEF Tick, OneMore, lockVars, requestVars
<1>7. CASE UNCHANGED jwksVars
  BY <1>7 DEF jwksVars, cacheVars, lockVars, requestVars
<1> QED
  BY <1>1, <1>2, <1>3, <1>4, <1>5, <1>6, <1>7 DEF JwksNext

THEOREM SafetyHolds == JwksSpec => []SafetyInvariant
  BY InitSafety, StepSafety, PTL DEF JwksSpec

(* Every variable keeps its type; in particular the live key set is never  *)
(* empty and never a partly read one.                                      *)
THEOREM TypeCorrect == JwksSpec => []TypeOK
  BY SafetyHolds, PTL DEF SafetyInvariant

-----------------------------------------------------------------------------
(* What an answer and a refresh rest on. *)

\* Whose task or outcome a step of a request may change.
LEMMA OnlyOwnAnswer ==
    ASSUME SafetyInvariant, NEW r \in Calls, Arrives(r) \/ Works(r) \/ Cancel(r),
           NEW q \in Calls, q # r
    PROVE  task'[q] = task[q] /\ outcome'[q] = outcome[q]
  BY DEF Arrives, Works, Cancel, Serve, ServeClosed, Refresh, QueueUp, Resume, InsideLock,
         StartFetch, DiscoveryArrives, KeysServed, FetchFails, Publish, AnswerFrom, End,
         Goto, SafetyInvariant, TypeOK

(* Refreshes go out at least a cooldown apart: the attempt is stamped      *)
(* before the requests are sent (services/entra_jwt.py:364-368).           *)
THEOREM RateLimit == JwksSpec => RefreshesAreRateLimited
<1> DEFINE A == \A r \in Calls : task[r] # "discovering" /\ task'[r] = "discovering" =>
                    lastFetch = Cooldown
<1>1. SafetyInvariant /\ [JwksNext]_jwksVars => [A]_jwksVars
  <2> SUFFICES ASSUME SafetyInvariant, JwksNext, NEW r \in Calls,
                      task[r] # "discovering", task'[r] = "discovering"
               PROVE  lastFetch = Cooldown
    OBVIOUS
  <2>1. Arrives(r) \/ Works(r) \/ Cancel(r)
    BY OnlyOwnAnswer DEF JwksNext, Close, Rotate, Tick, requestVars
  <2>2. CASE \E k \in Kids : Refresh(r, k)
    BY <2>2, InsideLockKeeps DEF Refresh
  <2>3. CASE Resume(r)
    BY <2>3, InsideLockKeeps DEF Resume
  <2>4. CASE ~(\E k \in Kids : Refresh(r, k)) /\ ~Resume(r)
    BY <2>1, <2>4
       DEF Arrives, Works, Cancel, Serve, ServeClosed, QueueUp, DiscoveryArrives, KeysServed,
           FetchFails, Publish, AnswerFrom, End, Goto, SafetyInvariant, TypeOK
  <2> QED
    BY <2>2, <2>3, <2>4
<1> QED
  BY <1>1, SafetyHolds, PTL DEF JwksSpec, RefreshesAreRateLimited

(* A request is not refused while another one's refresh is under way: it   *)
(* waited for the lock, or it is the one that refreshed.                   *)
THEOREM NoHastyRejection == JwksSpec => NoRejectionDuringRefresh
<1> DEFINE A == \A r \in Calls : Answers(r, "rejected") => closed \/ holder \in {NoCall, r}
<1>1. SafetyInvariant /\ [JwksNext]_jwksVars => [A]_jwksVars
  <2> SUFFICES ASSUME SafetyInvariant, JwksNext, NEW r \in Calls,
                      outcome[r] # "rejected", outcome'[r] = "rejected"
               PROVE  closed \/ holder \in {NoCall, r}
    BY DEF Answers
  <2>1. Arrives(r) \/ Works(r) \/ Cancel(r)
    BY OnlyOwnAnswer DEF JwksNext, Close, Rotate, Tick, requestVars
  <2> QED
    BY <2>1
       DEF Arrives, Works, Cancel, Serve, ServeClosed, Refresh, QueueUp, Resume,
           DiscoveryArrives, KeysServed, FetchFails, Publish, End, Goto, SafetyInvariant,
           TypeOK, RefreshersHoldLock, Refreshing
<1> QED
  BY <1>1, SafetyHolds, PTL DEF JwksSpec, NoRejectionDuringRefresh

(* Every answer agrees with the key set that is live when it is given: the *)
(* lookup is repeated after a refresh (services/entra_jwt.py:264-273).     *)
THEOREM AnswersAreCurrent == JwksSpec => AnswersFromLiveKeys
<1> DEFINE Agrees(r) == /\ Answers(r, "accepted") => kid'[r] \in cache'
                        /\ Answers(r, "rejected") => kid'[r] \notin cache'
<1>1. ASSUME SafetyInvariant, NEW r \in Calls, NEW k \in Kids,
             Serve(r, k) \/ ServeClosed(r, k) \/ Refresh(r, k)
      PROVE  Agrees(r)
  <2>1. kid'[r] = k /\ cache' = cache
    BY <1>1 DEF Serve, ServeClosed, Refresh, cacheVars, SafetyInvariant, TypeOK
  <2> QED
    BY <1>1, <2>1
       DEF Answers, Serve, ServesAtOnce, ServeClosed, Refresh, InsideLock, StartFetch,
           AnswerFrom, End, SafetyInvariant, TypeOK
<1>2. ASSUME SafetyInvariant, NEW r \in Calls, Works(r)
      PROVE  Agrees(r)
  BY <1>2
     DEF Answers, Works, Resume, InsideLock, StartFetch, DiscoveryArrives, KeysServed,
         FetchFails, Publish, AnswerFrom, End, cacheVars, SafetyInvariant, TypeOK
<1>3. ASSUME SafetyInvariant, [JwksNext]_jwksVars, NEW r \in Calls
      PROVE  Agrees(r)
  <2> SUFFICES ASSUME outcome'[r] # outcome[r], outcome'[r] \in {"accepted", "rejected"}
               PROVE  Agrees(r)
    BY DEF Answers
  <2>1. Arrives(r) \/ Works(r) \/ Cancel(r)
    BY <1>3, OnlyOwnAnswer DEF JwksNext, Close, Rotate, Tick, requestVars, jwksVars
  <2>2. ~Cancel(r)
    BY <1>3 DEF Cancel, End, SafetyInvariant, TypeOK
  <2>3. CASE \E k \in Kids : QueueUp(r, k)
    BY <2>3 DEF QueueUp
  <2> QED
    BY <1>1, <1>2, <1>3, <2>1, <2>2, <2>3 DEF Arrives
<1> QED
  <2>1. SafetyInvariant /\ [JwksNext]_jwksVars => [\A r \in Calls : Agrees(r)]_jwksVars
    BY <1>3
  <2> QED
    BY <2>1, SafetyHolds, PTL DEF JwksSpec, AnswersFromLiveKeys

(* Whoever is served from an aged set is served while a refresh runs or    *)
(* after one was tried within the cooldown, unless the client is closed or *)
(* his key was missing when he came (services/entra_jwt.py: the age        *)
(* trigger and its single flight).                                         *)
THEOREM AgedKeysAreNoticed == JwksSpec => AgedKeysAreRefreshed
<1> DEFINE Noticed(r) ==
        Answers(r, "accepted") /\ IsStale' /\ reason'[r] # "miss" =>
            \/ holder # NoCall
            \/ attempted < Cooldown
            \/ closed
<1>1. ASSUME SafetyInvariant, NEW r \in Calls, NEW k \in Kids,
             Serve(r, k) \/ ServeClosed(r, k)
      PROVE  Noticed(r)
  BY <1>1 DEF Serve, ServesAtOnce, ServeClosed, IsStale, cacheVars
<1>2. ASSUME SafetyInvariant, NEW r \in Calls, NEW k \in Kids, Refresh(r, k)
      PROVE  Noticed(r)
  <2> SUFFICES ASSUME outcome[r] # "accepted", outcome'[r] = "accepted", IsStale'
               PROVE  attempted < Cooldown
    BY DEF Answers
  <2>1. Declines(k, ReasonFor(k)) /\ k \in cache
    BY <1>2 DEF Refresh, InsideLock, StartFetch, AnswerFrom, End, SafetyInvariant, TypeOK
  <2>2. IsStale /\ ReasonFor(k) = "age"
    BY <1>2, <2>1 DEF Refresh, IsStale, ReasonFor
  <2> QED
    BY <2>1, <2>2 DEF Declines
<1>3. ASSUME SafetyInvariant, NEW r \in Calls, Resume(r)
      PROVE  Noticed(r)
  <2> SUFFICES ASSUME outcome[r] # "accepted", outcome'[r] = "accepted", IsStale', reason[r] # "miss"
               PROVE  attempted < Cooldown
    BY <1>3 DEF Answers, Resume
  <2>1. Declines(kid[r], reason[r])
    BY <1>3 DEF Resume, InsideLock, StartFetch, End, SafetyInvariant, TypeOK
  <2>2. IsStale
    BY <1>3 DEF Resume, IsStale
  <2> QED
    BY <2>1, <2>2 DEF Declines
<1>4. ASSUME SafetyInvariant, NEW r \in Calls, FetchFails(r) \/ Publish(r)
      PROVE  Noticed(r)
  BY <1>4, NoCallAssumption
     DEF FetchFails, Publish, Refreshing, SafetyInvariant, RefreshersHoldLock
<1>5. ASSUME SafetyInvariant, [JwksNext]_jwksVars, NEW r \in Calls
      PROVE  Noticed(r)
  <2> SUFFICES ASSUME outcome[r] # "accepted", outcome'[r] = "accepted"
               PROVE  Noticed(r)
    BY DEF Answers
  <2>1. Arrives(r) \/ Works(r) \/ Cancel(r)
    BY <1>5, OnlyOwnAnswer DEF JwksNext, Close, Rotate, Tick, requestVars, jwksVars
  <2>2. ~Cancel(r)
    BY <1>5 DEF Cancel, End, SafetyInvariant, TypeOK
  <2>3. ~DiscoveryArrives(r) /\ ~KeysServed(r) /\ \A k \in Kids : ~QueueUp(r, k)
    BY <1>5 DEF DiscoveryArrives, KeysServed, QueueUp, End, SafetyInvariant, TypeOK
  <2> QED
    BY <1>1, <1>2, <1>3, <1>4, <1>5, <2>1, <2>2, <2>3 DEF Arrives, Works
<1> QED
  <2>1. SafetyInvariant /\ [JwksNext]_jwksVars => [\A r \in Calls : Noticed(r)]_jwksVars
    BY <1>5
  <2> QED
    BY <2>1, SafetyHolds, PTL DEF JwksSpec, AgedKeysAreRefreshed


-----------------------------------------------------------------------------
(* The two encodings of the access policy (services/acl.py) agree: the     *)
(* filter sent to the search service lets a chunk through exactly when     *)
(* is_document_visible would show it to the principal.                     *)
THEOREM FilterIsThePolicy ==
    ASSUME NEW principal, NEW d
    PROVE  Matches(BuildAclFilter(principal), d) <=> Visible(principal, d)
  BY DEF Matches, BuildAclFilter, SearchIn, Visible

-----------------------------------------------------------------------------
(* The selection.                                                          *)

\* A set of numbers that starts at 0 and holds whatever is below one of its
\* members is an interval, and its size tells where it ends.
LEMMA DownwardClosed ==
    ASSUME NEW top \in Nat, NEW S \in SUBSET (0 .. top), 0 \in S,
           \A n \in S : \A m \in 0 .. n : m \in S
    PROVE  /\ Cardinality(S) - 1 \in 0 .. top
           /\ S = 0 .. Cardinality(S) - 1
<1> DEFINE last == Cardinality(S) - 1
<1>1. IsFiniteSet(S)
  <2>1. IsFiniteSet(0 .. top)
    BY FS_Interval
  <2> QED
    BY <2>1, FS_Subset
<1>2. last \in Int
  BY <1>1, FS_CardinalityType
<1>3. last >= 0
  <2>1. {0} \in SUBSET S /\ Cardinality({0}) = 1
    BY FS_Singleton
  <2> QED
    BY <1>1, <2>1, FS_Subset, FS_CardinalityType
<1>4. last \in S
  <2> SUFFICES ASSUME last \notin S PROVE FALSE
    OBVIOUS
  <2>1. S \in SUBSET (0 .. last - 1)
    BY <1>2, <1>3
  <2>2. /\ IsFiniteSet(0 .. last - 1)
        /\ Cardinality(0 .. last - 1) = last
    <3> HIDE DEF last
    <3> QED
      BY <1>2, <1>3, FS_Interval
  <2>3. Cardinality(S) <= Cardinality(0 .. last - 1)
    BY <2>1, <2>2, FS_Subset
  <2> QED
    BY <1>1, <2>2, <2>3, FS_CardinalityType
<1>5. 0 .. last \in SUBSET S
  BY <1>4
<1>6. Cardinality(0 .. last) = Cardinality(S)
  <2> HIDE DEF last
  <2>1. Cardinality(0 .. last) = last + 1
    BY <1>2, <1>3, FS_Interval
  <2> QED
    BY <1>1, <2>1, FS_CardinalityType DEF last
<1>7. 0 .. last = S
  BY <1>1, <1>5, <1>6, FS_Subset
<1> QED
  BY <1>2, <1>4, <1>7

\* The first n hits, as ranks; and whether each prefix of them fits.
FirstRanks(n) == [rank \in 1 .. n |-> rank]
Fitting(n) == \A m \in 1 .. n : Bytes(FirstRanks(m)) <= Budget

\* What is selected are the best ranks, as many as fit.
LEMMA SelectionIsThePrefix ==
    ASSUME hits \in Seq(Documents)
    PROVE  \E k \in 0 .. Len(hits) :
              /\ SelectWithinBudget = FirstRanks(k)
              /\ Fitting(k)
              /\ k < Len(hits) => ~(Bytes(FirstRanks(k + 1)) <= Budget)
<1> DEFINE S == {n \in 0 .. Len(hits) : Fitting(n)}
<1> DEFINE k == Cardinality(S) - 1
<1>1. SelectWithinBudget = FirstRanks(k)
  BY DEF SelectWithinBudget, Fitting, FirstRanks
<1>2. Len(hits) \in Nat
  OBVIOUS
<1>3. S \in SUBSET (0 .. Len(hits)) /\ 0 \in S
  BY <1>2 DEF Fitting
<1>4. \A n \in S : \A m \in 0 .. n : m \in S
  BY <1>2 DEF Fitting
<1> HIDE DEF S
<1>5. k \in 0 .. Len(hits) /\ S = 0 .. k
  BY <1>2, <1>3, <1>4, DownwardClosed
<1> HIDE DEF k
<1>6. Fitting(k)
  BY <1>5 DEF S
<1>7. k < Len(hits) => ~(Bytes(FirstRanks(k + 1)) <= Budget)
  <2> SUFFICES ASSUME k < Len(hits), Bytes(FirstRanks(k + 1)) <= Budget PROVE FALSE
    OBVIOUS
  <2>1. Fitting(k + 1)
    BY <1>5, <1>6 DEF Fitting
  <2> QED
    BY <1>2, <1>5, <2>1 DEF S
<1> QED
  BY <1>1, <1>5, <1>6, <1>7

\* A prefix as the sequence it is.
LEMMA PrefixIsSequence ==
    ASSUME NEW k \in Nat
    PROVE  /\ FirstRanks(k) \in Seq(Nat) /\ Len(FirstRanks(k)) = k
           /\ FirstRanks(k) = <<>> <=> k = 0
           /\ Append(FirstRanks(k), k + 1) = FirstRanks(k + 1)
<1>1. FirstRanks(k) \in Seq(Nat) /\ Len(FirstRanks(k)) = k
  BY DEF FirstRanks
<1>2. FirstRanks(k) = <<>> <=> k = 0
  BY <1>1
<1>3. Append(FirstRanks(k), k + 1) = FirstRanks(k + 1)
  <2> DEFINE longer == Append(FirstRanks(k), k + 1)
  <2>1. longer \in Seq(Nat) /\ Len(longer) = k + 1
    BY <1>1
  <2>2. \A n \in 1 .. k + 1 : longer[n] = n
    BY <1>1 DEF FirstRanks
  <2> QED
    BY <2>1, <2>2 DEF FirstRanks
<1> QED
  BY <1>1, <1>2, <1>3

-----------------------------------------------------------------------------
(* The inductive invariant.                                                *)

\* The hits are chunks the caller may see, and there are none before the
\* search; what was sent is a longest prefix of them.
HitsAreVisible ==
    /\ hits \in Seq(Documents)
    /\ \A n \in DOMAIN hits : Visible(caller, hits[n])
    /\ pc \in {"arrived", "admitted", "embed", "search"} => hits = <<>> /\ sent = None
    /\ pc = "assemble_context" => sent = None

SentIsPrefix ==
    sent # None =>
        \E k \in 1 .. Len(hits) :
            /\ sent = FirstRanks(k)
            /\ Fitting(k)
            /\ k < Len(hits) => ~(Bytes(FirstRanks(k + 1)) <= Budget)

PipelineInv == HitsAreVisible /\ SentIsPrefix

\* What the service ranks is visible: it applies the filter.
LEMMA RankingsAreVisible ==
    ASSUME NEW ranking \in Rankings
    PROVE  ranking \in Seq(Documents) /\ \A n \in DOMAIN ranking : Visible(caller, ranking[n])
<1> DEFINE matching == {d \in Documents : Matches(BuildAclFilter(caller), d)}
<1>1. ranking \in BoundedSeq(matching, MaxHits)
  BY DEF Rankings
<1> HIDE DEF matching
<1>2. PICK n \in 0 .. MaxHits : ranking \in [1 .. n -> matching]
  BY <1>1 DEF BoundedSeq, SeqOf
<1>3. ranking \in Seq(matching)
  BY <1>2, SizeAssumption
<1>4. \A i \in DOMAIN ranking : ranking[i] \in matching
  BY <1>3
<1> QED
  BY <1>3, <1>4, FilterIsThePolicy DEF matching

LEMMA StepKeeps ==
    ASSUME PipelineInv, [Next]_vars
    PROVE  PipelineInv'
<1> USE DEF PipelineInv
<1>1. CASE \/ RefuseUnreadable \/ Refuse \/ RefuseInvalid \/ Start
           \/ EmbedFails \/ Embed \/ SearchFails \/ NoAnswer \/ Overflow
           \/ GenerateFails \/ Generate \/ Abort \/ UNCHANGED vars
  <2>1. /\ hits' = hits /\ sent' = sent /\ caller' = caller
        /\ \/ pc' = pc
           \/ pc' \in {"embed", "search", "over"} /\ (pc' # "over" => pc \in {"admitted", "embed"})
    BY <1>1
       DEF RefuseUnreadable, Refuse, RefuseInvalid, Start, EmbedFails, Embed, SearchFails,
           NoAnswer, Overflow, GenerateFails, Generate, Abort, FailWith, vars, identityVars,
           pipelineVars
  <2>2. HitsAreVisible'
    BY <2>1 DEF HitsAreVisible
  <2>3. SentIsPrefix'
    BY <2>1 DEF SentIsPrefix, Fitting, Bytes
  <2> QED
    BY <2>2, <2>3
<1>2. CASE Admit
  <2>1. hits' = hits /\ hits = <<>> /\ sent' = sent /\ sent = None /\ pc' = "admitted"
    BY <1>2 DEF Admit, pipelineVars, HitsAreVisible
  <2> QED
    BY <2>1 DEF HitsAreVisible, SentIsPrefix
<1>3. CASE Search
  <2>1. /\ hits' \in Rankings /\ caller' = caller /\ pc' = "assemble_context"
        /\ sent' = sent /\ sent = None
    BY <1>3 DEF Search, identityVars, HitsAreVisible
  <2> QED
    BY <2>1, RankingsAreVisible DEF HitsAreVisible, SentIsPrefix
<1>4. CASE Assemble
  <2>1. /\ hits' = hits /\ caller' = caller /\ pc' = "generation"
        /\ sent' = SelectWithinBudget /\ SelectWithinBudget # <<>>
    BY <1>4 DEF Assemble, identityVars
  <2>2. HitsAreVisible'
    BY <2>1 DEF HitsAreVisible
  <2>3. PICK k \in 0 .. Len(hits) :
            /\ SelectWithinBudget = FirstRanks(k)
            /\ Fitting(k)
            /\ k < Len(hits) => ~(Bytes(FirstRanks(k + 1)) <= Budget)
    BY SelectionIsThePrefix DEF HitsAreVisible
  <2>4. k \in 1 .. Len(hits)
    BY <2>1, <2>3, PrefixIsSequence DEF HitsAreVisible
  <2>5. SentIsPrefix'
    BY <2>1, <2>3, <2>4 DEF SentIsPrefix, Fitting, Bytes
  <2> QED
    BY <2>2, <2>5
<1> QED
  BY <1>1, <1>2, <1>3, <1>4 DEF Next

THEOREM PipelineHolds == Spec => []PipelineInv
<1>1. Init => PipelineInv
  BY DEF Init, PipelineInv, HitsAreVisible, SentIsPrefix
<1> QED
  BY <1>1, StepKeeps, PTL DEF Spec

-----------------------------------------------------------------------------

(* What is retrieved and what reaches the provider is visible to the       *)
(* caller, whatever the index holds and whatever the service ranks first.  *)
THEOREM SourcesStayVisible == Spec => []SourcesAreVisible
<1>1. PipelineInv => SourcesAreVisible
  <2> SUFFICES ASSUME PipelineInv, sent # None, NEW n \in DOMAIN sent
               PROVE  Visible(caller, hits[sent[n]])
    BY DEF SourcesAreVisible, PipelineInv, HitsAreVisible
  <2>1. PICK k \in 1 .. Len(hits) : sent = FirstRanks(k)
    BY DEF PipelineInv, SentIsPrefix
  <2>2. n \in 1 .. k /\ sent[n] = n
    BY <2>1 DEF FirstRanks
  <2> QED
    BY <2>1, <2>2 DEF PipelineInv, HitsAreVisible
<1> QED
  BY <1>1, PipelineHolds, PTL

(* The provider is shown the best-ranked hits, as many as fit the budget,  *)
(* whatever their sizes (_select_within_budget).                           *)
THEOREM RankingStays == Spec => []RankingIsKept
<1>1. PipelineInv => RankingIsKept
  <2> SUFFICES ASSUME PipelineInv, sent # None
               PROVE  /\ \A n \in DOMAIN sent : sent[n] = n
                      /\ Bytes(sent) <= Budget
                      /\ Len(sent) < Len(hits) =>
                            ~(Bytes(Append(sent, Len(sent) + 1)) <= Budget)
    BY DEF RankingIsKept
  <2>1. PICK k \in 1 .. Len(hits) :
            /\ sent = FirstRanks(k)
            /\ Fitting(k)
            /\ k < Len(hits) => ~(Bytes(FirstRanks(k + 1)) <= Budget)
    BY DEF PipelineInv, SentIsPrefix
  <2>2. k \in Nat \ {0}
    BY <2>1 DEF PipelineInv, HitsAreVisible
  <2>3. Len(sent) = k /\ Append(sent, k + 1) = FirstRanks(k + 1)
    BY <2>1, <2>2, PrefixIsSequence
  <2>4. \A n \in DOMAIN sent : sent[n] = n
    BY <2>1 DEF FirstRanks
  <2>5. Bytes(sent) <= Budget
    BY <2>1, <2>2 DEF Fitting
  <2> QED
    BY <2>1, <2>3, <2>4, <2>5
<1> QED
  BY <1>1, PipelineHolds, PTL

-----------------------------------------------------------------------------
(* What require_principal decides (api/principal.py).                      *)

LEMMA OneElement ==
    ASSUME NEW S, NEW s \in Seq(S), s # <<>>, Len(s) <= 1
    PROVE  Len(s) = 1 /\ ToSet(s) = {s[1]}
<1>1. Len(s) = 1
  <2>1. Len(s) \in Nat
    OBVIOUS
  <2>2. Len(s) # 0
    <3> SUFFICES ASSUME Len(s) = 0 PROVE s = <<>>
      OBVIOUS
    <3> QED
      OBVIOUS
  <2> QED
    BY <2>1, <2>2
<1> QED
  BY <1>1 DEF ToSet

LEMMA PrincipalIsWhole ==
    ASSUME NEW tenant, NEW user, NEW groups, Principal(tenant, user, groups) # Malformed
    PROVE  /\ Principal(tenant, user, groups) \in Principals
           /\ Principal(tenant, user, groups) =
                  [tenant |-> tenant, user |-> user, groups |-> ToSet(groups)]
           /\ Principal(tenant, user, groups).tenant = tenant
           /\ {tenant, user} \cup ToSet(groups) \subseteq Identifiers
  BY DEF Principal, Principals

\* A request that waits for its verdict, in the mode of the process.
Waiting == settings \in Settings /\ request \in Requests /\ request.mode = settings.mode

\* The claims of a request that carries a verified token.
TokenClaims == request.credential[1].token.claims

\* What the resolver may answer.
SoundVerdict ==
    \/ /\ Verdict.status = 200
       /\ Verdict.principal \in Principals
       /\ Verdict.principal = request.holder
       /\ settings.mode = "entra" =>
            /\ Verified(request.credential[1].token)
            /\ Verdict.principal.tenant = settings.tenant
            /\ IF TokenClaims.scp # Absent THEN settings.scope \in TokenClaims.scp
                                           ELSE settings.role \in TokenClaims.roles
    \/ /\ Verdict.status = 401 /\ Verdict.principal = Absent
       /\ \/ settings.mode = "headers" /\ Verdict.reason \in HeaderReasons
          \/ settings.mode = "entra" /\ Verdict.reason \in BearerReasons
    \/ /\ Verdict.status = 403 /\ Verdict.reason = "permission_missing"
       /\ settings.mode = "entra" /\ Verified(request.credential[1].token)
       /\ Verdict.principal \in Principals
       /\ Verdict.principal = request.holder

LEMMA HeaderVerdict ==
    ASSUME Waiting, settings.mode = "headers"
    PROVE  SoundVerdict
<1> DEFINE headers == request.credential
<1> DEFINE principal == Principal(headers.tenants[1], headers.users[1], GroupIds(headers.groups))
<1>1. HeadersName(headers, request.holder) /\ Verdict = ResolveHeaders(headers)
  BY CredentialsAssumption DEF Waiting, Verdict, Resolve
<1>2. \/ Verdict = Unauthorized("headers_missing") \/ Verdict = Unauthorized("headers_invalid")
      \/ /\ Verdict = Admitted(principal) /\ principal # Malformed
         /\ Len(headers.tenants) = 1 /\ Len(headers.users) = 1 /\ ~IllFormedGroupIds(headers.groups)
  <2> HIDE DEF principal
  <2> DEFINE wrongCount == Len(headers.tenants) # 1 \/ Len(headers.users) # 1
  <2> DEFINE missing == headers.tenants = <<>> \/ (Len(headers.tenants) = 1 /\ headers.users = <<>>)
  <2>1. Verdict = CASE missing -> Unauthorized("headers_missing")
                    [] ~missing /\ (wrongCount \/ IllFormedGroupIds(headers.groups)) ->
                           Unauthorized("headers_invalid")
                    [] OTHER -> IF principal = Malformed THEN Unauthorized("headers_invalid")
                                                         ELSE Admitted(principal)
    BY <1>1 DEF ResolveHeaders, principal
  <2> HIDE DEF missing
  <2>2. CASE missing
    BY <2>1, <2>2
  <2>3. CASE ~missing /\ (wrongCount \/ IllFormedGroupIds(headers.groups))
    BY <2>1, <2>3
  <2>4. CASE ~missing /\ ~(wrongCount \/ IllFormedGroupIds(headers.groups))
    BY <2>1, <2>4
  <2> QED
    BY <2>2, <2>3, <2>4
<1>3. CASE Verdict = Unauthorized("headers_missing") \/ Verdict = Unauthorized("headers_invalid")
  BY <1>3 DEF Unauthorized, HeaderReasons, SoundVerdict
<1>4. CASE /\ Verdict = Admitted(principal) /\ principal # Malformed
           /\ Len(headers.tenants) = 1 /\ Len(headers.users) = 1 /\ ~IllFormedGroupIds(headers.groups)
  <2> DEFINE groups == GroupIds(headers.groups)
  <2>1. /\ principal \in Principals
        /\ principal = [tenant |-> headers.tenants[1], user |-> headers.users[1], groups |-> ToSet(groups)]
        /\ headers.tenants[1] \in Identifiers /\ headers.users[1] \in Identifiers
    BY <1>4, PrincipalIsWhole
  <2>2. headers.tenants = <<headers.tenants[1]>> /\ headers.users = <<headers.users[1]>>
    BY <1>1, <1>4 DEF HeadersName
  <2>3. Len(headers.groups) <= 1
    BY <1>1, <1>4 DEF IllFormedGroupIds, HeadersName
  <2>4. ToSet(groups) = (UNION {ToSet(value.parts) : value \in ToSet(headers.groups)}) \ {Absent}
    <3>1. CASE headers.groups = <<>>
      BY <3>1 DEF GroupIds, ToSet
    <3>2. CASE headers.groups # <<>>
      <4>1. Len(headers.groups) = 1 /\ ToSet(headers.groups) = {headers.groups[1]}
        <5>1. headers.groups \in Seq([oversized : BOOLEAN, parts : Seq(Identifiers \cup {Absent, Malformed})])
          BY <1>1 DEF HeadersName
        <5> QED
          BY <2>3, <3>2, <5>1, OneElement
      <4>2. UNION {ToSet(value.parts) : value \in ToSet(headers.groups)} = ToSet(headers.groups[1].parts)
        BY <4>1
      <4>3. CASE Blank(headers.groups[1])
        BY <4>2, <4>3 DEF Blank, GroupIds, ToSet
      <4>4. CASE ~Blank(headers.groups[1])
        BY <1>4, <3>2, <4>1, <4>2, <4>4 DEF IllFormedGroupIds, GroupIds
      <4> QED
        BY <4>3, <4>4
    <3> QED
      BY <3>1, <3>2
  <2>5. principal = request.holder
    BY <1>1, <2>1, <2>2, <2>3, <2>4 DEF HeadersName
  <2> QED
    BY <1>4, <2>1, <2>5 DEF Admitted, SoundVerdict, Waiting
<1> QED
  BY <1>2, <1>3, <1>4

LEMMA TokenVerdict ==
    ASSUME Waiting, settings.mode = "entra"
    PROVE  SoundVerdict
<1> DEFINE values == request.credential
<1> DEFINE claims == values[1].token.claims
<1> DEFINE principal == PrincipalFrom(settings, claims)
<1>1. Verdict = ResolveToken(settings, values)
  BY DEF Waiting, Verdict, Resolve
<1>2. CASE Verdict = Unauthorized("bearer_missing") \/ Verdict = Unauthorized("token_invalid")
  BY <1>2 DEF Unauthorized, BearerReasons, SoundVerdict
<1>3. CASE /\ WellFormedBearer(values) /\ Verified(values[1].token) /\ principal # Malformed
           /\ Verdict = RequirePermission(settings, claims, principal)
  <2> DEFINE groups == IF claims.groups = Absent THEN <<>> ELSE claims.groups
  <2>1. ClaimsName(claims, request.holder)
    BY <1>3, CredentialsAssumption DEF Waiting
  <2>2. /\ claims.tid = settings.tenant /\ ~Overage(claims) /\ groups # Malformed
        /\ principal = Principal(claims.tid, claims.oid, groups)
    BY <1>3 DEF PrincipalFrom
  <2>3. /\ principal \in Principals
        /\ principal = [tenant |-> claims.tid, user |-> claims.oid, groups |-> ToSet(groups)]
        /\ claims.oid \in Identifiers /\ principal.tenant = settings.tenant
    <3> HIDE DEF principal, groups, claims
    <3> QED
      BY <1>3, <2>2, PrincipalIsWhole
  <2>4. request.holder.groups = ToSet(groups)
    <3>1. CASE claims.groups = Absent
      <4>1. request.holder.groups = {}
        BY <2>1, <2>2, <3>1 DEF ClaimsName, Overage
      <4>2. ToSet(groups) = {}
        BY <3>1 DEF ToSet
      <4> QED
        BY <4>1, <4>2
    <3>2. CASE claims.groups # Absent
      BY <2>1, <2>2, <3>2 DEF ClaimsName
    <3> QED
      BY <3>1, <3>2
  <2>5. principal = request.holder
    BY <2>1, <2>3, <2>4 DEF ClaimsName
  <2> HIDE DEF principal
  <2>6. \/ Verdict = Unauthorized("token_invalid") \/ Verdict = InsufficientScope(principal)
        \/ /\ Verdict = Admitted(principal)
           /\ IF claims.scp # Absent THEN settings.scope \in claims.scp
                                     ELSE settings.role \in claims.roles
    BY <1>3 DEF RequirePermission
  <2>7. /\ principal \in Principals /\ principal = request.holder
        /\ principal.tenant = settings.tenant
    BY <2>2, <2>3, <2>5
  <2>8. CASE Verdict = InsufficientScope(principal)
    BY <1>3, <2>7, <2>8, SMTT(30) DEF InsufficientScope, SoundVerdict
  <2>9. CASE /\ Verdict = Admitted(principal)
             /\ IF claims.scp # Absent THEN settings.scope \in claims.scp
                                       ELSE settings.role \in claims.roles
    <3>1. Verdict.status = 200 /\ Verdict.principal = principal
      BY <2>9 DEF Admitted
    <3>2. IF TokenClaims.scp # Absent THEN settings.scope \in TokenClaims.scp
                                     ELSE settings.role \in TokenClaims.roles
      BY <2>9 DEF TokenClaims
    <3> QED
      BY <1>3, <2>7, <3>1, <3>2 DEF SoundVerdict
  <2> QED
    BY <1>2, <2>6, <2>8, <2>9
<1> QED
  BY <1>1, <1>2, <1>3 DEF ResolveToken

LEMMA VerdictIsSound ==
    ASSUME Waiting
    PROVE  SoundVerdict
  BY HeaderVerdict, TokenVerdict, SettingsAssumption DEF Waiting, Configured

-----------------------------------------------------------------------------
(* The event and the end of a request.                                     *)

StageInv ==
    /\ pc = "arrived" => Waiting /\ caller = None
    /\ pc # "over" => event = None /\ result = [kind |-> None]
    /\ pc \notin {"arrived", "over"} => caller \in Principals
    /\ pc = "admitted" => sent = None
    /\ pc = "generation" => included = sent /\ sent \in Seq(Nat) \ {<<>>}

LEMMA NoneIsNew ==
    /\ \A text \in Kinds \cup Stages \cup Statuses : text # None
    /\ \A person \in Principals : person # None
    /\ \A ranks \in Seq(Nat) : ranks # None
    /\ \A e \in AuthEvents \cup QueryEvents : e # None
  BY NoneAssumption

\* As long as nothing came of a request there is nothing to tell.
LEMMA QuietIsTrue ==
    ASSUME event' = None, result'.kind \in {None, "aborted", "invalid"},
           result'.kind = "invalid" => caller' = None
    PROVE  AuditTellsTheTruth'
<1>1. \A kind \in {"crashed", "refused", "answered", "no_answer", "failed"} : result'.kind # kind
  <2>1. \A kind \in {"crashed", "refused", "answered", "no_answer", "failed"} : kind # None
    BY NoneIsNew DEF Kinds
  <2> QED
    BY <2>1
<1> QED
  BY <1>1 DEF AuditTellsTheTruth

\* An event rag.query that agrees with the request, and the end it reports.
LEMMA QueryIsTrue ==
    ASSUME caller \in Principals, caller' = caller,
           NEW e \in QueryEvents, e.who = Who, AcceptsQuery(e),
           NEW end, EmitAnd(e, end), end.kind \in {"answered", "no_answer", "failed", "invalid"},
           e.attempted <=> sent' # None,
           e.attempted => e.selected = sent',
           end.kind = "failed" => e.code = end.code
    PROVE  AuditTellsTheTruth'
<1>1. e # None /\ caller # None /\ e.event = "rag.query"
  BY NoneAssumption DEF QueryEvents
<1>2. event' = e /\ result' = end
  BY <1>1 DEF EmitAnd, Accepts
<1>3. e.who = Who'
  BY DEF Who
<1> QED
  BY <1>1, <1>2, <1>3 DEF AuditTellsTheTruth

LEMMA RefusalIsTrue ==
    ASSUME StageInv, Refuse
    PROVE  AuditTellsTheTruth'
<1> DEFINE e == AuthRejected(settings, Verdict)
<1>1. /\ SoundVerdict /\ Verdict.status # 200 /\ caller' = None /\ request' = request
      /\ EmitAnd(e, [kind |-> "refused", status |-> Verdict.status])
  BY VerdictIsSound DEF Refuse, StageInv, identityVars
<1>2. /\ e.event = "auth.rejected" /\ e.status = Verdict.status /\ e.mode = settings.mode
      /\ e.reason = Verdict.reason
      /\ e.who = IF Verdict.principal = Absent THEN Absent
                 ELSE [tenant |-> Verdict.principal.tenant, user |-> Verdict.principal.user]
  BY DEF AuthRejected
<1>3. CASE /\ Verdict.status = 401 /\ Verdict.principal = Absent
           /\ \/ settings.mode = "headers" /\ Verdict.reason \in HeaderReasons
              \/ settings.mode = "entra" /\ Verdict.reason \in BearerReasons
  <2>1. e \in AuthEvents /\ e.who = Absent
    BY <1>3 DEF AuthRejected, AuthEvents
  <2>2. Accepts(e)
    BY <1>2, <1>3 DEF Accepts, AcceptsRejection, HeaderReasons, BearerReasons
  <2>3. event' = e /\ result' = [kind |-> "refused", status |-> Verdict.status] /\ e # None
    BY <1>1, <2>1, <2>2, NoneAssumption DEF EmitAnd
  <2> QED
    BY <1>1, <1>2, <1>3, <2>1, <2>3 DEF AuditTellsTheTruth
<1>4. CASE /\ Verdict.status = 403 /\ Verdict.reason = "permission_missing"
           /\ settings.mode = "entra" /\ Verified(request.credential[1].token)
           /\ Verdict.principal \in Principals /\ Verdict.principal = request.holder
  <2>1. /\ e.who = [tenant |-> request.holder.tenant, user |-> request.holder.user]
        /\ e.who \in Names /\ e.who # Absent
    BY <1>2, <1>4, SentinelsAssumption DEF Principals, Names
  <2>2. e \in AuthEvents
    BY <1>4, <2>1 DEF AuthRejected, AuthEvents
  <2>3. Accepts(e)
    BY <1>2, <1>4, <2>1 DEF Accepts, AcceptsRejection
  <2>4. event' = e /\ result' = [kind |-> "refused", status |-> Verdict.status] /\ e # None
    BY <1>1, <2>2, <2>3, NoneAssumption DEF EmitAnd
  <2> QED
    BY <1>1, <1>2, <1>4, <2>1, <2>4 DEF AuditTellsTheTruth
<1> QED
  BY <1>1, <1>3, <1>4 DEF SoundVerdict

\* What retrieval may fail with.
LEMMA RetrievalFails ==
    ASSUME NEW code \in RetrievalCodes
    PROVE  code \in ErrorCodes /\ OutcomeOf(code) = "error"
<1>1. code \in {"configuration_error", "embedding_rejected", "upstream_throttled", "upstream_timeout",
                "upstream_error", "search_request_rejected", "search_unavailable"}
  BY DEF RetrievalCodes, EmbeddingFailures, SearchFailures, EmbeddingCode, SearchStatusCode
<1>2. code \notin {"content_filtered", "context_length_exceeded"}
  BY <1>1
<1> QED
  BY <1>2 DEF ErrorCodes, OutcomeOf

LEMMA QueryEventIsTyped ==
    ASSUME NEW who \in Names, NEW how \in {"success", "rejected", "error"},
           NEW code \in RejectedCodes \cup ErrorCodes \cup {None}, NEW stage \in Stages \cup {None},
           NEW status \in Statuses \cup {None}, NEW called \in BOOLEAN, NEW attributed \in BOOLEAN,
           NEW found \in Nat \cup {None}, NEW selected \in Seq(Nat) \cup {None}
    PROVE  [event |-> "rag.query", who |-> who, outcome |-> how, code |-> code, stage |-> stage,
            status |-> status, attempted |-> called, attributed |-> attributed,
            hits |-> found, selected |-> selected] \in QueryEvents
  BY DEF QueryEvents

LEMMA FailureIsTrue ==
    ASSUME PipelineInv, StageInv, UNCHANGED <<identityVars, pipelineVars>>,
           pc \in {"embed", "search", "assemble_context", "generation"},
           NEW code \in RejectedCodes \cup ErrorCodes, FailWith(code),
           OutcomeOf(code) = "error" => code \in ErrorCodes,
           OutcomeOf(code) = "rejected" => code \in RejectedCodes
    PROVE  AuditTellsTheTruth'
<1> DEFINE e == FailureEvent(code)
<1>1. caller \in Principals /\ caller' = caller /\ sent' = sent /\ Len(hits) \in Nat
  BY DEF StageInv, identityVars, pipelineVars, PipelineInv, HitsAreVisible
<1>2. pc # "generation" => sent = None
  BY DEF PipelineInv, HitsAreVisible
<1>3. pc = "generation" => included = sent /\ sent \in Seq(Nat) /\ sent # None
  BY NoneAssumption DEF StageInv
<1>4. Stage \in Stages /\ Stage # None
  <2>1. Stage \in Stages
    BY DEF Stage, Stages
  <2> QED
    BY <2>1, NoneIsNew
<1>5. /\ e.who = Who /\ e.outcome = OutcomeOf(code) /\ e.code = code /\ e.stage = Stage
      /\ e.attempted = (pc = "generation") /\ e.attributed = (pc = "generation")
      /\ e.status = "error" /\ e.event = "rag.query"
      /\ pc = "generation" => e.selected = included
  BY DEF FailureEvent, Attempted
<1>6. e \in QueryEvents
  <2>1. Who \in Names
    BY <1>1 DEF Who, Principals, Names
  <2>2. (IF Stage = "retrieve" THEN None ELSE Len(hits)) \in Nat \cup {None}
    BY <1>1
  <2>3. (IF pc = "generation" THEN included ELSE None) \in Seq(Nat) \cup {None}
    BY <1>3
  <2>4. OutcomeOf(code) \in {"success", "rejected", "error"}
    BY DEF OutcomeOf
  <2>5. "error" \in Statuses
    BY DEF Statuses
  <2>6. PICK called \in BOOLEAN, found \in Nat \cup {None}, chosen \in Seq(Nat) \cup {None} :
            e = [event |-> "rag.query", who |-> Who, outcome |-> OutcomeOf(code), code |-> code,
                 stage |-> Stage, status |-> "error", attempted |-> called, attributed |-> called,
                 hits |-> found, selected |-> chosen]
    <3>1. CASE pc = "generation"
      BY <2>2, <2>3, <3>1 DEF FailureEvent, Attempted
    <3>2. CASE pc # "generation"
      BY <2>2, <2>3, <3>2 DEF FailureEvent, Attempted
    <3> QED
      BY <3>1, <3>2
  <2> HIDE DEF e
  <2> QED
    BY <1>4, <2>1, <2>4, <2>5, <2>6, QueryEventIsTyped, ZenonT(60)
<1>7. AcceptsQuery(e)
  BY <1>4, <1>5 DEF AcceptsQuery, OutcomeOf
<1>8. EmitAnd(e, [kind |-> "failed", code |-> code])
  BY DEF FailWith
<1> HIDE DEF e
<1> QED
  BY <1>1, <1>2, <1>3, <1>5, <1>6, <1>7, <1>8, QueryIsTrue

LEMMA InvalidIsTrue ==
    ASSUME StageInv, RefuseInvalid
    PROVE  AuditTellsTheTruth'
<1> DEFINE e == InvalidBodyEvent
<1>1. caller \in Principals /\ caller' = caller /\ sent' = sent /\ sent = None
  BY DEF StageInv, RefuseInvalid, identityVars, pipelineVars
<1>2. e \in QueryEvents /\ e.who = Who /\ e.attempted = FALSE
  <2>1. Who \in Names /\ "validation_error" \in RejectedCodes
    BY <1>1 DEF RejectedCodes, Who, Principals, Names
  <2> QED
    BY <2>1, QueryEventIsTyped DEF InvalidBodyEvent
<1>3. AcceptsQuery(e)
  BY DEF InvalidBodyEvent, AcceptsQuery, RejectedCodes
<1>4. EmitAnd(e, [kind |-> "invalid", status |-> 422])
  BY DEF RefuseInvalid
<1> HIDE DEF e
<1> QED
  BY <1>1, <1>2, <1>3, <1>4, QueryIsTrue

LEMMA NoAnswerIsTrue ==
    ASSUME PipelineInv, StageInv, NoAnswer
    PROVE  AuditTellsTheTruth'
<1> DEFINE e == SuccessEvent("no_answer", None)
<1>1. caller \in Principals /\ caller' = caller /\ sent' = sent /\ sent = None /\ Len(hits) \in Nat
  BY DEF StageInv, NoAnswer, identityVars, pipelineVars, PipelineInv, HitsAreVisible
<1>2. e \in QueryEvents /\ e.who = Who /\ e.attempted = FALSE
  <2>1. Who \in Names /\ "no_answer" \in Statuses
    BY <1>1 DEF Statuses, Who, Principals, Names
  <2> QED
    BY <1>1, <2>1, QueryEventIsTyped DEF SuccessEvent
<1>3. AcceptsQuery(e)
  BY DEF SuccessEvent, AcceptsQuery
<1>4. EmitAnd(e, [kind |-> "no_answer"])
  BY DEF NoAnswer
<1> HIDE DEF e
<1> QED
  BY <1>1, <1>2, <1>3, <1>4, QueryIsTrue

\* What is cited is in range, so the counts of an answer fit its sources.
LEMMA CitedFits ==
    ASSUME NEW text, NEW count \in Nat
    PROVE  Cardinality(Cited(text, count)) <= count
<1>1. Cited(text, count) \in SUBSET (1 .. count)
  BY DEF Cited, Invalid, InRange
<1>2. IsFiniteSet(1 .. count) /\ Cardinality(1 .. count) = count
  BY FS_Interval
<1> QED
  BY <1>1, <1>2, FS_Subset

LEMMA AnswerIsTrue ==
    ASSUME PipelineInv, StageInv, Generate
    PROVE  AuditTellsTheTruth'
<1> DEFINE count == Len(included)
           answer == [kind |-> "answered", sources |-> included,
                      text |-> Cleaned(reply', count),
                      cited |-> Cardinality(Cited(reply', count)),
                      stripped |-> Cardinality(Invalid(reply', count))]
           e == SuccessEvent("answered", included)
<1>1. /\ caller \in Principals /\ caller' = caller /\ sent' = sent /\ Len(hits) \in Nat
      /\ included = sent /\ sent \in Seq(Nat) \ {<<>>} /\ sent # None
  BY NoneAssumption DEF StageInv, Generate, identityVars, PipelineInv, HitsAreVisible
<1>2. count \in Nat /\ count > 0
  BY <1>1
<1>3. Wellformed(answer)
  BY <1>2, CitedFits DEF Wellformed
<1>4. EmitAnd(e, answer)
  BY <1>3 DEF Generate
<1>5. e \in QueryEvents /\ e.who = Who /\ e.attempted = TRUE /\ e.selected = included
  <2>1. Who \in Names /\ "answered" \in Statuses
    BY <1>1 DEF Statuses, Who, Principals, Names
  <2> QED
    BY <1>1, <2>1, QueryEventIsTyped DEF SuccessEvent
<1>6. AcceptsQuery(e)
  BY DEF SuccessEvent, AcceptsQuery
<1>7. answer.kind = "answered"
  OBVIOUS
<1> HIDE DEF e, answer
<1> QED
  BY <1>1, <1>4, <1>5, <1>6, <1>7, QueryIsTrue

LEMMA StageStep ==
    ASSUME PipelineInv, StageInv, [Next]_vars
    PROVE  StageInv'
<1>1. ASSUME pc' = "over" PROVE StageInv'
  BY <1>1 DEF StageInv
<1>2. CASE \/ RefuseUnreadable \/ Refuse \/ RefuseInvalid \/ EmbedFails \/ SearchFails
           \/ NoAnswer \/ Overflow \/ GenerateFails \/ Generate \/ Abort
  BY <1>1, <1>2
     DEF RefuseUnreadable, Refuse, RefuseInvalid, EmbedFails, SearchFails, NoAnswer, Overflow,
         GenerateFails, Generate, Abort, FailWith
<1>3. CASE Admit
  <2>1. /\ pc = "arrived" /\ pc' = "admitted" /\ Verdict.status = 200 /\ caller' = Verdict.principal
        /\ UNCHANGED <<sent, event, result>> /\ sent = None
    BY <1>3 DEF Admit, pipelineVars, PipelineInv, HitsAreVisible
  <2>2. Verdict.principal \in Principals
    BY <2>1, VerdictIsSound DEF StageInv, SoundVerdict
  <2> QED
    BY <2>1, <2>2 DEF StageInv
<1>4. CASE Start \/ Embed \/ Search
  BY <1>4 DEF Start, Embed, Search, identityVars, pipelineVars, StageInv
<1>5. CASE Assemble
  <2>1. /\ pc = "assemble_context" /\ pc' = "generation" /\ UNCHANGED <<caller, event, result>>
        /\ included' = SelectWithinBudget /\ sent' = SelectWithinBudget /\ SelectWithinBudget # <<>>
    BY <1>5 DEF Assemble, identityVars
  <2>2. PICK k \in 0 .. Len(hits) : SelectWithinBudget = FirstRanks(k)
    BY SelectionIsThePrefix DEF PipelineInv, HitsAreVisible
  <2>3. SelectWithinBudget \in Seq(Nat)
    BY <2>2, PrefixIsSequence DEF PipelineInv, HitsAreVisible
  <2> QED
    BY <2>1, <2>3 DEF StageInv
<1>6. CASE UNCHANGED vars
  BY <1>6 DEF vars, identityVars, pipelineVars, StageInv, Waiting
<1> QED
  BY <1>2, <1>3, <1>4, <1>5, <1>6 DEF Next

LEMMA AuditStep ==
    ASSUME PipelineInv, StageInv, AuditTellsTheTruth, [Next]_vars
    PROVE  AuditTellsTheTruth'
<1>1. CASE RefuseUnreadable \/ Abort
  <2>1. CASE RefuseUnreadable
    <3>1. result'.kind = "invalid" /\ event' = None /\ caller' = None
      BY <2>1 DEF RefuseUnreadable, StageInv, identityVars
    <3> QED
      BY <3>1, QuietIsTrue
  <2>2. CASE Abort
    <3>1. result'.kind = "aborted" /\ event' = None
      BY <2>2 DEF Abort, StageInv
    <3> QED
      BY <3>1, QuietIsTrue
  <2> QED
    BY <1>1, <2>1, <2>2
<1>2. CASE Admit \/ Start \/ Embed \/ Search \/ Assemble
  <2>1. event' = None /\ result' = [kind |-> None]
    BY <1>2 DEF Admit, Start, Embed, Search, Assemble, StageInv
  <2>2. None # "invalid"
    BY NoneIsNew DEF Kinds
  <2> QED
    BY <2>1, <2>2, QuietIsTrue
<1>3. CASE Refuse
  BY <1>3, RefusalIsTrue
<1>4. CASE RefuseInvalid
  BY <1>4, InvalidIsTrue
<1>5. CASE EmbedFails \/ SearchFails
  <2>1. PICK code \in RetrievalCodes : FailWith(code)
    BY <1>5 DEF EmbedFails, SearchFails, RetrievalCodes
  <2>2. UNCHANGED <<identityVars, pipelineVars>> /\ pc \in {"embed", "search"}
    BY <1>5 DEF EmbedFails, SearchFails
  <2> QED
    BY <2>1, <2>2, RetrievalFails, FailureIsTrue
<1>6. CASE NoAnswer
  BY <1>6, NoAnswerIsTrue
<1>7. CASE Overflow
  <2>1. "rag_context_overflow" \in ErrorCodes /\ OutcomeOf("rag_context_overflow") = "error"
    BY DEF ErrorCodes, OutcomeOf
  <2> QED
    BY <1>7, <2>1, FailureIsTrue DEF Overflow
<1>8. CASE GenerateFails
  <2>1. PICK code \in GenerationCodes : FailWith(Reclassify(code))
    BY <1>8 DEF GenerateFails
  <2> DEFINE reported == Reclassify(code)
  <2>2. \/ reported = "content_filtered"
        \/ reported \in ErrorCodes /\ reported \notin {"content_filtered", "context_length_exceeded"}
    BY DEF Reclassify, GenerationCodes, ErrorCodes
  <2>3. /\ reported \in RejectedCodes \cup ErrorCodes
        /\ OutcomeOf(reported) = "error" => reported \in ErrorCodes
        /\ OutcomeOf(reported) = "rejected" => reported \in RejectedCodes
    BY <2>2 DEF RejectedCodes, OutcomeOf
  <2> HIDE DEF reported
  <2>4. UNCHANGED <<identityVars, pipelineVars>> /\ pc = "generation" /\ FailWith(reported)
    BY <1>8, <2>1 DEF GenerateFails, reported
  <2> QED
    BY <2>3, <2>4, FailureIsTrue
<1>9. CASE Generate
  BY <1>9, AnswerIsTrue
<1>10. CASE UNCHANGED vars
  BY <1>10 DEF vars, identityVars, pipelineVars, AuditTellsTheTruth, Who
<1> QED
  BY <1>1, <1>2, <1>3, <1>4, <1>5, <1>6, <1>7, <1>8, <1>9, <1>10 DEF Next

LEMMA EntryStep ==
    ASSUME StageInv, OnlyTheEntitledEnter, [Next]_vars
    PROVE  OnlyTheEntitledEnter'
<1>1. CASE pc' # "admitted"
  BY <1>1 DEF OnlyTheEntitledEnter
<1>2. CASE Admit
  <2>1. Verdict.status = 200 /\ caller' = Verdict.principal /\ request' = request /\ settings' = settings
    BY <1>2 DEF Admit
  <2>2. SoundVerdict
    BY <1>2, VerdictIsSound DEF Admit, StageInv
  <2> QED
    BY <2>1, <2>2 DEF SoundVerdict, TokenClaims, OnlyTheEntitledEnter
<1>3. CASE UNCHANGED vars
  BY <1>3 DEF vars, identityVars, OnlyTheEntitledEnter
<1>4. CASE pc' = "admitted" /\ ~Admit /\ Next
  BY <1>4
     DEF Next, RefuseUnreadable, Refuse, RefuseInvalid, Start, EmbedFails, Embed, SearchFails,
         NoAnswer, Search, Overflow, Assemble, GenerateFails, Generate, Abort, FailWith
<1> QED
  BY <1>1, <1>2, <1>3, <1>4

LEMMA StagesHold == Spec => [](PipelineInv /\ StageInv /\ AuditTellsTheTruth /\ OnlyTheEntitledEnter)
<1>1. Init => StageInv /\ AuditTellsTheTruth /\ OnlyTheEntitledEnter
  <2> SUFFICES ASSUME Init PROVE StageInv /\ AuditTellsTheTruth /\ OnlyTheEntitledEnter
    OBVIOUS
  <2>1. StageInv /\ OnlyTheEntitledEnter
    BY DEF Init, StageInv, Waiting, OnlyTheEntitledEnter
  <2>2. \A kind \in {"crashed", "refused", "answered", "no_answer", "failed", "invalid"} : kind # None
    BY NoneIsNew DEF Kinds
  <2>3. event = None /\ result.kind = None /\ caller = None
    BY DEF Init
  <2>4. AuditTellsTheTruth
    BY <2>2, <2>3 DEF AuditTellsTheTruth
  <2> QED
    BY <2>1, <2>4
<1> QED
  BY <1>1, StageStep, AuditStep, EntryStep, PipelineHolds, PTL DEF Spec

(* OnlyTheEntitledEnter: whatever headers, tokens and claims requests      *)
(* carry, provided that gateway and Entra name the holder truly            *)
(* (CredentialsAssumption), whoever is admitted is the holder, with all of *)
(* his groups, in the tenant served, through the gate of his kind of token *)
(* (api/principal.py).                                                     *)
THEOREM OnlyHoldersEnter == Spec => []OnlyTheEntitledEnter
  BY StagesHold, PTL

(* AuditTellsTheTruth: every classified end of a request leaves exactly    *)
(* its event, which the schema accepts and which agrees with what was done *)
(* (services/rag.py, core/audit.py), for any credentials, hits and replies.*)
THEOREM EventsAreTrue == Spec => []AuditTellsTheTruth
  BY StagesHold, PTL

-----------------------------------------------------------------------------
(* Positions.  Those that are left of a text when some are cut out are     *)
(* numbered anew, by rank, so counting carries the proofs.                 *)

LEMMA UpTo ==
    ASSUME NEW n \in Nat
    PROVE  IsFiniteSet(1 .. n) /\ Cardinality(1 .. n) = n
<1>1. Cardinality(1 .. n) = IF 1 > n THEN 0 ELSE n - 1 + 1
  BY FS_Interval
<1>2. IsFiniteSet(1 .. n)
  BY FS_Interval
<1> QED
  BY <1>1, <1>2

\* How many of a set of numbers are at most n.
Rank(numbers, n) == Cardinality({m \in numbers : m <= n})

\* Going from a to b, the rank grows by as many as lie between.
LEMMA RankGrows ==
    ASSUME NEW top \in Nat, NEW S \in SUBSET (1 .. top),
           NEW a \in 1 .. top, NEW b \in 1 .. top, a <= b
    PROVE  /\ Rank(S, a) \in Nat /\ Rank(S, b) \in Nat
           /\ IsFiniteSet(S \cap (a + 1 .. b))
           /\ Rank(S, b) = Rank(S, a) + Cardinality(S \cap (a + 1 .. b))
<1> DEFINE low == {m \in S : m <= a}
           high == S \cap (a + 1 .. b)
           all == {m \in S : m <= b}
<1>1. IsFiniteSet(S)
  <2>1. IsFiniteSet(1 .. top)
    BY FS_Interval
  <2> QED
    BY <2>1, FS_Subset
<1>2. low \in SUBSET S /\ high \in SUBSET S /\ all \in SUBSET S
  OBVIOUS
<1>3. IsFiniteSet(low) /\ IsFiniteSet(high) /\ IsFiniteSet(all)
  BY <1>1, <1>2, FS_Subset
<1>4. all = low \cup high /\ low \cap high = {}
  <2>1. \A m \in S : m \in Int /\ (m <= b <=> m <= a \/ m \in a + 1 .. b) /\ (m <= a => m \notin a + 1 .. b)
    OBVIOUS
  <2> QED
    BY <2>1
<1>5. Rank(S, a) = Cardinality(low) /\ Rank(S, b) = Cardinality(all)
  BY DEF Rank
<1>6. IsFiniteSet(S \cap (a + 1 .. b)) /\ Cardinality(S \cap (a + 1 .. b)) = Cardinality(high)
  BY <1>3
<1> HIDE DEF low, high, all
<1>7. Cardinality(all) = Cardinality(low) + Cardinality(high) - Cardinality(low \cap high)
  BY <1>3, <1>4, FS_Union
<1>8. Cardinality(low \cap high) = 0
  BY <1>4, FS_EmptySet
<1> QED
  BY <1>3, <1>5, <1>6, <1>7, <1>8, FS_CardinalityType

\* Of two members the greater one ranks higher.
LEMMA RankIsStrict ==
    ASSUME NEW top \in Nat, NEW S \in SUBSET (1 .. top), NEW a \in S, NEW b \in S, a < b
    PROVE  Rank(S, a) < Rank(S, b)
<1>1. a \in 1 .. top /\ b \in 1 .. top /\ a <= b
  OBVIOUS
<1>2. /\ Rank(S, a) \in Nat /\ Rank(S, b) \in Nat
      /\ IsFiniteSet(S \cap (a + 1 .. b))
      /\ Rank(S, b) = Rank(S, a) + Cardinality(S \cap (a + 1 .. b))
  BY <1>1, RankGrows, ZenonT(60)
<1>3. S \cap (a + 1 .. b) # {}
  <2>1. b \in S \cap (a + 1 .. b)
    OBVIOUS
  <2> QED
    BY <2>1
<1>4. Cardinality(S \cap (a + 1 .. b)) \in Nat \ {0}
  BY <1>2, <1>3, FS_EmptySet, FS_CardinalityType
<1> QED
  BY <1>2, <1>4

\* InOrder numbers the members by their ranks.
LEMMA InOrderRanks ==
    ASSUME NEW top \in Nat, NEW S \in SUBSET (1 .. top)
    PROVE  /\ IsFiniteSet(S) /\ Cardinality(S) \in 0 .. top
           /\ InOrder(S) \in [1 .. Cardinality(S) -> S]
           /\ \A k \in 1 .. Cardinality(S) : Rank(S, InOrder(S)[k]) = k
           /\ \A n \in S : Rank(S, n) \in 1 .. Cardinality(S) /\ InOrder(S)[Rank(S, n)] = n
<1> DEFINE size == Cardinality(S)
           rank == [n \in S |-> Rank(S, n)]
<1>1. IsFiniteSet(S) /\ size \in Nat /\ size <= top
  <2>1. IsFiniteSet(1 .. top) /\ Cardinality(1 .. top) = top
    BY UpTo
  <2>2. IsFiniteSet(S) /\ Cardinality(S) <= Cardinality(1 .. top)
    BY <2>1, FS_Subset
  <2> QED
    BY <2>1, <2>2, FS_CardinalityType
<1>2. ASSUME NEW n \in S
      PROVE  Rank(S, n) \in 1 .. size
  <2> DEFINE below == {m \in S : m <= n}
  <2>1. below \in SUBSET S /\ n \in below
    OBVIOUS
  <2>2. IsFiniteSet(below) /\ Cardinality(below) <= size /\ below # {}
    <3> HIDE DEF below
    <3> QED
      BY <1>1, <2>1, FS_Subset
  <2>3. Cardinality(below) \in Nat \ {0}
    <3> HIDE DEF below
    <3> QED
      BY <2>2, FS_EmptySet, FS_CardinalityType
  <2>4. Rank(S, n) = Cardinality(below)
    BY DEF Rank
  <2> QED
    BY <1>1, <2>2, <2>3, <2>4
<1>3. ASSUME NEW n \in S, NEW m \in S, Rank(S, n) = Rank(S, m)
      PROVE  n = m
  <2>1. n \in Int /\ m \in Int /\ Rank(S, n) \in Int
    BY <1>2
  <2>2. CASE n < m
    <3>1. Rank(S, n) < Rank(S, m)
      BY <2>2, RankIsStrict
    <3> QED
      BY <1>3, <2>1, <3>1
  <2>3. CASE m < n
    <3>1. Rank(S, m) < Rank(S, n)
      BY <2>3, RankIsStrict
    <3> QED
      BY <1>3, <2>1, <3>1
  <2> QED
    BY <2>1, <2>2, <2>3
<1>4. rank \in Injection(S, 1 .. size)
  <2>1. rank \in [S -> 1 .. size]
    BY <1>2
  <2>2. \A n, m \in S : rank[n] = rank[m] => n = m
    BY <1>3
  <2> QED
    BY <2>1, <2>2 DEF Injection, IsInjective
<1>5. rank \in Surjection(S, 1 .. size)
  <2>1. IsFiniteSet(1 .. size) /\ Cardinality(1 .. size) = size
    BY <1>1, FS_Interval
  <2> HIDE DEF rank
  <2> QED
    BY <1>4, <2>1, FS_Injection
<1>6. ASSUME NEW k \in 1 .. size
      PROVE  \E n \in S : Rank(S, n) = k
  <2>1. PICK n \in S : rank[n] = k
    BY <1>5 DEF Surjection
  <2> QED
    BY <2>1
<1>7. ASSUME NEW k \in 1 .. size
      PROVE  InOrder(S)[k] \in S /\ Rank(S, InOrder(S)[k]) = k
  BY <1>6, <1>7 DEF InOrder, Rank
<1>8. InOrder(S) \in [1 .. size -> S]
  <2>1. InOrder(S) = [k \in 1 .. size |-> InOrder(S)[k]]
    BY DEF InOrder
  <2> QED
    BY <1>7, <2>1
<1>9. ASSUME NEW n \in S
      PROVE  Rank(S, n) \in 1 .. size /\ InOrder(S)[Rank(S, n)] = n
  BY <1>2, <1>3, <1>7
<1> QED
  BY <1>1, <1>7, <1>8, <1>9

\* Two positions next to each other stay so exactly when nothing between them
\* is left out.
LEMMA NothingBetween ==
    ASSUME NEW top \in Nat, NEW S \in SUBSET (1 .. top),
           NEW a \in S, NEW b \in S, a <= b
    PROVE  /\ Rank(S, b) - Rank(S, a) <= b - a
           /\ Rank(S, b) - Rank(S, a) = b - a <=> (a .. b) \in SUBSET S
<1> DEFINE between == S \cap (a + 1 .. b)
<1>0. a \in 1 .. top /\ b \in 1 .. top
  OBVIOUS
<1>1. /\ Rank(S, a) \in Nat /\ Rank(S, b) \in Nat
      /\ IsFiniteSet(between) /\ Rank(S, b) = Rank(S, a) + Cardinality(between)
  BY <1>0, RankGrows
<1>2. IsFiniteSet(a + 1 .. b) /\ Cardinality(a + 1 .. b) = b - a
  <2>1. a + 1 \in Int /\ b \in Int
    BY <1>0
  <2>2. Cardinality(a + 1 .. b) = IF a + 1 > b THEN 0 ELSE b - (a + 1) + 1
    BY <2>1, FS_Interval
  <2>3. IsFiniteSet(a + 1 .. b)
    BY <2>1, FS_Interval
  <2> QED
    BY <1>0, <2>2, <2>3
<1>3. between \in SUBSET (a + 1 .. b)
  OBVIOUS
<1>4. (a .. b) \in SUBSET S <=> between = a + 1 .. b
  OBVIOUS
<1>5. /\ Cardinality(between) <= b - a
      /\ Cardinality(between) = b - a <=> between = a + 1 .. b
  <2> HIDE DEF between
  <2> QED
    BY <1>2, <1>3, FS_Subset, ZenonT(60)
<1> HIDE DEF between
<1> QED
  BY <1>0, <1>1, <1>4, <1>5, FS_CardinalityType

\* What is left keeps its order.
LEMMA InOrderGrows ==
    ASSUME NEW top \in Nat, NEW S \in SUBSET (1 .. top),
           NEW k \in 1 .. Cardinality(S), NEW l \in 1 .. Cardinality(S), k < l
    PROVE  InOrder(S)[k] < InOrder(S)[l]
<1> DEFINE a == InOrder(S)[k]
           b == InOrder(S)[l]
<1>1. a \in S /\ b \in S /\ Rank(S, a) = k /\ Rank(S, b) = l
  BY InOrderRanks, ZenonT(60)
<1> HIDE DEF a, b
<1>2. a # b
  BY <1>1
<1>3. ~(b < a)
  <2> SUFFICES ASSUME b < a PROVE FALSE
    OBVIOUS
  <2>1. Rank(S, b) < Rank(S, a)
    BY <1>1, RankIsStrict
  <2> QED
    BY <1>1, <2>1
<1>4. a < b
  BY <1>1, <1>2, <1>3
<1> QED
  BY <1>4 DEF a, b

\* A run of neighbours, none of which is left out, stays a run.
LEMMA RunsStay ==
    ASSUME NEW top \in Nat, NEW S \in SUBSET (1 .. top),
           NEW a \in S, NEW b \in S, a <= b, (a .. b) \in SUBSET S,
           NEW k \in 0 .. b - a
    PROVE  Rank(S, a) + k \in 1 .. Cardinality(S) /\ InOrder(S)[Rank(S, a) + k] = a + k
<1>1. PICK n \in S : n = a + k /\ a <= n /\ (a .. n) \in SUBSET S
  <2>1. a \in Int /\ b \in Int /\ k \in Int /\ a + k \in a .. b
    OBVIOUS
  <2> QED
    BY <2>1
<1>2. Rank(S, n) - Rank(S, a) = n - a
  BY <1>1, NothingBetween
<1>3. Rank(S, n) \in 1 .. Cardinality(S) /\ Rank(S, a) \in 1 .. Cardinality(S) /\ InOrder(S)[Rank(S, n)] = n
  BY InOrderRanks
<1>4. Rank(S, n) = Rank(S, a) + k
  BY <1>1, <1>2, <1>3
<1> QED
  BY <1>1, <1>3, <1>4

-----------------------------------------------------------------------------
(* Citations.                                                              *)

LEMMA MarkerShape ==
    ASSUME NEW text \in Seq(STRING), NEW m \in Markers(text)
    PROVE  /\ m[1] \in 1 .. Len(text) /\ m[2] \in 1 .. Len(text) /\ m = <<m[1], m[2]>>
           /\ m[1] + 1 < m[2] /\ text[m[1]] = "[" /\ text[m[2]] = "]"
           /\ \A k \in m[1] + 1 .. m[2] - 1 : text[k] \in ToSet(Digits)
  BY DEF Markers

LEMMA NoBracketIsADigit == "[" \notin ToSet(Digits) /\ "]" \notin ToSet(Digits) /\ "[" # "]"
  BY DEF Digits, ToSet

\* Of two markers of a text one ends before the other begins.
LEMMA MarkersAreApart ==
    ASSUME NEW text \in Seq(STRING), NEW m \in Markers(text), NEW o \in Markers(text), m # o
    PROVE  (m[1] .. m[2]) \cap (o[1] .. o[2]) = {}
<1>1. /\ m[1] \in Int /\ m[2] \in Int /\ m = <<m[1], m[2]>>
      /\ m[1] + 1 < m[2] /\ text[m[1]] = "[" /\ text[m[2]] = "]"
      /\ \A k \in m[1] + 1 .. m[2] - 1 : text[k] \in ToSet(Digits)
  BY MarkerShape
<1>2. /\ o[1] \in Int /\ o[2] \in Int /\ o = <<o[1], o[2]>>
      /\ o[1] + 1 < o[2] /\ text[o[1]] = "[" /\ text[o[2]] = "]"
      /\ \A k \in o[1] + 1 .. o[2] - 1 : text[k] \in ToSet(Digits)
  BY MarkerShape
<1>3. /\ o[1] \notin m[1] + 1 .. m[2] /\ m[1] \notin o[1] + 1 .. o[2]
      /\ o[2] \notin m[1] .. m[2] - 1 /\ m[2] \notin o[1] .. o[2] - 1
  BY <1>1, <1>2, NoBracketIsADigit
<1>4. m[2] < o[1] \/ o[2] < m[1]
  BY <1>1, <1>2, <1>3
<1> QED
  BY <1>1, <1>2, <1>4

\* From a to b the one text reads like the other from c to d.
ReadsLike(text, a, b, other, c, d) ==
    b - a = d - c /\ \A k \in 0 .. b - a : text[a + k] = other[c + k]

\* A stretch of one text that reads like a stretch of another one is a marker
\* if the other is, and of the same number.
LEMMA MarkerMoves ==
    ASSUME NEW text \in Seq(STRING), NEW other \in Seq(STRING),
           NEW a \in 1 .. Len(text), NEW b \in 1 .. Len(text),
           NEW c \in 1 .. Len(other), NEW d \in 1 .. Len(other),
           ReadsLike(text, a, b, other, c, d), <<a, b>> \in Markers(text)
    PROVE  <<c, d>> \in Markers(other) /\ NumberOf(other, <<c, d>>) = NumberOf(text, <<a, b>>)
<1>0. b - a = d - c /\ \A k \in 0 .. b - a : text[a + k] = other[c + k]
  BY DEF ReadsLike
<1>1. /\ a + 1 < b /\ text[a] = "[" /\ text[b] = "]"
      /\ \A k \in a + 1 .. b - 1 : text[k] \in ToSet(Digits)
  BY MarkerShape
<1>2. \A j \in c .. d : j - c \in 0 .. b - a /\ a + (j - c) \in a .. b /\ c + (j - c) = j
  BY <1>0
<1>3. \A j \in c .. d : other[j] = text[a + (j - c)]
  BY <1>0, <1>2
<1>4. other[c] = "[" /\ other[d] = "]" /\ c + 1 < d
  <2>1. c \in c .. d /\ d \in c .. d /\ a + (c - c) = a /\ a + (d - c) = b
    BY <1>0, <1>1
  <2>2. other[c] = text[a] /\ other[d] = text[b]
    BY <1>3, <2>1
  <2>3. c + 1 < d
    BY <1>0, <1>1
  <2> QED
    BY <1>1, <2>2, <2>3
<1>5. ASSUME NEW j \in c + 1 .. d - 1
      PROVE  other[j] \in ToSet(Digits)
  <2>1. j \in c .. d /\ a + (j - c) \in a + 1 .. b - 1
    BY <1>0
  <2> QED
    BY <1>1, <1>3, <2>1
<1>6. <<c, d>> \in Markers(other)
  BY <1>4, <1>5 DEF Markers
<1> DEFINE here == SubSeq(text, a + 1, b - 1)
           there == SubSeq(other, c + 1, d - 1)
<1>7. here = there
  <2>1. PICK p \in Int, q \in Int, r \in Int, s \in Int : p = a + 1 /\ q = b - 1 /\ r = c + 1 /\ s = d - 1
    OBVIOUS
  <2>2. /\ \A i \in p .. q : text[i] \in STRING
        /\ \A i \in r .. s : other[i] \in STRING
    BY <2>1
  <2>3. /\ SubSeq(text, p, q) \in Seq(STRING) /\ SubSeq(other, r, s) \in Seq(STRING)
        /\ Len(SubSeq(text, p, q)) = Len(SubSeq(other, r, s))
    BY <1>0, <2>1, <2>2, SubSeqProperties
  <2>4. /\ \A i \in 1 .. q - p + 1 : SubSeq(text, p, q)[i] = text[p + i - 1]
        /\ \A i \in 1 .. s - r + 1 : SubSeq(other, r, s)[i] = other[r + i - 1]
        /\ Len(SubSeq(text, p, q)) = q - p + 1
    BY <1>1, <2>1, <2>2, SubSeqProperties
  <2>5. ASSUME NEW i \in 1 .. q - p + 1
        PROVE  text[p + i - 1] = other[r + i - 1]
    <3>1. i \in 0 .. b - a /\ a + i = p + i - 1 /\ c + i = r + i - 1
      BY <2>1
    <3> QED
      BY <1>0, <3>1
  <2>6. \A i \in 1 .. Len(SubSeq(text, p, q)) : SubSeq(text, p, q)[i] = SubSeq(other, r, s)[i]
    <3>1. a \in Nat /\ b \in Nat /\ c \in Nat /\ d \in Nat
      BY LenProperties
    <3>2. b - a = d - c
      BY <1>0
    <3>3. q - p + 1 = s - r + 1
      BY <2>1, <3>1, <3>2
    <3> QED
      BY <2>4, <2>5, <3>3
  <2>7. SubSeq(text, p, q) = SubSeq(other, r, s)
    <3> DEFINE one == SubSeq(text, p, q)
               two == SubSeq(other, r, s)
    <3>1. /\ one \in Seq(STRING) /\ two \in Seq(STRING)
          /\ Len(one) = Len(two) /\ \A i \in 1 .. Len(one) : one[i] = two[i]
      BY <2>3, <2>6
    <3> HIDE DEF one, two
    <3>2. one = two
      BY <3>1, SeqEqual
    <3> QED
      BY <3>2 DEF one, two
  <2> QED
    BY <2>1, <2>7
<1>8. NumberOf(text, <<a, b>>) = Decimal(here) /\ NumberOf(other, <<c, d>>) = Decimal(there)
  BY DEF NumberOf
<1> QED
  BY <1>6, <1>7, <1>8

\* The text without its invalid markers: positions in order.
LEMMA CleanedShape ==
    ASSUME NEW text \in Seq(STRING), NEW count
    PROVE  /\ Left(text, count) \in SUBSET (1 .. Len(text))
           /\ IsFiniteSet(Left(text, count)) /\ Cardinality(Left(text, count)) \in Nat
           /\ Kept(text, count) \in [1 .. Cardinality(Left(text, count)) -> Left(text, count)]
           /\ Cleaned(text, count) \in Seq(STRING)
           /\ Len(Cleaned(text, count)) = Cardinality(Left(text, count))
           /\ \A k \in 1 .. Cardinality(Left(text, count)) :
                 Cleaned(text, count)[k] = text[Kept(text, count)[k]]
<1> DEFINE S == Left(text, count)
           size == Cardinality(S)
           kept == Kept(text, count)
           clean == Cleaned(text, count)
<1>1. S \in SUBSET (1 .. Len(text)) /\ Len(text) \in Nat
  BY DEF Left
<1>2. kept = InOrder(S)
  BY DEF Kept
<1>3. IsFiniteSet(S) /\ size \in Nat /\ kept \in [1 .. size -> S]
  <2> HIDE DEF S
  <2> QED
    BY <1>1, <1>2, InOrderRanks
<1>4. clean = [k \in 1 .. size |-> text[kept[k]]]
  BY <1>3 DEF Cleaned
<1> HIDE DEF S, size, kept, clean
<1>5. \A k \in 1 .. size : text[kept[k]] \in STRING
  <2>1. \A i \in 1 .. Len(text) : text[i] \in STRING
    BY ElementOfSeq
  <2>2. \A k \in 1 .. size : kept[k] \in 1 .. Len(text)
    BY <1>1, <1>3
  <2> QED
    BY <2>1, <2>2
<1>6. clean \in Seq(STRING) /\ Len(clean) = size /\ \A k \in 1 .. size : clean[k] = text[kept[k]]
  BY <1>3, <1>4, <1>5
<1> QED
  BY <1>1, <1>3, <1>6 DEF S, size, kept, clean

\* What is cut out are whole markers, so a valid one stays in one piece.
LEMMA ValidMarkersStay ==
    ASSUME NEW text \in Seq(STRING), NEW count, NEW m \in Markers(text) \ Invalid(text, count)
    PROVE  (m[1] .. m[2]) \in SUBSET Left(text, count)
<1>1. ASSUME NEW o \in Invalid(text, count)
      PROVE  (m[1] .. m[2]) \cap (o[1] .. o[2]) = {}
  <2>1. m \in Markers(text) /\ o \in Markers(text) /\ m # o
    BY DEF Invalid
  <2> QED
    BY <2>1, MarkersAreApart
<1>2. m[1] \in 1 .. Len(text) /\ m[2] \in 1 .. Len(text)
  BY MarkerShape
<1> QED
  BY <1>1, <1>2 DEF Left

\* A stretch that nothing was cut out of is read alike before and after.
LEMMA StretchesStay ==
    ASSUME NEW text \in Seq(STRING), NEW count,
           NEW a \in Left(text, count), NEW b \in Left(text, count),
           a <= b, (a .. b) \in SUBSET Left(text, count)
    PROVE  LET clean == Cleaned(text, count)
               rank(n) == Rank(Left(text, count), n)
           IN /\ rank(a) \in 1 .. Len(clean) /\ rank(b) \in 1 .. Len(clean)
              /\ ReadsLike(text, a, b, clean, rank(a), rank(b))
              /\ ReadsLike(clean, rank(a), rank(b), text, a, b)
<1> DEFINE S == Left(text, count)
           clean == Cleaned(text, count)
<1>1. /\ S \in SUBSET (1 .. Len(text)) /\ Len(text) \in Nat
      /\ Len(clean) = Cardinality(S)
      /\ \A k \in 1 .. Cardinality(S) : clean[k] = text[InOrder(S)[k]]
  BY CleanedShape DEF Kept
<1>2. a \in S /\ b \in S /\ (a .. b) \in SUBSET S
  OBVIOUS
<1> HIDE DEF S, clean
<1>3. Rank(S, a) \in 1 .. Len(clean) /\ Rank(S, b) \in 1 .. Len(clean)
  BY <1>1, <1>2, InOrderRanks
<1>4. Rank(S, b) - Rank(S, a) = b - a
  BY <1>1, <1>2, NothingBetween
<1>5. ASSUME NEW k \in 0 .. b - a
      PROVE  clean[Rank(S, a) + k] = text[a + k]
  <2>1. Rank(S, a) + k \in 1 .. Cardinality(S) /\ InOrder(S)[Rank(S, a) + k] = a + k
    BY <1>1, <1>2, RunsStay
  <2> QED
    BY <1>1, <2>1
<1> QED
  BY <1>3, <1>4, <1>5 DEF S, clean, ReadsLike

\* Valid citations survive the cleaning.
LEMMA ValidNumbersStay ==
    ASSUME NEW text \in Seq(STRING), NEW count,
           NEW m \in Markers(text), NumberOf(text, m) \in 1 .. count
    PROVE  \E o \in Markers(Cleaned(text, count)) :
               NumberOf(Cleaned(text, count), o) = NumberOf(text, m)
<1>1. m \in Markers(text) \ Invalid(text, count)
  BY DEF Invalid, InRange
<1>2. (m[1] .. m[2]) \in SUBSET Left(text, count)
  BY <1>1, ValidMarkersStay
<1>3. PICK a \in 1 .. Len(text), b \in 1 .. Len(text) : m = <<a, b>> /\ m[1] = a /\ m[2] = b /\ a < b
  BY MarkerShape
<1>4. a \in Left(text, count) /\ b \in Left(text, count) /\ a <= b /\ (a .. b) \in SUBSET Left(text, count)
  BY <1>2, <1>3
<1>5. PICK c, d : c = Rank(Left(text, count), a) /\ d = Rank(Left(text, count), b)
  OBVIOUS
<1>6. PICK clean \in Seq(STRING) : clean = Cleaned(text, count)
  BY CleanedShape
<1>7. /\ c \in 1 .. Len(clean) /\ d \in 1 .. Len(clean)
      /\ ReadsLike(text, a, b, clean, c, d)
  BY <1>4, <1>5, <1>6, StretchesStay
<1>8. <<c, d>> \in Markers(clean) /\ NumberOf(clean, <<c, d>>) = NumberOf(text, <<a, b>>)
  <2>1. <<a, b>> \in Markers(text)
    BY <1>3
  <2> QED
    BY <1>7, <2>1, MarkerMoves
<1> QED
  BY <1>3, <1>6, <1>8

\* A marker of the cleaned text is in range, or pieces that stood apart make it.
LEMMA StrangersAreSpliced ==
    ASSUME NEW text \in Seq(STRING), NEW count, NEW m \in Markers(Cleaned(text, count))
    PROVE  LET kept == Kept(text, count)
           IN \/ NumberOf(Cleaned(text, count), m) \in 1 .. count
              \/ kept[m[2]] - kept[m[1]] > m[2] - m[1]
<1> DEFINE S == Left(text, count)
           clean == Cleaned(text, count)
           kept == Kept(text, count)
<1>1. /\ S \in SUBSET (1 .. Len(text)) /\ Len(text) \in Nat
      /\ clean \in Seq(STRING) /\ Len(clean) = Cardinality(S)
      /\ kept = InOrder(S) /\ kept \in [1 .. Cardinality(S) -> S]
  BY CleanedShape DEF Kept
<1>2. PICK c \in 1 .. Len(clean), d \in 1 .. Len(clean) : m = <<c, d>> /\ m[1] = c /\ m[2] = d /\ c < d
  BY <1>1, MarkerShape
<1>3. PICK a \in S, b \in S : a = kept[c] /\ b = kept[d]
  BY <1>1, <1>2
<1>4. a < b /\ Rank(S, a) = c /\ Rank(S, b) = d
  <2> HIDE DEF S, kept, clean
  <2> QED
    BY <1>1, <1>2, <1>3, InOrderGrows, InOrderRanks
<1>5. SUFFICES ASSUME ~(b - a > d - c)
               PROVE  NumberOf(clean, m) \in 1 .. count
  BY <1>2, <1>3
<1>6. a \in 1 .. Len(text) /\ b \in 1 .. Len(text) /\ a <= b
  BY <1>1, <1>4
<1>7. d - c = b - a /\ (a .. b) \in SUBSET S
  <2>1. d - c <= b - a /\ (d - c = b - a <=> (a .. b) \in SUBSET S)
    <3> HIDE DEF S, kept, clean
    <3> QED
      BY <1>1, <1>3, <1>4, <1>6, NothingBetween
  <2> QED
    BY <1>2, <1>5, <1>6, <2>1
<1>8. ReadsLike(clean, c, d, text, a, b)
  BY <1>4, <1>6, <1>7, StretchesStay
<1>9. <<a, b>> \in Markers(text) /\ NumberOf(text, <<a, b>>) = NumberOf(clean, <<c, d>>)
  <2>2. <<c, d>> \in Markers(clean)
    BY <1>2
  <2> HIDE DEF S, kept, clean
  <2>3. clean \in Seq(STRING) /\ a \in 1 .. Len(text) /\ b \in 1 .. Len(text)
    BY <1>1, <1>6
  <2> QED
    BY <1>8, <2>2, <2>3, MarkerMoves
<1>10. <<a, b>> \notin Invalid(text, count)
  <2>1. a \in a .. b /\ a \in S
    BY <1>6
  <2> QED
    BY <2>1 DEF Left
<1> QED
  BY <1>2, <1>9, <1>10 DEF Invalid, InRange

\* Nothing is stripped exactly when the text stays as it was.
LEMMA NothingStripped ==
    ASSUME NEW text \in Seq(STRING), NEW count
    PROVE  Cardinality(Invalid(text, count)) = 0 <=> Cleaned(text, count) = text
<1> DEFINE S == Left(text, count)
           clean == Cleaned(text, count)
<1>1. /\ S \in SUBSET (1 .. Len(text)) /\ Len(text) \in Nat
      /\ clean \in Seq(STRING) /\ Len(clean) = Cardinality(S)
      /\ \A k \in 1 .. Cardinality(S) : clean[k] = text[InOrder(S)[k]]
  BY CleanedShape DEF Kept
<1>2. IsFiniteSet(1 .. Len(text)) /\ Cardinality(1 .. Len(text)) = Len(text)
  BY <1>1, UpTo
<1>3. IsFiniteSet(Invalid(text, count))
  <2>1. Invalid(text, count) \in SUBSET ((1 .. Len(text)) \X (1 .. Len(text)))
    BY MarkerShape DEF Invalid
  <2>2. IsFiniteSet((1 .. Len(text)) \X (1 .. Len(text)))
    BY <1>2, FS_Product
  <2> QED
    BY <2>1, <2>2, FS_Subset
<1>4. Cardinality(Invalid(text, count)) = 0 <=> Invalid(text, count) = {}
  BY <1>3, FS_EmptySet
<1>5. S = 1 .. Len(text) <=> Invalid(text, count) = {}
  <2>1. ASSUME NEW m \in Invalid(text, count)
        PROVE  m[1] \in 1 .. Len(text) /\ m[1] \notin S
    <3>1. m[1] \in 1 .. Len(text) /\ m[1] \in m[1] .. m[2]
      BY MarkerShape DEF Invalid
    <3> QED
      BY <3>1 DEF Left
  <2>2. Invalid(text, count) = {} => S = 1 .. Len(text)
    BY DEF Left
  <2> QED
    BY <2>1, <2>2
<1>6. ASSUME S = 1 .. Len(text)
      PROVE  clean = text
  <2>1. ASSUME NEW n \in 1 .. Len(text)
        PROVE  Rank(S, n) = n
    <3>1. {m \in S : m <= n} = 1 .. n
      BY <1>6
    <3>2. Cardinality(1 .. n) = n
      BY UpTo
    <3> QED
      BY <3>1, <3>2 DEF Rank
  <2> HIDE DEF S, clean
  <2>2. \A n \in S : InOrder(S)[Rank(S, n)] = n
    BY <1>1, InOrderRanks
  <2>3. \A n \in 1 .. Len(clean) : clean[n] = text[n]
    BY <1>1, <1>2, <1>6, <2>1, <2>2
  <2> QED
    BY <1>1, <1>2, <1>6, <2>3, SeqEqual
<1>7. ASSUME clean = text
      PROVE  S = 1 .. Len(text)
  <2> HIDE DEF S, clean
  <2> QED
    BY <1>1, <1>2, <1>7, FS_Subset
<1> QED
  BY <1>4, <1>5, <1>6, <1>7

\* What _validate_citations makes of a text, as an answer reports it.
IsCleanedFrom(answer, text) ==
    LET count == Len(answer.sources)
    IN /\ answer.text = Cleaned(text, count)
       /\ answer.cited = Cardinality(Cited(text, count))
       /\ answer.stripped = Cardinality(Invalid(text, count))

\* The inductive invariant: an answer is the reply as cleaned for the sources
\* that it names.
AnswerInv == result.kind = "answered" => reply \in Replies /\ IsCleanedFrom(result, reply)

LEMMA AnswerStep ==
    ASSUME AnswerInv, [Next]_vars
    PROVE  AnswerInv'
<1>1. CASE Admit \/ Start \/ Embed \/ Search \/ Assemble \/ UNCHANGED vars
  <2>1. result' = result /\ reply' = reply
    BY <1>1 DEF Admit, Start, Embed, Search, Assemble, vars, pipelineVars
  <2> QED
    BY <2>1 DEF AnswerInv
<1>2. CASE \/ RefuseUnreadable \/ Refuse \/ RefuseInvalid \/ EmbedFails \/ SearchFails
           \/ NoAnswer \/ Overflow \/ GenerateFails \/ Abort
  <2>1. result'.kind # "answered"
    BY <1>2
       DEF RefuseUnreadable, Refuse, RefuseInvalid, EmbedFails, SearchFails, NoAnswer, Overflow,
           GenerateFails, Abort, FailWith, EmitAnd
  <2> QED
    BY <2>1 DEF AnswerInv
<1>3. CASE Generate
  <2> DEFINE count == Len(included)
             answer == [kind |-> "answered", sources |-> included,
                        text |-> Cleaned(reply', count),
                        cited |-> Cardinality(Cited(reply', count)),
                        stripped |-> Cardinality(Invalid(reply', count))]
  <2>1. reply' \in Replies
    BY <1>3 DEF Generate
  <2>2. result' = answer \/ result' = [kind |-> "crashed"]
    BY <1>3 DEF Generate, EmitAnd
  <2>3. IsCleanedFrom(answer, reply')
    BY DEF IsCleanedFrom
  <2> HIDE DEF answer
  <2> QED
    BY <2>1, <2>2, <2>3 DEF AnswerInv
<1> QED
  BY <1>1, <1>2, <1>3 DEF Next

\* What an answer says of its citations follows from how it was cleaned.
LEMMA CleaningHolds ==
    ASSUME AnswerInv
    PROVE  CitationsHold
<1> SUFFICES ASSUME result.kind = "answered"
             PROVE  CitationsHold
  BY DEF CitationsHold
<1> DEFINE count == Len(result.sources)
           shown == {NumberOf(result.text, m) : m \in Markers(result.text)}
           asked == {NumberOf(reply, m) : m \in Markers(reply)}
<1>1. /\ reply \in Seq(STRING) /\ result.text = Cleaned(reply, count)
      /\ result.cited = Cardinality(Cited(reply, count))
      /\ result.stripped = Cardinality(Invalid(reply, count))
  BY RepliesAssumption DEF AnswerInv, IsCleanedFrom
<1>2. Cited(reply, count) = shown \cap 1 .. count
  BY <1>1 DEF Cited, Invalid, InRange
<1>3. asked \cap 1 .. count \subseteq shown
  BY <1>1, ValidNumbersStay
<1>4. result.stripped = 0 <=> result.text = reply
  BY <1>1, NothingStripped
<1>5. \A m \in Markers(result.text) :
          \/ NumberOf(result.text, m) \in 1 .. count
          \/ Kept(reply, count)[m[2]] - Kept(reply, count)[m[1]] > m[2] - m[1]
  BY <1>1, StrangersAreSpliced
<1> QED
  BY <1>1, <1>2, <1>3, <1>4, <1>5 DEF CitationsHold

\* Whatever the model writes, in however many markers and pieces of markers,
\* the citations of the answer hold.
THEOREM CitationsStayTrue == Spec => []CitationsHold
<1>1. Init => AnswerInv
  BY NoneIsNew DEF Init, AnswerInv, Kinds
<1>2. AnswerInv /\ [Next]_vars => AnswerInv'
  BY AnswerStep
<1>3. AnswerInv => CitationsHold
  BY CleaningHolds
<1> QED
  BY <1>1, <1>2, <1>3, PTL DEF Spec
=============================================================================
