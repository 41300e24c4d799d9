------------------------------ MODULE JwksCache ------------------------------
(***************************************************************************)
(* The signing keys an EntraTokenVerifier holds and how requests refresh   *)
(* them (services/entra_jwt.py): a miss waits for a refresh, a hit on an   *)
(* aged set starts one only when none is running, and every refresh goes   *)
(* through one lock and one cooldown.                                      *)
(*                                                                         *)
(* A step runs from one suspension of verify() to the next.  Tokens that   *)
(* fail the header screens never come this far; of the others only the     *)
(* key id matters, and a token whose key is held is taken to be good.      *)
(* Time is counted in ticks, and counters stop where it makes no           *)
(* difference any more.                                                    *)
(***************************************************************************)
EXTENDS Naturals, Sequences, SequencesExt

CONSTANTS
    Calls,      \* calls of verify(), one per request
    Kids,       \* key ids a token may name
    MaxAge,     \* JWKS_MAX_AGE_SECONDS in ticks
    Cooldown,   \* JWKS_REFRESH_COOLDOWN_SECONDS in ticks
    NoCall,     \* nobody holds the refresh lock
    NoKid       \* the key id of a request that has not come in

ASSUME TimesAssumption == MaxAge \in Nat \ {0} /\ Cooldown \in Nat \ {0}
ASSUME NoCallAssumption == NoCall \notin Calls

KeySets == (SUBSET Kids) \ {{}}

VARIABLES
    published,  \* what the tenant's JWKS endpoint serves now
    cache,      \* _keys
    age,        \* ticks since _fetched_at, up to MaxAge
    attempted,  \* ticks since _last_refresh_attempt, up to Cooldown
    closed,     \* _closed or the client's own is_closed
    holder,     \* who holds _refresh_lock
    queue,      \* who waits for it, first come first served
    task,       \* task[r]: where the request's task is
    kid,        \* kid[r]: the key id its token names
    reason,     \* reason[r]: why it refreshes: "miss", "age"
    got,        \* got[r]: the key set its refresh was answered with
    outcome,    \* outcome[r]: "accepted", "rejected" (TokenInvalidError), "crashed"
    lastFetch   \* observer: ticks since a refresh last went out, up to Cooldown

lockVars == <<holder, queue>>
cacheVars == <<cache, age, attempted, closed>>
requestVars == <<task, kid, reason, got, outcome>>
jwksVars == <<published, cacheVars, lockVars, requestVars, lastFetch>>

Refreshing == {"discovering", "fetching", "answered"}

\* What one tick makes of a count.
OneMore(n, most) == IF n < most THEN n + 1 ELSE most

TypeOK ==
    /\ published \in KeySets /\ cache \in KeySets
    /\ age \in 0 .. MaxAge
    /\ attempted \in 0 .. Cooldown /\ lastFetch \in 0 .. Cooldown
    /\ closed \in BOOLEAN
    /\ holder \in Calls \cup {NoCall}
    /\ queue \in Seq(Calls)
    /\ task \in [Calls -> {"new", "queued", "done"} \cup Refreshing]
    /\ kid \in [Calls -> Kids \cup {NoKid}]
    /\ reason \in [Calls -> {"none", "miss", "age"}]
    /\ got \in [Calls -> SUBSET Kids]
    /\ outcome \in [Calls -> {"none", "accepted", "rejected", "crashed", "cancelled"}]

\* initialize() has returned: whatever was published then is held, and the
\* startup fetch counts as an attempt.
JwksInit ==
    /\ published \in KeySets
    /\ cache = published
    /\ age = 0 /\ attempted = 0 /\ lastFetch = 0
    /\ closed = FALSE
    /\ holder = NoCall /\ queue = <<>>
    /\ task = [r \in Calls |-> "new"]
    /\ kid = [r \in Calls |-> NoKid]
    /\ reason = [r \in Calls |-> "none"]
    /\ got = [r \in Calls |-> {}]
    /\ outcome = [r \in Calls |-> "none"]

-----------------------------------------------------------------------------
(* Helpers. *)

IsStale == age = MaxAge
Goto(r, label) == task' = [task EXCEPT ![r] = label]
End(r, what) == Goto(r, "done") /\ outcome' = [outcome EXCEPT ![r] = what]

\* The lookup after the refresh, in the key set that is live then.
AnswerFrom(r, k, keys) == End(r, IF k \in keys THEN "accepted" ELSE "rejected")

\* _refresh_keys inside the lock: the reasons to go home without a fetch.
Declines(k, why) ==
    \/ why = "miss" /\ k \in cache
    \/ why = "age" /\ ~IsStale
    \/ attempted < Cooldown

\* The refresh goes out.  A client closed in the meantime raises RuntimeError.
StartFetchUnstamped(r) ==
    /\ UNCHANGED attempted
    /\ holder' = r
    /\ lastFetch' = 0
    /\ Goto(r, "discovering")
    /\ UNCHANGED outcome

StartFetch(r) ==
    /\ attempted' = 0
    /\ IF closed
       THEN End(r, "crashed") /\ UNCHANGED <<holder, lastFetch>>
       ELSE /\ holder' = r
            /\ lastFetch' = 0
            /\ Goto(r, "discovering")
            /\ UNCHANGED outcome

\* What the owner of the free lock does before it next suspends.
InsideLock(r, k, why) ==
    \/ /\ Declines(k, why)
       /\ AnswerFrom(r, k, cache)
       /\ UNCHANGED <<attempted, holder, lastFetch>>
    \/ /\ ~Declines(k, why)
       /\ StartFetch(r)

\* verify(): answered at once, or a reason to refresh.
ServesAtOnceAtAnyAge(k) == k \in cache
ServesAtOnce(k) == k \in cache /\ (~IsStale \/ holder # NoCall)
ReasonFor(k) == IF k \in cache THEN "age" ELSE "miss"

-----------------------------------------------------------------------------
(* verify() and _refresh_keys. *)

\* A hit in a set that is young enough, or that somebody is refreshing.
Serve(r, k) ==
    /\ task[r] = "new"
    /\ ServesAtOnce(k)
    /\ kid' = [kid EXCEPT ![r] = k]
    /\ End(r, "accepted")
    /\ UNCHANGED <<published, cacheVars, lockVars, reason, got, lastFetch>>

\* A refresh is wanted and the client is closed: the held keys decide.
ServeClosed(r, k) ==
    /\ task[r] = "new"
    /\ ~ServesAtOnce(k) /\ closed
    /\ kid' = [kid EXCEPT ![r] = k]
    /\ AnswerFrom(r, k, cache)
    /\ UNCHANGED <<published, cacheVars, lockVars, reason, got, lastFetch>>

\* The lock is free and nobody is before us.
Refresh(r, k) ==
    /\ task[r] = "new"
    /\ ~ServesAtOnce(k) /\ ~closed
    /\ holder = NoCall /\ queue = <<>>
    /\ kid' = [kid EXCEPT ![r] = k]
    /\ reason' = [reason EXCEPT ![r] = ReasonFor(k)]
    /\ InsideLock(r, k, ReasonFor(k))
    /\ UNCHANGED <<published, cache, age, closed, queue, got>>

QueueUpUnlessCooling(r, k) ==
    /\ task[r] = "new"
    /\ ~ServesAtOnce(k) /\ ~closed
    /\ ~(holder = NoCall /\ queue = <<>>)
    /\ kid' = [kid EXCEPT ![r] = k]
    /\ reason' = [reason EXCEPT ![r] = ReasonFor(k)]
    /\ IF attempted < Cooldown
       THEN AnswerFrom(r, k, cache) /\ UNCHANGED queue
       ELSE Goto(r, "queued") /\ queue' = Append(queue, r) /\ UNCHANGED outcome
    /\ UNCHANGED <<published, cacheVars, holder, got, lastFetch>>

QueueUp(r, k) ==
    /\ task[r] = "new"
    /\ ~ServesAtOnce(k) /\ ~closed
    /\ ~(holder = NoCall /\ queue = <<>>)
    /\ kid' = [kid EXCEPT ![r] = k]
    /\ reason' = [reason EXCEPT ![r] = ReasonFor(k)]
    /\ Goto(r, "queued")
    /\ queue' = Append(queue, r)
    /\ UNCHANGED <<published, cacheVars, holder, got, outcome, lastFetch>>

\* The lock was released and its first waiter comes to run.
Resume(r) ==
    /\ task[r] = "queued"
    /\ holder = NoCall /\ queue # <<>> /\ Head(queue) = r
    /\ queue' = Tail(queue)
    /\ InsideLock(r, kid[r], reason[r])
    /\ UNCHANGED <<published, cache, age, closed, kid, reason, got>>

\* The discovery document is in; the second request needs an open client.
DiscoveryArrives(r) ==
    /\ task[r] = "discovering"
    /\ IF closed
       THEN End(r, "crashed") /\ holder' = NoCall
       ELSE Goto(r, "fetching") /\ UNCHANGED <<outcome, holder>>
    /\ UNCHANGED <<published, cacheVars, queue, kid, reason, got, lastFetch>>

FetchFailsKeepingLock(r) ==
    /\ task[r] \in Refreshing
    /\ AnswerFrom(r, kid[r], cache)
    /\ UNCHANGED <<published, cacheVars, lockVars, kid, reason, got, lastFetch>>

\* Either request fails, or its document does not validate: swallowed.
FetchFails(r) ==
    /\ task[r] \in Refreshing
    /\ AnswerFrom(r, kid[r], cache)
    /\ holder' = NoCall
    /\ UNCHANGED <<published, cacheVars, queue, kid, reason, got, lastFetch>>

\* The validated set becomes the live one, in one assignment.
Publish(r) ==
    /\ task[r] = "answered"
    /\ cache' = got[r]
    /\ age' = 0
    /\ AnswerFrom(r, kid[r], got[r])
    /\ holder' = NoCall
    /\ UNCHANGED <<published, attempted, closed, queue, kid, reason, got, lastFetch>>

\* The client is gone: the waiter leaves the queue, the holder its lock.
Cancel(r) ==
    /\ End(r, "cancelled")
    /\ \/ /\ task[r] = "queued"
          /\ \E i \in DOMAIN queue : queue[i] = r /\ queue' = RemoveAt(queue, i)
          /\ UNCHANGED holder
       \/ /\ task[r] \in Refreshing
          /\ holder' = NoCall
          /\ UNCHANGED queue
    /\ UNCHANGED <<published, cacheVars, kid, reason, got, lastFetch>>

\* aclose().
Close ==
    /\ closed' = TRUE
    /\ UNCHANGED <<published, cache, age, attempted, lockVars, requestVars, lastFetch>>

-----------------------------------------------------------------------------
(* The tenant and the clock. *)

KeysServed(r) ==
    /\ task[r] = "fetching"
    /\ got' = [got EXCEPT ![r] = published]
    /\ Goto(r, "answered")
    /\ UNCHANGED <<published, cacheVars, lockVars, kid, reason, outcome, lastFetch>>

Rotate ==
    /\ published' \in KeySets \ {published}
    /\ UNCHANGED <<cacheVars, lockVars, requestVars, lastFetch>>

Tick ==
    /\ age' = OneMore(age, MaxAge)
    /\ attempted' = OneMore(attempted, Cooldown)
    /\ lastFetch' = OneMore(lastFetch, Cooldown)
    /\ UNCHANGED <<published, cache, closed, lockVars, requestVars>>

Works(r) ==
    \/ Resume(r)
    \/ DiscoveryArrives(r)
    \/ KeysServed(r)
    \/ FetchFails(r)
    \/ Publish(r)

Arrives(r) == \E k \in Kids : Serve(r, k) \/ ServeClosed(r, k) \/ Refresh(r, k) \/ QueueUp(r, k)

JwksNext ==
    \/ \E r \in Calls : Arrives(r) \/ Works(r) \/ Cancel(r)
    \/ Close
    \/ Rotate
    \/ Tick

JwksSpec == JwksInit /\ [][JwksNext]_jwksVars

(* Fairness.  Every request to the tenant carries a timeout, so a refresh  *)
(* comes to its end; a woken waiter is run by the event loop.              *)
JwksFairSpec == JwksSpec /\ \A r \in Calls : WF_jwksVars(Works(r))

-----------------------------------------------------------------------------
(* Properties. *)

Answers(r, what) == outcome[r] # what /\ outcome'[r] = what

(* Unknown key ids cannot be turned into traffic: refreshes go out at      *)
(* least a cooldown apart, whether they succeed, fail or are cancelled     *)
(* (entra_jwt.py: the attempt is stamped before the await).                *)
RefreshesAreRateLimited ==
    [][\A r \in Calls : task[r] # "discovering" /\ task'[r] = "discovering" =>
          lastFetch = Cooldown]_jwksVars

(* Nobody is told that a key is unknown while a refresh that may bring it  *)
(* is under way (entra_jwt.py: the lock makes the waiters wait).           *)
NoRejectionDuringRefresh ==
    [][\A r \in Calls : Answers(r, "rejected") =>
          closed \/ holder \in {NoCall, r}]_jwksVars

(* An answer is given from the key set that is live when it is given, also *)
(* by a request that waited: a withdrawn key is not honoured by who has    *)
(* just learned it, a new one not refused (entra_jwt.py: the re-read).     *)
AnswersFromLiveKeys ==
    [][\A r \in Calls :
          /\ Answers(r, "accepted") => kid'[r] \in cache'
          /\ Answers(r, "rejected") => kid'[r] \notin cache']_jwksVars

(* A key found in an aged set is not just honoured: a refresh runs, this   *)
(* request's own included, one was tried within the cooldown, or the       *)
(* client is closed.  Only a request that waited because its key was not   *)
(* held may end with a set that aged while it waited (entra_jwt.py: the    *)
(* age trigger and its single flight).                                     *)
AgedKeysAreRefreshed ==
    [][\A r \in Calls :
          Answers(r, "accepted") /\ IsStale' /\ reason'[r] # "miss" =>
          \/ holder # NoCall
          \/ attempted < Cooldown
          \/ closed]_jwksVars

(* Every request is answered, with the tenant down as well.                *)
EveryRequestAnswered == \A r \in Calls : task[r] = "queued" ~> task[r] = "done"
=============================================================================
