------------------------ MODULE DocumentReplacement ------------------------
(***************************************************************************)
(* Replacing a document's chunks in the search index: upsert the new       *)
(* chunks with retries, pass the gate, list what is indexed page by page,  *)
(* remove what is stale with retries (services/search_indexing.py over     *)
(* services/search_data_plane.py and services/indexing_results.py).        *)
(*                                                                         *)
(* A step is one call to the service together with what the caller does    *)
(* with the answer before it next suspends.  Of an answer only the         *)
(* verdicts per key are kept; a request whose answer is lost has no        *)
(* verdicts and may have been carried out for any part of the batch.  The  *)
(* rest of it may be carried out later, key by key, where Late allows it:  *)
(* after the retry, and after the whole replacement.                       *)
(***************************************************************************)
EXTENDS Naturals, FiniteSets

CONSTANTS
    Jobs,         \* calls of DocumentReplacer.replace
    Processes,    \* processes, each with its own DocumentReplacer
    Parents,      \* parent ids; make_parent_id makes the tenant part of them
    Chunks,       \* the ordinals make_chunk_id puts into a chunk id
    Versions,     \* the chunk sets a document may come in
    BatchLimit,   \* MAX_BATCH_DOCUMENTS
    PageSize,     \* ENUMERATION_PAGE_SIZE
    MaxAttempts,  \* MAX_INDEXING_ATTEMPTS
    Lags,         \* BOOLEAN: a change may take a while to become queryable
    Late,         \* BOOLEAN: a request given up on may be carried out later
    NoJob,        \* nobody wrote this chunk, nobody owns the lock
    NoCall        \* the arguments of a job that has not been called

ASSUME ChunksAssumption == Chunks \subseteq Nat \ {0} /\ IsFiniteSet(Chunks)
ASSUME VersionsAssumption == Versions \subseteq (SUBSET Chunks) \ {{}}
ASSUME LimitsAssumption ==
    /\ BatchLimit \in Nat \ {0} /\ PageSize \in Nat \ {0} /\ MaxAttempts \in Nat \ {0}
    /\ Lags \in BOOLEAN /\ Late \in BOOLEAN
ASSUME NoJobAssumption == NoJob \notin Jobs

(* valid: every document belongs to the tenant and the parent named in the *)
(* call, there is one at least, no chunk id occurs twice, each document    *)
(* fits into a request.                                                    *)
Calls == [process : Processes, parent : Parents, chunks : Versions, valid : BOOLEAN]
LockKeys == Processes \X Parents
LockKeyOf(c) == <<c.process, c.parent>>

Verdicts == {"none", "succeeded", "retryable", "permanent"}
Outcomes == {"none", "raised", "blocked", "stale state unknown", "incomplete", "completed"}

VARIABLES
    owner, waiting,  \* DocumentReplacer._locks, see KeyedMutex
    index,     \* index[p][k]: the job whose chunk k of p the service holds, or NoJob
    lagging,   \* lagging[p]: the chunks whose last change queries may not see yet
    late,      \* late[p]: <<k, w>> where k of p may yet come to be w's, or NoJob's
    pc,        \* pc[j]: where the job's task is
    call,      \* call[j]: the arguments of replace()
    unsent,    \* unsent[j]: the keys of the current attempt not posted yet
    again,     \* again[j]: still_outstanding
    attempt,   \* attempt[j]: attempt
    verdict,   \* verdict[j][k]: terminal of the current indexing action
    listed,    \* listed[j]: the keys list_indexed_chunk_ids has collected
    cursor,    \* cursor[j]: its cursor, 0 for None
    outcome    \* outcome[j]: what replace() returned, or that it raised

lockVars == <<owner, waiting>>
indexVars == <<index, lagging, late>>
retryVars == <<unsent, again, attempt, verdict>>
walkVars == <<listed, cursor>>
vars == <<lockVars, indexVars, pc, call, retryVars, walkVars, outcome>>

Lock == INSTANCE KeyedMutex WITH Tasks <- Jobs, Keys <- LockKeys, NoTask <- NoJob

Posting == {"uploading", "removing"}
Critical == {"entered", "listing"} \cup Posting
Status == {"new", "acquiring", "done"} \cup Critical

TypeOK ==
    /\ Lock!MutexTypeOK
    /\ index \in [Parents -> [Chunks -> Jobs \cup {NoJob}]]
    /\ lagging \in [Parents -> SUBSET Chunks]
    /\ late \in [Parents -> SUBSET (Chunks \X (Jobs \cup {NoJob}))]
    /\ pc \in [Jobs -> Status]
    /\ call \in [Jobs -> Calls \cup {NoCall}]
    /\ unsent \in [Jobs -> SUBSET Chunks]
    /\ again \in [Jobs -> SUBSET Chunks]
    /\ attempt \in [Jobs -> 0 .. MaxAttempts]
    /\ verdict \in [Jobs -> [Chunks -> Verdicts]]
    /\ listed \in [Jobs -> SUBSET Chunks]
    /\ cursor \in [Jobs -> Chunks \cup {0}]
    /\ outcome \in [Jobs -> Outcomes]

NoVerdicts == [k \in Chunks |-> "none"]

Init ==
    /\ Lock!MutexInit
    /\ index = [p \in Parents |-> [k \in Chunks |-> NoJob]]
    /\ lagging = [p \in Parents |-> {}]
    /\ late = [p \in Parents |-> {}]
    /\ pc = [j \in Jobs |-> "new"]
    /\ call = [j \in Jobs |-> NoCall]
    /\ unsent = [j \in Jobs |-> {}]
    /\ again = [j \in Jobs |-> {}]
    /\ attempt = [j \in Jobs |-> 0]
    /\ verdict = [j \in Jobs |-> NoVerdicts]
    /\ listed = [j \in Jobs |-> {}]
    /\ cursor = [j \in Jobs |-> 0]
    /\ outcome = [j \in Jobs |-> "none"]

-----------------------------------------------------------------------------
(* Helpers. *)

Parent(j) == call[j].parent
Expected(j) == call[j].chunks
Stale(j) == listed[j] \ Expected(j)
Indexed(p) == {k \in Chunks : index[p][k] # NoJob}

Goto(j, label) == pc' = [pc EXCEPT ![j] = label]

\* replace() returns or raises: its locals are gone, hold() releases the lock.
Return(j, what) ==
    /\ Goto(j, "done")
    /\ outcome' = [outcome EXCEPT ![j] = what]
    /\ Lock!Release(j, LockKeyOf(call[j]))
    /\ unsent' = [unsent EXCEPT ![j] = {}]
    /\ again' = [again EXCEPT ![j] = {}]
    /\ attempt' = [attempt EXCEPT ![j] = 0]
    /\ verdict' = [verdict EXCEPT ![j] = NoVerdicts]
    /\ listed' = [listed EXCEPT ![j] = {}]
    /\ cursor' = [cursor EXCEPT ![j] = 0]

\* run_indexing_with_retry begins with these keys outstanding.
StartAction(j, keys) ==
    /\ unsent' = [unsent EXCEPT ![j] = keys]
    /\ again' = [again EXCEPT ![j] = {}]
    /\ attempt' = [attempt EXCEPT ![j] = 1]
    /\ verdict' = [verdict EXCEPT ![j] = NoVerdicts]

\* Whose a chunk is when j's action was carried out on it.
Effect(j) == IF pc[j] = "uploading" THEN j ELSE NoJob

\* The service carries out j's action on these keys.
CarryOut(j, keys) ==
    /\ index' = [index EXCEPT ![Parent(j)] = [k \in Chunks |->
           IF k \notin keys THEN @[k] ELSE Effect(j)]]
    /\ lagging' = [lagging EXCEPT ![Parent(j)] = IF Lags THEN @ \cup keys ELSE @]

\* j does not wait any longer for what the service does with these keys.
GiveUpOn(j, keys) ==
    late' = [late EXCEPT ![Parent(j)] = IF Late THEN @ \cup keys \X {Effect(j)} ELSE @]

\* plan_batches: a request takes the keys it can up to both its ceilings; the
\* one on its bytes makes any smaller cut possible.
IsBatch(j, b) == b # {} /\ b \subseteq unsent[j] /\ Cardinality(b) <= BatchLimit

\* An honest answer to b: a key that succeeded was carried out, one that was
\* refused was not, and one without a verdict may have been.
Answers(b) == [b -> Verdicts]
Agrees(answer, landed) ==
    \A k \in DOMAIN answer :
        /\ answer[k] = "succeeded" => k \in landed
        /\ answer[k] \in {"retryable", "permanent"} => k \notin landed

\* The request failed as a whole, in the eyes of the caller.
Failed(answer) == \A k \in DOMAIN answer : answer[k] = "none"

\* may_delete_stale on the settled results of the upload.
GateOpensUnlessPermanent(j) == \A k \in Expected(j) : verdict[j][k] # "permanent"
GateOpens(j) == \A k \in Expected(j) : verdict[j][k] = "succeeded"

\* Nothing is outstanding any more, or the attempts are used up.
Settled(j) == unsent[j] = {} /\ (again[j] = {} \/ attempt[j] = MaxAttempts)

\* What a query sees of p: all it holds but for changes under way.
Views(p) == {v \in SUBSET Chunks :
    /\ Indexed(p) \ lagging[p] \subseteq v
    /\ v \subseteq Indexed(p) \cup lagging[p]}

\* list_chunk_ids: the first PageSize keys of the view after the cursor.
PageSkippingOne(view, after) ==
    {k \in view : k > after + 1 /\ Cardinality({i \in view : after + 1 < i /\ i <= k}) <= PageSize}
Page(view, after) ==
    {k \in view : k > after /\ Cardinality({i \in view : after < i /\ i <= k}) <= PageSize}

-----------------------------------------------------------------------------
(* Into the critical section. *)

Call(j, c) ==
    /\ pc[j] = "new"
    /\ call' = [call EXCEPT ![j] = c]
    /\ Goto(j, "acquiring")
    /\ Lock!Request(j, LockKeyOf(c))
    /\ UNCHANGED <<indexVars, retryVars, walkVars, outcome>>

Enter(j) ==
    /\ pc[j] = "acquiring"
    /\ Lock!Grant(j, LockKeyOf(call[j]))
    /\ Goto(j, "entered")
    /\ UNCHANGED <<indexVars, call, retryVars, walkVars, outcome>>

CancelAcquire(j) ==
    /\ pc[j] = "acquiring"
    /\ Lock!Abandon(j, LockKeyOf(call[j]))
    /\ Goto(j, "done")
    /\ outcome' = [outcome EXCEPT ![j] = "raised"]
    /\ UNCHANGED <<indexVars, call, retryVars, walkVars>>

\* ValueError, DuplicateChunkIdError or DocumentTooLargeError: nothing is sent.
Refuse(j) ==
    /\ pc[j] = "entered" /\ ~call[j].valid
    /\ Return(j, "raised")
    /\ UNCHANGED <<indexVars, call>>

BeginUpload(j) ==
    /\ pc[j] = "entered" /\ call[j].valid
    /\ StartAction(j, Expected(j))
    /\ Goto(j, "uploading")
    /\ UNCHANGED <<lockVars, indexVars, call, walkVars, outcome>>

-----------------------------------------------------------------------------
(* run_indexing_with_retry, for the upserts and for the removals. *)

\* One batch is posted and its answer read key by key.  A key that is refused
\* for now stays outstanding, and so does one that has no verdict: the whole
\* batch when the request failed.
Post(j, b, answer, landed) ==
    /\ pc[j] \in Posting /\ IsBatch(j, b)
    /\ Agrees(answer, landed)
    /\ CarryOut(j, landed)
    /\ GiveUpOn(j, IF Failed(answer) THEN b \ landed ELSE {})
    /\ unsent' = [unsent EXCEPT ![j] = @ \ b]
    /\ verdict' = [verdict EXCEPT ![j] = [k \in Chunks |->
           IF k \in b /\ answer[k] # "none" THEN answer[k] ELSE @[k]]]
    /\ again' = [again EXCEPT ![j] = @ \cup {k \in b : answer[k] \in {"none", "retryable"}}]
    /\ UNCHANGED <<lockVars, pc, call, attempt, walkVars, outcome>>

RetryForever(j) ==
    /\ pc[j] \in Posting /\ unsent[j] = {} /\ again[j] # {} /\ attempt[j] < MaxAttempts
    /\ unsent' = [unsent EXCEPT ![j] = again[j]]
    /\ again' = [again EXCEPT ![j] = {}]
    /\ UNCHANGED <<lockVars, indexVars, pc, call, attempt, verdict, walkVars, outcome>>

\* The backoff is over and the outstanding keys make the next attempt.
Retry(j) ==
    /\ pc[j] \in Posting /\ unsent[j] = {} /\ again[j] # {} /\ attempt[j] < MaxAttempts
    /\ unsent' = [unsent EXCEPT ![j] = again[j]]
    /\ again' = [again EXCEPT ![j] = {}]
    /\ attempt' = [attempt EXCEPT ![j] = @ + 1]
    /\ UNCHANGED <<lockVars, indexVars, pc, call, verdict, walkVars, outcome>>

\* The batch is refused as a whole, or its answer repeats a key or names one
\* that was not sent.  That ends an upload by raising; after the upload it
\* leaves the stale chunks in an unknown state.
PostRaises(j, landed) ==
    /\ pc[j] \in Posting /\ unsent[j] # {}
    /\ landed = {} \/ IsBatch(j, landed)
    /\ CarryOut(j, landed)
    /\ Return(j, IF pc[j] = "uploading" THEN "raised" ELSE "stale state unknown")
    /\ UNCHANGED <<late, call>>

\* The task is cancelled in a request that may be carried out all the same, or
\* in the backoff.
CancelPost(j, landed, slow) ==
    /\ pc[j] \in Posting /\ ~Settled(j)
    /\ landed \cup slow = {} \/ IsBatch(j, landed \cup slow)
    /\ CarryOut(j, landed)
    /\ GiveUpOn(j, slow)
    /\ Return(j, "raised")
    /\ UNCHANGED call

-----------------------------------------------------------------------------
(* The gate, the walk through the index, the end. *)

GateBlocks(j) ==
    /\ pc[j] = "uploading" /\ Settled(j) /\ ~GateOpens(j)
    /\ Return(j, "blocked")
    /\ UNCHANGED <<indexVars, call>>

BeginListing(j) ==
    /\ pc[j] = "uploading" /\ Settled(j) /\ GateOpens(j)
    /\ Goto(j, "listing")
    /\ UNCHANGED <<lockVars, indexVars, call, retryVars, walkVars, outcome>>

\* One more page, and the cursor moves to its last key.
ListPage(j, view) ==
    /\ pc[j] = "listing"
    /\ \E last \in Page(view, cursor[j]) :
           /\ \A k \in Page(view, cursor[j]) : k <= last
           /\ cursor' = [cursor EXCEPT ![j] = last]
    /\ listed' = [listed EXCEPT ![j] = @ \cup Page(view, cursor[j])]
    /\ UNCHANGED <<lockVars, indexVars, pc, call, retryVars, outcome>>

\* EnumerationError, a failed request, or the task is cancelled.
ListRaises(j) ==
    /\ pc[j] = "listing"
    /\ Return(j, "stale state unknown") \/ Return(j, "raised")
    /\ UNCHANGED <<indexVars, call>>

NothingStale(j, view) ==
    /\ pc[j] = "listing" /\ Page(view, cursor[j]) = {} /\ Stale(j) = {}
    /\ Return(j, "completed")
    /\ UNCHANGED <<indexVars, call>>

BeginRemovingAllListed(j, view) ==
    /\ pc[j] = "listing" /\ Page(view, cursor[j]) = {} /\ Stale(j) # {}
    /\ StartAction(j, listed[j])
    /\ Goto(j, "removing")
    /\ UNCHANGED <<lockVars, indexVars, call, walkVars, outcome>>

BeginRemoving(j, view) ==
    /\ pc[j] = "listing" /\ Page(view, cursor[j]) = {} /\ Stale(j) # {}
    /\ StartAction(j, Stale(j))
    /\ Goto(j, "removing")
    /\ UNCHANGED <<lockVars, indexVars, call, walkVars, outcome>>

Unresolved(j) == {k \in Stale(j) : verdict[j][k] # "succeeded"}

FinishIgnoringSilence(j) ==
    /\ pc[j] = "removing" /\ Settled(j)
    /\ Return(j, IF \E k \in Stale(j) : verdict[j][k] = "permanent"
                 THEN "incomplete" ELSE "completed")
    /\ UNCHANGED <<indexVars, call>>

Finish(j) ==
    /\ pc[j] = "removing" /\ Settled(j)
    /\ Return(j, IF Unresolved(j) = {} THEN "completed" ELSE "incomplete")
    /\ UNCHANGED <<indexVars, call>>

\* The service's own doing: a change becomes queryable.
BecomesQueryable(p, k) ==
    /\ k \in lagging[p]
    /\ lagging' = [lagging EXCEPT ![p] = @ \ {k}]
    /\ UNCHANGED <<lockVars, index, late, pc, call, retryVars, walkVars, outcome>>

\* It carries out a request that its caller gave up on.
LandsLate(p, k, w) ==
    /\ <<k, w>> \in late[p]
    /\ index' = [index EXCEPT ![p][k] = w]
    /\ lagging' = [lagging EXCEPT ![p] = IF Lags THEN @ \cup {k} ELSE @]
    /\ late' = [late EXCEPT ![p] = @ \ {<<k, w>>}]
    /\ UNCHANGED <<lockVars, pc, call, retryVars, walkVars, outcome>>

-----------------------------------------------------------------------------
PostSome(j) == \E b \in SUBSET unsent[j] : IsBatch(j, b) /\
    \E answer \in Answers(b), landed \in SUBSET b : Post(j, b, answer, landed)

Query(j) == \E view \in Views(Parent(j)) :
    ListPage(j, view) \/ NothingStale(j, view) \/ BeginRemoving(j, view)

JobStep(j) ==
    \/ Enter(j)
    \/ Refuse(j)
    \/ BeginUpload(j)
    \/ PostSome(j)
    \/ Retry(j)
    \/ GateBlocks(j)
    \/ BeginListing(j)
    \/ pc[j] = "listing" /\ Query(j)
    \/ Finish(j)

Abort(j, landed) ==
    \/ PostRaises(j, landed)
    \/ \E slow \in SUBSET (unsent[j] \ landed) : CancelPost(j, landed, slow)

Fault(j) ==
    \/ CancelAcquire(j)
    \/ \E landed \in SUBSET unsent[j] : Abort(j, landed)
    \/ ListRaises(j)

Next ==
    \/ \E j \in Jobs : JobStep(j) \/ Fault(j) \/ \E c \in Calls : Call(j, c)
    \/ \E p \in Parents, k \in Chunks :
           BecomesQueryable(p, k) \/ \E w \in Jobs \cup {NoJob} : LandsLate(p, k, w)

Spec == Init /\ [][Next]_vars

(* Fairness.  KeyedLock serves its waiters in order; every call to the     *)
(* service is answered or runs into the client's timeout, and the backoff  *)
(* is a timer, so a job inside its critical section always goes on.        *)
FairSpec ==
    /\ Spec
    /\ \A j \in Jobs : SF_vars(Enter(j)) /\ WF_vars(pc[j] \in Critical /\ JobStep(j))

-----------------------------------------------------------------------------
(* Properties. *)

(* The gate: from the moment a job may remove anything, every chunk of its *)
(* own version is in the index, as this job wrote it; so no removal ever   *)
(* leaves a document with less than one whole version                      *)
(* (indexing_results.py: may_delete_stale; one process, nothing late).     *)
DurableBeforeRemoval ==
    \A j \in Jobs : pc[j] \in {"listing", "removing"} =>
        \A k \in Expected(j) : index[Parent(j)][k] = j

(* What replace() reports is so: if it says completed, the index holds the *)
(* job's version, and beyond it only what the listing did not show; if it  *)
(* names survivors, they cover all that was listed and is still there      *)
(* (ReplacementOutcome; one process, nothing late).                        *)
Reports(j, what) == outcome[j] = "none" /\ outcome'[j] = what

OutcomeIsTrue ==
    [][\A j \in Jobs :
          LET survivors == (Indexed(Parent(j)) \ Expected(j)) \cap listed[j]
          IN  /\ Reports(j, "completed") =>
                    survivors = {} /\ \A k \in Expected(j) : index[Parent(j)][k] = j
              /\ Reports(j, "incomplete") => survivors \subseteq Unresolved(j)]_vars

(* Without lag, completed means replaced: exactly the job's version is     *)
(* left under the parent (one process, nothing late).                      *)
CompletedMeansReplaced ==
    [][\A j \in Jobs : Reports(j, "completed") =>
          Indexed(Parent(j)) = Expected(j)]_vars

(* A document that is served never goes dark: once one of its chunks is    *)
(* indexed, one is, whatever fails, is lost or is cancelled.  Across       *)
(* processes, or if requests are carried out late, this needs a chunk      *)
(* common to all versions, as make_chunk_id gives them; else it needs      *)
(* nothing (docs/rag-indexing.md: upload, then delete what is stale).      *)
NeverGoesDark ==
    [][\A p \in Parents : Indexed(p) # {} => Indexed(p)' # {}]_index

(* Nothing blocks a document for good: every replacement that asks for the *)
(* lock ends, with at most MaxAttempts attempts per action.                *)
EveryReplacementEnds == \A j \in Jobs : pc[j] = "acquiring" ~> pc[j] = "done"
=============================================================================
