# TLA+ models of azure-genai-backend-lab

This directory holds a verification development of the service in `src/azgenai_lab` and
of the tools that operate it: TLA+ modules that model its components, TLC configurations that model-check them on
small instances, and theorems about them that the TLAPS proof system checks for every
value of the constants. `src/docs` and `src/tests` were read as a statement of what the
service promises; every definition is translated from the code.

    tlc -config KeyedLock.cfg KeyedLock.tla     # one run
    tlapm KeyedLockProofs.tla                   # one module's proofs

`PROJECT.json` lists the components, the runs, for every property a mutation of the
model that violates it, the source lines each definition stands for, the hazards, the
findings and the theorems.

Contents: [the system](#the-system) · [modules](#modules) · [runs](#runs) ·
[fairness](#fairness) · [proofs](#proofs) · [findings](#findings) ·
[what is assumed](#what-is-assumed) · [what is not modelled](#what-is-not-modelled) ·
[plan](#plan)

## The system

A FastAPI service in one asyncio process. It answers `/chat`, `/chat/stream`, `/agent`
and `/rag` with Azure OpenAI and Azure AI Search, and has an indexing library that keeps
the search index in step with documents. Three tools of `tools/` operate it: one indexes
a corpus, one evaluates the answers against a golden dataset, one tries a deployment from
outside. In the service tasks interleave only where they await, so a
step of every model runs from one suspension of a task to its next; a cancellation may
arrive wherever a task is suspended. A tool is a single process whose steps end where it
reads or writes something that others share: the disk, the index, the service.

| component | state it keeps | operations | interacts with |
|---|---|---|---|
| Keyed lock (`core/keyed_lock.py`) | registry of reference-counted `asyncio.Lock`s | acquire, release, hold | turns and replacements lock through it |
| Conversation turns (`services/conversation.py`, `agent_turn.py`, the endpoints) | the turn's own copy of the conversation, its lock, its audit event | load, check budget, infer, commit, reply or stream | keyed lock, store, provider, audit |
| Conversation store (`services/conversation_store.py`) | per tenant and id: transcript, replay items, revision, token ledger, scope | get, conditional append | turns |
| Document replacement (`services/search_indexing.py`, `search_data_plane.py`, `indexing_results.py`) | results per key, the listing, the lock | upsert with retries, gate, paged listing, removal with retries | keyed lock, the search index |
| JWKS cache (`services/entra_jwt.py`) | key set with its age, last attempt, refresh lock, closed flag | initialize, verify, refresh, aclose | the tenant's discovery and JWKS endpoints |
| Principal resolution (`api/principal.py`, `models/principal.py`) | none | resolve headers or a token, require the permission, refuse with an audit event | JWKS cache, audit |
| Retrieval and RAG answer (`services/retrieval.py`, `rag.py`, `api/rag.py`) | none beyond the request | embed, search, select, generate, clean citations | principal, search, provider, audit |
| Access policy (`services/acl.py`, `odata.py`) | none | the filter for the search service, the predicate for writers | search, RAG, indexing |
| Chat adapter and streams (`services/azure_openai.py`, `core/telemetry.py`, `api/streaming.py`) | an owned span, the HTTP stream, a chain of five async generators | complete, open a stream, pull, unwind, finalize | provider, turns, audit |
| Agent run (`services/agent_framework.py`) | admission counters, record sink of one run | admit, refuse, execute, derive the report | the agent framework, tools |
| Shutdown (`main.py`, every `aclose`) | deadline, first failure, cancellation | close the clients one after the other | all clients |
| Chunking and loading (`services/document_loader.py`, `chunking.py`) | none | a directory to documents, a document to chunks | ingestion, evaluation |
| Ingestion (`tools/index_corpus.py`, `services/embeddings.py`, `search_data_plane.py`) | the loop over the documents | guards, schema calls, chunk, embed in batches, replace, stop at the first that is not complete | replacement, the index, the embeddings endpoint |
| Evaluation runner (`tools/eval_run.py`) | stack and colours of its searches, verdicts, answers that were paid for, two artifacts | load, order, score, propagate, answer, judge, write, exit | loading, the RAG answer, a judge, the disk |
| Smoke test and gate (`tools/entra_smoke.py`) | tokens, polls, the list of checks, the evidence | screen, get tokens, poll the service, call it, join with the log, write, exit | Entra, a deployed service, its log |
| Audit schema (`core/audit.py`) | none | build, validate, emit | every endpoint |
| Start-up, configuration, error envelope, correlation, logging, other tools, infrastructure | configuration, context variables | run once, or once per request | - |

What is hard about it, and what each part must get right:

- **Keyed lock.** A task keeps a reference to an entry across an await, while deletions go
  through the registry by key. Cancellation of a waiter, also of one already woken, must
  neither lose a wake-up, nor leave an entry behind, nor let two tasks into one key.
- **Turns.** The provider is awaited for seconds between the load and the append. Neither
  another turn, another replica, a store failure nor a disconnect may produce a reply to
  a history that is not the one it follows, tell a client that a lost turn is kept, exceed
  the token budget by more than a turn, open a conversation to another group set, or leave
  the lock behind. The lock of a stream is acquired in one frame and released in another,
  in the finally clause of a generator.
- **Replacement.** Requests fail after they were carried out, answers are partial, doubled
  or silent, and queries may lag behind writes. Nothing stale may be removed before all of
  the new version is known to be there, the document must not go dark, and what is
  reported must be true.
- **JWKS cache.** Many requests share a refresh that may fail, hang or be cancelled; keys
  rotate meanwhile. Fetches must stay a cooldown apart, a new key must not be refused
  while its refresh runs, a withdrawn one not be honoured by whoever has learned it.
- **Principal resolution.** Every defect of a credential must refuse the caller; a user in
  more groups than a token can list must not be read as one without groups.
- **RAG.** Only chunks the caller may see may reach the prompt; the byte budget must cut
  the ranking, never reorder it; the citation counts must describe the text that is left;
  every failure of every stage ends in exactly one event that its schema accepts.
- **Streams.** Span, audit event, frames and commit are each settled in another generator
  of a chain that unwinds in one task, or piece by piece in finalizers.
- **Agent run.** A batch of calls runs side by side and overshoots the framework's own
  bound; records are kept in the order bodies end, calls in the order they were asked for.
- **Shutdown.** All closers share one deadline; timeouts, cancellations and failures of one
  client must not strand the next, nor be taken for one another.
- **Ingestion.** Embeddings come back in any order and are bound by their index; a run that
  stops half way must leave whole documents; a chunk must fit what the model takes, with
  its headings and the overlap, and no character of the author may get lost between
  fences, headings, sentences and hard cuts.
- **Evaluation.** A search for cycles, a placing that relies on it, and a propagation in one
  pass that relies on the placing. Money is spent between a corpus that is read five times
  and two files that may not be writable. The exit status has to separate a gate that
  failed from a run that never reached it.
- **Smoke test.** It stops at many points, and a list of checks that is merely shorter looks
  like success. Two polling loops with their own rules about clocks.

`PROJECT.json` lists these as hazards, each at its line and with the properties that
would catch it.

## Modules

Each module begins with a comment that says what a step is and what is abstracted. State
variables and actions carry the names of the code where TLA+ allows it. Definitions named
like `GateOpensUnlessPermanent` or `ProceedWithoutFinally` are plausible bugs: the same
definition with a guard dropped or an order changed. No specification uses them; they are
there to show that the properties notice.

**`KeyedMutex`, `KeyedLock`, `KeyedLockProofs`.** `KeyedMutex` is what the lock promises:
an owner and a set of waiting tasks per key. `KeyedLock` has the registry, the entries
with their `refs` and `asyncio.Lock` flags, and per task a phase, its key, the entry it
looked up and who is ahead of it. `Acquire` is the lookup or creation with the increment
and, if the lock is free and nobody queues, the grant; `Resume` a woken waiter that runs;
`CancelWaiter` and `LeaveQueue` the two halves of a cancellation, between which
`release` may still resolve the future; `Release` the release, the decrement and the
deletion. `asyncio.Lock` is modelled from its observable rules.

**`ConversationLog`, `ConversationTurns`, `MCConversationTurns`, `ConversationTurnsProofs`.**
`ConversationLog` is the promise: per conversation a log that only grows, each entry
written by somebody who had seen all before it, a ledger, and a scope fixed by the first.
`ConversationTurns` composes the store, one lock table per replica and the three
endpoints. A turn's phase follows the code: `acquiring`, `loading`, `inference`,
`opened`, `streaming`, `sending`, `abandoned`, `closing`, `done`, or `leaked`; the actions are the grants, the load with its
scope and budget checks, every outcome of the provider, the commit or its refusal, the
first pull, the delivery of each frame, the closing of the two generators that matter,
and cancellation at each suspension. The lock here is first come first served per key:
`KeyedLock` shows that the real one is.

**`DocumentReplacement`, `MCDocumentReplacement`, `DocumentReplacementProofs`.** One job is
one call of `replace()`: lock, input checks, upsert, gate, listing page by page, removal,
report. The index records for each chunk which job wrote it last. Batches, attempts,
verdicts per key (with answers that omit or double a key), lost requests, exceptions,
cancellations, an index whose queries may lag, and requests that are carried out long after
their caller gave up on them are all choices of the environment.

**`JwksCache`.** Requests that know one key id each against a cache with
an age, one refresh lock and the time since the last attempt. Discovery and key set are
two requests; the tenant rotates its keys and may fail either. Time is counted in ticks
and saturates where it stops making a difference.

**`Identity`.** The pure part of who a caller is: the configuration rules of `Settings`,
both adapters with their screens in order, Entra's two signals for too many groups, the
permission gate, the 401/403 split and the rules of `auth.rejected`. An abstracted
credential is a record of shapes (`Absent`, `Malformed`, a value), not text.

**`Retrieval`.** The access policy in both its encodings, with the meaning the search
service gives the filter, and the failures of embedding and search with their codes.

**`RagAnswer`, `MCRagAnswer`, `AuthenticatedAnswerProofs`.** One POST /api/v1/rag: unreadable body,
credential, permission, invalid body, then embed, search, select, generate, clean, report.
The variables hold the ranked hits, the ranks that were sent, the reply before and after
the removal of invalid markers (a sequence of marker pieces, so that markers can be cut
out of markers), the answer and the events. The proofs are about `JwksCache` as well, whose keys
let the caller in.

**`ProviderStream`.** One call of the model, streamed or not: `gen` says for each of the
five generators whether it was started, is live, dropped or done. `Serve` is what the
provider does, run through the whole chain in the request's task; the cancellations are
of the pull and of the send; `Finalize` is asyncio closing one abandoned generator.

**`AgentRun`.** The wrapped tools over `AdmissionState`, the record sink, the
transcript, and `run()`'s three ends. The framework's loop is external.

**`MCModelCalls`, `ModelCallsProofs`.** `MCModelCalls` is the instance of `AgentRun` and of
`ProviderStream`: a behaviour is a run of the agent or one call of the model. The proofs
are about both.

**`Shutdown`, `MCShutdown`, `ShutdownProofs`.** The loop over the closers, each closing
several clients in nested try/finally blocks, under one deadline and `asyncio.timeout`.

**`GoldenCases`, `Evaluation`, `MCEvaluation`.** `GoldenCases` is the pure part of the
evaluation runner: the rules of a dataset (a record with `Wrong` where the loader rejects
on sight), the score of an answer, what a judge's response must name and what it is worth,
the manifest. `Evaluation` is `main()`: the screens of the flags; `StartSearch` and
`Search`, a step of the iterative search for cycles each, with the iterators that the
code keeps on its stack; `Place`, the recursion of the placing as a stack; pass A, the
propagation, passes B and C with the calls that are paid for, the transcripts, and
for each artifact the temporary file and its renaming, over whatever an earlier run left there.
`Edit` changes the corpus under the run, `JudgedLayerFails` is the `ValueError` that ends the
judged layer as a failure of the set-up, and `Interrupt` ends the run anywhere with a
traceback, as exceptions do that the code lets pass.

**`Chunking`, `Ingestion`, `IngestionProofs`.** `Chunking` is `services/chunking.py` as functions of a document: sections
at headings outside of fences, paragraphs, sentences, hard cuts, packing, overlap. A
character is known by its line and column, so that "nothing is lost" can be said of the
result without repeating the algorithm: `ProseIsKept` names the headings, fences and enclosing
sections of a line on its own terms, not by the scan. `Ingestion` is `tools/index_corpus.py`:
guards, schema, loading, and per document chunking, batches of embeddings with every
defect of an answer, and a replacement that does what `DocumentReplacement` promises. The
seeding of the in-memory index (`services/agent_tools.py`) takes the same path.

**`EntraSmoke`.** `tools/entra_smoke.py`: both phases and the gate, each request a step that
takes time and may answer anything. A check is its subject and whether it passed.

**`MCTools`, `ToolsProofs`.** The three tools in one model. They share nothing; a behaviour is
the run of one. The proofs are about the evaluation and the smoke test.

## Runs

Deadlock is checked for the keyed lock, whose tasks can always acquire again, and for the
shutdown, whose end is a step of its own; the other systems stop when their requests are
served, and their configurations say so. Every run finishes within two minutes.

| run | instance | what it shows |
|---|---|---|
| `keyed_lock` | 4 tasks, 2 keys, 3 entries | `RefsCountUsers`, `FirstComeFirstServed`, `EveryWaiterServed`, `ImplementsKeyedMutex` |
| `turns` | 3 turns of all three endpoints by 2 group sets on 2 ids, usages 1 and 2 against a budget of 2, failing store | `SnapshotStaysCurrent`, `AnswersMatchHistory`, `AuditTellsTheTruth`, `BudgetOvershootsByOneTurn` |
| `turns_replicas` | 3 streamed turns of one conversation on 2 replicas | `EveryTurnEndsAudited`, `ImplementsConversationLog` |
| `turns_abandoned` | 2 streamed turns of one conversation | violation of `FollowUpsAreServed`: see findings |
| `replacement` | 2 jobs, one process, versions {1,2} and {3}, batches of 2, pages of 1, 2 attempts | `DurableBeforeRemoval`, `OutcomeIsTrue`, `CompletedMeansReplaced`, `EveryReplacementEnds` |
| `replacement_processes` | 2 jobs in 2 processes, versions 1..n, lagging index, late requests | `NeverGoesDark` |
| `jwks_cache` | 2 requests, 2 key ids, age limit 2, cooldown 1 | `RefreshesAreRateLimited`, `NoRejectionDuringRefresh`, `AgedKeysAreRefreshed`, `EveryRequestAnswered` |
| `model_calls` | a run of the agent (2 tools, batches of up to 2 calls, 2 iterations, 3 calls), or one call of the model with up to 3 deltas | `EveryCallAccountedFor`, `RoundsAreTrue`, `ForcedFinalNeverNatural`; `OneStory`, `UpstreamIsReleased` |
| `shutdown` | closers of 1, 2 and 2 clients, budget 2, 2 cancellations | `EveryClientAttempted`, `ResultIsTrue`, `ShutdownEnds` |
| `shutdown_hanging` | the same, budget 1, 1 cancellation | violation of `ShutdownEnds`: see findings |
| `rag_answer` | 5 chunks of 2 tenants, budget 2, 3 hits, replies of up to 3 pieces, 4 configurations, every credential with one defect | `OnlyTheEntitledEnter`, `SourcesAreVisible`, `AuditTellsTheTruth`, `CitationsHold` |
| `operator_tools` | a run of one of the three tools, see below | `OnlyOrdersAreAccepted`, `VerdictsAreEarned`, `GateTellsTheTruth`, `PaidAnswersAreKept`; `IndexFollowsTheCorpus`, `ChunksKeepTheProse`; `NoSilentlyShorterList`, `PollsBehave`; `SearchesAndPollsEnd` |

Why the bounds are enough for the interesting cases:

- **Keyed lock.** The races need a holder, a woken and cancelled waiter, another behind it
  and a newcomer: four tasks. The second key shows that keys do not disturb each other.
  An entry that nothing refers to may be taken again. An acquisition always finds one free
  in the instance: four tasks on two keys use at most two at a time.
- **Turns.** A lost update needs two turns; the third makes a follow-up that sees the
  first one's effect, a newcomer to a scope, and a budget that is passed once and refused
  afterwards (two turns of usage 1, or one of 2, reach it). On two replicas three turns
  make two race in one registry while the third races from the other. `turns` has one replica
  because `SnapshotStaysCurrent` is false with two, and the model says why: each replica
  has its own registry. `turns_replicas` shows what is left then.
- **Replacement.** Versions without a common chunk make the gate matter for every chunk;
  `BatchLimit` = 2 gives a whole, a partial and a split batch, pages of one chunk
  make every listing span pages, two attempts give one retry. For several processes the
  versions are the prefixes that `make_chunk_id` produces; without a chunk in common two
  processes can empty a document, which is why the docs keep writers to one. A request given
  up on may land at any later time there, key by key; one attempt keeps that within reach,
  and `CommonChunkServes` holds for any number.
- **JWKS cache.** One request refreshes, the other waits, hits or misses; two key ids let
  one be withdrawn and another appear. `Cooldown` < `MaxAge` as in the code, so that a
  refresh may be due, not due and forbidden in all combinations; a refresh may take longer than the
  cooldown.
- **Streams.** The third delta follows one that was delivered and one that was lost. More
  repeat the same states.
- **Shutdown.** A client before, at and after the one the budget fires in, within one
  closer and across closers; two cancellations reach two closers, or one closer twice.
- **Agent run.** Three slots against batches of two: a batch that fits, one that straddles
  the limit and, with refusals, one beyond it; two iterations reach the iteration
  limit with and without the call limit.
- **RAG.** A chunk fits, fills or exceeds the budget; three hits make a small chunk follow
  one that does not fit; three pieces are what a marker inside a marker takes.
- **Evaluation.** Every graph of requirements between three cases, each of which passes or
  fails: a cycle behind a case that is not on it, a diamond, a failure two steps away. Every combination of
  flags and settings with one case. Each defect of an entry alone, in a dataset of two, over
  four rankings. Judged runs of two cases, or of two repeats, in which the corpus is edited once
  before any step (a new version, a document gone, a corpus that no longer loads or no
  longer chunks), the judge gives one of eight replies, and any write may fail; the destinations
  hold the artifacts of an earlier run, or nothing.
- **Ingestion.** Chunking over every text of up to seven characters of three kinds, every
  list of four lines out of five (titles, headings of two levels, a fence, prose), and a
  second family with more fences; limits so small that paragraphs, sentences and hard
  cuts all occur, overlaps 0 to 2. The tool over six corpora (none, one, a second document, one
  id in two tenants, one that does not load, one that does not chunk), with no index or one that
  holds two of these documents and a third, an override of the tenant, which makes the two tenants' documents
  one, and each flag about the schema; batches of two inputs. The seeding over the texts, and over the same six
  corpora.
- **Smoke test.** Each mode with its flags; three tokens (good, without ids and role,
  unreadable), five answers, times in units of five seconds: intervals of 1 and 2, a
  code that lives for 4 and a deadline of 6 leave room for a `slow_down`, for a back-off, for a sleep that takes a unit too long, and for
  a request that straddles either end.

Symmetry is used only for sets nothing orders, and never in a run that checks liveness.

## Fairness

Strong fairness is used where a queue that is served in order is abstracted to a set, and
where a bounded output is abstracted to a loop without a counter.

- `KeyedLock`: weak fairness of `Resume`, `LeaveQueue` and `Release` of each task. The
  event loop runs what is ready, and the critical sections end in finally clauses. Nobody is obliged to acquire or to cancel.
- `ConversationTurns`: `SF(Enter)`, because the keyed lock is first come first served
  (`FirstComeFirstServed`, proved); `WF(Progress)`, because provider and store calls
  return, fail or time out; `SF(StreamEnds)`, because the output is capped, so a stream
  does not send deltas for ever. That a socket drains or dies is assumed: the code sets no
  limit of its own.
- `DocumentReplacement`: `SF(Enter)` as above, weak fairness of a job's steps inside the
  critical section: each request has a timeout, each backoff is a timer.
- `JwksCache`: weak fairness of a request's work. Both fetches have timeouts. Ticks,
  rotations and arrivals are not fair.
- `MCModelCalls`, for `ProviderStream`: `WF(Serve)`, since the client times out on a silent
  provider and a frame is sent or the caller is gone; `WF(Finalize)`, since asyncio runs
  finalizers.
- `MCTools`: weak fairness of the evaluation's own steps (`Work`, which leaves out `Edit` and
  `Interrupt`) and of the smoke test's: a single process goes on while it can, requests have
  timeouts and sleeps end. Ingestion runs through finite lists and needs no argument, so
  none is made for it.
- `Shutdown`: `LoopFairness` lets timers fire, and makes a cancelled client give in;
  nothing obliges one that was not cancelled to end. `FairSpec` adds that a close that
  begins after its closer's timeout has fired ends: without it (`HangingSpec`) the
  shutdown may hang, which is the second finding.

## Proofs

TLAPS proves 54 results of note in eight modules, for any sets of tasks, keys, turns, replicas,
chunks, requests, clients, tools, documents and cases, and any limits. Types are proved correct
for the modules with proofs. The assumptions on constants are named in the module that
declares them, and TLC evaluates them in the runs: finiteness where something is counted,
sentinels that are not members of the sets they complete, limits that are natural numbers
(positive where the configuration demands it). `SmokeAssumption` and `IngestionAssumption`
say no more than that arguments are as argparse leaves them, that durations are natural numbers, that files are lists of lines,
widths and levels of headings natural numbers, and that no two files have one path.

| module | theorems | the invariant they rest on |
|---|---|---|
| `KeyedLockProofs` | `Exclusion`, `RegistryCountsUsers`, `WakeupsAreKept`, `Fifo`, `Refinement` | `IndInv`. Exclusion alone is not inductive: a newcomer must find the entry the holder locked. That follows from *a used entry stays registered*, which follows from *the count is the number of users*; the flag, the head of each queue and its order complete it. |
| `ConversationTurnsProofs` | `LockFollowsTurns`, `CausalHistory`, `ScopeIsIdentity`, `SnapshotsStayCurrent`, `AnswersTellTheTruth`, `BudgetIsOvershotOnce`, `AuditIsTruthful`, `Refinement` | `Typing`; a history invariant (a snapshot is a prefix of the log, as long as its revision says); and, with one replica, *at most one turn per conversation is between load and commit, and its snapshot is current*. `AuditInv`: an event exists only once the turn is closing or done, and agrees with its reply and its session. |
| `DocumentReplacementProofs` | `GateProtects`, `ReportsAreTrue`, `DocumentsStayServed`, `CommonChunkServes`, `CompletedIsReplaced` | `SafetyInvariant`: who is critical owns the lock; confirmed keys are in the index as this job wrote them; what the listing showed and is still there is to be removed or unresolved. `WalkInvariant` adds that what is indexed up to the cursor is listed, because a page has no gaps and an empty one is the end. `KeptInvariant`: nobody removes the common chunk, late or in time, and who removes another knows it to be there. |
| `AuthenticatedAnswerProofs`, signing keys | `RateLimit`, `NoHastyRejection`, `AnswersAreCurrent`, `AgedKeysAreNoticed` | `SafetyInvariant`: only the lock's holder refreshes, and an attempt is stamped before its fetch. |
| `AuthenticatedAnswerProofs`, answer | `FilterIsThePolicy`, `SourcesStayVisible`, `RankingStays`, `OnlyHoldersEnter`, `EventsAreTrue`, `CitationsStayTrue` | `PipelineInv`: all hits are visible to the caller, and the ranks that were sent are a prefix of the ranking; a lemma shows that the greatest fitting prefix exists and is what the loop selects. `SoundVerdict`: whom either resolver admits or refuses with 403 is the holder of the credential; `StageInv`: behind the gate the caller is a whole principal, and what is in the context was sent. `AnswerInv`: an answer is the reply as cleaned for its sources; what cleaning keeps is told by the rank of each position that stays, so that the position of a piece in the answer and in the reply determine each other. |
| `ShutdownProofs` | `NothingIsStranded`, `OneBudget`, `EndTellsTheTruth` | `Inv`: the exception in flight is the last trouble of the clients closed so far; each recorded cancellation and failure is what came out of a closer that is through; `waited + left = Budget`. |
| `ModelCallsProofs` | `BoundIsHard`, `NoRecordIsLost`, `EveryCallCounts`, `ForcedIsLabelled`, `RoundsAreOwn`, `CallsTellOneStory` | `Inv`: slots are the running bodies plus the recorded ones, refusals the other records; no call is both running and recorded, or recorded twice; a forced response has a reason. `RoundsInv`: the calls of the transcript up to each message fill a block of the executions, and each execution has the round of its block. `CallInv`: the generators of the chain are live from the outside in, the span has the status of what the adapter saw last, what the audit wrapper remembers was told to the caller, and an event is written only at an end. |
| `ToolsProofs`, evaluation | `SearchesHold`, `CyclesAreFound`, `GateIsTruthful`, `JudgedByTheFacts`, `VerdictsHold`, `AnswersAreKept` | `Inv`: what is on the stack of a search is a chain of requirements in which no case repeats, so that meeting one again exhibits a cycle; a case that is done has only done requirements, and no set of done cases feeds on itself, so that a finished search excludes one; a case is placed after all it requires, so that one pass of the propagation is a fixed point on the part it is through with. `VerdictInv`, `FilesInv` and `JudgedInv` add the exit status, the artifacts and the judge. `PaidInv`: while a companion is asked for, the transcripts are the answers that were billed, in order and with their sources, each judged result is backed by one of them, and the repeats of the case at hand have its hashes; a temporary file has the content of this run, and so has a destination once it was renamed; one that was not is as it was found. |
| `ToolsProofs`, smoke test | `PollingBehaves`, `ListsAreWhole` | `PollInv`: the interval in force is the given one plus all that `slow_down` added since, and whoever sleeps wakes no earlier than the pace allows; in the gate, no sleep is asked for beyond the deadline, and who polls at the deadline or later does not sleep again. `ListInv`: at each point of a mode the list decides exactly the topics the mode is through with, each once. |
| `IngestionProofs`, chunking | `ChunkingKeeps` | No state: see below. |
| `IngestionProofs`, runs | `IndexFollows`, `ProseIsKeptThroughout` | `IndexInv`: before the loop the index is as found, or emptied; in the loop the entries under parents of documents not yet written are as found, and under each other parent there are exactly the chunks of the last document written that has it; the vectors so far are those of the first chunks, in order. It rests on the type of what chunking returns, for any body: a finite list, numbered from 0 under one parent (`ChunksNumbered`). `ProseInv` adds that a document whose chunks are at hand could be chunked, and that the seeding has no documents before its one step; its documents have different parents because their files have different paths and name them again. |

Not all of them state a property of a run: `CausalHistory`, `ScopeIsIdentity`, `AnswersAreCurrent`,
`OneBudget`, `RankingStays`, `BoundIsHard` and the type and invariant theorems are proved on
their own account. `GateTellsTheTruth` and `VerdictsAreEarned` are about verdicts and exit codes, that is
about what is reached; that the searches get there is liveness.

Some theorems assume something about the deployment, and say so: `SnapshotsStayCurrent`
assumes one replica (`SingleReplica`), those of `DocumentReplacementProofs` in the table one process
(`SingleProcess`), which is how the code is built (`main.create_app`) and what
`docs/rag-indexing.md` demands, and that no request lands after it was given up on (`~Late`);
`CompletedIsReplaced` also that queries show what the service holds (`~Lags`). They are false
without. `CommonChunkServes` assumes none of this, only a chunk that all versions of a document
have: it is what survives two writers and late requests. `OnlyHoldersEnter` and `EventsAreTrue` rest on
`CredentialsAssumption`, the trust the code places in its issuers: the gateway names the
holder in its headers, Entra in the claims of a token it signed, with all groups or a sign
that there are more. That a flawed credential is refused is proved, not assumed. The two refinement theorems cover the safety part:
`ImplementsKeyedMutex` and `ImplementsConversationLog` state no fairness.

`ChunkingKeeps` goes through the stages of `services/chunking.py` in their order, and each stage is
told by the set of characters it carries. A list of texts *covers* a set of ink (`Covers`) if its
texts carry that set and nothing else, none of them is blank or too long, each is as the author
wrote it, and only neighbours share anything, no more than the overlap. Cutting a prose into
paragraphs, these into sentences and these at the limit covers it with overlap 0; so does packing,
by a scan whose state after each unit divides the ink so far between the pieces and the one being
filled; the overlap then adds to each piece the end of the one before. The scan for sections is
related line by line to `FenceAt`, `Headings` and `Enclosing`, which say of a line alone what it is
and what it stands under: the stack of headings is, in order, what encloses the line, and each line
of prose is in exactly one section. What a section gets as its room is what its path leaves of the
limit, so the sum fits. `KeptAmongOthers` carries this over to a document whose chunks stand among those
of others: they are a row of the flattened list, and who is next in a row is next in the list.

Three things about the proofs are worth knowing. The recursive functions of `Chunking`, and the folds
and flattened sequences elsewhere, are reasoned about by least counterexamples: a non-empty set
of numbers has a least (`LeastNumber`), so what holds at first and is kept by each step holds
throughout (`Climbs`), and a function defined by a step exists (`RecursionExists`). Counting takes
the place of induction wherever positions are compared: the rank of a position among those
that are kept, the cardinality of a block. And what is said of a module that is checked together with others in
`MCTools` or `MCModelCalls` is said of its own specification (`Spec`, `SmokeSpec`, `IngestionSpec`,
`Call!Spec`), not only of runs in which the others are absent.

Only model-checked are the liveness properties: `EveryWaiterServed`, `EveryTurnEndsAudited`,
`EveryReplacementEnds`, `EveryRequestAnswered`, `UpstreamIsReleased`, `ShutdownEnds`,
`SearchesAndPollsEnd`. They are beyond the installed provers. Every safety property of the runs is
the statement of a theorem.

Two properties had to be corrected before they could be proved. `EventTellsTheEnd` of
`ProviderStream` chose between the two kinds of a terminal frame without excluding that there is none; and
`LeftWhole` of `Ingestion` compared the keys of a document that was stopped at with those of the index as found,
which is wrong when an earlier document of the same run had the same parent
(two tenants with one document id under `--tenant-id`): the keys to keep are then those of
that document. The corpora of `operator_tools` have this case.

## Findings

1. **A stream dropped before its first frame keeps its conversation locked**
   (`turns_abandoned`, code bug, `services/conversation.py:308`). `open_stream()` returns
   with the lock held and leaves its release to the finally clause of a generator. One
   that was never started runs no finally clause. `docs/audit-logging.md` concedes the
   missing audit event in this window; the lock is lost too, and every later turn of that
   conversation waits for ever. All other properties hold with this case in the model,
   and `EveryTurnEndsAudited` names it as its only exception.
2. **The shutdown budget caps the shutdown only if the second close of a closer does not
   hang** (`shutdown_hanging`, documentation and code disagree, `main.py:139`).
   `asyncio.timeout` cancels once. A composite closer catches that in a finally block that
   awaits the next client, without a timer.

Met while modelling, without a run of their own:

- `main.py:160`: an error a client raises while it is being cancelled replaces the
  cancellation, and the task ends failed, though `main.py:82` has cancellations never swallowed. `ResultIsTrue` is
  stated about what came out of the closers.
- Removing an invalid marker can build another: with one source, `[2[2]]` is answered as
  `[2]`, though `docs/rag-overview.md:75` has invalid markers removed.
  `CitationsHold` states exactly when; the counts are true of the text that is left.
- `services/azure_openai.py` wraps a stream so that "the span closes even if the stream is
  never iterated" and its upstream "is always closed". Nobody calls that `aclose()` in
  the application; a stream that is dropped before its first pull keeps span and
  connection. `UpstreamIsReleased` is about streams that were read.
- A query vector of the wrong width raises `ValueError` in the search client and becomes an
  unclassified 500 without an event.
- A stream whose reply is completed but empty is committed, while `/chat` rejects it.
- Closing the JWKS client between the two requests of a refresh ends that request in a
  `RuntimeError`. The server drains requests before it closes clients.
- `tools/eval_run.py` `parse_judge_response` promises "exactly the five expected keys" and
  accepts more. `_corpus_manifest` hashes what "the run actually read" at the end of the
  run, from disk. `main` guards the loading of the dataset and of the citation map, and not
  the seedings, nor anything against `ChunkingError`: a corpus that loads but cannot be
  chunked (no edit is needed), or a file that changes between two reads, ends the run with a
  traceback: status 1, which is also the status of a gate that failed. A `ValueError`
  within the judged layer is caught and ends it as a failure of the set-up, status 2
  (`JudgedLayerFails`). Either way, answers that were paid for and not yet written are lost.
  `GateTellsTheTruth` is about the exit codes the code chooses, and so says nothing of a
  traceback; `PaidAnswersAreKept` is about what the destinations hold.
- An artifact that cannot be written turns the exit of a failed gate into 2, though `ExitCode`
  has 2 before any verdict; `--calibrate` exits 0 whatever the gate says.
- `services/chunking.py` `_sentence_aligned_tail` cuts where its docstring says it does not if the
  window begins exactly at the start of a sentence or within a run of terminators.
  `_split_section`'s promise that no character is lost holds (`ChunksKeepTheProse`).
- `services/chunking.py:244` has a document fail "before anything is mutated"; with
  `--recreate-index` the tool has deleted the index before it chunks anything.
- With `--tenant-id` the documents of two tenants that share an id are indexed as one: the
  last wins and the count includes both. `IndexFollowsTheCorpus` says so.
- `tools/entra_smoke.py`: a transport error in `run_gate_checks` drops the checks that call
  had gathered, though `PhaseState` exists to keep them; the list then says where it stops. A negative
  `interval` from Entra reaches `time.sleep` as a `ValueError` that `main` does not catch.
  The docstring of `poll_chat_gate` has the deadline bound "total elapsed time": the last poll
  may begin late by what the sleep before it overslept, and outlive the deadline by its own
  timeout.
- A user token without `scp` but with an application role passes the role gate;
  `api/principal.py:368` documents it.

## What is assumed

- A request to the search index that failed in the eyes of its caller was carried out, was
  not, or (`replacement_processes`) will be later, key by key. In run `replacement`, and in
  the theorems that say `~Late`, the last is excluded: nothing in the code could tell.
- `asyncio`'s locks, timeouts, cancellation and finalizers, Starlette's streaming response,
  the agent framework's loop, and the search service's filters and per-key answers are
  external. They are modelled from how the code uses them and what its tests pin.
- Unwinding a chain of generators within one task is one step: nothing in it suspends, and
  `AsyncStream.close` does not raise.
- The framework counts dispatched calls, refused ones included, against its limit.
- `holder` and the variables marked *observer* in the modules exist only to state
  properties. No guard reads them.
- `time.sleep` does not return early, and may return late by any duration that is bounded.
- An artifact that is found at a destination has another `run_id` (`FoundAssumption`: they are
  drawn at random).
- The evaluation's corpus is edited by whole documents between two reads, and a question
  retrieves a fixed ranking of documents from it. A write of an artifact fails before or
  after the temporary file is complete; renaming is atomic.
- The index that ingestion writes to does per document what `DocumentReplacement` promises:
  it takes the replacement, keeps the old version beside parts of the new one, or is untouched.
- Data is abstracted to what the properties tell apart. A turn's text is its identity, a
  hit is the bytes it adds to the prompt, a reply is a sequence of marker pieces, a
  credential a record of shapes.

## What is not modelled

Names and the reasons are in `PROJECT.json`. In short: the field-by-field validation of audit
events, the validators of JWKS documents, error envelopes, span attributes and logs do
not steer what the models are about; the choice of an authentication mode and start-up
run once and sequentially; the tools an agent calls are stateless lookups; the remaining
command line tools (comparing retrieval, the demo, the generator of distractors) compute
and print, and keep nothing a later step depends on; infrastructure, site and tests are not the program. Of
the three tools that are modelled, the wording of reports, prompts, checks and their
redaction is left out.

## Plan

Order of work, the most important behaviour first. Done: keyed lock, turns, replacement,
JWKS cache, streams, shutdown, agent run, RAG with identity; chunking and ingestion,
evaluation, smoke test; the proofs above.

1. The chain of `ProviderStream` composed with the lock and the store of
   `ConversationTurns`: the two now meet only in the points named in their comments.
2. `JwksCache` with `initialize()` and the document validators; a request's header screens.
