------------------------------- MODULE Ingestion -------------------------------
(***************************************************************************)
(* One run of tools/index_corpus.py: the index is deleted and created as   *)
(* asked, the corpus is loaded (services/document_loader.py), and document *)
(* by document it is chunked (Chunking), embedded batch by batch           *)
(* (services/embeddings.py) and written by a replacement.  A replacement   *)
(* does here what DocumentReplacement promises of it.  A job may also be   *)
(* the seeding of the in-memory index of services/agent_tools.py, which    *)
(* takes the same pipeline without the network.                            *)
(*                                                                         *)
(* A vector is the text it was computed from: <<heading path, content>>.   *)
(* The order of the files is the sorted order of their paths.              *)
(***************************************************************************)
EXTENDS Chunking, Functions

CONSTANTS
    IngestionJobs,  \* what runs are given, see IngestionInit
    MaxBatchInputs, \* MAX_BATCH_INPUTS
    NoTenant        \* no --tenant-id

\* Files are lists of lines, lines are texts, widths and levels are counted,
\* and no two files of a corpus have the same path.
ASSUME IngestionAssumption ==
    /\ MaxBatchInputs \in Nat
    /\ \A j \in IngestionJobs :
        /\ j.kind \in {"tool", "seed"} /\ j.limits \in [max : Int, overlap : Int]
        /\ j.files \in Seq(ToSet(j.files))
        /\ \A m, n \in DOMAIN j.files :
               j.files[m].dir = j.files[n].dir /\ j.files[m].stem = j.files[n].stem => m = n
        /\ \A file \in ToSet(j.files) :
            /\ file.titleWidth \in Nat /\ file.body \in Seq(ToSet(file.body))
            /\ \A line \in ToSet(file.body) :
                /\ line.text \in Seq(ToSet(line.text))
                /\ line.kind = "heading" => line.level \in Nat /\ line.width \in Nat

VARIABLES
    stage,    \* the part of the run at hand
    ending,   \* "running", "indexed", "refused" or "aborted"
    job,      \* flags, settings and files: fixed
    sources,  \* documents_to_index
    position, \* of the loop over them
    chunks,   \* of the document at hand
    vectors,  \* of its first chunks
    exists,   \* whether the service has the index
    index     \* its entries, by <<parent, ordinal>>

ingestionVars == <<stage, ending, job, sources, position, chunks, vectors, exists, index>>

Empty == <<>>
Parent(document) == [tenant |-> document.tenant, doc |-> document.doc_id]
EmbeddingInput(chunk) == <<chunk.path, chunk.content>>

IngestionInit ==
    /\ job \in IngestionJobs
    /\ stage = IF job.kind = "seed" THEN "seed" ELSE "guard"
    /\ ending = "running" /\ sources = <<>> /\ position = 1 /\ chunks = <<>> /\ vectors = <<>>
    /\ exists = job.exists /\ index = job.index

Enter(next) == stage' = next /\ UNCHANGED ending
Leave(how) == stage' = "over" /\ ending' = how
Locals == <<sources, position, chunks, vectors>>

-----------------------------------------------------------------------------
(* The schema.                                                             *)

\* Fake embeddings are refused first; then SearchDataPlane wants its settings.
Guard ==
    /\ stage = "guard"
    /\ IF job.fake_embeddings THEN Leave("refused")
       ELSE IF ~job.search_configured THEN Leave("aborted")
       ELSE Enter(IF job.schema = "recreate" THEN "delete" ELSE IF job.schema = "create" THEN "create" ELSE "load")
    /\ UNCHANGED <<job, Locals, exists, index>>

\* A request that fails may have been carried out.
DeleteIndex ==
    /\ stage = "delete"
    /\ \E landed \in BOOLEAN, failed \in BOOLEAN :
        /\ landed \/ failed
        /\ IF failed THEN Leave("aborted") ELSE Enter("create")
        /\ exists' = (exists /\ ~landed) /\ index' = IF landed THEN Empty ELSE index
    /\ UNCHANGED <<job, Locals>>

CreateIndex ==
    /\ stage = "create"
    /\ \E landed \in BOOLEAN, failed \in BOOLEAN :
        /\ landed \/ failed
        /\ IF failed THEN Leave("aborted") ELSE Enter("load")
        /\ exists' = (exists \/ landed)
    /\ UNCHANGED <<job, Locals, index>>

-----------------------------------------------------------------------------
(* Loading.  A file's front matter names its document and tenant again.    *)

FileIsWellFormed(file) ==
    /\ file.front = "complete"
    /\ IsInjective(file.groups)
    /\ file.tenant_id = file.dir /\ file.doc_id = file.stem /\ file.keys_fit
    /\ \E l \in DOMAIN file.body : \E c \in DOMAIN file.body[l].text : file.body[l].text[c] \notin Blanks

SourceDocument(file, tenant) ==
    [doc_id |-> file.doc_id, tenant |-> IF tenant = NoTenant THEN file.tenant_id ELSE tenant,
     groups |-> ToSet(file.groups), titleWidth |-> file.titleWidth, body |-> file.body]

LoadFails == job.files = <<>> \/ \E n \in DOMAIN job.files : ~FileIsWellFormed(job.files[n])
LoadDocuments(tenant) == [n \in DOMAIN job.files |-> SourceDocument(job.files[n], tenant)]

\* The embedding client is built before the corpus is read.
Load ==
    /\ stage = "load"
    /\ IF ~job.embedding_configured \/ LoadFails
       THEN Leave("aborted") /\ UNCHANGED sources
       ELSE Enter("chunk") /\ sources' = LoadDocuments(job.tenant)
    /\ UNCHANGED <<job, position, chunks, vectors, exists, index>>

-----------------------------------------------------------------------------
(* Chunking and embedding.                                                 *)

Chunk ==
    /\ stage = "chunk" /\ position <= Len(sources)
    /\ vectors' = <<>>
    /\ IF ChunkingFails(sources[position], job.limits)
       THEN Leave("aborted") /\ UNCHANGED chunks
       ELSE Enter("embed") /\ chunks' = ChunkMarkdown(sources[position], job.limits)
    /\ UNCHANGED <<job, sources, position, exists, index>>

BatchSize == Min({MaxBatchInputs, Len(chunks) - Len(vectors)})
BatchInput(i) == EmbeddingInput(chunks[Len(vectors) + i])

\* What the provider may send for n inputs: vectors of the width the index
\* has or another, each with the index of the input it belongs to.
Responses(n) == UNION {[1 .. m -> [index : 0 .. n, fits : BOOLEAN]] : m \in 0 .. n + 1}

Acceptable(response, n) ==
    /\ Len(response) = n
    /\ {response[i].index : i \in DOMAIN response} = 0 .. n - 1
    /\ \A i \in DOMAIN response : response[i].fits

\* embed(): the vector bound to the i-th input.  The provider computed it from
\* the input that its index names.
BoundByPosition(response, i) == BatchInput(response[i].index + 1)
Bound(response, i) ==
    BatchInput(response[CHOOSE k \in DOMAIN response : response[k].index = i - 1].index + 1)

Embed ==
    /\ stage = "embed" /\ Len(vectors) < Len(chunks)
    /\ \E response \in Responses(BatchSize) :
        IF Acceptable(response, BatchSize)
        THEN vectors' = vectors \o [i \in 1 .. BatchSize |-> Bound(response, i)] /\ UNCHANGED <<stage, ending>>
        ELSE Leave("aborted") /\ UNCHANGED vectors
    /\ UNCHANGED <<job, sources, position, chunks, exists, index>>

EmbedRaises ==
    /\ stage = "embed" /\ Len(vectors) < Len(chunks)
    /\ Leave("aborted")
    /\ UNCHANGED <<job, Locals, exists, index>>

Embedded ==
    /\ stage = "embed" /\ Len(vectors) = Len(chunks)
    /\ Enter("replace")
    /\ UNCHANGED <<job, Locals, exists, index>>

-----------------------------------------------------------------------------
(* Writing.                                                                *)

\* make_chunk_id, to_index_document and zip over chunks and vectors.
IndexDocuments(cs, vs) ==
    [key \in {<<cs[n].parent, cs[n].ordinal>> : n \in DOMAIN cs} |->
        [chunk |-> cs[key[2] + 1], vector |-> vs[key[2] + 1]]]

Under(parent) == {key \in DOMAIN index : key[1] = parent}
New == IndexDocuments(chunks, vectors)
Stale == Under(Parent(sources[position])) \ DOMAIN New

\* The index once these keys are uploaded and those removed.
Written(uploaded, removed) ==
    [key \in (DOMAIN index \cup uploaded) \ removed |-> IF key \in uploaded THEN New[key] ELSE index[key]]

NextDocument == Enter("chunk") /\ position' = position + 1

Complete ==
    /\ stage = "replace" /\ exists
    /\ index' = Written(DOMAIN New, Stale)
    /\ NextDocument
    /\ UNCHANGED <<job, sources, chunks, vectors, exists>>

\* An upload that failed in part, a clean-up that did, or either of them raised:
\* nothing stale is removed before everything new is in the index.
Stop(uploaded, removed) == index' = Written(uploaded, removed) /\ Leave("aborted") /\ UNCHANGED position

Incomplete ==
    /\ stage = "replace" /\ exists
    /\ \E uploaded \in SUBSET DOMAIN New, removed \in SUBSET Stale :
        (removed # {} => uploaded = DOMAIN New) /\ Stop(uploaded, removed)
    /\ UNCHANGED <<job, sources, chunks, vectors, exists>>

\* The service answers 404.
NoIndex ==
    /\ stage = "replace" /\ ~exists
    /\ Leave("aborted")
    /\ UNCHANGED <<job, Locals, exists, index>>

Finish ==
    /\ stage = "chunk" /\ position > Len(sources)
    /\ Leave("indexed")
    /\ UNCHANGED <<job, Locals, exists, index>>

-----------------------------------------------------------------------------
(* _seed_index_documents: every document at once, and an index that takes  *)
(* no replacement, being new.                                              *)

SeedIndex ==
    /\ stage = "seed"
    /\ LET documents == LoadDocuments(NoTenant)
           failed == LoadFails \/ \E n \in DOMAIN documents : ChunkingFails(documents[n], job.limits)
           all == FlattenSeq([n \in DOMAIN documents |-> ChunkMarkdown(documents[n], job.limits)])
       IN IF failed
          THEN Leave("aborted") /\ UNCHANGED <<sources, chunks, vectors>>
          ELSE /\ Leave("indexed") /\ sources' = documents
               /\ chunks' = all /\ vectors' = [n \in DOMAIN all |-> EmbeddingInput(all[n])]
    /\ UNCHANGED <<job, position, exists, index>>

IngestionNext ==
    \/ Guard \/ DeleteIndex \/ CreateIndex \/ Load \/ Chunk \/ Embed \/ EmbedRaises \/ Embedded
    \/ Complete \/ Incomplete \/ NoIndex \/ Finish \/ SeedIndex

IngestionSpec == IngestionInit /\ [][IngestionNext]_ingestionVars

-----------------------------------------------------------------------------
(* Properties.                                                             *)

\* Every chunk of the document is in the index.
Whole(document) ==
    \A chunk \in ToSet(ChunkMarkdown(document, job.limits)) :
        \E key \in Under(Parent(document)) : index[key].chunk = chunk
Reached(first) == {Parent(sources[n]) : n \in (first .. position) \cap DOMAIN sources}

\* The keys under the parent of the document at hand before it is written: those
\* of the last document before it that has the same, else those of the old index.
Earlier == {n \in 1 .. position - 1 : Parent(sources[n]) = Parent(sources[position])}
KeysBefore ==
    IF Earlier = {} THEN {key \in DOMAIN job.index : key[1] = Parent(sources[position])}
    ELSE {<<chunk.parent, chunk.ordinal>> : chunk \in ToSet(ChunkMarkdown(sources[Max(Earlier)], job.limits))}

\* Under the parent of each document there are exactly the chunks of the last
\* document of that parent, and after --recreate-index nothing else.
HoldsTheCorpus ==
    /\ \A n \in DOMAIN sources :
        (\A later \in n + 1 .. Len(sources) : Parent(sources[later]) # Parent(sources[n])) =>
            {index[key].chunk : key \in Under(Parent(sources[n]))}
                = ToSet(ChunkMarkdown(sources[n], job.limits))
    /\ job.schema = "recreate" => \A key \in DOMAIN index : \E n \in DOMAIN sources : key[1] = Parent(sources[n])

\* The documents before the one at hand are replaced, those after it are as they
\* were, and of the one at hand no key is gone unless every new chunk is there.
LeftWhole ==
    /\ \A n \in 1 .. position - 1 : Parent(sources[n]) \notin Reached(n + 1) => Whole(sources[n])
    /\ \A key \in DOMAIN job.index : key[1] \notin Reached(1) =>
           key \in DOMAIN index /\ index[key] = job.index[key]
    /\ position \in DOMAIN sources => KeysBefore \subseteq DOMAIN index \/ Whole(sources[position])

(* A run that says it indexed the corpus did; one that stops without       *)
(* --recreate-index, wherever it does, leaves whole documents; and no run  *)
(* leaves an entry of its own with the vector of another text              *)
(* (tools/index_corpus.py _index; services/embeddings.py: "binding by      *)
(* position is a silent-corruption path").                                 *)
IndexFollowsTheCorpus ==
    /\ \A key \in {k \in DOMAIN index : k \notin DOMAIN job.index \/ index[k] # job.index[k]} :
           index[key].vector = EmbeddingInput(index[key].chunk)
    /\ job.kind = "tool" /\ ending = "indexed" => HoldsTheCorpus
    /\ job.kind = "tool" /\ job.schema # "recreate" => LeftWhole

(* What Chunking!ProseIsKept says holds of every document that is chunked, *)
(* by the tool or for the seeding (services/chunking.py chunk_markdown).   *)
ChunksKeepTheProse ==
    /\ stage = "embed" /\ vectors = <<>> => ProseIsKept(sources[position], job.limits, chunks)
    /\ job.kind = "seed" =>
        \A n \in DOMAIN sources :
            ProseIsKept(sources[n], job.limits,
                        Restrict(chunks, {k \in DOMAIN chunks : chunks[k].parent = Parent(sources[n])}))
=============================================================================
