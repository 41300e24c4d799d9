------------------------------- MODULE MCTools -------------------------------
(* The three tools for TLC, in one model: a behaviour is a run of one of     *)
(* them, chosen at the start, and the state of the other two stays put.  The *)
(* scenarios of the evaluation are MCEvaluation's; ingestion is given every  *)
(* short text, every short list of lines, and corpora with the flags that    *)
(* matter; the smoke test is given each mode with each combination of flags. *)
EXTENDS MCEvaluation, Ingestion, EntraSmoke

-----------------------------------------------------------------------------
(* What ingestion is given.                                                  *)

Line(text) == [kind |-> "prose", text |-> text]
Heading(level, title) == [kind |-> "heading", level |-> level, isTitle |-> title, width |-> 1,
                          text |-> <<"word", "space", "word">>]
Fence(mark, run, info) == [kind |-> "fence", mark |-> mark, run |-> run, info |-> info,
                           text |-> <<"word", "word", "word">>]
Words(n) == [i \in 1 .. n |-> IF i = n THEN "stop" ELSE "word"]

FileOf(dir, stem, body) ==
    [dir |-> dir, stem |-> stem, front |-> "complete", tenant_id |-> dir, doc_id |-> stem,
     groups |-> <<"g">>, keys_fit |-> TRUE, titleWidth |-> 1, body |-> body]
LongOf(dir, stem) == FileOf(dir, stem, <<Line(Words(4) \o Words(4) \o Words(4))>>)
Long == LongOf("acme", "a")
Short(dir, stem) == FileOf(dir, stem, <<Line(Words(3))>>)

OldEntry(parent, n) ==
    [chunk |-> [parent |-> parent, ordinal |-> n, path |-> <<>>, content |-> << <<9, n>> >>, groups |-> {}],
     vector |-> <<"old">>]

OldParents ==
    {[tenant |-> "acme", doc |-> "a"], [tenant |-> "globex", doc |-> "a"], [tenant |-> "globex", doc |-> "z"]}
OldIndex == [key \in OldParents \X (0 .. 1) |-> OldEntry(key[1], key[2])]

Job(corpus) ==
    [kind |-> "tool", fake_embeddings |-> FALSE, search_configured |-> TRUE, embedding_configured |-> TRUE,
     schema |-> "none", tenant |-> NoTenant, limits |-> [max |-> 9, overlap |-> 0], files |-> corpus,
     exists |-> TRUE, index |-> OldIndex]
SeedJob(body, max, overlap) ==
    [Job(<<FileOf("acme", "a", body)>>) EXCEPT
        !.kind = "seed", !.limits = [max |-> max, overlap |-> overlap], !.index = Nothing]

Directories ==
    {<<>>, <<Long>>, <<Long, Short("acme", "b")>>, <<Short("acme", "a"), LongOf("globex", "a")>>,
     <<Short("acme", "a"), [LongOf("acme", "b") EXCEPT !.doc_id = "c"]>>,
     <<Long, FileOf("acme", "b", <<Heading(1, FALSE)>>)>>}
ToolJobs ==
    {[Job(directory) EXCEPT !.schema = s, !.tenant = t, !.exists = e, !.index = IF e THEN OldIndex ELSE Nothing] :
        directory \in Directories, s \in {"none", "create", "recreate"}, t \in {NoTenant, "globex"}, e \in BOOLEAN}
    \cup {[Job(<<Long>>) EXCEPT !.fake_embeddings = TRUE], [Job(<<Long>>) EXCEPT !.search_configured = FALSE],
          [Job(<<Long>>) EXCEPT !.embedding_configured = FALSE]}

Lines == {Line(<<"word", "stop">>), Heading(1, TRUE), Heading(1, FALSE), Heading(2, FALSE), Fence("tilde", 3, "none")}
Others == {Line(<<>>), Line(<<"space", "word", "stop">>), Fence("backtick", 3, "none"), Fence("backtick", 3, "backtick"),
           Fence("tilde", 4, "none"), Fence("tilde", 3, "text"), Heading(2, FALSE)}
SeedJobs ==
    {[Job(directory) EXCEPT !.kind = "seed", !.index = Nothing] : directory \in Directories}
    \cup {SeedJob(<<Line(text)>>, 6, 0) : text \in UNION {[1 .. n -> {"word", "stop", "close"}] : n \in 1 .. 5}}
    \cup {SeedJob(<<Line(text)>>, 8, 1) : text \in UNION {[1 .. n -> {"word", "stop", "space"}] : n \in 5 .. 6}}
    \cup {SeedJob(<<Line(text)>>, 9, 2) : text \in [1 .. 7 -> {"word", "stop"}]}
    \cup {SeedJob(<<a, b, c, d>>, 30, 0) : a \in Lines, b \in Lines, c \in Lines, d \in Lines}
    \cup {SeedJob(<<a, Line(<<"word", "stop">>), b, c>>, 13, 2) : a \in Lines \cup Others, b \in Others, c \in Lines}

AllJobs == ToolJobs \cup SeedJobs

-----------------------------------------------------------------------------
(* What the smoke test is given.                                             *)

SmokeRun(gate, phase) ==
    [gate |-> gate, phase |-> phase, rag |-> FALSE, agent |-> FALSE, log |-> "file",
     secret |-> TRUE, evidence_out |-> TRUE, deadline |-> 6]
AllRuns ==
    {[SmokeRun(TRUE, "none") EXCEPT !.rag = r, !.agent = a, !.evidence_out = e] :
        r \in BOOLEAN, a \in BOOLEAN, e \in BOOLEAN}
    \cup {SmokeRun(FALSE, phase) : phase \in {"no-role", "full", "none"}}
    \cup {SmokeRun(TRUE, "full"), [SmokeRun(FALSE, "no-role") EXCEPT !.rag = TRUE],
          [SmokeRun(FALSE, "full") EXCEPT !.log = "none"], [SmokeRun(FALSE, "full") EXCEPT !.log = "missing"],
          [SmokeRun(TRUE, "none") EXCEPT !.secret = FALSE]}

Token(readable, ids, roles) == [readable |-> readable, ids |-> ids, roles |-> roles]
AllTokens == {Token(TRUE, TRUE, "configured"), Token(TRUE, FALSE, "absent"), Token(FALSE, FALSE, "absent")}
AnswerOf(status, content, challenge) == [status |-> status, content |-> content, challenge |-> challenge]
AllAnswers ==
    {AnswerOf(200, "message", "none"), AnswerOf(200, "sources", "none"), AnswerOf(200, "error", "none"),
     AnswerOf(401, "unauthorized", "bearer"), AnswerOf(403, "insufficient_scope", "scope")}

-----------------------------------------------------------------------------
(* One of them runs.                                                         *)

NoEvaluation ==
    /\ pc = "over" /\ exit = "idle" /\ given = Null /\ disk = Null /\ edits = 0
    /\ cases = <<>> /\ byId = <<>> /\ next = 1 /\ path = <<>> /\ cursor = <<>> /\ colour = <<>> /\ order = <<>>
    /\ own = <<>> /\ results = <<>> /\ seeded = <<>> /\ reseeded = <<>>
    /\ judged = <<>> /\ repeats = <<>> /\ billed = <<>> /\ transcripts = <<>>
    /\ files = <<>> /\ temp = Null /\ writeFailed = FALSE
NoIngestion ==
    /\ stage = "over" /\ ending = "idle" /\ job = Job(<<>>) /\ exists = FALSE /\ index = job.index
    /\ sources = <<>> /\ position = 1 /\ chunks = <<>> /\ vectors = <<>>
NoSmoke ==
    /\ at = "over" /\ verdict = "idle" /\ flags = SmokeRun(TRUE, "none")
    /\ clock = 0 /\ limit = 0 /\ interval = NoInterval /\ waiting = 0 /\ polls = <<>> /\ waits = <<>>
    /\ tokens = <<>> /\ answers = <<>> /\ reads = 0 /\ checks = <<>> /\ evidence = NoEvidence

ToolsInit ==
    \/ Init /\ NoIngestion /\ NoSmoke
    \/ NoEvaluation /\ IngestionInit /\ NoSmoke
    \/ NoEvaluation /\ NoIngestion /\ SmokeInit

EvaluationStep(step) == step /\ UNCHANGED <<ingestionVars, smokeVars>>
SmokeStep == SmokeNext /\ UNCHANGED <<vars, ingestionVars>>
ToolsNext ==
    \/ EvaluationStep(Next)
    \/ IngestionNext /\ UNCHANGED <<vars, smokeVars>>
    \/ SmokeStep

toolVars == <<vars, ingestionVars, smokeVars>>
ToolsSpec == ToolsInit /\ [][ToolsNext]_toolVars

\* Each tool is a single process that goes on while it can: requests have
\* timeouts, and sleeps end.  Nobody has to interrupt it or edit the corpus.
FairTools == ToolsSpec /\ WF_toolVars(EvaluationStep(Work)) /\ WF_toolVars(SmokeStep)

-----------------------------------------------------------------------------
(* The evaluation and the smoke test come to an end, whatever they are     *)
(* given: neither depth-first search of tools/eval_run.py walks in circles, *)
(* and both polls of tools/entra_smoke.py give up.  (The loops of ingestion *)
(* go through lists.)                                                       *)
SearchesAndPollsEnd == <>(exit # "running" /\ verdict # "running")
=============================================================================
