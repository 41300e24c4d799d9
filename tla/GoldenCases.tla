----------------------------- MODULE GoldenCases -----------------------------
(***************************************************************************)
(* The pure part of tools/eval_run.py: which dataset of golden questions   *)
(* is accepted, how an answer is scored against its case, and what a       *)
(* judge's response is worth.                                              *)
(*                                                                         *)
(* An entry of the dataset is a record.  Wrong stands in a field for all   *)
(* that the loader rejects there on sight: no value, one of another type,  *)
(* a blank text, an identifier that services/acl.py refuses.  Null is the  *)
(* JSON null.  A document is <<tenant, doc_id>>; a hit is a chunk of one,  *)
(* with the version that was indexed.  A hash stands for what is hashed.   *)
(***************************************************************************)
EXTENDS Naturals, Sequences, SequencesExt, Functions

CONSTANTS Wrong, Null

-----------------------------------------------------------------------------
(* The dataset.                                                            *)

WellFormedPrincipal(principal) ==
    /\ principal # Wrong /\ principal.groups # Wrong
    /\ Wrong \notin {principal.tenant, principal.user} \cup principal.groups

\* Every document that a field names exists, in the case's own tenant.
AllKnown(docs, tenant, keys) == \A doc \in docs : <<tenant, doc>> \in keys

WellFormedDeterministic(spec, tenant, keys) ==
    /\ spec # Wrong /\ spec.must_cite # Wrong /\ spec.must_not_cite # Wrong
    /\ spec.citations_subset_of # Wrong
    /\ spec.status \in {"answered", "no_answer", Null}
    /\ spec.status = Null => spec.status_note # Wrong
    /\ spec.citations_subset_of = Null => spec.subset_note # Wrong
    /\ AllKnown(spec.must_cite \cup spec.must_not_cite, tenant, keys)
    /\ spec.must_cite \cap spec.must_not_cite = {}
    /\ spec.citations_subset_of # Null =>
           /\ AllKnown(spec.citations_subset_of, tenant, keys)
           /\ spec.must_cite \subseteq spec.citations_subset_of
           /\ spec.must_not_cite \cap spec.citations_subset_of = {}

WellFormedFacts(facts) == facts # Wrong /\ Wrong \notin ToSet(facts)

WellFormedJudged(judged) ==
    judged # Null =>
        /\ judged # Wrong /\ judged.rubric # Wrong
        /\ WellFormedFacts(judged.expected_facts) /\ WellFormedFacts(judged.forbidden_facts)
        /\ IsInjective(judged.expected_facts \o judged.forbidden_facts)

WellFormed(entry, keys) ==
    /\ entry # Wrong
    /\ Wrong \notin {entry.id, entry.question, entry.protects}
    /\ WellFormedPrincipal(entry.principal)
    /\ entry.requires # Wrong
    /\ WellFormedDeterministic(entry.deterministic, entry.principal.tenant, keys)
    /\ WellFormedJudged(entry.judged)
    /\ entry.judged = Null => entry.judged_skip_reason # Wrong

\* Each entry is well formed and no two share an id.
Loads(entries, keys) ==
    /\ \A i \in DOMAIN entries : WellFormed(entries[i], keys)
    /\ IsInjective([i \in DOMAIN entries |-> entries[i].id])

-----------------------------------------------------------------------------
(* The deterministic verdict.                                              *)

\* The document of a chunk, if the corpus has it.
AttributeSource(hit, corpus) == IF hit.doc \in corpus THEN hit.doc ELSE Null

\* A foreign source fails its case whether or not must_not_cite names it.
EvaluateDeterministic(entry, status, hits, corpus) ==
    LET spec == entry.deterministic
        sources == {AttributeSource(hit, corpus) : hit \in ToSet(hits)}
        cited == {doc[2] : doc \in {s \in sources \ {Null} : s[1] = entry.principal.tenant}}
        passes ==
            /\ spec.status \in {Null, status}
            /\ Null \notin sources
            /\ \A s \in sources : s[1] = entry.principal.tenant
            /\ spec.must_cite \subseteq cited
            /\ spec.citations_subset_of # Null => cited \subseteq spec.citations_subset_of
            /\ cited \cap spec.must_not_cite = {}
    IN IF passes THEN "PASS" ELSE "FAIL"

-----------------------------------------------------------------------------
(* The judge.  Its response is a record of sets of fact ids, of claims and *)
(* a rationale; Wrong where a key is missing or of another type, and Wrong *)
(* as a whole if it is not one JSON object.                                *)

\* Fenced texts carry the nonce; a rubric is sent only if there is one.
BuildJudgeInput(entry, answer, hits, nonce) ==
    [question |-> entry.question, nonce |-> nonce, answer |-> answer, sources |-> hits,
     expected |-> entry.judged.expected_facts, forbidden |-> entry.judged.forbidden_facts,
     rubric |-> entry.judged.rubric]

ReadableResponse(raw) ==
    /\ raw # Wrong
    /\ Wrong \notin {raw.covered, raw.missing, raw.violated, raw.unsupported, raw.rationale}

\* parse_judge_response: the keys, then the four invariants of the id sets.
Parses(raw, judged) ==
    /\ ReadableResponse(raw)
    /\ ToSet(judged.expected_facts) \subseteq raw.covered \cup raw.missing
    /\ raw.covered \cup raw.missing \subseteq ToSet(judged.expected_facts)
    /\ raw.covered \cap raw.missing = {}
    /\ raw.violated \subseteq ToSet(judged.forbidden_facts)

JudgeVerdict(raw) ==
    IF raw.missing = {} /\ raw.violated = {} /\ raw.unsupported = {} THEN "pass" ELSE "fail"

\* One repeat: what was sent is recorded whatever came of it, and what the
\* provider says of itself only if it answered.
JudgeOnce(entry, answer, hits, attempt, reply) ==
    [attempt |-> attempt, nonce |-> <<entry.id, attempt>>,
     answer_sha256 |-> answer, sources_sha256 |-> hits,
     judge_input_sha256 |-> BuildJudgeInput(entry, answer, hits, <<entry.id, attempt>>),
     raw_response |-> reply.raw,
     usage |-> IF reply.kind = "message" THEN "reported" ELSE Null,
     outcome |-> CASE reply.kind = "filtered" -> "ERROR(filtered)"
                   [] reply.kind = "upstream" -> "ERROR(upstream)"
                   [] reply.kind = "message" -> IF Parses(reply.raw, entry.judged)
                                                THEN JudgeVerdict(reply.raw) ELSE "ERROR(parse)"]

JudgedResult(id, state, verdict, reason) ==
    [case_id |-> id, state |-> state, verdict |-> verdict, reason |-> reason,
     repeats |-> <<>>, generation_usage |-> Null, sources |-> <<>>]

\* The first repeat's verdict, if all of them reached one about the same answer.
DeriveJudgedResult(id, repeats) ==
    LET same == \A i \in DOMAIN repeats :
                    /\ repeats[i].answer_sha256 = repeats[1].answer_sha256
                    /\ repeats[i].sources_sha256 = repeats[1].sources_sha256
        reached == \A i \in DOMAIN repeats : repeats[i].outcome \in {"pass", "fail"}
        result == IF ~same THEN JudgedResult(id, "INCONCLUSIVE", Null, "mismatch across repeats")
                  ELSE IF ~reached THEN JudgedResult(id, "INCONCLUSIVE", Null, "repeat errors")
                  ELSE JudgedResult(id, "JUDGED", repeats[1].outcome, Null)
    IN [result EXCEPT !.repeats = repeats]

\* One billed answer in full, with the hashes the sidecar has of it.
JudgedTranscript(entry, answer, hits) ==
    [case_id |-> entry.id, question |-> entry.question, answer |-> answer,
     answer_sha256 |-> answer, sources |-> hits, sources_sha256 |-> hits]
=============================================================================
