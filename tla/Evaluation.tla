------------------------------ MODULE Evaluation ------------------------------
(***************************************************************************)
(* One run of tools/eval_run.py: its flags are screened, the dataset is    *)
(* loaded and the requirements between its cases are searched for a cycle, *)
(* a service is seeded from the corpus, every case is scored, a failure is *)
(* propagated to the cases that require its case, real answers are judged  *)
(* if that was asked for, two artifacts are written, and the exit code     *)
(* says what came of it.                                                   *)
(*                                                                         *)
(* Around the run, somebody may edit the corpus, which is read from disk   *)
(* five times; calls and writes may fail; and the process may end at any   *)
(* point with a traceback (Interrupt), also where the code lets an         *)
(* exception pass.  The destinations may hold what an earlier run left.    *)
(* What a question retrieves from a corpus is a fixed ranking of documents.*)
(***************************************************************************)
EXTENDS GoldenCases

CONSTANTS
    CaseNames,      \* the strings that may be the id of a case
    DefaultRepeats, \* of the flag --repeats
    Scenarios,      \* what runs are given, see Init
    Corpora,        \* what an edit may leave on disk
    Replies         \* what the judge's provider may do with one request

\* Lists of requirements, where they are any, are lists of names.
ASSUME ScenariosAssumption ==
    \A s \in Scenarios :
        /\ s.entries \in Seq({s.entries[i] : i \in DOMAIN s.entries})
        /\ \A i \in DOMAIN s.entries : s.entries[i] # Wrong =>
               /\ s.entries[i].id # Wrong => s.entries[i].id \in CaseNames
               /\ s.entries[i].requires # Wrong => s.entries[i].requires \in Seq(CaseNames)

\* What is found at a destination is of another run: ids of runs are random.
ASSUME FoundAssumption ==
    \A s \in Scenarios : \A artifact \in DOMAIN s.found : s.found[artifact].run # "this"

ASSUME RepliesAssumption ==
    \A reply \in Replies : reply.kind \in {"message", "filtered", "upstream"}

VARIABLES
    pc,          \* the part of main() at hand
    exit,        \* "running", an ExitCode, or "traceback", whose status is 1 too
    given,       \* flags, settings, dataset, ranking, artifacts found: fixed
    disk,        \* the corpus: its documents, and whether it loads and chunks
    edits,       \* bound: edits to come
    cases, byId, \* the dataset in order, by id
    next,        \* the loop's position, in every loop over cases
    path, cursor,\* the stack of a depth-first search, and each id's iterator
    colour,      \* of _validate_requires
    order,       \* of evaluation_order
    own,         \* the verdicts of pass A
    results,     \* the same after propagate_requires
    seeded,      \* the documents the service was seeded with,
    reseeded,    \* and those of pass B's
    judged,      \* judged results, in dataset order
    repeats,     \* of the case at hand
    billed,      \* observer: the answers pass B was given, in order
    transcripts, \* what the sink has collected
    files, temp, \* the artifacts at their destinations, and the temporary file
    writeFailed

caseVars == <<cases, byId>>
searchVars == <<next, path, cursor, colour, order>>
verdictVars == <<own, results>>
judgeVars == <<judged, repeats, billed, transcripts>>
fileVars == <<files, temp, writeFailed>>
world == <<given, disk, edits>>
vars == <<pc, exit, world, caseVars, searchVars, verdictVars, seeded, reseeded, judgeVars, fileVars>>

args == given.args
settings == given.settings
Ids == ToSet(cases)
Requires(id) == byId[id].requires
Nothing == <<>>

Init ==
    /\ pc = "screen" /\ exit = "running"
    /\ \E s \in Scenarios :
        /\ given = [args |-> s.args, settings |-> s.settings, entries |-> s.entries,
                    ranking |-> s.ranking, found |-> s.found]
        /\ disk = s.disk /\ edits = s.edits /\ files = s.found
    /\ cases = <<>> /\ byId = Nothing
    /\ next = 1 /\ path = <<>> /\ cursor = Nothing /\ colour = Nothing /\ order = <<>>
    /\ own = Nothing /\ results = Nothing
    /\ seeded = Nothing /\ reseeded = Nothing
    /\ judged = <<>> /\ repeats = <<>> /\ billed = <<>> /\ transcripts = <<>>
    /\ temp = Null /\ writeFailed = FALSE

Exit(code) == pc' = "over" /\ exit' = code
GoTo(phase) == pc' = phase /\ UNCHANGED exit

-----------------------------------------------------------------------------
(* Flags and dataset.                                                      *)

\* Every combination main() refuses before it does anything.
Refused ==
    LET outs == {args.evidence_out, args.answers_out} \ {Null}
    IN \/ ~settings.valid
       \/ args.judge /\ (settings.use_fake_llm \/ args.calibrate)
       \/ ~args.judge /\ (outs # {} \/ args.repeats # DefaultRepeats)
       \/ args.answers_out # Null /\ args.evidence_out = Null
       \/ args.repeats < 1
       \/ \E out \in outs : ~out.parent_is_dir
       \/ args.answers_out # Null /\ args.evidence_out # Null /\ args.answers_out.file = args.evidence_out.file

Screen ==
    /\ pc = "screen"
    /\ IF Refused THEN Exit("setup_failed") ELSE GoTo("load")
    /\ UNCHANGED <<world, caseVars, searchVars, verdictVars, seeded, reseeded, judgeVars, fileVars>>

LoadCases ==
    /\ pc = "load"
    /\ LET ids == [i \in DOMAIN given.entries |-> given.entries[i].id]
           entryOf == [id \in ToSet(ids) |-> given.entries[CHOOSE i \in DOMAIN ids : ids[i] = id]]
           requirable == \A id \in ToSet(ids) : \A r \in ToSet(entryOf[id].requires) :
                             r # id /\ r \in ToSet(ids)
       IN IF disk.loads /\ Loads(given.entries, DOMAIN disk.docs) /\ requirable
          THEN /\ GoTo("search")
               /\ cases' = ids /\ byId' = entryOf
               /\ colour' = [id \in ToSet(ids) |-> "white"] /\ cursor' = [id \in ToSet(ids) |-> 1]
          ELSE Exit("setup_failed") /\ UNCHANGED <<caseVars, colour, cursor>>
    /\ UNCHANGED <<world, next, path, order, verdictVars, seeded, reseeded, judgeVars, fileVars>>

\* _validate_requires: a case of the outer loop.
StartSearch ==
    /\ pc = "search" /\ path = <<>> /\ next <= Len(cases)
    /\ next' = next + 1
    /\ IF colour[cases[next]] = "white"
       THEN path' = <<cases[next]>> /\ colour' = [colour EXCEPT ![cases[next]] = "gray"]
       ELSE UNCHANGED <<path, colour>>
    /\ UNCHANGED <<pc, exit, world, caseVars, cursor, order, verdictVars, seeded, reseeded, judgeVars, fileVars>>

SearchingWithoutRetreat(child) ==
    IF colour[child] = "white"
    THEN /\ path' = Append(path, child) /\ colour' = [colour EXCEPT ![child] = "gray"]
         /\ UNCHANGED <<pc, exit>>
    ELSE UNCHANGED <<pc, exit, path, colour>>

\* The next requirement of the case on top: a gray one closes a cycle.
Searching(child) ==
    IF colour[child] = "white"
    THEN /\ path' = Append(path, child) /\ colour' = [colour EXCEPT ![child] = "gray"]
         /\ UNCHANGED <<pc, exit>>
    ELSE IF colour[child] = "gray"
    THEN Exit("setup_failed") /\ UNCHANGED <<path, colour>>
    ELSE UNCHANGED <<pc, exit, path, colour>>

\* Every visit looks at the first requirement again.
SearchWithoutIterator ==
    /\ pc = "search" /\ path # <<>>
    /\ LET top == path[Len(path)]
       IN IF cursor[top] > Len(Requires(top))
          THEN /\ colour' = [colour EXCEPT ![top] = "black"] /\ path' = Front(path)
               /\ UNCHANGED <<pc, exit, cursor>>
          ELSE UNCHANGED cursor /\ Searching(Requires(top)[cursor[top]])
    /\ UNCHANGED <<world, caseVars, next, order, verdictVars, seeded, reseeded, judgeVars, fileVars>>

Search ==
    /\ pc = "search" /\ path # <<>>
    /\ LET top == path[Len(path)]
       IN IF cursor[top] > Len(Requires(top))
          THEN /\ colour' = [colour EXCEPT ![top] = "black"] /\ path' = Front(path)
               /\ UNCHANGED <<pc, exit, cursor>>
          ELSE /\ cursor' = [cursor EXCEPT ![top] = @ + 1]
               /\ Searching(Requires(top)[cursor[top]])
    /\ UNCHANGED <<world, caseVars, next, order, verdictVars, seeded, reseeded, judgeVars, fileVars>>

EndSearch ==
    /\ pc = "search" /\ path = <<>> /\ next > Len(cases)
    /\ GoTo("seed")
    /\ next' = 1 /\ cursor' = [id \in Ids |-> 1]
    /\ UNCHANGED <<world, caseVars, path, colour, order, verdictVars, seeded, reseeded, judgeVars, fileVars>>

-----------------------------------------------------------------------------
(* Pass A.                                                                 *)

\* What a service seeded with these documents retrieves, for a ranking of
\* documents and for a case.
Retrieved(ranking, docs) ==
    LET found == SelectSeq(ranking, LAMBDA doc : doc \in DOMAIN docs)
    IN [i \in DOMAIN found |-> [doc |-> found[i], version |-> docs[found[i]]]]

Hits(docs, id) == Retrieved(given.ranking[id], docs)

Status(hits) == IF hits = <<>> THEN "no_answer" ELSE "answered"

\* build_seeded_rag_service loads and chunks the corpus again, unguarded.
Seed ==
    /\ pc = "seed"
    /\ IF disk.loads /\ disk.chunks
       THEN seeded' = disk.docs /\ GoTo(IF args.calibrate THEN "calibrate" ELSE "score")
       ELSE Exit("traceback") /\ UNCHANGED seeded
    /\ UNCHANGED <<world, caseVars, searchVars, verdictVars, reseeded, judgeVars, fileVars>>

\* The guards of _resolve_lab_root and _resolve_corpus_dir are one flag.  The
\* document is printed, and no verdict is reached.
Calibrate ==
    /\ pc = "calibrate"
    /\ Exit(IF args.lab_root_fits THEN "ok" ELSE "setup_failed")
    /\ UNCHANGED <<world, caseVars, searchVars, verdictVars, seeded, reseeded, judgeVars, fileVars>>

\* build_corpus_map reads the corpus once more; then every case is scored.
RunPassA ==
    /\ pc = "score"
    /\ IF disk.loads
       THEN /\ GoTo("order")
            /\ own' = [id \in Ids |-> LET hits == Hits(seeded, id)
                                      IN EvaluateDeterministic(byId[id], Status(hits), hits, DOMAIN disk.docs)]
       ELSE Exit("setup_failed") /\ UNCHANGED own
    /\ UNCHANGED <<world, caseVars, searchVars, results, seeded, reseeded, judgeVars, fileVars>>

\* evaluation_order: a case of the outer loop.
StartPlacing ==
    /\ pc = "order" /\ path = <<>> /\ next <= Len(cases)
    /\ path' = <<cases[next]>> /\ next' = next + 1
    /\ UNCHANGED <<pc, exit, world, caseVars, cursor, colour, order, verdictVars, seeded, reseeded, judgeVars, fileVars>>

\* place(): a requirement first, then the case itself.
Place ==
    /\ pc = "order" /\ path # <<>>
    /\ LET top == path[Len(path)]
       IN IF top \in ToSet(order)
          THEN path' = Front(path) /\ UNCHANGED <<cursor, order>>
          ELSE IF cursor[top] <= Len(Requires(top))
          THEN /\ path' = Append(path, Requires(top)[cursor[top]])
               /\ cursor' = [cursor EXCEPT ![top] = @ + 1]
               /\ UNCHANGED order
          ELSE path' = Front(path) /\ order' = Append(order, top) /\ UNCHANGED cursor
    /\ UNCHANGED <<pc, exit, world, caseVars, next, colour, verdictVars, seeded, reseeded, judgeVars, fileVars>>

PropagateInDatasetOrder == cases
PropagationOrder == order

EndPlacing ==
    /\ pc = "order" /\ path = <<>> /\ next > Len(cases)
    /\ GoTo("propagate")
    /\ next' = 1 /\ results' = own
    /\ UNCHANGED <<world, caseVars, path, cursor, colour, order, own, seeded, reseeded, judgeVars, fileVars>>

\* propagate_requires: a PASS is lost to a requirement that is no PASS.
Propagate ==
    /\ pc = "propagate" /\ next <= Len(PropagationOrder)
    /\ LET id == PropagationOrder[next]
           blocked == \E r \in ToSet(Requires(id)) : results[r] # "PASS"
       IN results' = IF results[id] # "FAIL" /\ blocked
                     THEN [results EXCEPT ![id] = "INCONCLUSIVE"] ELSE results
    /\ next' = next + 1
    /\ UNCHANGED <<pc, exit, world, caseVars, path, cursor, colour, order, own, seeded, reseeded, judgeVars, fileVars>>

GateExitCode == IF \E id \in Ids : results[id] # "PASS" THEN "gate_failed" ELSE "ok"

EndPropagating ==
    /\ pc = "propagate" /\ next > Len(PropagationOrder)
    /\ IF args.judge THEN GoTo("reseed") ELSE Exit(GateExitCode)
    /\ next' = 1
    /\ UNCHANGED <<world, caseVars, path, cursor, colour, order, verdictVars, seeded, reseeded, judgeVars, fileVars>>

-----------------------------------------------------------------------------
(* Passes B and C.                                                         *)

\* The service of pass B is seeded anew; without credentials none is built.
Reseed ==
    /\ pc = "reseed"
    /\ IF ~(disk.loads /\ disk.chunks) THEN Exit("traceback") /\ UNCHANGED reseeded
       ELSE IF ~settings.credentials THEN Exit("setup_failed") /\ UNCHANGED reseeded
       ELSE GoTo("generate") /\ reseeded' = disk.docs
    /\ UNCHANGED <<world, caseVars, searchVars, verdictVars, seeded, judgeVars, fileVars>>

Current == byId[cases[next]]
HitsA == Hits(seeded, Current.id)
HitsB == Hits(reseeded, Current.id)
Generating == pc = "generate" /\ next <= Len(cases)

\* The case is over with this result.
Record(result) ==
    /\ judged' = Append(judged, result) /\ repeats' = <<>>
    /\ next' = next + 1
    /\ GoTo("generate")
    /\ UNCHANGED <<world, caseVars, path, cursor, colour, order, verdictVars, seeded, reseeded, fileVars>>

Skip ==
    /\ Generating /\ Current.judged = Null
    /\ Record(JudgedResult(Current.id, "SKIPPED", Null, Current.judged_skip_reason))
    /\ UNCHANGED <<billed, transcripts>>

\* Pass B is not asked where pass A had no answer, and may find none itself.
NoAnswer ==
    /\ Generating /\ Current.judged # Null
    /\ Status(HitsA) = "no_answer" \/ Status(HitsB) = "no_answer"
    /\ Record(JudgedResult(Current.id, "INCONCLUSIVE", Null, "no_answer_at_runtime"))
    /\ UNCHANGED <<billed, transcripts>>

Answerable == Generating /\ Current.judged # Null /\ HitsA # <<>> /\ HitsB # <<>>

GenerationFails ==
    /\ Answerable
    /\ Record(JudgedResult(Current.id, "INCONCLUSIVE", Null, "pass_b_generation_error"))
    /\ UNCHANGED <<billed, transcripts>>

Answer == <<"answer to", Current.question>>

\* The sink is called for every answer there is, before anything is compared.
EmittedIfSame == IF HitsA = HitsB THEN <<JudgedTranscript(Current, Answer, HitsB)>> ELSE <<>>
Emitted == <<JudgedTranscript(Current, Answer, HitsB)>>

WithProvenance(result) == [result EXCEPT !.generation_usage = "reported", !.sources = HitsB]

\* Pass B answers.  Sources other than pass A's are recorded and not judged.
Generate ==
    /\ Answerable
    /\ billed' = Append(billed, [case_id |-> Current.id, answer |-> Answer, sources |-> HitsB])
    /\ transcripts' = IF args.answers_out # Null THEN transcripts \o Emitted ELSE transcripts
    /\ IF HitsA # HitsB
       THEN Record(WithProvenance(JudgedResult(Current.id, "INCONCLUSIVE", Null, "sources_sha256 mismatch")))
       ELSE /\ GoTo("repeat")
            /\ UNCHANGED <<world, caseVars, searchVars, verdictVars, seeded, reseeded, judged, repeats, fileVars>>

\* One request to the judge.  The last settles the case.
JudgeRepeat ==
    /\ pc = "repeat"
    /\ \E reply \in Replies :
        LET done == Append(repeats, JudgeOnce(Current, Answer, HitsB, Len(repeats) + 1, reply))
        IN IF Len(done) = args.repeats
           THEN Record(WithProvenance(DeriveJudgedResult(Current.id, done)))
           ELSE /\ repeats' = done
                /\ UNCHANGED <<pc, exit, world, caseVars, searchVars, verdictVars, seeded, reseeded, judged, fileVars>>
    /\ UNCHANGED <<billed, transcripts>>

\* A ValueError within the layer ends the run as a failure of the set-up, and
\* what it was given so far is lost.
JudgedLayerFails ==
    /\ (Generating /\ Current.judged # Null) \/ pc = "repeat"
    /\ Exit("setup_failed")
    /\ UNCHANGED <<world, caseVars, searchVars, verdictVars, seeded, reseeded, judgeVars, fileVars>>

EndJudging ==
    /\ pc = "generate" /\ next > Len(cases)
    /\ GoTo("answers")
    /\ UNCHANGED <<world, caseVars, searchVars, verdictVars, seeded, reseeded, judgeVars, fileVars>>

-----------------------------------------------------------------------------
(* The artifacts.  The companion comes first, and a failure of either one  *)
(* is reported when both were tried.                                       *)

Destination(artifact) == IF artifact = "answers" THEN args.answers_out ELSE args.evidence_out
After(artifact) == IF artifact = "answers" THEN "evidence" ELSE "report"

AnswersDocument == [kind |-> "answers", run |-> "this", cases |-> transcripts]

\* The manifest hashes what is on disk by now.
EvidenceDocument == [kind |-> "evidence", run |-> "this", deterministic |-> results,
                     judged |-> judged, corpus_manifest |-> disk.docs]

\* A document is made, if it was asked for.
Compose ==
    /\ pc \in {"answers", "evidence"} /\ temp = Null
    /\ IF Destination(pc) = Null
       THEN GoTo(After(pc)) /\ UNCHANGED <<temp, writeFailed>>
       ELSE IF pc = "evidence" /\ ~args.lab_root_fits
       THEN GoTo(After(pc)) /\ writeFailed' = TRUE /\ UNCHANGED temp
       ELSE /\ temp' = [written |-> "no", content |-> IF pc = "answers" THEN AnswersDocument ELSE EvidenceDocument]
            /\ UNCHANGED <<pc, exit, writeFailed>>
    /\ UNCHANGED <<world, caseVars, searchVars, verdictVars, seeded, reseeded, judgeVars, files>>

Writing == pc \in {"answers", "evidence"} /\ temp # Null

\* _write_artifact: the payload goes to a file beside the destination.
WriteTemp ==
    /\ Writing /\ temp.written = "no"
    /\ \E written \in {"whole", "partly"} : temp' = [temp EXCEPT !.written = written]
    /\ UNCHANGED <<pc, exit, world, caseVars, searchVars, verdictVars, seeded, reseeded, judgeVars, files, writeFailed>>

Settle(failed) ==
    /\ temp' = Null /\ writeFailed' = (writeFailed \/ failed)
    /\ GoTo(After(pc))

Replace ==
    /\ Writing /\ temp.written = "whole"
    /\ files' = [artifact \in DOMAIN files \cup {pc} |-> IF artifact = pc THEN temp.content ELSE files[artifact]]
    /\ Settle(FALSE)
    /\ UNCHANGED <<world, caseVars, searchVars, verdictVars, seeded, reseeded, judgeVars>>

\* OSError, of the write or of the rename.
FailToWrite ==
    /\ Writing /\ temp.written # "no"
    /\ Settle(TRUE) /\ UNCHANGED files
    /\ UNCHANGED <<world, caseVars, searchVars, verdictVars, seeded, reseeded, judgeVars>>

ReportTheGate ==
    /\ pc = "report"
    /\ Exit(GateExitCode)
    /\ UNCHANGED <<world, caseVars, searchVars, verdictVars, seeded, reseeded, judgeVars, fileVars>>

Report ==
    /\ pc = "report"
    /\ Exit(IF writeFailed THEN "setup_failed" ELSE GateExitCode)
    /\ UNCHANGED <<world, caseVars, searchVars, verdictVars, seeded, reseeded, judgeVars, fileVars>>

-----------------------------------------------------------------------------

\* An exception that nothing catches, or the end of the process.
Interrupt ==
    /\ exit = "running"
    /\ Exit("traceback")
    /\ UNCHANGED <<world, caseVars, searchVars, verdictVars, seeded, reseeded, judgeVars, fileVars>>

Edit ==
    /\ exit = "running" /\ edits > 0 /\ edits' = edits - 1
    /\ \E corpus \in Corpora : disk' = corpus
    /\ UNCHANGED <<pc, exit, given, caseVars, searchVars, verdictVars, seeded, reseeded, judgeVars, fileVars>>

Work ==
    \/ Screen \/ LoadCases \/ StartSearch \/ Search \/ EndSearch
    \/ Seed \/ Calibrate \/ RunPassA \/ StartPlacing \/ Place \/ EndPlacing \/ Propagate \/ EndPropagating
    \/ Reseed \/ Skip \/ NoAnswer \/ GenerationFails \/ Generate \/ JudgeRepeat \/ EndJudging
    \/ Compose \/ WriteTemp \/ Replace \/ FailToWrite \/ Report

Next == Work \/ JudgedLayerFails \/ Interrupt \/ Edit
Spec == Init /\ [][Next]_vars

-----------------------------------------------------------------------------
(* Properties.                                                             *)

\* No case leads back to itself: every set of cases has one that requires
\* none of them.
Acyclic ==
    \A S \in (SUBSET Ids) \ {{}} : \E id \in S : ToSet(Requires(id)) \cap S = {}

(* The search for cycles is right: a dataset that passes it has none, so   *)
(* that placing its cases ends, and one that it refuses has one            *)
(* (_validate_requires, and evaluation_order, which "assumes it already    *)
(* holds and does not re-check it").                                       *)
OnlyOrdersAreAccepted ==
    /\ pc \notin {"screen", "load", "search", "over"} => Acyclic
    /\ exit = "setup_failed" /\ path # <<>> => ~Acyclic

Propagated ==
    \/ pc \in {"reseed", "generate", "repeat", "answers", "evidence", "report"}
    \/ exit \in {"ok", "gate_failed"} /\ ~args.calibrate

\* A judge that passes an answer has found every expected fact covered; one
\* that fails it names an expected fact it misses, a forbidden one, or a claim.
Earned(result) ==
    \A r \in ToSet(result.repeats) :
        LET asked == byId[result.case_id].judged
            raw == r.raw_response
        IN /\ r.outcome = "pass" => ToSet(asked.expected_facts) = raw.covered
           /\ r.outcome = "fail" => \/ ~(ToSet(asked.expected_facts) \subseteq raw.covered)
                                    \/ raw.violated \cap ToSet(asked.forbidden_facts) # {}
                                    \/ raw.unsupported # {}

(* Verdicts are earned.  When those of the gate are out, a case passes if  *)
(* it did so itself and all that it requires pass, fails if it failed      *)
(* itself, and is inconclusive otherwise: one pass in the order of placing *)
(* reaches the fixed point (propagate_requires).  And no reply of a judge, *)
(* whatever it leaves out or names twice, gets round a fact of the case    *)
(* (parse_judge_response, derive_judge_verdict).                           *)
VerdictsAreEarned ==
    /\ Propagated =>
        \A id \in Ids :
            /\ results[id] = "FAIL" <=> own[id] = "FAIL"
            /\ results[id] = "PASS" <=> /\ own[id] = "PASS"
                                       /\ \A r \in ToSet(Requires(id)) : results[r] = "PASS"
    /\ \A i \in DOMAIN judged : Earned(judged[i])

\* The artifacts that this run has put in place.
OfThisRun == {artifact \in DOMAIN files : files[artifact].run = "this"}

(* Exit 0 and 1, where main chooses them, say that the gate was evaluated: *)
(* no case failed or one did, and every artifact that was asked for was    *)
(* written by this run, whatever was there before (main, ExitCode).  A     *)
(* traceback is no choice, though its status is 1 too.                     *)
GateTellsTheTruth ==
    exit \in {"ok", "gate_failed"} /\ ~args.calibrate =>
        /\ exit = "ok" <=> \A id \in Ids : own[id] = "PASS"
        /\ \A artifact \in {"answers", "evidence"} : Destination(artifact) # Null => artifact \in OfThisRun

(* What a destination holds is whole: either as it was found, or of this    *)
(* run.  This run's companion has every answer that was paid for, in order, *)
(* and each hash in its sidecar is the hash of one of them, whatever became *)
(* of the case (run_judged_layer, _write_artifact).                         *)
PaidAnswersAreKept ==
    LET kept == files["answers"]
        sidecar == files["evidence"]
    IN /\ \A artifact \in DOMAIN files \ OfThisRun :
              artifact \in DOMAIN given.found /\ files[artifact] = given.found[artifact]
       /\ \A artifact \in OfThisRun : files[artifact].kind = artifact
       /\ "answers" \in OfThisRun =>
              [i \in DOMAIN kept.cases |-> [case_id |-> kept.cases[i].case_id, answer |-> kept.cases[i].answer,
                                            sources |-> kept.cases[i].sources]] = billed
       /\ {"answers", "evidence"} \subseteq OfThisRun =>
              \A i \in DOMAIN sidecar.judged :
                    LET result == sidecar.judged[i]
                    IN result.generation_usage # Null =>
                        \E t \in ToSet(kept.cases) :
                            /\ t.case_id = result.case_id /\ t.sources = result.sources
                            /\ \A r \in ToSet(result.repeats) :
                                  r.answer_sha256 = t.answer_sha256 /\ r.sources_sha256 = t.sources_sha256
=============================================================================
