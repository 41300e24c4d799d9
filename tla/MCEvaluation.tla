----------------------------- MODULE MCEvaluation -----------------------------
(* Evaluation for TLC: every graph of requirements between three cases, each   *)
(* of which passes or fails; every combination of flags with one case; a       *)
(* dataset with each defect on its own; and judged runs of two cases during    *)
(* which the corpus may change.                                                *)
EXTENDS Evaluation

Doc(n) == CASE n = 1 -> <<"ta", "one">> [] n = 2 -> <<"ta", "two">> [] n = 3 -> <<"tb", "three">>
Corpus(versions) == [docs |-> versions, loads |-> TRUE, chunks |-> TRUE]
Shipped == Corpus(Doc(1) :> 1 @@ Doc(2) :> 1 @@ Doc(3) :> 1)
Edited ==
    {Corpus(Doc(1) :> 2 @@ Doc(2) :> 1 @@ Doc(3) :> 1), Corpus(Doc(2) :> 1 @@ Doc(3) :> 1),
     [Shipped EXCEPT !.loads = FALSE], [Shipped EXCEPT !.chunks = FALSE]}

Spec1 == [status |-> "answered", status_note |-> Wrong, must_cite |-> {}, must_not_cite |-> {},
          citations_subset_of |-> Null, subset_note |-> "note"]
Facts == [expected_facts |-> <<"f">>, forbidden_facts |-> <<"g">>, rubric |-> Null]
Entry(id) ==
    [id |-> id, question |-> id, protects |-> "it", requires |-> <<>>,
     principal |-> [tenant |-> "ta", user |-> "u", groups |-> {}],
     deterministic |-> Spec1, judged |-> Null, judged_skip_reason |-> "reason"]
Judged(id) == [Entry(id) EXCEPT !.judged = Facts]

Out(file) == [file |-> file, parent_is_dir |-> file # "gone"]
GateArgs == [calibrate |-> FALSE, judge |-> FALSE, repeats |-> DefaultRepeats,
             evidence_out |-> Null, answers_out |-> Null, lab_root_fits |-> TRUE]
JudgeArgs == [GateArgs EXCEPT !.judge = TRUE, !.evidence_out = Out("run"), !.answers_out = Out("text")]
Fake == [valid |-> TRUE, use_fake_llm |-> TRUE, credentials |-> FALSE]
Real == [valid |-> TRUE, use_fake_llm |-> FALSE, credentials |-> TRUE]

Given(arguments, configured, entries, ranking, changes) ==
    [args |-> arguments, settings |-> configured, entries |-> entries, ranking |-> ranking,
     disk |-> Shipped, edits |-> changes, found |-> Nothing]
Leftover(kind) == [kind |-> kind, run |-> "earlier", cases |-> <<>>, judged |-> <<>>]
OverEarlier(run) == [run EXCEPT !.found = "answers" :> Leftover("answers") @@ "evidence" :> Leftover("evidence")]
Always(docs) == [id \in CaseNames |-> docs]

-----------------------------------------------------------------------------

Listings(names) == {SetToSeq(S) : S \in SUBSET names}
Graphs3 ==
    {Given(GateArgs, Fake,
           <<[Entry("a") EXCEPT !.requires = ra, !.deterministic.status = sa],
             [Entry("b") EXCEPT !.requires = rb, !.deterministic.status = sb],
             [Entry("c") EXCEPT !.requires = rc, !.deterministic.status = sc]>>, Always(<<Doc(1)>>), 0) :
        ra \in Listings({"b", "c"}), rb \in Listings({"a", "c"}), rc \in Listings({"a", "b"}),
        sa \in {"answered", "no_answer"}, sb \in {"answered", "no_answer"}, sc \in {"answered", "no_answer"}}

Flags ==
    {Given([calibrate |-> c, judge |-> j, repeats |-> r, evidence_out |-> e, answers_out |-> t,
            lab_root_fits |-> l], s, <<Entry("a")>>, Always(<<Doc(1)>>), 0) :
        c \in BOOLEAN, j \in BOOLEAN, r \in 0 .. 2, l \in BOOLEAN,
        e \in {Null, Out("run"), Out("gone")}, t \in {Null, Out("run"), Out("text"), Out("gone")},
        s \in {Fake, Real, [Real EXCEPT !.credentials = FALSE], [Fake EXCEPT !.valid = FALSE]}}

Cited == [Spec1 EXCEPT !.must_cite = {"one"}, !.citations_subset_of = {"one", "two"}]
Defective ==
    {Wrong, [Entry("a") EXCEPT !.question = Wrong], [Entry("a") EXCEPT !.principal = Wrong],
     [Entry("a") EXCEPT !.principal.groups = {Wrong}], [Entry("a") EXCEPT !.requires = Wrong],
     [Entry("a") EXCEPT !.requires = <<"a">>], [Entry("a") EXCEPT !.requires = <<"c">>],
     [Entry("a") EXCEPT !.deterministic.status = Null],
     [Entry("a") EXCEPT !.deterministic.must_cite = Wrong],
     [Entry("a") EXCEPT !.deterministic.subset_note = Wrong],
     [Entry("a") EXCEPT !.deterministic = [Cited EXCEPT !.must_cite = {"three"}]],
     [Entry("a") EXCEPT !.deterministic = [Cited EXCEPT !.citations_subset_of = {"two"}]],
     [Entry("a") EXCEPT !.deterministic = [Cited EXCEPT !.must_not_cite = {"one"}]],
     [Entry("a") EXCEPT !.judged_skip_reason = Wrong], [Judged("a") EXCEPT !.judged.rubric = Wrong],
     [Judged("a") EXCEPT !.judged.forbidden_facts = <<"f">>], Entry("b")}
Scored == {[Entry("a") EXCEPT !.deterministic = Cited],
           [Entry("a") EXCEPT !.deterministic = [Cited EXCEPT !.must_cite = {}, !.must_not_cite = {"two"},
                                                              !.citations_subset_of = Null]]}
Datasets ==
    {Given(GateArgs, Fake, <<entry, Entry("b")>>, Always(docs), 0) :
        entry \in Defective \cup Scored, docs \in {<<>>, <<Doc(1)>>, <<Doc(2), Doc(1)>>, <<Doc(1), Doc(3)>>}}
    \cup {Given(GateArgs, Fake, <<Entry("a")>>, Always(<<Doc(1)>>), 1)}

JudgedRuns ==
    {OverEarlier(Given(arguments, Real, entries, [id \in CaseNames |-> IF id = "a" THEN first ELSE <<Doc(2)>>], 1)) :
        arguments \in {JudgeArgs, [JudgeArgs EXCEPT !.answers_out = Null]},
        entries \in {<<Judged("a"), Judged("b")>>}, first \in {<<Doc(1)>>, <<>>}}
    \cup {Given([JudgeArgs EXCEPT !.repeats = 2], Real, <<Entry("a"), Judged("b")>>, Always(<<Doc(1)>>), 1)}

GivenRuns == Graphs3 \cup Flags \cup Datasets \cup JudgedRuns

Response(covered, missing, violated, unsupported) ==
    [kind |-> "message", raw |-> [covered |-> covered, missing |-> missing, violated |-> violated,
                                  unsupported |-> unsupported, rationale |-> "why"]]
JudgeReplies ==
    {[kind |-> "filtered", raw |-> Wrong], [kind |-> "upstream", raw |-> Wrong],
     [kind |-> "message", raw |-> Wrong],
     Response({"f"}, {}, {}, {}), Response({}, {}, {}, {}), Response({"f"}, {"g"}, {}, {}),
     Response({}, {"f"}, {}, {}), Response({"f"}, {}, {"g"}, {})}
=============================================================================
