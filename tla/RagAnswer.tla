------------------------------- MODULE RagAnswer -------------------------------
(***************************************************************************)
(* One POST /api/v1/rag, from its credential to its audit event: resolve   *)
(* the principal and validate the body (api/principal.py, core/errors.py), *)
(* then RagService.answer (services/rag.py): embed the question, search,   *)
(* select what fits the prompt, generate, validate citations.  The event   *)
(* has to pass the schema of core/audit.py before it is logged.            *)
(*                                                                         *)
(* A document counts by the bytes it adds to the prompt, and Budget is     *)
(* what is left of MAX_PROMPT_BYTES without instructions and question.     *)
(* The reply of the model is a sequence of brackets, digits and other      *)
(* characters.                                                             *)
(***************************************************************************)
EXTENDS Sequences, SequencesExt, Retrieval, Identity

CONSTANTS
    Settings,   \* configurations: mode, tenant, required scope and role
    Requests,   \* requests: body, credential, and holder, whom the credential
                \* was issued for (an observer: the code does not know)
    Size,       \* Size[d]: the bytes document d renders to
    Budget,     \* bytes there are for the hits
    MaxHits,    \* rag_top
    Replies,    \* texts the model may answer with
    None        \* what is not there

ASSUME SizeAssumption == Size \in [Documents -> Nat \ {0}] /\ Budget \in Nat /\ MaxHits \in Nat
ASSUME SettingsAssumption == \A s \in Settings : Configured(s)
ASSUME RepliesAssumption == Replies \subseteq Seq(STRING)

\* What a credential says of its holder.  A gateway names him, and his groups
\* in at most one header; Entra names him in a token that it signed and lists
\* all of his groups, or signals that there are more.
HeadersName(headers, holder) ==
    /\ headers.tenants \in Seq(Identifiers \cup {Malformed})
    /\ headers.users \in Seq(Identifiers \cup {Malformed})
    /\ headers.groups \in Seq([oversized : BOOLEAN, parts : Seq(Identifiers \cup {Absent, Malformed})])
    /\ \A tenant, user \in Identifiers :
           headers.tenants = <<tenant>> /\ headers.users = <<user>> /\ Len(headers.groups) <= 1 =>
               holder = [tenant |-> tenant, user |-> user,
                         groups |-> (UNION {ToSet(value.parts) : value \in ToSet(headers.groups)}) \ {Absent}]

ClaimsName(claims, holder) ==
    /\ holder = [tenant |-> claims.tid, user |-> holder.user, groups |-> holder.groups]
    /\ claims.oid \in Identifiers => holder.user = claims.oid
    /\ claims.groups \notin {Absent, Malformed} => holder.groups = ToSet(claims.groups)
    /\ claims.groups = Absent =>
           \/ holder.groups = {}
           \/ claims.hasgroups \notin {Absent, FALSE}
           \/ claims.claim_names # Absent /\ (claims.claim_names = Malformed \/ "groups" \in claims.claim_names)

ASSUME CredentialsAssumption ==
    \A r \in Requests :
        /\ r.mode = "headers" => HeadersName(r.credential, r.holder)
        /\ r.mode = "entra" /\ WellFormedBearer(r.credential) /\ Verified(r.credential[1].token) =>
               ClaimsName(r.credential[1].token.claims, r.holder)

\* The UpstreamErrors of the chat adapter, by code; a ContextLengthExceededError,
\* whose code is invalid_input, by its cause.
GenerationCodes == {"configuration_error", "content_filtered", "context_length_exceeded",
                    "upstream_throttled", "upstream_timeout", "upstream_error"}

VARIABLES
    settings,  \* the configuration of the process
    request,   \* the request, as long as authentication and validation need it
    caller,    \* request.state.principal, or None
    pc,        \* "arrived", "admitted", "embed", "search", "assemble_context",
               \* "generation", or "over"
    hits,      \* retrieved.hits: documents in rank order
    included,  \* the hits selected, as ranks
    sent,      \* observer: the ranks the provider was called with, or None
    reply,     \* observer: the text the model answered with, or None
    event,     \* the audit event logged, or None
    result     \* what the caller got

identityVars == <<settings, request, caller>>
pipelineVars == <<hits, included, sent, reply>>
vars == <<identityVars, pipelineVars, pc, event, result>>

Init ==
    /\ settings \in Settings
    /\ request \in {r \in Requests : r.mode = settings.mode}
    /\ caller = None
    /\ pc = "arrived" /\ hits = <<>> /\ included = <<>>
    /\ sent = None /\ reply = None /\ event = None
    /\ result = [kind |-> None]

-----------------------------------------------------------------------------
(* Selection.                                                              *)

BytesOf(found, ranks) == FoldLeft(LAMBDA total, rank : total + Size[found[rank]], 0, ranks)
Bytes(ranks) == BytesOf(hits, ranks)

\* The loop takes hits in rank order and breaks at the first that does not fit.
SelectWithinBudget ==
    LET fitting == {n \in 0 .. Len(hits) : \A m \in 1 .. n : Bytes([rank \in 1 .. m |-> rank]) <= Budget}
    IN [rank \in 1 .. Cardinality(fitting) - 1 |-> rank]

-----------------------------------------------------------------------------
(* Citations.                                                              *)

Digits == <<"0", "1", "2", "3", "4", "5", "6", "7", "8", "9">>
Value(digit) == CHOOSE n \in 0 .. 9 : Digits[n + 1] = digit

\* The matches of \[(\d+)\], by their brackets: no two of them overlap.
Markers(text) ==
    {m \in {i \in DOMAIN text : text[i] = "["} \X {j \in DOMAIN text : text[j] = "]"} :
        /\ m[1] + 1 < m[2]
        /\ \A k \in m[1] + 1 .. m[2] - 1 : text[k] \in ToSet(Digits)}

Decimal(digits) == FoldLeft(LAMBDA number, digit : 10 * number + Value(digit), 0, digits)

NumberOf(text, marker) == Decimal(SubSeq(text, marker[1] + 1, marker[2] - 1))

InRange(number, count) == number \in 1 .. count

Invalid(text, count) == {m \in Markers(text) : ~InRange(NumberOf(text, m), count)}

\* A finite set of numbers, from the least to the greatest.
InOrder(numbers) ==
    [k \in 1 .. Cardinality(numbers) |->
        CHOOSE n \in numbers : Cardinality({m \in numbers : m <= n}) = k]

\* The positions that are left when the invalid markers are cut out.
Left(text, count) == DOMAIN text \ UNION {m[1] .. m[2] : m \in Invalid(text, count)}
Kept(text, count) == InOrder(Left(text, count))

Cleaned(text, count) ==
    LET kept == Kept(text, count)
    IN [k \in DOMAIN kept |-> text[kept[k]]]

CitedBeforeCleaning(text, count) ==
    {NumberOf(text, m) : m \in Markers(text) \ Invalid(text, count)}

\* The cleaned text is scanned again: cutting a marker out may splice another.
Cited(text, count) ==
    LET clean == Cleaned(text, count)
    IN {NumberOf(clean, m) : m \in Markers(clean) \ Invalid(clean, count)}

-----------------------------------------------------------------------------
(* The audit boundary.                                                     *)

RejectedCodes == {"validation_error", "content_filtered"}
ErrorCodes == (RetrievalCodes \cup GenerationCodes \cup {"rag_context_overflow"})
                  \ {"content_filtered", "context_length_exceeded"}

\* The validators of RagQuerySuccess, RagQueryRejected and RagQueryError.
AcceptsQuery(e) ==
    /\ e.attempted <=> e.attributed
    /\ e.outcome = "success" => e.code = None /\ e.stage = None
    /\ e.outcome = "success" => (e.attempted <=> e.status = "answered")
    /\ e.outcome = "rejected" => e.code \in RejectedCodes
    /\ e.outcome = "error" => e.code \in ErrorCodes /\ e.stage # None

Stages == {"retrieve", "assemble_context", "generation"}
Statuses == {"answered", "no_answer", "error"}
Kinds == {"refused", "invalid", "answered", "no_answer", "failed", "crashed", "aborted"}

AuthEvents ==
    [event : {"auth.rejected"}, mode : {"headers", "entra"}, status : {401, 403},
     reason : HeaderReasons \cup BearerReasons \cup {"permission_missing"}, who : Names \cup {Absent}]
QueryEvents ==
    [event : {"rag.query"}, who : Names, outcome : {"success", "rejected", "error"},
     code : RejectedCodes \cup ErrorCodes \cup {None}, stage : Stages \cup {None},
     status : Statuses \cup {None},
     attempted : BOOLEAN, attributed : BOOLEAN, hits : Nat \cup {None}, selected : Seq(Nat) \cup {None}]

ASSUME NoneAssumption ==
    None \notin Kinds \cup Stages \cup Statuses \cup Principals \cup Seq(Nat) \cup AuthEvents \cup QueryEvents

Accepts(e) == IF e.event = "rag.query" THEN AcceptsQuery(e) ELSE AcceptsRejection(e)

\* emit_audit_event, then what the caller gets; an event the schema does not
\* accept raises ValidationError instead.
EmitAnd(e, outcome) ==
    IF Accepts(e)
    THEN event' = e /\ result' = outcome
    ELSE event' = None /\ result' = [kind |-> "crashed"]

\* rag_base_fields
Who == [tenant |-> caller.tenant, user |-> caller.user]

SuccessEvent(status, chosen) ==
    [event |-> "rag.query", who |-> Who, outcome |-> "success", code |-> None, stage |-> None, status |-> status,
     attempted |-> status = "answered", attributed |-> status = "answered",
     hits |-> Len(hits), selected |-> chosen]

\* upstream_outcome: 4xx is a rejection.
OutcomeOf(code) ==
    IF code \in {"content_filtered", "context_length_exceeded"} THEN "rejected" ELSE "error"

AttemptedOnceSelected == pc \notin {"embed", "search"}
\* Both stages before fail before the provider is called.
Attempted == pc = "generation"

\* current_stage
Stage == IF pc \in {"embed", "search"} THEN "retrieve" ELSE pc

FailureEvent(code) ==
    [event |-> "rag.query", who |-> Who, outcome |-> OutcomeOf(code), code |-> code, stage |-> Stage, status |-> "error",
     attempted |-> Attempted, attributed |-> Attempted,
     hits |-> IF Stage = "retrieve" THEN None ELSE Len(hits),
     selected |-> IF pc = "generation" THEN included ELSE None]

\* rag_rejected_event: the pipeline never ran.
InvalidBodyEvent ==
    [event |-> "rag.query", who |-> Who, outcome |-> "rejected", code |-> "validation_error",
     stage |-> None, status |-> None, attempted |-> FALSE, attributed |-> FALSE,
     hits |-> None, selected |-> None]

-----------------------------------------------------------------------------
(* The request comes in.                                                   *)

\* A body that is no JSON is refused before any dependency runs, and without
\* a principal _emit_422_event writes nothing.
RefuseUnreadable ==
    /\ pc = "arrived" /\ request.body = "unreadable"
    /\ result' = [kind |-> "invalid", status |-> 422]
    /\ pc' = "over"
    /\ UNCHANGED <<identityVars, pipelineVars, event>>

\* require_principal.
Verdict == Resolve(settings, request.credential)

Refuse ==
    /\ pc = "arrived" /\ request.body # "unreadable"
    /\ Verdict.status # 200
    /\ EmitAnd(AuthRejected(settings, Verdict), [kind |-> "refused", status |-> Verdict.status])
    /\ pc' = "over"
    /\ UNCHANGED <<identityVars, pipelineVars>>

Admit ==
    /\ pc = "arrived" /\ request.body # "unreadable"
    /\ Verdict.status = 200
    /\ caller' = Verdict.principal
    /\ pc' = "admitted"
    /\ UNCHANGED <<settings, request, pipelineVars, event, result>>

\* RagRequest: the question is blank or too long.
RefuseInvalid ==
    /\ pc = "admitted" /\ request.body = "invalid"
    /\ EmitAnd(InvalidBodyEvent, [kind |-> "invalid", status |-> 422])
    /\ pc' = "over"
    /\ UNCHANGED <<identityVars, pipelineVars>>

\* answer() is called with the question and the principal; nothing reads the
\* credential any more.
Start ==
    /\ pc = "admitted" /\ request.body = "valid"
    /\ request' = None
    /\ pc' = "embed"
    /\ UNCHANGED <<settings, caller, pipelineVars, event, result>>

-----------------------------------------------------------------------------
(* The stages.                                                             *)

FailWith(code) ==
    /\ EmitAnd(FailureEvent(code), [kind |-> "failed", code |-> code])
    /\ pc' = "over"

EmbedFails ==
    /\ pc = "embed"
    /\ \E code \in EmbeddingFailures : FailWith(code)
    /\ UNCHANGED <<identityVars, pipelineVars>>

Embed ==
    /\ pc = "embed" /\ pc' = "search"
    /\ UNCHANGED <<identityVars, pipelineVars, event, result>>

SearchFails ==
    /\ pc = "search"
    /\ \E code \in SearchFailures : FailWith(code)
    /\ UNCHANGED <<identityVars, pipelineVars>>

\* The service ranks what its filter lets through.
Rankings ==
    LET matching == {d \in Documents : Matches(BuildAclFilter(caller), d)}
    IN {ranking \in BoundedSeq(matching, MaxHits) : IsInjective(ranking)}

\* Nothing found: no answer, and no call to the provider.
NoAnswer ==
    /\ pc = "search"
    /\ EmitAnd(SuccessEvent("no_answer", None), [kind |-> "no_answer"])
    /\ pc' = "over"
    /\ UNCHANGED <<identityVars, pipelineVars>>

Search ==
    /\ pc = "search"
    /\ hits' \in Rankings \ {<<>>}
    /\ pc' = "assemble_context"
    /\ UNCHANGED <<identityVars, included, sent, reply, event, result>>

\* Not even the first hit fits.
Overflow ==
    /\ pc = "assemble_context" /\ SelectWithinBudget = <<>>
    /\ FailWith("rag_context_overflow")
    /\ UNCHANGED <<identityVars, pipelineVars>>

\* Selected and rendered, the prompt goes to the provider.
Assemble ==
    /\ pc = "assemble_context" /\ SelectWithinBudget # <<>>
    /\ included' = SelectWithinBudget
    /\ sent' = SelectWithinBudget
    /\ pc' = "generation"
    /\ UNCHANGED <<identityVars, hits, reply, event, result>>

\* The server composed the prompt: an overflow the provider reports is its own.
Reclassify(code) == IF code = "context_length_exceeded" THEN "rag_context_overflow" ELSE code

GenerateFails ==
    /\ pc = "generation"
    /\ \E code \in GenerationCodes : FailWith(Reclassify(code))
    /\ UNCHANGED <<identityVars, pipelineVars>>

\* RagAnswer.__post_init__ of an answer.
Wellformed(answer) == Len(answer.sources) > 0 /\ answer.cited <= Len(answer.sources)

Generate ==
    /\ pc = "generation"
    /\ reply' \in Replies
    /\ LET count == Len(included)
           answer == [kind |-> "answered", sources |-> included,
                      text |-> Cleaned(reply', count),
                      cited |-> Cardinality(Cited(reply', count)),
                      stripped |-> Cardinality(Invalid(reply', count))]
       IN EmitAnd(SuccessEvent("answered", included),
                  IF Wellformed(answer) THEN answer ELSE [kind |-> "crashed"])
    /\ pc' = "over"
    /\ UNCHANGED <<identityVars, hits, included, sent>>

\* Anything but an AuthRejection or an UpstreamError leaves no event: a
\* cancellation, a RuntimeError of the verifier, or a vector of another width
\* than the index, which validate_search_arguments refuses with a ValueError.
Abort ==
    /\ \/ pc \in {"embed", "search", "generation"}
       \/ /\ pc = "arrived" /\ request.body # "unreadable"
          /\ settings.mode = "entra" /\ WellFormedBearer(request.credential)
    /\ result' = [kind |-> "aborted"]
    /\ pc' = "over"
    /\ UNCHANGED <<identityVars, pipelineVars, event>>

Next == RefuseUnreadable \/ Refuse \/ Admit \/ RefuseInvalid \/ Start
            \/ EmbedFails \/ Embed \/ SearchFails \/ NoAnswer \/ Search \/ Overflow \/ Assemble
            \/ GenerateFails \/ Generate \/ Abort

Spec == Init /\ [][Next]_vars

-----------------------------------------------------------------------------
(* Properties.                                                             *)

\* Whoever gets past require_principal is the one the credential was issued
\* for, with every group of his and in the tenant served here, and the gate
\* his kind of token has to pass was passed: a role does not stand in for a
\* scope, and no gate is open because it is not configured
\* (EntraJwtPrincipalResolver, HeaderPrincipalResolver).
OnlyTheEntitledEnter ==
    pc = "admitted" =>
        /\ caller = request.holder
        /\ settings.mode = "entra" =>
            LET claims == request.credential[1].token.claims
            IN /\ Verified(request.credential[1].token)
               /\ caller.tenant = settings.tenant
               /\ IF claims.scp # Absent THEN settings.scope \in claims.scp
                                        ELSE settings.role \in claims.roles

\* No chunk that the policy hides from the caller reaches the provider or the
\* list of sources, though the search service decides by the OData filter and
\* the policy is is_document_visible (services/acl.py).
SourcesAreVisible ==
    /\ \A n \in DOMAIN hits : Visible(caller, hits[n])
    /\ sent # None => \A n \in DOMAIN sent : Visible(caller, hits[sent[n]])

\* The provider is shown the best-ranked hits and no others, as many as fit:
\* a hit is never passed over for one that ranks lower
\* (_select_within_budget).
RankingIsKept ==
    sent # None =>
        /\ \A n \in DOMAIN sent : sent[n] = n
        /\ Bytes(sent) <= Budget
        /\ Len(sent) < Len(hits) => ~(Bytes(Append(sent, Len(sent) + 1)) <= Budget)

\* Every classified end leaves exactly its event, and the event says what
\* happened: who asked, but only if his identity was verified, whether the
\* provider was called and with which sources, and the code that the caller was
\* given; neither the audit schema nor RagAnswer refuses what the code builds
\* (docs/audit-logging.md, emission).
AuditTellsTheTruth ==
    /\ result.kind # "crashed"
    /\ event # None <=> \/ result.kind \in {"refused", "answered", "no_answer", "failed"}
                       \/ (result.kind = "invalid" /\ caller # None)
    /\ result.kind = "refused" =>
        /\ event.status = result.status
        /\ result.status = 403 <=> event.who # Absent
        /\ event.who # Absent =>
            /\ event.who = [tenant |-> request.holder.tenant, user |-> request.holder.user]
            /\ Verified(request.credential[1].token)
    /\ caller # None /\ event # None =>
        /\ event.event = "rag.query" /\ event.who = Who
        /\ event.attempted <=> sent # None
        /\ event.attempted => event.selected = sent
        /\ result.kind = "failed" => event.code = result.code

\* The citations of an answer hold: the counts describe the text the reader
\* gets, valid citations survive the cleaning, nothing is reported stripped from
\* a text left as it was, and a citation left in it points at a source that was
\* in context, unless the cleaning itself put it together from pieces
\* (_validate_citations; docs/rag-overview.md: citation validation).
CitationsHold ==
    result.kind = "answered" =>
        LET count == Len(result.sources)
            kept == Kept(reply, count)
            shown == {NumberOf(result.text, m) : m \in Markers(result.text)}
            asked == {NumberOf(reply, m) : m \in Markers(reply)}
        IN /\ result.cited = Cardinality(shown \cap 1 .. count)
           /\ asked \cap 1 .. count \subseteq shown
           /\ result.stripped = 0 <=> result.text = reply
           /\ \A m \in Markers(result.text) :
                  \/ NumberOf(result.text, m) \in 1 .. count
                  \/ kept[m[2]] - kept[m[1]] > m[2] - m[1]
=============================================================================
