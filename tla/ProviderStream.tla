---------------------------- MODULE ProviderStream ----------------------------
(***************************************************************************)
(* One call of the chat model, from the OpenAI client up to the caller of  *)
(* POST /chat or POST /chat/stream (services/azure_openai.py and the       *)
(* generators api/streaming.py wraps around it).                           *)
(*                                                                         *)
(* A stream passes through a chain of five async generators, outermost     *)
(* first: _render_sse, _audit_observed, _commit_on_done, _traced_stream,   *)
(* _translate_stream.  None of them closes the one it iterates.  What the  *)
(* provider does, and a cancellation that comes while it is awaited, runs  *)
(* through the whole chain in the task of the request.  A consumer that    *)
(* stops pulling leaves the rest of the chain suspended: asyncio closes an *)
(* abandoned generator in a task of its own, and only when that is done    *)
(* the next one is abandoned.  A generator that was never pulled has no    *)
(* frame to unwind, and closing it runs nothing.                           *)
(*                                                                         *)
(* The lock and the commit are those of ConversationTurns; here they are   *)
(* the points of the chain that can fail.  AsyncStream.close is taken not  *)
(* to raise.                                                               *)
(***************************************************************************)
EXTENDS Naturals, Sequences, SequencesExt

CONSTANTS
    MaxDeltas,  \* bound: deltas of one stream
    None        \* what is not there

Render == 1  Observe == 2  Commit == 3  Trace == 4  Translate == 5
Generators == 1 .. 5

\* The exceptions of the OpenAI client, a BadRequestError by its code.
SdkErrors == {"timeout", "rate_limit", "authentication", "permission_denied", "not_found",
              "content_filter", "context_length_exceeded", "bad_request", "other"}
\* The codes of response.failed and of the error event.
FailureCodes == {"rate_limit_exceeded", "server_error", None}
\* The terminals of a response, with the reason an incomplete one gives.
Terminals == {[status |-> "completed", reason |-> None]}
                 \cup [status : {"incomplete"},
                       reason : {"max_output_tokens", "content_filter", "other", None}]

VARIABLES
    pc,        \* the request's task: "complete", "open", "opened", "pulling", "sending", "over"
    gen,       \* gen[g]: "none", "fresh", "live", "done", or "dropped" before its first pull
    upstream,  \* the HTTP stream of the provider: "none", "open", "closed"
    span,      \* OwnedLlmSpan, or the span of llm_span
    seen,      \* seen_done of _audit_observed: the terminal, or None
    locked,    \* the turn holds the lock of its conversation
    event,     \* the audit event handed to emit_audit_event, or None
    told,      \* what was handed to the caller: SSE frames, or one response
    answer,    \* observer: how the provider ended the call: "none", "terminal", "failed", "eof"
    left       \* observer: the request was cancelled

vars == <<pc, gen, upstream, span, seen, locked, event, told, answer, left>>

Init ==
    /\ pc \in {"complete", "open"}
    /\ gen = [g \in Generators |-> "none"]
    /\ upstream = "none"
    /\ span = [open |-> TRUE, outcome |-> None, code |-> None]
    /\ seen = None /\ locked = TRUE /\ event = None /\ told = <<>>
    /\ answer = "none" /\ left = FALSE

-----------------------------------------------------------------------------
(* The error vocabulary.                                                   *)

TranslateUpstreamError(exc) ==
    CASE exc = "timeout" -> "upstream_timeout"
      [] exc = "rate_limit" -> "upstream_throttled"
      [] exc \in {"authentication", "permission_denied", "not_found"} -> "configuration_error"
      [] exc = "content_filter" -> "content_filtered"
      [] exc = "context_length_exceeded" -> "invalid_input"
      [] OTHER -> "upstream_error"

TranslateFailedEvent(code) ==
    IF code = "rate_limit_exceeded" THEN "upstream_throttled" ELSE "upstream_error"

MapIncompleteReason(reason) ==
    IF reason \in {"max_output_tokens", "content_filter"} THEN reason ELSE "other"

\* StreamDone, or the status and reason of a ChatResult.
Done(terminal) ==
    [terminal EXCEPT !.reason = IF terminal.status = "incomplete" THEN MapIncompleteReason(@) ELSE None]

TurnCommits(done) == done.status = "completed" \/ done.reason = "max_output_tokens"

UpstreamOutcome(code) == IF code \in {"content_filtered", "invalid_input"} THEN "rejected" ELSE "error"

Succeeded(done) == [outcome |-> "success", code |-> None, status |-> done.status, reason |-> done.reason]
Failed(code) == [outcome |-> UpstreamOutcome(code), code |-> code, status |-> None, reason |-> None]
\* A commit that raises carries the snapshot of the terminal.
NotStored(done) == [Failed("storage_error") EXCEPT !.status = done.status, !.reason = done.reason]
Disconnected == [outcome |-> "error", code |-> "client_disconnect", status |-> None, reason |-> None]

RejectedCodes == {"validation_error", "conversation_not_found", "token_budget_exceeded",
                  "invalid_input", "content_filtered"}
ErrorCodes == {"configuration_error", "storage_error", "upstream_throttled",
               "upstream_timeout", "upstream_error", "client_disconnect"}

\* The validators of ChatTurnSuccess, ChatTurnRejected and ChatTurnError.
Accepts(e) ==
    /\ e.reason # None => e.status = "incomplete"
    /\ e.outcome = "success" => e.status # None
    /\ e.outcome = "rejected" => e.code \in RejectedCodes
    /\ e.outcome = "error" => e.code \in ErrorCodes

DoneFrame(done) == [kind |-> "done", status |-> done.status, reason |-> done.reason]
Refusal(kind, code) == [kind |-> kind, code |-> code]

-----------------------------------------------------------------------------
(* The span.                                                               *)

\* record_terminal: the first outcome stays.
Recorded(s, outcome, code) ==
    IF ~s.open \/ s.outcome # None THEN s ELSE [s EXCEPT !.outcome = outcome, !.code = code]

EndedAsError(s) == [open |-> FALSE, outcome |-> "error", code |-> "upstream_error"]

\* aclose of the owner: an end without an outcome is an error.
Ended(s) == [Recorded(s, "error", "upstream_error") EXCEPT !.open = FALSE]

-----------------------------------------------------------------------------
(* POST /chat: one await, and a span that is a context manager.            *)

\* A terminal response.  An empty reply, or a store that fails, is a failed
\* turn of a call that succeeded.
CompleteAnswers ==
    /\ pc = "complete" /\ pc' = "over"
    /\ \E terminal \in Terminals :
        LET done == Done(terminal)
        IN  \/ event' = Succeeded(done) /\ told' = <<DoneFrame(done)>>
            \/ /\ done.status = "completed"
               /\ event' = Failed("upstream_error") /\ told' = <<Refusal("http", "upstream_error")>>
            \/ /\ TurnCommits(done)
               /\ event' = NotStored(done) /\ told' = <<Refusal("http", "storage_error")>>
    /\ answer' = "terminal"
    /\ span' = [open |-> FALSE, outcome |-> "success", code |-> None]
    /\ locked' = FALSE
    /\ UNCHANGED <<gen, upstream, seen, left>>

CompleteRaises(code) ==
    /\ pc = "complete" /\ pc' = "over"
    /\ answer' = "failed"
    /\ span' = [open |-> FALSE, outcome |-> UpstreamOutcome(code), code |-> code]
    /\ event' = Failed(code) /\ told' = <<Refusal("http", code)>>
    /\ locked' = FALSE
    /\ UNCHANGED <<gen, upstream, seen, left>>

CompleteFails ==
    \/ \E exc \in SdkErrors : CompleteRaises(TranslateUpstreamError(exc))
    \/ \E code \in FailureCodes : CompleteRaises(TranslateFailedEvent(code))

\* llm_span ends on a cancellation without an outcome; no event is written.
CancelComplete ==
    /\ pc = "complete" /\ pc' = "over"
    /\ span' = [span EXCEPT !.open = FALSE]
    /\ locked' = FALSE /\ left' = TRUE
    /\ UNCHANGED <<gen, upstream, seen, event, told, answer>>

-----------------------------------------------------------------------------
(* POST /chat/stream: the eager open.                                      *)

OpenStream ==
    /\ pc = "open" /\ pc' = "opened"
    /\ upstream' = "open"
    /\ gen' = [g \in Generators |-> "fresh"]
    /\ UNCHANGED <<span, seen, locked, event, told, answer, left>>

OpenFails ==
    /\ pc = "open" /\ pc' = "over"
    /\ \E exc \in SdkErrors :
        LET code == TranslateUpstreamError(exc)
        IN /\ answer' = "failed"
           /\ span' = Ended(Recorded(span, UpstreamOutcome(code), code))
           /\ event' = Failed(code) /\ told' = <<Refusal("http", code)>>
    /\ locked' = FALSE
    /\ UNCHANGED <<gen, upstream, seen, left>>

\* No UpstreamError, no event.
CancelOpen ==
    /\ pc = "open" /\ pc' = "over"
    /\ span' = Ended(Recorded(span, "error", "upstream_error"))
    /\ locked' = FALSE /\ left' = TRUE
    /\ UNCHANGED <<gen, upstream, seen, event, told, answer>>

-----------------------------------------------------------------------------
(* The stream.                                                             *)

\* _render_sse has sent its terminal.
TerminalSent == told # <<>> /\ Last(told).kind # "delta"

\* The response pulls the next frame; after the terminal _render_sse returns.
Pull ==
    /\ pc \in {"opened", "sending"}
    /\ IF TerminalSent
       THEN pc' = "over" /\ gen' = [gen EXCEPT ![Render] = "done"]
       ELSE pc' = "pulling" /\ gen' = [g \in Generators |-> "live"]
    /\ UNCHANGED <<upstream, span, seen, locked, event, told, answer, left>>

Hand(frame) == told' = Append(told, frame) /\ pc' = "sending"

Delta ==
    /\ pc = "pulling" /\ Len(told) < MaxDeltas
    /\ Hand([kind |-> "delta"])
    /\ UNCHANGED <<gen, upstream, span, seen, locked, event, answer, left>>

\* response.completed or response.incomplete: _traced_stream records it,
\* _commit_on_done commits it if it is to be kept, _audit_observed notes it.
StreamDone ==
    /\ pc = "pulling"
    /\ \E terminal \in Terminals :
        /\ seen' = Done(terminal)
        /\ Hand(DoneFrame(Done(terminal)))
    /\ answer' = "terminal"
    /\ span' = Recorded(span, "success", None)
    /\ UNCHANGED <<gen, upstream, locked, event, left>>

\* The commit raises: the two generators below it stay suspended.
CommitFails ==
    /\ pc = "pulling"
    /\ \E terminal \in Terminals :
        TurnCommits(Done(terminal)) /\ event' = NotStored(Done(terminal))
    /\ answer' = "terminal"
    /\ span' = Recorded(span, "success", None)
    /\ gen' = [gen EXCEPT ![Commit] = "done", ![Observe] = "done"]
    /\ locked' = FALSE
    /\ Hand(Refusal("error", "storage_error"))
    /\ UNCHANGED <<upstream, seen, left>>

\* The finally blocks of the chain up to _audit_observed, innermost first.
Unwind(inner) ==
    /\ gen' = [g \in Generators |-> IF g \in inner THEN "done" ELSE gen[g]]
    /\ upstream' = "closed"
    /\ span' = Ended(span)
    /\ locked' = FALSE

\* response.failed, an error event or an exception of the client, or the end of
\* the stream without a terminal.
StreamBreaks ==
    /\ pc = "pulling"
    /\ \E code \in {TranslateUpstreamError(exc) : exc \in SdkErrors}
                       \cup {TranslateFailedEvent(failure) : failure \in FailureCodes} :
        /\ answer' = "failed"
        /\ event' = Failed(code)
        /\ Hand(Refusal("error", code))
    /\ Unwind(Observe .. Translate)
    /\ UNCHANGED <<seen, left>>

EndOfStream ==
    /\ pc = "pulling"
    /\ answer' = "eof"
    /\ event' = Failed("upstream_error")
    /\ Hand(Refusal("error", "upstream_error"))
    /\ Unwind(Observe .. Translate)
    /\ UNCHANGED <<seen, left>>

\* The request is cancelled, the caller having left.  While the provider is
\* awaited the CancelledError unwinds the chain; between two pulls it reaches
\* the response only.
CancelPulling ==
    /\ pc = "pulling" /\ pc' = "over"
    /\ Unwind(Generators)
    /\ event' = Disconnected /\ left' = TRUE
    /\ UNCHANGED <<seen, told, answer>>

CancelSending ==
    /\ pc \in {"opened", "sending"} /\ pc' = "over"
    /\ left' = TRUE
    /\ UNCHANGED <<gen, upstream, span, seen, locked, event, told, answer>>

-----------------------------------------------------------------------------
(* The finalizer of asyncio.                                               *)

\* Nothing that could still pull g is left.
Abandoned(g) ==
    /\ gen[g] \in {"fresh", "live"}
    /\ IF g = Render THEN pc = "over" ELSE gen[g - 1] \in {"done", "dropped"}

ClosingButNotTheStream(g) ==
    /\ event' = IF g # Observe THEN event
                ELSE IF seen = None THEN Disconnected ELSE Succeeded(seen)
    /\ locked' = (locked /\ g # Commit)
    /\ span' = IF g = Trace THEN Ended(span) ELSE span
    /\ UNCHANGED upstream

\* aclose of a suspended generator: GeneratorExit at its yield.
Closing(g) ==
    /\ event' = IF g # Observe THEN event
                ELSE IF seen = None THEN Disconnected ELSE Succeeded(seen)
    /\ locked' = (locked /\ g # Commit)
    /\ span' = IF g = Trace THEN Ended(span) ELSE span
    /\ upstream' = IF g = Translate THEN "closed" ELSE upstream

Finalize ==
    /\ \E g \in Generators :
        /\ Abandoned(g)
        /\ IF gen[g] = "live"
           THEN Closing(g) /\ gen' = [gen EXCEPT ![g] = "done"]
           ELSE gen' = [gen EXCEPT ![g] = "dropped"] /\ UNCHANGED <<event, locked, span, upstream>>
    /\ UNCHANGED <<pc, seen, told, answer, left>>

-----------------------------------------------------------------------------

Serve == CompleteAnswers \/ CompleteFails \/ OpenStream \/ OpenFails \/ Pull
             \/ Delta \/ StreamDone \/ CommitFails \/ StreamBreaks \/ EndOfStream

Next == Serve \/ Finalize \/ CancelComplete \/ CancelOpen \/ CancelPulling \/ CancelSending

Spec == Init /\ [][Next]_vars

-----------------------------------------------------------------------------
(* Properties.                                                             *)

\* An ended span says success exactly if the model finished, whoever closed it
\* and whatever became of the turn afterwards; a call that fails before a
\* stream exists is classified as its audit event is, and a success that was
\* audited is one in the trace.
SpanTellsTheOutcome ==
    /\ ~span.open => (span.outcome = "success" <=> answer = "terminal")
    /\ answer = "failed" /\ gen[Trace] = "none" =>
           span.outcome = event.outcome /\ span.code = event.code
    /\ event # None =>
           (event.outcome = "success" => answer = "terminal" /\ span.outcome = "success")

\* The caller and the audit log are told the same: deltas, then one terminal
\* and nothing after it; every request that was not cancelled gets its
\* terminal; the event names the status or the code that the caller was given,
\* and a caller who left before the terminal is logged as such, in an event
\* that the audit schema accepts.
EventTellsTheEnd ==
    /\ \A n \in 1 .. Len(told) - 1 : told[n].kind = "delta"
    /\ pc = "over" /\ ~left => TerminalSent
    /\ gen[Observe] = "done" => event # None
    /\ event # None =>
           /\ Accepts(event)
           /\ ~TerminalSent => event = Disconnected
           /\ TerminalSent => IF Last(told).kind = "done"
                              THEN event = Succeeded([status |-> Last(told).status,
                                                      reason |-> Last(told).reason])
                              ELSE event.code = Last(told).code

\* The trace, the audit log and the caller are told one story, though each is
\* settled in another frame of the chain (OwnedLlmSpan; _audit_observed;
\* _render_sse, "exactly one terminal event").
OneStory == SpanTellsTheOutcome /\ EventTellsTheEnd

\* The HTTP stream of a provider whose events were asked for is closed in the
\* end, whoever stops first: it "stops the meter" (_translate_stream).
UpstreamIsReleased == gen[Translate] = "live" ~> upstream = "closed"
=============================================================================
