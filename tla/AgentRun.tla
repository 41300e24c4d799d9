------------------------------- MODULE AgentRun -------------------------------
(***************************************************************************)
(* One run of the agent (services/agent_framework.py): the tools wrapped   *)
(* with the run's AdmissionState, and the report derived from the          *)
(* transcript and from the wrappers' records when the loop is over.        *)
(*                                                                         *)
(* The loop itself is the framework's.  As the adapter configures it and   *)
(* its tests pin it: a response asks for a batch of calls or answers; the  *)
(* calls of a batch run side by side and all end before the next response; *)
(* after a batch that reaches max_function_calls, or after max_iterations  *)
(* responses, one more response is forced that can only answer.  A call    *)
(* whose arguments do not parse is answered by the framework and never     *)
(* reaches a wrapper.                                                      *)
(*                                                                         *)
(* A step runs from one suspension to the next, so admission, whose lock   *)
(* is never held across one, is a single step.                             *)
(***************************************************************************)
EXTENDS Naturals, Sequences, FiniteSets, SequencesExt

CONSTANTS
    Tools,          \* names of the tools
    MaxIterations,  \* agent_max_iterations
    MaxToolCalls,   \* agent_max_tool_calls
    MaxBatch        \* bound: calls the model asks for in one response

ASSUME LimitsAssumption == /\ MaxIterations \in Nat \ {0}
                           /\ MaxToolCalls \in Nat \ {0}
                           /\ MaxBatch \in Nat

VARIABLES
    pc,          \* "calling", "tools", "forced" or "over"
    transcript,  \* per assistant message, its calls: a name and a result
    admitted,    \* AdmissionState.admitted
    refused,     \* AdmissionState.refused
    running,     \* the calls whose body has started and not ended
    executions,  \* ToolExecution records; `call` is the call they belong to
    report       \* what run() gave its caller

vars == <<pc, transcript, admitted, refused, running, executions, report>>

Round == Len(transcript)
Batches == UNION {[1 .. n -> [tool : Tools, parses : BOOLEAN]] : n \in 1 .. MaxBatch}

NoReport == [kind |-> "none"]

Init ==
    /\ pc = "calling" /\ transcript = <<>>
    /\ admitted = 0 /\ refused = 0
    /\ running = {} /\ executions = <<>>
    /\ report = NoReport

-----------------------------------------------------------------------------
(* The report.                                                             *)

\* All tool calls of the transcript in message order, each with its round.
ToolCalls ==
    FlattenSeq([r \in 1 .. Round |->
        [i \in 1 .. Len(transcript[r]) |->
            [tool |-> transcript[r][i].tool, round |-> r, result |-> transcript[r][i].result]]])

JoinablePrefix(records) ==
    \A i \in 1 .. Len(records) :
        i <= Len(ToolCalls) => records[i].tool = ToolCalls[i].tool

\* _join_snapshot_executions: the two sequences have the same length and the
\* same names.
Joinable(records) ==
    /\ Len(records) = Len(ToolCalls)
    /\ \A i \in 1 .. Len(records) : records[i].tool = ToolCalls[i].tool

\* The round each record is attributed to; 0 where none is claimed.
JoinedRounds(records) ==
    [i \in 1 .. Len(records) |->
        IF Joinable(records) /\ i <= Len(ToolCalls) THEN ToolCalls[i].round ELSE 0]

Executed(records) == Cardinality({i \in DOMAIN records : records[i].executed})

LimitReasonsLate(calls, executed) ==
    (IF calls > MaxIterations + 1 THEN {"iteration_limit"} ELSE {}) \cup
    (IF refused > 0 \/ executed >= MaxToolCalls THEN {"function_call_limit"} ELSE {})

\* derive_stop: every limit that fired.
LimitReasons(calls, executed) ==
    (IF calls >= MaxIterations + 1 THEN {"iteration_limit"} ELSE {}) \cup
    (IF refused > 0 \/ executed >= MaxToolCalls THEN {"function_call_limit"} ELSE {})

\* derive_stop: the single label, iteration_limit first.
StopReason(reasons) ==
    IF "iteration_limit" \in reasons THEN "iteration_limit"
    ELSE IF "function_call_limit" \in reasons THEN "function_call_limit"
    ELSE "natural"

\* The framework has returned: run() derives its result.
Returns ==
    LET reasons == LimitReasons(Round + 1, Executed(executions))
    IN /\ pc' = "over"
       /\ transcript' = Append(transcript, <<>>)
       /\ report' = [kind |-> "result", forced |-> pc = "forced",
                     stop |-> StopReason(reasons), limits |-> reasons,
                     calls |-> ToolCalls, executed |-> Executed(executions),
                     refused |-> refused, rounds |-> JoinedRounds(executions)]
       /\ UNCHANGED <<admitted, refused, running, executions>>

-----------------------------------------------------------------------------
(* The framework's loop.                                                   *)

\* The model answers.
Answer == pc \in {"calling", "forced"} /\ Returns

\* The model asks for a batch of calls.
Ask ==
    /\ pc = "calling"
    /\ \E batch \in Batches :
        transcript' = Append(transcript,
            [i \in DOMAIN batch |-> [tool |-> batch[i].tool, parses |-> batch[i].parses,
                                     result |-> "none"]])
    /\ pc' = "tools"
    /\ UNCHANGED <<admitted, refused, running, executions, report>>

\* The calls of the current batch that have no result and do not run.
Waiting == {i \in 1 .. Len(transcript[Round]) :
              /\ transcript[Round][i].result = "none"
              /\ <<Round, i>> \notin running}

Record(i, executed) ==
    [tool |-> transcript[Round][i].tool, executed |-> executed, call |-> <<Round, i>>]

\* A call whose arguments do not parse is answered with an error.
Reject ==
    /\ pc = "tools"
    /\ \E i \in Waiting :
        /\ ~transcript[Round][i].parses
        /\ transcript' = [transcript EXCEPT ![Round][i].result = "error"]
    /\ UNCHANGED <<pc, admitted, refused, running, executions, report>>

\* The batch is complete: the next response, forced when a limit is reached.
\* The framework counts the calls that were dispatched, refused ones included.
NextResponse ==
    /\ pc = "tools"
    /\ \A i \in 1 .. Len(transcript[Round]) : transcript[Round][i].result # "none"
    /\ pc' = IF Round >= MaxIterations \/ Len(executions) >= MaxToolCalls
             THEN "forced" ELSE "calling"
    /\ UNCHANGED <<transcript, admitted, refused, running, executions, report>>

-----------------------------------------------------------------------------
(* The wrapped tools.                                                      *)

\* try_admit grants a slot: the body starts.
Admit ==
    /\ pc = "tools" /\ admitted < MaxToolCalls
    /\ \E i \in Waiting :
        /\ transcript[Round][i].parses
        /\ running' = running \cup {<<Round, i>>}
    /\ admitted' = admitted + 1
    /\ UNCHANGED <<pc, transcript, refused, executions, report>>

\* try_admit finds no slot: the call is recorded and answered with the refusal.
Refuse ==
    /\ pc = "tools" /\ admitted >= MaxToolCalls
    /\ \E i \in Waiting :
        /\ transcript[Round][i].parses
        /\ transcript' = [transcript EXCEPT ![Round][i].result = "refusal"]
        /\ executions' = Append(executions, Record(i, FALSE))
    /\ refused' = refused + 1
    /\ UNCHANGED <<pc, admitted, running, report>>

CompleteReleasing ==
    /\ pc = "tools"
    /\ \E i \in 1 .. Len(transcript[Round]), result \in {"text", "error"} :
        /\ <<Round, i>> \in running
        /\ running' = running \ {<<Round, i>>}
        /\ transcript' = [transcript EXCEPT ![Round][i].result = result]
        /\ executions' = Append(executions, Record(i, TRUE))
        /\ admitted' = IF result = "error" THEN admitted - 1 ELSE admitted
    /\ UNCHANGED <<pc, refused, report>>

\* A body returns or raises: its finally records it either way, and the slot
\* is not released.
Complete ==
    /\ pc = "tools"
    /\ \E i \in 1 .. Len(transcript[Round]), result \in {"text", "error"} :
        /\ <<Round, i>> \in running
        /\ running' = running \ {<<Round, i>>}
        /\ transcript' = [transcript EXCEPT ![Round][i].result = result]
        /\ executions' = Append(executions, Record(i, TRUE))
    /\ UNCHANGED <<pc, admitted, refused, report>>

-----------------------------------------------------------------------------
(* Failures.                                                               *)

\* The provider or the framework fails between batches: AgentRunError, with
\* every record and no round, count or stop.
Fail ==
    /\ pc \in {"calling", "forced"}
    /\ pc' = "over"
    /\ report' = [kind |-> "error", executed |-> Executed(executions),
                  rounds |-> [i \in 1 .. Len(executions) |-> 0]]
    /\ UNCHANGED <<transcript, admitted, refused, running, executions>>

\* The caller goes away: the bodies that run are cancelled, each records itself
\* in its finally, in any order, and the summary counts them.
Cancel ==
    /\ pc # "over"
    /\ pc' = "over"
    /\ \E order \in SetToSeqs(running) :
        executions' = executions \o [n \in DOMAIN order |-> Record(order[n][2], TRUE)]
    /\ running' = {}
    /\ report' = [kind |-> "cancelled", executed |-> Executed(executions')]
    /\ UNCHANGED <<transcript, admitted, refused>>

Next == Answer \/ Ask \/ Reject \/ NextResponse \/ Admit \/ Refuse \/ Complete \/ Fail \/ Cancel

Spec == Init /\ [][Next]_vars

-----------------------------------------------------------------------------
(* Properties.                                                             *)

Results == {"none", "text", "error", "refusal"}
Messages == Seq([tool : Tools, parses : BOOLEAN, result : Results])
Records == [tool : Tools, executed : BOOLEAN, call : Nat \X Nat]

\* call is the call in place i of the transcript's r-th message.
IsCall(call) == \E r \in 1 .. Round : \E i \in 1 .. Len(transcript[r]) : call = <<r, i>>

TypeOK ==
    /\ pc \in {"calling", "tools", "forced", "over"}
    /\ transcript \in Seq(Messages)
    /\ pc \in {"tools", "forced"} => Round > 0
    /\ admitted \in 0 .. MaxToolCalls
    /\ refused \in Nat
    /\ \A call \in running : IsCall(call)
    /\ executions \in Seq(Records)
    /\ \A n \in 1 .. Len(executions) : IsCall(executions[n].call)
    /\ report.kind \in {"none", "result", "error", "cancelled"}
    /\ report.kind # "none" <=> pc = "over"

StartedBodies == running \cup {e.call : e \in {x \in Range(executions) : x.executed}}

\* However calls are batched, fail or are cancelled.
HardBound == Cardinality(StartedBodies) <= MaxToolCalls

\* One record per call, and records that agree with the counters.
EveryCallRecorded ==
    pc = "over" =>
        /\ \A i, j \in 1 .. Len(executions) :
               executions[i].call = executions[j].call => i = j
        /\ admitted = Executed(executions)
        /\ refused = Len(executions) - Executed(executions)

\* At most MaxToolCalls bodies ever start in a run (agent_framework.py:218: a
\* slot is never released), and when it is over every call that reached a
\* wrapper has exactly one record, and no record is of a call that did not: the
\* sink loses neither failing nor cancelled bodies, nor refusals.
EveryCallAccountedFor == HardBound /\ EveryCallRecorded

\* A round that a record is attributed to is the round of its own call, though
\* records are kept in the order bodies end and calls in the order they were
\* asked for.
RoundsAreTrue ==
    report.kind = "result" =>
        \A i \in 1 .. Len(executions) : report.rounds[i] \in {0, executions[i].call[1]}

\* A response the framework forced is never reported as a natural stop
\* (derive_stop), as long as every call reaches a wrapper.
ForcedFinalNeverNatural ==
    report.kind = "result" /\ report.forced => report.stop # "natural"

=============================================================================
