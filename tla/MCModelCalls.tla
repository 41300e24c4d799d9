---------------------------- MODULE MCModelCalls ----------------------------
(* The two ways a request reaches the model, for TLC in one instance: a run  *)
(* of the agent, or one call of the chat adapter, streamed or not.  They     *)
(* share no state; a behaviour is one of them, and the other does nothing.   *)
EXTENDS AgentRun

CONSTANTS MaxDeltas, None

VARIABLES callPc, gen, upstream, span, seen, locked, event, told, answer, left

Call == INSTANCE ProviderStream WITH pc <- callPc

\* What a call of the model ends with, and what the audit log gets of it; None
\* is no such thing.
Dones == {Call!Done(terminal) : terminal \in Call!Terminals}
Codes == Call!RejectedCodes \cup Call!ErrorCodes
CallEvents == {Call!Disconnected} \cup {Call!Succeeded(done) : done \in Dones}
                  \cup {Call!Failed(code) : code \in Codes} \cup {Call!NotStored(done) : done \in Dones}

ASSUME NoneAssumption ==
    /\ None \notin {"success", "rejected", "error", "completed", "incomplete"}
    /\ None \notin Dones /\ None \notin CallEvents

callVars == <<callPc, gen, upstream, span, seen, locked, event, told, answer, left>>
allVars == <<vars, callVars>>

NoRun ==
    /\ pc = "over" /\ transcript = <<>> /\ admitted = 0 /\ refused = 0
    /\ running = {} /\ executions = <<>> /\ report = NoReport
NoCall ==
    /\ callPc = "over" /\ gen = [g \in Call!Generators |-> "none"] /\ upstream = "none"
    /\ span = [open |-> TRUE, outcome |-> None, code |-> None]
    /\ seen = None /\ locked = FALSE /\ event = None /\ told = <<>> /\ answer = "none" /\ left = TRUE

CallsInit == (Init /\ NoCall) \/ (NoRun /\ Call!Init)

CallsNext ==
    \/ Next /\ UNCHANGED callVars
    \/ Call!Next /\ UNCHANGED vars

\* The client times out on a provider that is silent, a frame is sent or the
\* caller is gone, and the event loop runs the finalizers.
FairCalls ==
    /\ CallsInit /\ [][CallsNext]_allVars
    /\ WF_allVars(Call!Serve /\ UNCHANGED vars)
    /\ WF_allVars(Call!Finalize /\ UNCHANGED vars)

-----------------------------------------------------------------------------
(* The properties of the instance, under their names.                        *)

(* ProviderStream!OneStory (services/azure_openai.py, api/streaming.py).     *)
OneStory == Call!OneStory

(* ProviderStream!UpstreamIsReleased (services/azure_openai.py               *)
(* _translate_stream).                                                       *)
UpstreamIsReleased == Call!UpstreamIsReleased
=============================================================================
