------------------------------- MODULE Shutdown -------------------------------
(***************************************************************************)
(* The shutdown fan-out of the application (main.py, _close_with_budget):  *)
(* the closers of _LIFESPAN_CLOSERS run one after the other under one      *)
(* shared deadline, whatever happens to the ones before.                   *)
(*                                                                         *)
(* A closer is not one close but several: every composite aclose() closes  *)
(* its clients in nested try/finally blocks, so that each is attempted and *)
(* the last exception is the one that comes out.                           *)
(*                                                                         *)
(* A step runs from one suspension of the shutdown task to the next.  A    *)
(* cancellation, by asyncio.timeout or from outside, reaches the task at   *)
(* the close it is suspended in; two that come before it runs again are    *)
(* delivered as one.  A client that is cancelled gives in: it raises       *)
(* CancelledError, or an error of its own out of its cleanup.              *)
(***************************************************************************)
EXTENDS Naturals, Sequences, FiniteSets, FiniteSetsExt

CONSTANTS
    Clients,     \* Clients[k]: how many clients the k-th closer closes
    Budget,      \* shutdown_cleanup_budget_seconds in ticks
    MaxCancels   \* bound: cancellations of the task from outside

ASSUME ClientsAssumption == Clients \in Seq(Nat \ {0})
ASSUME BudgetAssumption == Budget \in Nat /\ MaxCancels \in Nat

Closers == 1 .. Len(Clients)
Results == {"none", "closed", "CancelledError", "TimeoutError", "Error"}

VARIABLES
    pc,            \* "loop", "closing" or "over"
    closer,        \* the closer whose turn it is, or one past the last
    client,        \* the client it is closing
    left,          \* deadline - time.monotonic(), clamped to 0
    timer,         \* what is left of the running closer's asyncio.timeout
    expired,       \* cm.expired(): that timeout has fired
    cancelling,    \* the task was cancelled from outside since it was entered
    pending,       \* a cancellation is on its way to the client
    raising,       \* the exception in flight through the finally blocks
    cancellation,  \* BOOLEAN: a CancelledError was recorded
    failure,       \* first_exception, as the closer it came from; 0 is None
    verdict,       \* how the task ended: "none", "returned", "raised", "cancelled"
    ended,         \* observer: ended[k][j], what became of each client
    overdue,       \* observer: closers whose timeout had fired when they ended
    disturbed,     \* observer: closers cancelled from outside while they ran
    waited,        \* observer: ticks spent on closers whose timeout had not fired
    cancels        \* cancellations so far

timeoutVars == <<timer, expired, cancelling>>
resultVars == <<cancellation, failure, verdict>>
observers == <<ended, overdue, disturbed, waited>>
vars == <<pc, closer, client, left, timeoutVars, pending, raising, resultVars, observers, cancels>>

TypeOK ==
    /\ pc \in {"loop", "closing", "over"}
    /\ closer \in 1 .. Len(Clients) + 1 /\ client \in Nat \ {0}
    /\ left \in 0 .. Budget /\ timer \in 0 .. Budget
    /\ expired \in BOOLEAN /\ cancelling \in BOOLEAN
    /\ pending \in BOOLEAN /\ cancellation \in BOOLEAN
    /\ raising \in Results \ {"closed"}
    /\ failure \in Closers \cup {0}
    /\ verdict \in {"none", "returned", "raised", "cancelled"}
    /\ DOMAIN ended = Closers
    /\ \A k \in Closers : ended[k] \in [1 .. Clients[k] -> Results]
    /\ overdue \subseteq Closers /\ disturbed \subseteq Closers
    /\ waited \in Nat /\ cancels \in 0 .. MaxCancels
    /\ pc = "closing" => closer \in Closers /\ client <= Clients[closer]

Init ==
    /\ pc = "loop" /\ closer = 1 /\ client = 1
    /\ left = Budget /\ timer = Budget
    /\ expired = FALSE /\ cancelling = FALSE /\ pending = FALSE
    /\ raising = "none"
    /\ cancellation = FALSE /\ failure = 0 /\ verdict = "none"
    /\ ended = [k \in Closers |-> [j \in 1 .. Clients[k] |-> "none"]]
    /\ overdue = {} /\ disturbed = {} /\ waited = 0 /\ cancels = 0

-----------------------------------------------------------------------------
(* The loop.                                                               *)

\* The next closer gets what is left of the shared budget, be it nothing.
Enter ==
    /\ pc = "loop" /\ closer \in Closers
    /\ pc' = "closing" /\ client' = 1
    /\ timer' = left /\ expired' = FALSE /\ cancelling' = FALSE
    /\ raising' = "none"
    /\ UNCHANGED <<closer, left, pending, resultVars, observers, cancels>>

\* asyncio.timeout turns a CancelledError into TimeoutError when it is the
\* only one that cancelled the task; any other exception passes through it.
Outgoing(exc) ==
    IF exc = "CancelledError" /\ expired /\ ~cancelling THEN "TimeoutError" ELSE exc

\* asyncio.wait_for: every TimeoutError is taken for the budget's.
IsFailureForWaitFor(exc) == exc = "Error"

\* A budget that fires is logged and nothing more; a TimeoutError of the
\* closer's own before that is a failure like any other.
IsFailure(exc) ==
    \/ exc = "Error"
    \/ exc = "TimeoutError" /\ ~expired

\* The handlers around one closer, with the exception that came out of it.
Settle(exc) ==
    /\ cancellation' = (cancellation \/ Outgoing(exc) = "CancelledError")
    /\ failure' = IF failure = 0 /\ IsFailure(Outgoing(exc)) THEN closer ELSE failure
    /\ overdue' = IF expired THEN overdue \cup {closer} ELSE overdue
    /\ pc' = "loop" /\ closer' = closer + 1
    /\ UNCHANGED client

\* The composite closers await one close after the other, with no finally.
ProceedWithoutFinally(exc) ==
    IF client < Clients[closer] /\ exc = "none"
    THEN /\ client' = client + 1
         /\ UNCHANGED <<pc, closer, cancellation, failure, overdue>>
    ELSE Settle(exc)

\* Nested try/finally: the next client is closed whatever became of this one,
\* and the last exception is the one that leaves the closer.
Proceed(exc) ==
    IF client < Clients[closer]
    THEN /\ client' = client + 1
         /\ UNCHANGED <<pc, closer, cancellation, failure, overdue>>
    ELSE Settle(exc)

\* A cancellation that came late is left for the next closer's await.
\* The running client's close ends with this result.
ClientEnds(result) ==
    LET exc == IF result = "closed" THEN raising ELSE result
    IN /\ ended' = [ended EXCEPT ![closer][client] = result]
       /\ raising' = exc
       /\ pending' = FALSE
       /\ Proceed(exc)
       /\ UNCHANGED <<left, timeoutVars, verdict, disturbed, waited, cancels>>

\* A close that nobody interrupted returns or raises.
Closes ==
    /\ pc = "closing" /\ ~pending
    /\ \E result \in {"closed", "TimeoutError", "Error"} : ClientEnds(result)

\* A close that is cancelled gives in.
GivesIn ==
    /\ pc = "closing" /\ pending
    /\ \E result \in {"CancelledError", "TimeoutError", "Error"} : ClientEnds(result)

\* After the last closer: a recorded cancellation is raised ahead of the first
\* failure.
Finish ==
    /\ pc = "loop" /\ closer \notin Closers
    /\ pc' = "over"
    /\ verdict' = IF cancellation THEN "cancelled"
                  ELSE IF failure # 0 THEN "raised" ELSE "returned"
    /\ UNCHANGED <<closer, client, left, timeoutVars, pending, raising,
                   cancellation, failure, observers, cancels>>

-----------------------------------------------------------------------------
(* The clock and the callers.                                              *)

Tick ==
    /\ pc = "closing" /\ timer > 0
    /\ timer' = timer - 1
    /\ left' = IF left > 0 THEN left - 1 ELSE 0
    /\ waited' = waited + 1
    /\ UNCHANGED <<pc, closer, client, expired, cancelling, pending, raising, resultVars,
                   ended, overdue, disturbed, cancels>>

\* An exhausted budget is not handed to asyncio.timeout: no timer is set.
BudgetExpiresUnlessSpent ==
    /\ pc = "closing" /\ timer = 0 /\ ~expired /\ overdue = {}
    /\ expired' = TRUE /\ pending' = TRUE
    /\ UNCHANGED <<pc, closer, client, left, timer, cancelling, raising, resultVars,
                   observers, cancels>>

\* A timeout fires once: it cancels the task.
BudgetExpires ==
    /\ pc = "closing" /\ timer = 0 /\ ~expired
    /\ expired' = TRUE /\ pending' = TRUE
    /\ UNCHANGED <<pc, closer, client, left, timer, cancelling, raising, resultVars,
                   observers, cancels>>

\* Somebody else cancels the task while it is suspended in a close.
Cancel ==
    /\ pc = "closing" /\ cancels < MaxCancels
    /\ cancelling' = TRUE /\ pending' = TRUE
    /\ cancels' = cancels + 1
    /\ disturbed' = disturbed \cup {closer}
    /\ UNCHANGED <<pc, closer, client, left, timer, expired, raising, resultVars,
                   ended, overdue, waited>>

\* The task has ended.
Over == pc = "over" /\ UNCHANGED vars

Next == Enter \/ Closes \/ GivesIn \/ Finish \/ Tick \/ BudgetExpires \/ Cancel \/ Over

Spec == Init /\ [][Next]_vars

\* The event loop runs what is ready and its timers fire; nothing obliges a
\* close that was not cancelled to end.
LoopFairness == /\ WF_vars(Enter) /\ WF_vars(GivesIn) /\ WF_vars(Finish)
                /\ WF_vars(Tick) /\ WF_vars(BudgetExpires)

HangingSpec == Spec /\ LoopFairness

\* Any close may hang, save one that begins when its closer's budget is gone:
\* no timer will interrupt that one.
FairSpec == HangingSpec /\ WF_vars(expired /\ Closes)

-----------------------------------------------------------------------------
(* Properties.                                                             *)

\* Every client of every closer is attempted, in the fixed order, whatever
\* failed, timed out or was cancelled before it: nothing is stranded.
EveryClientAttempted ==
    \A k \in Closers : \A j \in 1 .. Clients[k] :
        (ended[k][j] # "none") <=> \/ k < closer
                                   \/ k = closer /\ pc = "closing" /\ j < client

\* What the nested finally blocks let out: the trouble of the last client that
\* had any.
LastTrouble(results) ==
    LET troubled == {j \in DOMAIN results : results[j] # "closed"}
    IN IF troubled = {} THEN "none" ELSE results[Max(troubled)]

\* What came out of a closer that is through.
CameOutOf(k) == LastTrouble(ended[k])

\* The closers that failed for a reason of their own.
Failed == {k \in Closers : \/ CameOutOf(k) = "Error"
                           \/ CameOutOf(k) = "TimeoutError" /\ k \notin overdue}

\* The closers a cancellation from outside came out of.
WereCancelled == {k \in disturbed : CameOutOf(k) = "CancelledError"}

\* The task's end tells the truth about all its closers: cancelled when a
\* cancellation came out of any of them, else the failure of the first that
\* failed, and a normal return only when nothing but the budget went wrong.
ResultIsTrue ==
    pc = "over" =>
        /\ (verdict = "cancelled") <=> (WereCancelled # {})
        /\ (verdict = "raised") => failure = Min(Failed)
        /\ (verdict = "returned") => Failed = {}

\* The budget is one for all closers: the time spent waiting for closers that
\* were not yet timed out never adds up to more than it.
BudgetIsShared == waited <= Budget

\* The shutdown is over some time, though any number of clients hang (main.py:
\* the shared deadline caps the whole function).
ShutdownEnds == <>(pc = "over")
=============================================================================
