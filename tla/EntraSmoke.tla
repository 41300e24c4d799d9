------------------------------ MODULE EntraSmoke ------------------------------
(***************************************************************************)
(* One run of tools/entra_smoke.py against a deployed service: arguments   *)
(* are screened; a token is asked for, in the phase "full" also a user's   *)
(* by the device code flow; the service is called with it, in the gate     *)
(* over and over until it is up or the deadline is over; every answer is   *)
(* turned into checks; and the list of checks is the evidence and decides  *)
(* the exit code.                                                          *)
(*                                                                         *)
(* A check is what it is about and whether it passed; its wording is left  *)
(* out.  Time is counted in units of five seconds, and passes during       *)
(* requests and sleeps.                                                    *)
(***************************************************************************)
EXTENDS Integers, Sequences, SequencesExt

CONSTANTS
    SmokeRuns,       \* the arguments runs are given
    Tokens,          \* the tokens Entra may issue: what their claims are
    Answers,         \* what the service may answer
    Intervals,       \* of the device code, in units, and
    Lifetimes,       \* its lifetime
    LogJoinAttempts, \* LOG_JOIN_ATTEMPTS
    MaxTook,         \* bound: the units a request takes, and
    MaxOverslept,    \* those a sleep takes more than it was asked for
    NoEvidence       \* there is no file

VARIABLES
    at,        \* the part of main() at hand
    verdict,   \* "running", or the exit code
    flags,     \* the arguments: fixed
    clock,     \* monotonic()
    limit,     \* of the polling: its deadline
    interval,  \* of the device polling: as given, and current_interval
    waiting,   \* the units of the sleep that comes next
    polls,     \* observer: when each poll began
    waits,     \* observer: the sleep in force after each of them
    tokens,    \* those of the run so far, in order
    answers,   \* responses that are not judged yet
    reads,     \* of the log, for the join at hand
    checks,    \* state.checks
    evidence   \* the file of --evidence-out

smokeVars == <<at, verdict, flags, clock, limit, interval, waiting, polls, waits, tokens, answers, reads,
          checks, evidence>>
pollVars == <<clock, limit, interval, waiting, polls, waits>>
callVars == <<tokens, answers, reads>>

NoInterval == [given |-> 0, current |-> 0]

SmokeInit ==
    /\ flags \in SmokeRuns
    /\ at = "screen" /\ verdict = "running"
    /\ clock = 0 /\ limit = 0 /\ interval = NoInterval /\ waiting = 0 /\ polls = <<>> /\ waits = <<>>
    /\ tokens = <<>> /\ answers = <<>> /\ reads = 0
    /\ checks = <<>> /\ evidence = NoEvidence

\* A check has the topics that it decides: a part of the run, or something of
\* the call with one of the credentials.
AllTopics ==
    {<<part>> : part \in {"prerequisite", "gate", "rag", "agent", "no role"}}
    \cup ({"delegated", "app", "id token", "no token"}
             \X {"status", "code", "challenge", "claims", "log line", "role"})
Checks == [about : SUBSET AllTopics, passed : BOOLEAN]

\* Arguments as argparse leaves them; times are counted; and no file is told
\* from every file.
ASSUME SmokeAssumption ==
    /\ SmokeRuns \subseteq [gate : BOOLEAN, phase : {"none", "no-role", "full"}, rag : BOOLEAN, agent : BOOLEAN,
                           log : {"none", "missing", "file"}, secret : BOOLEAN, evidence_out : BOOLEAN,
                           deadline : Nat]
    /\ Intervals \subseteq Nat /\ Lifetimes \subseteq Nat /\ MaxTook \in Nat /\ MaxOverslept \in Nat
    /\ NoEvidence \notin BOOLEAN \X Seq(Checks)

Check(topics, passed) == [about |-> topics, passed |-> passed]
Proceed(step) == at' = step /\ UNCHANGED verdict
Quit(code) == at' = "over" /\ verdict' = code

\* SmokeError, or an error of the network or the file system: what was decided stays.
PrerequisiteFails ==
    /\ Proceed("render")
    /\ checks' = Append(checks, Check({<<"prerequisite">>}, FALSE))
    /\ UNCHANGED callVars

-----------------------------------------------------------------------------
(* Arguments and tokens.                                                   *)

Unusable ==
    \/ flags.gate = (flags.phase # "none")
    \/ ~flags.gate /\ (flags.rag \/ flags.agent)
    \/ flags.phase = "full" /\ flags.log = "none"
    \/ ~flags.secret
    \/ flags.log = "missing"

ScreenArguments ==
    /\ at = "screen"
    /\ IF Unusable THEN Quit("configuration") ELSE Proceed(IF flags.phase = "full" THEN "device" ELSE "acquire")
    /\ UNCHANGED <<flags, pollVars, callVars, checks, evidence>>

RequestDeviceCode ==
    /\ at = "device"
    /\ \/ \E i \in Intervals, lifetime \in Lifetimes :
            /\ interval' = [given |-> i, current |-> i] /\ limit' = clock + lifetime
            /\ Proceed("poll device")
            /\ UNCHANGED <<callVars, checks>>
       \/ PrerequisiteFails /\ UNCHANGED <<interval, limit>>
    /\ UNCHANGED <<flags, clock, waiting, polls, waits, evidence>>

\* slow_down raises the interval for this and all later polls.
Raised(error) == interval.current + (IF error = "slow_down" THEN 1 ELSE 0)
SlowedOnce(error) == interval
Slowed(error) == [interval EXCEPT !.current = Raised(error)]

PollDevice ==
    /\ at = "poll device" /\ clock < limit
    /\ polls' = Append(polls, clock)
    /\ \E took \in 0 .. MaxTook :
        \/ \E error \in {"slow_down", "authorization_pending"} :
            /\ clock' = clock + took /\ waiting' = Raised(error) /\ interval' = Slowed(error)
            /\ waits' = Append(waits, [slowed |-> error = "slow_down", units |-> waiting'])
            /\ Proceed("sleep")
            /\ UNCHANGED <<callVars, checks>>
        \/ \E delegated \in Tokens :
            /\ clock' = clock + took /\ tokens' = <<delegated>>
            /\ Proceed("acquire")
            /\ UNCHANGED <<waits, waiting, interval, answers, reads, checks>>
        \/ PrerequisiteFails /\ UNCHANGED <<clock, waits, waiting, interval>>
    /\ UNCHANGED <<flags, limit, evidence>>

\* sleep() does not return early, and may return late.
Sleep ==
    /\ at = "sleep"
    /\ \E overslept \in 0 .. MaxOverslept : clock' = clock + waiting + overslept
    /\ Proceed(IF flags.gate THEN "gate" ELSE "poll device")
    /\ UNCHANGED <<flags, limit, interval, waiting, polls, waits, callVars, checks, evidence>>

DeviceCodeExpires ==
    /\ at = "poll device" /\ clock >= limit
    /\ PrerequisiteFails
    /\ UNCHANGED <<flags, pollVars, evidence>>

\* From here on the device polling is over and its clock forgotten.
AcquireAppToken ==
    /\ at = "acquire"
    /\ clock' = 0 /\ limit' = 0 /\ interval' = NoInterval /\ waiting' = 0 /\ polls' = <<>> /\ waits' = <<>>
    /\ \/ \E token \in Tokens :
            tokens' = Append(tokens, token) /\ Proceed("names") /\ UNCHANGED <<answers, reads, checks>>
       \/ PrerequisiteFails
    /\ UNCHANGED <<flags, evidence>>

AppToken == tokens[Len(tokens)]

\* claim_keys: of a token that is a JWT with a JSON object.
ClaimKeysFail == \E n \in DOMAIN tokens : ~tokens[n].readable
RoleAbsent(token) == token.roles = "absent"

\* claim_keys of each token; the phase "no-role" judges the names at once.  The
\* base URL is parsed only now.
ReadClaimNames ==
    /\ at = "names"
    /\ \/ /\ ~ClaimKeysFail
          /\ IF flags.gate
             THEN Proceed("gate") /\ limit' = clock + flags.deadline /\ UNCHANGED checks
             ELSE /\ Proceed("call") /\ UNCHANGED limit
                  /\ checks' = IF flags.phase = "no-role"
                               THEN Append(checks, Check({<<"no role">>}, RoleAbsent(AppToken))) ELSE checks
          /\ UNCHANGED callVars
       \/ /\ flags.gate \/ ClaimKeysFail
          /\ PrerequisiteFails /\ UNCHANGED limit
    /\ UNCHANGED <<flags, clock, interval, waiting, polls, waits, evidence>>

-----------------------------------------------------------------------------
(* The gate.                                                               *)

\* _success_body: 200 and a JSON object that has no error.
Successful(answer) == answer.status = 200 /\ answer.content \in {"message", "sources", "other"}

Outcome(answer) ==
    IF answer.status = 200
    THEN IF answer.content = "message" THEN "success" ELSE "terminal"
    ELSE IF answer.status = 429 \/ answer.status >= 500 THEN "retry" ELSE "terminal"

Backoff(attempt) == IF attempt <= 3 THEN <<1, 2, 4>>[attempt] ELSE 6

Asked == (IF flags.rag THEN <<"rag">> ELSE <<>>) \o (IF flags.agent THEN <<"agent">> ELSE <<>>)

\* A failed gate leaves the further checks unevaluated, and says so.
NothingMore == <<>>
NotEvaluated == [n \in DOMAIN Asked |-> Check({<<Asked[n]>>}, FALSE)]

GateFails == Proceed("render") /\ checks' = checks \o <<Check({<<"gate">>}, FALSE)>> \o NotEvaluated

PollGate ==
    /\ at = "gate"
    /\ polls' = Append(polls, clock)
    /\ \E took \in 0 .. MaxTook, outcome \in {Outcome(answer) : answer \in Answers} \cup {"retry"} :
        LET remaining == limit - clock - took
            wait == IF Backoff(Len(polls) + 1) < remaining THEN Backoff(Len(polls) + 1) ELSE remaining
        IN /\ clock' = clock + took
           /\ CASE outcome = "success" ->
                    /\ checks' = Append(checks, Check({<<"gate">>}, TRUE)) /\ Proceed("further")
                    /\ UNCHANGED <<waiting, waits>>
                [] outcome = "retry" /\ remaining > 0 ->
                    /\ waiting' = wait /\ waits' = Append(waits, [slowed |-> FALSE, units |-> wait])
                    /\ Proceed("sleep") /\ UNCHANGED checks
                [] OTHER -> GateFails /\ UNCHANGED <<waiting, waits>>
    /\ UNCHANGED <<flags, limit, interval, callVars, evidence>>

\* --check-rag and --check-agent, one call each.  run_gate_checks keeps its own
\* list until it returns, and loses it when a call raises.
CheckFurther ==
    /\ at = "further"
    /\ LET done == Len(checks) - 1
       IN IF done = Len(Asked) THEN Proceed("render") /\ UNCHANGED <<callVars, checks>>
          ELSE \/ \E answer \in Answers :
                    /\ checks' = Append(checks, Check({<<Asked[done + 1]>>},
                           Successful(answer) /\ (Asked[done + 1] = "rag" => answer.content = "sources")))
                    /\ UNCHANGED <<at, verdict, callVars>>
               \/ /\ Proceed("render") /\ UNCHANGED callVars
                  /\ checks' = <<Check({<<"prerequisite">>}, FALSE)>>
    /\ UNCHANGED <<flags, pollVars, evidence>>

-----------------------------------------------------------------------------
(* The phases.                                                             *)

\* The calls of a phase, in order, and whose claims are compared with the log.
Labels == IF flags.phase = "no-role" THEN <<"app">> ELSE <<"delegated", "app", "id token", "no token">>
Compared == IF flags.phase = "no-role" THEN <<>> ELSE <<"delegated", "app">>

CallService ==
    /\ at = "call" /\ Len(answers) < Len(Labels)
    /\ \/ \E answer \in Answers :
            answers' = Append(answers, answer) /\ UNCHANGED <<at, verdict, tokens, reads, checks>>
       \/ PrerequisiteFails
    /\ UNCHANGED <<flags, pollVars, evidence>>

\* The code of the error envelope, if the answer is one.
ErrorCode(answer) ==
    IF answer.content \in {"unauthorized", "insufficient_scope"} THEN answer.content ELSE "none"

StatusCheck(label, answer, status) == Check({<<label, "status">>}, answer.status = status)
ErrorCodeCheck(label, answer, code) == Check({<<label, "code">>}, ErrorCode(answer) = code)
ChallengeCheck(label, answer, challenge) == Check({<<label, "challenge">>}, answer.challenge = challenge)

\* The three halves of a rejection are three checks.
RejectionChecks(label, answer, expected) ==
    <<StatusCheck(label, answer, expected.status), ErrorCodeCheck(label, answer, expected.content),
      ChallengeCheck(label, answer, expected.challenge)>>

Unauthorized == [status |-> 401, content |-> "unauthorized", challenge |-> "bearer"]
InsufficientScope == [status |-> 403, content |-> "insufficient_scope", challenge |-> "scope"]

JudgeStatus ==
    /\ at = "call" /\ Len(answers) = Len(Labels)
    /\ IF flags.phase = "no-role"
       THEN Proceed("render") /\ checks' = checks \o RejectionChecks("app", answers[1], InsufficientScope)
       ELSE Proceed("compare") /\ checks' = checks \o [n \in 1 .. 2 |->
                StatusCheck(Labels[n], answers[n], 200)]
    /\ reads' = 0
    /\ UNCHANGED <<flags, pollVars, tokens, answers, evidence>>

\* The labels whose claims no check is about yet; they are compared in order.
Uncompared ==
    {n \in DOMAIN Compared : \A k \in DOMAIN checks : <<Compared[n], "log line">> \notin checks[k].about}
Topics(label) == {<<label, "claims">>, <<label, "log line">>} \cup (IF label = "app" THEN {<<label, "role">>} ELSE {})

RoleCheck(label, token) ==
    IF label = "app" THEN <<Check({<<label, "role">>}, token.roles = "configured")>> ELSE <<>>
Compare(label, token, claims, joined) ==
    RoleCheck(label, token) \o <<Check({<<label, "claims">>}, claims), Check({<<label, "log line">>}, joined)>>

\* accepted_token_checks: a token that was not accepted has one failed check;
\* one without ids has nothing to join; else the log is read until the line is
\* there or the attempts are used up.
CompareClaims ==
    /\ at = "compare" /\ Uncompared # {}
    /\ LET label == Compared[Min(Uncompared)]
           n == CHOOSE i \in 1 .. 2 : Labels[i] = label
           Decided(list) == checks' = checks \o list /\ reads' = 0 /\ UNCHANGED <<at, verdict, tokens, answers>>
       IN IF answers[n].status # 200 THEN Decided(<<Check(Topics(label), FALSE)>>)
          ELSE \/ ~tokens[n].ids /\ Decided(Compare(label, tokens[n], FALSE, FALSE))
               \/ tokens[n].ids /\ Decided(Compare(label, tokens[n], TRUE, TRUE))
               \/ /\ tokens[n].ids /\ reads + 1 = LogJoinAttempts
                  /\ Decided(Compare(label, tokens[n], TRUE, FALSE))
               \/ /\ tokens[n].ids /\ reads + 1 < LogJoinAttempts
                  /\ reads' = reads + 1 /\ UNCHANGED <<at, verdict, tokens, answers, checks>>
               \/ PrerequisiteFails
    /\ UNCHANGED <<flags, pollVars, evidence>>

JudgeRejections ==
    /\ at = "compare" /\ Uncompared = {}
    /\ Proceed("render")
    /\ checks' = checks \o RejectionChecks("id token", answers[3], Unauthorized)
                        \o RejectionChecks("no token", answers[4], Unauthorized)
    /\ UNCHANGED <<flags, pollVars, callVars, evidence>>

-----------------------------------------------------------------------------
(* The end.                                                                *)

AllPassed == checks # <<>> /\ \A n \in DOMAIN checks : checks[n].passed

\* The evidence is printed, and written if that was asked for.
Render ==
    /\ at = "render"
    /\ \/ /\ flags.evidence_out
          /\ \E left \in {evidence, <<"partial">>} : evidence' = left
          /\ Quit("fail")
       \/ /\ evidence' = IF flags.evidence_out THEN <<AllPassed, checks>> ELSE evidence
          /\ Quit(IF AllPassed THEN "pass" ELSE "fail")
    /\ UNCHANGED <<flags, pollVars, callVars, checks>>

SmokeNext ==
    \/ ScreenArguments \/ RequestDeviceCode \/ PollDevice \/ Sleep \/ DeviceCodeExpires \/ AcquireAppToken
    \/ ReadClaimNames \/ PollGate \/ CheckFurther \/ CallService \/ JudgeStatus \/ CompareClaims
    \/ JudgeRejections \/ Render

SmokeSpec == SmokeInit /\ [][SmokeNext]_smokeVars

-----------------------------------------------------------------------------
(* Properties.                                                             *)

Rejections(label) == {<<label, "status">>, <<label, "code">>, <<label, "challenge">>}
Required ==
    IF flags.gate THEN {<<"gate">>} \cup {<<Asked[n]>> : n \in DOMAIN Asked}
    ELSE IF flags.phase = "no-role" THEN {<<"no role">>} \cup Rejections("app")
    ELSE {<<"delegated", "status">>, <<"app", "status">>} \cup Topics("delegated") \cup Topics("app")
            \cup Rejections("id token") \cup Rejections("no token")

Covered == UNION {checks[n].about : n \in DOMAIN checks}

(* The list of checks never gets shorter without a word: when a run comes  *)
(* to an end each check of its mode is in the list, once, passed, failed   *)
(* or not evaluated, or a prerequisite that failed says where the list     *)
(* stops; it passes only on a whole list in which everything passed, and   *)
(* only if the evidence that was asked for is in its file and says the     *)
(* same (tools/entra_smoke.py main, run_gate_checks,                       *)
(* accepted_token_checks: "a result, not a silently shorter check list").  *)
NoSilentlyShorterList ==
    /\ at = "render" =>
        /\ Covered \ {<<"prerequisite">>} \subseteq Required
        /\ Covered = Required \/ <<"prerequisite">> \in checks[Len(checks)].about
        /\ \A n, m \in DOMAIN checks : n # m => checks[n].about \cap checks[m].about = {}
    /\ verdict = "pass" =>
        /\ Covered = Required /\ AllPassed
        /\ flags.evidence_out => evidence = <<TRUE, checks>>
    /\ verdict = "fail" /\ AllPassed => flags.evidence_out /\ evidence # <<TRUE, checks>>

(* Polling keeps the peace: the next poll of the token endpoint waits out  *)
(* the interval with everything slow_down has added so far, and none       *)
(* starts once the code has expired.  A poll of the service waits out its  *)
(* backoff, or comes when the deadline is there; that one is the last, and *)
(* is late by no more than a sleep overslept (poll_device_token: RFC 8628  *)
(* section 3.5; poll_chat_gate: "bounds total elapsed time").              *)
SlowDowns(n) == Cardinality({i \in 1 .. n : waits[i].slowed})
PollsBehave ==
    \A n \in DOMAIN polls :
        IF flags.gate
        THEN /\ polls[n] <= limit + MaxOverslept
             /\ polls[n] >= limit => n = Len(polls)
             /\ n > 1 => polls[n] - polls[n - 1] >= Backoff(n - 1) \/ polls[n] >= limit
        ELSE /\ polls[n] < limit
             /\ n > 1 => polls[n] - polls[n - 1] >= interval.given + SlowDowns(n - 1)
=============================================================================
