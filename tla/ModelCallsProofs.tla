--------------------------- MODULE ModelCallsProofs ---------------------------
(***************************************************************************)
(* Proofs about the two ways a request reaches the model: AgentRun, for    *)
(* any tools and any limits, and ProviderStream, for streams of any        *)
(* length.                                                                 *)
(***************************************************************************)
EXTENDS MCModelCalls, FiniteSetTheorems, SequenceTheorems, WellFoundedInduction, TLAPS

-----------------------------------------------------------------------------
(* The inductive invariant.                                                *)

ResultOf(call) == transcript[call[1]][call[2]].result

\* A body that runs belongs to a call of the batch at hand, and the batch is
\* over only when none runs.
RunningIsCurrent ==
    /\ \A call \in running : call[1] = Round /\ ResultOf(call) = "none"
    /\ pc \in {"calling", "forced"} => running = {}
    /\ pc = "over" => running = {}

\* A call has a record or a running body, never both, and one record at most.
RecordsAreDistinct ==
    /\ \A n \in 1 .. Len(executions) : executions[n].call \notin running
    /\ pc # "over" => \A n \in 1 .. Len(executions) : ResultOf(executions[n].call) # "none"
    /\ \A m, n \in 1 .. Len(executions) : executions[m].call = executions[n].call => m = n

\* The counters of AdmissionState count what the sink and the bodies show.
CountersAreTrue ==
    /\ IsFiniteSet(running)
    /\ admitted = Cardinality(running) + Executed(executions)
    /\ refused = Len(executions) - Executed(executions)

StartsAreAdmitted ==
    /\ IsFiniteSet(StartedBodies)
    /\ Cardinality(StartedBodies) <= admitted

\* Why a response was forced.
ForcedHasReason ==
    /\ pc = "forced" => Round >= MaxIterations \/ Len(executions) >= MaxToolCalls

Inv == /\ TypeOK /\ RunningIsCurrent /\ RecordsAreDistinct /\ CountersAreTrue
       /\ StartsAreAdmitted /\ ForcedHasReason /\ ForcedFinalNeverNatural

-----------------------------------------------------------------------------
(* The transcript.                                                         *)

LEMMA Rows ==
    ASSUME TypeOK, NEW r \in 1 .. Round
    PROVE  /\ Round \in Nat /\ transcript[r] \in Messages /\ Len(transcript[r]) \in Nat
           /\ \A i \in 1 .. Len(transcript[r]) :
                  transcript[r][i] \in [tool : Tools, parses : BOOLEAN, result : Results]
<1>1. Round \in Nat
  BY LenProperties DEF TypeOK, Round
<1>2. transcript[r] \in Messages
  BY <1>1, ElementOfSeq DEF TypeOK, Round
<1>3. Len(transcript[r]) \in Nat
  BY <1>2, LenProperties DEF Messages
<1>4. \A i \in 1 .. Len(transcript[r]) :
          transcript[r][i] \in [tool : Tools, parses : BOOLEAN, result : Results]
  BY <1>2, <1>3, ElementOfSeq DEF Messages
<1> QED
  BY <1>1, <1>2, <1>3, <1>4

\* Answering one call leaves all others, and the shape of the transcript, alone.
LEMMA OneResult ==
    ASSUME TypeOK, NEW r \in 1 .. Round, NEW i \in 1 .. Len(transcript[r]),
           NEW result \in Results,
           transcript' = [transcript EXCEPT ![r][i].result = result]
    PROVE  /\ transcript' \in Seq(Messages) /\ Round' = Round
           /\ \A call : IsCall(call)' = IsCall(call)
           /\ ResultOf(<<r, i>>)' = result
           /\ \A call : IsCall(call) /\ call # <<r, i>> => ResultOf(call)' = ResultOf(call)
<1> DEFINE row == [transcript[r] EXCEPT ![i].result = result]
<1>1. /\ Round \in Nat /\ transcript[r] \in Messages /\ Len(transcript[r]) \in Nat
      /\ transcript[r][i] \in [tool : Tools, parses : BOOLEAN, result : Results]
  BY Rows
<1>2. [transcript[r][i] EXCEPT !.result = result] \in
          [tool : Tools, parses : BOOLEAN, result : Results]
  BY <1>1
<1>3. row = [transcript[r] EXCEPT ![i] = [transcript[r][i] EXCEPT !.result = result]]
  OBVIOUS
<1>4. /\ row \in Messages /\ Len(row) = Len(transcript[r])
      /\ row[i] = [transcript[r][i] EXCEPT !.result = result]
      /\ \A j \in 1 .. Len(transcript[r]) : j # i => row[j] = transcript[r][j]
  BY <1>1, <1>2, <1>3, ExceptSeq DEF Messages
<1>5. transcript' = [transcript EXCEPT ![r] = row]
  OBVIOUS
<1> HIDE DEF row
<1>6. /\ transcript' \in Seq(Messages) /\ Len(transcript') = Len(transcript)
      /\ transcript'[r] = row
      /\ \A q \in 1 .. Round : q # r => transcript'[q] = transcript[q]
  <2>1. transcript \in Seq(Messages) /\ r \in 1 .. Len(transcript)
    BY DEF TypeOK, Round
  <2>2. row \in Messages
    BY <1>4
  <2>3. /\ [transcript EXCEPT ![r] = row] \in Seq(Messages)
        /\ Len([transcript EXCEPT ![r] = row]) = Len(transcript)
        /\ \A q \in 1 .. Len(transcript) :
               [transcript EXCEPT ![r] = row][q] = IF q = r THEN row ELSE transcript[q]
    BY <2>1, <2>2, ExceptSeq
  <2> QED
    BY <1>5, <2>1, <2>3 DEF Round
<1>7. transcript'[r][i].result = result
  BY <1>1, <1>4, <1>6
<1>8. \A q \in 1 .. Round : Len(transcript'[q]) = Len(transcript[q])
  BY <1>4, <1>6
<1>9. \A q \in 1 .. Round : \A j \in 1 .. Len(transcript[q]) :
          <<q, j>> # <<r, i>> => transcript'[q][j] = transcript[q][j]
  BY <1>4, <1>6
<1>10. Round' = Round
  BY <1>6 DEF Round
<1>11. \A call : IsCall(call)' = IsCall(call)
  BY <1>8, <1>10 DEF IsCall
<1>12. ASSUME NEW call, IsCall(call), call # <<r, i>>
       PROVE  ResultOf(call)' = ResultOf(call)
  <2>1. PICK q \in 1 .. Round : \E j \in 1 .. Len(transcript[q]) : call = <<q, j>>
    BY <1>12 DEF IsCall
  <2>2. PICK j \in 1 .. Len(transcript[q]) : call = <<q, j>>
    BY <2>1
  <2>3. transcript'[q][j] = transcript[q][j]
    BY <1>9, <1>12, <2>2
  <2> QED
    BY <2>2, <2>3 DEF ResultOf
<1>13. ResultOf(<<r, i>>)' = result
  BY <1>7 DEF ResultOf
<1> QED
  BY <1>6, <1>10, <1>11, <1>12, <1>13

-----------------------------------------------------------------------------
(* The records.                                                            *)

LEMMA ExecutedIsCount ==
    ASSUME NEW R, NEW records \in Seq(R)
    PROVE  /\ IsFiniteSet({n \in DOMAIN records : records[n].executed})
           /\ Executed(records) \in Nat
           /\ Executed(records) <= Len(records)
<1>1. Len(records) \in Nat /\ DOMAIN records = 1 .. Len(records)
  BY LenProperties
<1>2. IsFiniteSet(1 .. Len(records)) /\ Cardinality(1 .. Len(records)) = Len(records)
  BY <1>1, FS_Interval
<1>3. {n \in DOMAIN records : records[n].executed} \in SUBSET (1 .. Len(records))
  BY <1>1
<1> QED
  BY <1>2, <1>3, FS_Subset, FS_CardinalityType DEF Executed

LEMMA OneRecordMore ==
    ASSUME NEW R, NEW records \in Seq(R), NEW record \in R, record.executed \in BOOLEAN
    PROVE  Executed(Append(records, record)) =
               Executed(records) + IF record.executed THEN 1 ELSE 0
<1> DEFINE S == {n \in DOMAIN records : records[n].executed}
           more == Append(records, record)
           T == {n \in DOMAIN more : more[n].executed}
<1>1. /\ Len(records) \in Nat /\ DOMAIN records = 1 .. Len(records)
      /\ DOMAIN more = 1 .. Len(records) + 1
      /\ \A n \in 1 .. Len(records) : more[n] = records[n]
      /\ more[Len(records) + 1] = record
  BY LenProperties, AppendProperties
<1>2. IsFiniteSet(S) /\ Cardinality(S) \in Nat
  BY ExecutedIsCount, FS_CardinalityType
<1>3. Len(records) + 1 \notin S
  BY <1>1
<1>6. Executed(records) = Cardinality(S) /\ Executed(more) = Cardinality(T)
  BY DEF Executed
<1>4. CASE record.executed
  <2>1. T = S \cup {Len(records) + 1}
    BY <1>1, <1>4
  <2>2. Cardinality(T) = Cardinality(S) + 1
    BY <1>2, <1>3, <2>1, FS_AddElement
  <2>3. Executed(more) = Executed(records) + 1
    BY <1>6, <2>2
  <2> HIDE DEF S, T
  <2> QED
    BY <1>4, <2>3
<1>5. CASE ~record.executed
  <2>1. T = S
    BY <1>1, <1>5
  <2>2. Cardinality(S) + 0 = Cardinality(S)
    BY <1>2
  <2>3. Executed(more) = Executed(records) + 0
    BY <1>6, <2>1, <2>2
  <2> HIDE DEF S, T
  <2> QED
    BY <1>5, <2>3
<1> QED
  BY <1>4, <1>5, Zenon

LEMMA ManyRecordsMore ==
    ASSUME NEW R, NEW records \in Seq(R), NEW others \in Seq(R),
           \A n \in 1 .. Len(others) : others[n].executed = TRUE
    PROVE  Executed(records \o others) = Executed(records) + Len(others)
<1> DEFINE S == {n \in DOMAIN records : records[n].executed}
           all == records \o others
           T == {n \in DOMAIN all : all[n].executed}
           new == Len(records) + 1 .. Len(records) + Len(others)
<1>1. /\ Len(records) \in Nat /\ DOMAIN records = 1 .. Len(records) /\ Len(others) \in Nat
      /\ DOMAIN all = 1 .. Len(records) + Len(others)
      /\ \A n \in 1 .. Len(records) : all[n] = records[n]
      /\ \A n \in new : all[n] = others[n - Len(records)]
  BY LenProperties, ConcatProperties
<1>2. T = S \cup new
  <2>1. \A n \in new : n - Len(records) \in 1 .. Len(others)
    BY <1>1
  <2>2. \A n \in new : all[n].executed
    BY <1>1, <2>1
  <2>3. DOMAIN all = (1 .. Len(records)) \cup new
    BY <1>1
  <2> QED
    BY <1>1, <2>2, <2>3
<1>3. S \cap new = {}
  BY <1>1
<1>4. IsFiniteSet(S) /\ Cardinality(S) \in Nat
  BY ExecutedIsCount, FS_CardinalityType
<1>5. IsFiniteSet(new) /\ Cardinality(new) = Len(others)
  <2>1. Len(records) + 1 \in Int /\ Len(records) + Len(others) \in Int
    BY <1>1
  <2>2. \A a, b \in Int : /\ IsFiniteSet(a .. b)
                          /\ Cardinality(a .. b) = IF a > b THEN 0 ELSE b - a + 1
    BY FS_Interval
  <2>3. PICK a \in Nat, b \in Nat : a = Len(records) /\ b = Len(others)
    BY <1>1
  <2>4. a + 1 \in Int /\ a + b \in Int
    OBVIOUS
  <2>5. Cardinality(a + 1 .. a + b) = IF a + 1 > a + b THEN 0 ELSE a + b - (a + 1) + 1
    BY <2>2, <2>4
  <2>6. Cardinality(a + 1 .. a + b) = b /\ IsFiniteSet(a + 1 .. a + b)
    BY <2>2, <2>4, <2>5
  <2> QED
    BY <2>3, <2>6
<1>6. Cardinality(T) = Cardinality(S) + Cardinality(new) - Cardinality(S \cap new)
  BY <1>2, <1>4, <1>5, FS_Union
<1>7. Cardinality(S \cap new) = 0
  BY <1>3, FS_EmptySet
<1>8. Executed(records) = Cardinality(S) /\ Executed(all) = Cardinality(T)
  BY DEF Executed
<1> HIDE DEF S, T, all, new
<1>9. Executed(all) = Executed(records) + Len(others)
  BY <1>1, <1>4, <1>5, <1>6, <1>7, <1>8
<1> QED
  BY <1>9 DEF all

\* Recording a call that has no record yet.
LEMMA Recorded ==
    ASSUME Inv, NEW record \in Records, executions' = Append(executions, record)
    PROVE  /\ executions' \in Seq(Records) /\ Len(executions') = Len(executions) + 1
           /\ \A n \in 1 .. Len(executions) : executions'[n] = executions[n]
           /\ executions'[Len(executions) + 1] = record
           /\ Len(executions) \in Nat
           /\ Range(executions') = Range(executions) \cup {record}
           /\ Executed(executions') = Executed(executions) + IF record.executed THEN 1 ELSE 0
<1>1. /\ Len(executions) \in Nat /\ executions' \in Seq(Records)
      /\ Len(executions') = Len(executions) + 1
      /\ \A n \in 1 .. Len(executions) : executions'[n] = executions[n]
      /\ executions'[Len(executions) + 1] = record
  BY LenProperties, AppendProperties DEF Inv, TypeOK
<1>2. DOMAIN executions = 1 .. Len(executions) /\ DOMAIN executions' = 1 .. Len(executions) + 1
  BY <1>1, LenProperties DEF Inv, TypeOK
<1>3. Range(executions') = Range(executions) \cup {record}
  <2>1. 1 .. Len(executions) + 1 = (1 .. Len(executions)) \cup {Len(executions) + 1}
    BY <1>1
  <2> QED
    BY <1>1, <1>2, <2>1 DEF Range
<1>4. Executed(executions') = Executed(executions) + IF record.executed THEN 1 ELSE 0
  <2>1. record.executed \in BOOLEAN /\ executions \in Seq(Records)
    BY DEF Inv, TypeOK, Records
  <2>2. Executed(Append(executions, record)) =
            Executed(executions) + IF record.executed THEN 1 ELSE 0
    BY <2>1, OneRecordMore
  <2> QED
    BY <2>2
<1> QED
  BY <1>1, <1>3, <1>4

\* One more message leaves the calls of the earlier ones alone.
LEMMA OneMessage ==
    ASSUME TypeOK, NEW message \in Messages, transcript' = Append(transcript, message)
    PROVE  /\ transcript' \in Seq(Messages) /\ Round \in Nat /\ Round' = Round + 1
           /\ transcript'[Round + 1] = message
           /\ \A call : IsCall(call) => IsCall(call)' /\ ResultOf(call)' = ResultOf(call)
<1>1. /\ transcript' \in Seq(Messages) /\ Round \in Nat /\ Round' = Round + 1
      /\ \A r \in 1 .. Round : transcript'[r] = transcript[r]
      /\ transcript'[Round + 1] = message
  BY LenProperties, AppendProperties DEF TypeOK, Round
<1>2. ASSUME NEW call, IsCall(call)
      PROVE  IsCall(call)' /\ ResultOf(call)' = ResultOf(call)
  <2>1. PICK r \in 1 .. Round : \E i \in 1 .. Len(transcript[r]) : call = <<r, i>>
    BY <1>2 DEF IsCall
  <2>2. PICK i \in 1 .. Len(transcript[r]) : call = <<r, i>>
    BY <2>1
  <2>3. r \in Nat /\ r >= 1 /\ r <= Round
    BY <1>1
  <2>6. transcript'[r] = transcript[r]
    BY <1>1
  <2>7. r \in 1 .. Round'
    BY <1>1, <2>3
  <2>4. IsCall(call)'
    BY <2>2, <2>6, <2>7 DEF IsCall
  <2>5. ResultOf(call)' = ResultOf(call)
    BY <2>2, <2>6 DEF ResultOf
  <2> QED
    BY <2>4, <2>5
<1> QED
  BY <1>1, <1>2

-----------------------------------------------------------------------------
(* The invariant holds.                                                    *)

LEMMA InvInit == Init => Inv
<1> SUFFICES ASSUME Init PROVE Inv
  OBVIOUS
<1>1. executions = <<>> /\ transcript = <<>> /\ running = {}
  BY DEF Init
<1>2. Len(executions) = 0 /\ DOMAIN executions = {}
  BY <1>1
<1>3. Executed(executions) = 0 /\ Cardinality(running) = 0 /\ IsFiniteSet(running)
  <2>1. {n \in DOMAIN executions : executions[n].executed} = {}
    BY <1>2
  <2> QED
    BY <1>1, <2>1, FS_EmptySet DEF Executed
<1>4. TypeOK
  BY <1>1, <1>2, EmptySeq, LimitsAssumption DEF Init, TypeOK, NoReport
<1>5. StartedBodies = {}
  BY <1>1, <1>2 DEF StartedBodies, Range
<1>6. RunningIsCurrent /\ RecordsAreDistinct /\ ForcedHasReason /\ ForcedFinalNeverNatural
  BY <1>1, <1>2 DEF Init, RunningIsCurrent, RecordsAreDistinct, ForcedHasReason,
                    ForcedFinalNeverNatural, NoReport
<1>7. CountersAreTrue
  BY <1>2, <1>3 DEF Init, CountersAreTrue
<1>8. StartsAreAdmitted
  BY <1>5, FS_EmptySet DEF Init, StartsAreAdmitted
<1> QED
  BY <1>4, <1>6, <1>7, <1>8 DEF Inv

\* What is true whenever nothing is started, recorded or counted.
LEMMA CountsStand ==
    ASSUME Inv, UNCHANGED <<admitted, refused, running, executions>>
    PROVE  (CountersAreTrue /\ StartsAreAdmitted)'
  BY DEF Inv, CountersAreTrue, StartsAreAdmitted, StartedBodies

LEMMA AnswerKeeps ==
    ASSUME Inv, Answer
    PROVE  Inv'
<1>1. /\ pc \in {"calling", "forced"} /\ pc' = "over" /\ running = {} /\ report'.kind = "result"
      /\ transcript' = Append(transcript, <<>>)
      /\ UNCHANGED <<admitted, refused, running, executions>>
  BY DEF Answer, Returns, Inv, RunningIsCurrent
<1>2. /\ transcript' \in Seq(Messages) /\ Round \in Nat /\ Round' = Round + 1
      /\ \A call : IsCall(call) => IsCall(call)' /\ ResultOf(call)' = ResultOf(call)
  <2>1. <<>> \in Messages
    BY EmptySeq DEF Messages
  <2> QED
    BY <1>1, <2>1, OneMessage DEF Inv
<1>3. TypeOK'
  BY <1>1, <1>2 DEF Inv, TypeOK
<1>4. (RunningIsCurrent /\ RecordsAreDistinct /\ ForcedHasReason)'
  BY <1>1 DEF Inv, RunningIsCurrent, RecordsAreDistinct, ForcedHasReason
<1>5. ForcedFinalNeverNatural'
  <2> DEFINE reasons == LimitReasons(Round + 1, Executed(executions))
  <2>1. report'.forced = (pc = "forced") /\ report'.stop = StopReason(reasons)
    BY DEF Answer, Returns
  <2>2. ASSUME pc = "forced"
        PROVE  reasons # {} /\ reasons \subseteq {"iteration_limit", "function_call_limit"}
    <3>1. Round >= MaxIterations \/ Len(executions) >= MaxToolCalls
      BY <2>2 DEF Inv, ForcedHasReason
    <3>2. Executed(executions) \in Nat /\ Len(executions) \in Nat
          /\ refused = Len(executions) - Executed(executions)
      BY ExecutedIsCount, LenProperties DEF Inv, TypeOK, CountersAreTrue
    <3>3. \/ Round + 1 >= MaxIterations + 1
          \/ refused > 0 \/ Executed(executions) >= MaxToolCalls
      BY <1>2, <3>1, <3>2, LimitsAssumption
    <3> QED
      BY <3>3 DEF LimitReasons
  <2>3. pc = "forced" => StopReason(reasons) # "natural"
    <3> HIDE DEF reasons
    <3> QED
      BY <2>2 DEF StopReason
  <2> HIDE DEF reasons
  <2> QED
    BY <2>1, <2>3 DEF ForcedFinalNeverNatural
<1> QED
  BY <1>1, <1>3, <1>4, <1>5, CountsStand DEF Inv

LEMMA AskKeeps ==
    ASSUME Inv, Ask
    PROVE  Inv'
<1>1. PICK batch \in Batches :
        transcript' = Append(transcript,
            [i \in DOMAIN batch |-> [tool |-> batch[i].tool, parses |-> batch[i].parses,
                                     result |-> "none"]])
  BY DEF Ask
<1> DEFINE message == [i \in DOMAIN batch |->
                          [tool |-> batch[i].tool, parses |-> batch[i].parses, result |-> "none"]]
<1>2. message \in Messages
  <2>1. PICK n \in Nat : batch \in [1 .. n -> [tool : Tools, parses : BOOLEAN]]
    BY LimitsAssumption DEF Batches
  <2>2. message \in [1 .. n -> [tool : Tools, parses : BOOLEAN, result : Results]]
    BY <2>1 DEF Results
  <2> QED
    BY <2>1, <2>2 DEF Messages
<1> HIDE DEF message
<1>3. /\ transcript' \in Seq(Messages) /\ Round \in Nat /\ Round' = Round + 1
      /\ \A call : IsCall(call) => IsCall(call)' /\ ResultOf(call)' = ResultOf(call)
  BY <1>1, <1>2, OneMessage DEF Inv, message
<1>4. /\ pc = "calling" /\ pc' = "tools" /\ running = {}
      /\ UNCHANGED <<admitted, refused, running, executions, report>>
  BY DEF Ask, Inv, RunningIsCurrent
<1>5. TypeOK'
  BY <1>3, <1>4 DEF Inv, TypeOK
<1>6. (RunningIsCurrent /\ ForcedHasReason /\ ForcedFinalNeverNatural)'
  BY <1>4 DEF Inv, RunningIsCurrent, ForcedHasReason, ForcedFinalNeverNatural
<1>7. RecordsAreDistinct'
  BY <1>3, <1>4 DEF Inv, TypeOK, RecordsAreDistinct
<1> QED
  BY <1>4, <1>5, <1>6, <1>7, CountsStand DEF Inv

LEMMA RejectKeeps ==
    ASSUME Inv, Reject
    PROVE  Inv'
<1>1. /\ pc = "tools" /\ Round \in 1 .. Round
      /\ UNCHANGED <<pc, admitted, refused, running, executions, report>>
  BY LenProperties DEF Reject, Inv, TypeOK, Round
<1>2. PICK i \in Waiting : transcript' = [transcript EXCEPT ![Round][i].result = "error"]
  BY DEF Reject
<1>3. PICK r \in 1 .. Round : r = Round
  BY <1>1
<1>4. i \in 1 .. Len(transcript[r]) /\ <<r, i>> \notin running
  BY <1>3 DEF Waiting
<1>5. /\ transcript' \in Seq(Messages) /\ Round' = Round
      /\ \A call : IsCall(call)' = IsCall(call)
      /\ ResultOf(<<r, i>>)' = "error"
      /\ \A call : IsCall(call) /\ call # <<r, i>> => ResultOf(call)' = ResultOf(call)
  BY <1>2, <1>3, <1>4, OneResult DEF Inv, Results
<1>6. TypeOK'
  BY <1>1, <1>5 DEF Inv, TypeOK
<1>7. RunningIsCurrent'
  BY <1>1, <1>4, <1>5 DEF Inv, TypeOK, RunningIsCurrent
<1>8. RecordsAreDistinct'
  BY <1>1, <1>5 DEF Inv, TypeOK, RecordsAreDistinct
<1>9. (ForcedHasReason /\ ForcedFinalNeverNatural)'
  BY <1>1 DEF Inv, ForcedHasReason, ForcedFinalNeverNatural
<1> QED
  BY <1>1, <1>6, <1>7, <1>8, <1>9, CountsStand DEF Inv

LEMMA NextResponseKeeps ==
    ASSUME Inv, NextResponse
    PROVE  Inv'
<1>1. /\ pc = "tools" /\ pc' \in {"calling", "forced"}
      /\ pc' = "forced" => Round >= MaxIterations \/ Len(executions) >= MaxToolCalls
      /\ \A i \in 1 .. Len(transcript[Round]) : transcript[Round][i].result # "none"
      /\ UNCHANGED <<transcript, admitted, refused, running, executions, report>>
  BY DEF NextResponse
<1>2. running = {}
  <2> SUFFICES ASSUME NEW call \in running PROVE FALSE
    OBVIOUS
  <2>1. IsCall(call) /\ call[1] = Round /\ ResultOf(call) = "none"
    BY DEF Inv, TypeOK, RunningIsCurrent
  <2>2. PICK r \in 1 .. Round : \E i \in 1 .. Len(transcript[r]) : call = <<r, i>>
    BY <2>1 DEF IsCall
  <2>3. PICK i \in 1 .. Len(transcript[r]) : call = <<r, i>>
    BY <2>2
  <2>4. r = Round
    BY <2>1, <2>3
  <2> QED
    BY <1>1, <2>1, <2>3, <2>4 DEF ResultOf
<1>3. TypeOK'
  BY <1>1 DEF Inv, TypeOK, IsCall, Round
<1>4. (RunningIsCurrent /\ RecordsAreDistinct)'
  BY <1>1, <1>2 DEF Inv, RunningIsCurrent, RecordsAreDistinct, ResultOf
<1>5. (ForcedHasReason /\ ForcedFinalNeverNatural)'
  BY <1>1 DEF Inv, ForcedHasReason, ForcedFinalNeverNatural, Round
<1> QED
  BY <1>1, <1>3, <1>4, <1>5, CountsStand DEF Inv

LEMMA AdmitKeeps ==
    ASSUME Inv, Admit
    PROVE  Inv'
<1>1. /\ pc = "tools" /\ admitted < MaxToolCalls /\ admitted' = admitted + 1
      /\ UNCHANGED <<pc, transcript, refused, executions, report>>
  BY DEF Admit
<1>2. PICK i \in Waiting : running' = running \cup {<<Round, i>>}
  BY DEF Admit
<1>3. PICK r \in 1 .. Round : r = Round
  BY <1>1, LenProperties DEF Inv, TypeOK, Round
<1> DEFINE call == <<r, i>>
<1>4. /\ i \in 1 .. Len(transcript[r]) /\ call \notin running
      /\ IsCall(call) /\ ResultOf(call) = "none" /\ call[1] = Round
  BY <1>3 DEF Waiting, IsCall, ResultOf
<1>5. running' = running \cup {call}
  BY <1>2, <1>3
<1> HIDE DEF call
<1>6. TypeOK'
  <2>1. admitted' \in 0 .. MaxToolCalls
    BY <1>1, LimitsAssumption DEF Inv, TypeOK
  <2>2. Round' = Round /\ \A c : IsCall(c)' = IsCall(c)
    BY <1>1 DEF IsCall, Round
  <2>3. \A c \in running' : IsCall(c)'
    BY <1>4, <1>5, <2>2 DEF Inv, TypeOK
  <2>4. \A n \in 1 .. Len(executions) : \A c : c = executions[n].call => IsCall(c)'
    BY <2>2 DEF Inv, TypeOK
  <2> QED
    BY <1>1, <2>1, <2>2, <2>3, <2>4 DEF Inv, TypeOK, IsCall
<1>7. RunningIsCurrent'
  BY <1>1, <1>4, <1>5 DEF Inv, RunningIsCurrent, ResultOf, Round
<1>8. \A n \in 1 .. Len(executions) : executions[n].call # call
  BY <1>1, <1>4 DEF Inv, RecordsAreDistinct
<1>9. RecordsAreDistinct'
  BY <1>1, <1>5, <1>8 DEF Inv, RecordsAreDistinct, ResultOf
<1>10. CountersAreTrue'
  <2>1. /\ IsFiniteSet(running) /\ admitted = Cardinality(running) + Executed(executions)
        /\ refused = Len(executions) - Executed(executions)
    BY DEF Inv, CountersAreTrue
  <2>2. Executed(executions) \in Nat /\ Cardinality(running) \in Nat
    BY <2>1, ExecutedIsCount, FS_CardinalityType DEF Inv, TypeOK
  <2>3. IsFiniteSet(running') /\ Cardinality(running') = Cardinality(running) + 1
    BY <1>4, <1>5, <2>1, FS_AddElement
  <2> QED
    BY <1>1, <2>1, <2>2, <2>3 DEF CountersAreTrue
<1>11. StartsAreAdmitted'
  <2>1. IsFiniteSet(StartedBodies) /\ Cardinality(StartedBodies) <= admitted
    BY DEF Inv, StartsAreAdmitted
  <2>2. StartedBodies' = StartedBodies \cup {call}
    BY <1>1, <1>5 DEF StartedBodies
  <2>3. Cardinality(StartedBodies) \in Nat /\ admitted \in Nat
    BY <2>1, FS_CardinalityType DEF Inv, TypeOK
  <2>4. /\ IsFiniteSet(StartedBodies')
        /\ Cardinality(StartedBodies') <= Cardinality(StartedBodies) + 1
    BY <2>1, <2>2, <2>3, FS_AddElement
  <2>5. Cardinality(StartedBodies') \in Nat
    BY <2>4, FS_CardinalityType
  <2> QED
    BY <1>1, <2>1, <2>3, <2>4, <2>5 DEF StartsAreAdmitted
<1>12. (ForcedHasReason /\ ForcedFinalNeverNatural)'
  BY <1>1 DEF Inv, ForcedHasReason, ForcedFinalNeverNatural
<1> QED
  BY <1>6, <1>7, <1>9, <1>10, <1>11, <1>12 DEF Inv

\* What Refuse and Complete have in common: a call of the batch that has no
\* result gets one, and a record.
LEMMA CallEnds ==
    ASSUME Inv, pc = "tools", NEW r \in 1 .. Round, r = Round,
           NEW i \in 1 .. Len(transcript[r]), ResultOf(<<r, i>>) = "none",
           NEW result \in Results \ {"none"}, NEW executed \in BOOLEAN,
           transcript' = [transcript EXCEPT ![r][i].result = result],
           executions' = Append(executions, Record(i, executed)),
           running' = running \ {<<r, i>>}, UNCHANGED <<pc, report>>
    PROVE  /\ transcript' \in Seq(Messages) /\ executions' \in Seq(Records)
           /\ \A c \in running' : IsCall(c)'
           /\ \A n \in 1 .. Len(executions') : \A c : c = executions'[n].call => IsCall(c)'
           /\ Round' = Round
           /\ RunningIsCurrent' /\ RecordsAreDistinct'
           /\ Len(executions) \in Nat /\ Len(executions') = Len(executions) + 1
           /\ Executed(executions') = Executed(executions) + IF executed THEN 1 ELSE 0
           /\ StartedBodies' = IF executed THEN (running \ {<<r, i>>}) \cup {<<r, i>>} \cup
                                   {e.call : e \in {x \in Range(executions) : x.executed}}
                               ELSE (running \ {<<r, i>>}) \cup
                                   {e.call : e \in {x \in Range(executions) : x.executed}}
<1> DEFINE call == <<r, i>>
           record == Record(i, executed)
<1>1. /\ transcript' \in Seq(Messages) /\ Round' = Round
      /\ \A c : IsCall(c)' = IsCall(c)
      /\ ResultOf(call)' = result
      /\ \A c : IsCall(c) /\ c # call => ResultOf(c)' = ResultOf(c)
  BY OneResult DEF Inv
<1>2. record.call = call /\ record.executed = executed /\ record \in Records /\ IsCall(call)
  <2>1. transcript[r][i].tool \in Tools /\ i \in Nat /\ r \in Nat
    BY Rows DEF Inv
  <2> QED
    BY <2>1 DEF Record, Records, IsCall
<1>3. /\ executions' \in Seq(Records) /\ Len(executions') = Len(executions) + 1
      /\ \A n \in 1 .. Len(executions) : executions'[n] = executions[n]
      /\ executions'[Len(executions) + 1] = record
      /\ Len(executions) \in Nat
      /\ Range(executions') = Range(executions) \cup {record}
      /\ Executed(executions') = Executed(executions) + IF record.executed THEN 1 ELSE 0
  <2> HIDE DEF record
  <2> QED
    BY <1>2, Recorded DEF record
<1> HIDE DEF call, record
<1>4. \A n \in 1 .. Len(executions') : n \in 1 .. Len(executions) \/ n = Len(executions) + 1
  BY <1>3
<1>5. running' = running \ {call}
  BY DEF call
<1>6. \A c \in running' : IsCall(c)'
  BY <1>1, <1>5 DEF Inv, TypeOK
<1>7. \A n \in 1 .. Len(executions') : \A c : c = executions'[n].call => IsCall(c)'
  BY <1>1, <1>2, <1>3, <1>4 DEF Inv, TypeOK
<1>8. RunningIsCurrent'
  BY <1>1, <1>5 DEF Inv, TypeOK, RunningIsCurrent
<1>9. \A n \in 1 .. Len(executions) : executions[n].call # call
  BY DEF Inv, RecordsAreDistinct, call
<1>10. RecordsAreDistinct'
  <2>1. \A n \in 1 .. Len(executions') : executions'[n].call \notin running'
    BY <1>2, <1>3, <1>4, <1>5 DEF Inv, RecordsAreDistinct
  <2>2. \A n \in 1 .. Len(executions') : \A c :
            c = executions'[n].call => ResultOf(c)' # "none"
    <3>1. \A n \in 1 .. Len(executions) : \A c :
              c = executions[n].call => ResultOf(c)' # "none"
      BY <1>1, <1>9 DEF Inv, TypeOK, RecordsAreDistinct
    <3> QED
      BY <1>1, <1>2, <1>3, <1>4, <3>1
  <2>3. \A m, n \in 1 .. Len(executions') : executions'[m].call = executions'[n].call => m = n
    BY <1>2, <1>3, <1>4, <1>9 DEF Inv, RecordsAreDistinct
  <2> QED
    BY <2>1, <2>2, <2>3 DEF RecordsAreDistinct, ResultOf
<1>11. {e.call : e \in {x \in Range(executions') : x.executed}} =
          {e.call : e \in {x \in Range(executions) : x.executed}} \cup
              (IF executed THEN {call} ELSE {})
  <2>1. CASE executed
    BY <1>2, <1>3, <2>1
  <2>2. CASE ~executed
    BY <1>2, <1>3, <2>2
  <2> QED
    BY <2>1, <2>2
<1> QED
  BY <1>1, <1>2, <1>3, <1>5, <1>6, <1>7, <1>8, <1>10, <1>11 DEF StartedBodies, call

LEMMA RefuseKeeps ==
    ASSUME Inv, Refuse
    PROVE  Inv'
<1>1. pc = "tools" /\ refused' = refused + 1 /\ UNCHANGED <<pc, admitted, running, report>>
  BY DEF Refuse
<1>2. PICK r \in 1 .. Round : r = Round
  BY <1>1, LenProperties DEF Inv, TypeOK, Round
<1>3. PICK i \in 1 .. Len(transcript[r]) :
          /\ ResultOf(<<r, i>>) = "none" /\ <<r, i>> \notin running
          /\ transcript' = [transcript EXCEPT ![r][i].result = "refusal"]
          /\ executions' = Append(executions, Record(i, FALSE))
  BY <1>2 DEF Refuse, Waiting, ResultOf
<1>4. running' = running \ {<<r, i>>}
  BY <1>1, <1>3
<1>5. /\ transcript' \in Seq(Messages) /\ executions' \in Seq(Records)
      /\ \A c \in running' : IsCall(c)'
      /\ \A n \in 1 .. Len(executions') : \A c : c = executions'[n].call => IsCall(c)'
      /\ Round' = Round
      /\ RunningIsCurrent' /\ RecordsAreDistinct'
      /\ Len(executions) \in Nat /\ Len(executions') = Len(executions) + 1
      /\ Executed(executions') = Executed(executions) + 0
      /\ StartedBodies' = (running \ {<<r, i>>}) \cup
                              {e.call : e \in {x \in Range(executions) : x.executed}}
  BY <1>1, <1>2, <1>3, <1>4, CallEnds DEF Results
<1>6. TypeOK'
  <2>4. \A n \in 1 .. Len(executions') :
            \E q \in 1 .. Round' : \E j \in 1 .. Len(transcript'[q]) :
                executions'[n].call = <<q, j>>
    <3>1. \A c : IsCall(c)' =>
              \E q \in 1 .. Round' : \E j \in 1 .. Len(transcript'[q]) : c = <<q, j>>
      BY DEF IsCall
    <3>2. \A n \in 1 .. Len(executions') : \A c : c = executions'[n].call =>
              \E q \in 1 .. Round' : \E j \in 1 .. Len(transcript'[q]) : c = <<q, j>>
      BY <1>5, <3>1, Zenon
    <3> QED
      BY <3>2, Zenon
  <2>1. (\A n \in 1 .. Len(executions) : IsCall(executions[n].call))'
    BY <2>4, Zenon DEF IsCall
  <2>2. (\A c \in running : IsCall(c))'
    BY <1>5 DEF IsCall
  <2>3. (pc \in {"tools", "forced"} => Round > 0)' /\ refused' \in Nat /\ admitted' \in 0 .. MaxToolCalls
    BY <1>1, <1>5 DEF Inv, TypeOK
  <2> QED
    BY <1>1, <1>5, <2>1, <2>2, <2>3 DEF Inv, TypeOK
<1>7. Executed(executions) \in Nat
  BY ExecutedIsCount DEF Inv, TypeOK
<1>8. CountersAreTrue'
  <2>1. Executed(executions') = Executed(executions)
    BY <1>5, <1>7
  <2> QED
    BY <1>1, <1>5, <1>7, <2>1 DEF Inv, TypeOK, CountersAreTrue
<1>9. StartsAreAdmitted'
  <2>1. StartedBodies' = StartedBodies
    BY <1>3, <1>5 DEF StartedBodies
  <2> QED
    BY <1>1, <2>1 DEF Inv, StartsAreAdmitted
<1>10. (ForcedHasReason /\ ForcedFinalNeverNatural)'
  BY <1>1 DEF Inv, ForcedHasReason, ForcedFinalNeverNatural
<1> QED
  BY <1>5, <1>6, <1>8, <1>9, <1>10 DEF Inv

LEMMA CompleteKeeps ==
    ASSUME Inv, Complete
    PROVE  Inv'
<1>1. pc = "tools" /\ UNCHANGED <<pc, admitted, refused, report>>
  BY DEF Complete
<1>2. PICK r \in 1 .. Round : r = Round
  BY <1>1, LenProperties DEF Inv, TypeOK, Round
<1>3. PICK i \in 1 .. Len(transcript[r]), result \in {"text", "error"} :
          /\ <<r, i>> \in running /\ running' = running \ {<<r, i>>}
          /\ transcript' = [transcript EXCEPT ![r][i].result = result]
          /\ executions' = Append(executions, Record(i, TRUE))
  BY <1>2 DEF Complete
<1>4. ResultOf(<<r, i>>) = "none" /\ result \in Results \ {"none"}
  BY <1>3 DEF Inv, RunningIsCurrent, Results
<1>5. /\ transcript' \in Seq(Messages) /\ executions' \in Seq(Records)
      /\ \A c \in running' : IsCall(c)'
      /\ \A n \in 1 .. Len(executions') : \A c : c = executions'[n].call => IsCall(c)'
      /\ Round' = Round
      /\ RunningIsCurrent' /\ RecordsAreDistinct'
      /\ Len(executions) \in Nat /\ Len(executions') = Len(executions) + 1
      /\ Executed(executions') = Executed(executions) + 1
      /\ StartedBodies' = (running \ {<<r, i>>}) \cup {<<r, i>>} \cup
                              {e.call : e \in {x \in Range(executions) : x.executed}}
  BY <1>1, <1>2, <1>3, <1>4, CallEnds
<1>6. TypeOK'
  <2>4. \A n \in 1 .. Len(executions') :
            \E q \in 1 .. Round' : \E j \in 1 .. Len(transcript'[q]) :
                executions'[n].call = <<q, j>>
    <3>1. \A c : IsCall(c)' =>
              \E q \in 1 .. Round' : \E j \in 1 .. Len(transcript'[q]) : c = <<q, j>>
      BY DEF IsCall
    <3>2. \A n \in 1 .. Len(executions') : \A c : c = executions'[n].call =>
              \E q \in 1 .. Round' : \E j \in 1 .. Len(transcript'[q]) : c = <<q, j>>
      BY <1>5, <3>1, Zenon
    <3> QED
      BY <3>2, Zenon
  <2>1. (\A n \in 1 .. Len(executions) : IsCall(executions[n].call))'
    BY <2>4, Zenon DEF IsCall
  <2>2. (\A c \in running : IsCall(c))'
    BY <1>5 DEF IsCall
  <2>3. (pc \in {"tools", "forced"} => Round > 0)' /\ refused' \in Nat /\ admitted' \in 0 .. MaxToolCalls
    BY <1>1, <1>5 DEF Inv, TypeOK
  <2> QED
    BY <1>1, <1>5, <2>1, <2>2, <2>3 DEF Inv, TypeOK
<1>7. CountersAreTrue'
  <2>1. /\ IsFiniteSet(running) /\ admitted = Cardinality(running) + Executed(executions)
        /\ refused = Len(executions) - Executed(executions)
    BY DEF Inv, CountersAreTrue
  <2>2. Executed(executions) \in Nat /\ Cardinality(running) \in Nat
    BY <2>1, ExecutedIsCount, FS_CardinalityType DEF Inv, TypeOK
  <2>3. IsFiniteSet(running') /\ Cardinality(running') = Cardinality(running) - 1
    BY <1>3, <2>1, FS_RemoveElement
  <2> QED
    BY <1>1, <1>5, <2>1, <2>2, <2>3, SMTT(30) DEF CountersAreTrue
<1>8. StartsAreAdmitted'
  <2>1. StartedBodies' = StartedBodies
    BY <1>3, <1>5 DEF StartedBodies
  <2> QED
    BY <1>1, <2>1 DEF Inv, StartsAreAdmitted
<1>9. (ForcedHasReason /\ ForcedFinalNeverNatural)'
  BY <1>1 DEF Inv, ForcedHasReason, ForcedFinalNeverNatural
<1> QED
  BY <1>5, <1>6, <1>7, <1>8, <1>9 DEF Inv

LEMMA FailKeeps ==
    ASSUME Inv, Fail
    PROVE  Inv'
<1>1. /\ pc \in {"calling", "forced"} /\ pc' = "over" /\ report'.kind = "error"
      /\ UNCHANGED <<transcript, admitted, refused, running, executions>>
  BY DEF Fail
<1>2. TypeOK'
  BY <1>1 DEF Inv, TypeOK, IsCall, Round
<1>3. (RunningIsCurrent /\ RecordsAreDistinct /\ ForcedHasReason /\ ForcedFinalNeverNatural)'
  BY <1>1 DEF Inv, RunningIsCurrent, RecordsAreDistinct, ForcedHasReason, ForcedFinalNeverNatural
<1> QED
  BY <1>1, <1>2, <1>3, CountsStand DEF Inv

\* A cancelled run: the records of the bodies that ran come last, in any order.
LEMMA CancelKeeps ==
    ASSUME Inv, Cancel
    PROVE  Inv'
<1>1. /\ pc # "over" /\ pc' = "over" /\ running' = {} /\ report'.kind = "cancelled"
      /\ UNCHANGED <<transcript, admitted, refused>>
  BY DEF Cancel
<1>2. PICK order \in SetToSeqs(running) :
        executions' = executions \o [n \in DOMAIN order |-> Record(order[n][2], TRUE)]
  BY DEF Cancel
<1> DEFINE size == Cardinality(running)
           records == [n \in DOMAIN order |-> Record(order[n][2], TRUE)]
           len == Len(executions)
<1>3. IsFiniteSet(running) /\ size \in Nat
  BY FS_CardinalityType DEF Inv, CountersAreTrue
<1>4. /\ DOMAIN order = 1 .. size
      /\ \A n \in 1 .. size : order[n] \in running
      /\ \A m, n \in 1 .. size : m # n => order[m] # order[n]
  BY DEF SetToSeqs
<1>5. \A n \in 1 .. size : /\ records[n].call = order[n] /\ records[n].executed = TRUE
                           /\ records[n] \in Records
  <2> SUFFICES ASSUME NEW n \in 1 .. size
               PROVE  /\ records[n].call = order[n] /\ records[n].executed = TRUE
                      /\ records[n] \in Records
    OBVIOUS
  <2>1. order[n] \in running /\ IsCall(order[n]) /\ order[n][1] = Round
    BY <1>4 DEF Inv, TypeOK, RunningIsCurrent
  <2>2. PICK r \in 1 .. Round : \E i \in 1 .. Len(transcript[r]) : order[n] = <<r, i>>
    BY <2>1 DEF IsCall
  <2>3. PICK i \in 1 .. Len(transcript[r]) : order[n] = <<r, i>>
    BY <2>2
  <2>4. r = Round /\ order[n][2] = i
    BY <2>1, <2>3
  <2>5. transcript[r][i].tool \in Tools /\ i \in Nat /\ r \in Nat
    BY Rows DEF Inv
  <2>6. records[n] = [tool |-> transcript[r][i].tool, executed |-> TRUE, call |-> <<r, i>>]
    BY <1>4, <2>4 DEF Record
  <2> HIDE DEF records
  <2>7. records[n].call = order[n] /\ records[n].executed = TRUE
    BY <2>3, <2>6
  <2>8. records[n] \in Records
    BY <2>5, <2>6 DEF Records
  <2> QED
    BY <2>7, <2>8
<1>6. records \in Seq(Records) /\ Len(records) = size
  <2>1. records \in [1 .. size -> Records]
    BY <1>4, <1>5
  <2> HIDE DEF records, size
  <2> QED
    BY <1>3, <2>1
<1> HIDE DEF size, records
<1>7. executions \in Seq(Records) /\ executions' = executions \o records
  BY <1>2 DEF Inv, TypeOK, records
<1>8. /\ executions' \in Seq(Records) /\ len \in Nat /\ Len(executions') = len + size
      /\ \A n \in 1 .. len + size :
             executions'[n] = IF n <= len THEN executions[n] ELSE records[n - len]
      /\ DOMAIN executions' = 1 .. len + size /\ DOMAIN executions = 1 .. len
  <2>1. /\ executions \o records \in Seq(Records)
        /\ Len(executions \o records) = Len(executions) + Len(records)
        /\ \A n \in 1 .. Len(executions) + Len(records) : (executions \o records)[n] =
               IF n <= Len(executions) THEN executions[n] ELSE records[n - Len(executions)]
    BY <1>6, <1>7, ConcatProperties
  <2>2. len \in Nat /\ DOMAIN executions = 1 .. len
    BY <1>7, LenProperties
  <2>3. DOMAIN (executions \o records) = 1 .. Len(executions \o records)
    BY <2>1, LenProperties
  <2> QED
    BY <1>6, <1>7, <2>1, <2>2, <2>3
<1> HIDE DEF len
<1>9. \A n \in 1 .. len + size :
          \/ n \in 1 .. len /\ executions'[n] = executions[n]
          \/ /\ n - len \in 1 .. size
             /\ executions'[n].call = order[n - len] /\ executions'[n].executed = TRUE
  BY <1>3, <1>5, <1>8
<1>10. TypeOK'
  <2>1. Round' = Round /\ \A c : IsCall(c)' = IsCall(c)
    BY <1>1 DEF IsCall, Round
  <2>2. \A n \in 1 .. len + size : \A c : c = executions'[n].call => IsCall(c)'
    BY <1>4, <1>9, <2>1 DEF Inv, TypeOK, len
  <2>6. \A n \in 1 .. Len(executions') : \A c : c = executions'[n].call => IsCall(c)'
    BY <1>8, <2>2
  <2>5. \A n \in 1 .. Len(executions') :
            \E q \in 1 .. Round' : \E j \in 1 .. Len(transcript'[q]) :
                executions'[n].call = <<q, j>>
    <3>1. \A c : IsCall(c)' =>
              \E q \in 1 .. Round' : \E j \in 1 .. Len(transcript'[q]) : c = <<q, j>>
      BY DEF IsCall
    <3>2. \A n \in 1 .. Len(executions') : \A c : c = executions'[n].call =>
              \E q \in 1 .. Round' : \E j \in 1 .. Len(transcript'[q]) : c = <<q, j>>
      BY <2>6, <3>1, Zenon
    <3> QED
      BY <3>2, Zenon
  <2>3. (\A n \in 1 .. Len(executions) : IsCall(executions[n].call))'
    BY <2>5, Zenon DEF IsCall
  <2>4. admitted' \in 0 .. MaxToolCalls /\ refused' \in Nat /\ transcript' \in Seq(Messages)
    BY <1>1 DEF Inv, TypeOK
  <2> QED
    BY <1>1, <1>8, <2>3, <2>4 DEF TypeOK
<1>11. RecordsAreDistinct'
  <2>1. \A m \in 1 .. len, n \in 1 .. size : executions[m].call # order[n]
    BY <1>4 DEF Inv, RecordsAreDistinct, len
  <2>2. \A m, n \in 1 .. len : executions[m].call = executions[n].call => m = n
    BY DEF Inv, RecordsAreDistinct, len
  <2>3. \A m, n \in 1 .. len + size : executions'[m].call = executions'[n].call => m = n
    <3> SUFFICES ASSUME NEW m \in 1 .. len + size, NEW n \in 1 .. len + size,
                        executions'[m].call = executions'[n].call
                 PROVE  m = n
      OBVIOUS
    <3>1. CASE m \in 1 .. len /\ executions'[m] = executions[m]
      BY <1>9, <2>1, <2>2, <3>1
    <3>2. CASE /\ m - len \in 1 .. size /\ executions'[m].call = order[m - len]
      <4>1. n - len \in 1 .. size /\ executions'[n].call = order[n - len]
        BY <1>9, <2>1, <3>2
      <4>2. m - len = n - len
        BY <1>4, <3>2, <4>1
      <4> QED
        BY <1>3, <1>8, <4>2
    <3> QED
      BY <1>9, <3>1, <3>2
  <2> QED
    BY <1>1, <1>8, <2>3 DEF RecordsAreDistinct
<1>12. CountersAreTrue'
  <2>1. Executed(executions') = Executed(executions) + size
    BY <1>5, <1>6, <1>7, ManyRecordsMore
  <2>2. Executed(executions) \in Nat
    BY <1>7, ExecutedIsCount
  <2>3. IsFiniteSet(running') /\ Cardinality(running') = 0
    BY <1>1, FS_EmptySet
  <2>4. admitted = size + Executed(executions) /\ refused = len - Executed(executions)
    BY DEF Inv, CountersAreTrue, size, len
  <2> QED
    BY <1>1, <1>3, <1>8, <2>1, <2>2, <2>3, <2>4 DEF CountersAreTrue
<1>13. StartsAreAdmitted'
  <2>1. StartedBodies' \in SUBSET StartedBodies
    <3>1. ASSUME NEW n \in 1 .. len + size, executions'[n].executed
          PROVE  executions'[n].call \in StartedBodies
      <4>1. CASE n \in 1 .. len /\ executions'[n] = executions[n]
        BY <1>8, <3>1, <4>1 DEF StartedBodies, Range
      <4>2. CASE n - len \in 1 .. size /\ executions'[n].call = order[n - len]
        BY <1>4, <4>2 DEF StartedBodies
      <4> QED
        BY <1>9, <4>1, <4>2
    <3> QED
      BY <1>1, <1>8, <3>1 DEF StartedBodies, Range
  <2>2. IsFiniteSet(StartedBodies) /\ Cardinality(StartedBodies) <= admitted
    BY DEF Inv, StartsAreAdmitted
  <2>3. /\ IsFiniteSet(StartedBodies')
        /\ Cardinality(StartedBodies') <= Cardinality(StartedBodies)
    BY <2>1, <2>2, FS_Subset
  <2>4. Cardinality(StartedBodies) \in Nat /\ Cardinality(StartedBodies') \in Nat /\ admitted \in Nat
    BY <2>2, <2>3, FS_CardinalityType DEF Inv, TypeOK
  <2> QED
    BY <1>1, <2>2, <2>3, <2>4 DEF StartsAreAdmitted
<1>14. (RunningIsCurrent /\ ForcedHasReason /\ ForcedFinalNeverNatural)'
  BY <1>1 DEF RunningIsCurrent, ForcedHasReason, ForcedFinalNeverNatural
<1> QED
  BY <1>10, <1>11, <1>12, <1>13, <1>14 DEF Inv

(* The invariant the results below rest on: AdmissionState, the record sink *)
(* and the transcript agree, whatever fails or is cancelled.               *)
THEOREM InvHolds == Spec => []Inv
<1>1. Inv /\ [Next]_vars => Inv'
  <2> SUFFICES ASSUME Inv, [Next]_vars PROVE Inv'
    OBVIOUS
  <2>1. CASE UNCHANGED vars
    <3>1. UNCHANGED <<pc, transcript, admitted, refused, running, executions, report>>
      BY <2>1 DEF vars
    <3>2. TypeOK'
      BY <3>1 DEF Inv, TypeOK, IsCall, Round
    <3>3. (RunningIsCurrent /\ RecordsAreDistinct /\ ForcedHasReason /\ ForcedFinalNeverNatural)'
      BY <3>1 DEF Inv, RunningIsCurrent, RecordsAreDistinct, ResultOf, Round,
                  ForcedHasReason, ForcedFinalNeverNatural
    <3> QED
      BY <3>1, <3>2, <3>3, CountsStand DEF Inv
  <2> QED
    BY <2>1, AnswerKeeps, AskKeeps, RejectKeeps, NextResponseKeeps, AdmitKeeps,
       RefuseKeeps, CompleteKeeps, FailKeeps, CancelKeeps DEF Next
<1> QED
  BY <1>1, InvInit, PTL DEF Spec

(* No run ever starts more bodies than agent_max_tool_calls, however calls *)
(* are batched, fail or are cancelled (agent_framework.py:210-230).        *)
THEOREM BoundIsHard == Spec => []HardBound
<1>1. Inv => HardBound
  <2> SUFFICES ASSUME Inv PROVE HardBound
    OBVIOUS
  <2>1. Cardinality(StartedBodies) <= admitted /\ Cardinality(StartedBodies) \in Nat
    BY FS_CardinalityType DEF Inv, StartsAreAdmitted
  <2> QED
    BY <2>1, LimitsAssumption DEF Inv, TypeOK, HardBound
<1> QED
  BY <1>1, InvHolds, PTL

(* When a run is over, each call that reached a wrapper has exactly one    *)
(* record, and the records agree with the counters of AdmissionState       *)
(* (agent_framework.py:245-284).                                           *)
THEOREM NoRecordIsLost == Spec => []EveryCallRecorded
<1>1. Inv => EveryCallRecorded
  <2> SUFFICES ASSUME Inv, pc = "over" PROVE EveryCallRecorded
    BY DEF EveryCallRecorded
  <2>1. Cardinality(running) = 0
    BY FS_EmptySet DEF Inv, RunningIsCurrent
  <2>2. Executed(executions) \in Nat
    BY ExecutedIsCount DEF Inv, TypeOK
  <2>3. admitted = Executed(executions)
    BY <2>1, <2>2 DEF Inv, CountersAreTrue
  <2> QED
    BY <2>3 DEF Inv, CountersAreTrue, RecordsAreDistinct, EveryCallRecorded
<1> QED
  BY <1>1, InvHolds, PTL

(* Both together, for any tools, limits and batches                        *)
(* (agent_framework.py:210-284).                                           *)
THEOREM EveryCallCounts == Spec => []EveryCallAccountedFor
BY BoundIsHard, NoRecordIsLost, PTL DEF EveryCallAccountedFor

(* A response the framework forced is never reported as a natural stop     *)
(* (agent_framework.py:517-544, derive_stop).                              *)
THEOREM ForcedIsLabelled == Spec => []ForcedFinalNeverNatural
<1>1. Inv => ForcedFinalNeverNatural
  BY DEF Inv
<1> QED
  BY <1>1, InvHolds, PTL

-----------------------------------------------------------------------------
(* FlattenSeq of the community modules.                                    *)

\* f is the function FlattenSeq builds for the first n sequences of rows.
Flattens(f, rows, n) == f = [i \in 1 .. n |-> IF i = 1 THEN rows[i] ELSE f[i - 1] \o rows[i]]

LEMMA LeastNumber ==
    ASSUME NEW T \in SUBSET Nat, T # {}
    PROVE  \E n \in T : \A m \in T : n <= m
<1>1. PICK n \in T : \A m \in T : <<m, n>> \notin OpToRel(<, Nat)
  BY NatLessThanWellFounded, WFMin
<1>2. \A m \in T : ~(m < n)
  BY <1>1 DEF OpToRel
<1>3. n \in Nat /\ \A m \in T : m \in Nat
  OBVIOUS
<1> QED
  BY <1>2, <1>3

LEMMA FlattensExists ==
    ASSUME NEW rows, NEW n \in Nat
    PROVE  \E f : Flattens(f, rows, n)
<1> DEFINE T == {m \in Nat : ~ \E f : Flattens(f, rows, m)}
<1>1. T = {}
  <2> SUFFICES ASSUME T # {} PROVE FALSE
    OBVIOUS
  <2>1. PICK m \in T : \A k \in T : m <= k
    <3> HIDE DEF T
    <3>1. T \in SUBSET Nat
      BY DEF T
    <3> QED
      BY <3>1, LeastNumber
  <2>2. CASE m = 0
    <3> DEFINE e == [i \in 1 .. 0 |-> 0]
    <3>1. Flattens(e, rows, 0)
      BY DEF Flattens
    <3> QED
      BY <2>1, <2>2, <3>1
  <2>3. CASE m # 0
    <3>1. m \in Nat /\ m - 1 \in Nat /\ m - 1 \notin T
      BY <2>1, <2>3
    <3>2. PICK f : Flattens(f, rows, m - 1)
      BY <3>1
    <3> DEFINE h == [i \in 1 .. m |-> IF i = m THEN IF m = 1 THEN rows[m] ELSE f[m - 1] \o rows[m]
                                      ELSE f[i]]
    <3>3. ASSUME NEW i \in 1 .. m
          PROVE  h[i] = IF i = 1 THEN rows[i] ELSE h[i - 1] \o rows[i]
      <4>1. CASE i = m
        BY <3>1, <4>1
      <4>2. CASE i # m
        <5>1. i \in 1 .. m - 1 /\ (i # 1 => i - 1 \in 1 .. m - 1)
          BY <3>1, <4>2
        <5>2. f[i] = IF i = 1 THEN rows[i] ELSE f[i - 1] \o rows[i]
          BY <3>2, <5>1 DEF Flattens
        <5>3. h[i] = f[i] /\ (i # 1 => h[i - 1] = f[i - 1])
          BY <3>1, <4>2, <5>1
        <5> QED
          BY <5>2, <5>3
      <4> QED
        BY <4>1, <4>2
    <3>4. h = [i \in 1 .. m |-> h[i]]
      OBVIOUS
    <3> HIDE DEF h
    <3>5. Flattens(h, rows, m)
      BY <3>3, <3>4 DEF Flattens
    <3> QED
      BY <2>1, <3>5
  <2> QED
    BY <2>2, <2>3
<1> QED
  BY <1>1

LEMMA FlattensAgree ==
    ASSUME NEW rows, NEW others, NEW n \in Nat, NEW m \in Nat, NEW f, NEW g,
           n <= m, \A i \in 1 .. n : rows[i] = others[i],
           Flattens(f, rows, n), Flattens(g, others, m), n # 0
    PROVE  f[n] = g[n]
<1> DEFINE T == {i \in 1 .. n : f[i] # g[i]}
<1>1. T = {}
  <2> SUFFICES ASSUME T # {} PROVE FALSE
    OBVIOUS
  <2>1. PICK i \in T : \A k \in T : i <= k
    <3> HIDE DEF T
    <3>1. T \in SUBSET Nat
      BY DEF T
    <3> QED
      BY <3>1, LeastNumber
  <2>2. i \in 1 .. n /\ i \in 1 .. m /\ f[i] # g[i] /\ rows[i] = others[i]
    BY <2>1
  <2>3. f[i] = IF i = 1 THEN rows[i] ELSE f[i - 1] \o rows[i]
    BY <2>2 DEF Flattens
  <2>4. g[i] = IF i = 1 THEN others[i] ELSE g[i - 1] \o others[i]
    BY <2>2 DEF Flattens
  <2>5. CASE i = 1
    BY <2>2, <2>3, <2>4, <2>5
  <2>6. CASE i # 1
    <3>1. i - 1 \in 1 .. n /\ i - 1 \notin T
      BY <2>1, <2>2, <2>6
    <3>2. f[i - 1] = g[i - 1]
      BY <3>1
    <3> QED
      BY <2>2, <2>3, <2>4, <2>6, <3>2
  <2> QED
    BY <2>5, <2>6
<1>2. n \in 1 .. n
  OBVIOUS
<1> QED
  BY <1>1, <1>2

LEMMA FlattenIsLast ==
    ASSUME NEW R, NEW rows \in Seq(R), Len(rows) # 0
    PROVE  \E f : Flattens(f, rows, Len(rows)) /\ FlattenSeq(rows) = f[Len(rows)]
<1> DEFINE f == CHOOSE flatten : Flattens(flatten, rows, Len(rows))
<1>1. Len(rows) \in Nat
  BY LenProperties
<1>2. Flattens(f, rows, Len(rows))
  BY <1>1, FlattensExists
<1>3. FlattenSeq(rows) = f[Len(rows)]
  BY DEF FlattenSeq, Flattens
<1> QED
  BY <1>2, <1>3

\* FlattenSeq adds the sequences one by one.
LEMMA FlattenOneMore ==
    ASSUME NEW S, NEW rows \in Seq(Seq(S)), NEW row \in Seq(S)
    PROVE  FlattenSeq(Append(rows, row)) = FlattenSeq(rows) \o row
<1> DEFINE more == Append(rows, row)
           n == Len(rows)
<1>1. /\ n \in Nat /\ more \in Seq(Seq(S)) /\ Len(more) = n + 1
      /\ \A i \in 1 .. n : more[i] = rows[i]
      /\ more[n + 1] = row
  BY LenProperties, AppendProperties
<1> HIDE DEF more, n
<1>2. PICK m \in Nat : m = n + 1
  BY <1>1
<1>3. PICK g : Flattens(g, more, m) /\ FlattenSeq(more) = g[m]
  BY <1>1, <1>2, FlattenIsLast
<1>4. g[m] = IF m = 1 THEN more[m] ELSE g[m - 1] \o more[m]
  <2>1. m \in 1 .. m
    BY <1>1, <1>2
  <2> QED
    BY <1>3, <2>1 DEF Flattens
<1>5. CASE n = 0
  <2>1. FlattenSeq(rows) = rows /\ rows = <<>>
    BY <1>5, EmptySeq DEF FlattenSeq, n
  <2>2. <<>> \o row = row
    OBVIOUS
  <2>3. m = 1 /\ more[m] = row
    BY <1>1, <1>2, <1>5
  <2> QED
    BY <1>3, <1>4, <2>1, <2>2, <2>3 DEF more
<1>6. CASE n # 0
  <2>1. PICK f : Flattens(f, rows, n) /\ FlattenSeq(rows) = f[n]
    BY <1>6, FlattenIsLast DEF n
  <2>2. f[n] = g[n]
    <3>1. n \in 1 .. n /\ n \in Nat /\ n <= m /\ \A i \in 1 .. n : rows[i] = more[i]
      BY <1>1, <1>2, <1>6
    <3> QED
      BY <1>3, <1>6, <2>1, <3>1, FlattensAgree
  <2>3. m # 1 /\ m - 1 = n /\ more[m] = row
    BY <1>1, <1>2, <1>6
  <2> QED
    BY <1>3, <1>4, <2>1, <2>2, <2>3 DEF more
<1> QED
  BY <1>5, <1>6

LEMMA FlattenType ==
    ASSUME NEW S, NEW rows \in Seq(Seq(S))
    PROVE  FlattenSeq(rows) \in Seq(S)
<1> DEFINE n == Len(rows)
<1>1. n \in Nat /\ \A i \in 1 .. n : rows[i] \in Seq(S)
  BY LenProperties, ElementOfSeq
<1>2. CASE n = 0
  BY <1>2, EmptySeq DEF FlattenSeq
<1>3. CASE n # 0
  <2>1. PICK f : Flattens(f, rows, n) /\ FlattenSeq(rows) = f[n]
    BY <1>3, FlattenIsLast
  <2> HIDE DEF n
  <2> DEFINE T == {i \in 1 .. n : f[i] \notin Seq(S)}
  <2>2. T = {}
    <3> SUFFICES ASSUME T # {} PROVE FALSE
      OBVIOUS
    <3>1. PICK i \in T : \A k \in T : i <= k
      <4> HIDE DEF T
      <4>1. T \in SUBSET Nat
        BY DEF T
      <4> QED
        BY <4>1, LeastNumber
    <3>2. i \in 1 .. n /\ f[i] \notin Seq(S) /\ rows[i] \in Seq(S)
      BY <1>1, <3>1
    <3>3. f[i] = IF i = 1 THEN rows[i] ELSE f[i - 1] \o rows[i]
      BY <2>1, <3>2 DEF Flattens
    <3>4. i # 1
      BY <3>2, <3>3
    <3>5. i - 1 \in 1 .. n /\ i - 1 \notin T
      BY <1>1, <3>1, <3>2, <3>4
    <3>6. f[i - 1] \in Seq(S)
      BY <3>5
    <3>7. f[i - 1] \o rows[i] \in Seq(S)
      BY <3>2, <3>6, ConcatProperties
    <3> QED
      BY <3>2, <3>3, <3>4, <3>7
  <2>3. n \in 1 .. n
    BY <1>1, <1>3
  <2> QED
    BY <2>1, <2>2, <2>3
<1> QED
  BY <1>2, <1>3

-----------------------------------------------------------------------------
(* The calls as the report lists them.                                     *)

Calls == [tool : Tools, round : Nat, result : Results]

CallsOf(r) ==
    [i \in 1 .. Len(transcript[r]) |->
        [tool |-> transcript[r][i].tool, round |-> r, result |-> transcript[r][i].result]]

\* The calls of the first n messages.
CallsUpTo(n) == FlattenSeq([r \in 1 .. n |-> CallsOf(r)])

LEMMA CallsOfAMessage ==
    ASSUME TypeOK, NEW r \in 1 .. Round
    PROVE  /\ CallsOf(r) \in Seq(Calls) /\ Len(CallsOf(r)) = Len(transcript[r])
           /\ \A i \in 1 .. Len(transcript[r]) : CallsOf(r)[i].round = r
<1>1. /\ Len(transcript[r]) \in Nat /\ r \in Nat
      /\ \A i \in 1 .. Len(transcript[r]) :
             transcript[r][i] \in [tool : Tools, parses : BOOLEAN, result : Results]
  BY Rows
<1>2. CallsOf(r) \in [1 .. Len(transcript[r]) -> Calls]
  BY <1>1 DEF CallsOf, Calls
<1>3. CallsOf(r) \in Seq(Calls) /\ Len(CallsOf(r)) = Len(transcript[r])
  BY <1>1, <1>2
<1> QED
  BY <1>3 DEF CallsOf

LEMMA CallsAreASequence ==
    ASSUME TypeOK, NEW n \in 0 .. Round
    PROVE  /\ n \in Nat /\ [r \in 1 .. n |-> CallsOf(r)] \in Seq(Seq(Calls))
           /\ Len([r \in 1 .. n |-> CallsOf(r)]) = n
           /\ CallsUpTo(n) \in Seq(Calls) /\ Len(CallsUpTo(n)) \in Nat
<1>1. Round \in Nat /\ n \in Nat /\ n <= Round
  BY LenProperties DEF TypeOK, Round
<1>2. \A r \in 1 .. n : CallsOf(r) \in Seq(Calls)
  <2> SUFFICES ASSUME NEW r \in 1 .. n PROVE CallsOf(r) \in Seq(Calls)
    OBVIOUS
  <2>1. r \in 1 .. Round
    BY <1>1
  <2> QED
    BY <2>1, CallsOfAMessage
<1>3. [r \in 1 .. n |-> CallsOf(r)] \in [1 .. n -> Seq(Calls)]
  BY <1>2
<1> DEFINE rows == [r \in 1 .. n |-> CallsOf(r)]
<1>4. rows \in Seq(Seq(Calls)) /\ Len(rows) = n
  <2> HIDE DEF rows
  <2> QED
    BY <1>1, <1>3 DEF rows
<1>5. FlattenSeq(rows) \in Seq(Calls)
  BY <1>4, FlattenType
<1> QED
  BY <1>1, <1>4, <1>5, LenProperties DEF CallsUpTo

\* Each message adds its calls, all of its own round.
LEMMA CallsOneMore ==
    ASSUME TypeOK, NEW n \in Nat, n + 1 \in 1 .. Round
    PROVE  CallsUpTo(n + 1) = CallsUpTo(n) \o CallsOf(n + 1)
<1> DEFINE rows == [r \in 1 .. n |-> CallsOf(r)]
           more == [r \in 1 .. n + 1 |-> CallsOf(r)]
<1>1. Round \in Nat /\ n \in 0 .. Round /\ n + 1 \in 0 .. Round
  BY LenProperties DEF TypeOK, Round
<1>2. /\ rows \in Seq(Seq(Calls)) /\ Len(rows) = n
      /\ more \in Seq(Seq(Calls)) /\ Len(more) = n + 1
  BY <1>1, CallsAreASequence
<1>3. CallsOf(n + 1) \in Seq(Calls)
  BY CallsOfAMessage
<1>4. more = Append(rows, CallsOf(n + 1))
  <2>1. /\ Append(rows, CallsOf(n + 1)) \in Seq(Seq(Calls))
        /\ Len(Append(rows, CallsOf(n + 1))) = n + 1
        /\ \A i \in 1 .. n : Append(rows, CallsOf(n + 1))[i] = rows[i]
        /\ Append(rows, CallsOf(n + 1))[n + 1] = CallsOf(n + 1)
    BY <1>2, <1>3, AppendProperties
  <2>2. DOMAIN Append(rows, CallsOf(n + 1)) = 1 .. n + 1
    BY <2>1, LenProperties
  <2>3. /\ \A i \in 1 .. n : rows[i] = CallsOf(i) /\ more[i] = CallsOf(i)
        /\ more[n + 1] = CallsOf(n + 1) /\ DOMAIN more = 1 .. n + 1
    OBVIOUS
  <2> DEFINE app == Append(rows, CallsOf(n + 1))
  <2>4. app = [i \in 1 .. n + 1 |-> app[i]] /\ more = [i \in 1 .. n + 1 |-> more[i]]
    <3>1. app \in [1 .. n + 1 -> Seq(Calls)]
      BY <2>1, <2>2, LenProperties
    <3> HIDE DEF app
    <3> QED
      BY <3>1
  <2>5. \A i \in 1 .. n + 1 : app[i] = more[i]
    <3>1. \A i \in 1 .. n + 1 : i \in 1 .. n \/ i = n + 1
      OBVIOUS
    <3> HIDE DEF rows, more
    <3> QED
      BY <2>1, <2>3, <3>1
  <2> HIDE DEF app, more
  <2> QED
    BY <2>4, <2>5 DEF app
<1>5. FlattenSeq(more) = FlattenSeq(rows) \o CallsOf(n + 1)
  <2> HIDE DEF rows, more
  <2> QED
    BY <1>2, <1>3, <1>4, FlattenOneMore
<1> QED
  BY <1>5 DEF CallsUpTo

LEMMA CallsStand ==
    ASSUME NEW n, \A r \in 1 .. n : transcript'[r] = transcript[r]
    PROVE  CallsUpTo(n)' = CallsUpTo(n)
<1>1. \A r \in 1 .. n : CallsOf(r)' = CallsOf(r)
  BY DEF CallsOf
<1>2. [r \in 1 .. n |-> CallsOf(r)]' = [r \in 1 .. n |-> CallsOf(r)]
  BY <1>1
<1> QED
  BY <1>2 DEF CallsUpTo

-----------------------------------------------------------------------------
(* Why rounds are true.                                                    *)

\* The first n records, were they as many as the calls of the first r messages,
\* are of the rounds these calls are of.
Agree(n, r) ==
    /\ n <= Len(CallsUpTo(r))
    /\ n = Len(CallsUpTo(r)) =>
           \A i \in 1 .. n : executions[i].call[1] = CallsUpTo(r)[i].round

\* Batch follows batch, so the records of a batch are one block: the records
\* before it agree with the calls before it, the records after are its own.
\* Between batches every record is one of those before.
Blocks ==
    /\ pc \in {"calling", "forced"} => Agree(Len(executions), Round)
    /\ pc = "tools" =>
           \E b \in 0 .. Len(executions) :
               /\ Agree(b, Round - 1)
               /\ \A n \in b + 1 .. Len(executions) : executions[n].call[1] = Round

\* A call has one record, so a batch has no more records than calls.
LEMMA BlockIsShort ==
    ASSUME Inv, pc = "tools", NEW b \in 0 .. Len(executions),
           \A n \in b + 1 .. Len(executions) : executions[n].call[1] = Round
    PROVE  Len(executions) <= b + Len(transcript[Round])
<1> DEFINE block == b + 1 .. Len(executions)
           places == 1 .. Len(transcript[Round])
           f == [n \in block |-> executions[n].call[2]]
<1>1. Len(executions) \in Nat /\ b \in Nat
  BY LenProperties DEF Inv, TypeOK
<1>2. PICK r \in 1 .. Round : r = Round
  BY LenProperties DEF Inv, TypeOK, Round
<1>3. Len(transcript[Round]) \in Nat
  BY <1>2, Rows DEF Inv
<1>4. ASSUME NEW n \in block
      PROVE  f[n] \in places /\ executions[n].call = <<Round, f[n]>>
  <2>1. n \in 1 .. Len(executions) /\ executions[n].call[1] = Round
    BY <1>1
  <2>2. IsCall(executions[n].call)
    BY <2>1 DEF Inv, TypeOK
  <2>3. PICK q \in 1 .. Round : \E i \in 1 .. Len(transcript[q]) : executions[n].call = <<q, i>>
    BY <2>2, Zenon DEF IsCall
  <2>4. PICK i \in 1 .. Len(transcript[q]) : executions[n].call = <<q, i>>
    BY <2>3
  <2>5. q = Round /\ f[n] = i
    BY <2>1, <2>4
  <2> QED
    BY <2>4, <2>5
<1>5. \A m, n \in block : f[m] = f[n] => m = n
  <2> SUFFICES ASSUME NEW m \in block, NEW n \in block, f[m] = f[n] PROVE m = n
    OBVIOUS
  <2> HIDE DEF f
  <2>1. executions[m].call = executions[n].call
    BY <1>4
  <2>2. m \in 1 .. Len(executions) /\ n \in 1 .. Len(executions)
    BY <1>1
  <2> QED
    BY <2>1, <2>2 DEF Inv, RecordsAreDistinct
<1>6. f \in Injection(block, places)
  <2>1. f \in [block -> places]
    BY <1>4
  <2> HIDE DEF f
  <2> QED
    BY <1>5, <2>1 DEF Injection, IsInjective
<1>7. IsFiniteSet(places) /\ Cardinality(places) = Len(transcript[Round])
  <2>1. PICK k \in Nat : k = Len(transcript[Round])
    BY <1>3
  <2>2. 1 \in Int /\ k \in Int
    OBVIOUS
  <2>3. IsFiniteSet(1 .. k) /\ Cardinality(1 .. k) = IF 1 > k THEN 0 ELSE k - 1 + 1
    BY <2>2, FS_Interval
  <2> QED
    BY <2>1, <2>3
<1> HIDE DEF f
<1>8. Cardinality(block) <= Cardinality(places)
  <2> HIDE DEF block, places
  <2> QED
    BY <1>6, <1>7, FS_Injection
<1>9. Cardinality(block) = Len(executions) - b
  <2>1. PICK x \in Int, y \in Int : x = b + 1 /\ y = Len(executions)
    BY <1>1
  <2>2. Cardinality(x .. y) = IF x > y THEN 0 ELSE y - x + 1
    BY FS_Interval
  <2> QED
    BY <1>1, <2>1, <2>2
<1> HIDE DEF block, places
<1> QED
  BY <1>1, <1>3, <1>7, <1>8, <1>9

\* The invariant for the rounds of the report.
RoundsInv == Blocks /\ RoundsAreTrue

LEMMA RoundsInit == Init => RoundsInv
<1> SUFFICES ASSUME Init PROVE RoundsInv
  OBVIOUS
<1>1. /\ pc = "calling" /\ transcript = <<>> /\ executions = <<>> /\ report.kind = "none"
      /\ Len(executions) = 0 /\ Round = 0
  BY DEF Init, NoReport, Round
<1>2. TypeOK
  BY InvInit DEF Inv
<1>3. Len(CallsUpTo(0)) \in Nat
  BY <1>1, <1>2, CallsAreASequence
<1>4. Agree(0, 0)
  BY <1>3 DEF Agree
<1> QED
  BY <1>1, <1>4 DEF RoundsInv, Blocks, RoundsAreTrue

\* Answering is what makes a report of the records.
LEMMA AnswerTellsRounds ==
    ASSUME Inv, Blocks, Answer
    PROVE  RoundsInv'
<1>1. /\ pc' = "over" /\ pc \in {"calling", "forced"} /\ executions' = executions
      /\ report'.rounds = JoinedRounds(executions)
  BY DEF Answer, Returns
<1>2. Agree(Len(executions), Round)
  BY <1>1 DEF Blocks
<1>3. ToolCalls = CallsUpTo(Round)
  BY DEF ToolCalls, CallsUpTo, CallsOf
<1>4. ASSUME NEW i \in 1 .. Len(executions)
      PROVE  JoinedRounds(executions)[i] \in {0, executions[i].call[1]}
  <2>1. JoinedRounds(executions)[i] =
            IF Joinable(executions) /\ i <= Len(ToolCalls) THEN ToolCalls[i].round ELSE 0
    BY DEF JoinedRounds
  <2>2. CASE Joinable(executions)
    <3>1. Len(executions) = Len(CallsUpTo(Round))
      BY <1>3, <2>2 DEF Joinable
    <3>2. executions[i].call[1] = ToolCalls[i].round
      BY <1>2, <1>3, <3>1 DEF Agree
    <3> QED
      BY <2>1, <3>2
  <2>3. CASE ~Joinable(executions)
    BY <2>1, <2>3
  <2> QED
    BY <2>2, <2>3
<1>5. RoundsAreTrue'
  BY <1>1, <1>4 DEF RoundsAreTrue
<1> QED
  BY <1>1, <1>5 DEF RoundsInv, Blocks

\* Calls that stay what they are, and records that stay where they are.
LEMMA AgreeStands ==
    ASSUME NEW b \in Nat, NEW r, Agree(b, r),
           \A q \in 1 .. r : transcript'[q] = transcript[q],
           \A n \in 1 .. b : executions'[n] = executions[n]
    PROVE  Agree(b, r)'
<1>1. CallsUpTo(r)' = CallsUpTo(r)
  BY CallsStand
<1> QED
  BY <1>1 DEF Agree

\* How the blocks of a later state are shown.
LEMMA BlocksInABatch ==
    ASSUME pc' = "tools", NEW r \in Nat, Round' = r + 1, NEW b \in 0 .. Len(executions'),
           Agree(b, r)', \A n \in b + 1 .. Len(executions') : executions'[n].call[1] = r + 1
    PROVE  Blocks'
<1>1. Round' - 1 = r
  OBVIOUS
<1>2. Agree(b, Round - 1)'
  BY <1>1 DEF Agree, CallsUpTo
<1>3. (\A n \in b + 1 .. Len(executions) : executions[n].call[1] = Round)'
  OBVIOUS
<1> QED
  BY <1>2, <1>3 DEF Blocks

\* A batch begins: every record so far is one of those before it.
LEMMA AskKeepsBlocks ==
    ASSUME Inv, Blocks, Ask
    PROVE  Blocks'
<1>1. PICK message : transcript' = Append(transcript, message)
  BY DEF Ask
<1>2. pc = "calling" /\ pc' = "tools" /\ executions' = executions
  BY DEF Ask
<1>3. transcript \in Seq(Messages) /\ executions \in Seq(Records)
  BY DEF Inv, TypeOK
<1>4. PICK r \in Nat : r = Round
  BY <1>3, LenProperties DEF Round
<1>5. Round' = r + 1 /\ \A q \in 1 .. r : transcript'[q] = transcript[q]
  BY <1>1, <1>3, <1>4 DEF Round
<1>6. PICK b \in Nat : b = Len(executions)
  BY <1>3, LenProperties
<1>7. Agree(b, r)
  BY <1>2, <1>4, <1>6 DEF Blocks
<1>8. Agree(b, r)'
  BY <1>2, <1>5, <1>7, AgreeStands
<1>9. b \in 0 .. Len(executions') /\ b + 1 .. Len(executions') = {}
  BY <1>2, <1>6
<1> QED
  BY <1>2, <1>5, <1>8, <1>9, BlocksInABatch

\* Within a batch, what is recorded is of the batch's round.
LEMMA BatchKeepsBlocks ==
    ASSUME Inv, Blocks, pc = "tools", pc' = "tools", Round' = Round,
           \A q \in 1 .. Round - 1 : transcript'[q] = transcript[q],
           Len(executions') \in Nat, Len(executions) <= Len(executions'),
           \A n \in 1 .. Len(executions) : executions'[n] = executions[n],
           \A n \in Len(executions) + 1 .. Len(executions') : executions'[n].call[1] = Round
    PROVE  Blocks'
<1>1. PICK b \in 0 .. Len(executions) :
          Agree(b, Round - 1) /\ \A n \in b + 1 .. Len(executions) : executions[n].call[1] = Round
  BY DEF Blocks
<1>2. Len(executions) \in Nat /\ Round \in Nat /\ Round > 0
  BY LenProperties DEF Inv, TypeOK, Round
<1>3. PICK r \in Nat : r = Round - 1
  BY <1>2
<1>4. b \in Nat /\ b \in 0 .. Len(executions') /\ \A n \in 1 .. b : executions'[n] = executions[n]
  BY <1>2
<1>5. Agree(b, r) /\ \A q \in 1 .. r : transcript'[q] = transcript[q]
  BY <1>1, <1>3
<1>6. Agree(b, r)'
  BY <1>4, <1>5, AgreeStands
<1>7. ASSUME NEW n \in b + 1 .. Len(executions')
      PROVE  executions'[n].call[1] = r + 1
  <2>1. r + 1 = Round
    BY <1>2, <1>3
  <2>2. n \in Nat /\ (n \in b + 1 .. Len(executions) \/ n \in Len(executions) + 1 .. Len(executions'))
    BY <1>2
  <2>3. n \in b + 1 .. Len(executions) => n \in 1 .. Len(executions)
    BY <1>2
  <2> QED
    BY <1>1, <2>1, <2>2, <2>3
<1>8. Round' = r + 1
  BY <1>2, <1>3
<1> QED
  BY <1>4, <1>6, <1>7, <1>8, BlocksInABatch

\* Answering one call of the batch leaves the messages before it alone.
LEMMA EarlierStand ==
    ASSUME Inv, NEW i, NEW result, transcript' = [transcript EXCEPT ![Round][i].result = result]
    PROVE  Round' = Round /\ \A q \in 1 .. Round - 1 : transcript'[q] = transcript[q]
<1>1. transcript \in Seq(Messages) /\ Round \in Nat /\ DOMAIN transcript = 1 .. Round
  BY LenProperties DEF Inv, TypeOK, Round
<1> DEFINE row == [transcript[Round] EXCEPT ![i].result = result]
<1>2. transcript' = [transcript EXCEPT ![Round] = row]
  OBVIOUS
<1> HIDE DEF row
<1>3. DOMAIN transcript' = 1 .. Round /\ \A q \in 1 .. Round : q # Round => transcript'[q] = transcript[q]
  BY <1>1, <1>2
<1>4. transcript' \in [1 .. Round -> Range(transcript) \cup {row}]
  BY <1>1, <1>2 DEF Range
<1>5. Len(transcript') = Round
  BY <1>1, <1>4
<1> QED
  BY <1>1, <1>3, <1>5 DEF Round

\* Every record of a call that ends in the batch is of the batch's round.
LEMMA RecordKeepsBlocks ==
    ASSUME Inv, Blocks, pc = "tools", pc' = "tools", NEW i, NEW result, NEW executed,
           transcript' = [transcript EXCEPT ![Round][i].result = result],
           executions' = Append(executions, Record(i, executed))
    PROVE  Blocks'
<1>1. executions \in Seq(Records) /\ Len(executions) \in Nat
  BY LenProperties DEF Inv, TypeOK
<1>2. /\ Len(executions') = Len(executions) + 1
      /\ \A n \in 1 .. Len(executions) : executions'[n] = executions[n]
      /\ executions'[Len(executions) + 1] = Record(i, executed)
  <2> DEFINE S == Records \cup {Record(i, executed)}
  <2>1. executions \in Seq(S) /\ Record(i, executed) \in S
    BY <1>1, SeqMonotonic
  <2> HIDE DEF S
  <2> QED
    BY <2>1, AppendProperties
<1>3. Record(i, executed).call[1] = Round
  BY DEF Record
<1>4. \A n \in Len(executions) + 1 .. Len(executions') : n = Len(executions) + 1
  BY <1>1, <1>2
<1>5. \A n \in Len(executions) + 1 .. Len(executions') : executions'[n].call[1] = Round
  BY <1>2, <1>3, <1>4
<1>6. Len(executions') \in Nat /\ Len(executions) <= Len(executions')
  BY <1>1, <1>2
<1> QED
  BY <1>2, <1>5, <1>6, EarlierStand, BatchKeepsBlocks

\* The batch is over: with its own records and its own calls, the records are
\* as many as the calls only if they were so before and no call of it is missing.
LEMMA NextResponseKeepsBlocks ==
    ASSUME Inv, Blocks, NextResponse
    PROVE  Blocks'
<1>1. /\ pc = "tools" /\ pc' \in {"calling", "forced"}
      /\ UNCHANGED <<transcript, executions>>
  BY DEF NextResponse
<1>2. PICK b \in 0 .. Len(executions) :
          Agree(b, Round - 1) /\ \A n \in b + 1 .. Len(executions) : executions[n].call[1] = Round
  BY <1>1 DEF Blocks
<1>3. TypeOK /\ Len(executions) \in Nat /\ Round \in Nat /\ Round > 0
  BY <1>1, LenProperties DEF Inv, TypeOK, Round
<1>4. PICK r \in Nat : r + 1 = Round /\ r = Round - 1 /\ r + 1 \in 1 .. Round /\ r \in 0 .. Round
  BY <1>3
<1>5. Len(executions) <= b + Len(transcript[Round])
  BY <1>1, <1>2, BlockIsShort
<1>6. /\ CallsOf(r + 1) \in Seq(Calls) /\ Len(CallsOf(r + 1)) = Len(transcript[r + 1])
      /\ \A i \in 1 .. Len(transcript[r + 1]) : CallsOf(r + 1)[i].round = r + 1
      /\ Len(transcript[r + 1]) \in Nat
  <2>1. PICK q \in 1 .. Round : q = r + 1
    BY <1>4
  <2> QED
    BY <1>3, <2>1, CallsOfAMessage, Rows
<1>7. CallsUpTo(r) \in Seq(Calls) /\ Len(CallsUpTo(r)) \in Nat
  BY <1>3, <1>4, CallsAreASequence
<1>8. CallsUpTo(r + 1) = CallsUpTo(r) \o CallsOf(r + 1)
  BY <1>3, <1>4, CallsOneMore
<1>9. /\ Len(CallsUpTo(r + 1)) = Len(CallsUpTo(r)) + Len(CallsOf(r + 1))
      /\ \A i \in 1 .. Len(CallsUpTo(r)) + Len(CallsOf(r + 1)) :
             CallsUpTo(r + 1)[i] = IF i <= Len(CallsUpTo(r)) THEN CallsUpTo(r)[i]
                                   ELSE CallsOf(r + 1)[i - Len(CallsUpTo(r))]
  BY <1>6, <1>7, <1>8, ConcatProperties
<1>10. Agree(Len(executions), r + 1)
  <2>1. b <= Len(CallsUpTo(r))
    BY <1>2, <1>4 DEF Agree
  <2>2. Len(executions) <= Len(CallsUpTo(r + 1))
    BY <1>3, <1>4, <1>5, <1>6, <1>7, <1>9, <2>1
  <2>3. ASSUME Len(executions) = Len(CallsUpTo(r + 1)), NEW i \in 1 .. Len(executions)
        PROVE  executions[i].call[1] = CallsUpTo(r + 1)[i].round
    <3>1. b = Len(CallsUpTo(r))
      BY <1>3, <1>4, <1>5, <1>6, <1>7, <1>9, <2>1, <2>3
    <3>2. CASE i <= b
      <4>1. i \in 1 .. b /\ CallsUpTo(r + 1)[i] = CallsUpTo(r)[i]
        BY <1>3, <1>9, <2>3, <3>1, <3>2
      <4>2. executions[i].call[1] = CallsUpTo(r)[i].round
        BY <1>2, <1>4, <3>1, <4>1 DEF Agree
      <4> QED
        BY <4>1, <4>2
    <3>3. CASE i > b
      <4>1. /\ i \in b + 1 .. Len(executions) /\ i - b \in 1 .. Len(transcript[r + 1])
            /\ CallsUpTo(r + 1)[i] = CallsOf(r + 1)[i - b]
        BY <1>3, <1>6, <1>7, <1>9, <2>3, <3>1, <3>3
      <4>2. CallsUpTo(r + 1)[i].round = r + 1
        BY <1>6, <4>1
      <4> QED
        BY <1>2, <1>4, <4>1, <4>2
    <3>4. b \in Nat /\ i \in Nat
      BY <1>3
    <3> QED
      BY <3>2, <3>3, <3>4
  <2> QED
    BY <2>2, <2>3 DEF Agree
<1>11. Agree(Len(executions), Round)
  BY <1>4, <1>10
<1>12. Agree(Len(executions), Round)'
  BY <1>1, <1>11 DEF Agree, CallsUpTo, CallsOf, Round
<1> QED
  BY <1>1, <1>12 DEF Blocks

LEMMA RoundsStep ==
    ASSUME Inv, RoundsInv, [Next]_vars
    PROVE  RoundsInv'
<1>1. Blocks /\ RoundsAreTrue
  BY DEF RoundsInv
<1>2. ASSUME pc # "over", report' = report \/ report'.kind # "result"
      PROVE  RoundsAreTrue'
  BY <1>2 DEF Inv, TypeOK, RoundsAreTrue
<1>3. CASE Answer
  BY <1>1, <1>3, AnswerTellsRounds
<1>4. CASE Ask
  BY <1>1, <1>2, <1>4, AskKeepsBlocks DEF Ask, RoundsInv
<1>5. CASE Reject
  <2>1. PICK i : transcript' = [transcript EXCEPT ![Round][i].result = "error"]
    BY <1>5 DEF Reject
  <2>2. pc = "tools" /\ pc' = "tools" /\ report' = report /\ executions' = executions
    BY <1>5 DEF Reject
  <2>3. Len(executions) \in Nat
    BY LenProperties DEF Inv, TypeOK
  <2>4. Round' = Round /\ \A q \in 1 .. Round - 1 : transcript'[q] = transcript[q]
    BY <2>1, EarlierStand
  <2>5. Len(executions) + 1 .. Len(executions') = {} /\ Len(executions) <= Len(executions')
    BY <2>2, <2>3
  <2>6. Blocks'
    BY <1>1, <2>2, <2>3, <2>4, <2>5, BatchKeepsBlocks
  <2> QED
    BY <1>2, <2>2, <2>6 DEF RoundsInv
<1>6. CASE NextResponse
  BY <1>1, <1>2, <1>6, NextResponseKeepsBlocks DEF NextResponse, RoundsInv
<1>7. CASE Admit
  <2>1. pc = "tools" /\ pc' = "tools" /\ UNCHANGED <<transcript, executions, report>>
    BY <1>7 DEF Admit
  <2>2. Blocks'
    BY <1>1, <2>1 DEF Blocks, Agree, CallsUpTo, CallsOf, Round
  <2> QED
    BY <1>2, <2>1, <2>2 DEF RoundsInv
<1>8. CASE Refuse
  <2>1. PICK i : /\ transcript' = [transcript EXCEPT ![Round][i].result = "refusal"]
                 /\ executions' = Append(executions, Record(i, FALSE))
    BY <1>8 DEF Refuse
  <2>2. pc = "tools" /\ pc' = "tools" /\ report' = report
    BY <1>8 DEF Refuse
  <2>3. Blocks'
    BY <1>1, <2>1, <2>2, RecordKeepsBlocks
  <2> QED
    BY <1>2, <2>2, <2>3 DEF RoundsInv
<1>9. CASE Complete
  <2>1. PICK i, result : /\ transcript' = [transcript EXCEPT ![Round][i].result = result]
                         /\ executions' = Append(executions, Record(i, TRUE))
    BY <1>9 DEF Complete
  <2>2. pc = "tools" /\ pc' = "tools" /\ report' = report
    BY <1>9 DEF Complete
  <2>3. Blocks'
    BY <1>1, <2>1, <2>2, RecordKeepsBlocks
  <2> QED
    BY <1>2, <2>2, <2>3 DEF RoundsInv
<1>10. CASE Fail
  BY <1>2, <1>10 DEF Fail, RoundsInv, Blocks
<1>11. CASE Cancel
  BY <1>2, <1>11 DEF Cancel, RoundsInv, Blocks
<1>12. CASE UNCHANGED vars
  <2>1. UNCHANGED <<pc, transcript, executions, report>>
    BY <1>12 DEF vars
  <2>2. Blocks'
    BY <1>1, <2>1, ZenonT(60) DEF Blocks, Agree, CallsUpTo, CallsOf, Round
  <2>3. RoundsAreTrue'
    BY <1>1, <2>1 DEF RoundsAreTrue
  <2> QED
    BY <2>2, <2>3 DEF RoundsInv
<1> QED
  BY <1>3, <1>4, <1>5, <1>6, <1>7, <1>8, <1>9, <1>10, <1>11, <1>12 DEF Next

(* Every execution the report shows under a round was asked for by that      *)
(* message, whatever order the bodies ended in: the snapshot sees the results *)
(* of the whole transcript flattened, and the sink the same calls in the      *)
(* order of their bodies (_join_snapshot_executions).                         *)
THEOREM RoundsAreOwn == Spec => []RoundsAreTrue
<1>1. RoundsInv => RoundsAreTrue
  BY DEF RoundsInv
<1>2. Inv /\ RoundsInv /\ [Next]_vars => RoundsInv'
  BY RoundsStep
<1> QED
  BY <1>1, <1>2, RoundsInit, InvHolds, PTL DEF Spec

-----------------------------------------------------------------------------
(* One call of the model: the inductive invariant.                         *)

GenStates == {"none", "fresh", "live", "done", "dropped"}
UpstreamCodes == {"upstream_timeout", "upstream_throttled", "configuration_error",
                  "content_filtered", "invalid_input", "upstream_error"}
Frames == {[kind |-> "delta"]} \cup {Call!DoneFrame(done) : done \in Dones}
              \cup {Call!Refusal(kind, code) : kind \in {"http", "error"}, code \in UpstreamCodes \cup {"storage_error"}}
CallTypes ==
    /\ callPc \in {"complete", "open", "opened", "pulling", "sending", "over"}
    /\ gen \in [Call!Generators -> GenStates]
    /\ span \in [open : BOOLEAN, outcome : {None, "success", "rejected", "error"},
                 code : UpstreamCodes \cup {None}]
    /\ seen \in Dones \cup {None}
    /\ told \in Seq(Frames)
    /\ answer \in {"none", "terminal", "failed", "eof"}

\* The model has not ended the call, and nobody has settled anything.
Unsettled == span.open /\ span.outcome = None /\ answer = "none" /\ seen = None /\ event = None
Everyone(state) == gen = [g \in Call!Generators |-> state]
OnlyDeltas == \A n \in 1 .. Len(told) : told[n].kind = "delta"

\* Until a terminal is sent the whole chain is in one state, and unsettled.
ChainIsWhole ==
    /\ callPc \in {"complete", "open"} => Everyone("none") /\ Unsettled /\ told = <<>>
    /\ callPc = "opened" => Everyone("fresh") /\ Unsettled /\ told = <<>>
    /\ callPc = "pulling" => Everyone("live") /\ Unsettled /\ OnlyDeltas
    /\ callPc = "sending" /\ ~Call!TerminalSent => Everyone("live") /\ Unsettled

\* The span: its first outcome is the model's, whoever ends it.
SpanIsTheModels ==
    /\ span.outcome = "success" <=> answer = "terminal"
    /\ span.open => span.outcome \in {None, "success"}

\* The snapshot of _audit_observed: while that generator lives it is what the
\* caller was told.
SnapshotIsTold ==
    /\ seen # None => /\ answer = "terminal" /\ told # <<>> /\ Last(told).kind = "done"
                      /\ seen = [status |-> Last(told).status, reason |-> Last(told).reason]
    /\ gen[Call!Observe] \in {"fresh", "live"} =>
           event = None /\ (Call!TerminalSent <=> seen # None)

\* The event comes with the end, and every failure has one.
EventIsLast ==
    /\ event # None => callPc = "over" \/ (callPc = "sending" /\ Call!TerminalSent)
    /\ answer = "failed" => event # None

CallInv == CallTypes /\ ChainIsWhole /\ SpanIsTheModels /\ SnapshotIsTold /\ EventIsLast /\ OneStory

-----------------------------------------------------------------------------
(* The words of a call.                                                    *)

LEMMA DonesAreDone ==
    ASSUME NEW done \in Dones
    PROVE  /\ done # None /\ done.status \in {"completed", "incomplete"} /\ done.status # None
           /\ done.reason # None => done.status = "incomplete"
           /\ done = [status |-> done.status, reason |-> done.reason]
<1>1. PICK terminal \in Call!Terminals : done = Call!Done(terminal)
  BY DEF Dones
<1>2. /\ terminal = [status |-> terminal.status, reason |-> terminal.reason]
      /\ terminal.status \in {"completed", "incomplete"}
  BY DEF Call!Terminals
<1>3. done = [status |-> terminal.status,
              reason |-> IF terminal.status = "incomplete"
                         THEN Call!MapIncompleteReason(terminal.reason) ELSE None]
  BY <1>1, <1>2 DEF Call!Done
<1>4. done # None
  BY NoneAssumption
<1> QED
  BY <1>2, <1>3, <1>4, NoneAssumption

LEMMA TranslationsAreCodes ==
    /\ \A exc : Call!TranslateUpstreamError(exc) \in UpstreamCodes
    /\ \A code : Call!TranslateFailedEvent(code) \in UpstreamCodes
BY DEF Call!TranslateUpstreamError, Call!TranslateFailedEvent, UpstreamCodes

LEMMA SuccessIsAccepted ==
    ASSUME NEW done \in Dones
    PROVE  /\ Call!Succeeded(done) # None /\ Call!Accepts(Call!Succeeded(done))
           /\ Call!Succeeded(done).outcome = "success"
<1>1. Call!Succeeded(done) # None
  BY NoneAssumption DEF CallEvents
<1> QED
  BY <1>1, DonesAreDone DEF Call!Succeeded, Call!Accepts

LEMMA FailureIsAccepted ==
    ASSUME NEW code \in UpstreamCodes
    PROVE  /\ Call!Failed(code) # None /\ Call!Accepts(Call!Failed(code))
           /\ Call!Failed(code).outcome \in {"rejected", "error"} /\ Call!Failed(code).code = code
           /\ Call!Failed(code).outcome = Call!UpstreamOutcome(code)
<1>1. Call!Failed(code) # None
  BY NoneAssumption DEF CallEvents, Codes, UpstreamCodes, Call!RejectedCodes, Call!ErrorCodes
<1> QED
  BY <1>1 DEF UpstreamCodes, Call!Failed, Call!Accepts, Call!UpstreamOutcome,
              Call!RejectedCodes, Call!ErrorCodes

LEMMA LossIsAccepted ==
    ASSUME NEW done \in Dones
    PROVE  /\ Call!NotStored(done) # None /\ Call!Accepts(Call!NotStored(done))
           /\ Call!NotStored(done).outcome = "error" /\ Call!NotStored(done).code = "storage_error"
<1>1. Call!NotStored(done) # None
  BY NoneAssumption DEF CallEvents
<1>2. /\ Call!NotStored(done).outcome = "error" /\ Call!NotStored(done).code = "storage_error"
      /\ Call!NotStored(done).status = done.status /\ Call!NotStored(done).reason = done.reason
  <2>1. Call!Failed("storage_error") = [outcome |-> "error", code |-> "storage_error",
                                        status |-> None, reason |-> None]
    BY DEF Call!Failed, Call!UpstreamOutcome
  <2> QED
    BY <2>1 DEF Call!NotStored
<1> QED
  BY <1>1, <1>2, DonesAreDone DEF Call!Accepts, Call!ErrorCodes

LEMMA LeavingIsAccepted ==
    /\ Call!Disconnected # None /\ Call!Accepts(Call!Disconnected)
    /\ Call!Disconnected.outcome = "error"
<1>1. Call!Disconnected # None
  BY NoneAssumption DEF CallEvents
<1> QED
  BY <1>1 DEF Call!Disconnected, Call!Accepts, Call!ErrorCodes

LEMMA FramesAreFrames ==
    /\ \A done \in Dones : /\ Call!DoneFrame(done) \in Frames /\ Call!DoneFrame(done).kind = "done"
                           /\ [status |-> Call!DoneFrame(done).status,
                               reason |-> Call!DoneFrame(done).reason] = done
    /\ \A kind \in {"http", "error"}, code \in UpstreamCodes \cup {"storage_error"} :
           /\ Call!Refusal(kind, code) \in Frames /\ Call!Refusal(kind, code).kind = kind
           /\ Call!Refusal(kind, code).code = code
<1>1. ASSUME NEW done \in Dones
      PROVE  /\ Call!DoneFrame(done) \in Frames /\ Call!DoneFrame(done).kind = "done"
             /\ [status |-> Call!DoneFrame(done).status,
                 reason |-> Call!DoneFrame(done).reason] = done
  BY DonesAreDone DEF Frames, Call!DoneFrame
<1>2. ASSUME NEW kind \in {"http", "error"}, NEW code \in UpstreamCodes \cup {"storage_error"}
      PROVE  /\ Call!Refusal(kind, code) \in Frames /\ Call!Refusal(kind, code).kind = kind
             /\ Call!Refusal(kind, code).code = code
  <2>1. Call!Refusal(kind, code) \in Frames
    BY DEF Frames
  <2> QED
    BY <2>1 DEF Call!Refusal
<1> QED
  BY <1>1, <1>2

\* One frame more: it is the last.
LEMMA OneFrameMore ==
    ASSUME told \in Seq(Frames), NEW frame \in Frames, told' = Append(told, frame)
    PROVE  /\ told' \in Seq(Frames) /\ told' # <<>> /\ Last(told') = frame
           /\ Call!TerminalSent' <=> frame.kind # "delta"
           /\ OnlyDeltas => \A n \in 1 .. Len(told') - 1 : told'[n].kind = "delta"
           /\ OnlyDeltas /\ frame.kind = "delta" => OnlyDeltas'
<1>1. /\ told' \in Seq(Frames) /\ told' # <<>> /\ Len(told) \in Nat /\ Len(told') = Len(told) + 1
      /\ \A n \in 1 .. Len(told) : told'[n] = told[n]
      /\ told'[Len(told) + 1] = frame
  BY LenProperties, AppendProperties
<1>2. Last(told') = frame
  BY <1>1 DEF Last
<1>3. Call!TerminalSent' <=> frame.kind # "delta"
  BY <1>1, <1>2 DEF Call!TerminalSent, Call!Last
<1>4. \A n \in 1 .. Len(told') : n \in 1 .. Len(told) \/ n = Len(told')
  BY <1>1
<1> QED
  BY <1>1, <1>2, <1>3, <1>4 DEF OnlyDeltas

\* One frame only.
LEMMA FirstFrame ==
    ASSUME NEW frame \in Frames, told' = <<frame>>
    PROVE  /\ told' \in Seq(Frames) /\ told' # <<>> /\ Last(told') = frame
           /\ Call!TerminalSent' <=> frame.kind # "delta"
           /\ \A n \in 1 .. Len(told') - 1 : told'[n].kind = "delta"
<1>1. told' \in Seq(Frames) /\ Len(told') = 1 /\ told'[1] = frame /\ told' # <<>>
  OBVIOUS
<1>2. Last(told') = frame
  BY <1>1 DEF Last
<1> QED
  BY <1>1, <1>2 DEF Call!TerminalSent, Call!Last

-----------------------------------------------------------------------------
(* The span.                                                               *)

\* An end without an outcome is an error, and an outcome stays.
LEMMA SpanEnds ==
    ASSUME CallTypes
    PROVE  /\ Call!Ended(span) \in [open : BOOLEAN, outcome : {None, "success", "rejected", "error"},
                                    code : UpstreamCodes \cup {None}]
           /\ Call!Ended(span).open = FALSE
           /\ SpanIsTheModels =>
                  (Call!Ended(span).outcome = "success" <=> span.outcome = "success")
<1>1. CASE ~span.open \/ span.outcome # None
  <2>1. Call!Ended(span) = [span EXCEPT !.open = FALSE]
    BY <1>1 DEF Call!Ended, Call!Recorded
  <2> QED
    BY <2>1 DEF CallTypes
<1>2. CASE span.open /\ span.outcome = None
  <2>1. Call!Ended(span) =
            [[span EXCEPT !.outcome = "error", !.code = "upstream_error"] EXCEPT !.open = FALSE]
    BY <1>2 DEF Call!Ended, Call!Recorded
  <2>2. "upstream_error" \in UpstreamCodes
    BY DEF UpstreamCodes
  <2> QED
    BY <1>2, <2>1, <2>2, NoneAssumption DEF CallTypes
<1> QED
  BY <1>1, <1>2

LEMMA SpanSucceeds ==
    ASSUME CallTypes, span.open, span.outcome = None, span' = Call!Recorded(span, "success", None)
    PROVE  /\ span' \in [open : BOOLEAN, outcome : {None, "success", "rejected", "error"},
                         code : UpstreamCodes \cup {None}]
           /\ span'.open /\ span'.outcome = "success"
  BY DEF CallTypes, Call!Recorded

\* What a step that settles nothing leaves true.
LEMMA NothingTold ==
    ASSUME CallInv, UNCHANGED <<span, seen, event, told, answer>>,
           gen'[Call!Trace] = gen[Call!Trace], gen'[Call!Observe] = gen[Call!Observe],
           callPc' = "over" /\ ~left' => Call!TerminalSent
    PROVE  SpanIsTheModels' /\ SnapshotIsTold' /\ OneStory'
  BY DEF CallInv, SpanIsTheModels, SnapshotIsTold, OneStory, Call!OneStory,
         Call!SpanTellsTheOutcome, Call!EventTellsTheEnd, Call!TerminalSent, Call!Last

-----------------------------------------------------------------------------
(* The invariant holds.                                                    *)

LEMMA CallInit == Call!Init => CallInv
<1> SUFFICES ASSUME Call!Init PROVE CallInv
  OBVIOUS
<1>1. /\ callPc \in {"complete", "open"} /\ gen = [g \in Call!Generators |-> "none"]
      /\ span = [open |-> TRUE, outcome |-> None, code |-> None] /\ seen = None /\ event = None
      /\ told = <<>> /\ answer = "none" /\ Len(told) = 0
  BY DEF Call!Init
<1>2. told \in Seq(Frames)
  BY <1>1, EmptySeq
<1>3. CallTypes
  BY <1>1, <1>2 DEF CallTypes, GenStates
<1>4. ChainIsWhole
  BY <1>1 DEF ChainIsWhole, Everyone, Unsettled
<1>5. ~Call!TerminalSent /\ gen[Call!Observe] = "none"
  BY <1>1 DEF Call!TerminalSent, Call!Generators, Call!Observe
<1>6. SpanIsTheModels /\ SnapshotIsTold /\ EventIsLast
  BY <1>1, <1>5, NoneAssumption DEF SpanIsTheModels, SnapshotIsTold, EventIsLast
<1>7. OneStory
  BY <1>1, <1>5 DEF OneStory, Call!OneStory, Call!SpanTellsTheOutcome, Call!EventTellsTheEnd
<1> QED
  BY <1>3, <1>4, <1>6, <1>7 DEF CallInv

\* An end told in one response.
LEMMA EndsAtOnce ==
    ASSUME CallInv, callPc \in {"complete", "open"}, callPc' = "over", UNCHANGED <<gen, seen>>,
           NEW frame \in Frames, told' = <<frame>>, frame.kind # "delta",
           span' \in [open : BOOLEAN, outcome : {None, "success", "rejected", "error"},
                      code : UpstreamCodes \cup {None}],
           ~span'.open, answer' \in {"terminal", "failed"},
           span'.outcome = "success" <=> answer' = "terminal",
           answer' = "failed" => span'.outcome = event'.outcome /\ span'.code = event'.code,
           event' # None, Call!Accepts(event'), event'.outcome = "success" => answer' = "terminal",
           frame.kind = "done" => event' = Call!Succeeded([status |-> frame.status,
                                                           reason |-> frame.reason]),
           frame.kind # "done" => event'.code = frame.code
    PROVE  CallInv'
<1>1. /\ told' \in Seq(Frames) /\ told' # <<>> /\ Last(told') = frame /\ Call!TerminalSent'
      /\ \A n \in 1 .. Len(told') - 1 : told'[n].kind = "delta"
  BY FirstFrame
<1>2. /\ gen = [g \in Call!Generators |-> "none"] /\ seen = None
  BY DEF CallInv, ChainIsWhole, Everyone, Unsettled
<1>3. gen'[Call!Observe] = "none" /\ gen'[Call!Trace] = "none"
  BY <1>2 DEF Call!Generators, Call!Observe, Call!Trace
<1>4. CallTypes'
  BY <1>1 DEF CallInv, CallTypes
<1>5. (ChainIsWhole /\ SpanIsTheModels /\ SnapshotIsTold /\ EventIsLast)'
  BY <1>2, <1>3 DEF ChainIsWhole, SpanIsTheModels, SnapshotIsTold, EventIsLast
<1>6. Call!SpanTellsTheOutcome'
  BY DEF Call!SpanTellsTheOutcome
<1>7. Call!EventTellsTheEnd'
  BY <1>1, <1>3 DEF Call!EventTellsTheEnd, Call!Last, Last
<1> QED
  BY <1>4, <1>5, <1>6, <1>7 DEF CallInv, OneStory, Call!OneStory

LEMMA CompleteAnswersKeeps ==
    ASSUME CallInv, Call!CompleteAnswers
    PROVE  CallInv'
<1>1. /\ callPc = "complete" /\ callPc' = "over" /\ answer' = "terminal" /\ UNCHANGED <<gen, seen>>
      /\ span' = [open |-> FALSE, outcome |-> "success", code |-> None]
  BY DEF Call!CompleteAnswers
<1>2. PICK done \in Dones :
        \/ event' = Call!Succeeded(done) /\ told' = <<Call!DoneFrame(done)>>
        \/ /\ event' = Call!Failed("upstream_error")
           /\ told' = <<Call!Refusal("http", "upstream_error")>>
        \/ event' = Call!NotStored(done) /\ told' = <<Call!Refusal("http", "storage_error")>>
  BY DEF Call!CompleteAnswers, Dones
<1>3. CASE event' = Call!Succeeded(done) /\ told' = <<Call!DoneFrame(done)>>
  <2> DEFINE frame == Call!DoneFrame(done)
  <2>1. /\ frame \in Frames /\ frame.kind = "done"
        /\ [status |-> frame.status, reason |-> frame.reason] = done
    BY FramesAreFrames
  <2> HIDE DEF frame
  <2>2. event' # None /\ Call!Accepts(event')
    BY <1>3, SuccessIsAccepted
  <2> QED
    BY <1>1, <1>3, <2>1, <2>2, EndsAtOnce DEF frame
<1>4. CASE /\ event' = Call!Failed("upstream_error")
           /\ told' = <<Call!Refusal("http", "upstream_error")>>
  <2> DEFINE frame == Call!Refusal("http", "upstream_error")
  <2>1. "upstream_error" \in UpstreamCodes
    BY DEF UpstreamCodes
  <2>2. frame \in Frames /\ frame.kind = "http" /\ frame.code = "upstream_error"
    BY <2>1, FramesAreFrames
  <2> HIDE DEF frame
  <2>3. event' # None /\ Call!Accepts(event') /\ event'.code = "upstream_error"
    BY <1>4, <2>1, FailureIsAccepted
  <2> QED
    BY <1>1, <1>4, <2>2, <2>3, EndsAtOnce DEF frame
<1>5. CASE event' = Call!NotStored(done) /\ told' = <<Call!Refusal("http", "storage_error")>>
  <2> DEFINE frame == Call!Refusal("http", "storage_error")
  <2>1. frame \in Frames /\ frame.kind = "http" /\ frame.code = "storage_error"
    BY FramesAreFrames
  <2> HIDE DEF frame
  <2>2. event' # None /\ Call!Accepts(event') /\ event'.code = "storage_error"
    BY <1>5, LossIsAccepted
  <2> QED
    BY <1>1, <1>5, <2>1, <2>2, EndsAtOnce DEF frame
<1> QED
  BY <1>2, <1>3, <1>4, <1>5

LEMMA CompleteRaisesKeeps ==
    ASSUME CallInv, NEW code \in UpstreamCodes, Call!CompleteRaises(code)
    PROVE  CallInv'
<1> DEFINE frame == Call!Refusal("http", code)
<1>1. /\ callPc = "complete" /\ callPc' = "over" /\ answer' = "failed" /\ UNCHANGED <<gen, seen>>
      /\ span' = [open |-> FALSE, outcome |-> Call!UpstreamOutcome(code), code |-> code]
      /\ event' = Call!Failed(code) /\ told' = <<frame>>
  BY DEF Call!CompleteRaises
<1>2. frame \in Frames /\ frame.kind = "http" /\ frame.code = code
  BY FramesAreFrames
<1> HIDE DEF frame
<1>3. /\ event' # None /\ Call!Accepts(event') /\ event'.code = code
      /\ event'.outcome = Call!UpstreamOutcome(code) /\ event'.outcome \in {"rejected", "error"}
  BY <1>1, FailureIsAccepted
<1>4. /\ span' \in [open : BOOLEAN, outcome : {None, "success", "rejected", "error"},
                    code : UpstreamCodes \cup {None}]
      /\ ~span'.open /\ span'.outcome = event'.outcome /\ span'.code = event'.code
  BY <1>1, <1>3
<1> QED
  BY <1>1, <1>2, <1>3, <1>4, EndsAtOnce

LEMMA OpenFailsKeeps ==
    ASSUME CallInv, Call!OpenFails
    PROVE  CallInv'
<1>1. PICK code \in UpstreamCodes :
        /\ answer' = "failed"
        /\ span' = Call!Ended(Call!Recorded(span, Call!UpstreamOutcome(code), code))
        /\ event' = Call!Failed(code) /\ told' = <<Call!Refusal("http", code)>>
  BY TranslationsAreCodes DEF Call!OpenFails
<1>2. callPc = "open" /\ callPc' = "over" /\ UNCHANGED <<gen, seen>>
  BY DEF Call!OpenFails
<1> DEFINE frame == Call!Refusal("http", code)
<1>3. frame \in Frames /\ frame.kind = "http" /\ frame.code = code
  BY FramesAreFrames
<1> HIDE DEF frame
<1>4. /\ event' # None /\ Call!Accepts(event') /\ event'.code = code
      /\ event'.outcome = Call!UpstreamOutcome(code) /\ event'.outcome \in {"rejected", "error"}
  BY <1>1, FailureIsAccepted
<1>5. /\ span \in [open : BOOLEAN, outcome : {None, "success", "rejected", "error"},
                   code : UpstreamCodes \cup {None}]
      /\ span.open /\ span.outcome = None
  BY <1>2 DEF CallInv, CallTypes, ChainIsWhole, Unsettled
<1> DEFINE recorded == [span EXCEPT !.outcome = Call!UpstreamOutcome(code), !.code = code]
<1>6. /\ recorded \in [open : BOOLEAN, outcome : {None, "success", "rejected", "error"},
                       code : UpstreamCodes \cup {None}]
      /\ recorded.outcome = Call!UpstreamOutcome(code) /\ recorded.code = code
      /\ recorded.outcome # None
  <2>1. None \notin {"rejected", "error"}
    BY NoneAssumption
  <2> QED
    BY <1>4, <1>5, <2>1
<1>7. Call!Recorded(span, Call!UpstreamOutcome(code), code) = recorded
  BY <1>5 DEF Call!Recorded
<1>8. span' = [recorded EXCEPT !.open = FALSE]
  BY <1>1, <1>6, <1>7 DEF Call!Ended, Call!Recorded
<1> HIDE DEF recorded
<1>9. /\ span' \in [open : BOOLEAN, outcome : {None, "success", "rejected", "error"},
                    code : UpstreamCodes \cup {None}]
      /\ ~span'.open /\ span'.outcome = event'.outcome /\ span'.code = event'.code
  BY <1>4, <1>6, <1>8
<1> QED
  BY <1>1, <1>2, <1>3, <1>4, <1>9, EndsAtOnce DEF frame

\* A cancellation while the client is awaited settles the span and nothing else.
LEMMA CancelEarlyKeeps ==
    ASSUME CallInv, Call!CancelComplete \/ Call!CancelOpen
    PROVE  CallInv'
<1>1. /\ callPc \in {"complete", "open"} /\ callPc' = "over" /\ left' = TRUE
      /\ UNCHANGED <<gen, seen, event, told, answer>>
      /\ \/ span' = [span EXCEPT !.open = FALSE]
         \/ span' = Call!Ended(Call!Recorded(span, "error", "upstream_error"))
  BY DEF Call!CancelComplete, Call!CancelOpen
<1>2. /\ gen = [g \in Call!Generators |-> "none"] /\ told = <<>>
      /\ span.open /\ span.outcome = None /\ answer = "none" /\ seen = None /\ event = None
  BY <1>1 DEF CallInv, ChainIsWhole, Everyone, Unsettled
<1>3. span \in [open : BOOLEAN, outcome : {None, "success", "rejected", "error"},
                code : UpstreamCodes \cup {None}]
  BY DEF CallInv, CallTypes
<1>4. /\ span' \in [open : BOOLEAN, outcome : {None, "success", "rejected", "error"},
                    code : UpstreamCodes \cup {None}]
      /\ ~span'.open /\ span'.outcome # "success"
  <2>1. CASE span' = [span EXCEPT !.open = FALSE]
    BY <1>2, <1>3, <2>1, NoneAssumption
  <2>2. CASE span' = Call!Ended(Call!Recorded(span, "error", "upstream_error"))
    <3> DEFINE recorded == [span EXCEPT !.outcome = "error", !.code = "upstream_error"]
    <3>1. Call!Recorded(span, "error", "upstream_error") = recorded
      BY <1>2 DEF Call!Recorded
    <3>2. "upstream_error" \in UpstreamCodes
      BY DEF UpstreamCodes
    <3>3. /\ recorded \in [open : BOOLEAN, outcome : {None, "success", "rejected", "error"},
                           code : UpstreamCodes \cup {None}]
          /\ recorded.outcome = "error"
      BY <1>3, <3>2
    <3> HIDE DEF recorded
    <3>4. \/ Call!Ended(recorded) = [recorded EXCEPT !.open = FALSE]
          \/ Call!Ended(recorded) = [[recorded EXCEPT !.outcome = "error", !.code = "upstream_error"]
                                         EXCEPT !.open = FALSE]
      BY DEF Call!Ended, Call!Recorded
    <3> QED
      BY <2>2, <3>1, <3>2, <3>3, <3>4
  <2> QED
    BY <1>1, <2>1, <2>2
<1>5. CallTypes'
  BY <1>1, <1>4 DEF CallInv, CallTypes
<1>6. ~Call!TerminalSent' /\ gen'[Call!Observe] = "none" /\ gen'[Call!Trace] = "none"
  BY <1>1, <1>2 DEF Call!TerminalSent, Call!Generators, Call!Observe, Call!Trace
<1>7. (ChainIsWhole /\ SpanIsTheModels /\ SnapshotIsTold /\ EventIsLast)'
  BY <1>1, <1>2, <1>4, <1>6 DEF ChainIsWhole, SpanIsTheModels, SnapshotIsTold, EventIsLast
<1>8. Call!SpanTellsTheOutcome'
  BY <1>1, <1>2, <1>4 DEF Call!SpanTellsTheOutcome
<1>9. Call!EventTellsTheEnd'
  BY <1>1, <1>2, <1>6 DEF Call!EventTellsTheEnd
<1> QED
  BY <1>5, <1>7, <1>8, <1>9 DEF CallInv, OneStory, Call!OneStory

LEMMA OpenStreamKeeps ==
    ASSUME CallInv, Call!OpenStream
    PROVE  CallInv'
<1>1. /\ callPc = "open" /\ callPc' = "opened" /\ gen' = [g \in Call!Generators |-> "fresh"]
      /\ UNCHANGED <<span, seen, event, told, answer>>
  BY DEF Call!OpenStream
<1>2. /\ told = <<>> /\ Unsettled
  BY <1>1 DEF CallInv, ChainIsWhole
<1>3. gen' \in [Call!Generators -> GenStates]
  BY <1>1 DEF GenStates
<1>4. CallTypes'
  BY <1>1, <1>3 DEF CallInv, CallTypes
<1>5. ~Call!TerminalSent' /\ gen'[Call!Observe] = "fresh" /\ gen'[Call!Trace] = "fresh"
  BY <1>1, <1>2 DEF Call!TerminalSent, Call!Generators, Call!Observe, Call!Trace
<1>6. (ChainIsWhole /\ SpanIsTheModels /\ SnapshotIsTold /\ EventIsLast)'
  BY <1>1, <1>2, <1>5, NoneAssumption
     DEF ChainIsWhole, Everyone, Unsettled, SpanIsTheModels, SnapshotIsTold, EventIsLast
<1>7. OneStory'
  BY <1>1, <1>2, <1>5 DEF OneStory, Call!OneStory, Call!SpanTellsTheOutcome,
                          Call!EventTellsTheEnd, Unsettled
<1> QED
  BY <1>4, <1>6, <1>7 DEF CallInv

LEMMA PullKeeps ==
    ASSUME CallInv, Call!Pull
    PROVE  CallInv'
<1>1. callPc \in {"opened", "sending"} /\ UNCHANGED <<span, seen, event, told, answer, left>>
  BY DEF Call!Pull
<1>2. told \in Seq(Frames) /\ Len(told) \in Nat /\ gen \in [Call!Generators -> GenStates]
  BY LenProperties DEF CallInv, CallTypes
<1>3. CASE Call!TerminalSent
  <2>1. callPc' = "over" /\ gen' = [gen EXCEPT ![Call!Render] = "done"]
    BY <1>3 DEF Call!Pull
  <2>2. /\ gen'[Call!Observe] = gen[Call!Observe] /\ gen'[Call!Trace] = gen[Call!Trace]
        /\ gen' \in [Call!Generators -> GenStates]
    BY <1>2, <2>1 DEF Call!Render, Call!Observe, Call!Trace, Call!Generators, GenStates
  <2>3. SpanIsTheModels' /\ SnapshotIsTold' /\ OneStory'
    BY <1>1, <1>3, <2>2, NothingTold
  <2>4. CallTypes'
    BY <1>1, <2>1, <2>2 DEF CallInv, CallTypes
  <2>5. ChainIsWhole' /\ EventIsLast'
    BY <1>1, <2>1 DEF CallInv, ChainIsWhole, EventIsLast
  <2> QED
    BY <2>3, <2>4, <2>5 DEF CallInv
<1>4. CASE ~Call!TerminalSent
  <2>1. callPc' = "pulling" /\ gen' = [g \in Call!Generators |-> "live"]
    BY <1>4 DEF Call!Pull
  <2>2. Unsettled
    BY <1>1, <1>4 DEF CallInv, ChainIsWhole
  <2>3. OnlyDeltas
    <3>1. told = <<>> \/ told[Len(told)].kind = "delta"
      BY <1>4 DEF Call!TerminalSent, Call!Last
    <3>2. \A n \in 1 .. Len(told) - 1 : told[n].kind = "delta"
      BY DEF CallInv, OneStory, Call!OneStory, Call!EventTellsTheEnd
    <3>3. \A n \in 1 .. Len(told) : n \in 1 .. Len(told) - 1 \/ n = Len(told)
      BY <1>2
    <3>4. told = <<>> => Len(told) = 0
      OBVIOUS
    <3> QED
      BY <3>1, <3>2, <3>3, <3>4 DEF OnlyDeltas
  <2>4. gen' \in [Call!Generators -> GenStates]
    BY <2>1 DEF GenStates
  <2>5. CallTypes'
    BY <1>1, <2>1, <2>4 DEF CallInv, CallTypes
  <2>6. gen'[Call!Observe] = "live" /\ gen'[Call!Trace] = "live" /\ ~Call!TerminalSent'
    BY <1>1, <1>4, <2>1 DEF Call!Observe, Call!Trace, Call!Generators, Call!TerminalSent
  <2>7. ChainIsWhole'
    BY <1>1, <2>1, <2>2, <2>3 DEF ChainIsWhole, Everyone, Unsettled, OnlyDeltas
  <2>8. SpanIsTheModels' /\ SnapshotIsTold' /\ EventIsLast'
    BY <1>1, <2>2, <2>6, NoneAssumption DEF SpanIsTheModels, SnapshotIsTold, EventIsLast, Unsettled
  <2>9. OneStory'
    BY <1>1, <2>1, <2>2, <2>3, <2>6
       DEF CallInv, OneStory, Call!OneStory, Call!SpanTellsTheOutcome, Call!EventTellsTheEnd, Unsettled
  <2> QED
    BY <2>5, <2>7, <2>8, <2>9 DEF CallInv
<1> QED
  BY <1>3, <1>4

LEMMA DeltaKeeps ==
    ASSUME CallInv, Call!Delta
    PROVE  CallInv'
<1> DEFINE frame == [kind |-> "delta"]
<1>1. /\ callPc = "pulling" /\ callPc' = "sending" /\ told' = Append(told, frame)
      /\ UNCHANGED <<gen, span, seen, event, answer, left>>
  BY DEF Call!Delta, Call!Hand
<1>2. Everyone("live") /\ Unsettled /\ OnlyDeltas
  BY <1>1 DEF CallInv, ChainIsWhole
<1>3. frame \in Frames /\ frame.kind = "delta"
  BY DEF Frames
<1> HIDE DEF frame
<1>4. told \in Seq(Frames)
  BY DEF CallInv, CallTypes
<1>5. /\ told' \in Seq(Frames) /\ ~Call!TerminalSent'
      /\ \A n \in 1 .. Len(told') - 1 : told'[n].kind = "delta"
  BY <1>1, <1>2, <1>3, <1>4, OneFrameMore
<1>6. CallTypes'
  BY <1>1, <1>5 DEF CallInv, CallTypes
<1>7. gen'[Call!Observe] = "live" /\ gen'[Call!Trace] = "live"
  BY <1>1, <1>2 DEF Everyone, Call!Observe, Call!Trace, Call!Generators
<1>8. ChainIsWhole'
  BY <1>1, <1>2 DEF ChainIsWhole, Everyone, Unsettled
<1>9. SpanIsTheModels' /\ SnapshotIsTold' /\ EventIsLast'
  BY <1>1, <1>2, <1>5, <1>7, NoneAssumption DEF SpanIsTheModels, SnapshotIsTold, EventIsLast, Unsettled
<1>10. OneStory'
  BY <1>1, <1>2, <1>5, <1>7
     DEF OneStory, Call!OneStory, Call!SpanTellsTheOutcome, Call!EventTellsTheEnd, Unsettled
<1> QED
  BY <1>6, <1>8, <1>9, <1>10 DEF CallInv

LEMMA StreamDoneKeeps ==
    ASSUME CallInv, Call!StreamDone
    PROVE  CallInv'
<1>1. PICK done \in Dones : seen' = done /\ told' = Append(told, Call!DoneFrame(done))
  BY DEF Call!StreamDone, Call!Hand, Dones
<1>2. /\ callPc = "pulling" /\ callPc' = "sending" /\ answer' = "terminal"
      /\ span' = Call!Recorded(span, "success", None) /\ UNCHANGED <<gen, event, left>>
  BY DEF Call!StreamDone, Call!Hand
<1>3. Everyone("live") /\ Unsettled /\ OnlyDeltas /\ told \in Seq(Frames)
  BY <1>2 DEF CallInv, CallTypes, ChainIsWhole
<1> DEFINE frame == Call!DoneFrame(done)
<1>4. /\ frame \in Frames /\ frame.kind = "done"
      /\ [status |-> frame.status, reason |-> frame.reason] = done
  BY FramesAreFrames
<1>5. told' = Append(told, frame)
  BY <1>1
<1> HIDE DEF frame
<1>6. /\ told' \in Seq(Frames) /\ told' # <<>> /\ Last(told') = frame /\ Call!TerminalSent'
      /\ \A n \in 1 .. Len(told') - 1 : told'[n].kind = "delta"
  BY <1>3, <1>4, <1>5, OneFrameMore
<1>7. /\ span' \in [open : BOOLEAN, outcome : {None, "success", "rejected", "error"},
                    code : UpstreamCodes \cup {None}]
      /\ span'.open /\ span'.outcome = "success"
  BY <1>2, <1>3, SpanSucceeds DEF CallInv, Unsettled
<1>8. CallTypes'
  BY <1>1, <1>2, <1>6, <1>7 DEF CallInv, CallTypes
<1>9. gen'[Call!Observe] = "live" /\ gen'[Call!Trace] = "live" /\ seen' # None /\ event' = None
  BY <1>1, <1>2, <1>3, DonesAreDone DEF Everyone, Unsettled, Call!Observe, Call!Trace, Call!Generators
<1>10. ChainIsWhole' /\ EventIsLast'
  BY <1>2, <1>6, <1>9 DEF ChainIsWhole, EventIsLast
<1>11. SpanIsTheModels' /\ SnapshotIsTold'
  BY <1>1, <1>2, <1>4, <1>6, <1>7, <1>9 DEF SpanIsTheModels, SnapshotIsTold
<1>12. OneStory'
  BY <1>2, <1>6, <1>7, <1>9
     DEF OneStory, Call!OneStory, Call!SpanTellsTheOutcome, Call!EventTellsTheEnd
<1> QED
  BY <1>8, <1>10, <1>11, <1>12 DEF CallInv

\* A failure told in the stream: _audit_observed has written its event.
LEMMA FailureKeeps ==
    ASSUME CallInv, callPc = "pulling", callPc' = "sending", seen' = seen, left' = left,
           NEW frame \in Frames, frame.kind = "error", told' = Append(told, frame),
           gen' \in [Call!Generators -> GenStates],
           gen'[Call!Observe] = "done", gen'[Call!Trace] # "none",
           span' \in [open : BOOLEAN, outcome : {None, "success", "rejected", "error"},
                      code : UpstreamCodes \cup {None}],
           answer' \in {"terminal", "failed", "eof"},
           span'.outcome = "success" <=> answer' = "terminal",
           span'.open => span'.outcome = "success",
           event' # None, Call!Accepts(event'), event'.outcome # "success",
           event'.code = frame.code
    PROVE  CallInv'
<1>1. Everyone("live") /\ Unsettled /\ OnlyDeltas /\ told \in Seq(Frames)
  BY DEF CallInv, CallTypes, ChainIsWhole
<1>2. /\ told' \in Seq(Frames) /\ told' # <<>> /\ Last(told') = frame /\ Call!TerminalSent'
      /\ \A n \in 1 .. Len(told') - 1 : told'[n].kind = "delta"
  BY <1>1, OneFrameMore
<1>3. seen' = None
  BY <1>1 DEF Unsettled
<1>4. CallTypes'
  BY <1>2, <1>3 DEF CallInv, CallTypes
<1>5. ChainIsWhole' /\ EventIsLast'
  BY <1>2 DEF ChainIsWhole, EventIsLast
<1>6. SpanIsTheModels' /\ SnapshotIsTold'
  BY <1>3 DEF SpanIsTheModels, SnapshotIsTold
<1>7. OneStory'
  BY <1>2 DEF OneStory, Call!OneStory, Call!SpanTellsTheOutcome, Call!EventTellsTheEnd, Call!Last, Last
<1> QED
  BY <1>4, <1>5, <1>6, <1>7 DEF CallInv

LEMMA CommitFailsKeeps ==
    ASSUME CallInv, Call!CommitFails
    PROVE  CallInv'
<1>1. PICK done \in Dones : event' = Call!NotStored(done)
  BY DEF Call!CommitFails, Dones
<1> DEFINE frame == Call!Refusal("error", "storage_error")
<1>2. /\ callPc = "pulling" /\ callPc' = "sending" /\ answer' = "terminal" /\ UNCHANGED <<seen, left>>
      /\ span' = Call!Recorded(span, "success", None) /\ told' = Append(told, frame)
      /\ gen' = [gen EXCEPT ![Call!Commit] = "done", ![Call!Observe] = "done"]
  BY DEF Call!CommitFails, Call!Hand
<1>3. frame \in Frames /\ frame.kind = "error" /\ frame.code = "storage_error"
  BY FramesAreFrames
<1> HIDE DEF frame
<1>4. Everyone("live") /\ Unsettled
  BY <1>2 DEF CallInv, ChainIsWhole
<1>5. /\ gen' \in [Call!Generators -> GenStates]
      /\ gen'[Call!Observe] = "done" /\ gen'[Call!Trace] = "live"
  BY <1>2, <1>4 DEF Everyone, GenStates, Call!Generators, Call!Commit, Call!Observe, Call!Trace
<1>6. /\ event' # None /\ Call!Accepts(event') /\ event'.outcome = "error"
      /\ event'.code = "storage_error"
  BY <1>1, LossIsAccepted
<1>7. /\ span' \in [open : BOOLEAN, outcome : {None, "success", "rejected", "error"},
                    code : UpstreamCodes \cup {None}]
      /\ span'.open /\ span'.outcome = "success"
  BY <1>2, <1>4, SpanSucceeds DEF CallInv, Unsettled
<1> QED
  BY <1>2, <1>3, <1>5, <1>6, <1>7, FailureKeeps

LEMMA BreakKeeps ==
    ASSUME CallInv, Call!StreamBreaks \/ Call!EndOfStream
    PROVE  CallInv'
<1>1. PICK code \in UpstreamCodes :
        /\ answer' \in {"failed", "eof"} /\ event' = Call!Failed(code)
        /\ told' = Append(told, Call!Refusal("error", code))
  <2>1. CASE Call!StreamBreaks
    BY <2>1, TranslationsAreCodes DEF Call!StreamBreaks, Call!Hand
  <2>2. CASE Call!EndOfStream
    <3>1. "upstream_error" \in UpstreamCodes
      BY DEF UpstreamCodes
    <3> QED
      BY <2>2, <3>1 DEF Call!EndOfStream, Call!Hand
  <2> QED
    BY <2>1, <2>2
<1> DEFINE frame == Call!Refusal("error", code)
<1>2. /\ callPc = "pulling" /\ callPc' = "sending" /\ UNCHANGED <<seen, left>>
      /\ Call!Unwind(Call!Observe .. Call!Translate)
  BY DEF Call!StreamBreaks, Call!EndOfStream, Call!Hand
<1>3. frame \in Frames /\ frame.kind = "error" /\ frame.code = code /\ told' = Append(told, frame)
  BY <1>1, FramesAreFrames
<1> HIDE DEF frame
<1>4. /\ gen' = [g \in Call!Generators |-> IF g \in Call!Observe .. Call!Translate
                                           THEN "done" ELSE gen[g]]
      /\ span' = Call!Ended(span)
  BY <1>2 DEF Call!Unwind
<1>5. Everyone("live") /\ Unsettled
  BY <1>2 DEF CallInv, ChainIsWhole
<1>6. /\ gen' \in [Call!Generators -> GenStates]
      /\ gen'[Call!Observe] = "done" /\ gen'[Call!Trace] = "done"
  BY <1>4, <1>5 DEF Everyone, GenStates, Call!Generators, Call!Observe, Call!Trace, Call!Translate
<1>7. /\ event' # None /\ Call!Accepts(event') /\ event'.outcome \in {"rejected", "error"}
      /\ event'.code = code
  BY <1>1, FailureIsAccepted
<1>8. /\ span' \in [open : BOOLEAN, outcome : {None, "success", "rejected", "error"},
                    code : UpstreamCodes \cup {None}]
      /\ span'.open = FALSE /\ span'.outcome # "success"
  BY <1>4, <1>5, SpanEnds, NoneAssumption DEF CallInv, Unsettled
<1> QED
  BY <1>1, <1>2, <1>3, <1>6, <1>7, <1>8, FailureKeeps

LEMMA CancelPullingKeeps ==
    ASSUME CallInv, Call!CancelPulling
    PROVE  CallInv'
<1>1. /\ callPc = "pulling" /\ callPc' = "over" /\ event' = Call!Disconnected /\ left' = TRUE
      /\ UNCHANGED <<seen, told, answer>> /\ Call!Unwind(Call!Generators)
  BY DEF Call!CancelPulling
<1>2. Unsettled /\ OnlyDeltas
  BY <1>1 DEF CallInv, ChainIsWhole
<1>3. gen' = [g \in Call!Generators |-> "done"] /\ span' = Call!Ended(span)
  BY <1>1 DEF Call!Unwind
<1>4. /\ gen' \in [Call!Generators -> GenStates]
      /\ gen'[Call!Observe] = "done" /\ gen'[Call!Trace] = "done"
  BY <1>3 DEF GenStates, Call!Generators, Call!Observe, Call!Trace
<1>5. /\ span' \in [open : BOOLEAN, outcome : {None, "success", "rejected", "error"},
                    code : UpstreamCodes \cup {None}]
      /\ span'.open = FALSE /\ span'.outcome # "success"
  BY <1>2, <1>3, SpanEnds, NoneAssumption DEF CallInv, Unsettled
<1>6. ~Call!TerminalSent'
  <2>1. Len(told) \in Nat /\ (told # <<>> => Len(told) \in 1 .. Len(told))
    BY LenProperties, EmptySeq DEF CallInv, CallTypes
  <2> QED
    BY <1>1, <1>2, <2>1 DEF OnlyDeltas, Call!TerminalSent, Call!Last
<1>7. CallTypes'
  BY <1>1, <1>4, <1>5 DEF CallInv, CallTypes
<1>8. ChainIsWhole' /\ EventIsLast'
  BY <1>1, LeavingIsAccepted DEF ChainIsWhole, EventIsLast
<1>9. SpanIsTheModels' /\ SnapshotIsTold'
  BY <1>1, <1>2, <1>4, <1>5 DEF SpanIsTheModels, SnapshotIsTold, Unsettled
<1>10. OneStory'
  <2>1. \A n \in 1 .. Len(told') - 1 : told'[n].kind = "delta"
    BY <1>1 DEF CallInv, OneStory, Call!OneStory, Call!EventTellsTheEnd
  <2>2. answer' = "none" /\ event' # None /\ Call!Accepts(event') /\ event'.outcome = "error"
    BY <1>1, <1>2, LeavingIsAccepted DEF Unsettled
  <2>3. Call!SpanTellsTheOutcome'
    BY <1>5, <2>2 DEF Call!SpanTellsTheOutcome
  <2>4. /\ callPc' = "over" /\ ~left' => Call!TerminalSent'
        /\ gen'[Call!Observe] = "done" => event' # None
    BY <1>1, <2>2
  <2>5. Call!EventTellsTheEnd'
    BY <1>1, <1>6, <2>1, <2>2, <2>4 DEF Call!EventTellsTheEnd
  <2> QED
    BY <2>3, <2>5 DEF OneStory, Call!OneStory
<1> QED
  BY <1>7, <1>8, <1>9, <1>10 DEF CallInv

LEMMA CancelSendingKeeps ==
    ASSUME CallInv, Call!CancelSending
    PROVE  CallInv'
<1>1. /\ callPc' = "over" /\ left' = TRUE
      /\ UNCHANGED <<gen, span, seen, event, told, answer>>
  BY DEF Call!CancelSending
<1>2. SpanIsTheModels' /\ SnapshotIsTold' /\ OneStory'
  BY <1>1, NothingTold
<1>3. CallTypes' /\ ChainIsWhole' /\ EventIsLast'
  BY <1>1 DEF CallInv, CallTypes, ChainIsWhole, EventIsLast
<1> QED
  BY <1>2, <1>3 DEF CallInv

\* A generator is abandoned only when the response has ended, or the terminal
\* has been sent: before that the chain is whole.
LEMMA AbandonedLate ==
    ASSUME CallInv, NEW g \in Call!Generators, Call!Abandoned(g)
    PROVE  callPc = "over" \/ (callPc = "sending" /\ Call!TerminalSent)
<1> SUFFICES ASSUME ~(callPc = "over" \/ (callPc = "sending" /\ Call!TerminalSent)) PROVE FALSE
  OBVIOUS
<1>1. Everyone("none") \/ Everyone("fresh") \/ Everyone("live")
  BY DEF CallInv, CallTypes, ChainIsWhole
<1>2. g # Call!Render => g - 1 \in Call!Generators
  BY DEF Call!Render, Call!Generators
<1> QED
  BY <1>1, <1>2 DEF Call!Abandoned, Everyone

\* What the finalizer leaves true, whatever it closes.
LEMMA FinalizeKeeps ==
    ASSUME CallInv, Call!Finalize
    PROVE  CallInv'
<1>1. PICK g \in Call!Generators :
        /\ Call!Abandoned(g)
        /\ IF gen[g] = "live"
           THEN Call!Closing(g) /\ gen' = [gen EXCEPT ![g] = "done"]
           ELSE /\ gen' = [gen EXCEPT ![g] = "dropped"]
                /\ UNCHANGED <<event, span>>
  BY DEF Call!Finalize
<1>2. UNCHANGED <<callPc, seen, told, answer, left>>
  BY DEF Call!Finalize
<1>3. callPc = "over" \/ (callPc = "sending" /\ Call!TerminalSent)
  BY <1>1, AbandonedLate
<1>4. /\ gen \in [Call!Generators -> GenStates] /\ gen[g] \in {"fresh", "live"}
      /\ Call!Observe \in Call!Generators /\ Call!Trace \in Call!Generators
  BY <1>1 DEF CallInv, CallTypes, Call!Abandoned, Call!Observe, Call!Trace, Call!Generators
<1>5. /\ gen' \in [Call!Generators -> GenStates] /\ gen'[g] \in {"done", "dropped"}
      /\ \A h \in Call!Generators : h # g => gen'[h] = gen[h]
      /\ gen[g] = "fresh" => gen'[g] = "dropped"
  BY <1>1, <1>4 DEF GenStates
<1>6. /\ span' \in [open : BOOLEAN, outcome : {None, "success", "rejected", "error"},
                    code : UpstreamCodes \cup {None}]
      /\ span'.outcome = "success" <=> span.outcome = "success"
      /\ span'.open => span.open /\ span'.outcome = span.outcome
      /\ g # Call!Trace => span' = span
  <2>1. span' = span \/ (span' = Call!Ended(span) /\ g = Call!Trace)
    BY <1>1 DEF Call!Closing
  <2>2. CASE span' = span
    BY <2>2 DEF CallInv, CallTypes
  <2>3. CASE span' = Call!Ended(span) /\ g = Call!Trace
    BY <2>3, SpanEnds DEF CallInv
  <2> QED
    BY <2>1, <2>2, <2>3
<1>7. /\ g # Call!Observe => event' = event
      /\ gen[g] = "fresh" => event' = event
      /\ g = Call!Observe /\ gen[g] = "live" =>
             event' = IF seen = None THEN Call!Disconnected ELSE Call!Succeeded(seen)
  BY <1>1 DEF Call!Closing
<1>8. ASSUME g = Call!Observe, gen[g] = "live"
      PROVE  /\ event = None /\ answer # "failed" /\ event' # None /\ Call!Accepts(event')
             /\ event'.outcome = "success" => answer = "terminal"
             /\ ~Call!TerminalSent => event' = Call!Disconnected
             /\ Call!TerminalSent => /\ Last(told).kind = "done"
                                     /\ event' = Call!Succeeded([status |-> Last(told).status,
                                                                 reason |-> Last(told).reason])
  <2>1. event = None /\ (Call!TerminalSent <=> seen # None)
    BY <1>8 DEF CallInv, SnapshotIsTold
  <2>2. answer # "failed"
    BY <2>1 DEF CallInv, EventIsLast
  <2>3. CASE seen = None
    BY <1>7, <1>8, <2>1, <2>2, <2>3, LeavingIsAccepted
  <2>4. CASE seen # None
    <3>1. seen \in Dones /\ answer = "terminal" /\ Last(told).kind = "done"
          /\ seen = [status |-> Last(told).status, reason |-> Last(told).reason]
      BY <2>4 DEF CallInv, CallTypes, SnapshotIsTold
    <3>2. event' = Call!Succeeded(seen)
      BY <1>7, <1>8, <2>4
    <3>3. event' # None /\ Call!Accepts(event')
      BY <3>1, <3>2, SuccessIsAccepted
    <3> QED
      BY <2>1, <2>2, <2>4, <3>1, <3>2, <3>3
  <2> QED
    BY <2>3, <2>4
<1>9. CallTypes'
  BY <1>2, <1>5, <1>6 DEF CallInv, CallTypes
<1>10. Call!TerminalSent' <=> Call!TerminalSent
  BY <1>2 DEF Call!TerminalSent, Call!Last
<1>11. ChainIsWhole'
  BY <1>2, <1>3, <1>10 DEF ChainIsWhole
<1>12. SpanIsTheModels'
  BY <1>2, <1>6 DEF CallInv, SpanIsTheModels
<1>13. EventIsLast'
  BY <1>2, <1>3, <1>4, <1>7, <1>8, <1>10 DEF CallInv, EventIsLast
<1>14. SnapshotIsTold'
  <2>1. gen'[Call!Observe] \in {"fresh", "live"} =>
            g # Call!Observe /\ gen[Call!Observe] = gen'[Call!Observe]
    BY <1>4, <1>5
  <2> QED
    BY <1>2, <1>7, <1>10, <2>1 DEF CallInv, SnapshotIsTold
<1>15. Call!SpanTellsTheOutcome /\ Call!EventTellsTheEnd
  BY DEF CallInv, OneStory, Call!OneStory
<1>16. Call!SpanTellsTheOutcome'
  <2>1. ~span'.open => (span'.outcome = "success" <=> answer' = "terminal")
    BY <1>12 DEF SpanIsTheModels
  <2>2. ASSUME answer' = "failed", gen'[Call!Trace] = "none"
        PROVE  span'.outcome = event'.outcome /\ span'.code = event'.code
    <3>1. g # Call!Trace /\ gen[Call!Trace] = "none" /\ answer = "failed"
      BY <1>2, <1>4, <1>5, <2>2
    <3>2. span' = span /\ event' = event
      BY <1>4, <1>6, <1>7, <1>8, <3>1
    <3> QED
      BY <1>15, <3>1, <3>2 DEF Call!SpanTellsTheOutcome
  <2>3. ASSUME event' # None, event'.outcome = "success"
        PROVE  answer' = "terminal" /\ span'.outcome = "success"
    <3>1. answer = "terminal"
      BY <1>4, <1>7, <1>8, <1>15, <2>3 DEF Call!SpanTellsTheOutcome
    <3> QED
      BY <1>2, <1>6, <3>1 DEF CallInv, SpanIsTheModels
  <2> QED
    BY <2>1, <2>2, <2>3 DEF Call!SpanTellsTheOutcome
<1>17. Call!EventTellsTheEnd'
  <2>1. \A n \in 1 .. Len(told') - 1 : told'[n].kind = "delta"
    BY <1>2, <1>15 DEF Call!EventTellsTheEnd
  <2>2. callPc' = "over" /\ ~left' => Call!TerminalSent'
    BY <1>2, <1>10, <1>15 DEF Call!EventTellsTheEnd
  <2>3. CASE g = Call!Observe /\ gen[g] = "live"
    <3>1. event' # None /\ Call!Accepts(event')
      BY <1>8, <2>3
    <3>2. CASE ~Call!TerminalSent
      BY <1>2, <1>8, <1>10, <2>1, <2>2, <2>3, <3>1, <3>2 DEF Call!EventTellsTheEnd
    <3>3. CASE Call!TerminalSent
      <4>1. /\ Last(told').kind = "done" /\ event' = Call!Succeeded([status |-> Last(told').status,
                                                                     reason |-> Last(told').reason])
        BY <1>2, <1>8, <2>3, <3>3
      <4> QED
        BY <1>10, <2>1, <2>2, <3>1, <3>3, <4>1 DEF Call!EventTellsTheEnd, Call!Last, Last
    <3> QED
      BY <3>2, <3>3
  <2>4. CASE ~(g = Call!Observe /\ gen[g] = "live")
    <3>1. event' = event /\ (gen'[Call!Observe] = "done" => gen[Call!Observe] = "done")
      BY <1>4, <1>5, <1>7, <2>4
    <3> QED
      BY <1>2, <1>10, <1>15, <2>1, <2>2, <3>1 DEF Call!EventTellsTheEnd, Call!Last, Last
  <2> QED
    BY <2>3, <2>4
<1> QED
  BY <1>9, <1>11, <1>12, <1>13, <1>14, <1>16, <1>17 DEF CallInv, OneStory, Call!OneStory

(* The invariant OneStory rests on: until a terminal is sent the chain is   *)
(* whole and nothing is settled; after it the span, the snapshot and the    *)
(* event each say what the caller was told (services/azure_openai.py,       *)
(* api/streaming.py).                                                       *)
THEOREM CallInvHolds == Call!Spec => []CallInv
<1>1. CallInv /\ [Call!Next]_(Call!vars) => CallInv'
  <2> SUFFICES ASSUME CallInv, [Call!Next]_(Call!vars) PROVE CallInv'
    OBVIOUS
  <2>1. CASE UNCHANGED Call!vars
    <3>1. UNCHANGED <<callPc, gen, span, seen, event, told, answer, left>>
      BY <2>1 DEF Call!vars
    <3>2. CallTypes' /\ ChainIsWhole' /\ EventIsLast'
      BY <3>1 DEF CallInv, CallTypes, ChainIsWhole, EventIsLast, Everyone, Unsettled, OnlyDeltas,
                  Call!TerminalSent, Call!Last
    <3>3. callPc' = "over" /\ ~left' => Call!TerminalSent
      BY <3>1 DEF CallInv, OneStory, Call!OneStory, Call!EventTellsTheEnd
    <3> QED
      BY <3>1, <3>2, <3>3, NothingTold DEF CallInv
  <2>2. CASE Call!CompleteFails
    BY <2>2, TranslationsAreCodes, CompleteRaisesKeeps DEF Call!CompleteFails
  <2> QED
    BY <2>1, <2>2, CompleteAnswersKeeps, OpenFailsKeeps, CancelEarlyKeeps, OpenStreamKeeps,
       PullKeeps, DeltaKeeps, StreamDoneKeeps, CommitFailsKeeps, BreakKeeps, CancelPullingKeeps,
       CancelSendingKeeps, FinalizeKeeps DEF Call!Next, Call!Serve
<1> QED
  BY <1>1, CallInit, PTL DEF Call!Spec

(* The trace, the audit log and the caller are told one story, for every    *)
(* terminal, failure and exception, streams of any length, a caller who may *)
(* leave at any suspension and generators closed in any order               *)
(* (OwnedLlmSpan; _audit_observed; _render_sse).                            *)
THEOREM CallsTellOneStory == Call!Spec => []OneStory
<1>1. CallInv => OneStory
  BY DEF CallInv
<1> QED
  BY <1>1, CallInvHolds, PTL
=============================================================================
