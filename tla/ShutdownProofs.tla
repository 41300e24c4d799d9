---------------------------- MODULE ShutdownProofs ----------------------------
(***************************************************************************)
(* Proofs about Shutdown, for any number of closers and clients, any       *)
(* budget and any number of cancellations from outside.                    *)
(***************************************************************************)
EXTENDS Shutdown, TLAPS

-----------------------------------------------------------------------------
(* The inductive invariant.                                                *)

Settled == 1 .. closer - 1

\* exc is what the first n results leave in flight.
InFlight(results, n, exc) ==
    \/ exc = "none" /\ \A j \in 1 .. n : results[j] = "closed"
    \/ exc # "none" /\ \E j \in 1 .. n :
           /\ results[j] = exc /\ exc # "closed"
           /\ \A i \in j + 1 .. n : results[i] = "closed"

RaisingIsInFlight == pc = "closing" => InFlight(ended[closer], client - 1, raising)

\* The shared budget is spent on nothing but waiting, and the running timer
\* never outlasts it.
BudgetAddsUp == timer <= left /\ waited + left = Budget

\* A cancellation has a cause, and the outside is one exactly for the closers
\* it disturbed.
CancellationsHaveCauses ==
    /\ overdue \subseteq Settled /\ disturbed \subseteq 1 .. closer
    /\ pc = "closing" =>
          /\ cancelling <=> closer \in disturbed
          /\ pending \/ raising = "CancelledError" => expired \/ cancelling
    /\ pc # "closing" => closer \notin disturbed /\ ~pending

CancelledOf(k) == k \in disturbed /\ CameOutOf(k) = "CancelledError"
FailedOf(k) == \/ CameOutOf(k) = "Error"
               \/ CameOutOf(k) = "TimeoutError" /\ k \notin overdue

\* What the task recorded is what came out of the closers that are through.
RecordsAreTrue ==
    /\ cancellation <=> \E k \in Settled : CancelledOf(k)
    /\ failure = 0 => \A k \in Settled : ~FailedOf(k)
    /\ failure # 0 => /\ failure \in Settled /\ FailedOf(failure)
                      /\ \A k \in Settled : FailedOf(k) => failure <= k

EndIsDerived ==
    pc = "over" =>
        /\ closer = Len(Clients) + 1
        /\ verdict = IF cancellation THEN "cancelled"
                     ELSE IF failure # 0 THEN "raised" ELSE "returned"

Inv == /\ TypeOK /\ EveryClientAttempted /\ BudgetAddsUp
       /\ RaisingIsInFlight /\ CancellationsHaveCauses /\ RecordsAreTrue /\ EndIsDerived

-----------------------------------------------------------------------------
(* What comes out of a closer.                                             *)

LEMMA ClientsAreCounted ==
    ASSUME NEW k \in Closers
    PROVE  Clients[k] \in Nat \ {0}
  BY ClientsAssumption DEF Closers

LEMMA InFlightComesOut ==
    ASSUME NEW results, NEW n \in Nat, DOMAIN results = 1 .. n,
           NEW exc, InFlight(results, n, exc)
    PROVE  LastTrouble(results) = exc
<1> DEFINE troubled == {j \in DOMAIN results : results[j] # "closed"}
<1>1. CASE exc = "none" /\ \A j \in 1 .. n : results[j] = "closed"
  <2>1. troubled = {}
    BY <1>1
  <2> QED
    BY <1>1, <2>1 DEF LastTrouble
<1>2. CASE \E j \in 1 .. n :
               /\ results[j] = exc /\ exc # "closed"
               /\ \A i \in j + 1 .. n : results[i] = "closed"
  <2>1. PICK j \in 1 .. n :
               /\ results[j] = exc /\ exc # "closed"
               /\ \A i \in j + 1 .. n : results[i] = "closed"
    BY <1>2
  <2>2. j \in troubled /\ \A i \in troubled : j >= i
    BY <2>1
  <2>3. \A m \in troubled : (\A i \in troubled : m >= i) => m = j
    BY <2>2
  <2>4. Max(troubled) = j
    <3> HIDE DEF troubled
    <3> QED
      BY <2>2, <2>3 DEF Max
  <2> QED
    BY <2>1, <2>2, <2>4 DEF LastTrouble
<1> QED
  BY <1>1, <1>2 DEF InFlight

\* One more client: its result joins those of the closer's earlier ones.
LEMMA FlightGoesOn ==
    ASSUME Inv, pc = "closing", NEW result \in Results \ {"none"}, ClientEnds(result),
           NEW c \in Closers, c = closer, NEW n \in 1 .. Clients[c], n = client,
           NEW exc, exc = IF result = "closed" THEN raising ELSE result
    PROVE  /\ DOMAIN ended' = Closers
           /\ \A k \in Closers \ {c} : ended'[k] = ended[k]
           /\ ended'[c] \in [1 .. Clients[c] -> Results]
           /\ \A j \in 1 .. Clients[c] : ended'[c][j] = IF j = n THEN result ELSE ended[c][j]
           /\ InFlight(ended'[c], n, exc)
<1>1. ended' = [ended EXCEPT ![c][n] = result] /\ ended[c] \in [1 .. Clients[c] -> Results]
  BY DEF ClientEnds, Inv, TypeOK
<1>2. /\ DOMAIN ended' = Closers
      /\ \A k \in Closers \ {c} : ended'[k] = ended[k]
      /\ ended'[c] = [ended[c] EXCEPT ![n] = result]
  BY <1>1 DEF Inv, TypeOK
<1>3. /\ ended'[c] \in [1 .. Clients[c] -> Results]
      /\ \A j \in 1 .. Clients[c] : ended'[c][j] = IF j = n THEN result ELSE ended[c][j]
  BY <1>1, <1>2
<1>4. InFlight(ended[c], n - 1, raising)
  BY DEF Inv, RaisingIsInFlight
<1>5. Clients[c] \in Nat
  BY ClientsAreCounted
<1>6. InFlight(ended'[c], n, exc)
  <2>1. CASE result # "closed"
    <3>1. ended'[c][n] = exc /\ exc \notin {"none", "closed"}
      BY <1>3, <2>1
    <3>2. \A i \in n + 1 .. n : FALSE
      OBVIOUS
    <3> QED
      BY <3>1, <3>2 DEF InFlight
  <2>2. CASE result = "closed" /\ raising = "none"
    <3>1. \A j \in 1 .. n : ended'[c][j] = "closed"
      BY <1>3, <1>4, <1>5, <2>2 DEF InFlight
    <3> QED
      BY <2>2, <3>1 DEF InFlight
  <2>3. CASE result = "closed" /\ raising # "none"
    <3>1. PICK j \in 1 .. n - 1 :
              /\ ended[c][j] = raising /\ raising # "closed"
              /\ \A i \in j + 1 .. n - 1 : ended[c][i] = "closed"
      BY <1>4, <2>3 DEF InFlight
    <3>2. ended'[c][j] = exc /\ exc # "closed" /\ exc # "none" /\ j \in 1 .. n
      BY <1>3, <1>5, <2>3, <3>1
    <3>3. \A i \in j + 1 .. n : ended'[c][i] = "closed"
      BY <1>3, <1>5, <2>3, <3>1
    <3> QED
      BY <3>2, <3>3 DEF InFlight
  <2> QED
    BY <2>1, <2>2, <2>3
<1> QED
  BY <1>2, <1>3, <1>6

\* What came out of a closer does not change once it is through.
LEMMA ThroughIsThrough ==
    ASSUME NEW k, ended'[k] = ended[k]
    PROVE  CameOutOf(k)' = CameOutOf(k)
  BY DEF CameOutOf

-----------------------------------------------------------------------------
(* The invariant holds.                                                    *)

LEMMA InvInit == Init => Inv
<1> SUFFICES ASSUME Init PROVE Inv
  OBVIOUS
<1>1. Len(Clients) \in Nat /\ closer = 1
  BY ClientsAssumption DEF Init
<1>2. TypeOK
  <2>1. /\ DOMAIN ended = Closers
        /\ \A k \in Closers : ended[k] \in [1 .. Clients[k] -> Results]
    BY DEF Init, Results
  <2>2. /\ closer \in 1 .. Len(Clients) + 1 /\ client \in Nat \ {0}
        /\ left \in 0 .. Budget /\ timer \in 0 .. Budget
        /\ waited \in Nat /\ cancels \in 0 .. MaxCancels
    BY <1>1, BudgetAssumption DEF Init
  <2>3. /\ pc = "loop" /\ raising = "none" /\ verdict = "none" /\ failure = 0
        /\ overdue = {} /\ disturbed = {}
        /\ expired = FALSE /\ cancelling = FALSE /\ pending = FALSE /\ cancellation = FALSE
    BY DEF Init
  <2> QED
    BY <2>1, <2>2, <2>3 DEF TypeOK, Results
<1>3. EveryClientAttempted
  BY <1>1, ClientsAreCounted DEF Init, EveryClientAttempted, Closers
<1>4. BudgetAddsUp
  BY BudgetAssumption DEF Init, BudgetAddsUp
<1>5. RaisingIsInFlight /\ CancellationsHaveCauses /\ EndIsDerived
  BY DEF Init, RaisingIsInFlight, CancellationsHaveCauses, EndIsDerived
<1>6. RecordsAreTrue
  BY <1>1 DEF Init, RecordsAreTrue, Settled
<1> QED
  BY <1>2, <1>3, <1>4, <1>5, <1>6 DEF Inv

\* A closer's clients in turn: the next one, while there is one.
LEMMA NextClientKeeps ==
    ASSUME Inv, pc = "closing", NEW result \in Results \ {"none"}, ClientEnds(result),
           result = "CancelledError" => pending,
           client < Clients[closer]
    PROVE  Inv'
<1> DEFINE exc == IF result = "closed" THEN raising ELSE result
<1>1. PICK c \in Closers : c = closer
  BY DEF Inv, TypeOK
<1>2. PICK n \in 1 .. Clients[c] : n = client
  BY <1>1, ClientsAreCounted DEF Inv, TypeOK
<1>3. /\ DOMAIN ended' = Closers
      /\ \A k \in Closers \ {c} : ended'[k] = ended[k]
      /\ ended'[c] \in [1 .. Clients[c] -> Results]
      /\ \A j \in 1 .. Clients[c] : ended'[c][j] = IF j = n THEN result ELSE ended[c][j]
      /\ InFlight(ended'[c], n, exc)
  BY <1>1, <1>2, FlightGoesOn
<1>4. /\ client' = n + 1 /\ closer' = c /\ pc' = "closing"
      /\ raising' = exc /\ pending' = FALSE
      /\ UNCHANGED <<cancellation, failure, overdue, left, timeoutVars, verdict,
                     disturbed, waited, cancels>>
  BY <1>1, <1>2 DEF ClientEnds, Proceed
<1>5. Clients[c] \in Nat \ {0} /\ n < Clients[c] /\ Closers = 1 .. Len(Clients)
  BY <1>1, <1>2, ClientsAreCounted DEF Closers
<1>6. TypeOK'
  <2>1. exc \in Results \ {"closed"}
    BY DEF Inv, TypeOK, Results
  <2>2. \A k \in Closers : ended'[k] \in [1 .. Clients[k] -> Results]
    BY <1>3 DEF Inv, TypeOK
  <2>3. closer' \in 1 .. Len(Clients) + 1 /\ client' \in Nat \ {0} /\ client' <= Clients[closer']
    BY <1>1, <1>4, <1>5 DEF Inv, TypeOK
  <2> QED
    BY <1>1, <1>3, <1>4, <2>1, <2>2, <2>3 DEF Inv, TypeOK, timeoutVars
<1>7. EveryClientAttempted'
  BY <1>1, <1>2, <1>3, <1>4, <1>5 DEF Inv, EveryClientAttempted
<1>8. BudgetAddsUp'
  BY <1>4 DEF Inv, BudgetAddsUp, timeoutVars
<1>9. RaisingIsInFlight'
  BY <1>2, <1>3, <1>4 DEF RaisingIsInFlight
<1>10. CancellationsHaveCauses'
  BY <1>1, <1>4 DEF Inv, CancellationsHaveCauses, Settled, timeoutVars
<1>11. RecordsAreTrue'
  <2>1. \A k \in Settled : k \in Closers \ {c}
    BY <1>1, <1>5 DEF Settled
  <2>2. \A k \in Settled : CameOutOf(k)' = CameOutOf(k)
    BY <1>3, <2>1, ThroughIsThrough
  <2>3. Settled' = Settled
    BY <1>1, <1>4 DEF Settled
  <2>4. \A k \in Settled : CancelledOf(k)' = CancelledOf(k) /\ FailedOf(k)' = FailedOf(k)
    BY <1>4, <2>2 DEF CancelledOf, FailedOf
  <2> QED
    BY <1>4, <2>3, <2>4 DEF Inv, RecordsAreTrue
<1>12. EndIsDerived'
  BY <1>4 DEF EndIsDerived
<1> QED
  BY <1>6, <1>7, <1>8, <1>9, <1>10, <1>11, <1>12 DEF Inv

\* The last client: the handlers around the closer record what comes out.
LEMMA LastClientKeeps ==
    ASSUME Inv, pc = "closing", NEW result \in Results \ {"none"}, ClientEnds(result),
           result = "CancelledError" => pending,
           ~(client < Clients[closer])
    PROVE  Inv'
<1> DEFINE exc == IF result = "closed" THEN raising ELSE result
<1>1. PICK c \in Closers : c = closer
  BY DEF Inv, TypeOK
<1>2. PICK n \in 1 .. Clients[c] : n = client
  BY <1>1, ClientsAreCounted DEF Inv, TypeOK
<1>3. /\ DOMAIN ended' = Closers
      /\ \A k \in Closers \ {c} : ended'[k] = ended[k]
      /\ ended'[c] \in [1 .. Clients[c] -> Results]
      /\ \A j \in 1 .. Clients[c] : ended'[c][j] = IF j = n THEN result ELSE ended[c][j]
      /\ InFlight(ended'[c], n, exc)
  BY <1>1, <1>2, FlightGoesOn
<1>4. /\ client' = n /\ closer' = c + 1 /\ pc' = "loop"
      /\ raising' = exc /\ pending' = FALSE
      /\ cancellation' = (cancellation \/ Outgoing(exc) = "CancelledError")
      /\ failure' = IF failure = 0 /\ IsFailure(Outgoing(exc)) THEN c ELSE failure
      /\ overdue' = IF expired THEN overdue \cup {c} ELSE overdue
      /\ UNCHANGED <<left, timer, expired, cancelling, verdict, disturbed, waited, cancels>>
  BY <1>1, <1>2 DEF ClientEnds, Proceed, Settle, timeoutVars
<1>5. /\ Clients[c] \in Nat \ {0} /\ n = Clients[c]
      /\ Closers = 1 .. Len(Clients) /\ Len(Clients) \in Nat
  BY <1>1, <1>2, ClientsAreCounted, ClientsAssumption DEF Closers
<1>6. exc \in Results \ {"closed"}
  BY DEF Inv, TypeOK, Results
<1>7. TypeOK'
  <2>1. overdue' \subseteq Closers /\ failure' \in Closers \cup {0}
    BY <1>4 DEF Inv, TypeOK
  <2>2. \A k \in Closers : ended'[k] \in [1 .. Clients[k] -> Results]
    BY <1>3 DEF Inv, TypeOK
  <2>3. closer' \in 1 .. Len(Clients) + 1 /\ client' \in Nat \ {0}
    BY <1>4, <1>5
  <2>4. cancellation' \in BOOLEAN /\ pending' \in BOOLEAN
    BY <1>4 DEF Inv, TypeOK
  <2> QED
    BY <1>3, <1>4, <1>6, <2>1, <2>2, <2>3, <2>4 DEF Inv, TypeOK
<1>8. EveryClientAttempted'
  BY <1>1, <1>2, <1>3, <1>4, <1>5 DEF Inv, EveryClientAttempted
<1>9. BudgetAddsUp'
  BY <1>4 DEF Inv, BudgetAddsUp
<1>10. RaisingIsInFlight'
  BY <1>4 DEF RaisingIsInFlight
<1>11. CancellationsHaveCauses'
  BY <1>1, <1>4, <1>5 DEF Inv, CancellationsHaveCauses, Settled
<1>12. RecordsAreTrue'
  <2>1. /\ Settled = 1 .. c - 1 /\ Settled' = Settled \cup {c} /\ c \notin Settled
        /\ \A k \in Settled : k \in Closers \ {c} /\ k < c
    BY <1>1, <1>4, <1>5 DEF Settled
  <2>2. \A k \in Settled : CameOutOf(k)' = CameOutOf(k)
    BY <1>3, <2>1, ThroughIsThrough
  <2>3. CameOutOf(c)' = exc
    <3>1. DOMAIN ended'[c] = 1 .. n
      BY <1>3, <1>5
    <3>2. LastTrouble(ended'[c]) = exc
      BY <1>3, <3>1, InFlightComesOut
    <3> QED
      BY <3>2 DEF CameOutOf
  <2>4. \A k \in Settled : CancelledOf(k)' = CancelledOf(k) /\ FailedOf(k)' = FailedOf(k)
    BY <1>4, <2>1, <2>2 DEF CancelledOf, FailedOf
  <2>5. exc = "CancelledError" => expired \/ cancelling
    BY DEF Inv, CancellationsHaveCauses
  <2>6. cancelling <=> c \in disturbed
    BY <1>1 DEF Inv, CancellationsHaveCauses
  <2>7. CancelledOf(c)' <=> Outgoing(exc) = "CancelledError"
    BY <1>4, <2>3, <2>5, <2>6 DEF CancelledOf, Outgoing
  <2>8. c \notin overdue
    BY <2>1 DEF Inv, CancellationsHaveCauses
  <2>9. FailedOf(c)' <=> IsFailure(Outgoing(exc))
    BY <1>4, <2>3, <2>8 DEF FailedOf, Outgoing, IsFailure
  <2>10. cancellation' <=> \E k \in Settled' : CancelledOf(k)'
    BY <1>4, <2>1, <2>4, <2>7 DEF Inv, RecordsAreTrue, TypeOK
  <2>11. failure' = 0 => \A k \in Settled' : ~FailedOf(k)'
    BY <1>4, <1>5, <2>1, <2>4, <2>9 DEF Inv, RecordsAreTrue
  <2>12. failure' # 0 => /\ failure' \in Settled' /\ FailedOf(failure)'
                         /\ \A k \in Settled' : FailedOf(k)' => failure' <= k
    <3>1. CASE failure = 0 /\ IsFailure(Outgoing(exc))
      <4>1. failure' = c
        BY <1>4, <3>1
      <4>2. FailedOf(failure)'
        BY <2>9, <3>1, <4>1 DEF FailedOf, CameOutOf
      <4>3. \A k \in Settled' : FailedOf(k)' => c <= k
        BY <2>1, <2>4, <3>1 DEF Inv, RecordsAreTrue
      <4> QED
        BY <2>1, <4>1, <4>2, <4>3
    <3>2. CASE failure # 0
      <4>1. PICK f \in Settled : f = failure
        BY <3>2 DEF Inv, RecordsAreTrue
      <4>2. failure' = f
        BY <1>4, <3>2, <4>1
      <4>3. FailedOf(f)'
        BY <2>4, <3>2, <4>1 DEF Inv, RecordsAreTrue
      <4>4. FailedOf(failure)'
        BY <4>2, <4>3 DEF FailedOf, CameOutOf
      <4>5. \A k \in Settled' : FailedOf(k)' => f <= k
        BY <2>1, <2>4, <3>2, <4>1 DEF Inv, RecordsAreTrue
      <4> QED
        BY <2>1, <4>1, <4>2, <4>4, <4>5
    <3> QED
      BY <1>4, <3>1, <3>2
  <2> QED
    BY <2>10, <2>11, <2>12 DEF RecordsAreTrue
<1>13. EndIsDerived'
  BY <1>4 DEF EndIsDerived
<1> QED
  BY <1>7, <1>8, <1>9, <1>10, <1>11, <1>12, <1>13 DEF Inv

\* Entering a closer, the clock, the two sources of cancellations and the end.
LEMMA TheRestKeeps ==
    ASSUME Inv, Enter \/ Finish \/ Tick \/ BudgetExpires \/ Cancel \/ UNCHANGED vars
    PROVE  Inv'
<1> USE DEF timeoutVars, resultVars, observers, vars
<1>1. ended' = ended /\ closer' = closer
  BY DEF Enter, Finish, Tick, BudgetExpires, Cancel
<1>2. TypeOK'
  <2>1. CASE Enter
    <3>1. client' = 1 /\ Clients[closer] >= 1 /\ closer \in Closers
      BY <2>1, ClientsAreCounted DEF Enter
    <3>2. raising' \in Results \ {"closed"}
      BY <2>1 DEF Enter, Results
    <3>3. /\ client' \in Nat \ {0} /\ client' <= Clients[closer'] /\ closer' \in Closers
          /\ closer' \in 1 .. Len(Clients) + 1
      BY <1>1, <3>1 DEF Inv, TypeOK
    <3>4. /\ pc' = "closing" /\ timer' = left /\ expired' = FALSE /\ cancelling' = FALSE
          /\ UNCHANGED <<left, pending, cancellation, failure, verdict, ended,
                         overdue, disturbed, waited, cancels>>
      BY <2>1 DEF Enter
    <3> QED
      BY <3>2, <3>3, <3>4 DEF Inv, TypeOK
  <2>2. CASE Finish
    BY <2>2 DEF Inv, TypeOK, Finish
  <2>3. CASE Tick
    BY <2>3, BudgetAssumption DEF Inv, TypeOK, Tick
  <2>4. CASE BudgetExpires
    BY <2>4 DEF Inv, TypeOK, BudgetExpires
  <2>5. CASE Cancel
    BY <2>5, BudgetAssumption DEF Inv, TypeOK, Cancel
  <2>6. CASE UNCHANGED vars
    BY <2>6 DEF Inv, TypeOK
  <2> QED
    BY <2>1, <2>2, <2>3, <2>4, <2>5, <2>6
<1>3. EveryClientAttempted'
  <2>1. ASSUME NEW k \in Closers, NEW j \in 1 .. Clients[k]
        PROVE  (k < closer' \/ (k = closer' /\ pc' = "closing" /\ j < client'))
                   <=> (k < closer \/ (k = closer /\ pc = "closing" /\ j < client))
    <3>1. Clients[k] \in Nat
      BY ClientsAreCounted
    <3> QED
      BY <1>1, <3>1 DEF Inv, TypeOK, Enter, Finish, Tick, BudgetExpires, Cancel
  <2> QED
    BY <1>1, <2>1 DEF Inv, EveryClientAttempted
<1>4. BudgetAddsUp'
  BY BudgetAssumption
     DEF Inv, TypeOK, BudgetAddsUp, Enter, Finish, Tick, BudgetExpires, Cancel
<1>5. RaisingIsInFlight'
  <2>1. CASE Enter
    <3>1. \A j \in 1 .. client' - 1 : FALSE
      BY <2>1 DEF Enter
    <3>2. raising' = "none"
      BY <2>1 DEF Enter
    <3> QED
      BY <3>1, <3>2 DEF RaisingIsInFlight, InFlight
  <2>2. CASE ~Enter
    <3>1. pc' = "closing" => pc = "closing" /\ client' = client /\ raising' = raising
      BY <2>2 DEF Finish, Tick, BudgetExpires, Cancel
    <3> QED
      BY <1>1, <3>1 DEF Inv, RaisingIsInFlight
  <2> QED
    BY <2>1, <2>2
<1>6. CancellationsHaveCauses'
  <2>1. overdue' = overdue /\ Settled' = Settled
    BY <1>1 DEF Settled, Enter, Finish, Tick, BudgetExpires, Cancel
  <2>2. CASE Enter
    BY <1>1, <2>1, <2>2 DEF Inv, CancellationsHaveCauses, Enter
  <2>3. CASE Finish
    BY <1>1, <2>1, <2>3 DEF Inv, CancellationsHaveCauses, Finish
  <2>4. CASE Tick \/ UNCHANGED vars
    <3>1. UNCHANGED <<pc, closer, expired, cancelling, pending, raising, overdue, disturbed>>
      BY <2>4 DEF Tick
    <3> QED
      BY <2>1, <3>1 DEF Inv, CancellationsHaveCauses
  <2>6. CASE BudgetExpires
    BY <1>1, <2>1, <2>6 DEF Inv, CancellationsHaveCauses, BudgetExpires
  <2>5. CASE Cancel
    <3>1. closer \in 1 .. closer
      BY DEF Inv, TypeOK
    <3> QED
      BY <1>1, <2>1, <2>5, <3>1 DEF Inv, CancellationsHaveCauses, Cancel
  <2> QED
    BY <2>2, <2>3, <2>4, <2>5, <2>6
<1>7. RecordsAreTrue'
  <2>1. Settled' = Settled /\ \A k : CameOutOf(k)' = CameOutOf(k)
    BY <1>1 DEF Settled, CameOutOf
  <2>2. \A k \in Settled : k \in disturbed' <=> k \in disturbed
    BY DEF Inv, TypeOK, Settled, Enter, Finish, Tick, BudgetExpires, Cancel
  <2>3. UNCHANGED <<cancellation, failure, overdue>>
    BY DEF Enter, Finish, Tick, BudgetExpires, Cancel
  <2>4. \A k \in Settled : CancelledOf(k)' = CancelledOf(k) /\ FailedOf(k)' = FailedOf(k)
    BY <2>1, <2>2, <2>3 DEF CancelledOf, FailedOf
  <2>5. FailedOf(failure)' = FailedOf(failure)
    BY <1>1, <2>3 DEF FailedOf, CameOutOf
  <2> QED
    BY <2>1, <2>3, <2>4, <2>5 DEF Inv, RecordsAreTrue
<1>8. EndIsDerived'
  <2>1. CASE Finish
    BY <1>1, <2>1, ClientsAssumption DEF Inv, TypeOK, EndIsDerived, Finish, Closers
  <2>2. CASE ~Finish
    BY <1>1, <2>2 DEF Inv, EndIsDerived, Enter, Tick, BudgetExpires, Cancel
  <2> QED
    BY <2>1, <2>2
<1> QED
  BY <1>2, <1>3, <1>4, <1>5, <1>6, <1>7, <1>8 DEF Inv

(* The invariant the results below rest on: what the shutdown task keeps   *)
(* (the exception in flight, the cancellation, the first failure) agrees   *)
(* with how the clients ended.                                             *)
THEOREM InvHolds == Spec => []Inv
<1>1. Inv /\ [Next]_vars => Inv'
  <2> SUFFICES ASSUME Inv, [Next]_vars PROVE Inv'
    OBVIOUS
  <2>1. CASE Closes
    <3>1. PICK result \in {"closed", "TimeoutError", "Error"} : ClientEnds(result)
      BY <2>1 DEF Closes
    <3>2. result \in Results \ {"none"} /\ result # "CancelledError"
      BY DEF Results
    <3> QED
      BY <2>1, <3>1, <3>2, NextClientKeeps, LastClientKeeps DEF Closes
  <2>2. CASE GivesIn
    <3>1. PICK result \in {"CancelledError", "TimeoutError", "Error"} : ClientEnds(result)
      BY <2>2 DEF GivesIn
    <3>2. result \in Results \ {"none"}
      BY DEF Results
    <3> QED
      BY <2>2, <3>1, <3>2, NextClientKeeps, LastClientKeeps DEF GivesIn
  <2>3. CASE Enter \/ Finish \/ Tick \/ BudgetExpires \/ Cancel \/ UNCHANGED vars
    BY <2>3, TheRestKeeps
  <2> QED
    BY <2>1, <2>2, <2>3 DEF Next, Over
<1> QED
  BY <1>1, InvInit, PTL DEF Spec

(* Every client of every closer is attempted, in the fixed order, whatever *)
(* failed, timed out or was cancelled before it (main.py:127-169 and the   *)
(* nested finally blocks of the composite closers).                        *)
THEOREM NothingIsStranded == Spec => []EveryClientAttempted
<1>1. Inv => EveryClientAttempted
  BY DEF Inv
<1> QED
  BY <1>1, InvHolds, PTL

(* The waits of all closers together never exceed the one budget           *)
(* (main.py:123-139).                                                      *)
THEOREM OneBudget == Spec => []BudgetIsShared
<1>1. Inv => BudgetIsShared
  BY BudgetAssumption DEF Inv, TypeOK, BudgetAddsUp, BudgetIsShared
<1> QED
  BY <1>1, InvHolds, PTL

(* The task ends cancelled exactly when a cancellation from outside came   *)
(* out of a closer, raises the failure of the first closer that failed,    *)
(* and returns only when nothing but the budget went wrong                 *)
(* (main.py:142-183).                                                      *)
THEOREM EndTellsTheTruth == Spec => []ResultIsTrue
<1>1. ASSUME Inv, pc = "over" PROVE ResultIsTrue
  <2>1. Settled = Closers
    BY <1>1, ClientsAssumption DEF Inv, EndIsDerived, Settled, Closers
  <2>2. \A k \in Closers : (k \in Failed <=> FailedOf(k)) /\ (k \in WereCancelled <=> CancelledOf(k))
    BY <1>1 DEF Failed, FailedOf, WereCancelled, CancelledOf
  <2>3. Failed \subseteq Closers /\ WereCancelled \subseteq Closers
    <3>1. disturbed \subseteq Closers
      BY <1>1 DEF Inv, TypeOK
    <3> QED
      BY <3>1 DEF Failed, WereCancelled
  <2>4. (verdict = "cancelled") <=> (WereCancelled # {})
    BY <1>1, <2>1, <2>2, <2>3 DEF Inv, EndIsDerived, RecordsAreTrue
  <2>5. ASSUME failure # 0 PROVE failure = Min(Failed)
    <3>1. failure \in Failed /\ \A k \in Failed : failure <= k
      BY <1>1, <2>1, <2>2, <2>3, <2>5 DEF Inv, RecordsAreTrue
    <3>2. Failed \subseteq Int
      BY <2>3 DEF Closers
    <3>3. \A x \in Failed : (\A y \in Failed : x <= y) => x = failure
      BY <3>1, <3>2
    <3> HIDE DEF Failed
    <3> QED
      BY <3>1, <3>3 DEF Min
  <2>6. (verdict = "raised") => failure = Min(Failed)
    BY <1>1, <2>5 DEF Inv, EndIsDerived
  <2>7. (verdict = "returned") => Failed = {}
    BY <1>1, <2>1, <2>2, <2>3 DEF Inv, EndIsDerived, RecordsAreTrue
  <2> QED
    BY <2>4, <2>6, <2>7 DEF ResultIsTrue
<1>2. Inv => ResultIsTrue
  BY <1>1 DEF ResultIsTrue
<1> QED
  BY <1>2, InvHolds, PTL

=============================================================================
