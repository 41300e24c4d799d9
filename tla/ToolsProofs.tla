----------------------------- MODULE ToolsProofs -----------------------------
(***************************************************************************)
(* Proofs about two of the tools: about Evaluation, for every dataset and  *)
(* corpus, any rankings, flags and replies of a judge, and any number of   *)
(* edits; after it, about EntraSmoke, for any arguments, tokens and        *)
(* answers, any pace Entra asks for, and any deadline.                     *)
(***************************************************************************)
EXTENDS Evaluation, EntraSmoke, SequenceTheorems, FiniteSetTheorems, TLAPS

-----------------------------------------------------------------------------
(* Stacks and lists.                                                       *)

LEMMA Pushing ==
    ASSUME NEW S, NEW s \in Seq(S), NEW e \in S
    PROVE  /\ Append(s, e) \in Seq(S)
           /\ Len(Append(s, e)) = Len(s) + 1
           /\ \A i \in 1 .. Len(s) : Append(s, e)[i] = s[i]
           /\ Append(s, e)[Len(s) + 1] = e
           /\ ToSet(Append(s, e)) = ToSet(s) \cup {e}
<1>1. /\ Append(s, e) \in Seq(S)
      /\ Len(Append(s, e)) = Len(s) + 1
      /\ \A i \in 1 .. Len(s) : Append(s, e)[i] = s[i]
      /\ Append(s, e)[Len(s) + 1] = e
  BY AppendProperties
<1>2. /\ DOMAIN s = 1 .. Len(s) /\ Len(s) \in Nat
      /\ DOMAIN Append(s, e) = 1 .. Len(s) + 1
  BY <1>1, LenProperties
<1>3. ToSet(Append(s, e)) = ToSet(s) \cup {e}
  BY <1>1, <1>2 DEF ToSet
<1> QED
  BY <1>1, <1>3

LEMMA Popping ==
    ASSUME NEW S, NEW s \in Seq(S), s # <<>>
    PROVE  /\ Front(s) \in Seq(S)
           /\ Len(s) \in Nat \ {0}
           /\ Len(Front(s)) = Len(s) - 1
           /\ \A i \in 1 .. Len(s) - 1 : Front(s)[i] = s[i]
           /\ s[Len(s)] \in S
<1>1. Len(s) \in Nat \ {0}
  BY LenProperties, EmptySeq
<1>2. /\ Front(s) \in Seq(S)
      /\ Len(Front(s)) = Len(s) - 1
      /\ \A i \in 1 .. Len(s) - 1 : Front(s)[i] = s[i]
  <2>1. 1 \in 1 .. Len(s) + 1 /\ Len(s) - 1 \in 1 - 1 .. Len(s)
    BY <1>1
  <2>2. (Len(s) - 1) - 1 + 1 = Len(s) - 1
    BY <1>1
  <2>3. \A i \in 1 .. Len(s) - 1 : 1 + i - 1 = i
    OBVIOUS
  <2> QED
    BY <2>1, <2>2, <2>3, SubSeqProperties DEF Front
<1> QED
  BY <1>1, <1>2, ElementOfSeq

LEMMA Listed ==
    ASSUME NEW S, NEW s \in Seq(S)
    PROVE  /\ Len(s) \in Nat /\ DOMAIN s = 1 .. Len(s)
           /\ \A i \in 1 .. Len(s) : s[i] \in S /\ s[i] \in ToSet(s)
           /\ \A x \in ToSet(s) : x \in S /\ \E i \in 1 .. Len(s) : s[i] = x
           /\ s = <<>> <=> Len(s) = 0
<1>1. Len(s) \in Nat /\ DOMAIN s = 1 .. Len(s)
  BY LenProperties
<1>2. \A i \in 1 .. Len(s) : s[i] \in S
  BY <1>1, ElementOfSeq
<1> QED
  BY <1>1, <1>2, EmptySeq DEF ToSet

\* A list is one of its own elements.
LEMMA OfItsOwn ==
    ASSUME NEW S, NEW s \in Seq(S)
    PROVE  s \in Seq(ToSet(s))
<1>1. Len(s) \in Nat /\ s \in [1 .. Len(s) -> S]
  BY LenProperties
<1>2. s \in [1 .. Len(s) -> ToSet(s)]
  BY <1>1, Listed
<1> QED
  BY <1>1, <1>2, SeqDef

-----------------------------------------------------------------------------
(* What happens outside of the searches.                                   *)

Late == {"reseed", "generate", "repeat", "answers", "evidence", "report"}

Aside ==
    /\ UNCHANGED <<given, cases, byId, path, cursor, colour, order, results>>
    /\ own' = own \/ (pc = "score" /\ own' \in [Ids -> {"PASS", "FAIL"}])
    /\ pc = "score" /\ pc' = "order" => own' \in [Ids -> {"PASS", "FAIL"}]
    /\ \/ UNCHANGED <<pc, exit, next>>
       \/ /\ exit = "running" /\ pc # "over" /\ pc' = "over"
          /\ exit' \in {"ok", "gate_failed", "setup_failed", "traceback"}
          /\ exit' \in {"ok", "gate_failed"} =>
                 pc = "calibrate" \/ (pc = "report" /\ exit' = GateExitCode)
          /\ exit' = "setup_failed" => pc \notin {"search", "order"}
          /\ next' = next
       \/ /\ exit' = exit /\ next' = next
          /\ \/ pc = "screen" /\ ~Refused /\ pc' = "load"
             \/ pc = "seed" /\ pc' = IF args.calibrate THEN "calibrate" ELSE "score"
             \/ pc = "score" /\ pc' = "order"
       \/ /\ exit' = exit /\ next' \in {next, next + 1}
          /\ pc \in Late /\ pc' \in Late

InTheSearches ==
    \/ LoadCases \/ StartSearch \/ Search \/ EndSearch
    \/ StartPlacing \/ Place \/ EndPlacing \/ Propagate \/ EndPropagating

PhaseInv ==
    /\ pc \in {"screen", "load", "search", "seed", "calibrate", "score", "order", "propagate", "over"} \cup Late
    /\ pc = "over" <=> exit # "running"

LEMMA Elsewhere ==
    ASSUME PhaseInv, [Next]_vars
    PROVE  Aside \/ InTheSearches
<1> USE DEF vars, world, caseVars, searchVars, verdictVars, judgeVars, fileVars, Exit, GoTo, Aside, Late, PhaseInv
<1>1. CASE Screen \/ Seed \/ Calibrate \/ Reseed
  BY <1>1 DEF Screen, Seed, Calibrate, Reseed
<1>2. CASE RunPassA
  <2>1. \A id, hits : EvaluateDeterministic(byId[id], Status(hits), hits, DOMAIN disk.docs) \in {"PASS", "FAIL"}
    BY DEF EvaluateDeterministic
  <2>2. own' = own \/ own' \in [Ids -> {"PASS", "FAIL"}]
    BY <1>2, <2>1 DEF RunPassA
  <2>3. pc' = "order" => own' \in [Ids -> {"PASS", "FAIL"}]
    BY <1>2, <2>1 DEF RunPassA
  <2> QED
    BY <1>2, <2>2, <2>3 DEF RunPassA
<1>3. ASSUME NEW result, Record(result), pc \in {"generate", "repeat"} PROVE Aside
  BY <1>3 DEF Record
<1>4. CASE Skip \/ NoAnswer \/ GenerationFails
  BY <1>3, <1>4 DEF Skip, NoAnswer, GenerationFails, Answerable, Generating
<1>5. CASE Generate
  <2>1. pc = "generate"
    BY <1>5 DEF Generate, Answerable, Generating
  <2>2. CASE HitsA # HitsB
    BY <1>5, <2>1, <2>2, <1>3 DEF Generate
  <2>3. CASE HitsA = HitsB
    BY <1>5, <2>1, <2>3 DEF Generate
  <2> QED
    BY <2>2, <2>3
<1>6. CASE JudgeRepeat
  <2>1. pc = "repeat"
    BY <1>6 DEF JudgeRepeat
  <2>2. PICK reply \in Replies :
          LET done == Append(repeats, JudgeOnce(Current, Answer, HitsB, Len(repeats) + 1, reply))
          IN \/ Record(WithProvenance(DeriveJudgedResult(Current.id, done)))
             \/ UNCHANGED <<pc, exit, world, caseVars, searchVars, verdictVars>>
    BY <1>6, Zenon DEF JudgeRepeat
  <2> QED
    BY <2>1, <2>2, <1>3
<1>7. CASE EndJudging \/ Compose \/ WriteTemp \/ Replace \/ FailToWrite \/ Report
  BY <1>7 DEF EndJudging, Compose, WriteTemp, Replace, FailToWrite, Report, Writing, After, Settle, GateExitCode
<1>8. CASE JudgedLayerFails \/ Interrupt \/ Edit \/ UNCHANGED vars
  BY <1>8 DEF JudgedLayerFails, Generating, Interrupt, Edit
<1> QED
  BY <1>1, <1>4, <1>5, <1>6, <1>7, <1>8, <1>2 DEF Next, Work, InTheSearches

-----------------------------------------------------------------------------
(* The graph of requirements.                                              *)

\* Among these cases there is no cycle.
NoneIn(black) == \A S \in (SUBSET black) \ {{}} : \E id \in S : ToSet(Requires(id)) \cap S = {}

\* Each element of the stack requires the next one.
Chain == \A k \in 1 .. Len(path) - 1 : path[k + 1] \in ToSet(Requires(path[k]))

\* A stack whose top requires one of its elements holds a cycle.
LEMMA StackCloses ==
    ASSUME path \in Seq(Ids), Chain,
           NEW j \in 1 .. Len(path), path[j] \in ToSet(Requires(path[Len(path)]))
    PROVE  ~Acyclic
<1> DEFINE S == {path[k] : k \in j .. Len(path)}
<1>1. Len(path) \in Nat /\ \A k \in 1 .. Len(path) : path[k] \in Ids
  BY Listed
<1>2. S \in (SUBSET Ids) \ {{}}
  BY <1>1
<1>3. ASSUME NEW id \in S PROVE ToSet(Requires(id)) \cap S # {}
  <2>1. PICK k \in j .. Len(path) : id = path[k]
    OBVIOUS
  <2>2. CASE k = Len(path)
    <3>1. path[j] \in S
      BY <1>1
    <3> QED
      BY <2>1, <2>2, <3>1
  <2>3. CASE k # Len(path)
    <3>1. k \in 1 .. Len(path) - 1 /\ k + 1 \in j .. Len(path)
      BY <1>1, <2>3
    <3>2. path[k + 1] \in S /\ path[k + 1] \in ToSet(Requires(path[k]))
      BY <3>1 DEF Chain
    <3> QED
      BY <2>1, <3>2
  <2> QED
    BY <2>2, <2>3
<1> QED
  BY <1>2, <1>3 DEF Acyclic

\* A case whose requirements are among them adds no cycle to cases without.
LEMMA OneMore ==
    ASSUME NEW black, NEW top, top \notin black, NoneIn(black),
           \A id \in black \cup {top} : ToSet(Requires(id)) \subseteq black
    PROVE  NoneIn(black \cup {top})
<1> SUFFICES ASSUME NEW S \in (SUBSET (black \cup {top})) \ {{}}
             PROVE  \E id \in S : ToSet(Requires(id)) \cap S = {}
  BY DEF NoneIn
<1>1. CASE S \subseteq {top}
  <2>1. top \in S
    BY <1>1
  <2>2. ToSet(Requires(top)) \cap S = {}
    BY <1>1
  <2> QED
    BY <2>1, <2>2
<1>2. CASE ~(S \subseteq {top})
  <2>1. S \ {top} \in (SUBSET black) \ {{}}
    BY <1>2
  <2>2. PICK id \in S \ {top} : ToSet(Requires(id)) \cap (S \ {top}) = {}
    BY <2>1 DEF NoneIn
  <2>3. ToSet(Requires(id)) \subseteq black
    BY <2>1, <2>2
  <2> QED
    BY <2>2, <2>3
<1> QED
  BY <1>1, <1>2

-----------------------------------------------------------------------------
(* The invariant of the two searches.                                      *)

Started == pc \notin {"screen", "load"}

Types ==
    /\ \E s \in Scenarios : given.entries = s.entries
    /\ cases \in Seq(CaseNames)
    /\ \A id \in Ids : byId[id].id = id /\ Requires(id) \in Seq(Ids)
    /\ next \in Nat \ {0}
    /\ path \in Seq(Ids) /\ order \in Seq(Ids)
    /\ Started /\ pc # "over" => cursor \in [Ids -> Nat \ {0}]

Resting ==
    /\ pc \in {"screen", "load", "seed", "calibrate", "score"} => next = 1 /\ order = <<>>
    /\ pc \in {"seed", "calibrate", "score"} => \A id \in Ids : cursor[id] = 1
    /\ pc = "search" => order = <<>>
    /\ pc \notin {"search", "order", "over"} => path = <<>>
    /\ pc = "over" /\ path # <<>> => exit = "traceback" \/ ~Acyclic
    /\ pc \notin {"screen", "load", "search", "over"} \/ exit = "gate_failed" \/ exit = "ok" => Acyclic

Black == {id \in Ids : colour[id] = "black"}
NotTwice(s) == \A i, j \in 1 .. Len(s) : s[i] = s[j] => i = j

\* What a case on the stack has gone through is done, or is the next on the stack.
Looked(k, done) ==
    \A n \in 1 .. Len(Requires(path[k])) : n < cursor[path[k]] =>
        \/ Requires(path[k])[n] \in done
        \/ k < Len(path) /\ path[k + 1] = Requires(path[k])[n]

SearchInv ==
    pc = "search" =>
        /\ colour \in [Ids -> {"white", "gray", "black"}]
        /\ NotTwice(path) /\ Chain
        /\ \A id \in Ids : colour[id] = "gray" <=> id \in ToSet(path)
        /\ \A id \in Ids : colour[id] = "white" => cursor[id] = 1
        /\ \A id \in Black : ToSet(Requires(id)) \subseteq Black
        /\ NoneIn(Black)
        /\ \A k \in 1 .. Len(path) : Looked(k, Black)
        /\ \A n \in 1 .. Len(cases) : n < next => colour[cases[n]] # "white"

Placed == ToSet(order)
OrderInv ==
    pc = "order" =>
        /\ NotTwice(path) /\ Chain
        /\ \A k \in 1 .. Len(path) - 1 : path[k] \notin Placed
        /\ \A id \in Ids \ Placed : id \notin ToSet(path) => cursor[id] = 1
        /\ \A k \in 1 .. Len(path) : path[k] \notin Placed => Looked(k, Placed)
        /\ \A n \in 1 .. Len(cases) : n < next =>
               cases[n] \in Placed \/ (path # <<>> /\ path[1] = cases[n])

\* The order: each case once, after all that it requires.
InOrder(list, entries) ==
    /\ NotTwice(list)
    /\ \A k \in 1 .. Len(list) : \A r \in ToSet(entries[list[k]].requires) : \E j \in 1 .. k - 1 : list[j] = r
Ordered == InOrder(order, byId)
AllPlaced == pc \in {"propagate"} \cup Late => Placed = Ids

Inv == PhaseInv /\ Types /\ Resting /\ SearchInv /\ OrderInv /\ Ordered /\ AllPlaced

LEMMA OrderStays ==
    ASSUME Ordered, UNCHANGED <<byId, order>>
    PROVE  Ordered'
  BY DEF Ordered

LEMMA Starts ==
    ASSUME Init
    PROVE  Inv
<1> USE DEF Init
<1>1. /\ \A S : <<>> \in Seq(S) /\ ToSet(<<>>) = {}
      /\ Len(<<>>) = 0
  BY EmptySeq DEF ToSet
<1>2. PhaseInv /\ Types
  BY <1>1 DEF PhaseInv, Types, Started, Ids
<1>3. Resting /\ SearchInv /\ OrderInv /\ AllPlaced
  BY DEF Resting, SearchInv, OrderInv, AllPlaced, Late
<1>4. Ordered
  BY <1>1 DEF Ordered, InOrder, NotTwice
<1> QED
  BY <1>2, <1>3, <1>4 DEF Inv

\* Nothing outside of the searches disturbs it.
LEMMA AsideKeeps ==
    ASSUME Inv, Aside
    PROVE  Inv'
<1> USE DEF Aside, Inv
<1>1. PhaseInv'
  BY DEF PhaseInv, Late
<1>2. Types'
  BY DEF Types, Started, Ids, Requires, PhaseInv, Late
<1>3. Acyclic' <=> Acyclic
  BY DEF Acyclic, Ids, Requires
<1>4. Resting'
  BY <1>3 DEF Resting, PhaseInv, Late, Ids
<1>5. SearchInv'
  <2>1. CASE pc' = "search"
    <3>1. pc = "search" /\ next' = next /\ UNCHANGED <<cases, byId, path, cursor, colour>>
      BY <2>1 DEF PhaseInv, Late
    <3> HIDE DEF Aside
    <3> QED
      BY <2>1, <3>1 DEF SearchInv, NotTwice, Chain, Black, NoneIn, Looked, Ids, Requires
  <2> QED
    BY <2>1 DEF SearchInv
<1>6. Ordered' /\ AllPlaced'
  <2>1. AllPlaced'
    BY DEF AllPlaced, PhaseInv, Late, Placed, Ids
  <2> QED
    BY <2>1, OrderStays
<1>7. OrderInv'
  <2>1. CASE pc = "order" /\ pc' = "order"
    <3>1. next' = next
      BY <2>1 DEF Late
    <3> QED
      BY <2>1, <3>1 DEF OrderInv, NotTwice, Chain, Placed, Looked, Ids, Requires
  <2>2. CASE pc = "score" /\ pc' = "order"
    <3>1. next' = 1 /\ path' = <<>> /\ order' = <<>> /\ \A id \in Ids : cursor'[id] = 1
      BY <2>2 DEF Resting, Late
    <3>2. Len(<<>>) = 0 /\ Len(cases') \in Nat
      BY EmptySeq, Listed DEF Types
    <3> QED
      BY <3>1, <3>2 DEF OrderInv, NotTwice, Chain, Ids
  <2> QED
    BY <2>1, <2>2 DEF OrderInv, Late, PhaseInv
<1> QED
  BY <1>1, <1>2, <1>4, <1>5, <1>6, <1>7

-----------------------------------------------------------------------------
(* Loading, and the search for a cycle.                                    *)

LEMMA LoadKeeps ==
    ASSUME Inv, LoadCases
    PROVE  Inv'
<1> USE DEF LoadCases, Exit, GoTo, world, caseVars, verdictVars, judgeVars, fileVars
<1> DEFINE ids == [i \in DOMAIN given.entries |-> given.entries[i].id]
           entryOf == [id \in ToSet(ids) |-> given.entries[CHOOSE i \in DOMAIN ids : ids[i] = id]]
           accepted == /\ Loads(given.entries, DOMAIN disk.docs)
                       /\ \A id \in ToSet(ids) : \A r \in ToSet(entryOf[id].requires) :
                              r # id /\ r \in ToSet(ids)
<1>1. CASE UNCHANGED <<caseVars, colour, cursor>> /\ exit' = "setup_failed"
  <2>1. Aside
    BY <1>1 DEF Aside, Inv, PhaseInv
  <2> QED
    BY <2>1, AsideKeeps
<1>2. CASE /\ accepted /\ pc' = "search" /\ exit' = exit
           /\ cases' = ids /\ byId' = entryOf
           /\ colour' = [id \in ToSet(ids) |-> "white"] /\ cursor' = [id \in ToSet(ids) |-> 1]
  <2>1. \A i \in DOMAIN given.entries :
           /\ given.entries[i].id \in CaseNames
           /\ given.entries[i].requires \in Seq(CaseNames)
    <3>1. PICK s \in Scenarios : given.entries = s.entries
      BY DEF Inv, Types
    <3>2. \A i \in DOMAIN given.entries : WellFormed(given.entries[i], DOMAIN disk.docs)
      BY <1>2 DEF Loads
    <3>3. \A i \in DOMAIN s.entries :
             s.entries[i] # Wrong /\ s.entries[i].id # Wrong /\ s.entries[i].requires # Wrong
      BY <3>1, <3>2 DEF WellFormed
    <3> QED
      BY <3>1, <3>3, ScenariosAssumption
  <2>2. DOMAIN given.entries = 1 .. Len(given.entries) /\ Len(given.entries) \in Nat
    BY ScenariosAssumption, LenProperties DEF Inv, Types
  <2>3. ids \in Seq(CaseNames)
    BY <2>1, <2>2, SeqDef
  <2>4. ASSUME NEW id \in ToSet(ids)
        PROVE  entryOf[id].id = id /\ entryOf[id].requires \in Seq(ToSet(ids))
    <3> DEFINE i == CHOOSE j \in DOMAIN ids : ids[j] = id
    <3>1. i \in DOMAIN ids /\ ids[i] = id
      BY DEF ToSet
    <3>2. entryOf[id] = given.entries[i]
      OBVIOUS
    <3>3. entryOf[id].requires \in Seq(ToSet(entryOf[id].requires))
      BY <2>1, <3>1, <3>2, OfItsOwn
    <3>4. ToSet(entryOf[id].requires) \subseteq ToSet(ids)
      BY <1>2
    <3> QED
      BY <3>1, <3>2, <3>3, <3>4, SeqMonotonic
  <2> HIDE DEF ids, entryOf, accepted
  <2>5. /\ Ids' = ToSet(ids) /\ path' = <<>> /\ order' = <<>> /\ next' = 1
        /\ pc = "load" /\ exit = "running"
    BY <1>2 DEF Ids, Inv, Resting, PhaseInv
  <2>6. /\ \A S : <<>> \in Seq(S)
        /\ Len(<<>>) = 0 /\ ToSet(<<>>) = {} /\ Len(ids) \in Nat
        /\ \A i \in 1 .. Len(ids) : ids[i] \in ToSet(ids)
    <3>1. Len(ids) \in Nat /\ \A i \in 1 .. Len(ids) : ids[i] \in ToSet(ids)
      BY <2>3, Listed
    <3>2. \A S : <<>> \in Seq(S)
      BY EmptySeq
    <3>3. Len(<<>>) = 0
      BY EmptySeq
    <3>4. ToSet(<<>>) = {}
      <4>1. \A x \in ToSet(<<>>) : \E i \in 1 .. Len(<<>>) : <<>>[i] = x
        BY <3>2, Listed
      <4> QED
        BY <3>3, <4>1
    <3> QED
      BY <3>1, <3>2, <3>3, <3>4
  <2>7. PhaseInv' /\ Types'
    BY <1>2, <2>3, <2>4, <2>5, <2>6 DEF PhaseInv, Types, Requires, Started, Inv
  <2>8. Resting' /\ OrderInv' /\ AllPlaced'
    BY <1>2, <2>5 DEF Resting, OrderInv, AllPlaced, Late
  <2>9. Ordered'
    BY <2>5, <2>6 DEF Ordered, InOrder, NotTwice
  <2>10. Black' = {}
    BY <1>2, <2>5 DEF Black
  <2>11. (NotTwice(path) /\ Chain)' /\ NoneIn(Black)'
    BY <2>5, <2>6, <2>10 DEF NotTwice, Chain, NoneIn
  <2>12. SearchInv'
    BY <1>2, <2>5, <2>6, <2>10, <2>11 DEF SearchInv
  <2> QED
    BY <2>7, <2>8, <2>9, <2>12 DEF Inv
<1> QED
  BY <1>1, <1>2 DEF Inv, Types

LEMMA EndSearchKeeps ==
    ASSUME Inv, EndSearch
    PROVE  Inv'
<1> USE DEF EndSearch, GoTo, world, caseVars, verdictVars, judgeVars, fileVars
<1>1. /\ Ids' = Ids /\ path = <<>> /\ order = <<>> /\ pc = "search" /\ pc' = "seed"
      /\ \A id \in Ids : Requires(id)' = Requires(id)
  BY DEF Ids, Requires, Inv, SearchInv, Resting
<1>2. Black = Ids
  <2>1. \A id \in Ids : colour[id] # "white"
    BY Listed DEF Inv, Types, SearchInv, Ids
  <2>2. ToSet(path) = {}
    BY <1>1 DEF ToSet
  <2> QED
    BY <1>1, <2>1, <2>2 DEF Inv, SearchInv, Black
<1>3. Acyclic'
  <2>1. Acyclic
    BY <1>1, <1>2 DEF Acyclic, Inv, SearchInv, NoneIn
  <2> QED
    BY <2>1 DEF Acyclic, Ids, Requires
<1>4. PhaseInv' /\ Types'
  BY <1>1 DEF PhaseInv, Types, Inv, Started
<1>5. Resting'
  BY <1>1, <1>3 DEF Inv, Resting, PhaseInv
<1>6. SearchInv' /\ OrderInv' /\ AllPlaced'
  BY DEF SearchInv, OrderInv, AllPlaced, Late
<1>7. Ordered'
  BY OrderStays DEF Inv
<1> QED
  BY <1>4, <1>5, <1>6, <1>7 DEF Inv

\* The stack grows by a white case.
Pushed(id) ==
    /\ path' = Append(path, id) /\ colour' = [colour EXCEPT ![id] = "gray"]
    /\ UNCHANGED <<pc, exit, given, cases, byId, order>>

LEMMA PushKeeps ==
    ASSUME Inv, pc = "search", NEW id \in Ids, colour[id] = "white", Pushed(id),
           next' \in Nat \ {0}, cursor' \in [Ids -> Nat \ {0}],
           \A x \in Ids : colour[x] = "white" => cursor'[x] = cursor[x],
           path # <<>> => id \in ToSet(Requires(path[Len(path)])),
           \A k \in 1 .. Len(path)' - 1 : Looked(k, Black)',
           \A n \in 1 .. Len(cases) : n < next' => colour[cases[n]] # "white" \/ cases[n] = id
    PROVE  Inv'
<1> USE DEF Pushed
<1>1. /\ Ids' = Ids /\ order = <<>>
      /\ \A x : byId'[x].requires = Requires(x)
      /\ path \in Seq(Ids) /\ path' \in Seq(Ids)
      /\ Len(path) \in Nat /\ Len(path') = Len(path) + 1
      /\ \A k \in 1 .. Len(path) : path'[k] = path[k] /\ path[k] \in ToSet(path)
      /\ path'[Len(path')] = id
      /\ ToSet(path') = ToSet(path) \cup {id}
      /\ colour \in [Ids -> {"white", "gray", "black"}]
  BY Pushing, Listed DEF Inv, Types, Resting, SearchInv, Ids, Requires
<1>2. colour' \in [Ids -> {"white", "gray", "black"}] /\ Black' = Black
  BY <1>1 DEF Black
<1>3. id \notin ToSet(path) /\ cursor'[id] = 1
  BY <1>1 DEF Inv, SearchInv
<1>4. PhaseInv' /\ Types' /\ Resting' /\ OrderInv' /\ AllPlaced'
  <2>1. PhaseInv' /\ Resting' /\ OrderInv' /\ AllPlaced'
    BY <1>1 DEF Inv, PhaseInv, Resting, OrderInv, AllPlaced, Late
  <2>2. Types'
    BY <1>1 DEF Inv, Types, Requires
  <2> QED
    BY <2>1, <2>2
<1>5. Ordered'
  BY OrderStays DEF Inv
<1>6. NotTwice(path)'
  BY <1>1, <1>3 DEF NotTwice, Inv, SearchInv
<1>7. Chain'
  <2> SUFFICES ASSUME NEW k \in 1 .. Len(path') - 1
               PROVE  path'[k + 1] \in ToSet(Requires(path'[k]))
    BY <1>1 DEF Chain, Requires
  <2>1. path'[k] = path[k] /\ path[k] \in Ids /\ k \in 1 .. Len(path)
    BY <1>1, Listed
  <2>2. CASE k = Len(path)
    BY <1>1, <2>1, <2>2, Listed, SMTT(30)
  <2>3. CASE k # Len(path)
    <3>1. k \in 1 .. Len(path) - 1 /\ path'[k + 1] = path[k + 1]
      BY <1>1, <2>3
    <3> QED
      BY <1>1, <2>1, <3>1 DEF Chain, Inv, SearchInv
  <2> QED
    BY <2>2, <2>3
<1>8. (\A x \in Ids : colour[x] = "gray" <=> x \in ToSet(path))'
  BY <1>1, <1>3 DEF Inv, SearchInv
<1>9. (\A x \in Ids : colour[x] = "white" => cursor[x] = 1)'
  BY <1>1 DEF Inv, SearchInv
<1>10. (\A x \in Black : ToSet(Requires(x)) \subseteq Black)' /\ NoneIn(Black)'
  <2>1. (\A x \in Black : ToSet(Requires(x)) \subseteq Black) /\ NoneIn(Black)
    BY DEF Inv, SearchInv
  <2> QED
    BY <1>2, <2>1 DEF NoneIn, Requires
<1>11. (\A k \in 1 .. Len(path) : Looked(k, Black))'
  <2>1. Looked(Len(path), Black)'
    <3>1. Len(Requires(id)) \in Nat
      BY Listed DEF Inv, Types
    <3> QED
      BY <1>1, <1>3, <3>1 DEF Looked
  <2> QED
    BY <1>1, <2>1
<1>12. (\A n \in 1 .. Len(cases) : n < next => colour[cases[n]] # "white")'
  <2>1. Len(cases) \in Nat /\ \A n \in 1 .. Len(cases) : cases[n] \in Ids
    BY Listed DEF Inv, Types, Ids
  <2> QED
    BY <1>1, <2>1
<1>13. SearchInv'
  <2> HIDE DEF Pushed
  <2> QED
    BY <1>2, <1>6, <1>7, <1>8, <1>9, <1>10, <1>11, <1>12, <1>1 DEF SearchInv
<1> QED
  BY <1>4, <1>5, <1>13 DEF Inv

\* Nor does the step to the next case, if this one has been gone through.
LEMMA SearchGoesOn ==
    ASSUME SearchInv, pc = "search", UNCHANGED <<cases, byId, path, cursor, colour>>,
           (\A n \in 1 .. Len(cases) : n < next => colour[cases[n]] # "white")'
    PROVE  SearchInv'
<1>1. Ids' = Ids
  BY DEF Ids
<1>2. Black' = Black
  BY <1>1 DEF Black
<1>3. NotTwice(path)' /\ Chain'
  BY DEF SearchInv, NotTwice, Chain, Requires
<1>4. NoneIn(Black)'
  BY <1>2 DEF SearchInv, NoneIn, Requires
<1>5. (\A k \in 1 .. Len(path) : Looked(k, Black))'
  BY <1>2 DEF SearchInv, Looked, Requires
<1>6. (\A id \in Black : ToSet(Requires(id)) \subseteq Black)'
  BY <1>2 DEF SearchInv, Requires
<1>7. /\ (colour \in [Ids -> {"white", "gray", "black"}])'
      /\ (\A id \in Ids : colour[id] = "gray" <=> id \in ToSet(path))'
      /\ (\A id \in Ids : colour[id] = "white" => cursor[id] = 1)'
  BY <1>1 DEF SearchInv
<1> QED
  BY <1>3, <1>4, <1>5, <1>6, <1>7 DEF SearchInv

LEMMA StartSearchKeeps ==
    ASSUME Inv, StartSearch
    PROVE  Inv'
<1> USE DEF StartSearch, world, caseVars, verdictVars, judgeVars, fileVars
<1> DEFINE id == cases[next]
<1>1. /\ next \in Nat \ {0} /\ id \in Ids /\ Len(cases) \in Nat
      /\ pc = "search" /\ pc # "over" /\ Started
      /\ cursor \in [Ids -> Nat \ {0}]
  BY Listed DEF Inv, Types, Ids, Started
<1>2. CASE colour[id] = "white"
  <2>1. Pushed(id)
    BY <1>2 DEF Pushed
  <2>2. Len(path') = 1
    <3>1. path \in Seq(Ids) /\ Len(path) = 0
      BY EmptySeq DEF Inv, Types
    <3> QED
      BY <1>1, <2>1, <3>1, Pushing DEF Pushed
  <2>3. \A n \in 1 .. Len(cases) : n < next' => colour[cases[n]] # "white" \/ cases[n] = id
    BY <1>1 DEF Inv, SearchInv
  <2> QED
    BY <1>1, <1>2, <2>1, <2>2, <2>3, PushKeeps
<1>3. CASE colour[id] # "white"
  <2>1. UNCHANGED <<pc, exit, given, cases, byId, path, cursor, colour, order>> /\ next' = next + 1
    BY <1>3
  <2>2. PhaseInv' /\ Types'
    BY <1>1, <2>1 DEF Inv, PhaseInv, Types, Started, Ids, Requires
  <2>3. Resting' /\ OrderInv' /\ AllPlaced'
    BY <1>1, <2>1 DEF Resting, OrderInv, AllPlaced, Late, Inv, PhaseInv
  <2>4. Ordered'
    BY OrderStays DEF Inv
  <2>5. (\A n \in 1 .. Len(cases) : n < next => colour[cases[n]] # "white")'
    BY <1>1, <1>3, <2>1 DEF Inv, SearchInv
  <2>6. SearchInv'
    <3> HIDE DEF StartSearch
    <3> QED
      BY <1>1, <2>1, <2>5, SearchGoesOn DEF Inv
  <2> QED
    BY <2>2, <2>3, <2>4, <2>6 DEF Inv
<1> QED
  BY <1>2, <1>3

\* The stack without its top.
LEMMA Popped ==
    ASSUME path \in Seq(Ids), path # <<>>, NotTwice(path), Chain,
           NEW last \in Nat \ {0}, last = Len(path),
           NEW top \in Ids, top = path[last],
           path' = Front(path), UNCHANGED byId
    PROVE  /\ path' \in Seq(Ids) /\ Len(path') = last - 1
           /\ \A k \in 1 .. last - 1 : path'[k] = path[k] /\ path[k] # top
           /\ top \in ToSet(path) /\ ToSet(path') = ToSet(path) \ {top}
           /\ NotTwice(path)' /\ Chain'
<1>1. /\ path' \in Seq(Ids) /\ Len(path') = last - 1
      /\ \A k \in 1 .. last - 1 : path'[k] = path[k]
  BY Popping
<1>2. \A k \in 1 .. last - 1 : path[k] # top
  BY DEF NotTwice
<1>3. ToSet(path') = ToSet(path) \ {top}
  <2>1. \A x \in ToSet(path) : \E k \in 1 .. last : path[k] = x
    BY Listed
  <2>2. \A x \in ToSet(path) \ {top} : \E k \in 1 .. last - 1 : path'[k] = x
    BY <1>1, <2>1
  <2>3. /\ \A x \in ToSet(path') : \E k \in 1 .. last - 1 : path'[k] = x
        /\ \A k \in 1 .. last - 1 : path'[k] \in ToSet(path')
    BY <1>1, Listed
  <2>4. \A k \in 1 .. last : path[k] \in ToSet(path)
    BY Listed
  <2>5. \A x \in ToSet(path') : x \in ToSet(path) /\ x # top
    BY <1>1, <1>2, <2>3, <2>4
  <2>6. \A x \in ToSet(path) \ {top} : x \in ToSet(path')
    BY <2>2, <2>3
  <2> QED
    BY <2>5, <2>6
<1>4. top \in ToSet(path)
  BY Listed
<1>5. NotTwice(path)'
  BY <1>1 DEF NotTwice
<1>6. Chain'
  <2>1. \A k \in 1 .. last - 2 : path[k + 1] \in ToSet(Requires(path[k]))
    BY DEF Chain
  <2>2. \A k \in 1 .. last - 2 : path'[k + 1] = path[k + 1] /\ path'[k] = path[k]
    BY <1>1
  <2>3. \A k \in 1 .. Len(path') - 1 : k \in 1 .. last - 2
    BY <1>1
  <2>4. \A k \in 1 .. Len(path') - 1 : path'[k + 1] \in ToSet(Requires(path'[k]))
    BY <2>1, <2>2, <2>3
  <2> QED
    BY <2>4 DEF Chain, Requires
<1> QED
  BY <1>1, <1>2, <1>3, <1>4, <1>5, <1>6

\* The case on top is done: it is taken off and blackened.
LEMMA PopKeeps ==
    ASSUME Inv, pc = "search", path # <<>>,
           NEW last \in Nat \ {0}, last = Len(path),
           NEW top \in Ids, top = path[last],
           cursor[top] > Len(Requires(top)),
           colour' = [colour EXCEPT ![top] = "black"], path' = Front(path),
           UNCHANGED <<pc, exit, given, cases, byId, next, cursor, order>>
    PROVE  Inv'
<1>1. /\ path \in Seq(Ids) /\ cases \in Seq(CaseNames) /\ Requires(top) \in Seq(Ids)
      /\ cursor \in [Ids -> Nat \ {0}]
      /\ colour \in [Ids -> {"white", "gray", "black"}]
  BY DEF Inv, Types, Started, SearchInv
<1>2. /\ NotTwice(path) /\ Chain
      /\ \A id \in Ids : colour[id] = "gray" <=> id \in ToSet(path)
      /\ \A id \in Ids : colour[id] = "white" => cursor[id] = 1
      /\ \A id \in Black : ToSet(Requires(id)) \subseteq Black
      /\ NoneIn(Black)
  BY DEF Inv, SearchInv
<1>3. \A k \in 1 .. last : \A n \in 1 .. Len(Requires(path[k])) : n < cursor[path[k]] =>
          \/ Requires(path[k])[n] \in Black
          \/ k < last /\ path[k + 1] = Requires(path[k])[n]
  BY DEF Inv, SearchInv, Looked
<1>4. Ids' = Ids /\ \A x : byId'[x].requires = Requires(x)
  BY DEF Ids, Requires
<1>5. /\ path' \in Seq(Ids) /\ Len(path') = last - 1
      /\ \A k \in 1 .. last - 1 : path'[k] = path[k]
  BY <1>1, <1>2, Popped
<1>6. NotTwice(path)' /\ Chain'
  BY <1>1, <1>2, Popped
<1>7. ToSet(path') = ToSet(path) \ {top} /\ top \in ToSet(path)
  BY <1>1, <1>2, Popped
<1>8. Black' = Black \cup {top} /\ top \notin Black
  BY <1>1, <1>2, <1>4, <1>7 DEF Black
<1>9. ToSet(Requires(top)) \subseteq Black
  <2>1. /\ Len(Requires(top)) \in Nat
        /\ \A x \in ToSet(Requires(top)) : \E n \in 1 .. Len(Requires(top)) : Requires(top)[n] = x
    BY <1>1, Listed
  <2>2. last \in 1 .. last /\ ~(last < last) /\ cursor[top] \in Nat
    BY <1>1
  <2>3. \A n \in 1 .. Len(Requires(top)) : n < cursor[top]
    BY <2>1, <2>2
  <2>4. \A n \in 1 .. Len(Requires(top)) : Requires(top)[n] \in Black
    BY <1>3, <2>2, <2>3
  <2> QED
    BY <2>1, <2>4
<1>10. NoneIn(Black)'
  <2>1. NoneIn(Black \cup {top})
    BY <1>2, <1>8, <1>9, OneMore
  <2> QED
    BY <1>8, <2>1 DEF NoneIn, Requires
<1>11. (\A id \in Black : ToSet(Requires(id)) \subseteq Black)'
  BY <1>2, <1>8, <1>9 DEF Requires
<1>12. (\A k \in 1 .. Len(path) : Looked(k, Black))'
  <2>1. ASSUME NEW k \in 1 .. last - 1, NEW n \in 1 .. Len(Requires(path[k])), n < cursor[path[k]]
        PROVE  \/ Requires(path[k])[n] \in Black'
               \/ k < last - 1 /\ path'[k + 1] = Requires(path[k])[n]
    <3>1. k \in 1 .. last
      OBVIOUS
    <3>2. \/ Requires(path[k])[n] \in Black
          \/ path[k + 1] = Requires(path[k])[n]
      BY <1>3, <2>1, <3>1
    <3>3. k = last - 1 => path[k + 1] = top
      OBVIOUS
    <3>4. k # last - 1 => k < last - 1 /\ path'[k + 1] = path[k + 1]
      BY <1>5
    <3> QED
      BY <1>8, <3>2, <3>3, <3>4
  <2>2. \A k \in 1 .. last - 1 : \A n \in 1 .. Len(Requires(path[k])) : n < cursor[path[k]] =>
               \/ Requires(path[k])[n] \in Black'
               \/ k < last - 1 /\ path'[k + 1] = Requires(path[k])[n]
    BY <2>1
  <2> QED
    BY <1>5, <2>2 DEF Looked, Requires
<1>13. (\A id \in Ids : colour[id] = "gray" <=> id \in ToSet(path))'
  BY <1>1, <1>2, <1>4, <1>7
<1>14. (\A id \in Ids : colour[id] = "white" => cursor[id] = 1)'
  BY <1>1, <1>2, <1>4
<1>15. (\A n \in 1 .. Len(cases) : n < next => colour[cases[n]] # "white")'
  <2>1. \A n \in 1 .. Len(cases) : cases[n] \in Ids
    BY <1>1, Listed DEF Ids
  <2>2. \A n \in 1 .. Len(cases) : n < next => colour[cases[n]] # "white"
    BY DEF Inv, SearchInv
  <2> QED
    BY <1>1, <2>1, <2>2
<1>16. SearchInv'
  <2>1. colour' \in [Ids' -> {"white", "gray", "black"}]
    BY <1>1, <1>4
  <2> QED
    BY <1>6, <1>10, <1>11, <1>12, <1>13, <1>14, <1>15, <2>1 DEF SearchInv
<1>17. PhaseInv' /\ Resting' /\ OrderInv' /\ AllPlaced'
  BY DEF Inv, PhaseInv, Resting, OrderInv, AllPlaced, Late
<1>18. Types'
  BY <1>4, <1>5 DEF Inv, Types, Requires, Started
<1>19. Ordered'
  BY OrderStays DEF Inv
<1> QED
  BY <1>16, <1>17, <1>18, <1>19 DEF Inv

\* The case on top looks at its next requirement.
LEMMA LookKeeps ==
    ASSUME Inv, pc = "search", path # <<>>,
           NEW last \in Nat \ {0}, last = Len(path),
           NEW top \in Ids, top = path[last],
           cursor[top] <= Len(Requires(top)),
           cursor' = [cursor EXCEPT ![top] = @ + 1], Searching(Requires(top)[cursor[top]]),
           UNCHANGED <<given, cases, byId, next, order>>
    PROVE  Inv'
<1> DEFINE child == Requires(top)[cursor[top]]
<1>1. /\ path \in Seq(Ids) /\ cases \in Seq(CaseNames) /\ Requires(top) \in Seq(Ids)
      /\ cursor \in [Ids -> Nat \ {0}]
      /\ colour \in [Ids -> {"white", "gray", "black"}]
  BY DEF Inv, Types, Started, SearchInv
<1>2. /\ NotTwice(path) /\ Chain
      /\ \A id \in Ids : colour[id] = "gray" <=> id \in ToSet(path)
      /\ \A id \in Ids : colour[id] = "white" => cursor[id] = 1
      /\ \A n \in 1 .. Len(cases) : n < next => colour[cases[n]] # "white"
  BY DEF Inv, SearchInv
<1>3. \A k \in 1 .. last : \A n \in 1 .. Len(Requires(path[k])) : n < cursor[path[k]] =>
          \/ Requires(path[k])[n] \in Black
          \/ k < last /\ path[k + 1] = Requires(path[k])[n]
  BY DEF Inv, SearchInv, Looked
<1>4. Ids' = Ids /\ \A x : byId'[x].requires = Requires(x)
  BY DEF Ids, Requires
<1>5. Len(Requires(top)) \in Nat /\ cursor[top] \in 1 .. Len(Requires(top))
  BY <1>1, Listed
<1>6. child \in Ids /\ child \in ToSet(Requires(top)) /\ top \in ToSet(path)
  BY <1>1, <1>5, Listed, SMTT(30)
<1>7. cursor' \in [Ids -> Nat \ {0}] /\ cursor'[top] = cursor[top] + 1
  BY <1>1
<1>8. \A n \in 1 .. Len(Requires(top)) : n < cursor'[top] => Requires(top)[n] \in Black \/ n = cursor[top]
  <2>1. last \in 1 .. last /\ ~(last < last)
    OBVIOUS
  <2>2. \A n \in 1 .. Len(Requires(top)) : n < cursor[top] => Requires(top)[n] \in Black
    BY <1>3, <2>1
  <2>3. \A n \in 1 .. Len(Requires(top)) : n < cursor'[top] => n < cursor[top] \/ n = cursor[top]
    BY <1>5, <1>7
  <2> QED
    BY <2>2, <2>3
<1>9. \A k \in 1 .. last - 1 : path[k] # top /\ cursor'[path[k]] = cursor[path[k]]
  <2>1. \A k \in 1 .. last - 1 : path[k] # top
    BY <1>2 DEF NotTwice
  <2>2. \A k \in 1 .. last - 1 : path[k] \in Ids
    BY <1>1, Listed
  <2> QED
    BY <1>1, <2>1, <2>2
<1>10. \A x \in Ids : colour[x] = "white" => cursor'[x] = cursor[x]
  BY <1>1, <1>2, <1>6
<1> HIDE DEF child
<1>11. CASE colour[child] = "white"
  <2>1. Pushed(child)
    BY <1>11 DEF Searching, Pushed, child
  <2>2. Black' = Black
    BY <1>1, <1>4, <1>11, <2>1 DEF Black, Pushed
  <2>3. /\ Len(path') = last + 1 /\ path'[last + 1] = child
        /\ \A k \in 1 .. last : path'[k] = path[k]
    BY <1>1, <1>6, <2>1, Pushing DEF Pushed
  <2>4. ASSUME NEW k \in 1 .. last
        PROVE  Looked(k, Black)'
    <3> SUFFICES ASSUME NEW n \in 1 .. Len(Requires(path[k])), n < cursor'[path[k]]
                 PROVE  Requires(path[k])[n] \in Black \/ path'[k + 1] = Requires(path[k])[n]
      BY <2>2, <2>3 DEF Looked, Requires
    <3>1. CASE k = last
      BY <1>8, <2>3, <3>1 DEF child
    <3>2. CASE k # last
      <4>1. k \in 1 .. last - 1 /\ path'[k + 1] = path[k + 1]
        BY <2>3, <3>2
      <4> QED
        BY <1>3, <1>9, <4>1
    <3> QED
      BY <3>1, <3>2
  <2>5. next' \in Nat \ {0}
    BY DEF Inv, Types
  <2>6. \A k \in 1 .. Len(path') - 1 : Looked(k, Black)'
    BY <2>3, <2>4
  <2> QED
    BY <1>2, <1>6, <1>7, <1>10, <1>11, <2>1, <2>5, <2>6, PushKeeps
<1>12. CASE colour[child] = "gray"
  <2>1. pc' = "over" /\ exit' = "setup_failed" /\ UNCHANGED <<path, colour>>
    BY <1>12 DEF Searching, Exit, child
  <2>2. PICK j \in 1 .. last : path[j] = child
    BY <1>1, <1>2, <1>6, <1>12, Listed
  <2>3. ~Acyclic
    BY <1>1, <1>2, <1>6, <2>2, StackCloses
  <2>4. (~Acyclic)'
    BY <2>3 DEF Acyclic, Ids, Requires
  <2>5. PhaseInv' /\ Types'
    BY <1>4, <2>1 DEF Inv, PhaseInv, Types, Requires, Started
  <2>6. Resting' /\ SearchInv' /\ OrderInv' /\ AllPlaced'
    BY <2>1, <2>4 DEF Resting, SearchInv, OrderInv, AllPlaced, Late
  <2> QED
    BY <2>5, <2>6, OrderStays DEF Inv
<1>13. CASE colour[child] = "black"
  <2>1. UNCHANGED <<pc, exit, path, colour>> /\ child \in Black
    BY <1>6, <1>13 DEF Searching, Black, child
  <2>2. Black' = Black
    BY <1>4, <2>1 DEF Black
  <2>3. (\A k \in 1 .. Len(path) : Looked(k, Black))'
    <3> SUFFICES ASSUME NEW k \in 1 .. last, NEW n \in 1 .. Len(Requires(path[k])), n < cursor'[path[k]]
                 PROVE  \/ Requires(path[k])[n] \in Black
                        \/ k < last /\ path[k + 1] = Requires(path[k])[n]
      BY <2>1, <2>2 DEF Looked, Requires
    <3>1. CASE k = last
      BY <1>8, <2>1, <3>1 DEF child
    <3>2. CASE k # last
      <4>1. k \in 1 .. last - 1
        BY <3>2
      <4> QED
        BY <1>3, <1>9, <4>1
    <3> QED
      BY <3>1, <3>2
  <2>4. (\A id \in Ids : colour[id] = "white" => cursor[id] = 1)'
    BY <1>2, <1>4, <1>10, <2>1
  <2>5. (NotTwice(path) /\ Chain)'
    BY <1>2, <2>1 DEF NotTwice, Chain, Requires
  <2>6. (\A id \in Black : ToSet(Requires(id)) \subseteq Black)' /\ NoneIn(Black)'
    <3>1. (\A id \in Black : ToSet(Requires(id)) \subseteq Black) /\ NoneIn(Black)
      BY DEF Inv, SearchInv
    <3> QED
      BY <2>2, <3>1 DEF NoneIn, Requires
  <2>7. SearchInv'
    BY <1>1, <1>2, <1>4, <2>1, <2>3, <2>4, <2>5, <2>6 DEF SearchInv
  <2>8. PhaseInv' /\ Resting' /\ OrderInv' /\ AllPlaced'
    BY <2>1 DEF Inv, PhaseInv, Resting, OrderInv, AllPlaced, Late
  <2>9. Types'
    BY <1>4, <1>7, <2>1 DEF Inv, Types, Requires, Started
  <2> QED
    BY <2>7, <2>8, <2>9, OrderStays DEF Inv
<1> QED
  BY <1>1, <1>6, <1>11, <1>12, <1>13

LEMMA SearchKeeps ==
    ASSUME Inv, Search
    PROVE  Inv'
<1> DEFINE last == Len(path)
           top == path[last]
<1>1. UNCHANGED <<given, cases, byId, next, order>> /\ pc = "search" /\ path # <<>>
  BY DEF Search, world, caseVars
<1>2. last \in Nat \ {0} /\ top \in Ids
  BY <1>1, Listed DEF Inv, Types
<1>3. CASE cursor[top] > Len(Requires(top))
  <2>1. /\ colour' = [colour EXCEPT ![top] = "black"] /\ path' = Front(path)
        /\ UNCHANGED <<pc, exit, cursor>>
    BY <1>3 DEF Search
  <2> HIDE DEF last, top
  <2> QED
    BY <1>1, <1>2, <1>3, <2>1, PopKeeps DEF last, top
<1>4. CASE cursor[top] <= Len(Requires(top))
  <2>1. cursor[top] \in Nat /\ Len(Requires(top)) \in Nat
    BY <1>1, <1>2, Listed DEF Inv, Types, Started
  <2>2. cursor' = [cursor EXCEPT ![top] = @ + 1] /\ Searching(Requires(top)[cursor[top]])
    BY <1>4, <2>1 DEF Search
  <2> QED
    BY <1>1, <1>2, <1>4, <2>2, LookKeeps
<1>5. cursor[top] \in Nat /\ Len(Requires(top)) \in Nat
  BY <1>1, <1>2, Listed DEF Inv, Types, Started
<1> QED
  BY <1>3, <1>4, <1>5

-----------------------------------------------------------------------------
(* Placing the cases.                                                      *)

\* On a stack without a cycle no case is twice, whatever is put on its top.
LEMMA NewOnTheStack ==
    ASSUME path \in Seq(Ids), Chain, Acyclic, path # <<>>,
           NEW child \in ToSet(Requires(path[Len(path)]))
    PROVE  child \notin ToSet(path)
<1> SUFFICES ASSUME child \in ToSet(path) PROVE FALSE
  OBVIOUS
<1>1. PICK j \in 1 .. Len(path) : path[j] = child
  BY Listed
<1> QED
  BY <1>1, StackCloses

LEMMA StartPlacingKeeps ==
    ASSUME Inv, StartPlacing
    PROVE  Inv'
<1> DEFINE id == cases[next]
<1>1. /\ pc = "order" /\ path = <<>> /\ next \in 1 .. Len(cases)
      /\ path' = <<id>> /\ next' = next + 1
      /\ UNCHANGED <<pc, exit, given, cases, byId, cursor, order>>
  BY Listed DEF StartPlacing, world, caseVars, Inv, Types
<1>2. /\ Ids' = Ids /\ Placed' = Placed /\ \A x : byId'[x].requires = Requires(x)
      /\ id \in Ids /\ Len(cases) \in Nat /\ ToSet(path) = {}
  BY <1>1, Listed DEF Inv, Types, Ids, Placed, Requires, ToSet
<1>3. path' \in Seq(Ids) /\ Len(path') = 1 /\ path'[1] = id /\ ToSet(path') = {id}
  BY <1>1, <1>2 DEF ToSet
<1>4. /\ cursor \in [Ids -> Nat \ {0}]
      /\ \A x \in Ids \ Placed : cursor[x] = 1
  BY <1>1, <1>2 DEF Inv, Types, Started, OrderInv
<1>5. PhaseInv' /\ Resting' /\ SearchInv' /\ AllPlaced'
  <2>1. Acyclic'
    BY <1>1 DEF Inv, Resting, Acyclic, Ids, Requires
  <2> QED
    BY <1>1, <2>1 DEF Inv, PhaseInv, Resting, SearchInv, AllPlaced, Late
<1>6. Types'
  BY <1>1, <1>2, <1>3 DEF Inv, Types, Requires, Started
<1>7. (NotTwice(path) /\ Chain)'
  BY <1>3 DEF NotTwice, Chain
<1>8. (\A k \in 1 .. Len(path) - 1 : path[k] \notin Placed)'
  BY <1>3
<1>9. (\A x \in Ids \ Placed : x \notin ToSet(path) => cursor[x] = 1)'
  BY <1>1, <1>2, <1>4
<1>10. (\A k \in 1 .. Len(path) : path[k] \notin Placed => Looked(k, Placed))'
  <2> SUFFICES ASSUME id \notin Placed
               PROVE  \A n \in 1 .. Len(Requires(id)) : ~(n < cursor[id])
    BY <1>1, <1>2, <1>3 DEF Looked, Requires
  <2>1. Len(Requires(id)) \in Nat /\ cursor[id] = 1
    BY <1>2, <1>4, Listed DEF Inv, Types
  <2> QED
    BY <2>1
<1>11. (\A n \in 1 .. Len(cases) : n < next => cases[n] \in Placed \/ (path # <<>> /\ path[1] = cases[n]))'
  <2>1. path' # <<>>
    BY <1>3, EmptySeq
  <2>2. \A n \in 1 .. Len(cases) : n < next => cases[n] \in Placed
    BY <1>1 DEF Inv, OrderInv
  <2> QED
    BY <1>1, <1>2, <1>3, <2>1, <2>2
<1>12. OrderInv'
  BY <1>7, <1>8, <1>9, <1>10, <1>11 DEF OrderInv
<1> QED
  BY <1>1, <1>5, <1>6, <1>12, OrderStays DEF Inv

LEMMA LookedNow ==
    ASSUME UNCHANGED byId, Placed' = Placed, NEW k,
           \A n \in 1 .. Len(Requires(path'[k])) : n < cursor'[path'[k]] =>
               \/ Requires(path'[k])[n] \in Placed
               \/ k < Len(path') /\ path'[k + 1] = Requires(path'[k])[n]
    PROVE  Looked(k, Placed)'
  BY DEF Looked, Requires

\* A requirement goes on top.
LEMMA DescendKeeps ==
    ASSUME Inv, pc = "order", path # <<>>,
           NEW last \in Nat \ {0}, last = Len(path),
           NEW top \in Ids, top = path[last], top \notin Placed,
           cursor[top] <= Len(Requires(top)),
           path' = Append(path, Requires(top)[cursor[top]]),
           cursor' = [cursor EXCEPT ![top] = @ + 1],
           UNCHANGED <<pc, exit, given, cases, byId, next, order>>
    PROVE  Inv'
<1> DEFINE child == Requires(top)[cursor[top]]
<1>1. /\ path \in Seq(Ids) /\ cases \in Seq(CaseNames) /\ Requires(top) \in Seq(Ids)
      /\ cursor \in [Ids -> Nat \ {0}]
  BY DEF Inv, Types, Started
<1>2. /\ NotTwice(path) /\ Chain /\ Acyclic
      /\ \A k \in 1 .. last - 1 : path[k] \notin Placed
      /\ \A id \in Ids \ Placed : id \notin ToSet(path) => cursor[id] = 1
      /\ \A n \in 1 .. Len(cases) : n < next => cases[n] \in Placed \/ path[1] = cases[n]
  BY DEF Inv, OrderInv, Resting
<1>3. \A k \in 1 .. last : \A n \in 1 .. Len(Requires(path[k])) : n < cursor[path[k]] =>
          \/ path[k] \in Placed
          \/ Requires(path[k])[n] \in Placed
          \/ k < last /\ path[k + 1] = Requires(path[k])[n]
  BY DEF Inv, OrderInv, Looked
<1>4. Ids' = Ids /\ Placed' = Placed /\ \A x : byId'[x].requires = Requires(x)
  BY DEF Ids, Requires, Placed
<1>5. Len(Requires(top)) \in Nat /\ cursor[top] \in 1 .. Len(Requires(top))
  BY <1>1, Listed
<1>6. child \in Ids /\ child \in ToSet(Requires(top)) /\ top \in ToSet(path)
  BY <1>1, <1>5, Listed
<1>7. child \notin ToSet(path)
  BY <1>1, <1>2, <1>6, NewOnTheStack
<1>8. cursor' \in [Ids -> Nat \ {0}] /\ cursor'[top] = cursor[top] + 1
  BY <1>1
<1>9. \A n \in 1 .. Len(Requires(top)) : n < cursor'[top] => Requires(top)[n] \in Placed \/ n = cursor[top]
  <2>1. last \in 1 .. last /\ ~(last < last)
    OBVIOUS
  <2>2. \A n \in 1 .. Len(Requires(top)) : n < cursor[top] => Requires(top)[n] \in Placed
    BY <1>3, <2>1
  <2>3. \A n \in 1 .. Len(Requires(top)) : n < cursor'[top] => n < cursor[top] \/ n = cursor[top]
    BY <1>5, <1>8
  <2> QED
    BY <2>2, <2>3
<1>10. path' \in Seq(Ids)
  BY <1>1, <1>6, Pushing
<1>11. /\ Len(path') = last + 1 /\ path'[last + 1] = child
       /\ \A k \in 1 .. last : path'[k] = path[k]
       /\ ToSet(path') = ToSet(path) \cup {child}
  BY <1>1, <1>6, Pushing
<1>12. \A k \in 1 .. last - 1 : path[k] # top /\ cursor'[path[k]] = cursor[path[k]]
  <2>1. \A k \in 1 .. last - 1 : path[k] # top
    BY <1>2 DEF NotTwice
  <2>2. \A k \in 1 .. last - 1 : path[k] \in Ids
    BY <1>1, Listed
  <2> QED
    BY <1>1, <2>1, <2>2
<1> HIDE DEF child
<1>13. NotTwice(path)'
  <2>1. \A k \in 1 .. last : path[k] # child
    BY <1>1, <1>7, Listed
  <2> QED
    BY <1>2, <1>11, <2>1 DEF NotTwice
<1>14. Chain'
  <2> SUFFICES ASSUME NEW k \in 1 .. last
               PROVE  path'[k + 1] \in ToSet(Requires(path'[k]))
    BY <1>11 DEF Chain, Requires
  <2>1. CASE k = last
    BY <1>6, <1>11, <2>1
  <2>2. CASE k # last
    <3>1. k \in 1 .. last - 1 /\ k + 1 \in 1 .. last
      BY <2>2
    <3>2. path[k + 1] \in ToSet(Requires(path[k]))
      BY <1>2, <3>1 DEF Chain
    <3> QED
      BY <1>11, <3>1, <3>2
  <2> QED
    BY <2>1, <2>2
<1>15. (\A k \in 1 .. Len(path) - 1 : path[k] \notin Placed)'
  BY <1>2, <1>4, <1>11
<1>16. (\A id \in Ids \ Placed : id \notin ToSet(path) => cursor[id] = 1)'
  BY <1>1, <1>2, <1>4, <1>6, <1>11
<1>17. (\A k \in 1 .. Len(path) : path[k] \notin Placed => Looked(k, Placed))'
  <2>1. ASSUME NEW k \in 1 .. last + 1, path'[k] \notin Placed,
               NEW n \in 1 .. Len(Requires(path'[k])), n < cursor'[path'[k]]
        PROVE  \/ Requires(path'[k])[n] \in Placed
               \/ k < last + 1 /\ path'[k + 1] = Requires(path'[k])[n]
    <3>1. CASE k = last + 1
      <4>1. child \notin Placed /\ cursor'[child] = 1 /\ n < 1
        BY <2>1, <1>1, <1>2, <1>4, <1>6, <1>7, <1>11, <3>1
      <4>2. Len(Requires(child)) \in Nat /\ n \in 1 .. Len(Requires(child))
        BY <2>1, <1>6, <1>11, <3>1, Listed DEF Inv, Types
      <4> QED
        BY <4>1, <4>2
    <3>2. CASE k = last
      BY <2>1, <1>9, <1>11, <3>2 DEF child
    <3>3. CASE k \in 1 .. last - 1
      <4>1. k \in 1 .. last /\ path'[k] = path[k] /\ path'[k + 1] = path[k + 1]
        BY <1>11, <3>3
      <4>2. path[k] \notin Placed /\ n < cursor[path[k]] /\ n \in 1 .. Len(Requires(path[k]))
        BY <2>1, <1>12, <3>3, <4>1
      <4> QED
        BY <1>3, <3>3, <4>1, <4>2
    <3> QED
      BY <3>1, <3>2, <3>3
  <2>2. \A k \in 1 .. last + 1 : path'[k] \notin Placed =>
           \A n \in 1 .. Len(Requires(path'[k])) : n < cursor'[path'[k]] =>
               \/ Requires(path'[k])[n] \in Placed
               \/ k < last + 1 /\ path'[k + 1] = Requires(path'[k])[n]
    BY <2>1
  <2>3. Len(path') = last + 1 /\ Placed' = Placed /\ byId' = byId
    BY <1>4, <1>11
  <2>4. ASSUME NEW k \in 1 .. last + 1, path'[k] \notin Placed
        PROVE  Looked(k, Placed)'
    <3>1. \A n \in 1 .. Len(Requires(path'[k])) : n < cursor'[path'[k]] =>
              \/ Requires(path'[k])[n] \in Placed
              \/ k < Len(path') /\ path'[k + 1] = Requires(path'[k])[n]
      BY ONLY <2>2, <2>3, <2>4, k \in 1 .. last + 1
    <3> QED
      BY ONLY <2>3, <3>1, LookedNow
  <2> QED
    BY <2>3, <2>4
<1>18. (\A n \in 1 .. Len(cases) : n < next => cases[n] \in Placed \/ (path # <<>> /\ path[1] = cases[n]))'
  <2>1. path' # <<>> /\ path'[1] = path[1]
    BY <1>10, <1>11, EmptySeq
  <2> QED
    BY <1>2, <1>4, <2>1
<1>19. OrderInv'
  BY <1>13, <1>14, <1>15, <1>16, <1>17, <1>18 DEF OrderInv
<1>20. PhaseInv' /\ Resting' /\ SearchInv' /\ AllPlaced'
  <2>1. Acyclic'
    BY <1>2 DEF Acyclic, Ids, Requires
  <2> QED
    BY <2>1 DEF Inv, PhaseInv, Resting, SearchInv, AllPlaced, Late
<1>21. Types'
  BY <1>4, <1>8, <1>10 DEF Inv, Types, Requires, Started
<1> QED
  BY <1>19, <1>20, <1>21, OrderStays DEF Inv

\* The case on top is placed.
LEMMA LeaveKeeps ==
    ASSUME Inv, pc = "order", path # <<>>,
           NEW last \in Nat \ {0}, last = Len(path),
           NEW top \in Ids, top = path[last],
           path' = Front(path), Placed' = Placed \cup {top},
           order' \in Seq(Ids), Ordered',
           UNCHANGED <<pc, exit, given, cases, byId, next, cursor>>
    PROVE  Inv'
<1>1. /\ path \in Seq(Ids) /\ Acyclic /\ NotTwice(path) /\ Chain
      /\ cursor \in [Ids -> Nat \ {0}]
  BY DEF Inv, Types, Started, OrderInv, Resting
<1>2. /\ \A k \in 1 .. last - 1 : path[k] \notin Placed
      /\ \A id \in Ids \ Placed : id \notin ToSet(path) => cursor[id] = 1
      /\ \A n \in 1 .. Len(cases) : n < next => cases[n] \in Placed \/ path[1] = cases[n]
  BY DEF Inv, OrderInv
<1>3. \A k \in 1 .. last : \A n \in 1 .. Len(Requires(path[k])) : n < cursor[path[k]] =>
          \/ path[k] \in Placed
          \/ Requires(path[k])[n] \in Placed
          \/ k < last /\ path[k + 1] = Requires(path[k])[n]
  BY DEF Inv, OrderInv, Looked
<1>4. Ids' = Ids /\ \A x : byId'[x].requires = Requires(x)
  BY DEF Ids, Requires
<1>5. path' \in Seq(Ids) /\ NotTwice(path)' /\ Chain'
  BY <1>1, Popped
<1>6. /\ Len(path') = last - 1
      /\ \A k \in 1 .. last - 1 : path'[k] = path[k] /\ path[k] # top
      /\ ToSet(path') = ToSet(path) \ {top}
  BY <1>1, Popped
<1>7. (\A k \in 1 .. Len(path) - 1 : path[k] \notin Placed)'
  BY <1>2, <1>6
<1>8. (\A id \in Ids \ Placed : id \notin ToSet(path) => cursor[id] = 1)'
  BY <1>2, <1>4, <1>6
<1>9. (\A k \in 1 .. Len(path) : path[k] \notin Placed => Looked(k, Placed))'
  <2>1. ASSUME NEW k \in 1 .. last - 1, NEW n \in 1 .. Len(Requires(path[k])), n < cursor[path[k]]
        PROVE  \/ Requires(path[k])[n] \in Placed'
               \/ k < last - 1 /\ path'[k + 1] = Requires(path[k])[n]
    <3>1. k \in 1 .. last
      OBVIOUS
    <3>2. Requires(path[k])[n] \in Placed \/ path[k + 1] = Requires(path[k])[n]
      BY <1>2, <1>3, <2>1, <3>1
    <3>3. k = last - 1 => path[k + 1] = top
      OBVIOUS
    <3>4. k # last - 1 => k < last - 1 /\ path'[k + 1] = path[k + 1]
      BY <1>6
    <3> QED
      BY <3>2, <3>3, <3>4
  <2>2. \A k \in 1 .. last - 1 : \A n \in 1 .. Len(Requires(path[k])) : n < cursor[path[k]] =>
               \/ Requires(path[k])[n] \in Placed'
               \/ k < last - 1 /\ path'[k + 1] = Requires(path[k])[n]
    BY <2>1
  <2> QED
    BY <1>6, <2>2, SMTT(30) DEF Looked, Requires
<1>10. (\A n \in 1 .. Len(cases) : n < next => cases[n] \in Placed \/ (path # <<>> /\ path[1] = cases[n]))'
  <2>1. CASE last = 1
    BY <1>2, <2>1
  <2>2. CASE last # 1
    <3>1. path' # <<>> /\ path'[1] = path[1]
      BY <1>5, <1>6, <2>2, EmptySeq
    <3> QED
      BY <1>2, <3>1
  <2> QED
    BY <2>1, <2>2
<1>11. OrderInv'
  BY <1>5, <1>7, <1>8, <1>9, <1>10 DEF OrderInv
<1>12. PhaseInv' /\ Resting' /\ SearchInv' /\ AllPlaced'
  <2>1. Acyclic'
    BY <1>1 DEF Acyclic, Ids, Requires
  <2> QED
    BY <2>1 DEF Inv, PhaseInv, Resting, SearchInv, AllPlaced, Late
<1>13. Types'
  BY <1>4, <1>5 DEF Inv, Types, Requires, Started
<1> QED
  BY <1>11, <1>12, <1>13 DEF Inv

LEMMA PlaceKeeps ==
    ASSUME Inv, Place
    PROVE  Inv'
<1> DEFINE last == Len(path)
           top == path[last]
<1>1. UNCHANGED <<pc, exit, given, cases, byId, next>> /\ pc = "order" /\ path # <<>>
  BY DEF Place, world, caseVars
<1>2. last \in Nat \ {0} /\ top \in Ids
  BY <1>1, Listed DEF Inv, Types
<1>3. cursor[top] \in Nat /\ Requires(top) \in Seq(Ids) /\ Len(Requires(top)) \in Nat
  BY <1>1, <1>2, Listed DEF Inv, Types, Started
<1>4. CASE top \in Placed
  <2>1. path' = Front(path) /\ UNCHANGED <<cursor, order>>
    BY <1>4 DEF Place, Placed
  <2>2. order' \in Seq(Ids) /\ Ordered' /\ Placed' = Placed \cup {top}
    BY <1>1, <1>4, <2>1, OrderStays DEF Inv, Types, Placed
  <2> QED
    BY <1>1, <1>2, <2>1, <2>2, LeaveKeeps
<1>5. CASE top \notin Placed /\ cursor[top] <= Len(Requires(top))
  <2>1. /\ path' = Append(path, Requires(top)[cursor[top]])
        /\ cursor' = [cursor EXCEPT ![top] = @ + 1]
        /\ UNCHANGED order
    BY <1>5 DEF Place, Placed
  <2> QED
    BY <1>1, <1>2, <1>5, <2>1, DescendKeeps
<1>6. CASE top \notin Placed /\ cursor[top] > Len(Requires(top))
  <2>1. path' = Front(path) /\ order' = Append(order, top) /\ UNCHANGED cursor
    BY <1>3, <1>6 DEF Place, Placed
  <2> DEFINE m == Len(order)
  <2>2. order \in Seq(Ids) /\ m \in Nat /\ \A j \in 1 .. m : order[j] \in Placed
    BY Listed DEF Inv, Types, Placed
  <2>3. /\ order' \in Seq(Ids) /\ Placed' = Placed \cup {top}
        /\ Len(order') = m + 1 /\ order'[m + 1] = top
        /\ \A j \in 1 .. m : order'[j] = order[j]
    BY <1>2, <2>1, <2>2, Pushing DEF Placed
  <2>4. NotTwice(order)'
    <3>1. NotTwice(order)
      BY DEF Inv, Ordered, InOrder
    <3> QED
      BY <1>6, <2>2, <2>3, <3>1 DEF NotTwice
  <2>5. ASSUME NEW r \in ToSet(Requires(top)) PROVE \E j \in 1 .. m : order[j] = r
    <3>1. PICK n \in 1 .. Len(Requires(top)) : Requires(top)[n] = r
      BY <1>3, Listed
    <3>2. Looked(last, Placed)
      BY <1>1, <1>2, <1>6 DEF Inv, OrderInv
    <3>3. n < cursor[top]
      BY <1>3, <1>6
    <3>4. r \in Placed
      BY <1>2, <3>1, <3>2, <3>3 DEF Looked
    <3> QED
      BY <2>2, <3>4, Listed DEF Placed
  <2>6. ASSUME NEW k \in 1 .. Len(order'), NEW r \in ToSet(Requires(order'[k]))
        PROVE  \E j \in 1 .. k - 1 : order'[j] = r
    <3>1. CASE k = m + 1
      <4>1. PICK j \in 1 .. m : order[j] = r
        BY <2>3, <2>5, <2>6, <3>1
      <4> QED
        BY <2>2, <2>3, <3>1, <4>1
    <3>2. CASE k # m + 1
      <4>1. k \in 1 .. m /\ order'[k] = order[k]
        BY <2>2, <2>3, <3>2
      <4>2. PICK j \in 1 .. k - 1 : order[j] = r
        BY <2>6, <4>1 DEF Inv, Ordered, InOrder, Requires
      <4> QED
        BY <2>2, <2>3, <4>1, <4>2
    <3> QED
      BY <3>1, <3>2
  <2>7. Ordered'
    <3>1. \A k \in 1 .. Len(order') : \A r \in ToSet(Requires(order'[k])) : \E j \in 1 .. k - 1 : order'[j] = r
      BY <2>6
    <3> QED
      BY ONLY <1>1, <2>4, <3>1 DEF Ordered, InOrder, Requires
  <2> QED
    BY <1>1, <1>2, <2>1, <2>3, <2>7, LeaveKeeps
<1> QED
  BY <1>3, <1>4, <1>5, <1>6

LEMMA EndPlacingKeeps ==
    ASSUME Inv, EndPlacing
    PROVE  Inv'
<1>1. /\ pc = "order" /\ path = <<>> /\ next > Len(cases) /\ pc' = "propagate" /\ exit' = exit
      /\ next' = 1 /\ UNCHANGED <<given, cases, byId, path, cursor, order>>
  BY DEF EndPlacing, GoTo, world, caseVars
<1>2. Ids' = Ids /\ Placed' = Placed /\ \A x : byId'[x].requires = Requires(x)
  BY <1>1 DEF Ids, Placed, Requires
<1>3. Placed = Ids
  <2>1. Placed \subseteq Ids
    BY Listed DEF Inv, Types, Placed
  <2>2. \A n \in 1 .. Len(cases) : cases[n] \in Placed
    BY <1>1, Listed DEF Inv, OrderInv, Types
  <2>3. \A id \in Ids : \E n \in 1 .. Len(cases) : cases[n] = id
    BY Listed DEF Inv, Types, Ids
  <2> QED
    BY <2>1, <2>2, <2>3
<1>4. Acyclic'
  BY <1>1 DEF Inv, Resting, Acyclic, Ids, Requires
<1>5. PhaseInv' /\ Types'
  BY <1>1, <1>2 DEF Inv, PhaseInv, Types, Requires, Started
<1>6. Resting' /\ SearchInv' /\ OrderInv' /\ AllPlaced'
  BY <1>1, <1>2, <1>3, <1>4 DEF Resting, SearchInv, OrderInv, AllPlaced, Late
<1> QED
  BY <1>1, <1>5, <1>6, OrderStays DEF Inv

LEMMA PropagateKeeps ==
    ASSUME Inv, Propagate \/ EndPropagating
    PROVE  Inv'
<1>1. /\ pc = "propagate" /\ UNCHANGED <<given, cases, byId, path, cursor, order>>
      /\ next' \in {1, next + 1}
      /\ \/ pc' = "propagate" /\ exit' = exit
         \/ pc' = "reseed" /\ exit' = exit
         \/ pc' = "over" /\ exit' \in {"ok", "gate_failed"}
  BY DEF Propagate, EndPropagating, Exit, GoTo, GateExitCode, world, caseVars, searchVars
<1>2. Ids' = Ids /\ Placed' = Placed /\ \A x : byId'[x].requires = Requires(x)
  BY <1>1 DEF Ids, Placed, Requires
<1>3. Acyclic'
  BY <1>1 DEF Inv, Resting, Acyclic, Ids, Requires
<1>4. PhaseInv' /\ Types'
  BY <1>1, <1>2 DEF Inv, PhaseInv, Types, Requires, Started, Late
<1>5. Resting' /\ SearchInv' /\ OrderInv' /\ AllPlaced'
  BY <1>1, <1>2, <1>3 DEF Inv, Resting, SearchInv, OrderInv, AllPlaced, Late
<1> QED
  BY <1>1, <1>4, <1>5, OrderStays DEF Inv

LEMMA StepKeeps ==
    ASSUME Inv, [Next]_vars
    PROVE  Inv'
<1>1. Aside \/ InTheSearches
  BY Elsewhere DEF Inv
<1> QED
  BY <1>1, AsideKeeps, LoadKeeps, StartSearchKeeps, SearchKeeps, EndSearchKeeps,
     StartPlacingKeeps, PlaceKeeps, EndPlacingKeeps, PropagateKeeps DEF InTheSearches

(* The searches: what is on the stack is a chain of requirements without a *)
(* repetition, what is done has only done requirements and no cycle, and   *)
(* what is placed comes after what it requires.                            *)
THEOREM SearchesHold == Spec => []Inv
<1>1. Init => Inv
  BY Starts
<1>2. Inv /\ [Next]_vars => Inv'
  BY StepKeeps
<1> QED
  BY <1>1, <1>2, PTL DEF Spec

(* The search for cycles accepts exactly the datasets without one, for     *)
(* every graph of requirements between any number of cases                 *)
(* (_validate_requires).                                                   *)
THEOREM CyclesAreFound == Spec => []OnlyOrdersAreAccepted
<1>1. Inv => OnlyOrdersAreAccepted
  BY DEF Inv, OnlyOrdersAreAccepted, Resting, PhaseInv, Late
<1> QED
  BY <1>1, SearchesHold, PTL

-----------------------------------------------------------------------------
(* The verdicts.                                                           *)

\* A case passes if it did so itself and all that it requires pass.
Fixed(id) ==
    /\ results[id] = "FAIL" <=> own[id] = "FAIL"
    /\ results[id] = "PASS" <=> own[id] = "PASS" /\ \A r \in ToSet(Requires(id)) : results[r] = "PASS"

Gated == exit \in {"ok", "gate_failed"} /\ ~args.calibrate

VerdictInv ==
    /\ pc \in {"order", "propagate"} \cup Late \/ Gated => own \in [Ids -> {"PASS", "FAIL"}]
    /\ pc \in {"propagate"} \cup Late => results \in [Ids -> {"PASS", "FAIL", "INCONCLUSIVE"}]
    /\ pc = "propagate" =>
           /\ \A n \in 1 .. Len(order) : n < next => Fixed(order[n])
           /\ \A n \in 1 .. Len(order) : n >= next => results[order[n]] = own[order[n]]
    /\ Propagated => \A id \in Ids : Fixed(id)
    /\ Gated => exit = GateExitCode

\* What is passed on was decided from the flags.
ChoiceInv ==
    /\ pc \notin {"screen", "over"} => ~Refused
    /\ pc = "calibrate" => args.calibrate

LEMMA ChoiceKeeps ==
    ASSUME Inv, ChoiceInv, [Next]_vars
    PROVE  ChoiceInv' /\ given' = given
<1>1. given' = given /\ Refused' = Refused /\ args' = args
  <2>1. given' = given
    BY Elsewhere DEF Inv, Aside, InTheSearches, LoadCases, StartSearch, Search, EndSearch,
       StartPlacing, Place, EndPlacing, Propagate, EndPropagating, world
  <2> QED
    BY <2>1 DEF Refused, args, settings
<1>2. CASE Aside
  BY <1>1, <1>2 DEF Aside, ChoiceInv, Late, Inv, PhaseInv
<1>3. CASE InTheSearches
  BY <1>1, <1>3 DEF InTheSearches, LoadCases, StartSearch, Search, Searching, EndSearch, StartPlacing,
     Place, EndPlacing, Propagate, EndPropagating, ChoiceInv, Exit, GoTo
<1> QED
  BY <1>1, <1>2, <1>3, Elsewhere DEF Inv

\* One case is propagated to: its requirements are settled, and what was
\* settled before does not require it.
LEMMA PropagateSettles ==
    ASSUME Inv, VerdictInv, Propagate
    PROVE  VerdictInv'
<1> DEFINE id == order[next]
           blocked == \E r \in ToSet(Requires(id)) : results[r] # "PASS"
<1>1. /\ pc = "propagate" /\ exit = "running" /\ pc' = pc /\ exit' = exit
      /\ next' = next + 1 /\ next \in 1 .. Len(order)
      /\ UNCHANGED <<given, cases, byId, order, own>>
  BY Listed DEF Propagate, PropagationOrder, world, caseVars, Inv, PhaseInv, Types
<1>2. results' = IF results[id] # "FAIL" /\ blocked
                 THEN [results EXCEPT ![id] = "INCONCLUSIVE"] ELSE results
  BY DEF Propagate, PropagationOrder
<1>3. /\ Ids' = Ids /\ \A x : byId'[x].requires = Requires(x)
      /\ own \in [Ids -> {"PASS", "FAIL"}]
      /\ results \in [Ids -> {"PASS", "FAIL", "INCONCLUSIVE"}]
      /\ \A n \in 1 .. Len(order) : order[n] \in Ids
      /\ Len(order) \in Nat /\ next \in Nat \ {0}
  BY <1>1, Listed DEF VerdictInv, Ids, Requires, Inv, Types
<1>4. /\ NotTwice(order)
      /\ \A n \in 1 .. Len(order) : \A r \in ToSet(Requires(order[n])) : \E j \in 1 .. n - 1 : order[j] = r
      /\ \A n \in 1 .. Len(order) : n < next => Fixed(order[n])
      /\ \A n \in 1 .. Len(order) : n >= next => results[order[n]] = own[order[n]]
  BY <1>1 DEF Inv, Ordered, InOrder, Requires, VerdictInv
<1>5. /\ results' \in [Ids -> {"PASS", "FAIL", "INCONCLUSIVE"}]
      /\ \A x \in Ids : x # id => results'[x] = results[x]
      /\ results[id] = own[id] /\ id \in Ids
  BY <1>1, <1>2, <1>3, <1>4
<1>6. \A n \in 1 .. Len(order) : n # next => order[n] # id
  BY <1>1, <1>4 DEF NotTwice
<1>7. \A n \in 1 .. Len(order) : n <= next => \A r \in ToSet(Requires(order[n])) : results'[r] = results[r]
  <2> SUFFICES ASSUME NEW n \in 1 .. Len(order), n <= next, NEW r \in ToSet(Requires(order[n]))
               PROVE  results'[r] = results[r]
    OBVIOUS
  <2>1. PICK j \in 1 .. n - 1 : order[j] = r
    BY <1>4
  <2>2. j \in 1 .. Len(order) /\ j # next
    BY <1>1, <1>3
  <2> QED
    BY <1>3, <1>5, <1>6, <2>1, <2>2
<1>8. results'[id] = IF own[id] = "PASS" /\ blocked THEN "INCONCLUSIVE" ELSE own[id]
  BY <1>2, <1>3, <1>5
<1>9. \A n \in 1 .. Len(order) : n < next + 1 => Fixed(order[n])'
  <2> SUFFICES ASSUME NEW n \in 1 .. Len(order), n < next + 1
               PROVE  /\ results'[order[n]] = "FAIL" <=> own[order[n]] = "FAIL"
                      /\ results'[order[n]] = "PASS" <=>
                            /\ own[order[n]] = "PASS"
                            /\ \A r \in ToSet(Requires(order[n])) : results[r] = "PASS"
    BY <1>1, <1>3, <1>7 DEF Fixed, Requires
  <2>1. CASE n = next
    BY <1>3, <1>5, <1>8, <2>1
  <2>2. CASE n # next
    <3>1. n < next /\ results'[order[n]] = results[order[n]]
      BY <1>3, <1>5, <1>6, <2>2
    <3> QED
      BY <1>4, <3>1 DEF Fixed
  <2> QED
    BY <2>1, <2>2
<1>10. \A n \in 1 .. Len(order) : n >= next + 1 => results'[order[n]] = own[order[n]]
  BY <1>1, <1>3, <1>4, <1>5, <1>6
<1> QED
  BY <1>1, <1>3, <1>5, <1>9, <1>10 DEF VerdictInv, Propagated, Late, Gated

LEMMA VerdictKeeps ==
    ASSUME Inv, ChoiceInv, VerdictInv, [Next]_vars
    PROVE  VerdictInv'
<1>1. given' = given /\ args' = args
  BY ChoiceKeeps DEF args
<1>2. CASE Aside
  <2>1. /\ Ids' = Ids /\ results' = results
        /\ own' = own \/ (pc = "score" /\ own' \in [Ids -> {"PASS", "FAIL"}])
        /\ UNCHANGED <<cases, byId, order>>
    BY <1>2 DEF Aside, Ids
  <2>2. GateExitCode' = GateExitCode
    BY <2>1 DEF GateExitCode
  <2>3. Gated' => pc # "score" /\ exit' = GateExitCode /\ (Gated \/ pc = "report")
    BY <1>1, <1>2 DEF Aside, Gated, VerdictInv, ChoiceInv, Inv, PhaseInv, Late
  <2>4. Propagated' => Propagated
    BY <1>1, <1>2 DEF Aside, Propagated, ChoiceInv, Inv, PhaseInv, Late
  <2>5. Propagated => pc # "score"
    BY DEF Propagated, Inv, PhaseInv
  <2>6. (pc \in {"order", "propagate"} \cup Late \/ Gated => own \in [Ids -> {"PASS", "FAIL"}])'
    BY <1>2, <2>1, <2>3 DEF Aside, VerdictInv, Late, Inv, PhaseInv
  <2>7. (pc \in {"propagate"} \cup Late => results \in [Ids -> {"PASS", "FAIL", "INCONCLUSIVE"}])'
    BY <1>2, <2>1 DEF Aside, VerdictInv, Late, Inv, PhaseInv
  <2>8. (pc = "propagate" =>
           /\ \A n \in 1 .. Len(order) : n < next => Fixed(order[n])
           /\ \A n \in 1 .. Len(order) : n >= next => results[order[n]] = own[order[n]])'
    <3> SUFFICES ASSUME pc' = "propagate"
                 PROVE  (/\ \A n \in 1 .. Len(order) : n < next => Fixed(order[n])
                         /\ \A n \in 1 .. Len(order) : n >= next => results[order[n]] = own[order[n]])'
      OBVIOUS
    <3>1. pc = "propagate" /\ next' = next /\ own' = own
      BY <1>2, <2>1 DEF Aside, Late, Inv, PhaseInv
    <3> QED
      BY <2>1, <3>1 DEF VerdictInv, Fixed, Requires
  <2>9. (Propagated => \A id \in Ids : Fixed(id))'
    BY <2>1, <2>4, <2>5 DEF VerdictInv, Fixed, Requires
  <2> QED
    BY <2>2, <2>3, <2>6, <2>7, <2>8, <2>9 DEF VerdictInv
<1>3. CASE LoadCases \/ StartSearch \/ Search \/ EndSearch
  <2>1. /\ pc' \in {"search", "seed", "over"}
        /\ exit' \notin {"ok", "gate_failed"}
    BY <1>3 DEF LoadCases, StartSearch, Search, Searching, EndSearch, Exit, GoTo, Inv, PhaseInv
  <2> QED
    BY <2>1 DEF VerdictInv, Propagated, Gated, Late
<1>4. CASE StartPlacing \/ Place
  <2>1. pc' = "order" /\ pc = "order" /\ exit' = "running" /\ own' = own /\ cases' = cases
    BY <1>4 DEF StartPlacing, Place, Inv, PhaseInv, verdictVars, caseVars
  <2> QED
    BY <2>1 DEF VerdictInv, Propagated, Gated, Late, Ids
<1>5. CASE EndPlacing
  <2>1. /\ pc = "order" /\ pc' = "propagate" /\ exit' = "running" /\ next' = 1
        /\ own' = own /\ results' = own /\ cases' = cases /\ order' = order
    BY <1>5 DEF EndPlacing, GoTo, Inv, PhaseInv, caseVars
  <2>2. own \in [Ids -> {"PASS", "FAIL"}] /\ Ids' = Ids /\ Len(order) \in Nat
    BY <2>1, Listed DEF VerdictInv, Ids, Inv, Types
  <2>3. results' \in [Ids -> {"PASS", "FAIL", "INCONCLUSIVE"}]
    BY <2>1, <2>2
  <2>4. ~Propagated' /\ ~Gated'
    BY <2>1 DEF Propagated, Gated
  <2> QED
    BY <2>1, <2>2, <2>3, <2>4 DEF VerdictInv, Late
<1>6. CASE EndPropagating
  <2>1. /\ pc = "propagate" /\ next > Len(order) /\ UNCHANGED <<cases, byId, own, results, order>>
        /\ \/ pc' = "reseed" /\ exit' = exit
           \/ pc' = "over" /\ exit' = GateExitCode
    BY <1>6 DEF EndPropagating, PropagationOrder, Exit, GoTo, caseVars, verdictVars
  <2>2. /\ own \in [Ids -> {"PASS", "FAIL"}] /\ results \in [Ids -> {"PASS", "FAIL", "INCONCLUSIVE"}]
        /\ Ids' = Ids /\ GateExitCode' = GateExitCode
    BY <2>1 DEF VerdictInv, Ids, GateExitCode
  <2>3. ASSUME NEW id \in Ids PROVE Fixed(id)
    <3>1. id \in ToSet(order)
      BY <2>1 DEF Inv, AllPlaced, Placed
    <3>2. PICK n \in 1 .. Len(order) : order[n] = id
      BY <3>1, Listed DEF Inv, Types
    <3>3. n < next
      BY <2>1, Listed DEF Inv, Types
    <3> QED
      BY <2>1, <3>2, <3>3 DEF VerdictInv
  <2>4. (\A id \in Ids : Fixed(id))'
    BY <2>1, <2>2, <2>3 DEF Fixed, Requires
  <2>5. exit = "running"
    BY <2>1 DEF Inv, PhaseInv
  <2> QED
    BY <2>1, <2>2, <2>4, <2>5 DEF VerdictInv, Late, Gated
<1> QED
  BY <1>2, <1>3, <1>4, <1>5, <1>6, PropagateSettles, Elsewhere DEF InTheSearches, Inv

\* If every case passes by itself, every case passes.
LEMMA AllPass ==
    ASSUME Acyclic, \A id \in Ids : Requires(id) \in Seq(Ids) /\ Fixed(id) /\ own[id] = "PASS"
    PROVE  \A id \in Ids : results[id] = "PASS"
<1> DEFINE S == {id \in Ids : results[id] # "PASS"}
<1> SUFFICES ASSUME S # {} PROVE FALSE
  OBVIOUS
<1>1. PICK id \in S : ToSet(Requires(id)) \cap S = {}
  BY DEF Acyclic
<1>2. \A r \in ToSet(Requires(id)) : results[r] = "PASS"
  <2>1. \A r \in ToSet(Requires(id)) : r \in Ids
    BY Listed
  <2> QED
    BY <1>1, <2>1
<1> QED
  BY <1>1, <1>2 DEF Fixed

-----------------------------------------------------------------------------
(* The artifacts.                                                          *)

\* It was not asked for, or was written, or could not be.
Settled(artifact) == writeFailed \/ Destination(artifact) = Null \/ artifact \in OfThisRun

FilesInv ==
    /\ pc \in {"evidence", "report"} => Settled("answers")
    /\ pc = "report" => Settled("evidence")
    /\ Gated => \A artifact \in {"answers", "evidence"} :
                    Destination(artifact) # Null => artifact \in OfThisRun

\* The temporary file is there only while the artifacts are made, and is of
\* this run.
TempInv ==
    /\ pc \notin {"answers", "evidence", "over"} => temp = Null
    /\ pc \in {"answers", "evidence"} /\ temp # Null =>
           "content" \in DOMAIN temp /\ temp.content.run = "this"

LEMMA TempKeeps ==
    ASSUME TempInv, [Next]_vars
    PROVE  TempInv'
<1> USE DEF TempInv
<1>1. CASE temp' = temp /\ (pc' \in {pc, "over"} \/ pc \notin {"answers", "evidence", "over"})
  BY <1>1
<1>2. CASE Screen \/ LoadCases \/ StartSearch \/ Search \/ EndSearch \/ Seed \/ Calibrate \/ RunPassA
  BY <1>1, <1>2 DEF Screen, LoadCases, StartSearch, Search, EndSearch, Seed, Calibrate, RunPassA, fileVars
<1>3. CASE StartPlacing \/ Place \/ EndPlacing \/ Propagate \/ EndPropagating \/ Reseed
  BY <1>1, <1>3 DEF StartPlacing, Place, EndPlacing, Propagate, EndPropagating, Reseed, fileVars
<1>4. ASSUME NEW result, Record(result), pc \in {"generate", "repeat"} PROVE TempInv'
  BY <1>1, <1>4 DEF Record, fileVars
<1>5. CASE Skip \/ NoAnswer \/ GenerationFails \/ EndJudging \/ JudgedLayerFails
  BY <1>1, <1>4, <1>5 DEF Skip, NoAnswer, GenerationFails, Answerable, Generating, EndJudging,
     JudgedLayerFails, fileVars
<1>6. CASE Generate
  <2>1. pc = "generate"
    BY <1>6 DEF Generate, Answerable, Generating
  <2>2. CASE HitsA # HitsB
    BY <1>4, <1>6, <2>1, <2>2 DEF Generate
  <2>3. CASE HitsA = HitsB
    BY <1>1, <1>6, <2>1, <2>3 DEF Generate, fileVars
  <2> QED
    BY <2>2, <2>3
<1>7. CASE JudgeRepeat
  <2>1. pc = "repeat"
    BY <1>7 DEF JudgeRepeat
  <2>2. PICK reply \in Replies :
          LET done == Append(repeats, JudgeOnce(Current, Answer, HitsB, Len(repeats) + 1, reply))
          IN \/ Record(WithProvenance(DeriveJudgedResult(Current.id, done)))
             \/ UNCHANGED <<pc, exit, fileVars>>
    BY <1>7, Zenon DEF JudgeRepeat
  <2> QED
    BY <1>1, <1>4, <2>1, <2>2 DEF fileVars
<1>8. CASE Compose
  BY <1>8 DEF Compose, GoTo, After, AnswersDocument, EvidenceDocument
<1>9. CASE WriteTemp
  <2>1. PICK written : temp' = [temp EXCEPT !.written = written]
    BY <1>9 DEF WriteTemp
  <2>2. temp # Null /\ pc' = pc /\ pc \in {"answers", "evidence"}
    BY <1>9 DEF WriteTemp, Writing
  <2>3. "content" \in DOMAIN temp' /\ temp'.content = temp.content
    BY <2>1, <2>2
  <2> QED
    BY <2>2, <2>3
<1>10. CASE Replace \/ FailToWrite
  BY <1>10 DEF Replace, FailToWrite, Settle, GoTo
<1>11. CASE Report \/ Interrupt \/ Edit \/ UNCHANGED vars
  BY <1>1, <1>11 DEF Report, Interrupt, Edit, Exit, vars, fileVars
<1> QED
  BY <1>2, <1>3, <1>5, <1>6, <1>7, <1>8, <1>9, <1>10, <1>11 DEF Next, Work

LEMMA FilesKeeps ==
    ASSUME Inv, ChoiceInv, TempInv, FilesInv, [Next]_vars
    PROVE  FilesInv'
<1>1. /\ args' = args /\ \A artifact : Destination(artifact)' = Destination(artifact)
      /\ pc = "over" <=> exit # "running"
      /\ files' = files => OfThisRun' = OfThisRun
  BY ChoiceKeeps DEF args, Destination, Inv, PhaseInv, OfThisRun
<1> USE DEF FilesInv, Settled, Gated
<1>2. CASE /\ UNCHANGED <<files, writeFailed>>
           /\ \/ UNCHANGED <<pc, exit>>
              \/ pc' \notin {"evidence", "report"} /\ exit' \notin {"ok", "gate_failed"}
  BY <1>1, <1>2
<1>3. CASE Screen \/ LoadCases \/ StartSearch \/ Search \/ EndSearch
  BY <1>1, <1>2, <1>3 DEF Screen, LoadCases, StartSearch, Search, Searching, EndSearch, Exit, GoTo, fileVars
<1>4. CASE Seed \/ RunPassA \/ StartPlacing \/ Place \/ EndPlacing \/ Propagate \/ Reseed
  BY <1>1, <1>2, <1>4 DEF Seed, RunPassA, StartPlacing, Place, EndPlacing, Propagate, Reseed, Exit, GoTo, fileVars
<1>5. CASE Calibrate
  BY <1>1, <1>5 DEF Calibrate, Exit, ChoiceInv
<1>6. CASE EndPropagating
  <2>1. CASE args.judge
    BY <1>1, <1>2, <1>6, <2>1 DEF EndPropagating, GoTo, fileVars
  <2>2. CASE ~args.judge
    <3>1. pc = "propagate" /\ pc' = "over"
      BY <1>6, <2>2 DEF EndPropagating, Exit
    <3>2. {args.evidence_out, args.answers_out} \ {Null} = {}
      BY <2>2, <3>1 DEF ChoiceInv, Refused
    <3> QED
      BY <1>1, <3>1, <3>2 DEF Destination
  <2> QED
    BY <2>1, <2>2
<1>7. ASSUME NEW result, Record(result), pc \in {"generate", "repeat"} PROVE FilesInv'
  BY <1>1, <1>2, <1>7 DEF Record, GoTo, fileVars
<1>8. CASE Skip \/ NoAnswer \/ GenerationFails
  BY <1>7, <1>8 DEF Skip, NoAnswer, GenerationFails, Answerable, Generating
<1>9. CASE Generate
  <2>1. pc = "generate"
    BY <1>9 DEF Generate, Answerable, Generating
  <2>2. CASE HitsA # HitsB
    BY <1>7, <1>9, <2>1, <2>2 DEF Generate
  <2>3. CASE HitsA = HitsB
    BY <1>1, <1>2, <1>9, <2>1, <2>3 DEF Generate, GoTo, fileVars
  <2> QED
    BY <2>2, <2>3
<1>10. CASE JudgeRepeat
  <2>1. pc = "repeat"
    BY <1>10 DEF JudgeRepeat
  <2>2. PICK reply \in Replies :
          LET done == Append(repeats, JudgeOnce(Current, Answer, HitsB, Len(repeats) + 1, reply))
          IN \/ Record(WithProvenance(DeriveJudgedResult(Current.id, done)))
             \/ UNCHANGED <<pc, exit, fileVars>>
    BY <1>10, Zenon DEF JudgeRepeat
  <2> QED
    BY <1>1, <1>2, <1>7, <2>1, <2>2 DEF fileVars
<1>11. CASE EndJudging \/ WriteTemp
  BY <1>1, <1>2, <1>11 DEF EndJudging, WriteTemp, GoTo
<1>12. CASE Compose
  BY <1>1, <1>12 DEF Compose, GoTo, After
<1>13. CASE Replace
  <2>1. OfThisRun' = OfThisRun \cup {pc}
    <3>1. temp.content.run = "this"
      BY <1>13 DEF Replace, Writing, TempInv
    <3>2. /\ DOMAIN files' = DOMAIN files \cup {pc} /\ files'[pc] = temp.content
          /\ \A artifact \in DOMAIN files \ {pc} : files'[artifact] = files[artifact]
      BY <1>13 DEF Replace
    <3> QED
      BY <3>1, <3>2 DEF OfThisRun
  <2>2. /\ pc \in {"answers", "evidence"} /\ pc' = After(pc) /\ exit' = exit /\ exit = "running"
        /\ writeFailed' = (writeFailed \/ FALSE)
    BY <1>1, <1>13 DEF Replace, Writing, Settle, GoTo
  <2> QED
    BY <1>1, <2>1, <2>2 DEF After
<1>14. CASE FailToWrite
  BY <1>1, <1>14 DEF FailToWrite, Writing, Settle, GoTo, After
<1>15. CASE Report
  BY <1>1, <1>15 DEF Report, Exit, GateExitCode, fileVars
<1>16. CASE JudgedLayerFails \/ Interrupt \/ Edit \/ UNCHANGED vars
  BY <1>1, <1>2, <1>16 DEF JudgedLayerFails, Interrupt, Edit, Exit, vars, fileVars
<1> QED
  BY <1>3, <1>4, <1>5, <1>6, <1>8, <1>9, <1>10, <1>11, <1>12, <1>13, <1>14, <1>15, <1>16 DEF Next, Work

LEMMA StepsKeep ==
    Spec => [](Inv /\ ChoiceInv /\ VerdictInv /\ TempInv /\ FilesInv)
<1>1. Init => Inv /\ ChoiceInv /\ VerdictInv /\ TempInv /\ FilesInv
  <2>1. Init => Inv
    BY Starts
  <2>2. Init => ChoiceInv /\ VerdictInv /\ TempInv /\ FilesInv
    BY DEF Init, ChoiceInv, VerdictInv, TempInv, FilesInv, Gated, Propagated, Late
  <2> QED
    BY <2>1, <2>2
<1>2. Inv /\ ChoiceInv /\ VerdictInv /\ TempInv /\ FilesInv /\ [Next]_vars
          => (Inv /\ ChoiceInv /\ VerdictInv /\ TempInv /\ FilesInv)'
  BY StepKeeps, ChoiceKeeps, VerdictKeeps, TempKeeps, FilesKeeps
<1> QED
  BY <1>1, <1>2, PTL DEF Spec

(* Exit 0 and 1, where main chooses them, are verdicts: for any dataset,   *)
(* they say whether a case failed by itself, and every artifact that was   *)
(* asked for is there and is of this run, whatever was there before        *)
(* (main, gate_exit_code, propagate_requires).                             *)
THEOREM GateIsTruthful == Spec => []GateTellsTheTruth
<1>1. Inv /\ ChoiceInv /\ VerdictInv /\ FilesInv => GateTellsTheTruth
  <2> SUFFICES ASSUME Inv, VerdictInv, FilesInv, exit \in {"ok", "gate_failed"}, ~args.calibrate
               PROVE  /\ exit = "ok" <=> \A id \in Ids : own[id] = "PASS"
                      /\ \A artifact \in {"answers", "evidence"} :
                             Destination(artifact) # Null => artifact \in OfThisRun
    BY DEF GateTellsTheTruth
  <2>1. exit = "ok" <=> \A id \in Ids : results[id] = "PASS"
    BY DEF VerdictInv, Gated, GateExitCode
  <2>2. \A id \in Ids : Fixed(id) /\ Requires(id) \in Seq(Ids)
    BY DEF VerdictInv, Propagated, Inv, Types
  <2>3. (\A id \in Ids : results[id] = "PASS") <=> (\A id \in Ids : own[id] = "PASS")
    <3>1. ASSUME \A id \in Ids : own[id] = "PASS" PROVE \A id \in Ids : results[id] = "PASS"
      BY <2>2, <3>1, AllPass DEF Inv, Resting
    <3>2. ASSUME \A id \in Ids : results[id] = "PASS" PROVE \A id \in Ids : own[id] = "PASS"
      BY <2>2, <3>2 DEF Fixed
    <3> QED
      BY <3>1, <3>2
  <2>4. \A artifact \in {"answers", "evidence"} : Destination(artifact) # Null => artifact \in OfThisRun
    BY DEF FilesInv, Gated
  <2> QED
    BY <2>1, <2>3, <2>4
<1> QED
  BY <1>1, StepsKeep, PTL

-----------------------------------------------------------------------------
(* The judge.                                                              *)

\* What a repeat's outcome says of the response it was derived from.
EarnedRepeat(repeat, asked) ==
    LET raw == repeat.raw_response
    IN /\ repeat.outcome = "pass" => ToSet(asked.expected_facts) = raw.covered
       /\ repeat.outcome = "fail" => \/ ~(ToSet(asked.expected_facts) \subseteq raw.covered)
                                     \/ raw.violated \cap ToSet(asked.forbidden_facts) # {}
                                     \/ raw.unsupported # {}

(* No response that is accepted gets round a fact: one that passes covers  *)
(* each expected fact and no other, one that fails has a reason            *)
(* (parse_judge_response, derive_judge_verdict).                           *)
THEOREM JudgedByTheFacts ==
    ASSUME NEW entry, NEW answer, NEW hits, NEW attempt, NEW reply \in Replies
    PROVE  EarnedRepeat(JudgeOnce(entry, answer, hits, attempt, reply), entry.judged)
<1> DEFINE repeat == JudgeOnce(entry, answer, hits, attempt, reply)
           raw == reply.raw
<1>1. repeat.raw_response = raw
  BY DEF JudgeOnce
<1>2. reply.kind \in {"message", "filtered", "upstream"}
  BY RepliesAssumption
<1>3. repeat.outcome = CASE reply.kind = "filtered" -> "ERROR(filtered)"
                         [] reply.kind = "upstream" -> "ERROR(upstream)"
                         [] reply.kind = "message" -> IF Parses(raw, entry.judged)
                                                      THEN JudgeVerdict(raw) ELSE "ERROR(parse)"
  BY DEF JudgeOnce
<1>4. repeat.outcome \in {"pass", "fail"} =>
          Parses(raw, entry.judged) /\ repeat.outcome = JudgeVerdict(raw)
  <2>1. CASE reply.kind = "message"
    BY <1>3, <2>1 DEF JudgeVerdict
  <2>2. CASE reply.kind = "filtered"
    BY <1>3, <2>2
  <2>3. CASE reply.kind = "upstream"
    BY <1>3, <2>3
  <2> QED
    BY <1>2, <2>1, <2>2, <2>3
<1> HIDE DEF repeat, raw
<1>5. repeat.outcome = "pass" => ToSet(entry.judged.expected_facts) = raw.covered
  BY <1>4 DEF Parses, JudgeVerdict
<1>6. repeat.outcome = "fail" =>
          \/ ~(ToSet(entry.judged.expected_facts) \subseteq raw.covered)
          \/ raw.violated \cap ToSet(entry.judged.forbidden_facts) # {}
          \/ raw.unsupported # {}
  BY <1>4 DEF Parses, JudgeVerdict
<1> QED
  BY <1>1, <1>5, <1>6 DEF EarnedRepeat, repeat

LEMMA Growing ==
    ASSUME NEW s, s \in Seq(ToSet(s)), NEW e
    PROVE  /\ Append(s, e) \in Seq(ToSet(Append(s, e)))
           /\ ToSet(Append(s, e)) = ToSet(s) \cup {e}
<1> DEFINE S == ToSet(s) \cup {e}
<1>1. s \in Seq(S)
  BY SeqMonotonic
<1> QED
  BY <1>1, Pushing, OfItsOwn

JudgedInv ==
    /\ judged \in Seq(ToSet(judged)) /\ repeats \in Seq(ToSet(repeats))
    /\ pc \notin Late \cup {"over"} => judged = <<>>
    /\ pc \notin {"repeat", "over"} => repeats = <<>>
    /\ pc = "repeat" => next \in 1 .. Len(cases)
    /\ pc = "repeat" => \A r \in ToSet(repeats) : EarnedRepeat(r, Current.judged)
    /\ \A result \in ToSet(judged) : Earned(result)

\* A result is recorded for the case at hand.
LEMMA RecordKeeps ==
    ASSUME Inv, JudgedInv, pc \in {"generate", "repeat"}, NEW result, Record(result), Earned(result)
    PROVE  JudgedInv'
<1>1. /\ judged' = Append(judged, result) /\ repeats' = <<>> /\ pc' = "generate" /\ byId' = byId
  BY DEF Record, GoTo, caseVars
<1>2. /\ judged' \in Seq(ToSet(judged')) /\ ToSet(judged') = ToSet(judged) \cup {result}
  BY <1>1, Growing DEF JudgedInv
<1>3. /\ <<>> \in Seq(ToSet(<<>>))
  BY EmptySeq
<1>4. (\A x \in ToSet(judged) : Earned(x))'
  BY <1>1, <1>2 DEF JudgedInv, Earned
<1> QED
  BY <1>1, <1>2, <1>3, <1>4 DEF JudgedInv, Late

LEMMA JudgedKeeps ==
    ASSUME Inv, JudgedInv, [Next]_vars
    PROVE  JudgedInv'
<1>1. CASE UNCHANGED <<judged, repeats, byId>> /\ pc \notin {"repeat", "over"} /\ pc' # "repeat"
           /\ (pc' \notin Late \cup {"over"} => pc \notin Late)
  BY <1>1 DEF JudgedInv, Earned
<1>2. CASE UNCHANGED <<judged, repeats, byId, cases, next>> /\ (pc' = pc \/ pc' = "over")
  BY <1>2 DEF JudgedInv, Earned, Current, Late, EarnedRepeat
<1>3. CASE LoadCases
  <2>1. pc = "load" /\ UNCHANGED <<judged, repeats>> /\ pc' \in {"search", "over"}
    BY <1>3 DEF LoadCases, GoTo, Exit, judgeVars
  <2>2. judged = <<>> /\ repeats = <<>> /\ ToSet(<<>>) = {}
    BY <2>1 DEF JudgedInv, Late, ToSet
  <2> QED
    BY <2>1, <2>2 DEF JudgedInv, Late
<1>4. CASE Screen \/ StartSearch \/ Search \/ EndSearch \/ Seed \/ Calibrate \/ RunPassA
  BY <1>1, <1>4 DEF Screen, StartSearch, Search, Searching, EndSearch, Seed, Calibrate, RunPassA,
     Exit, GoTo, judgeVars, caseVars, Late
<1>5. CASE StartPlacing \/ Place \/ EndPlacing \/ Propagate \/ EndPropagating \/ Reseed \/ EndJudging
  BY <1>1, <1>5 DEF StartPlacing, Place, EndPlacing, Propagate, EndPropagating, Reseed, EndJudging,
     Exit, GoTo, judgeVars, caseVars, Late
<1>6. CASE Compose \/ WriteTemp \/ Replace \/ FailToWrite \/ Report
  BY <1>1, <1>6 DEF Compose, WriteTemp, Replace, FailToWrite, Report, Writing, Settle, After,
     Exit, GoTo, judgeVars, caseVars, Late
<1>7. CASE JudgedLayerFails \/ Interrupt \/ Edit \/ UNCHANGED vars
  BY <1>2, <1>7 DEF JudgedLayerFails, Interrupt, Edit, vars, Exit, judgeVars, caseVars, searchVars
<1>8. ASSUME NEW id, NEW state, NEW judgement, NEW reason
      PROVE  Earned(JudgedResult(id, state, judgement, reason))
  BY DEF Earned, JudgedResult, ToSet
<1>9. CASE Skip \/ NoAnswer \/ GenerationFails
  BY <1>8, <1>9, RecordKeeps DEF Skip, NoAnswer, GenerationFails, Answerable, Generating
<1>10. CASE Generate
  <2>1. pc = "generate" /\ next <= Len(cases)
    BY <1>10 DEF Generate, Answerable, Generating
  <2>2. CASE HitsA # HitsB
    <3>1. Earned(WithProvenance(JudgedResult(Current.id, "INCONCLUSIVE", Null, "sources_sha256 mismatch")))
      BY DEF Earned, WithProvenance, JudgedResult, ToSet
    <3> QED
      BY <1>10, <2>1, <2>2, <3>1, RecordKeeps DEF Generate
  <2>3. CASE HitsA = HitsB
    <3>1. pc' = "repeat" /\ UNCHANGED <<judged, repeats, byId, cases, next>>
      BY <1>10, <2>3 DEF Generate, GoTo, caseVars, searchVars
    <3>2. repeats = <<>> /\ ToSet(<<>>) = {} /\ next \in 1 .. Len(cases)
      BY <2>1, Listed DEF JudgedInv, ToSet, Inv, Types
    <3> QED
      BY <2>1, <3>1, <3>2 DEF JudgedInv, Late, Earned
  <2> QED
    BY <2>2, <2>3
<1>11. CASE JudgeRepeat
  <2>1. pc = "repeat"
    BY <1>11 DEF JudgeRepeat
  <2>2. PICK reply \in Replies :
          LET done == Append(repeats, JudgeOnce(Current, Answer, HitsB, Len(repeats) + 1, reply))
          IN \/ Record(WithProvenance(DeriveJudgedResult(Current.id, done)))
             \/ repeats' = done /\ UNCHANGED <<pc, exit, world, caseVars, searchVars, judged>>
    BY <1>11, Zenon DEF JudgeRepeat
  <2> DEFINE repeat == JudgeOnce(Current, Answer, HitsB, Len(repeats) + 1, reply)
             done == Append(repeats, repeat)
  <2>3. done \in Seq(ToSet(done)) /\ ToSet(done) = ToSet(repeats) \cup {repeat}
    BY Growing DEF JudgedInv
  <2>4. \A r \in ToSet(done) : EarnedRepeat(r, Current.judged)
    <3>1. EarnedRepeat(repeat, Current.judged)
      BY JudgedByTheFacts
    <3> QED
      BY <2>1, <2>3, <3>1 DEF JudgedInv
  <2> HIDE DEF repeat, done
  <2>5. CASE Record(WithProvenance(DeriveJudgedResult(Current.id, done)))
    <3> DEFINE result == WithProvenance(DeriveJudgedResult(Current.id, done))
    <3>1. result.case_id = Current.id /\ result.repeats = done
      BY DEF WithProvenance, DeriveJudgedResult, JudgedResult
    <3>2. byId[Current.id] = Current
      BY <2>1, Listed DEF JudgedInv, Inv, Types, Current, Ids
    <3>3. Earned(result)
      <4> HIDE DEF result
      <4> QED
        BY <2>4, <3>1, <3>2 DEF Earned, EarnedRepeat
    <3> QED
      BY <2>1, <2>5, <3>3, RecordKeeps
  <2>6. CASE repeats' = done /\ UNCHANGED <<pc, exit, world, caseVars, searchVars, judged>>
    <3>1. UNCHANGED <<pc, cases, byId, next, judged>> /\ repeats' = done
      BY <2>6 DEF caseVars, searchVars
    <3> QED
      BY <2>1, <2>3, <2>4, <3>1 DEF JudgedInv, Late, Current, Earned
  <2> QED
    BY <2>2, <2>5, <2>6 DEF repeat, done
<1> QED
  BY <1>3, <1>4, <1>5, <1>6, <1>7, <1>9, <1>10, <1>11 DEF Next, Work

LEMMA JudgedHolds == Spec => []JudgedInv
<1>1. Init => JudgedInv
  BY EmptySeq DEF Init, JudgedInv, Late, ToSet
<1>2. Inv /\ JudgedInv /\ [Next]_vars => JudgedInv'
  BY JudgedKeeps
<1> QED
  BY <1>1, <1>2, SearchesHold, PTL DEF Spec

(* Verdicts are earned, for any dataset and any replies of a judge: one    *)
(* pass in the order of placing reaches the fixed point, and each judged   *)
(* outcome follows from the response kept beside it.                       *)
THEOREM VerdictsHold == Spec => []VerdictsAreEarned
<1>1. Inv /\ VerdictInv /\ JudgedInv => VerdictsAreEarned
  <2>1. VerdictInv => (Propagated => \A id \in Ids : Fixed(id))
    BY DEF VerdictInv
  <2>2. JudgedInv => \A i \in DOMAIN judged : Earned(judged[i])
    BY DEF JudgedInv, ToSet
  <2> QED
    BY <2>1, <2>2 DEF VerdictsAreEarned, Fixed
<1> QED
  BY <1>1, StepsKeep, JudgedHolds, PTL

-----------------------------------------------------------------------------
(* The answers that were paid for.                                         *)

\* The companion's entry is of this answer, and carries its hashes.
IsOf(transcript, answer) ==
    /\ answer = [case_id |-> transcript.case_id, answer |-> transcript.answer,
                 sources |-> transcript.sources]
    /\ transcript.answer_sha256 = transcript.answer /\ transcript.sources_sha256 = transcript.sources

SameHashes(repeat, transcript) ==
    /\ repeat.answer_sha256 = transcript.answer_sha256
    /\ repeat.sources_sha256 = transcript.sources_sha256

\* The answer that a result was given for is in the companion.
Backed(result, kept) ==
    result.generation_usage # Null =>
        \E t \in ToSet(kept) :
            /\ t.case_id = result.case_id /\ t.sources = result.sources
            /\ \A r \in ToSet(result.repeats) : SameHashes(r, t)

AtHand == JudgedTranscript(Current, Answer, HitsB)

CompanionInv ==
    /\ billed \in Seq(ToSet(billed)) /\ transcripts \in Seq(ToSet(transcripts))
    /\ judged \in Seq(ToSet(judged)) /\ repeats \in Seq(ToSet(repeats))
    /\ args.answers_out # Null =>
           /\ Len(transcripts) = Len(billed)
           /\ \A i \in 1 .. Len(billed) : IsOf(transcripts[i], billed[i])
           /\ \A result \in ToSet(judged) : Backed(result, transcripts)
           /\ pc = "repeat" => AtHand \in ToSet(transcripts)
    /\ pc = "repeat" => \A r \in ToSet(repeats) : SameHashes(r, AtHand)
    /\ pc = "generate" => repeats = <<>>

\* A temporary file and a destination hold what pass B has left, all of it.
ArtifactsInv ==
    /\ pc \notin {"answers", "evidence", "over"} => temp = Null
    /\ pc \in {"answers", "evidence"} /\ temp # Null =>
           /\ Destination(pc) # Null
           /\ "content" \in DOMAIN temp /\ temp.content.kind = pc /\ temp.content.run = "this"
           /\ pc = "answers" => temp.content.cases = transcripts
           /\ pc = "evidence" => temp.content.judged = judged
    /\ \A artifact \in DOMAIN files \ OfThisRun :
           artifact \in DOMAIN given.found /\ files[artifact] = given.found[artifact]
    /\ \A artifact \in OfThisRun : Destination(artifact) # Null /\ files[artifact].kind = artifact
    /\ "answers" \in OfThisRun =>
           pc \in {"evidence", "report", "over"} /\ files["answers"].cases = transcripts
    /\ "evidence" \in OfThisRun =>
           pc \in {"report", "over"} /\ files["evidence"].judged = judged

PaidInv == CompanionInv /\ ArtifactsInv

LEMMA AtHandStands ==
    ASSUME UNCHANGED <<given, cases, byId, next, reseeded>>
    PROVE  AtHand' = AtHand
<1>1. Current' = Current
  BY DEF Current
<1>2. HitsB' = HitsB
  BY <1>1 DEF HitsB, Hits
<1>3. Answer' = Answer
  BY <1>1 DEF Answer
<1> QED
  BY <1>1, <1>2, <1>3 DEF AtHand

\* A step that leaves judging and writing alone.
LEMMA PaidStands ==
    ASSUME PaidInv, UNCHANGED <<given, judged, repeats, billed, transcripts, files, temp>>,
           \/ pc' = pc /\ UNCHANGED <<cases, byId, next, reseeded>>
           \/ pc' = "over"
           \/ pc \notin {"repeat", "answers", "evidence", "report", "over"} /\ pc' \notin {"repeat", "generate"}
           \/ pc = "reseed" /\ pc' = "generate" /\ repeats = <<>>
    PROVE  PaidInv'
<1>1. /\ args' = args /\ \A artifact : Destination(artifact)' = Destination(artifact)
  BY DEF args, Destination
<1>2. \A result \in ToSet(judged) : Backed(result, transcripts') <=> Backed(result, transcripts)
  BY DEF Backed
<1>3. CompanionInv'
  <2>1. CASE pc' = pc /\ UNCHANGED <<cases, byId, next, reseeded>>
    <3>1. AtHand' = AtHand
      BY <2>1, AtHandStands
    <3> QED
      BY <1>1, <1>2, <2>1, <3>1 DEF PaidInv, CompanionInv
  <2>2. CASE pc' \notin {"repeat", "generate"} \/ (pc' = "generate" /\ repeats = <<>>)
    BY <1>1, <1>2, <2>2 DEF PaidInv, CompanionInv
  <2> QED
    BY <2>1, <2>2
<1>4. ArtifactsInv'
  BY <1>1 DEF PaidInv, ArtifactsInv, OfThisRun
<1> QED
  BY <1>3, <1>4 DEF PaidInv

\* A result is recorded for the case at hand.
LEMMA PaidRecord ==
    ASSUME PaidInv, pc \in {"generate", "repeat"}, NEW result, Record(result),
           billed' \in Seq(ToSet(billed')), transcripts' \in Seq(ToSet(transcripts')),
           args.answers_out # Null =>
               /\ Len(transcripts') = Len(billed')
               /\ \A i \in 1 .. Len(billed') : IsOf(transcripts'[i], billed'[i])
               /\ ToSet(transcripts) \subseteq ToSet(transcripts')
               /\ Backed(result, transcripts')
    PROVE  PaidInv'
<1>1. /\ judged' = Append(judged, result) /\ repeats' = <<>> /\ pc' = "generate"
      /\ UNCHANGED <<given, files, temp>>
  BY DEF Record, GoTo, world, fileVars
<1>2. /\ args' = args /\ \A artifact : Destination(artifact)' = Destination(artifact)
  BY <1>1 DEF args, Destination
<1>3. /\ judged' \in Seq(ToSet(judged')) /\ ToSet(judged') = ToSet(judged) \cup {result}
  BY <1>1, Growing DEF PaidInv, CompanionInv
<1>4. <<>> \in Seq(ToSet(<<>>))
  BY EmptySeq
<1>5. ASSUME args.answers_out # Null, NEW x \in ToSet(judged') PROVE Backed(x, transcripts')
  <2>1. CASE x = result
    BY <1>5, <2>1
  <2>2. CASE x \in ToSet(judged)
    BY <1>5, <2>2 DEF PaidInv, CompanionInv, Backed
  <2> QED
    BY <1>3, <2>1, <2>2
<1>6. CompanionInv'
  BY <1>1, <1>2, <1>3, <1>4, <1>5 DEF CompanionInv
<1>7. ArtifactsInv'
  BY <1>1, <1>2 DEF PaidInv, ArtifactsInv, OfThisRun
<1> QED
  BY <1>6, <1>7 DEF PaidInv

\* Pass B is given an answer: it is in the companion before it is compared.
LEMMA PaidGenerate ==
    ASSUME Inv, PaidInv, Generate
    PROVE  PaidInv'
<1> DEFINE bill == [case_id |-> Current.id, answer |-> Answer, sources |-> HitsB]
           out == args.answers_out # Null
<1>1. /\ pc = "generate" /\ billed' = Append(billed, bill)
      /\ transcripts' = IF out THEN transcripts \o <<AtHand>> ELSE transcripts
  BY DEF Generate, Answerable, Generating, Emitted, AtHand
<1>2. /\ AtHand.case_id = Current.id /\ AtHand.answer = Answer /\ AtHand.sources = HitsB
      /\ AtHand.answer_sha256 = Answer /\ AtHand.sources_sha256 = HitsB
      /\ IsOf(AtHand, bill)
  BY DEF AtHand, JudgedTranscript, IsOf
<1> HIDE DEF bill
<1>3. /\ billed \in Seq(ToSet(billed)) /\ transcripts \in Seq(ToSet(transcripts))
      /\ repeats = <<>>
  BY <1>1 DEF PaidInv, CompanionInv
<1>4. transcripts \o <<AtHand>> = Append(transcripts, AtHand)
  BY <1>3, AppendIsConcat
<1>5. billed' \in Seq(ToSet(billed')) /\ transcripts' \in Seq(ToSet(transcripts'))
  <2>1. Append(billed, bill) \in Seq(ToSet(Append(billed, bill)))
    BY <1>3, Growing
  <2>2. Append(transcripts, AtHand) \in Seq(ToSet(Append(transcripts, AtHand)))
    BY <1>3, Growing
  <2>3. CASE out
    BY <1>1, <1>4, <2>1, <2>2, <2>3
  <2>4. CASE ~out
    BY <1>1, <1>3, <2>1, <2>4
  <2> QED
    BY <2>3, <2>4
<1>6. ASSUME out
      PROVE  /\ Len(transcripts') = Len(billed')
             /\ \A i \in 1 .. Len(billed') : IsOf(transcripts'[i], billed'[i])
             /\ ToSet(transcripts') = ToSet(transcripts) \cup {AtHand}
  <2>1. transcripts' = Append(transcripts, AtHand)
    BY <1>1, <1>4, <1>6
  <2>2. /\ Len(transcripts') = Len(transcripts) + 1 /\ transcripts'[Len(transcripts) + 1] = AtHand
        /\ \A i \in 1 .. Len(transcripts) : transcripts'[i] = transcripts[i]
    BY <1>3, <2>1, AppendProperties
  <2>3. /\ Len(billed') = Len(billed) + 1 /\ billed'[Len(billed) + 1] = bill
        /\ \A i \in 1 .. Len(billed) : billed'[i] = billed[i]
    BY <1>1, <1>3, AppendProperties
  <2>4. Len(billed) \in Nat /\ Len(transcripts) = Len(billed)
        /\ \A i \in 1 .. Len(billed) : IsOf(transcripts[i], billed[i])
    BY <1>3, <1>6, LenProperties DEF PaidInv, CompanionInv
  <2>5. ASSUME NEW i \in 1 .. Len(billed') PROVE IsOf(transcripts'[i], billed'[i])
    <3>1. CASE i = Len(billed) + 1
      BY <1>2, <2>2, <2>3, <2>4, <3>1
    <3>2. CASE i \in 1 .. Len(billed)
      BY <2>2, <2>3, <2>4, <3>2
    <3> QED
      BY <2>3, <2>4, <3>1, <3>2
  <2>6. ToSet(transcripts') = ToSet(transcripts) \cup {AtHand}
    BY <1>3, <2>1, Growing
  <2> QED
    BY <2>2, <2>3, <2>4, <2>5, <2>6
<1>7. CASE HitsA # HitsB
  <2> DEFINE result == WithProvenance(JudgedResult(Current.id, "INCONCLUSIVE", Null, "sources_sha256 mismatch"))
  <2>1. Record(result)
    BY <1>7 DEF Generate
  <2>2. result.case_id = Current.id /\ result.sources = HitsB /\ result.repeats = <<>>
    BY DEF WithProvenance, JudgedResult
  <2>3. ToSet(<<>>) = {}
    BY DEF ToSet
  <2> HIDE DEF result
  <2>4. out => Backed(result, transcripts')
    BY <1>2, <1>6, <2>2, <2>3 DEF Backed
  <2> QED
    BY <1>1, <1>5, <1>6, <2>1, <2>4, PaidRecord
<1>8. CASE HitsA = HitsB
  <2>1. /\ pc' = "repeat"
        /\ UNCHANGED <<given, cases, byId, next, reseeded, judged, repeats, files, temp>>
    BY <1>8 DEF Generate, GoTo, world, caseVars, searchVars, fileVars
  <2>2. args' = args /\ AtHand' = AtHand /\ \A artifact : Destination(artifact)' = Destination(artifact)
    BY <2>1, AtHandStands DEF args, Destination
  <2>3. ASSUME out, NEW x \in ToSet(judged) PROVE Backed(x, transcripts')
    BY <1>6, <2>3 DEF PaidInv, CompanionInv, Backed
  <2>4. ToSet(repeats) = {}
    BY <1>3 DEF ToSet
  <2>5. CompanionInv'
    BY <1>3, <1>5, <1>6, <2>1, <2>2, <2>3, <2>4 DEF PaidInv, CompanionInv
  <2>6. ArtifactsInv'
    BY <1>1, <2>1, <2>2 DEF PaidInv, ArtifactsInv, OfThisRun
  <2> QED
    BY <2>5, <2>6 DEF PaidInv
<1> QED
  BY <1>7, <1>8

\* A repeat is about the answer at hand.
LEMMA PaidRepeat ==
    ASSUME Inv, PaidInv, JudgeRepeat
    PROVE  PaidInv'
<1>1. pc = "repeat" /\ UNCHANGED <<billed, transcripts>>
  BY DEF JudgeRepeat
<1>2. PICK reply \in Replies :
        LET done == Append(repeats, JudgeOnce(Current, Answer, HitsB, Len(repeats) + 1, reply))
        IN \/ Record(WithProvenance(DeriveJudgedResult(Current.id, done)))
           \/ /\ repeats' = done
              /\ UNCHANGED <<pc, exit, world, caseVars, searchVars, reseeded, judged, fileVars>>
  BY Zenon DEF JudgeRepeat
<1> DEFINE repeat == JudgeOnce(Current, Answer, HitsB, Len(repeats) + 1, reply)
           done == Append(repeats, repeat)
<1>3. done \in Seq(ToSet(done)) /\ ToSet(done) = ToSet(repeats) \cup {repeat}
  BY Growing DEF PaidInv, CompanionInv
<1>4. AtHand.case_id = Current.id /\ AtHand.sources = HitsB
  BY DEF AtHand, JudgedTranscript
<1>5. SameHashes(repeat, AtHand)
  BY DEF AtHand, JudgedTranscript, SameHashes, JudgeOnce
<1> HIDE DEF repeat, done
<1>6. \A r \in ToSet(done) : SameHashes(r, AtHand)
  BY <1>1, <1>3, <1>5 DEF PaidInv, CompanionInv
<1>7. CASE Record(WithProvenance(DeriveJudgedResult(Current.id, done)))
  <2> DEFINE result == WithProvenance(DeriveJudgedResult(Current.id, done))
  <2>1. result.case_id = Current.id /\ result.repeats = done /\ result.sources = HitsB
    BY DEF WithProvenance, DeriveJudgedResult, JudgedResult
  <2> HIDE DEF result
  <2>2. args.answers_out # Null => Backed(result, transcripts')
    BY <1>1, <1>4, <1>6, <2>1 DEF PaidInv, CompanionInv, Backed
  <2> QED
    BY <1>1, <1>7, <2>2, PaidRecord DEF result, PaidInv, CompanionInv
<1>8. CASE /\ repeats' = done
           /\ UNCHANGED <<pc, exit, world, caseVars, searchVars, reseeded, judged, fileVars>>
  <2>1. /\ UNCHANGED <<pc, given, cases, byId, next, reseeded, judged, files, temp>>
    BY <1>8 DEF world, caseVars, searchVars, fileVars
  <2>2. args' = args /\ AtHand' = AtHand /\ \A artifact : Destination(artifact)' = Destination(artifact)
    BY <2>1, AtHandStands DEF args, Destination
  <2>3. \A x \in ToSet(judged) : Backed(x, transcripts') <=> Backed(x, transcripts)
    BY <1>1 DEF Backed
  <2>4. CompanionInv'
    BY <1>1, <1>3, <1>6, <1>8, <2>1, <2>2, <2>3 DEF PaidInv, CompanionInv
  <2>5. ArtifactsInv'
    BY <1>1, <2>1, <2>2 DEF PaidInv, ArtifactsInv, OfThisRun
  <2> QED
    BY <2>4, <2>5 DEF PaidInv
<1> QED
  BY <1>2, <1>7, <1>8 DEF repeat, done

\* The artifacts are composed and written when judging is over.
LEMMA PaidWriting ==
    ASSUME Inv, PaidInv, Compose \/ WriteTemp \/ Replace \/ FailToWrite
    PROVE  PaidInv'
<1>1. /\ pc \in {"answers", "evidence"} /\ pc' \in {pc, After(pc)} /\ After(pc) \in {"evidence", "report"}
      /\ UNCHANGED <<given, judged, repeats, billed, transcripts>>
      /\ After("answers") = "evidence" /\ After("evidence") = "report"
      /\ files' = files => OfThisRun' = OfThisRun
  BY DEF Compose, WriteTemp, Replace, FailToWrite, Writing, Settle, GoTo, After, world, judgeVars, OfThisRun
<1>2. /\ args' = args /\ \A artifact : Destination(artifact)' = Destination(artifact)
  BY <1>1 DEF args, Destination
<1>3. CompanionInv'
  <2>1. \A result \in ToSet(judged) : Backed(result, transcripts') <=> Backed(result, transcripts)
    BY <1>1 DEF Backed
  <2> QED
    BY <1>1, <1>2, <2>1 DEF PaidInv, CompanionInv
<1> USE DEF PaidInv, ArtifactsInv
<1>4. CASE Compose
  <2>1. temp = Null /\ files' = files
    BY <1>4 DEF Compose
  <2>2. CASE temp' = temp /\ pc' = After(pc)
    BY <1>1, <1>2, <1>3, <2>1, <2>2
  <2>3. CASE /\ pc' = pc /\ Destination(pc) # Null
             /\ temp' = [written |-> "no",
                         content |-> IF pc = "answers" THEN AnswersDocument ELSE EvidenceDocument]
    <3>1. "content" \in DOMAIN temp'
          /\ temp'.content = IF pc = "answers" THEN AnswersDocument ELSE EvidenceDocument
      BY <2>3
    <3>2. /\ temp'.content.kind = pc /\ temp'.content.run = "this"
          /\ pc = "answers" => temp'.content.cases = transcripts
          /\ pc = "evidence" => temp'.content.judged = judged
      BY <1>1, <3>1 DEF AnswersDocument, EvidenceDocument
    <3> QED
      BY <1>1, <1>2, <1>3, <2>1, <2>3, <3>1, <3>2
  <2> QED
    BY <1>3, <1>4, <2>2, <2>3 DEF Compose, GoTo
<1>5. CASE WriteTemp
  <2>1. PICK written : temp' = [temp EXCEPT !.written = written]
    BY <1>5 DEF WriteTemp
  <2>2. temp # Null /\ pc' = pc /\ files' = files
    BY <1>5 DEF WriteTemp, Writing
  <2>3. "content" \in DOMAIN temp' /\ temp'.content = temp.content
    BY <1>1, <2>1, <2>2
  <2> QED
    BY <1>1, <1>2, <1>3, <2>2, <2>3
<1>6. CASE Replace
  <2>1. /\ temp # Null /\ temp' = Null /\ pc' = After(pc)
        /\ DOMAIN files' = DOMAIN files \cup {pc} /\ files'[pc] = temp.content
        /\ \A artifact \in DOMAIN files \ {pc} : files'[artifact] = files[artifact]
    BY <1>6 DEF Replace, Writing, Settle, GoTo
  <2>2. temp.content.run = "this" /\ OfThisRun' = OfThisRun \cup {pc}
    BY <1>1, <2>1 DEF OfThisRun
  <2>3. /\ DOMAIN files' \ OfThisRun' \subseteq DOMAIN files \ OfThisRun
        /\ \A artifact \in DOMAIN files' \ OfThisRun' : files'[artifact] = files[artifact]
    BY <2>1, <2>2
  <2>4. \A artifact \in OfThisRun : artifact \in DOMAIN files
    BY DEF OfThisRun
  <2>5. \A artifact \in OfThisRun' : Destination(artifact) # Null /\ files'[artifact].kind = artifact
    BY <1>1, <2>1, <2>2, <2>4
  <2>6. "answers" \in OfThisRun' =>
            pc' \in {"evidence", "report"} /\ files'["answers"].cases = transcripts
    BY <1>1, <2>1, <2>2, <2>4
  <2>7. "evidence" \in OfThisRun' => pc' = "report" /\ files'["evidence"].judged = judged
    BY <1>1, <2>1, <2>2, <2>4
  <2> QED
    BY <1>1, <1>2, <1>3, <2>1, <2>3, <2>5, <2>6, <2>7
<1>7. CASE FailToWrite
  <2>1. temp' = Null /\ pc' = After(pc) /\ files' = files
    BY <1>7 DEF FailToWrite, Settle, GoTo
  <2> QED
    BY <1>1, <1>2, <1>3, <2>1
<1> QED
  BY <1>4, <1>5, <1>6, <1>7

LEMMA PaidKeeps ==
    ASSUME Inv, JudgedInv, PaidInv, [Next]_vars
    PROVE  PaidInv'
<1>1. CASE Screen \/ LoadCases \/ StartSearch \/ Search \/ EndSearch
  BY <1>1, PaidStands DEF Screen, LoadCases, StartSearch, Search, Searching, EndSearch, Exit, GoTo,
     world, judgeVars, fileVars
<1>2. CASE Seed \/ Calibrate \/ RunPassA \/ StartPlacing \/ Place \/ EndPlacing \/ Propagate \/ EndPropagating
  BY <1>2, PaidStands DEF Seed, Calibrate, RunPassA, StartPlacing, Place, EndPlacing, Propagate,
     EndPropagating, Exit, GoTo, world, judgeVars, fileVars
<1>3. CASE Reseed
  <2>1. pc = "reseed" /\ repeats = <<>>
    BY <1>3 DEF Reseed, JudgedInv
  <2> QED
    BY <1>3, <2>1, PaidStands DEF Reseed, Exit, GoTo, world, judgeVars, fileVars
<1>4. CASE EndJudging
  <2>1. pc = "generate" /\ pc' = "answers"
        /\ UNCHANGED <<given, judged, repeats, billed, transcripts, files, temp>>
    BY <1>4 DEF EndJudging, GoTo, world, judgeVars, fileVars
  <2> QED
    BY <2>1, PaidStands
<1>5. CASE Report \/ JudgedLayerFails \/ Interrupt
  BY <1>5, PaidStands DEF Report, JudgedLayerFails, Interrupt, Exit, GateExitCode, world, judgeVars, fileVars
<1>6. CASE Edit \/ UNCHANGED vars
  BY <1>6, PaidStands DEF Edit, vars, world, caseVars, searchVars, judgeVars, fileVars
<1>7. CASE Skip \/ NoAnswer \/ GenerationFails
  <2>1. PICK id, state, judgement, reason : Record(JudgedResult(id, state, judgement, reason))
    BY <1>7 DEF Skip, NoAnswer, GenerationFails
  <2>2. pc = "generate" /\ UNCHANGED <<billed, transcripts>>
    BY <1>7 DEF Skip, NoAnswer, GenerationFails, Answerable, Generating
  <2> DEFINE result == JudgedResult(id, state, judgement, reason)
  <2>3. result.generation_usage = Null
    BY DEF JudgedResult
  <2> HIDE DEF result
  <2>4. Backed(result, transcripts')
    BY <2>3 DEF Backed
  <2> QED
    BY <2>1, <2>2, <2>4, PaidRecord DEF result, PaidInv, CompanionInv
<1> QED
  BY <1>1, <1>2, <1>3, <1>4, <1>5, <1>6, <1>7, PaidGenerate, PaidRepeat, PaidWriting DEF Next, Work

(* Money is not lost: whatever fails, is edited or interrupted, a           *)
(* destination holds what was found there or this run's artifact, whole;    *)
(* its companion has every answer that was paid for, in order, and the      *)
(* hashes of its sidecar are hashes of these answers (run_judged_layer,     *)
(* _write_artifact), for any dataset, corpus, flags and replies.            *)
THEOREM AnswersAreKept == Spec => []PaidAnswersAreKept
<1>1. Init => PaidInv
  <2> SUFFICES ASSUME Init PROVE PaidInv
    OBVIOUS
  <2>1. /\ pc = "screen" /\ temp = Null /\ files = given.found /\ OfThisRun = {}
        /\ judged = <<>> /\ repeats = <<>> /\ billed = <<>> /\ transcripts = <<>>
    BY FoundAssumption DEF Init, OfThisRun
  <2>2. <<>> \in Seq(ToSet(<<>>)) /\ ToSet(<<>>) = {} /\ Len(<<>>) = 0 /\ DOMAIN <<>> = {}
    BY EmptySeq DEF ToSet
  <2>3. CompanionInv
    BY <2>1, <2>2 DEF CompanionInv
  <2>4. ArtifactsInv
    BY <2>1, <2>2 DEF ArtifactsInv
  <2> QED
    BY <2>3, <2>4 DEF PaidInv
<1>2. Inv /\ JudgedInv /\ PaidInv /\ [Next]_vars => PaidInv'
  BY PaidKeeps
<1>3. PaidInv => PaidAnswersAreKept
  <2> SUFFICES ASSUME PaidInv PROVE PaidAnswersAreKept
    OBVIOUS
  <2> DEFINE kept == files["answers"]
             sidecar == files["evidence"]
  <2>1. /\ \A artifact \in DOMAIN files \ OfThisRun :
               artifact \in DOMAIN given.found /\ files[artifact] = given.found[artifact]
        /\ \A artifact \in OfThisRun : files[artifact].kind = artifact
    BY DEF PaidInv, ArtifactsInv
  <2>2. ASSUME "answers" \in OfThisRun
        PROVE  [i \in DOMAIN kept.cases |-> [case_id |-> kept.cases[i].case_id,
                                             answer |-> kept.cases[i].answer,
                                             sources |-> kept.cases[i].sources]] = billed
    <3>1. kept.cases = transcripts /\ args.answers_out # Null
      BY <2>2 DEF PaidInv, ArtifactsInv, Destination
    <3>2. /\ Len(transcripts) = Len(billed)
          /\ \A i \in 1 .. Len(billed) : billed[i] = [case_id |-> transcripts[i].case_id,
                                                      answer |-> transcripts[i].answer,
                                                      sources |-> transcripts[i].sources]
      BY <3>1 DEF PaidInv, CompanionInv, IsOf
    <3>3. /\ DOMAIN transcripts = 1 .. Len(billed) /\ billed = [i \in 1 .. Len(billed) |-> billed[i]]
      BY <3>2, LenProperties DEF PaidInv, CompanionInv
    <3> QED
      BY <3>1, <3>2, <3>3
  <2>3. ASSUME {"answers", "evidence"} \subseteq OfThisRun
        PROVE  \A i \in DOMAIN sidecar.judged :
                   LET result == sidecar.judged[i]
                   IN result.generation_usage # Null =>
                       \E t \in ToSet(kept.cases) :
                           /\ t.case_id = result.case_id /\ t.sources = result.sources
                           /\ \A r \in ToSet(result.repeats) :
                                 r.answer_sha256 = t.answer_sha256 /\ r.sources_sha256 = t.sources_sha256
    <3>1. kept.cases = transcripts /\ sidecar.judged = judged /\ args.answers_out # Null
      BY <2>3 DEF PaidInv, ArtifactsInv, Destination
    <3>2. \A i \in DOMAIN judged : Backed(judged[i], transcripts)
      BY <3>1 DEF PaidInv, CompanionInv, ToSet
    <3> HIDE DEF kept, sidecar
    <3> QED
      BY <3>1, <3>2 DEF Backed, SameHashes
  <2> QED
    BY <2>1, <2>2, <2>3 DEF PaidAnswersAreKept
<1> QED
  BY <1>1, <1>2, <1>3, SearchesHold, JudgedHolds, PTL DEF Spec

-----------------------------------------------------------------------------
(* The polls of the smoke test (tools/entra_smoke.py).                     *)

\* How many of the first n waits slow_down has raised.
SlowIn(list, n) == Cardinality({i \in 1 .. n : list[i].slowed})

LEMMA SlowInEmpty ==
    ASSUME NEW list
    PROVE  SlowIn(list, 0) = 0
<1>1. {i \in 1 .. 0 : list[i].slowed} = {}
  OBVIOUS
<1> QED
  BY <1>1, FS_EmptySet DEF SlowIn

LEMMA SlowInType ==
    ASSUME NEW list, NEW n \in Nat
    PROVE  SlowIn(list, n) \in Nat
<1>1. IsFiniteSet(1 .. n)
  BY FS_Interval
<1>2. IsFiniteSet({i \in 1 .. n : list[i].slowed})
  BY <1>1, FS_Subset
<1> QED
  BY <1>2, FS_CardinalityType DEF SlowIn

\* A further wait counts if it was raised, and changes no count before it.
LEMMA SlowInGrows ==
    ASSUME NEW S, NEW list \in Seq(S), NEW wait \in S, NEW n \in Nat, n = Len(list)
    PROVE  /\ \A k \in 0 .. n : SlowIn(Append(list, wait), k) = SlowIn(list, k)
           /\ SlowIn(Append(list, wait), n + 1) = SlowIn(list, n) + IF wait.slowed THEN 1 ELSE 0
<1> DEFINE more == Append(list, wait)
<1>1. more[n + 1] = wait /\ \A i \in 1 .. n : more[i] = list[i]
  BY AppendProperties
<1> HIDE DEF more
<1>2. ASSUME NEW k \in 0 .. n
      PROVE  {i \in 1 .. k : more[i].slowed} = {i \in 1 .. k : list[i].slowed}
  BY <1>1
<1>3. \A k \in 0 .. n : SlowIn(more, k) = SlowIn(list, k)
  BY <1>2 DEF SlowIn
<1> DEFINE old == {i \in 1 .. n : list[i].slowed}
           new == {i \in 1 .. n + 1 : more[i].slowed}
<1>4. IsFiniteSet(old) /\ n + 1 \notin old
  <2>1. IsFiniteSet(1 .. n) /\ n + 1 \notin 1 .. n
    BY FS_Interval
  <2> QED
    BY <2>1, FS_Subset
<1>5. new = IF wait.slowed THEN old \cup {n + 1} ELSE old
  <2>1. 1 .. n + 1 = (1 .. n) \cup {n + 1}
    OBVIOUS
  <2> QED
    BY <1>1, <2>1
<1>6. Cardinality(new) = Cardinality(old) + IF wait.slowed THEN 1 ELSE 0
  <2> HIDE DEF old, new
  <2>1. Cardinality(old) \in Nat
    BY <1>4, FS_CardinalityType
  <2>2. Cardinality(old \cup {n + 1}) = Cardinality(old) + 1
    BY <1>4, FS_AddElement
  <2>3. CASE wait.slowed
    BY <1>5, <2>1, <2>2, <2>3
  <2>4. CASE ~wait.slowed
    BY <1>5, <2>1, <2>4
  <2> QED
    BY <2>3, <2>4
<1>7. SlowIn(more, n + 1) = Cardinality(new) /\ SlowIn(list, n) = Cardinality(old)
  BY DEF SlowIn
<1> QED
  BY <1>3, <1>6, <1>7 DEF more

Waits == [slowed : BOOLEAN, units : Nat]
PollTypes ==
    /\ flags \in SmokeRuns
    /\ clock \in Nat /\ limit \in Nat /\ waiting \in Nat
    /\ interval \in [given : Nat, current : Nat]
    /\ polls \in Seq(Nat) /\ waits \in Seq(Waits)

\* Since the last poll of the device code the interval in force has passed, or
\* the sleep that comes next makes sure of it.
InForce == interval.current = interval.given + SlowIn(waits, Len(waits))
DevicePace ==
    /\ at \in {"screen", "device"} => polls = <<>> /\ waits = <<>>
    /\ at \in {"device", "poll device"} => ~flags.gate
    /\ at = "poll device" =>
        /\ Len(waits) = Len(polls) /\ InForce
        /\ polls # <<>> => clock - polls[Len(polls)] >= interval.current
    /\ at = "sleep" /\ ~flags.gate =>
        /\ Len(waits) = Len(polls) /\ InForce
        /\ polls # <<>> /\ clock >= polls[Len(polls)] /\ waiting = interval.current

\* Since the last poll of the gate its backoff has passed, or the deadline is
\* there.
Paced(now) ==
    /\ polls[Len(polls)] < limit
    /\ now - polls[Len(polls)] >= Backoff(Len(polls)) \/ now >= limit
GatePace ==
    /\ at = "names" => polls = <<>>
    /\ at = "gate" => flags.gate /\ clock <= limit + MaxOverslept /\ (polls # <<>> => Paced(clock))
    /\ at = "sleep" /\ flags.gate => clock + waiting <= limit /\ polls # <<>> /\ Paced(clock + waiting)

\* PollsBehave of one poll.
Kept(n) ==
    IF flags.gate
    THEN /\ polls[n] <= limit + MaxOverslept
         /\ polls[n] >= limit => n = Len(polls)
         /\ n > 1 => polls[n] - polls[n - 1] >= Backoff(n - 1) \/ polls[n] >= limit
    ELSE /\ polls[n] < limit
         /\ n > 1 => polls[n] - polls[n - 1] >= interval.given + SlowIn(waits, n - 1)
AllKept == \A n \in DOMAIN polls : Kept(n)

PollInv == PollTypes /\ DevicePace /\ GatePace /\ AllKept

LEMMA FlagTypes ==
    ASSUME flags \in SmokeRuns
    PROVE  flags.gate \in BOOLEAN /\ flags.deadline \in Nat
  BY SmokeAssumption

LEMMA BackoffType ==
    ASSUME NEW n \in Nat \ {0}
    PROVE  Backoff(n) \in Nat
<1>1. CASE n \in 1 .. 3
  <2>1. n = 1 \/ n = 2 \/ n = 3
    BY <1>1
  <2> QED
    BY <2>1 DEF Backoff
<1>2. CASE n \notin 1 .. 3
  BY <1>2 DEF Backoff
<1> QED
  BY <1>1, <1>2

\* Steps that leave the polling as it is, and go where nothing is said of it.
LEMMA PollsStand ==
    ASSUME PollInv, UNCHANGED <<flags, clock, limit, interval, waiting, polls, waits>>,
           \/ at' = at
           \/ at' \in {"render", "over", "call", "compare", "further", "acquire"}
           \/ at = "screen" /\ at' = "device" /\ ~flags.gate
    PROVE  PollInv'
<1>1. PollTypes' /\ AllKept'
  BY DEF PollInv, PollTypes, AllKept, Kept
<1>2. DevicePace' /\ GatePace'
  BY DEF PollInv, DevicePace, GatePace, InForce, Paced
<1> QED
  BY <1>1, <1>2 DEF PollInv

LEMMA OneBefore == \A m \in Nat : \A n \in 1 .. m : n - 1 \in 0 .. m /\ (n > 1 => n - 1 \in 1 .. m)
  OBVIOUS

\* A further poll that keeps the peace, whatever is noted of it.
LEMMA OneMorePoll ==
    ASSUME PollInv, UNCHANGED <<flags, limit>>, interval'.given = interval.given,
           polls' = Append(polls, clock),
           \/ flags.gate
           \/ /\ Len(polls) \in 0 .. Len(waits)
              /\ \A k \in 0 .. Len(polls) : SlowIn(waits', k) = SlowIn(waits, k),
           IF flags.gate
           THEN clock <= limit + MaxOverslept /\ (polls # <<>> => Paced(clock))
           ELSE /\ clock < limit
                /\ polls # <<>> => clock - polls[Len(polls)] >= interval.given + SlowIn(waits, Len(polls))
    PROVE  AllKept'
<1>1. /\ polls \in Seq(Nat) /\ waits \in Seq(Waits) /\ clock \in Nat
      /\ Len(polls) \in Nat /\ DOMAIN polls = 1 .. Len(polls)
  BY DEF PollInv, PollTypes
<1>2. PICK m \in Nat : m = Len(polls)
  BY <1>1
<1>3. /\ DOMAIN polls' = 1 .. m + 1 /\ polls'[m + 1] = clock /\ Len(polls') = m + 1
      /\ \A n \in 1 .. m : polls'[n] = polls[n]
  BY <1>1, <1>2, AppendProperties
<1>4. flags.gate \/ \A k \in 0 .. m : SlowIn(waits', k) = SlowIn(waits, k)
  BY <1>2
<1>5. ASSUME NEW n \in 1 .. m
      PROVE  Kept(n)'
  <2>1. Kept(n) /\ n - 1 \in 0 .. m /\ (n > 1 => n - 1 \in 1 .. m)
    <3>1. Kept(n)
      BY <1>1, <1>2 DEF PollInv, AllKept
    <3> QED
      BY <1>2, <3>1, OneBefore
  <2>2. flags.gate \/ SlowIn(waits', n - 1) = SlowIn(waits, n - 1)
    BY <1>4, <2>1
  <2>3. polls'[n] = polls[n] /\ (n > 1 => polls'[n - 1] = polls[n - 1])
    BY <1>3, <2>1
  <2>4. flags.gate => ~(polls[n] >= limit)
    <3>1. CASE n = m
      <4>1. polls # <<>> /\ polls[n] \in Nat /\ limit \in Nat
        BY <1>1, <1>2 DEF PollInv, PollTypes
      <4> QED
        BY <1>2, <3>1, <4>1 DEF Paced
    <3>2. CASE n # m
      BY <1>2, <2>1, <3>2 DEF Kept
    <3> QED
      BY <3>1, <3>2
  <2> QED
    BY <2>1, <2>2, <2>3, <2>4 DEF Kept
<1>6. Kept(m + 1)'
  <2>1. m > 0 => polls # <<>> /\ polls'[m] = polls[m]
    <3>1. polls = <<>> => Len(polls) = 0
      OBVIOUS
    <3> QED
      BY <1>2, <1>3, <3>1
  <2>2. flags.gate \/ SlowIn(waits', m) = SlowIn(waits, m)
    BY <1>4
  <2>3. polls'[m + 1] = clock /\ (m + 1) - 1 = m /\ (m + 1 > 1 => m > 0)
    BY <1>3
  <2>4. IF flags.gate
        THEN clock <= limit + MaxOverslept /\ (m > 0 => clock - polls[m] >= Backoff(m) \/ clock >= limit)
        ELSE clock < limit /\ (m > 0 => clock - polls[m] >= interval.given + SlowIn(waits, m))
    BY <1>2, <2>1 DEF Paced
  <2> QED
    BY <1>3, <2>1, <2>2, <2>3, <2>4 DEF Kept
<1>7. \A n \in 1 .. m + 1 : n \in 1 .. m \/ n = m + 1
  OBVIOUS
<1> QED
  BY <1>3, <1>5, <1>6, <1>7 DEF AllKept

LEMMA PollDeviceKeeps ==
    ASSUME PollInv, PollDevice
    PROVE  PollInv'
<1>1. /\ at = "poll device" /\ clock < limit /\ polls' = Append(polls, clock)
      /\ UNCHANGED <<flags, limit>> /\ ~flags.gate
  BY DEF PollDevice, PollInv, DevicePace
<1>2. /\ Len(waits) = Len(polls) /\ InForce
      /\ polls # <<>> => clock - polls[Len(polls)] >= interval.current
  BY <1>1 DEF PollInv, DevicePace
<1>3. PICK m \in Nat : m = Len(polls) /\ m = Len(waits)
  BY <1>2 DEF PollInv, PollTypes
<1>4. /\ polls' \in Seq(Nat) /\ Len(polls') = m + 1 /\ polls'[m + 1] = clock /\ clock \in Nat
      /\ polls' # <<>>
  <2>1. polls \in Seq(Nat) /\ clock \in Nat
    BY DEF PollInv, PollTypes
  <2>2. /\ Append(polls, clock) \in Seq(Nat) /\ Len(Append(polls, clock)) = m + 1
        /\ Append(polls, clock)[m + 1] = clock /\ Append(polls, clock) # <<>>
    <3>1. /\ Append(polls, clock) \in Seq(Nat) /\ Len(Append(polls, clock)) = Len(polls) + 1
          /\ Append(polls, clock)[Len(polls) + 1] = clock /\ Append(polls, clock) # <<>>
      BY <2>1, AppendProperties
    <3> QED
      BY <1>3, <3>1
  <2> QED
    BY <1>1, <2>1, <2>2
<1>9. /\ interval.given \in Nat /\ interval.current \in Nat
      /\ Len(polls) \in 0 .. Len(waits)
      /\ polls # <<>> => clock - polls[Len(polls)] >= interval.given + SlowIn(waits, Len(polls))
  BY <1>2, <1>3 DEF InForce, PollInv, PollTypes
<1>5. PICK took \in 0 .. MaxTook :
        \/ \E error \in {"slow_down", "authorization_pending"} :
            /\ clock' = clock + took /\ waiting' = Raised(error) /\ interval' = Slowed(error)
            /\ waits' = Append(waits, [slowed |-> error = "slow_down", units |-> waiting'])
            /\ at' = "sleep"
        \/ \E delegated \in Tokens :
            /\ clock' = clock + took
            /\ at' = "acquire"
            /\ UNCHANGED <<waits, waiting, interval>>
        \/ at' = "render" /\ UNCHANGED <<clock, waits, waiting, interval>>
  BY DEF PollDevice, Proceed, PrerequisiteFails
<1>6. clock + took \in Nat /\ clock + took >= clock
  BY <1>5, SmokeAssumption DEF PollInv, PollTypes
<1>7. CASE UNCHANGED <<waits, waiting, interval>> /\ at' \in {"acquire", "render"} /\ clock' \in Nat
  <2>1. AllKept'
    BY <1>1, <1>7, <1>9, OneMorePoll
  <2>2. PollTypes'
    BY <1>1, <1>4, <1>7 DEF PollInv, PollTypes
  <2>3. DevicePace' /\ GatePace'
    BY <1>7 DEF DevicePace, GatePace
  <2> QED
    BY <2>1, <2>2, <2>3 DEF PollInv
<1>8. ASSUME NEW error \in {"slow_down", "authorization_pending"},
             clock' = clock + took, waiting' = Raised(error), interval' = Slowed(error),
             waits' = Append(waits, [slowed |-> error = "slow_down", units |-> waiting']),
             at' = "sleep"
      PROVE  PollInv'
  <2> DEFINE wait == [slowed |-> error = "slow_down", units |-> waiting']
  <2>1. /\ waiting' \in Nat /\ interval' \in [given : Nat, current : Nat]
        /\ interval'.current = waiting' /\ interval'.given = interval.given
        /\ waiting' = interval.current + IF wait.slowed THEN 1 ELSE 0
    <3>1. interval \in [given : Nat, current : Nat]
      BY DEF PollInv, PollTypes
    <3>2. Raised(error) \in Nat
      BY <3>1 DEF Raised
    <3>3. interval' = [interval EXCEPT !.current = waiting']
      BY <1>8 DEF Slowed
    <3> QED
      BY <1>8, <3>1, <3>2, <3>3 DEF Raised
  <2>2. wait \in Waits
    BY <2>1 DEF Waits
  <2> HIDE DEF wait
  <2>3. /\ waits' \in Seq(Waits) /\ Len(waits') = m + 1
        /\ \A k \in 0 .. m : SlowIn(waits', k) = SlowIn(waits, k)
        /\ SlowIn(waits', m + 1) = SlowIn(waits, m) + IF wait.slowed THEN 1 ELSE 0
    BY <1>3, <1>8, <2>2, AppendProperties, SlowInGrows DEF wait, PollInv, PollTypes
  <2>4. AllKept'
    BY <1>1, <1>3, <1>9, <2>1, <2>3, OneMorePoll
  <2>5. PollTypes'
    BY <1>1, <1>4, <1>6, <1>8, <2>1, <2>3 DEF PollInv, PollTypes
  <2>6. InForce'
    <3>1. SlowIn(waits, m) \in Nat /\ interval.given \in Nat /\ interval.current = interval.given + SlowIn(waits, m)
      BY <1>2, <1>3, SlowInType DEF PollInv, PollTypes, InForce
    <3>2. SlowIn(waits', Len(waits')) = SlowIn(waits, m) + IF wait.slowed THEN 1 ELSE 0
      BY <2>3
    <3>3. interval'.current = interval'.given + SlowIn(waits', Len(waits'))
      <4>1. CASE wait.slowed
        BY <2>1, <3>1, <3>2, <4>1
      <4>2. CASE ~wait.slowed
        BY <2>1, <3>1, <3>2, <4>2
      <4> QED
        BY <4>1, <4>2
    <3> QED
      BY <3>3 DEF InForce
  <2>7. polls' # <<>> /\ clock' >= polls'[Len(polls')] /\ Len(waits') = Len(polls') /\ ~flags'.gate
    BY <1>1, <1>4, <1>6, <1>8, <2>3
  <2>8. DevicePace' /\ GatePace'
    BY <1>8, <2>1, <2>6, <2>7 DEF DevicePace, GatePace
  <2> QED
    BY <2>4, <2>5, <2>8 DEF PollInv
<1> QED
  BY <1>5, <1>6, <1>7, <1>8 DEF PollInv, PollTypes

LEMMA SleepKeeps ==
    ASSUME PollInv, Sleep
    PROVE  PollInv'
<1>1. /\ at = "sleep" /\ at' = IF flags.gate THEN "gate" ELSE "poll device"
      /\ UNCHANGED <<flags, limit, interval, waiting, polls, waits>>
  BY DEF Sleep, Proceed
<1>2. PICK overslept \in Nat : overslept <= MaxOverslept /\ clock' = clock + waiting + overslept
  <2>1. MaxOverslept \in Nat
    BY SmokeAssumption
  <2>2. PICK overslept \in 0 .. MaxOverslept : clock' = clock + waiting + overslept
    BY DEF Sleep
  <2>3. overslept \in Nat /\ overslept <= MaxOverslept
    BY <2>1
  <2> QED
    BY <2>2, <2>3
<1>3. clock \in Nat /\ waiting \in Nat /\ limit \in Nat /\ MaxOverslept \in Nat
  BY SmokeAssumption DEF PollInv, PollTypes
<1>4. PollTypes' /\ AllKept'
  <2>1. clock' \in Nat
    BY <1>2, <1>3
  <2> QED
    BY <1>1, <2>1 DEF PollInv, PollTypes, AllKept, Kept
<1>5. \A n \in DOMAIN polls : polls[n] \in Nat
  BY DEF PollInv, PollTypes
<1>6. polls # <<>> => Len(polls) \in DOMAIN polls /\ Len(polls) \in Nat \ {0}
  BY DEF PollInv, PollTypes
<1>7. CASE flags.gate
  <2>1. clock + waiting <= limit /\ polls # <<>> /\ Paced(clock + waiting)
    BY <1>1, <1>7 DEF PollInv, GatePace
  <2>2. PICK last \in Nat, backoff \in Nat : last = polls[Len(polls)] /\ backoff = Backoff(Len(polls))
    BY <1>5, <1>6, <2>1, BackoffType
  <2>3. clock' <= limit + MaxOverslept
    BY <1>2, <1>3, <2>1
  <2>4. clock' - last >= backoff \/ clock' >= limit
    <3>1. (clock + waiting) - last >= backoff \/ clock + waiting >= limit
      BY <2>1, <2>2 DEF Paced
    <3> QED
      BY <1>2, <1>3, <2>2, <3>1
  <2>5. Paced(clock)'
    BY <1>1, <2>1, <2>2, <2>4 DEF Paced
  <2> QED
    BY <1>1, <1>4, <1>7, <2>1, <2>3, <2>5 DEF PollInv, DevicePace, GatePace
<1>8. CASE ~flags.gate
  <2>1. /\ Len(waits) = Len(polls) /\ InForce
        /\ polls # <<>> /\ clock >= polls[Len(polls)] /\ waiting = interval.current
    BY <1>1, <1>8 DEF PollInv, DevicePace
  <2>2. PICK last \in Nat : last = polls[Len(polls)]
    BY <1>5, <1>6, <2>1
  <2>3. clock' - last >= waiting
    BY <1>2, <1>3, <2>1, <2>2
  <2>4. clock' - polls'[Len(polls')] >= interval'.current
    BY <1>1, <2>1, <2>2, <2>3
  <2>5. InForce'
    BY <1>1, <2>1 DEF InForce
  <2> QED
    BY <1>1, <1>4, <1>8, <2>1, <2>4, <2>5 DEF PollInv, DevicePace, GatePace
<1> QED
  BY <1>7, <1>8


LEMMA Pausing ==
    ASSUME NEW begun \in Nat, NEW took \in Nat, NEW pause \in Nat, NEW backoff \in Nat, NEW until \in Nat,
           pause >= backoff \/ pause = until - begun - took
    PROVE  ((begun + took) + pause) - begun >= backoff \/ (begun + took) + pause = until
<1>1. CASE pause >= backoff
  <2>1. ((begun + took) + pause) - begun = took + pause /\ took + pause >= backoff
    BY <1>1
  <2> QED
    BY <2>1
<1>2. CASE pause = until - begun - took
  <2>1. (begun + took) + pause = until
    BY <1>2
  <2> QED
    BY <2>1
<1> QED
  BY <1>1, <1>2

LEMMA PollGateKeeps ==
    ASSUME PollInv, PollGate
    PROVE  PollInv'
<1>1. /\ at = "gate" /\ flags.gate /\ clock <= limit + MaxOverslept /\ (polls # <<>> => Paced(clock))
      /\ polls' = Append(polls, clock) /\ UNCHANGED <<flags, limit, interval>>
  BY DEF PollGate, PollInv, GatePace
<1>2. AllKept'
  BY <1>1, OneMorePoll DEF Paced
<1>3. PICK m \in Nat : m = Len(polls)
  BY DEF PollInv, PollTypes
<1>4. clock \in Nat /\ limit \in Nat /\ polls \in Seq(Nat) /\ waits \in Seq(Waits)
  BY DEF PollInv, PollTypes
<1>5. polls' \in Seq(Nat) /\ Len(polls') = m + 1 /\ polls'[m + 1] = clock /\ polls' # <<>>
  <2>1. /\ Append(polls, clock) \in Seq(Nat) /\ Len(Append(polls, clock)) = Len(polls) + 1
        /\ Append(polls, clock)[Len(polls) + 1] = clock /\ Append(polls, clock) # <<>>
    BY <1>4, AppendProperties, SMTT(30)
  <2> QED
    BY <1>1, <1>3, <2>1
<1>6. PICK backoff \in Nat : backoff = Backoff(m + 1)
  BY BackoffType
<1>7. PICK took \in 0 .. MaxTook :
        LET remaining == limit - clock - took
            wait == IF backoff < remaining THEN backoff ELSE remaining
        IN /\ clock' = clock + took
           /\ \/ at' \in {"further", "render"} /\ UNCHANGED <<waiting, waits>>
              \/ /\ remaining > 0
                 /\ waiting' = wait /\ waits' = Append(waits, [slowed |-> FALSE, units |-> wait])
                 /\ at' = "sleep"
  <2>1. PICK took \in 0 .. MaxTook,
             outcome \in {Outcome(answer) : answer \in Answers} \cup {"retry"} :
        LET remaining == limit - clock - took
            wait == IF backoff < remaining THEN backoff ELSE remaining
        IN /\ clock' = clock + took
           /\ CASE outcome = "success" ->
                    at' = "further" /\ UNCHANGED <<waiting, waits>>
                [] outcome = "retry" /\ remaining > 0 ->
                    /\ waiting' = wait /\ waits' = Append(waits, [slowed |-> FALSE, units |-> wait])
                    /\ at' = "sleep"
                [] OTHER -> at' = "render" /\ UNCHANGED <<waiting, waits>>
    BY <1>3, <1>6 DEF PollGate, Proceed, GateFails
  <2>2. CASE outcome = "success"
    BY <2>1, <2>2
  <2>3. CASE outcome # "success" /\ outcome = "retry" /\ limit - clock - took > 0
    BY <2>1, <2>3
  <2>4. CASE outcome # "success" /\ ~(outcome = "retry" /\ limit - clock - took > 0)
    BY <2>1, <2>4
  <2> QED
    BY <2>2, <2>3, <2>4
<1>8. took \in Nat /\ clock + took \in Nat
  BY <1>4, <1>7, SmokeAssumption
<1>9. CASE at' \in {"further", "render"} /\ UNCHANGED <<waiting, waits>>
  <2>1. PollTypes'
    BY <1>1, <1>5, <1>7, <1>8, <1>9 DEF PollInv, PollTypes
  <2>2. DevicePace' /\ GatePace'
    BY <1>9 DEF DevicePace, GatePace
  <2> QED
    BY <1>2, <2>1, <2>2 DEF PollInv
<1>10. ASSUME NEW remaining, remaining = limit - clock - took, remaining > 0,
              waiting' = IF backoff < remaining THEN backoff ELSE remaining,
              waits' = Append(waits, [slowed |-> FALSE, units |-> waiting']), at' = "sleep"
       PROVE  PollInv'
  <2>1. waiting' \in Nat /\ waiting' <= remaining /\ (waiting' >= backoff \/ waiting' = remaining)
    BY <1>4, <1>6, <1>8, <1>10
  <2>2. waits' \in Seq(Waits)
    <3>1. [slowed |-> FALSE, units |-> waiting'] \in Waits
      BY <2>1 DEF Waits
    <3> QED
      BY <1>4, <1>10, <3>1, AppendProperties
  <2>3. PollTypes'
    BY <1>1, <1>5, <1>7, <1>8, <2>1, <2>2 DEF PollInv, PollTypes
  <2>4. clock' + waiting' <= limit'
    BY <1>1, <1>4, <1>7, <1>8, <1>10, <2>1
  <2>5. (clock' + waiting') - clock >= backoff \/ clock' + waiting' = limit'
    <3>1. PICK pause \in Nat : pause = waiting' /\ (pause >= backoff \/ pause = limit - clock - took)
      BY <1>10, <2>1
    <3>2. clock \in Nat /\ limit \in Nat /\ took \in Nat /\ backoff \in Nat
      BY <1>4, <1>6, <1>8
    <3>3. ((clock + took) + pause) - clock >= backoff \/ (clock + took) + pause = limit
      BY <3>1, <3>2, Pausing
    <3> QED
      BY <1>1, <1>7, <3>1, <3>3
  <2>6. Paced(clock + waiting)'
    <3>1. clock < limit
      BY <1>4, <1>8, <1>10
    <3>2. clock' + waiting' >= limit' \/ (clock' + waiting') - clock >= backoff
      BY <1>1, <1>4, <2>5
    <3> QED
      BY <1>1, <1>3, <1>5, <1>6, <3>1, <3>2 DEF Paced
  <2>7. DevicePace' /\ GatePace'
    BY <1>1, <1>5, <1>10, <2>4, <2>6 DEF DevicePace, GatePace
  <2> QED
    BY <1>2, <2>3, <2>7 DEF PollInv
<1> QED
  BY <1>7, <1>9, <1>10

\* Polling begins with nothing polled.
LEMMA NothingPolled ==
    /\ <<>> \in Seq(Nat) /\ <<>> \in Seq(Waits) /\ DOMAIN <<>> = {}
    /\ Len(<<>>) = 0 /\ SlowIn(<<>>, Len(<<>>)) = 0
<1>1. <<>> \in Seq(Nat) /\ <<>> \in Seq(Waits) /\ Len(<<>>) = 0
  BY EmptySeq
<1>2. DOMAIN <<>> = {}
  OBVIOUS
<1>3. SlowIn(<<>>, Len(<<>>)) = 0
  BY <1>1, SlowInEmpty
<1> QED
  BY <1>1, <1>2, <1>3

LEMMA NothingAdded == \A n \in Nat : n + 0 = n
  OBVIOUS

LEMMA PollsBegin ==
    ASSUME PollInv, flags' = flags, polls' = <<>>, waits' = <<>>,
           clock' \in Nat, limit' \in Nat, waiting' \in Nat, interval' \in [given : Nat, current : Nat],
           \/ at' \in {"names", "render"}
           \/ at' = "poll device" /\ ~flags.gate /\ interval'.current = interval'.given
    PROVE  PollInv'
<1>1. PollTypes' /\ AllKept'
  BY NothingPolled DEF PollInv, PollTypes, AllKept
<1>2. interval'.current = interval'.given => InForce'
  <2>1. interval'.given \in Nat
    OBVIOUS
  <2>2. interval'.given + 0 = interval'.given
    BY <2>1, NothingAdded
  <2>3. Len(waits') = 0 /\ SlowIn(waits', 0) = 0
    BY NothingPolled
  <2> QED
    BY <2>2, <2>3 DEF InForce
<1>3. CASE at' \in {"names", "render"}
  BY <1>1, <1>3 DEF PollInv, DevicePace, GatePace
<1>4. CASE at' = "poll device" /\ ~flags.gate /\ interval'.current = interval'.given
  BY <1>1, <1>2, <1>4, NothingPolled DEF PollInv, DevicePace, GatePace
<1> QED
  BY <1>3, <1>4

LEMMA PollStep ==
    ASSUME PollInv, [SmokeNext]_smokeVars
    PROVE  PollInv'
<1>1. CASE ScreenArguments
  <2>1. /\ at = "screen" /\ UNCHANGED <<flags, clock, limit, interval, waiting, polls, waits>>
        /\ \/ at' \in {"over", "acquire"}
           \/ at' = "device" /\ flags.phase = "full" /\ ~Unusable
    BY <1>1 DEF ScreenArguments, Quit, Proceed, pollVars
  <2>2. flags.phase = "full" /\ ~Unusable => ~flags.gate
    <3>1. flags.gate \in BOOLEAN
      BY FlagTypes DEF PollInv, PollTypes
    <3> QED
      BY <3>1 DEF Unusable
  <2> QED
    BY <2>1, <2>2, PollsStand
<1>2. CASE RequestDeviceCode
  <2>1. /\ at = "device" /\ UNCHANGED <<flags, clock, waiting, polls, waits>>
        /\ polls = <<>> /\ waits = <<>> /\ ~flags.gate
    BY <1>2 DEF RequestDeviceCode, PollInv, DevicePace
  <2>2. CASE at' = "render" /\ UNCHANGED <<interval, limit>>
    BY <2>1, <2>2, PollsStand
  <2>3. ASSUME NEW i \in Intervals, NEW lifetime \in Lifetimes,
               interval' = [given |-> i, current |-> i], limit' = clock + lifetime, at' = "poll device"
        PROVE  PollInv'
    <3>1. i \in Nat /\ lifetime \in Nat /\ clock \in Nat /\ waiting \in Nat
      BY <2>3, SmokeAssumption DEF PollInv, PollTypes
    <3>2. limit' \in Nat /\ clock' \in Nat /\ waiting' \in Nat /\ polls' = <<>> /\ waits' = <<>>
      <4>1. limit' = clock + lifetime
        BY <2>3
      <4>2. limit' \in Nat
        BY <3>1, <4>1
      <4> QED
        BY <2>1, <3>1, <4>2
    <3>3. interval' \in [given : Nat, current : Nat] /\ interval'.current = interval'.given
      BY <2>3, <3>1
    <3> QED
      BY <2>1, <2>3, <3>2, <3>3, PollsBegin
  <2> QED
    BY <1>2, <2>2, <2>3 DEF RequestDeviceCode, Proceed, PrerequisiteFails
<1>3. CASE AcquireAppToken
  <2>1. /\ flags' = flags /\ polls' = <<>> /\ waits' = <<>>
        /\ clock' = 0 /\ limit' = 0 /\ waiting' = 0 /\ interval' = [given |-> 0, current |-> 0]
        /\ at' \in {"names", "render"}
    BY <1>3 DEF AcquireAppToken, NoInterval, Proceed, PrerequisiteFails
  <2>2. interval' \in [given : Nat, current : Nat]
    BY <2>1
  <2> QED
    BY <2>1, <2>2, PollsBegin
<1>4. CASE ReadClaimNames
  <2>1. /\ at = "names" /\ UNCHANGED <<flags, clock, interval, waiting, polls, waits>> /\ polls = <<>>
        /\ \/ at' = "gate" /\ flags.gate /\ limit' = clock + flags.deadline
           \/ at' \in {"call", "render"} /\ limit' = limit
    BY <1>4 DEF ReadClaimNames, Proceed, PrerequisiteFails, PollInv, GatePace
  <2>2. CASE at' \in {"call", "render"} /\ limit' = limit
    BY <2>1, <2>2, PollsStand
  <2>3. CASE at' = "gate" /\ flags.gate /\ limit' = clock + flags.deadline
    <3>1. /\ clock \in Nat /\ flags.deadline \in Nat /\ waits \in Seq(Waits) /\ waiting \in Nat
          /\ interval \in [given : Nat, current : Nat]
      BY FlagTypes DEF PollInv, PollTypes
    <3>2. /\ limit' \in Nat /\ clock' = clock /\ clock' <= limit' + MaxOverslept
          /\ DOMAIN polls' = {} /\ polls' \in Seq(Nat)
      BY <2>1, <2>3, <3>1, SmokeAssumption
    <3>3. PollTypes' /\ AllKept'
      BY <2>1, <3>1, <3>2 DEF PollInv, PollTypes, AllKept
    <3> QED
      BY <2>1, <2>3, <3>2, <3>3 DEF PollInv, DevicePace, GatePace
  <2> QED
    BY <2>1, <2>2, <2>3
<1>5. CASE \/ DeviceCodeExpires \/ CheckFurther \/ CallService \/ JudgeStatus
           \/ CompareClaims \/ JudgeRejections \/ Render \/ UNCHANGED smokeVars
  <2>1. /\ UNCHANGED <<flags, clock, limit, interval, waiting, polls, waits>>
        /\ at' = at \/ at' \in {"render", "over", "compare"}
    BY <1>5
       DEF DeviceCodeExpires, CheckFurther, CallService, JudgeStatus, CompareClaims,
           JudgeRejections, Render, smokeVars, pollVars, callVars,
           Proceed, Quit, PrerequisiteFails
  <2> QED
    BY <2>1, PollsStand
<1> QED
  BY <1>1, <1>2, <1>3, <1>4, <1>5, PollDeviceKeeps, SleepKeeps, PollGateKeeps DEF SmokeNext

(* Polling keeps the peace for any interval and lifetime of the code, any  *)
(* deadline, however often slow_down comes, and however long sleeps take.  *)
THEOREM PollingBehaves == SmokeSpec => []PollsBehave
<1>1. SmokeInit => PollInv
  <2> SUFFICES ASSUME SmokeInit PROVE PollInv
    OBVIOUS
  <2>1. /\ DOMAIN polls = {} /\ polls \in Seq(Nat) /\ waits \in Seq(Waits)
        /\ interval \in [given : Nat, current : Nat]
    BY DEF SmokeInit, NoInterval
  <2> QED
    BY <2>1 DEF SmokeInit, PollInv, PollTypes, DevicePace, GatePace, AllKept
<1>2. PollInv /\ [SmokeNext]_smokeVars => PollInv'
  BY PollStep
<1>3. PollInv => PollsBehave
  <2> SUFFICES ASSUME PollInv PROVE PollsBehave
    OBVIOUS
  <2>1. ASSUME NEW n PROVE SlowDowns(n) = SlowIn(waits, n)
    BY DEF SlowDowns, SlowIn, Cardinality, Cardinality, IsFiniteSet, IsFiniteSet
  <2> QED
    BY <2>1 DEF PollInv, AllKept, Kept, PollsBehave, PollsBehave
<1> QED
  BY <1>1, <1>2, <1>3, PTL DEF SmokeSpec, smokeVars, smokeVars

-----------------------------------------------------------------------------
(* The list of checks of the smoke test (tools/entra_smoke.py).            *)

Cover(list) == UNION {list[n].about : n \in DOMAIN list}
Apart(list) == \A n, m \in DOMAIN list : n # m => list[n].about \cap list[m].about = {}

\* The checks of a list decide these topics, each of them once.
Decides(list, topics) == list \in Seq(Checks) /\ Apart(list) /\ Cover(list) = topics

LEMMA NothingDecided == Decides(<<>>, {})
<1>1. <<>> \in Seq(Checks) /\ DOMAIN <<>> = {}
  BY EmptySeq, LenProperties
<1> QED
  BY <1>1 DEF Decides, Apart, Cover

LEMMA CheckType ==
    ASSUME NEW topics \in SUBSET AllTopics, NEW passed \in BOOLEAN
    PROVE  Check(topics, passed) \in Checks
  BY DEF Check, Checks

LEMMA OneDecides ==
    ASSUME NEW topics \in SUBSET AllTopics, NEW passed \in BOOLEAN
    PROVE  Decides(<<Check(topics, passed)>>, topics)
<1> DEFINE check == Check(topics, passed)
           list == <<check>>
<1>1. check \in Checks /\ check.about = topics
  BY CheckType DEF Check
<1>2. list \in Seq(Checks) /\ DOMAIN list = {1} /\ list[1] = check
  <2> HIDE DEF check
  <2> QED
    BY <1>1
<1>3. Decides(list, topics)
  <2> HIDE DEF list
  <2> QED
    BY <1>1, <1>2 DEF Decides, Apart, Cover
<1> QED
  BY <1>3

LEMMA FirstDecides ==
    ASSUME NEW topics \in SUBSET AllTopics, NEW passed \in BOOLEAN
    PROVE  /\ Decides(Append(<<>>, Check(topics, passed)), topics)
           /\ Decides(<<>> \o <<Check(topics, passed)>>, topics)
           /\ Len(Append(<<>>, Check(topics, passed))) = 1
<1> DEFINE check == Check(topics, passed)
<1>1. Decides(<<check>>, topics)
  BY OneDecides
<1> HIDE DEF check
<1>2. Append(<<>>, check) = <<check>> /\ <<>> \o <<check>> = <<check>> /\ Len(<<check>>) = 1
  OBVIOUS
<1> QED
  BY <1>1, <1>2 DEF check

\* Lists that decide different things are joined.
LEMMA JoinedDecide ==
    ASSUME NEW list, NEW topics, NEW more, NEW others,
           Decides(list, topics), Decides(more, others), topics \cap others = {}
    PROVE  Decides(list \o more, topics \cup others)
<1> DEFINE both == list \o more
           k == Len(list)
<1>1. list \in Seq(Checks) /\ more \in Seq(Checks)
  BY DEF Decides
<1>2. /\ both \in Seq(Checks) /\ k \in Nat /\ Len(more) \in Nat /\ Len(both) = k + Len(more)
      /\ \A n \in 1 .. k + Len(more) : both[n] = IF n <= k THEN list[n] ELSE more[n - k]
  BY <1>1, ConcatProperties, LenProperties
<1>3. DOMAIN both = 1 .. k + Len(more) /\ DOMAIN list = 1 .. k /\ DOMAIN more = 1 .. Len(more)
  BY <1>1, <1>2, LenProperties
<1>4. /\ \A n \in DOMAIN both : n \in DOMAIN list \/ n - k \in DOMAIN more
      /\ \A n \in DOMAIN list : n \in DOMAIN both /\ both[n] = list[n]
      /\ \A n \in DOMAIN more : n + k \in DOMAIN both /\ both[n + k] = more[n]
      /\ \A n \in DOMAIN both : n \notin DOMAIN list => n - k \in DOMAIN more /\ both[n] = more[n - k]
  <2> HIDE DEF both, k
  <2> QED
    BY <1>2, <1>3
<1>5. /\ \A n \in DOMAIN list : list[n].about \subseteq topics
      /\ \A n \in DOMAIN more : more[n].about \subseteq others
  BY DEF Decides, Cover
<1>6. Cover(both) = topics \cup others
  <2> HIDE DEF both, k
  <2>1. ASSUME NEW topic \in Cover(both) PROVE topic \in topics \cup others
    <3>1. PICK n \in DOMAIN both : topic \in both[n].about
      BY DEF Cover
    <3> QED
      BY <3>1, <1>4, <1>5
  <2>2. ASSUME NEW topic \in topics PROVE topic \in Cover(both)
    <3>1. PICK n \in DOMAIN list : topic \in list[n].about
      BY DEF Decides, Cover
    <3> QED
      BY <3>1, <1>4 DEF Cover
  <2>3. ASSUME NEW topic \in others PROVE topic \in Cover(both)
    <3>1. PICK n \in DOMAIN more : topic \in more[n].about
      BY DEF Decides, Cover
    <3>2. n + k \in DOMAIN both /\ topic \in both[n + k].about
      BY <3>1, <1>4
    <3> QED
      BY <3>2 DEF Cover
  <2> QED
    BY <2>1, <2>2, <2>3
<1>7. Apart(both)
  <2> SUFFICES ASSUME NEW n \in DOMAIN both, NEW m \in DOMAIN both, n # m
               PROVE  both[n].about \cap both[m].about = {}
    BY DEF Apart
  <2>1. n \in Int /\ m \in Int /\ k \in Int
    BY <1>2, <1>3
  <2> HIDE DEF both, k
  <2>2. CASE n \in DOMAIN list /\ m \in DOMAIN list
    BY <2>2, <1>4 DEF Decides, Apart
  <2>3. CASE n \notin DOMAIN list /\ m \notin DOMAIN list
    <3>1. n - k # m - k
      BY <2>1
    <3> QED
      BY <2>3, <3>1, <1>4 DEF Decides, Apart
  <2>4. CASE n \in DOMAIN list /\ m \notin DOMAIN list
    BY <2>4, <1>4, <1>5
  <2>5. CASE n \notin DOMAIN list /\ m \in DOMAIN list
    BY <2>5, <1>4, <1>5
  <2> QED
    BY <2>2, <2>3, <2>4, <2>5
<1> QED
  BY <1>2, <1>6, <1>7 DEF Decides

LEMMA FurtherDecides ==
    ASSUME NEW list, NEW topics, NEW others \in SUBSET AllTopics, NEW passed \in BOOLEAN,
           Decides(list, topics), topics \cap others = {}
    PROVE  /\ Decides(Append(list, Check(others, passed)), topics \cup others)
           /\ Len(Append(list, Check(others, passed))) = Len(list) + 1
           /\ Append(list, Check(others, passed))[Len(list) + 1] = Check(others, passed)
<1> DEFINE check == Check(others, passed)
<1>1. list \in Seq(Checks) /\ check \in Checks /\ Decides(<<check>>, others)
  BY CheckType, OneDecides DEF Decides
<1> HIDE DEF check
<1>2. Append(list, check) = list \o <<check>>
  BY <1>1, AppendIsConcat
<1>3. Decides(list \o <<check>>, topics \cup others)
  BY <1>1, JoinedDecide
<1>4. Len(Append(list, check)) = Len(list) + 1 /\ Append(list, check)[Len(list) + 1] = check
  BY <1>1, AppendProperties
<1> QED
  BY <1>2, <1>3, <1>4 DEF check

LEMMA Pair ==
    ASSUME NEW a, NEW b
    PROVE  Append(<<a>>, b) = <<a, b>> /\ <<a>> \o <<b>> = <<a, b>>
<1>1. Append(<<a>>, b) \in Seq({a, b}) /\ <<a, b>> \in Seq({a, b})
  OBVIOUS
<1>2. Len(Append(<<a>>, b)) = 2 /\ Append(<<a>>, b)[1] = a /\ Append(<<a>>, b)[2] = b
  OBVIOUS
<1>3. \A i \in 1 .. 2 : Append(<<a>>, b)[i] = <<a, b>>[i]
  BY <1>2
<1>4. Append(<<a>>, b) = <<a, b>>
  BY <1>1, <1>2, <1>3, SeqEqual
<1>5. Append(<<a>>, b) = <<a>> \o <<b>>
  <2>1. <<a>> \in Seq({a, b}) /\ b \in {a, b}
    OBVIOUS
  <2> QED
    BY <2>1, AppendIsConcat
<1> QED
  BY <1>4, <1>5

\* Two or three checks that are told one by one.
LEMMA TwoDecide ==
    ASSUME NEW T \in SUBSET AllTopics, NEW U \in SUBSET AllTopics, T \cap U = {},
           NEW p \in BOOLEAN, NEW q \in BOOLEAN
    PROVE  Decides(<<Check(T, p), Check(U, q)>>, T \cup U)
<1> DEFINE a == Check(T, p)
           b == Check(U, q)
<1>1. Decides(<<a>>, T)
  BY OneDecides
<1>2. Decides(Append(<<a>>, b), T \cup U)
  BY <1>1, FurtherDecides
<1>3. Append(<<a>>, b) = <<a, b>>
  BY Pair
<1> QED
  BY <1>2, <1>3

LEMMA ThreeDecide ==
    ASSUME NEW T \in SUBSET AllTopics, NEW U \in SUBSET AllTopics, NEW V \in SUBSET AllTopics,
           T \cap U = {}, T \cap V = {}, U \cap V = {},
           NEW p \in BOOLEAN, NEW q \in BOOLEAN, NEW r \in BOOLEAN
    PROVE  Decides(<<Check(T, p), Check(U, q), Check(V, r)>>, T \cup U \cup V)
<1> DEFINE a == Check(T, p)
           b == Check(U, q)
           c == Check(V, r)
<1>1. Decides(<<a, b>>, T \cup U) /\ Decides(<<c>>, V)
  BY OneDecides, TwoDecide
<1>2. <<a, b, c>> = <<a, b>> \o <<c>>
  <2> HIDE DEF a, b, c
  <2> QED
    OBVIOUS
<1>3. (T \cup U) \cap V = {}
  OBVIOUS
<1> HIDE DEF a, b, c
<1>4. Decides(<<a, b>> \o <<c>>, (T \cup U) \cup V)
  BY <1>1, <1>3, JoinedDecide
<1> QED
  BY <1>2, <1>4 DEF a, b, c

-----------------------------------------------------------------------------
(* What each part of a run leaves in the list.                             *)

Statuses == {<<"delegated", "status">>, <<"app", "status">>}
FurtherTopics(n) == {<<Asked[i]>> : i \in 1 .. n}

Stopped == {<<"prerequisite">>}
\* A list that is rendered: whole, or it ends with the prerequisite that failed.
WholeList(list, required) ==
    /\ list \in Seq(Checks) /\ Apart(list)
    /\ Cover(list) \ Stopped \subseteq required
    /\ \/ Cover(list) = required
       \/ list # <<>> /\ list[Len(list)].about = Stopped /\ ~list[Len(list)].passed

\* The exit code and the file tell the list.
Told ==
    /\ verdict = "pass" =>
        /\ WholeList(checks, Required) /\ AllPassed
        /\ flags.evidence_out => evidence = <<TRUE, checks>>
    /\ verdict = "fail" /\ AllPassed => flags.evidence_out /\ evidence # <<TRUE, checks>>

ListInv ==
    /\ flags \in SmokeRuns
    /\ IF at = "over" THEN Told ELSE verdict = "running" /\ evidence = NoEvidence
    /\ at \in {"screen", "device", "poll device", "sleep", "acquire", "names", "gate"} => checks = <<>>
    /\ at = "gate" => flags.gate
    /\ at = "further" =>
        /\ flags.gate /\ Len(checks) \in 1 .. Len(Asked) + 1
        /\ Decides(checks, {<<"gate">>} \cup FurtherTopics(Len(checks) - 1))
    /\ at = "call" =>
        /\ ~flags.gate
        /\ Decides(checks, IF flags.phase = "no-role" THEN {<<"no role">>} ELSE {})
    /\ at = "compare" =>
        /\ ~flags.gate /\ flags.phase # "no-role"
        /\ \/ Decides(checks, Statuses)
           \/ Decides(checks, Statuses \cup Topics("delegated"))
           \/ Decides(checks, Statuses \cup Topics("delegated") \cup Topics("app"))
    /\ at = "render" => WholeList(checks, Required)

LEMMA RunTypes ==
    ASSUME flags \in SmokeRuns
    PROVE  /\ flags.gate \in BOOLEAN /\ flags.rag \in BOOLEAN /\ flags.agent \in BOOLEAN
           /\ flags.evidence_out \in BOOLEAN
  BY SmokeAssumption

LEMMA TopicTypes ==
    /\ Stopped \subseteq AllTopics /\ {<<"gate">>} \subseteq AllTopics
    /\ {<<"rag">>} \subseteq AllTopics /\ {<<"agent">>} \subseteq AllTopics
    /\ {<<"no role">>} \subseteq AllTopics
  BY DEF AllTopics, Stopped

LEMMA PairIn == \A A, B : \A a \in A, b \in B : <<a, b>> \in A \X B
  OBVIOUS

LEMMA LabelTopics ==
    ASSUME NEW label \in {"delegated", "app", "id token", "no token"},
           NEW what \in {"status", "code", "challenge", "claims", "log line", "role"}
    PROVE  {<<label, what>>} \subseteq AllTopics
<1> DEFINE A == {"delegated", "app", "id token", "no token"}
           B == {"status", "code", "challenge", "claims", "log line", "role"}
<1>1. <<label, what>> \in A \X B
  <2>1. label \in A /\ what \in B
    OBVIOUS
  <2> HIDE DEF A, B
  <2> QED
    BY <2>1, PairIn
<1>2. A \X B \subseteq AllTopics
  BY DEF AllTopics
<1> QED
  BY <1>1, <1>2

LEMMA PairsTellBoth == \A a, b, c, d : <<a, b>> = <<c, d>> <=> a = c /\ b = d
  OBVIOUS

LEMMA RejectionsDecide ==
    ASSUME NEW label \in {"delegated", "app", "id token", "no token"}, NEW answer, NEW expected
    PROVE  Decides(RejectionChecks(label, answer, expected), Rejections(label))
<1> DEFINE T == {<<label, "status">>}
           U == {<<label, "code">>}
           V == {<<label, "challenge">>}
           p == answer.status = expected.status
           q == ErrorCode(answer) = expected.content
           r == answer.challenge = expected.challenge
<1>1. T \subseteq AllTopics /\ U \subseteq AllTopics /\ V \subseteq AllTopics
  BY LabelTopics
<1>2. T \cap U = {} /\ T \cap V = {} /\ U \cap V = {}
  <2>1. /\ <<label, "status">> # <<label, "code">> /\ <<label, "status">> # <<label, "challenge">>
        /\ <<label, "code">> # <<label, "challenge">>
    BY PairsTellBoth
  <2> QED
    BY <2>1
<1>3. p \in BOOLEAN /\ q \in BOOLEAN /\ r \in BOOLEAN
  OBVIOUS
<1>4. T \cup U \cup V = Rejections(label)
  BY DEF Rejections
<1>5. RejectionChecks(label, answer, expected)
        = <<Check(T, p), Check(U, q), Check(V, r)>>
  BY DEF RejectionChecks, StatusCheck, ErrorCodeCheck, ChallengeCheck
<1> HIDE DEF T, U, V, p, q, r
<1>6. Decides(<<Check(T, p), Check(U, q), Check(V, r)>>, T \cup U \cup V)
  BY <1>1, <1>2, <1>3, ThreeDecide
<1> QED
  BY <1>4, <1>5, <1>6

LEMMA StatusesDecide ==
    ASSUME NEW p \in BOOLEAN, NEW q \in BOOLEAN
    PROVE  Decides(<<Check({<<"delegated", "status">>}, p), Check({<<"app", "status">>}, q)>>, Statuses)
<1>1. {<<"delegated", "status">>} \subseteq AllTopics /\ {<<"app", "status">>} \subseteq AllTopics
  BY LabelTopics
<1>2. {<<"delegated", "status">>} \cap {<<"app", "status">>} = {}
  OBVIOUS
<1>3. {<<"delegated", "status">>} \cup {<<"app", "status">>} = Statuses
  BY DEF Statuses
<1> QED
  BY <1>1, <1>2, <1>3, TwoDecide

\* Whatever the claims and the log say, one accepted token's checks are these.
LEMMA ClaimsDecide ==
    ASSUME NEW label \in {"delegated", "app"}, NEW token, NEW claims \in BOOLEAN, NEW joined \in BOOLEAN
    PROVE  Decides(Compare(label, token, claims, joined), Topics(label))
<1> DEFINE T == {<<label, "claims">>}
           U == {<<label, "log line">>}
           V == {<<label, "role">>}
           role == token.roles = "configured"
           pair == <<Check(T, claims), Check(U, joined)>>
<1>1. T \subseteq AllTopics /\ U \subseteq AllTopics /\ V \subseteq AllTopics
  BY LabelTopics
<1>2. T \cap U = {} /\ V \cap (T \cup U) = {} /\ role \in BOOLEAN
  OBVIOUS
<1>3. Compare(label, token, claims, joined)
        = (IF label = "app" THEN <<Check(V, role)>> ELSE <<>>) \o pair
  BY DEF Compare, RoleCheck
<1>4. Topics(label) = (T \cup U) \cup (IF label = "app" THEN V ELSE {})
  BY DEF Topics
<1> HIDE DEF T, U, V, role
<1>5. Decides(pair, T \cup U) /\ Decides(<<Check(V, role)>>, V)
  BY <1>1, <1>2, TwoDecide, OneDecides
<1> HIDE DEF pair
<1>6. Decides(<<Check(V, role)>> \o pair, V \cup (T \cup U))
  BY <1>2, <1>5, JoinedDecide
<1>7. Decides(<<>> \o pair, {} \cup (T \cup U))
  BY <1>5, NothingDecided, JoinedDecide
<1>8. CASE label = "app"
  <2>1. V \cup (T \cup U) = (T \cup U) \cup V
    OBVIOUS
  <2> QED
    BY <1>3, <1>4, <1>6, <1>8, <2>1
<1>9. CASE label # "app"
  <2>1. {} \cup (T \cup U) = (T \cup U) \cup {}
    OBVIOUS
  <2> QED
    BY <1>3, <1>4, <1>7, <1>9, <2>1
<1> QED
  BY <1>8, <1>9

\* The further checks of the gate: none of them is asked for twice.
LEMMA AskedIs ==
    /\ Asked \in Seq({"rag", "agent"})
    /\ \A n, m \in 1 .. Len(Asked) : n # m => Asked[n] # Asked[m]
    /\ DOMAIN Asked = 1 .. Len(Asked) /\ Len(Asked) \in Nat
<1>1. Asked \in {<<>>, <<"rag">>, <<"agent">>, <<"rag", "agent">>}
  <2>1. <<"rag">> \o <<"agent">> = <<"rag", "agent">>
    BY Pair
  <2>2. <<>> \o <<>> = <<>> /\ <<"rag">> \o <<>> = <<"rag">> /\ <<>> \o <<"agent">> = <<"agent">>
    OBVIOUS
  <2> QED
    BY <2>1, <2>2 DEF Asked
<1> DEFINE Good(list) ==
        /\ list \in Seq({"rag", "agent"})
        /\ \A n, m \in 1 .. Len(list) : n # m => list[n] # list[m]
<1>2. Good(<<>>) /\ Good(<<"rag">>) /\ Good(<<"agent">>) /\ Good(<<"rag", "agent">>)
  <2>1. Good(<<>>)
    BY EmptySeq
  <2>2. Good(<<"rag">>) /\ Good(<<"agent">>)
    OBVIOUS
  <2>3. Good(<<"rag", "agent">>)
    OBVIOUS
  <2> QED
    BY <2>1, <2>2, <2>3
<1>3. Good(Asked)
  <2> HIDE DEF Good
  <2> QED
    BY <1>1, <1>2
<1> QED
  BY <1>3, LenProperties

-----------------------------------------------------------------------------
(* Step by step.                                                           *)

\* Where a prerequisite fails, what was decided stays, and the list is whole.
LEMMA StoppedIsWhole ==
    ASSUME NEW list, NEW topics, NEW required,
           Decides(list, topics), topics \subseteq required, topics \cap Stopped = {}
    PROVE  WholeList(Append(list, Check(Stopped, FALSE)), required)
<1> DEFINE check == Check(Stopped, FALSE)
           longer == Append(list, check)
<1>1. /\ Decides(longer, topics \cup Stopped)
      /\ Len(longer) = Len(list) + 1 /\ longer[Len(list) + 1] = check
  BY TopicTypes, FurtherDecides
<1>2. longer # <<>>
  <2>1. list \in Seq(Checks)
    BY DEF Decides
  <2>2. Len(list) \in Nat /\ Len(<<>>) = 0
    BY <2>1, LenProperties, EmptySeq
  <2> HIDE DEF longer
  <2> QED
    BY <1>1, <2>2
<1>3. check.about = Stopped /\ ~check.passed
  BY DEF Check
<1> HIDE DEF longer, check
<1>4. longer \in Seq(Checks) /\ Apart(longer) /\ Cover(longer) = topics \cup Stopped
  BY <1>1 DEF Decides
<1>5. longer[Len(longer)] = check
  BY <1>1
<1>6. WholeList(longer, required)
  BY <1>2, <1>3, <1>4, <1>5 DEF WholeList
<1> QED
  BY <1>6 DEF longer, check

LEMMA WholeWhenDecided ==
    ASSUME NEW list, NEW required, Decides(list, required)
    PROVE  WholeList(list, required)
  BY DEF Decides, WholeList

\* What is decided in a part is required, and is no prerequisite.
LEMMA GateRequires ==
    ASSUME flags.gate, NEW n \in 0 .. Len(Asked)
    PROVE  /\ {<<"gate">>} \cup FurtherTopics(n) \subseteq Required
           /\ n = Len(Asked) => {<<"gate">>} \cup FurtherTopics(n) = Required
           /\ ({<<"gate">>} \cup FurtherTopics(n)) \cap Stopped = {}
           /\ \A m \in 1 .. Len(Asked) :
                m > n => <<Asked[m]>> \notin {<<"gate">>} \cup FurtherTopics(n)
<1>1. /\ 1 .. n \subseteq 1 .. Len(Asked) /\ DOMAIN Asked = 1 .. Len(Asked)
      /\ \A i \in 1 .. Len(Asked) : Asked[i] \in {"rag", "agent"}
  BY AskedIs
<1>2. Required = {<<"gate">>} \cup FurtherTopics(Len(Asked))
  BY <1>1 DEF Required, FurtherTopics
<1>3. \A a, b : <<a>> = <<b>> => a = b
  OBVIOUS
<1>4. ({<<"gate">>} \cup FurtherTopics(n)) \cap Stopped = {}
  BY <1>1, <1>3 DEF FurtherTopics, Stopped
<1>5. ASSUME NEW m \in 1 .. Len(Asked), m > n
      PROVE  <<Asked[m]>> \notin {<<"gate">>} \cup FurtherTopics(n)
  <2>1. \A i \in 1 .. n : i \in 1 .. Len(Asked) /\ i # m
    BY <1>5, AskedIs
  <2>2. \A i \in 1 .. n : Asked[i] # Asked[m]
    BY <2>1, AskedIs
  <2>3. Asked[m] # "gate"
    BY <1>1
  <2> QED
    BY <2>2, <2>3, <1>3 DEF FurtherTopics
<1> QED
  BY <1>1, <1>2, <1>4, <1>5 DEF FurtherTopics

LEMMA PhaseRequires ==
    ASSUME ~flags.gate
    PROVE  /\ flags.phase = "no-role" => Required = {<<"no role">>} \cup Rejections("app")
           /\ flags.phase # "no-role" =>
                Required = Statuses \cup Topics("delegated") \cup Topics("app")
                                   \cup Rejections("id token") \cup Rejections("no token")
  BY DEF Required, Statuses

LEMMA TopicsApart ==
    /\ {<<"no role">>} \cap Rejections("app") = {}
    /\ Statuses \cap Topics("delegated") = {}
    /\ (Statuses \cup Topics("delegated")) \cap Topics("app") = {}
    /\ (Statuses \cup Topics("delegated") \cup Topics("app")) \cap Rejections("id token") = {}
    /\ (Statuses \cup Topics("delegated") \cup Topics("app") \cup Rejections("id token"))
          \cap Rejections("no token") = {}
    /\ (Statuses \cup Topics("delegated") \cup Topics("app")) \cap Stopped = {}
    /\ {<<"no role">>} \cap Stopped = {}
<1>1. \A a, b, c : <<a, b>> # <<c>>
  OBVIOUS
<1> QED
  BY <1>1, PairsTellBoth DEF Statuses, Stopped, Topics, Rejections

Early == {"screen", "device", "poll device", "sleep", "acquire", "names", "gate"}

\* The step that ends a part goes on to render a whole list,
LEMMA RenderNext ==
    ASSUME ListInv, at # "over", at' = "render", UNCHANGED <<verdict, flags, evidence>>,
           WholeList(checks', Required)
    PROVE  ListInv'
<1>1. Required' = Required
  BY DEF Required, Asked
<1> QED
  BY <1>1 DEF ListInv

\* as it does where a prerequisite fails.
LEMMA StopNext ==
    ASSUME ListInv, at # "over", PrerequisiteFails, UNCHANGED <<flags, evidence>>,
           NEW topics, Decides(checks, topics), topics \subseteq Required, topics \cap Stopped = {}
    PROVE  ListInv'
<1>1. /\ at' = "render" /\ UNCHANGED verdict
      /\ checks' = Append(checks, Check(Stopped, FALSE))
  BY DEF PrerequisiteFails, Proceed, Stopped
<1> QED
  BY <1>1, StoppedIsWhole, RenderNext

\* As long as nothing is decided, and
LEMMA EarlyNext ==
    ASSUME ListInv, at \in Early, at' \in Early, UNCHANGED <<verdict, flags, evidence, checks>>,
           at' = "gate" => flags.gate
    PROVE  ListInv'
  BY DEF ListInv, Early

LEMMA EarlyStop ==
    ASSUME ListInv, at \in Early, PrerequisiteFails, UNCHANGED <<flags, evidence>>
    PROVE  ListInv'
<1>1. checks = <<>> /\ at # "over"
  BY DEF ListInv, Early
<1>2. Decides(checks, {})
  BY <1>1, NothingDecided
<1> QED
  BY <1>1, <1>2, StopNext

LEMMA NamesNext ==
    ASSUME ListInv, ReadClaimNames
    PROVE  ListInv'
<1>1. at = "names" /\ at \in Early /\ UNCHANGED <<flags, evidence>>
  BY DEF ReadClaimNames, Early
<1>2. CASE PrerequisiteFails
  BY <1>1, <1>2, EarlyStop
<1>3. CASE flags.gate /\ Proceed("gate") /\ UNCHANGED checks
  BY <1>1, <1>3, EarlyNext DEF Proceed, Early
<1>4. ASSUME ~flags.gate, Proceed("call"),
             checks' = IF flags.phase = "no-role"
                       THEN Append(checks, Check({<<"no role">>}, RoleAbsent(AppToken))) ELSE checks
      PROVE  ListInv'
  <2>1. checks = <<>> /\ Decides(checks, {})
    BY <1>1, NothingDecided DEF ListInv
  <2>2. RoleAbsent(AppToken) \in BOOLEAN
    BY DEF RoleAbsent
  <2>3. Decides(Append(checks, Check({<<"no role">>}, RoleAbsent(AppToken))), {<<"no role">>})
    BY <2>1, <2>2, TopicTypes, FirstDecides
  <2>4. Decides(checks', IF flags.phase = "no-role" THEN {<<"no role">>} ELSE {})
    BY <1>4, <2>1, <2>3
  <2> QED
    BY <1>1, <1>4, <2>4 DEF ListInv, Proceed
<1> QED
  BY <1>2, <1>3, <1>4 DEF ReadClaimNames

LEMMA MapIsSeq ==
    ASSUME NEW n \in Nat, NEW S, NEW f \in [1 .. n -> S]
    PROVE  f \in Seq(S)
  OBVIOUS

\* The gate goes on with what it is asked for further,
LEMMA FurtherNext ==
    ASSUME ListInv, at # "over", at' = "further", flags.gate, UNCHANGED <<verdict, flags, evidence>>,
           Len(checks') \in 1 .. Len(Asked) + 1,
           Decides(checks', {<<"gate">>} \cup FurtherTopics(Len(checks') - 1))
    PROVE  ListInv'
<1>1. Asked' = Asked
  BY DEF Asked
<1>2. (Len(checks) \in 1 .. Len(Asked) + 1)'
  BY <1>1
<1>3. Decides(checks, {<<"gate">>} \cup FurtherTopics(Len(checks) - 1))'
  BY <1>1 DEF FurtherTopics
<1> QED
  BY <1>2, <1>3 DEF ListInv

LEMMA GateNext ==
    ASSUME ListInv, PollGate
    PROVE  ListInv'
<1>1. at = "gate" /\ at \in Early /\ flags.gate /\ checks = <<>> /\ UNCHANGED <<flags, evidence>>
  BY DEF PollGate, Early, ListInv
<1>2. \/ checks' = Append(checks, Check({<<"gate">>}, TRUE)) /\ Proceed("further")
      \/ Proceed("sleep") /\ UNCHANGED checks
      \/ GateFails
  BY DEF PollGate
<1>3. Decides(checks, {})
  BY <1>1, NothingDecided
<1>4. CASE checks' = Append(checks, Check({<<"gate">>}, TRUE)) /\ Proceed("further")
  <2>1. Decides(checks', {<<"gate">>}) /\ Len(checks') = 1
    BY <1>1, <1>4, TopicTypes, FirstDecides
  <2>2. FurtherTopics(Len(checks') - 1) = {}
    BY <2>1 DEF FurtherTopics
  <2>3. Decides(checks', {<<"gate">>} \cup FurtherTopics(Len(checks') - 1))
    BY <2>1, <2>2
  <2>4. Len(checks') \in 1 .. Len(Asked) + 1
    BY <2>1, AskedIs
  <2> QED
    BY <1>1, <1>4, <2>3, <2>4, FurtherNext DEF Proceed
<1>5. CASE Proceed("sleep") /\ UNCHANGED checks
  BY <1>1, <1>5, EarlyNext DEF Proceed, Early
<1>6. CASE GateFails
  <2> DEFINE gate == <<Check({<<"gate">>}, FALSE)>>
             k == Len(Asked)
  <2>1. checks' = (checks \o gate) \o NotEvaluated /\ at' = "render" /\ UNCHANGED verdict
    BY <1>6 DEF GateFails, Proceed
  <2>2. Decides(checks \o gate, {<<"gate">>})
    BY <1>1, TopicTypes, FirstDecides
  <2>3. Decides(NotEvaluated, FurtherTopics(k))
    <3> DEFINE rest == NotEvaluated
    <3>1. rest = [n \in 1 .. k |-> Check({<<Asked[n]>>}, FALSE)] /\ k \in Nat
      BY AskedIs DEF NotEvaluated
    <3>2. \A n \in 1 .. k : /\ Check({<<Asked[n]>>}, FALSE) \in Checks
                            /\ Check({<<Asked[n]>>}, FALSE).about = {<<Asked[n]>>}
      <4> SUFFICES ASSUME NEW n \in 1 .. k
                   PROVE  /\ Check({<<Asked[n]>>}, FALSE) \in Checks
                          /\ Check({<<Asked[n]>>}, FALSE).about = {<<Asked[n]>>}
        OBVIOUS
      <4>1. Asked[n] \in {"rag", "agent"}
        BY AskedIs
      <4>2. {<<Asked[n]>>} \subseteq AllTopics
        BY <4>1, TopicTypes
      <4> QED
        BY <4>2, CheckType DEF Check
    <3>3. DOMAIN rest = 1 .. k /\ \A n \in 1 .. k : rest[n] \in Checks /\ rest[n].about = {<<Asked[n]>>}
      BY <3>1, <3>2
    <3>4. rest \in Seq(Checks)
      <4>1. k \in Nat /\ \A n \in 1 .. k : Check({<<Asked[n]>>}, FALSE) \in Checks
        BY <3>1, <3>2
      <4> HIDE DEF k
      <4>2. [n \in 1 .. k |-> Check({<<Asked[n]>>}, FALSE)] \in [1 .. k -> Checks]
        BY <4>1
      <4>3. [n \in 1 .. k |-> Check({<<Asked[n]>>}, FALSE)] \in Seq(Checks)
        BY <4>1, <4>2, MapIsSeq
      <4> QED
        BY <3>1, <4>3
    <3> HIDE DEF rest
    <3>5. Cover(rest) = FurtherTopics(k)
      BY <3>3 DEF Cover, FurtherTopics
    <3>6. Apart(rest)
      <4>1. \A a, b : a # b => {<<a>>} \cap {<<b>>} = {}
        OBVIOUS
      <4> QED
        BY <3>3, <4>1, AskedIs DEF Apart
    <3> QED
      BY <3>4, <3>5, <3>6 DEF Decides, rest
  <2>4. k \in 0 .. k
    BY AskedIs
  <2>5. {<<"gate">>} \cup FurtherTopics(k) = Required /\ {<<"gate">>} \cap FurtherTopics(k) = {}
    <3>1. {<<"gate">>} \cup FurtherTopics(k) = Required
      BY <1>1, <2>4, GateRequires
    <3>2. \A i \in 1 .. k : Asked[i] # "gate"
      BY AskedIs
    <3>3. \A a, b : <<a>> = <<b>> => a = b
      OBVIOUS
    <3> QED
      BY <3>1, <3>2, <3>3 DEF FurtherTopics
  <2>6. Decides(checks', Required)
    <3> HIDE DEF gate, k
    <3> QED
      BY <2>1, <2>2, <2>3, <2>5, JoinedDecide
  <2> QED
    BY <1>1, <2>1, <2>6, WholeWhenDecided, RenderNext
<1> QED
  BY <1>2, <1>4, <1>5, <1>6

LEMMA FurtherStep ==
    ASSUME ListInv, CheckFurther
    PROVE  ListInv'
<1> DEFINE done == Len(checks) - 1
           k == Len(Asked)
           topics == {<<"gate">>} \cup FurtherTopics(done)
<1>1. /\ at = "further" /\ flags.gate /\ UNCHANGED <<flags, evidence>>
      /\ Len(checks) \in 1 .. k + 1 /\ k \in Nat
      /\ Decides(checks, topics)
  BY AskedIs DEF CheckFurther, ListInv
<1>2. done \in 0 .. k /\ Len(checks) = done + 1
  <2>1. Len(checks) \in 1 .. k + 1 /\ k \in Nat
    BY <1>1
  <2> HIDE DEF k
  <2> QED
    BY <2>1
<1>3. CASE done = k /\ Proceed("render") /\ UNCHANGED checks
  <2>1. topics = Required
    BY <1>1, <1>2, <1>3, GateRequires
  <2>2. WholeList(checks', Required)
    BY <1>1, <1>3, <2>1, WholeWhenDecided
  <2> QED
    BY <1>1, <1>3, <2>2, RenderNext DEF Proceed
<1>4. ASSUME done # k, UNCHANGED <<at, verdict>>, NEW answer,
             checks' = Append(checks, Check({<<Asked[done + 1]>>},
                           Successful(answer) /\ (Asked[done + 1] = "rag" => answer.content = "sources")))
      PROVE  ListInv'
  <2> DEFINE topic == <<Asked[done + 1]>>
             passed == Successful(answer) /\ (Asked[done + 1] = "rag" => answer.content = "sources")
  <2>1. done \in 0 .. k /\ done + 1 \in 1 .. k /\ done + 1 > done
    <3>1. done # k /\ done \in 0 .. k /\ k \in Nat
      BY <1>1, <1>2, <1>4
    <3> HIDE DEF done, k
    <3> QED
      BY <3>1
  <2>2. Asked[done + 1] \in {"rag", "agent"}
    BY <2>1, AskedIs
  <2>3. {topic} \subseteq AllTopics
    BY <2>2, TopicTypes
  <2>4. passed \in BOOLEAN
    BY DEF Successful
  <2>5. topics \cap {topic} = {}
    BY <1>1, <2>1, GateRequires
  <2> HIDE DEF topic, passed
  <2>6. checks' = Append(checks, Check({topic}, passed))
    BY <1>4 DEF topic, passed
  <2>7. Decides(checks', topics \cup {topic}) /\ Len(checks') = Len(checks) + 1
    <3> HIDE DEF topics
    <3> QED
      BY <1>1, <2>3, <2>4, <2>5, <2>6, FurtherDecides
  <2>8. Len(checks') - 1 = done + 1 /\ Len(checks') \in 1 .. k + 1
    <3>1. Len(checks') = done + 2
      BY <1>2, <2>7
    <3> HIDE DEF done, k
    <3> QED
      BY <1>1, <2>1, <3>1
  <2>9. topics \cup {topic} = {<<"gate">>} \cup FurtherTopics(Len(checks') - 1)
    <3>1. 1 .. done + 1 = (1 .. done) \cup {done + 1}
      <4>1. done \in Nat
        BY <1>1, <2>1
      <4> HIDE DEF done
      <4> QED
        BY <4>1
    <3>2. FurtherTopics(done + 1) = FurtherTopics(done) \cup {topic}
      BY <3>1 DEF FurtherTopics, topic
    <3> QED
      BY <2>8, <3>2
  <2> QED
    BY <1>1, <1>4, <2>7, <2>8, <2>9, FurtherNext
<1>5. CASE Proceed("render") /\ checks' = <<Check({<<"prerequisite">>}, FALSE)>>
  <2> DEFINE check == Check(Stopped, FALSE)
  <2>1. check.about = Stopped /\ ~check.passed /\ Decides(<<check>>, Stopped)
    BY TopicTypes, OneDecides DEF Check
  <2>2. checks' = <<check>>
    BY <1>5 DEF Stopped
  <2> HIDE DEF check
  <2>3. <<check>> # <<>> /\ <<check>>[Len(<<check>>)] = check
    OBVIOUS
  <2>4. WholeList(checks', Required)
    BY <2>1, <2>2, <2>3 DEF WholeList, Decides
  <2> QED
    BY <1>1, <1>5, <2>4, RenderNext DEF Proceed
<1> QED
  BY <1>3, <1>4, <1>5 DEF CheckFurther

LEMMA CallNext ==
    ASSUME ListInv, CallService
    PROVE  ListInv'
<1> DEFINE topics == IF flags.phase = "no-role" THEN {<<"no role">>} ELSE {}
<1>1. at = "call" /\ UNCHANGED <<flags, evidence>> /\ ~flags.gate /\ Decides(checks, topics)
  BY DEF CallService, ListInv
<1>2. CASE UNCHANGED <<at, verdict, checks>>
  BY <1>1, <1>2 DEF ListInv
<1>3. CASE PrerequisiteFails
  <2>1. topics \subseteq Required /\ topics \cap Stopped = {}
    BY <1>1, PhaseRequires, TopicsApart
  <2> QED
    BY <1>1, <1>3, <2>1, StopNext
<1> QED
  BY <1>2, <1>3 DEF CallService

LEMMA JudgeNext ==
    ASSUME ListInv, JudgeStatus
    PROVE  ListInv'
<1>1. at = "call" /\ UNCHANGED <<flags, evidence>> /\ ~flags.gate
  BY DEF JudgeStatus, ListInv
<1>2. CASE flags.phase = "no-role"
  <2> DEFINE more == RejectionChecks("app", answers[1], InsufficientScope)
  <2>1. Decides(checks, {<<"no role">>}) /\ at' = "render" /\ UNCHANGED verdict /\ checks' = checks \o more
    BY <1>1, <1>2 DEF JudgeStatus, Proceed, ListInv
  <2>2. Decides(more, Rejections("app"))
    BY RejectionsDecide
  <2> HIDE DEF more
  <2>3. Decides(checks', {<<"no role">>} \cup Rejections("app"))
    BY <2>1, <2>2, TopicsApart, JoinedDecide
  <2>4. Decides(checks', Required)
    BY <1>1, <1>2, <2>3, PhaseRequires
  <2> QED
    BY <1>1, <2>1, <2>4, WholeWhenDecided, RenderNext
<1>3. CASE flags.phase # "no-role"
  <2> DEFINE p == answers[1].status = 200
             q == answers[2].status = 200
             a == Check({<<"delegated", "status">>}, p)
             b == Check({<<"app", "status">>}, q)
             pair == [n \in 1 .. 2 |-> StatusCheck(Labels[n], answers[n], 200)]
  <2>1. /\ Decides(checks, {}) /\ at' = "compare" /\ UNCHANGED verdict
        /\ checks' = checks \o pair
    BY <1>1, <1>3 DEF JudgeStatus, Proceed, ListInv
  <2>2. pair = <<a, b>>
    <3>1. Labels[1] = "delegated" /\ Labels[2] = "app"
      BY <1>3 DEF Labels
    <3>2. pair[1] = a /\ pair[2] = b /\ pair = [n \in 1 .. 2 |-> pair[n]]
      BY <3>1 DEF StatusCheck
    <3> HIDE DEF pair, a, b
    <3>3. pair = [n \in 1 .. 2 |-> IF n = 1 THEN a ELSE b]
      BY <3>2
    <3> QED
      BY <3>3
  <2>3. Decides(pair, Statuses)
    <3>1. p \in BOOLEAN /\ q \in BOOLEAN
      OBVIOUS
    <3> HIDE DEF p, q, pair
    <3> QED
      BY <2>2, <3>1, StatusesDecide
  <2> HIDE DEF pair
  <2>4. Decides(checks', Statuses)
    <3>1. {} \cap Statuses = {} /\ {} \cup Statuses = Statuses
      OBVIOUS
    <3>2. Decides(checks \o pair, {} \cup Statuses)
      BY <2>1, <2>3, <3>1, JoinedDecide
    <3> QED
      BY <2>1, <3>1, <3>2
  <2> QED
    BY <1>1, <1>3, <2>1, <2>4 DEF ListInv
<1> QED
  BY <1>2, <1>3

\* Whose claims are still to be compared.
LEMMA UncomparedIs ==
    ASSUME flags.phase # "no-role", NEW topics, Decides(checks, topics)
    PROVE  Uncompared = {n \in 1 .. 2 : <<<<"delegated", "app">>[n], "log line">> \notin topics}
<1>1. Compared = <<"delegated", "app">> /\ DOMAIN Compared = 1 .. 2
  BY DEF Compared
<1>2. \A topic : (\A k \in DOMAIN checks : topic \notin checks[k].about) <=> topic \notin topics
  BY DEF Decides, Cover
<1> QED
  BY <1>1, <1>2 DEF Uncompared

LEMMA FirstOf ==
    /\ Min({1, 2}) = 1
    /\ Min({2}) = 2
  BY DEF Min

LEMMA WhoIsNext ==
    ASSUME flags.phase # "no-role"
    PROVE  /\ Decides(checks, Statuses) => Uncompared = {1, 2}
           /\ Decides(checks, Statuses \cup Topics("delegated")) => Uncompared = {2}
           /\ Decides(checks, Statuses \cup Topics("delegated") \cup Topics("app"))
                => Uncompared = {}
<1> DEFINE line(n) == <<<<"delegated", "app">>[n], "log line">>
<1>1. line(1) = <<"delegated", "log line">> /\ line(2) = <<"app", "log line">>
  OBVIOUS
<1>2. /\ line(1) \notin Statuses /\ line(2) \notin Statuses
      /\ line(1) \in Topics("delegated") /\ line(2) \notin Topics("delegated")
      /\ line(2) \in Topics("app")
  BY <1>1, PairsTellBoth DEF Statuses, Topics
<1>3. 1 .. 2 = {1, 2}
  OBVIOUS
<1>4. \A topics : Decides(checks, topics) => Uncompared = {n \in 1 .. 2 : line(n) \notin topics}
  BY UncomparedIs
<1> HIDE DEF line
<1> QED
  BY <1>2, <1>3, <1>4

\* One token's claims are compared, those of label: what was decided is topics.
LEMMA CompareNext ==
    ASSUME ListInv, CompareClaims, NEW label \in {"delegated", "app"}, NEW topics,
           flags.phase # "no-role", Decides(checks, topics),
           Compared[Min(Uncompared)] = label,
           topics \cap Topics(label) = {}, topics \cap Stopped = {}, topics \subseteq Required
    PROVE  \/ ListInv'
           \/ /\ Decides(checks', topics \cup Topics(label))
              /\ at' = "compare" /\ UNCHANGED <<verdict, flags, evidence>>
<1>1. at = "compare" /\ UNCHANGED <<flags, evidence>>
  BY DEF CompareClaims
<1>2. /\ UNCHANGED <<at, verdict>>
      /\ \/ checks' = checks \o <<Check(Topics(label), FALSE)>>
         \/ \E token : \E claims, joined \in BOOLEAN :
              checks' = checks \o Compare(label, token, claims, joined)
         \/ UNCHANGED checks
      \/ PrerequisiteFails
  BY DEF CompareClaims
<1>3. CASE UNCHANGED <<at, verdict, checks>>
  BY <1>1, <1>3 DEF ListInv
<1>4. CASE PrerequisiteFails
  BY <1>1, <1>4, StopNext
<1>5. CASE UNCHANGED <<at, verdict>> /\ checks' = checks \o <<Check(Topics(label), FALSE)>>
  <2>1. Topics(label) \subseteq AllTopics
    <3>1. /\ {<<label, "claims">>} \subseteq AllTopics /\ {<<label, "log line">>} \subseteq AllTopics
          /\ {<<label, "role">>} \subseteq AllTopics
      BY LabelTopics
    <3> QED
      BY <3>1 DEF Topics
  <2>2. Decides(<<Check(Topics(label), FALSE)>>, Topics(label))
    BY <2>1, OneDecides
  <2> QED
    BY <1>1, <1>5, <2>2, JoinedDecide
<1>6. ASSUME UNCHANGED <<at, verdict>>, NEW token, NEW claims \in BOOLEAN, NEW joined \in BOOLEAN,
             checks' = checks \o Compare(label, token, claims, joined)
      PROVE  Decides(checks', topics \cup Topics(label))
  <2>1. Decides(Compare(label, token, claims, joined), Topics(label))
    BY ClaimsDecide
  <2> QED
    BY <1>6, <2>1, JoinedDecide
<1> QED
  BY <1>1, <1>2, <1>3, <1>4, <1>5, <1>6

LEMMA ClaimsStep ==
    ASSUME ListInv, CompareClaims
    PROVE  ListInv'
<1> DEFINE first == Topics("delegated")
           second == Topics("app")
<1>1. /\ at = "compare" /\ Uncompared # {} /\ ~flags.gate /\ flags.phase # "no-role"
      /\ \/ Decides(checks, Statuses)
         \/ Decides(checks, Statuses \cup first)
         \/ Decides(checks, Statuses \cup first \cup second)
  BY DEF CompareClaims, ListInv
<1>2. Compared[1] = "delegated" /\ Compared[2] = "app"
  BY <1>1 DEF Compared
<1>3. /\ Statuses \cup first \subseteq Required
      /\ Statuses \cap Stopped = {} /\ (Statuses \cup first) \cap Stopped = {}
      /\ Statuses \cap first = {} /\ (Statuses \cup first) \cap second = {}
  BY <1>1, PhaseRequires, TopicsApart
<1>4. \/ Decides(checks, Statuses) /\ Compared[Min(Uncompared)] = "delegated"
      \/ Decides(checks, Statuses \cup first) /\ Compared[Min(Uncompared)] = "app"
  BY <1>1, <1>2, WhoIsNext, FirstOf
<1> HIDE DEF first, second
<1>5. \/ ListInv'
      \/ /\ at' = "compare" /\ UNCHANGED <<verdict, flags, evidence>>
         /\ \/ Decides(checks', Statuses \cup first)
            \/ Decides(checks', Statuses \cup first \cup second)
  <2>1. CASE Decides(checks, Statuses) /\ Compared[Min(Uncompared)] = "delegated"
    <3>1. Statuses \subseteq Required
      BY <1>3
    <3> QED
      BY <1>1, <1>3, <2>1, <3>1, CompareNext DEF first
  <2>2. CASE Decides(checks, Statuses \cup first) /\ Compared[Min(Uncompared)] = "app"
    BY <1>1, <1>3, <2>2, CompareNext DEF second
  <2> QED
    BY <1>4, <2>1, <2>2
<1> QED
  BY <1>1, <1>5 DEF ListInv, first, second

LEMMA RejectionsNext ==
    ASSUME ListInv, JudgeRejections
    PROVE  ListInv'
<1> DEFINE topics == Statuses \cup Topics("delegated") \cup Topics("app")
           one == RejectionChecks("id token", answers[3], Unauthorized)
           two == RejectionChecks("no token", answers[4], Unauthorized)
           R == Rejections("id token")
           S == Rejections("no token")
<1>1. /\ at = "compare" /\ Uncompared = {} /\ ~flags.gate /\ flags.phase # "no-role"
      /\ at' = "render" /\ UNCHANGED <<verdict, flags, evidence>>
      /\ checks' = (checks \o one) \o two
  BY DEF JudgeRejections, Proceed, ListInv
<1>2. Decides(checks, topics)
  <2>1. {1, 2} # {} /\ {2} # {}
    OBVIOUS
  <2> QED
    BY <1>1, <2>1, WhoIsNext DEF ListInv
<1>3. topics \cap R = {} /\ (topics \cup R) \cap S = {} /\ topics \cup R \cup S = Required
  BY <1>1, TopicsApart, PhaseRequires
<1>4. Decides(one, R) /\ Decides(two, S)
  BY RejectionsDecide
<1> HIDE DEF topics, one, two, R, S
<1>5. Decides(checks \o one, topics \cup R)
  BY <1>2, <1>3, <1>4, JoinedDecide
<1>6. Decides((checks \o one) \o two, (topics \cup R) \cup S)
  BY <1>3, <1>4, <1>5, JoinedDecide
<1>7. Decides(checks', Required)
  BY <1>1, <1>3, <1>6
<1> QED
  BY <1>1, <1>7, WholeWhenDecided, RenderNext

\* Files that do not tell the list.
LEMMA OtherFiles ==
    ASSUME NEW list \in Seq(Checks)
    PROVE  NoEvidence # <<TRUE, list>> /\ <<"partial">> # <<TRUE, list>>
<1>1. <<TRUE, list>> \in BOOLEAN \X Seq(Checks)
  BY PairIn
<1>2. \A a, b, c : <<a>> # <<b, c>>
  OBVIOUS
<1> QED
  BY <1>1, <1>2, SmokeAssumption

LEMMA RenderStep ==
    ASSUME ListInv, Render
    PROVE  ListInv'
<1>1. /\ at = "render" /\ at' = "over" /\ UNCHANGED <<flags, checks>> /\ evidence = NoEvidence
      /\ WholeList(checks, Required) /\ checks \in Seq(Checks) /\ flags \in SmokeRuns
  BY DEF Render, Quit, ListInv, WholeList
<1>2. Required' = Required /\ AllPassed' = AllPassed
  BY <1>1 DEF Required, Asked, AllPassed
<1>3. NoEvidence # <<TRUE, checks>> /\ <<"partial">> # <<TRUE, checks>>
  BY <1>1, OtherFiles
<1>4. CASE flags.evidence_out /\ verdict' = "fail" /\ evidence' \in {evidence, <<"partial">>}
  BY <1>1, <1>2, <1>3, <1>4 DEF ListInv, Told
<1>5. CASE /\ evidence' = IF flags.evidence_out THEN <<AllPassed, checks>> ELSE evidence
           /\ verdict' = IF AllPassed THEN "pass" ELSE "fail"
  <2>1. CASE AllPassed
    <3>1. flags.evidence_out => evidence' = <<TRUE, checks>>
      <4>1. AllPassed \in BOOLEAN
        BY DEF AllPassed
      <4>2. AllPassed = TRUE
        BY <2>1, <4>1
      <4> QED
        BY <1>5, <4>2
    <3> QED
      BY <1>1, <1>2, <1>5, <2>1, <3>1 DEF ListInv, Told
  <2>2. CASE ~AllPassed
    BY <1>1, <1>2, <1>5, <2>2 DEF ListInv, Told
  <2> QED
    BY <2>1, <2>2
<1> QED
  BY <1>4, <1>5 DEF Render, Quit

LEMMA ListStep ==
    ASSUME ListInv, [SmokeNext]_smokeVars
    PROVE  ListInv'
<1>1. CASE ScreenArguments
  <2>1. at = "screen" /\ at \in Early /\ UNCHANGED <<flags, checks, evidence>>
    BY <1>1 DEF ScreenArguments, Early
  <2>2. CASE at' \in {"device", "acquire"} /\ UNCHANGED verdict
    BY <2>1, <2>2, EarlyNext DEF Early
  <2>3. CASE at' = "over" /\ verdict' = "configuration"
    BY <2>1, <2>3 DEF ListInv, Told
  <2> QED
    BY <1>1, <2>2, <2>3 DEF ScreenArguments, Quit, Proceed
<1>2. CASE \/ RequestDeviceCode \/ PollDevice \/ DeviceCodeExpires \/ AcquireAppToken
  <2>1. at \in Early /\ UNCHANGED <<flags, evidence>>
    BY <1>2 DEF RequestDeviceCode, PollDevice, DeviceCodeExpires, AcquireAppToken, Early
  <2>2. \/ PrerequisiteFails
        \/ at' \in {"poll device", "sleep", "acquire", "names"} /\ UNCHANGED <<verdict, checks>>
    BY <1>2 DEF RequestDeviceCode, PollDevice, DeviceCodeExpires, AcquireAppToken,
                Proceed, callVars
  <2>3. CASE at' \in {"poll device", "sleep", "acquire", "names"} /\ UNCHANGED <<verdict, checks>>
    BY <2>1, <2>3, EarlyNext DEF Early
  <2> QED
    BY <2>1, <2>2, <2>3, EarlyStop
<1>3. CASE Sleep
  <2>1. /\ at = "sleep" /\ at' \in Early /\ at \in Early /\ (at' = "gate" => flags.gate)
        /\ UNCHANGED <<verdict, flags, checks, evidence>>
    BY <1>3 DEF Sleep, Proceed, Early
  <2> QED
    BY <2>1, EarlyNext
<1>4. CASE UNCHANGED smokeVars
  <2>1. UNCHANGED <<at, verdict, flags, checks, evidence>>
    BY <1>4 DEF smokeVars
  <2>2. /\ Asked' = Asked /\ Required' = Required
        /\ AllPassed' = AllPassed
    BY <2>1 DEF Asked, Required, AllPassed
  <2>3. CASE at = "further"
    BY <2>1, <2>3, FurtherNext DEF ListInv
  <2>4. CASE at = "over"
    BY <2>1, <2>2, <2>4 DEF ListInv, Told
  <2>5. CASE at \notin {"further", "over"}
    BY <2>1, <2>2, <2>5 DEF ListInv
  <2> QED
    BY <2>3, <2>4, <2>5
<1> QED
  BY <1>1, <1>2, <1>3, <1>4, NamesNext, GateNext, FurtherStep, CallNext, JudgeNext, ClaimsStep, RejectionsNext,
     RenderStep DEF SmokeNext

\* What the invariant says of the end.
LEMMA ListKept == ListInv => NoSilentlyShorterList
<1> SUFFICES ASSUME ListInv PROVE NoSilentlyShorterList
  BY DEF NoSilentlyShorterList
<1>1. Covered = Cover(checks)
  BY DEF Covered, Cover
<1>2. WholeList(checks, Required) =>
        /\ Cover(checks) \ {<<"prerequisite">>} \subseteq Required
        /\ Cover(checks) = Required \/ <<"prerequisite">> \in checks[Len(checks)].about
        /\ \A n, m \in DOMAIN checks : n # m => checks[n].about \cap checks[m].about = {}
  BY DEF WholeList, Apart, Stopped
<1>3. WholeList(checks, Required) /\ AllPassed => Cover(checks) = Required
  <2>1. checks \in Seq(Checks) /\ checks # <<>> => Len(checks) \in DOMAIN checks
    BY EmptySeq, LenProperties
  <2> QED
    BY <2>1 DEF WholeList, AllPassed
<1>4. at = "render" => WholeList(checks, Required)
  BY DEF ListInv
<1>5. at # "over" => verdict = "running"
  BY DEF ListInv
<1>6. at = "over" => Told
  BY DEF ListInv
<1> QED
  BY <1>1, <1>2, <1>3, <1>4, <1>5, <1>6 DEF Told, NoSilentlyShorterList

(* No list of checks gets shorter without a word, for any arguments, tokens *)
(* and answers, and any number of reads of the log (main,                   *)
(* run_gate_checks, accepted_token_checks).                                 *)
THEOREM ListsAreWhole == SmokeSpec => []NoSilentlyShorterList
<1>1. SmokeInit => ListInv
  BY DEF SmokeInit, ListInv
<1>2. ListInv /\ [SmokeNext]_smokeVars => ListInv'
  BY ListStep
<1> QED
  BY <1>1, <1>2, ListKept, PTL DEF SmokeSpec, smokeVars, smokeVars

=============================================================================
