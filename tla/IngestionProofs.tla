---------------------------- MODULE IngestionProofs ----------------------------
(***************************************************************************)
(* Proofs about Chunking and Ingestion, for any document, index, corpus,   *)
(* limits and responses of the services.  Up to "Documents" they are about *)
(* the texts and lists the chunker is built from.                          *)
(***************************************************************************)
EXTENDS Ingestion, SequenceTheorems, FiniteSetTheorems, WellFoundedInduction, TLAPS

-----------------------------------------------------------------------------
(* Lists.                                                                  *)

LEMMA Listed ==
    ASSUME NEW S, NEW s \in Seq(S)
    PROVE  /\ Len(s) \in Nat /\ DOMAIN s = 1 .. Len(s)
           /\ \A i \in 1 .. Len(s) : s[i] \in S /\ s[i] \in ToSet(s)
           /\ \A x \in ToSet(s) : x \in S /\ \E i \in 1 .. Len(s) : s[i] = x
           /\ s = <<>> <=> Len(s) = 0
<1>1. Len(s) \in Nat /\ DOMAIN s = 1 .. Len(s)
  BY LenProperties
<1>2. \A i \in 1 .. Len(s) : s[i] \in S
  BY <1>1, ElementOfSeq
<1> QED
  BY <1>1, <1>2, EmptySeq DEF ToSet

LEMMA MapIsSeq ==
    ASSUME NEW n \in Nat, NEW S, NEW f \in [1 .. n -> S]
    PROVE  f \in Seq(S)
  OBVIOUS

-----------------------------------------------------------------------------
(* Counting and recursion.                                                 *)

LEMMA LeastNumber ==
    ASSUME NEW T \in SUBSET Nat, T # {}
    PROVE  \E n \in T : \A m \in T : n <= m
<1>1. PICK n \in T : \A m \in T : <<m, n>> \notin OpToRel(<, Nat)
  BY NatLessThanWellFounded, WFMin
<1>2. \A m \in T : ~(m < n)
  BY <1>1 DEF OpToRel
<1>3. n \in Nat /\ \A m \in T : m \in Nat
  OBVIOUS
<1> QED
  BY <1>2, <1>3

LEMMA MinIs ==
    ASSUME NEW T \in SUBSET Nat, T # {}
    PROVE  Min(T) \in T /\ \A m \in T : Min(T) <= m
  BY LeastNumber DEF Min

LEMMA MaxIs ==
    ASSUME NEW n \in Nat, NEW T \in SUBSET (0 .. n), T # {}
    PROVE  Max(T) \in T /\ \A m \in T : m <= Max(T)
<1> DEFINE U == {n - m : m \in T}
<1>1. U \in SUBSET Nat /\ U # {}
  <2>1. \A m \in T : n - m \in Nat
    OBVIOUS
  <2>2. PICK m \in T : TRUE
    OBVIOUS
  <2> QED
    BY <2>1, <2>2
<1>2. PICK u \in U : \A v \in U : u <= v
  <2> HIDE DEF U
  <2> QED
    BY <1>1, LeastNumber
<1>3. PICK x \in T : u = n - x
  BY <1>2
<1>4. \A m \in T : x >= m
  BY <1>2, <1>3
<1>5. Max(T) \in T /\ \A m \in T : Max(T) >= m
  BY <1>3, <1>4 DEF Max
<1> QED
  BY <1>5

\* What holds at the start and on is there all the way.
LEMMA Climbs ==
    ASSUME NEW n \in Nat, NEW T, 0 \in T, \A i \in 1 .. n : i - 1 \in T => i \in T
    PROVE  \A i \in 0 .. n : i \in T
<1> DEFINE U == {i \in 0 .. n : i \notin T}
<1> SUFFICES ASSUME U # {} PROVE FALSE
  OBVIOUS
<1>1. PICK i \in U : \A k \in U : i <= k
  <2>1. U \in SUBSET Nat
    OBVIOUS
  <2> HIDE DEF U
  <2> QED
    BY <2>1, LeastNumber
<1>2. i \in 1 .. n /\ i - 1 \in 0 .. n /\ i - 1 \notin U
  BY <1>1
<1> QED
  BY <1>1, <1>2

\* A definition by recursion on typed values defines a function.
Scans(g, S, base, n, Step) ==
    g \in [0 .. n -> S] /\ g[0] = base /\ \A i \in 1 .. n : g[i] = Step[i][g[i - 1]]
Keeps(Step, S, n) == \A i \in 1 .. n : \A s \in S : Step[i][s] \in S

LEMMA ScanFurther ==
    ASSUME NEW S, NEW base, NEW n \in Nat, NEW Step, Keeps(Step, S, n), NEW m \in 1 .. n,
           NEW g, Scans(g, S, base, m - 1, Step)
    PROVE  \E h : Scans(h, S, base, m, Step)
<1> DEFINE v == Step[m][g[m - 1]]
           h == [i \in 0 .. m |-> IF i = m THEN v ELSE g[i]]
<1>1. m \in Nat /\ m - 1 \in Nat /\ m - 1 \in 0 .. m - 1
  OBVIOUS
<1>2. v \in S
  BY <1>1 DEF Scans, Keeps
<1>3. h \in [0 .. m -> S] /\ h[0] = base
  BY <1>1, <1>2 DEF Scans
<1>4. ASSUME NEW i \in 1 .. m
      PROVE  h[i] = Step[i][h[i - 1]]
  <2>1. i - 1 \in 0 .. m /\ i - 1 # m /\ i \in 0 .. m
    OBVIOUS
  <2>2. h[i - 1] = g[i - 1]
    BY <2>1
  <2>3. CASE i = m
    BY <2>1, <2>2, <2>3
  <2>4. CASE i # m
    <3>1. i \in 1 .. m - 1 /\ h[i] = g[i]
      BY <2>1, <2>4
    <3> HIDE DEF h
    <3> QED
      BY <2>2, <3>1 DEF Scans
  <2> QED
    BY <2>3, <2>4
<1> HIDE DEF h
<1> QED
  BY <1>3, <1>4 DEF Scans

LEMMA RecursionExists ==
    ASSUME NEW S, NEW base \in S, NEW n \in Nat, NEW Step, Keeps(Step, S, n)
    PROVE  \E g : Scans(g, S, base, n, Step)
<1> DEFINE T == {m \in 0 .. n : \E g : Scans(g, S, base, m, Step)}
<1>1. 0 \in T
  <2> DEFINE e == [i \in 0 .. 0 |-> base]
  <2>1. Scans(e, S, base, 0, Step)
    BY DEF Scans
  <2> HIDE DEF e
  <2> QED
    BY <2>1
<1>2. \A m \in 1 .. n : m - 1 \in T => m \in T
  <2> SUFFICES ASSUME NEW m \in 1 .. n, m - 1 \in T
               PROVE  m \in T
    OBVIOUS
  <2>1. m \in 0 .. n /\ \E g : Scans(g, S, base, m - 1, Step)
    OBVIOUS
  <2>2. \E h : Scans(h, S, base, m, Step)
    BY <2>1, ScanFurther
  <2> QED
    BY <2>1, <2>2
<1>3. n \in T
  <2> HIDE DEF T
  <2> QED
    BY <1>1, <1>2, Climbs
<1> QED
  BY <1>3

\* One that a model writes down keeps its type.
LEMMA RecursionType ==
    ASSUME NEW S, NEW base \in S, NEW n \in Nat, NEW f, f[0] = base,
           \A i \in 1 .. n : f[i - 1] \in S => f[i] \in S
    PROVE  \A i \in 0 .. n : f[i] \in S
<1> DEFINE T == {i \in 0 .. n : f[i] \in S}
<1>1. 0 \in T /\ \A i \in 1 .. n : i - 1 \in T => i \in T
  OBVIOUS
<1>2. \A i \in 0 .. n : i \in T
  <2> HIDE DEF T
  <2> QED
    BY <1>1, Climbs
<1> QED
  BY <1>2

-----------------------------------------------------------------------------
(* FlattenSeq of the community modules, as the ingestion sees it.          *)

\* f is the function FlattenSeq builds.
Flattens(f, rows) == f = [i \in 1 .. Len(rows) |-> IF i = 1 THEN rows[i] ELSE f[i - 1] \o rows[i]]

\* The list that FlattenSeq returns, and how it gets there row by row.
LEMMA FlattenIs ==
    ASSUME NEW S, NEW rows \in Seq(Seq(S))
    PROVE  \E k : /\ k[0] = <<>> /\ \A i \in 0 .. Len(rows) : k[i] \in Seq(S)
                  /\ \A i \in 1 .. Len(rows) : k[i] = k[i - 1] \o rows[i]
                  /\ FlattenSeq(rows) = k[Len(rows)]
<1> DEFINE n == Len(rows)
           Step == [i \in 1 .. n |-> [s \in Seq(S) |-> s \o rows[i]]]
           f == CHOOSE flatten : Flattens(flatten, rows)
<1>1. n \in Nat /\ \A i \in 1 .. n : rows[i] \in Seq(S)
  BY LenProperties, ElementOfSeq
<1>2. PICK g : Scans(g, Seq(S), <<>>, n, Step)
  <2>1. Keeps(Step, Seq(S), n)
    <3>1. ASSUME NEW s \in Seq(S), NEW i \in 1 .. n
          PROVE  s \o rows[i] \in Seq(S)
      BY <1>1, ConcatProperties
    <3> HIDE DEF n
    <3> QED
      BY <3>1 DEF Keeps
  <2>2. <<>> \in Seq(S)
    OBVIOUS
  <2> HIDE DEF Step, n
  <2> QED
    BY <1>1, <2>1, <2>2, RecursionExists
<1>3. /\ g[0] = <<>> /\ \A i \in 0 .. n : g[i] \in Seq(S)
      /\ \A i \in 1 .. n : g[i] = g[i - 1] \o rows[i]
  <2>1. g[0] = <<>> /\ \A i \in 0 .. n : g[i] \in Seq(S)
    <3> HIDE DEF Step, n
    <3> QED
      BY <1>2 DEF Scans
  <2>2. ASSUME NEW i \in 1 .. n
        PROVE  g[i] = g[i - 1] \o rows[i]
    <3>1. i - 1 \in 0 .. n
      BY <1>1
    <3>2. g[i - 1] \in Seq(S) /\ g[i] = Step[i][g[i - 1]]
      <4> HIDE DEF Step
      <4> QED
        BY <1>2, <2>1, <3>1 DEF Scans
    <3> QED
      BY <3>2
  <2> QED
    BY <2>1, <2>2
<1> HIDE DEF Step
<1>4. CASE n = 0
  <2>1. FlattenSeq(rows) = <<>>
    BY <1>4, EmptySeq DEF FlattenSeq
  <2> QED
    BY <1>3, <1>4, <2>1
<1>5. CASE n # 0
  <2> DEFINE h == [i \in 1 .. n |-> g[i]]
  <2>1. ASSUME NEW i \in 1 .. n
        PROVE  g[i] = IF i = 1 THEN rows[i] ELSE g[i - 1] \o rows[i]
    <3>1. rows[i] \in Seq(S) /\ g[i] = g[i - 1] \o rows[i]
      BY <1>1, <1>3
    <3>2. <<>> \o rows[i] = rows[i]
      BY <3>1, ConcatEmptySeq
    <3>3. i = 1 => g[i - 1] = <<>>
      <4>1. i = 1 => i - 1 = 0
        OBVIOUS
      <4> QED
        BY <1>3, <4>1
    <3> HIDE DEF n
    <3> QED
      BY <3>1, <3>2, <3>3
  <2>2. Flattens(h, rows)
    <3>1. ASSUME NEW i \in 1 .. n
          PROVE  h[i] = IF i = 1 THEN rows[i] ELSE h[i - 1] \o rows[i]
      <4>1. i # 1 => i - 1 \in 1 .. n
        BY <1>1
      <4> QED
        BY <2>1, <4>1
    <3>2. h = [i \in 1 .. n |-> h[i]]
      OBVIOUS
    <3> HIDE DEF h
    <3> QED
      BY <3>1, <3>2 DEF Flattens
  <2>3. Flattens(f, rows)
    <3> HIDE DEF h
    <3> QED
      BY <2>2
  <2>4. FlattenSeq(rows) = f[n]
    BY <1>5 DEF FlattenSeq, Flattens
  <2>5. \A i \in 1 .. n : f[i] = IF i = 1 THEN rows[i] ELSE f[i - 1] \o rows[i]
    <3> HIDE DEF f
    <3> QED
      BY <2>3 DEF Flattens
  <2> HIDE DEF f, h
  <2> DEFINE T == {i \in 0 .. n : i = 0 \/ f[i] = g[i]}
  <2>6. \A i \in 1 .. n : i - 1 \in T => i \in T
    <3> SUFFICES ASSUME NEW i \in 1 .. n, i - 1 \in T
                 PROVE  f[i] = g[i]
      BY <1>1
    <3>1. i # 1 => f[i - 1] = g[i - 1]
      OBVIOUS
    <3> QED
      BY <2>1, <2>5, <3>1
  <2>7. n \in T
    <3>1. 0 \in T /\ n \in 0 .. n
      BY <1>1
    <3> HIDE DEF T, n
    <3>2. \A i \in 0 .. n : i \in T
      BY <1>1, <2>6, <3>1, Climbs
    <3> QED
      BY <3>1, <3>2
  <2>8. FlattenSeq(rows) = g[n]
    BY <1>5, <2>4, <2>7
  <2> QED
    BY <1>3, <2>8
<1> QED
  BY <1>4, <1>5

LEMMA FlattenType ==
    ASSUME NEW S, NEW rows \in Seq(Seq(S))
    PROVE  FlattenSeq(rows) \in Seq(S)
<1>1. Len(rows) \in Nat
  BY LenProperties
<1>2. Len(rows) \in 0 .. Len(rows)
  BY <1>1
<1> QED
  BY <1>2, FlattenIs

\* What flat has at k is what row number row[k] has at col[k]: row by row, all
\* of each, in order.
Spreads(flat, rows, n, row, col) ==
    /\ row \in [1 .. Len(flat) -> 1 .. n] /\ col \in [1 .. Len(flat) -> Nat]
    /\ \A k \in 1 .. Len(flat) : col[k] \in 1 .. Len(rows[row[k]]) /\ flat[k] = rows[row[k]][col[k]]
    /\ \A j, k \in 1 .. Len(flat) : j < k => row[j] < row[k] \/ (row[j] = row[k] /\ col[j] < col[k])
    /\ \A m \in 1 .. n : \A i \in 1 .. Len(rows[m]) : \E k \in 1 .. Len(flat) : row[k] = m /\ col[k] = i

LEMMA SpreadFurther ==
    ASSUME NEW S, NEW n \in Nat \ {0}, NEW rows, rows[n] \in Seq(S),
           NEW flat \in Seq(S), NEW row, NEW col, Spreads(flat, rows, n - 1, row, col)
    PROVE  \E r, c : Spreads(flat \o rows[n], rows, n, r, c)
<1> DEFINE L == Len(flat)
           M == Len(rows[n])
           more == flat \o rows[n]
           r == [k \in 1 .. L + M |-> IF k <= L THEN row[k] ELSE n]
           c == [k \in 1 .. L + M |-> IF k <= L THEN col[k] ELSE k - L]
<1>1. L \in Nat /\ M \in Nat
  BY LenProperties
<1>2. /\ Len(more) = L + M
      /\ \A k \in 1 .. L + M : more[k] = IF k <= L THEN flat[k] ELSE rows[n][k - L]
  BY ConcatProperties
<1>3. /\ row \in [1 .. L -> 1 .. n - 1] /\ col \in [1 .. L -> Nat]
      /\ \A k \in 1 .. L : col[k] \in 1 .. Len(rows[row[k]]) /\ flat[k] = rows[row[k]][col[k]]
      /\ \A j, k \in 1 .. L : j < k => row[j] < row[k] \/ (row[j] = row[k] /\ col[j] < col[k])
      /\ \A m \in 1 .. n - 1 : \A i \in 1 .. Len(rows[m]) : \E k \in 1 .. L : row[k] = m /\ col[k] = i
  BY DEF Spreads
<1> HIDE DEF L, M, more
<1>4. \A k \in 1 .. L : k \in 1 .. L + M /\ row[k] \in 1 .. n - 1 /\ col[k] \in Nat /\ r[k] = row[k] /\ c[k] = col[k]
  BY <1>1, <1>3
<1>5. \A k \in 1 .. L + M : ~(k <= L) => r[k] = n /\ c[k] = k - L /\ k - L \in 1 .. M
  BY <1>1
<1>6. \A k \in 1 .. L + M : k <= L => k \in 1 .. L
  BY <1>1
<1>7. r \in [1 .. L + M -> 1 .. n] /\ c \in [1 .. L + M -> Nat]
  <2>1. ASSUME NEW k \in 1 .. L + M
        PROVE  r[k] \in 1 .. n /\ c[k] \in Nat
    <3>1. CASE k <= L
      <4>1. row[k] \in 1 .. n - 1 /\ r[k] = row[k] /\ c[k] = col[k] /\ col[k] \in Nat
        BY <1>4, <1>6, <3>1
      <4> HIDE DEF r, c
      <4> QED
        BY <4>1
    <3>2. CASE ~(k <= L)
      <4>1. r[k] = n /\ c[k] = k - L /\ k - L \in 1 .. M
        BY <1>5, <3>2
      <4> HIDE DEF r, c
      <4> QED
        BY <1>1, <4>1
    <3> QED
      BY <3>1, <3>2
  <2>2. r = [k \in 1 .. L + M |-> r[k]] /\ c = [k \in 1 .. L + M |-> c[k]]
    OBVIOUS
  <2> HIDE DEF r, c
  <2> QED
    BY <2>1, <2>2
<1> HIDE DEF r, c
<1>8. ASSUME NEW k \in 1 .. L + M
      PROVE  c[k] \in 1 .. Len(rows[r[k]]) /\ more[k] = rows[r[k]][c[k]]
  <2>1. CASE k <= L
    BY <1>2, <1>3, <1>4, <1>6, <2>1
  <2>2. CASE ~(k <= L)
    BY <1>2, <1>5, <2>2 DEF M
  <2> QED
    BY <2>1, <2>2
<1>9. ASSUME NEW j \in 1 .. L + M, NEW k \in 1 .. L + M, j < k
      PROVE  r[j] < r[k] \/ (r[j] = r[k] /\ c[j] < c[k])
  <2>1. CASE k <= L
    <3>1. j <= L /\ j \in 1 .. L /\ k \in 1 .. L
      BY <1>1, <1>9, <2>1
    <3>2. r[j] = row[j] /\ c[j] = col[j] /\ r[k] = row[k] /\ c[k] = col[k]
      BY <1>4, <3>1
    <3> QED
      BY <1>3, <1>9, <3>1, <3>2
  <2>2. CASE ~(k <= L) /\ j <= L
    <3>1. r[j] \in 1 .. n - 1 /\ r[k] = n
      BY <1>4, <1>5, <1>6, <2>2
    <3> QED
      BY <3>1
  <2>3. CASE ~(k <= L) /\ ~(j <= L)
    <3>1. r[j] = n /\ r[k] = n /\ c[j] = j - L /\ c[k] = k - L
      BY <1>5, <2>3
    <3> QED
      BY <1>1, <1>9, <3>1
  <2> QED
    BY <2>1, <2>2, <2>3
<1>10. ASSUME NEW m \in 1 .. n, NEW i \in 1 .. Len(rows[m])
       PROVE  \E k \in 1 .. L + M : r[k] = m /\ c[k] = i
  <2>1. CASE m = n
    <3>1. i \in 1 .. M
      BY <2>1 DEF M
    <3>2. L + i \in 1 .. L + M /\ ~(L + i <= L) /\ (L + i) - L = i
      BY <1>1, <3>1
    <3> QED
      BY <1>5, <2>1, <3>2
  <2>2. CASE m # n
    <3>1. m \in 1 .. n - 1
      BY <2>2
    <3>2. PICK k \in 1 .. L : row[k] = m /\ col[k] = i
      BY <1>3, <3>1
    <3> QED
      BY <1>4, <3>2
  <2> QED
    BY <2>1, <2>2
<1>11. Spreads(more, rows, n, r, c)
  BY <1>2, <1>7, <1>8, <1>9, <1>10 DEF Spreads
<1> QED
  BY <1>11 DEF more

LEMMA FlattenIndex ==
    ASSUME NEW S, NEW rows \in Seq(Seq(S))
    PROVE  \E row, col : Spreads(FlattenSeq(rows), rows, Len(rows), row, col)
<1>1. Len(rows) \in Nat /\ \A i \in 1 .. Len(rows) : rows[i] \in Seq(S)
  BY Listed
<1>2. PICK k : /\ k[0] = <<>> /\ \A i \in 0 .. Len(rows) : k[i] \in Seq(S)
               /\ \A i \in 1 .. Len(rows) : k[i] = k[i - 1] \o rows[i]
               /\ FlattenSeq(rows) = k[Len(rows)]
  BY FlattenIs
<1> DEFINE T == {i \in 0 .. Len(rows) : \E row, col : Spreads(k[i], rows, i, row, col)}
<1>3. 0 \in T
  <2> DEFINE none == [i \in 1 .. 0 |-> 1]
  <2>1. Len(<<>>) = 0 /\ 1 .. 0 = {}
    BY EmptySeq
  <2>2. none \in [1 .. 0 -> 1 .. 0] /\ none \in [1 .. 0 -> Nat]
    BY <2>1
  <2> HIDE DEF none
  <2>3. Spreads(<<>>, rows, 0, none, none)
    BY <2>1, <2>2 DEF Spreads
  <2> QED
    BY <1>1, <1>2, <2>3
<1>4. ASSUME NEW i \in 1 .. Len(rows), i - 1 \in T
      PROVE  i \in T
  <2>1. PICK row, col : Spreads(k[i - 1], rows, i - 1, row, col)
    BY <1>4
  <2>2. i \in Nat \ {0} /\ i \in 0 .. Len(rows) /\ i - 1 \in 0 .. Len(rows)
    BY <1>1
  <2>3. rows[i] \in Seq(S) /\ k[i - 1] \in Seq(S) /\ k[i] = k[i - 1] \o rows[i]
    BY <1>1, <1>2, <2>2
  <2>4. \E r, c : Spreads(k[i - 1] \o rows[i], rows, i, r, c)
    BY <2>1, <2>2, <2>3, SpreadFurther
  <2>5. \E r, c : Spreads(k[i], rows, i, r, c)
    BY <2>3, <2>4
  <2> QED
    BY <2>2, <2>5
<1>5. Len(rows) \in T
  <2>1. Len(rows) \in 0 .. Len(rows)
    BY <1>1
  <2> HIDE DEF T
  <2> QED
    BY <1>1, <1>3, <1>4, <2>1, Climbs
<1> QED
  BY <1>2, <1>5

-----------------------------------------------------------------------------
(* Texts and their ink.                                                    *)

Chars == Nat \X Nat
Texts == Seq(Chars)
Dark(body, c) == Kind(body, c) \notin Blanks
Precedes(S, T) == \A c \in S, d \in T : Before(c, d)

LEMMA InkIs ==
    ASSUME NEW body, NEW text \in Texts
    PROVE  /\ Len(text) \in Nat /\ DOMAIN text = 1 .. Len(text)
           /\ \A i \in 1 .. Len(text) : text[i] \in Chars
           /\ InkAt(body, text) = {i \in 1 .. Len(text) : Dark(body, text[i])}
           /\ \A c : c \in InkOf(body, text) <=> \E i \in 1 .. Len(text) : text[i] = c /\ Dark(body, c)
           /\ AsWritten(body, text) <=>
                  \A i, j \in 1 .. Len(text) :
                      i < j /\ Dark(body, text[i]) /\ Dark(body, text[j]) => Before(text[i], text[j])
<1>1. Len(text) \in Nat /\ DOMAIN text = 1 .. Len(text) /\ \A i \in 1 .. Len(text) : text[i] \in Chars
  BY Listed DEF Texts
<1>2. InkAt(body, text) = {i \in 1 .. Len(text) : Dark(body, text[i])}
  BY <1>1 DEF InkAt, Dark
<1>3. \A c : c \in InkOf(body, text) <=> \E i \in 1 .. Len(text) : text[i] = c /\ Dark(body, c)
  BY <1>2 DEF InkOf
<1>4. AsWritten(body, text) <=>
          \A i, j \in 1 .. Len(text) :
              i < j /\ Dark(body, text[i]) /\ Dark(body, text[j]) => Before(text[i], text[j])
  BY <1>2 DEF AsWritten
<1> QED
  BY <1>1, <1>2, <1>3, <1>4

LEMMA NoInk ==
    ASSUME NEW body
    PROVE  <<>> \in Texts /\ InkOf(body, <<>>) = {} /\ AsWritten(body, <<>>)
<1>1. DOMAIN <<>> = {} /\ <<>> \in Texts
  BY DEF Texts
<1>2. InkAt(body, <<>>) = {}
  BY <1>1 DEF InkAt
<1> QED
  BY <1>1, <1>2 DEF InkOf, AsWritten

LEMMA OneCharacter ==
    ASSUME NEW body, NEW c \in Chars
    PROVE  /\ <<c>> \in Texts /\ Len(<<c>>) = 1 /\ AsWritten(body, <<c>>)
           /\ InkOf(body, <<c>>) = IF Dark(body, c) THEN {c} ELSE {}
<1>1. <<c>> \in Texts /\ Len(<<c>>) = 1 /\ <<c>>[1] = c /\ 1 .. 1 = {1}
  BY DEF Texts
<1>2. \A d : d \in InkOf(body, <<c>>) <=> d = c /\ Dark(body, d)
  BY <1>1, InkIs
<1>3. AsWritten(body, <<c>>)
  BY <1>1, InkIs
<1> QED
  BY <1>1, <1>2, <1>3

LEMMA InkOfConcat ==
    ASSUME NEW body, NEW a \in Texts, NEW b \in Texts
    PROVE  /\ a \o b \in Texts /\ Len(a \o b) = Len(a) + Len(b)
           /\ InkOf(body, a \o b) = InkOf(body, a) \cup InkOf(body, b)
           /\ AsWritten(body, a) /\ AsWritten(body, b) /\ Precedes(InkOf(body, a), InkOf(body, b)) =>
                  AsWritten(body, a \o b)
<1> DEFINE ab == a \o b
           L == Len(a)
           M == Len(b)
<1>1. /\ ab \in Texts /\ Len(ab) = L + M /\ L \in Nat /\ M \in Nat
      /\ \A i \in 1 .. L + M : ab[i] = IF i <= L THEN a[i] ELSE b[i - L]
  BY ConcatProperties, LenProperties DEF Texts
<1> HIDE DEF ab, L, M
<1>2. \A i \in 1 .. L + M : \/ i <= L /\ i \in 1 .. L /\ ab[i] = a[i]
                            \/ ~(i <= L) /\ i - L \in 1 .. M /\ ab[i] = b[i - L]
  BY <1>1
<1>3. /\ \A i \in 1 .. L : i \in 1 .. L + M /\ ab[i] = a[i]
      /\ \A i \in 1 .. M : L + i \in 1 .. L + M /\ ab[L + i] = b[i]
  <2>1. ASSUME NEW i \in 1 .. L
        PROVE  i \in 1 .. L + M /\ i <= L
    BY <1>1
  <2>2. ASSUME NEW i \in 1 .. M
        PROVE  L + i \in 1 .. L + M /\ ~(L + i <= L) /\ (L + i) - L = i
    BY <1>1
  <2> QED
    BY <1>1, <2>1, <2>2
<1>4. /\ \A c : c \in InkOf(body, a) <=> \E i \in 1 .. L : a[i] = c /\ Dark(body, c)
      /\ \A c : c \in InkOf(body, b) <=> \E i \in 1 .. M : b[i] = c /\ Dark(body, c)
      /\ \A c : c \in InkOf(body, ab) <=> \E i \in 1 .. L + M : ab[i] = c /\ Dark(body, c)
  BY <1>1, InkIs DEF L, M
<1>5. ASSUME NEW c
      PROVE  c \in InkOf(body, ab) <=> c \in InkOf(body, a) \/ c \in InkOf(body, b)
  <2>1. ASSUME c \in InkOf(body, ab)
        PROVE  c \in InkOf(body, a) \/ c \in InkOf(body, b)
    <3>1. PICK i \in 1 .. L + M : ab[i] = c /\ Dark(body, c)
      BY <1>4, <2>1
    <3>2. CASE i \in 1 .. L /\ ab[i] = a[i]
      BY <1>4, <3>1, <3>2
    <3>3. CASE i - L \in 1 .. M /\ ab[i] = b[i - L]
      BY <1>4, <3>1, <3>3
    <3> QED
      BY <1>2, <3>2, <3>3
  <2>2. ASSUME c \in InkOf(body, a)
        PROVE  c \in InkOf(body, ab)
    BY <1>3, <1>4, <2>2
  <2>3. ASSUME c \in InkOf(body, b)
        PROVE  c \in InkOf(body, ab)
    <3>1. PICK i \in 1 .. M : b[i] = c /\ Dark(body, c)
      BY <1>4, <2>3
    <3>2. L + i \in 1 .. L + M /\ ab[L + i] = c
      BY <1>3, <3>1
    <3> QED
      BY <1>4, <3>1, <3>2
  <2> QED
    BY <2>1, <2>2, <2>3
<1>6. ASSUME AsWritten(body, a), AsWritten(body, b), Precedes(InkOf(body, a), InkOf(body, b))
      PROVE  AsWritten(body, ab)
  <2>1. /\ \A i, j \in 1 .. L : i < j /\ Dark(body, a[i]) /\ Dark(body, a[j]) => Before(a[i], a[j])
        /\ \A i, j \in 1 .. M : i < j /\ Dark(body, b[i]) /\ Dark(body, b[j]) => Before(b[i], b[j])
    BY <1>1, <1>6, InkIs DEF L, M
  <2>2. \A i \in 1 .. L, j \in 1 .. M : Dark(body, a[i]) /\ Dark(body, b[j]) => Before(a[i], b[j])
    BY <1>4, <1>6 DEF Precedes
  <2>3. ASSUME NEW i \in 1 .. L + M, NEW j \in 1 .. L + M, i < j, Dark(body, ab[i]), Dark(body, ab[j])
        PROVE  Before(ab[i], ab[j])
    <3>1. CASE i \in 1 .. L /\ ab[i] = a[i] /\ j \in 1 .. L /\ ab[j] = a[j]
      BY <2>1, <2>3, <3>1
    <3>2. CASE i \in 1 .. L /\ ab[i] = a[i] /\ j - L \in 1 .. M /\ ab[j] = b[j - L]
      BY <2>2, <2>3, <3>2
    <3>3. CASE i - L \in 1 .. M /\ ab[i] = b[i - L] /\ j - L \in 1 .. M /\ ab[j] = b[j - L]
      <4>1. i - L < j - L
        BY <1>1, <2>3
      <4> QED
        BY <2>1, <2>3, <3>3, <4>1
    <3>4. ~(i <= L) => ~(j <= L)
      BY <1>1, <2>3
    <3> QED
      BY <1>2, <3>1, <3>2, <3>3, <3>4
  <2> QED
    BY <1>1, <2>3, InkIs
<1> QED
  BY <1>1, <1>5, <1>6 DEF ab, L, M

LEMMA InkOfPart ==
    ASSUME NEW body, NEW text \in Texts, NEW m \in 1 .. Len(text) + 1, NEW n \in m - 1 .. Len(text)
    PROVE  LET part == SubSeq(text, m, n)
           IN /\ part \in Texts /\ Len(part) = n - m + 1
              /\ \A c : c \in InkOf(body, part) <=>
                            \E i \in 1 .. Len(text) : m <= i /\ i <= n /\ text[i] = c /\ Dark(body, c)
              /\ AsWritten(body, text) => AsWritten(body, part)
<1> DEFINE part == SubSeq(text, m, n)
           k == n - m + 1
<1>1. Len(text) \in Nat /\ m \in Nat /\ n \in Int /\ k \in Nat
  BY InkIs
<1>2. part \in Texts /\ Len(part) = k /\ \A i \in 1 .. k : part[i] = text[m + i - 1]
  BY SubSeqProperties DEF Texts
<1> HIDE DEF part
<1>3. \A i \in 1 .. k : m + i - 1 \in 1 .. Len(text) /\ m <= m + i - 1 /\ m + i - 1 <= n
  BY <1>1
<1>4. \A i \in 1 .. Len(text) : m <= i /\ i <= n => i - m + 1 \in 1 .. k /\ m + (i - m + 1) - 1 = i
  BY <1>1
<1> HIDE DEF k
<1>5. \A c : c \in InkOf(body, part) <=> \E i \in 1 .. k : part[i] = c /\ Dark(body, c)
  BY <1>2, InkIs
<1>6. ASSUME NEW c
      PROVE  c \in InkOf(body, part) <=>
                 \E i \in 1 .. Len(text) : m <= i /\ i <= n /\ text[i] = c /\ Dark(body, c)
  <2>1. ASSUME NEW i \in 1 .. k, part[i] = c, Dark(body, c)
        PROVE  \E j \in 1 .. Len(text) : m <= j /\ j <= n /\ text[j] = c /\ Dark(body, c)
    BY <1>2, <1>3, <2>1
  <2>2. ASSUME NEW i \in 1 .. Len(text), m <= i, i <= n, text[i] = c, Dark(body, c)
        PROVE  \E j \in 1 .. k : part[j] = c /\ Dark(body, c)
    <3>1. i - m + 1 \in 1 .. k /\ m + (i - m + 1) - 1 = i
      BY <1>4, <2>2
    <3>2. part[i - m + 1] = text[i]
      BY <1>2, <3>1
    <3> QED
      BY <2>2, <3>1, <3>2
  <2> QED
    BY <1>5, <2>1, <2>2
<1>7. ASSUME AsWritten(body, text)
      PROVE  AsWritten(body, part)
  <2>1. \A i, j \in 1 .. Len(text) : i < j /\ Dark(body, text[i]) /\ Dark(body, text[j]) => Before(text[i], text[j])
    BY <1>7, InkIs
  <2>2. ASSUME NEW i \in 1 .. k, NEW j \in 1 .. k, i < j, Dark(body, part[i]), Dark(body, part[j])
        PROVE  Before(part[i], part[j])
    <3>1. m + i - 1 < m + j - 1
      BY <1>1, <2>2 DEF k
    <3>2. part[i] = text[m + i - 1] /\ part[j] = text[m + j - 1]
      BY <1>2
    <3> QED
      BY <1>3, <2>1, <2>2, <3>1, <3>2
  <2> QED
    BY <1>2, <2>2, InkIs
<1> QED
  BY <1>2, <1>6, <1>7 DEF part, k

LEMMA Stripping ==
    ASSUME NEW body, NEW text \in Texts
    PROVE  /\ Strip(body, text) \in Texts /\ Len(Strip(body, text)) <= Len(text)
           /\ InkOf(body, Strip(body, text)) = InkOf(body, text)
           /\ AsWritten(body, text) => AsWritten(body, Strip(body, text))
           /\ Strip(body, text) = <<>> \/ InkOf(body, text) # {}
<1> DEFINE ink == InkAt(body, text)
<1>1. /\ Len(text) \in Nat /\ ink = {i \in 1 .. Len(text) : Dark(body, text[i])}
      /\ \A c : c \in InkOf(body, text) <=> \E i \in 1 .. Len(text) : text[i] = c /\ Dark(body, c)
  BY InkIs
<1> HIDE DEF ink
<1>2. CASE ink = {}
  <2>1. Strip(body, text) = <<>>
    BY <1>2 DEF Strip, ink
  <2>2. InkOf(body, text) = {}
    BY <1>1, <1>2
  <2>3. Len(<<>>) = 0
    BY EmptySeq
  <2> QED
    BY <1>1, <2>1, <2>2, <2>3, NoInk
<1>3. CASE ink # {}
  <2> DEFINE m == Min(ink)
             n == Max(ink)
  <2>1. ink \in SUBSET (0 .. Len(text)) /\ ink \in SUBSET Nat
    BY <1>1
  <2>2. m \in ink /\ n \in ink /\ \A i \in ink : m <= i /\ i <= n
    BY <1>1, <1>3, <2>1, MinIs, MaxIs
  <2> HIDE DEF m, n
  <2>3. m \in 1 .. Len(text) + 1 /\ n \in m - 1 .. Len(text) /\ m >= 1
    BY <1>1, <2>2
  <2> DEFINE part == SubSeq(text, m, n)
  <2>4. /\ part \in Texts /\ Len(part) = n - m + 1
        /\ \A c : c \in InkOf(body, part) <=>
                      \E i \in 1 .. Len(text) : m <= i /\ i <= n /\ text[i] = c /\ Dark(body, c)
        /\ AsWritten(body, text) => AsWritten(body, part)
    BY <2>3, InkOfPart
  <2>5. Strip(body, text) = part
    BY <1>3 DEF Strip, ink, m, n
  <2> HIDE DEF part
  <2>6. Len(part) <= Len(text)
    BY <1>1, <2>3, <2>4
  <2>7. InkOf(body, part) = InkOf(body, text)
    <3>1. \A i \in 1 .. Len(text) : Dark(body, text[i]) => m <= i /\ i <= n
      BY <1>1, <2>2
    <3> QED
      BY <1>1, <2>4, <3>1
  <2>8. InkOf(body, text) # {}
    BY <1>1, <2>2
  <2> QED
    BY <2>4, <2>5, <2>6, <2>7, <2>8
<1> QED
  BY <1>2, <1>3

-----------------------------------------------------------------------------
(* Lists of texts that divide a set of ink: each character of it stands in *)
(* one of them, none in two, and nothing is out of order.                  *)

Divides(body, texts, S) ==
    /\ texts \in Seq(Texts)
    /\ \A n \in 1 .. Len(texts) : AsWritten(body, texts[n])
    /\ \A n, m \in 1 .. Len(texts) : n < m => Precedes(InkOf(body, texts[n]), InkOf(body, texts[m]))
    /\ S = UNION {InkOf(body, texts[n]) : n \in 1 .. Len(texts)}

LEMMA NothingDivides ==
    ASSUME NEW body
    PROVE  Divides(body, <<>>, {})
<1>1. <<>> \in Seq(Texts) /\ 1 .. Len(<<>>) = {}
  BY EmptySeq
<1> QED
  BY <1>1 DEF Divides

LEMMA OneDivides ==
    ASSUME NEW body, NEW text \in Texts, AsWritten(body, text)
    PROVE  Divides(body, <<text>>, InkOf(body, text))
<1>1. <<text>> \in Seq(Texts) /\ Len(<<text>>) = 1 /\ 1 .. 1 = {1} /\ <<text>>[1] = text
  OBVIOUS
<1>2. UNION {InkOf(body, <<text>>[n]) : n \in {1}} = InkOf(body, text)
  BY <1>1
<1> QED
  BY <1>1, <1>2 DEF Divides

LEMMA ConcatDivides ==
    ASSUME NEW body, NEW a, NEW b, NEW S, NEW T, Divides(body, a, S), Divides(body, b, T), Precedes(S, T)
    PROVE  Divides(body, a \o b, S \cup T)
<1> DEFINE ab == a \o b
           L == Len(a)
           M == Len(b)
<1>1. a \in Seq(Texts) /\ b \in Seq(Texts)
  BY DEF Divides
<1>2. /\ ab \in Seq(Texts) /\ Len(ab) = L + M /\ L \in Nat /\ M \in Nat
      /\ \A i \in 1 .. L + M : ab[i] = IF i <= L THEN a[i] ELSE b[i - L]
  BY <1>1, ConcatProperties, LenProperties
<1> HIDE DEF ab
<1>3. /\ \A n \in 1 .. L : AsWritten(body, a[n])
      /\ \A n, m \in 1 .. L : n < m => Precedes(InkOf(body, a[n]), InkOf(body, a[m]))
      /\ S = UNION {InkOf(body, a[n]) : n \in 1 .. L}
      /\ \A n \in 1 .. M : AsWritten(body, b[n])
      /\ \A n, m \in 1 .. M : n < m => Precedes(InkOf(body, b[n]), InkOf(body, b[m]))
      /\ T = UNION {InkOf(body, b[n]) : n \in 1 .. M}
  BY DEF Divides
<1> HIDE DEF L, M
<1>4. \A i \in 1 .. L + M : \/ i <= L /\ i \in 1 .. L /\ ab[i] = a[i]
                            \/ ~(i <= L) /\ i - L \in 1 .. M /\ ab[i] = b[i - L]
  BY <1>2
<1>5. \A n \in 1 .. L + M : AsWritten(body, ab[n])
  BY <1>3, <1>4
<1>6. ASSUME NEW n \in 1 .. L + M, NEW m \in 1 .. L + M, n < m
      PROVE  Precedes(InkOf(body, ab[n]), InkOf(body, ab[m]))
  <2>1. CASE n \in 1 .. L /\ ab[n] = a[n] /\ m \in 1 .. L /\ ab[m] = a[m]
    BY <1>3, <1>6, <2>1
  <2>2. CASE n \in 1 .. L /\ ab[n] = a[n] /\ m - L \in 1 .. M /\ ab[m] = b[m - L]
    <3>1. InkOf(body, a[n]) \subseteq S /\ InkOf(body, b[m - L]) \subseteq T
      BY <1>3, <2>2
    <3> QED
      BY <2>2, <3>1 DEF Precedes
  <2>3. CASE n - L \in 1 .. M /\ ab[n] = b[n - L] /\ m - L \in 1 .. M /\ ab[m] = b[m - L]
    <3>1. n - L < m - L
      BY <1>2, <1>6
    <3> QED
      BY <1>3, <2>3, <3>1
  <2>4. ~(n <= L) => ~(m <= L)
    BY <1>2, <1>6
  <2> QED
    BY <1>4, <2>1, <2>2, <2>3, <2>4
<1>7. S \cup T = UNION {InkOf(body, ab[n]) : n \in 1 .. L + M}
  <2>1. ASSUME NEW n \in 1 .. L
        PROVE  n \in 1 .. L + M /\ ab[n] = a[n]
    <3>1. n \in 1 .. L + M /\ n <= L
      BY <1>2
    <3> QED
      BY <1>2, <3>1
  <2>2. ASSUME NEW n \in 1 .. M
        PROVE  L + n \in 1 .. L + M /\ ab[L + n] = b[n]
    <3>1. L + n \in 1 .. L + M /\ ~(L + n <= L) /\ (L + n) - L = n
      BY <1>2
    <3> QED
      BY <1>2, <3>1
  <2>3. ASSUME NEW c \in S \cup T
        PROVE  \E n \in 1 .. L + M : c \in InkOf(body, ab[n])
    <3>1. CASE c \in S
      BY <1>3, <2>1, <3>1
    <3>2. CASE c \in T
      <4>1. PICK n \in 1 .. M : c \in InkOf(body, b[n])
        BY <1>3, <3>2
      <4> QED
        BY <2>2, <4>1
    <3> QED
      BY <3>1, <3>2
  <2>4. ASSUME NEW n \in 1 .. L + M, NEW c \in InkOf(body, ab[n])
        PROVE  c \in S \cup T
    BY <1>3, <1>4
  <2> QED
    BY <2>3, <2>4
<1>8. Divides(body, ab, S \cup T)
  BY <1>2, <1>5, <1>6, <1>7 DEF Divides
<1> QED
  BY <1>8 DEF ab

LEMMA AppendDivides ==
    ASSUME NEW body, NEW texts, NEW S, Divides(body, texts, S),
           NEW text \in Texts, AsWritten(body, text), Precedes(S, InkOf(body, text))
    PROVE  Divides(body, Append(texts, text), S \cup InkOf(body, text))
<1>1. texts \in Seq(Texts)
  BY DEF Divides
<1>2. Append(texts, text) = texts \o <<text>>
  BY <1>1
<1> QED
  BY <1>2, OneDivides, ConcatDivides

\* The last text goes on.
LEMMA GrowingDivides ==
    ASSUME NEW body, NEW texts, NEW S, Divides(body, texts, S), texts # <<>>,
           NEW text \in Texts, AsWritten(body, text), Precedes(S, InkOf(body, text)),
           NEW longer \in Seq(Texts), Len(longer) = Len(texts),
           \A n \in 1 .. Len(texts) - 1 : longer[n] = texts[n],
           longer[Len(texts)] = texts[Len(texts)] \o text
    PROVE  Divides(body, longer, S \cup InkOf(body, text))
<1> DEFINE k == Len(texts)
           new == InkOf(body, text)
<1>1. k \in Nat \ {0} /\ texts \in Seq(Texts) /\ \A n \in 1 .. k : texts[n] \in Texts
  BY Listed DEF Divides
<1>2. /\ \A n \in 1 .. k : AsWritten(body, texts[n])
      /\ \A n, m \in 1 .. k : n < m => Precedes(InkOf(body, texts[n]), InkOf(body, texts[m]))
      /\ S = UNION {InkOf(body, texts[n]) : n \in 1 .. k}
  BY DEF Divides
<1> HIDE DEF k
<1>3. k \in 1 .. k /\ \A n \in 1 .. k : n = k \/ (n \in 1 .. k - 1 /\ longer[n] = texts[n])
  BY <1>1 DEF k
<1>4. InkOf(body, texts[k]) \subseteq S
  BY <1>2, <1>3
<1>5. InkOf(body, longer[k]) = InkOf(body, texts[k]) \cup new /\ AsWritten(body, longer[k])
  <2>1. Precedes(InkOf(body, texts[k]), new)
    BY <1>4 DEF Precedes
  <2>2. texts[k] \in Texts /\ AsWritten(body, texts[k]) /\ longer[k] = texts[k] \o text
    BY <1>1, <1>2, <1>3 DEF k
  <2> QED
    BY <2>1, <2>2, InkOfConcat
<1> HIDE DEF new
<1>6. \A n \in 1 .. k : AsWritten(body, longer[n])
  BY <1>2, <1>3, <1>5
<1>7. ASSUME NEW n \in 1 .. k, NEW m \in 1 .. k, n < m
      PROVE  Precedes(InkOf(body, longer[n]), InkOf(body, longer[m]))
  <2>1. n # k /\ InkOf(body, longer[n]) = InkOf(body, texts[n]) /\ InkOf(body, texts[n]) \subseteq S
    BY <1>1, <1>2, <1>3, <1>7
  <2>2. Precedes(InkOf(body, texts[n]), InkOf(body, texts[m]))
    BY <1>2, <1>7
  <2>3. CASE m = k
    <3>1. Precedes(S, new)
      BY DEF new
    <3> QED
      BY <1>5, <2>1, <2>2, <2>3, <3>1 DEF Precedes
  <2>4. CASE m # k
    BY <1>3, <2>1, <2>2, <2>4
  <2> QED
    BY <2>3, <2>4
<1>8. S \cup new = UNION {InkOf(body, longer[n]) : n \in 1 .. k}
  <2>1. ASSUME NEW c \in S \cup new
        PROVE  \E n \in 1 .. k : c \in InkOf(body, longer[n])
    <3>1. CASE c \in new
      BY <1>3, <1>5, <3>1
    <3>2. CASE c \in S
      <4>1. PICK n \in 1 .. k : c \in InkOf(body, texts[n])
        BY <1>2, <3>2
      <4> QED
        BY <1>3, <1>5, <4>1
    <3> QED
      BY <3>1, <3>2
  <2>2. ASSUME NEW n \in 1 .. k, NEW c \in InkOf(body, longer[n])
        PROVE  c \in S \cup new
    <3>1. InkOf(body, texts[n]) \subseteq S
      BY <1>2
    <3> QED
      BY <1>3, <1>5, <3>1
  <2> QED
    BY <2>1, <2>2
<1> QED
  BY <1>6, <1>7, <1>8 DEF Divides, k, new

\* Texts with the same ink are as good.
LEMMA RewrittenDivides ==
    ASSUME NEW body, NEW texts, NEW S, Divides(body, texts, S), NEW others \in Seq(Texts), Len(others) = Len(texts),
           \A n \in 1 .. Len(texts) :
               InkOf(body, others[n]) = InkOf(body, texts[n]) /\ AsWritten(body, others[n])
    PROVE  Divides(body, others, S)
<1>1. S = UNION {InkOf(body, others[n]) : n \in 1 .. Len(others)}
  BY DEF Divides
<1> QED
  BY <1>1 DEF Divides

LEMMA FlattenDivides ==
    ASSUME NEW body, NEW texts, NEW S, Divides(body, texts, S),
           NEW rows \in Seq(Seq(Texts)), Len(rows) = Len(texts),
           \A n \in 1 .. Len(texts) : Divides(body, rows[n], InkOf(body, texts[n]))
    PROVE  Divides(body, FlattenSeq(rows), S)
<1> DEFINE flat == FlattenSeq(rows)
           N == Len(rows)
           K == Len(flat)
<1>1. flat \in Seq(Texts) /\ K \in Nat
  BY FlattenType, LenProperties
<1>2. PICK row, col : Spreads(flat, rows, N, row, col)
  BY FlattenIndex
<1> HIDE DEF flat
<1>3. /\ \A k \in 1 .. K : row[k] \in 1 .. N /\ col[k] \in 1 .. Len(rows[row[k]]) /\ flat[k] = rows[row[k]][col[k]]
      /\ \A j, k \in 1 .. K : j < k => row[j] < row[k] \/ (row[j] = row[k] /\ col[j] < col[k])
      /\ \A m \in 1 .. N : \A i \in 1 .. Len(rows[m]) : \E k \in 1 .. K : row[k] = m /\ col[k] = i
  BY <1>2 DEF Spreads
<1>4. /\ \A n, m \in 1 .. N : n < m => Precedes(InkOf(body, texts[n]), InkOf(body, texts[m]))
      /\ S = UNION {InkOf(body, texts[n]) : n \in 1 .. N}
  BY DEF Divides
<1>5. ASSUME NEW n \in 1 .. N
      PROVE  /\ \A i \in 1 .. Len(rows[n]) : AsWritten(body, rows[n][i])
             /\ \A i, j \in 1 .. Len(rows[n]) : i < j => Precedes(InkOf(body, rows[n][i]), InkOf(body, rows[n][j]))
             /\ \A c : c \in InkOf(body, texts[n]) <=> \E i \in 1 .. Len(rows[n]) : c \in InkOf(body, rows[n][i])
  <2>1. Divides(body, rows[n], InkOf(body, texts[n]))
    OBVIOUS
  <2>2. InkOf(body, texts[n]) = UNION {InkOf(body, rows[n][i]) : i \in 1 .. Len(rows[n])}
    BY <2>1 DEF Divides
  <2> QED
    BY <2>1, <2>2 DEF Divides
<1>9. ASSUME NEW c
      PROVE  c \in S <=> \E n \in 1 .. N : c \in InkOf(body, texts[n])
  BY <1>4
<1> HIDE DEF K, N
<1>6. \A k \in 1 .. K : AsWritten(body, flat[k]) /\ InkOf(body, flat[k]) \subseteq InkOf(body, texts[row[k]])
  <2> SUFFICES ASSUME NEW k \in 1 .. K
               PROVE  AsWritten(body, flat[k]) /\ InkOf(body, flat[k]) \subseteq InkOf(body, texts[row[k]])
    OBVIOUS
  <2>1. row[k] \in 1 .. N /\ col[k] \in 1 .. Len(rows[row[k]]) /\ flat[k] = rows[row[k]][col[k]]
    BY <1>3
  <2> QED
    BY <1>5, <2>1
<1>7. ASSUME NEW j \in 1 .. K, NEW k \in 1 .. K, j < k
      PROVE  Precedes(InkOf(body, flat[j]), InkOf(body, flat[k]))
  <2>1. /\ row[j] \in 1 .. N /\ col[j] \in 1 .. Len(rows[row[j]]) /\ flat[j] = rows[row[j]][col[j]]
        /\ row[k] \in 1 .. N /\ col[k] \in 1 .. Len(rows[row[k]]) /\ flat[k] = rows[row[k]][col[k]]
    BY <1>3
  <2>2. CASE row[j] < row[k]
    <3>1. Precedes(InkOf(body, texts[row[j]]), InkOf(body, texts[row[k]]))
      BY <1>4, <2>1, <2>2
    <3> QED
      BY <1>6, <3>1 DEF Precedes
  <2>3. CASE row[j] = row[k] /\ col[j] < col[k]
    BY <1>5, <2>1, <2>3
  <2> QED
    BY <1>3, <1>7, <2>2, <2>3
<1>8. S = UNION {InkOf(body, flat[k]) : k \in 1 .. K}
  <2>1. ASSUME NEW c \in S
        PROVE  \E k \in 1 .. K : c \in InkOf(body, flat[k])
    <3>1. PICK n \in 1 .. N : c \in InkOf(body, texts[n])
      BY <1>9, <2>1
    <3>2. PICK i \in 1 .. Len(rows[n]) : c \in InkOf(body, rows[n][i])
      BY <1>5, <3>1
    <3>3. PICK k \in 1 .. K : row[k] = n /\ col[k] = i
      BY <1>3
    <3> QED
      BY <1>3, <3>2, <3>3
  <2>2. ASSUME NEW k \in 1 .. K, NEW c \in InkOf(body, flat[k])
        PROVE  c \in S
    <3>1. row[k] \in 1 .. N /\ c \in InkOf(body, texts[row[k]])
      BY <1>3, <1>6
    <3> QED
      BY <1>9, <3>1
  <2> QED
    BY <2>1, <2>2
<1> QED
  BY <1>1, <1>6, <1>7, <1>8 DEF Divides, flat, K

\* Texts in a row are one text.
LEMMA FlattenedText ==
    ASSUME NEW body, NEW rows, NEW S, Divides(body, rows, S)
    PROVE  /\ FlattenSeq(rows) \in Texts /\ InkOf(body, FlattenSeq(rows)) = S
           /\ AsWritten(body, FlattenSeq(rows))
<1> DEFINE flat == FlattenSeq(rows)
           N == Len(rows)
           K == Len(flat)
<1>1. rows \in Seq(Seq(Chars)) /\ \A n \in 1 .. N : rows[n] \in Texts
  BY Listed DEF Divides, Texts
<1>2. flat \in Texts
  BY <1>1, FlattenType DEF Texts
<1>3. PICK row, col : Spreads(flat, rows, N, row, col)
  BY <1>1, FlattenIndex
<1> HIDE DEF flat
<1>4. /\ \A k \in 1 .. K : row[k] \in 1 .. N /\ col[k] \in 1 .. Len(rows[row[k]]) /\ flat[k] = rows[row[k]][col[k]]
      /\ \A j, k \in 1 .. K : j < k => row[j] < row[k] \/ (row[j] = row[k] /\ col[j] < col[k])
      /\ \A m \in 1 .. N : \A i \in 1 .. Len(rows[m]) : \E k \in 1 .. K : row[k] = m /\ col[k] = i
  BY <1>3 DEF Spreads
<1>5. /\ \A n \in 1 .. N : AsWritten(body, rows[n])
      /\ \A n, m \in 1 .. N : n < m => Precedes(InkOf(body, rows[n]), InkOf(body, rows[m]))
      /\ S = UNION {InkOf(body, rows[n]) : n \in 1 .. N}
  BY DEF Divides
<1>6. \A c : c \in InkOf(body, flat) <=> \E k \in 1 .. K : flat[k] = c /\ Dark(body, c)
  BY <1>2, InkIs
<1> HIDE DEF N, K
<1>7. ASSUME NEW n \in 1 .. N
      PROVE  /\ \A c : c \in InkOf(body, rows[n]) <=> \E i \in 1 .. Len(rows[n]) : rows[n][i] = c /\ Dark(body, c)
             /\ \A i, j \in 1 .. Len(rows[n]) :
                    i < j /\ Dark(body, rows[n][i]) /\ Dark(body, rows[n][j]) => Before(rows[n][i], rows[n][j])
  <2>1. rows[n] \in Texts /\ AsWritten(body, rows[n])
    BY <1>1, <1>5
  <2> QED
    BY <2>1, InkIs
<1>8. ASSUME NEW c
      PROVE  c \in InkOf(body, flat) <=> c \in S
  <2>1. ASSUME c \in S
        PROVE  c \in InkOf(body, flat)
    <3>1. PICK n \in 1 .. N : c \in InkOf(body, rows[n])
      BY <1>5, <2>1
    <3>2. PICK i \in 1 .. Len(rows[n]) : rows[n][i] = c /\ Dark(body, c)
      BY <1>7, <3>1
    <3>3. PICK k \in 1 .. K : row[k] = n /\ col[k] = i
      BY <1>4
    <3>4. flat[k] = c
      BY <1>4, <3>2, <3>3
    <3> QED
      BY <1>6, <3>2, <3>4
  <2>2. ASSUME c \in InkOf(body, flat)
        PROVE  c \in S
    <3>1. PICK k \in 1 .. K : flat[k] = c /\ Dark(body, c)
      BY <1>6, <2>2
    <3>2. row[k] \in 1 .. N /\ col[k] \in 1 .. Len(rows[row[k]]) /\ rows[row[k]][col[k]] = c
      BY <1>4, <3>1
    <3>3. c \in InkOf(body, rows[row[k]])
      BY <1>7, <3>1, <3>2
    <3> QED
      BY <1>5, <3>2, <3>3
  <2> QED
    BY <2>1, <2>2
<1>9. ASSUME NEW j \in 1 .. K, NEW k \in 1 .. K, j < k, Dark(body, flat[j]), Dark(body, flat[k])
      PROVE  Before(flat[j], flat[k])
  <2>1. /\ row[j] \in 1 .. N /\ col[j] \in 1 .. Len(rows[row[j]]) /\ flat[j] = rows[row[j]][col[j]]
        /\ row[k] \in 1 .. N /\ col[k] \in 1 .. Len(rows[row[k]]) /\ flat[k] = rows[row[k]][col[k]]
    BY <1>4
  <2>2. CASE row[j] < row[k]
    <3>1. Precedes(InkOf(body, rows[row[j]]), InkOf(body, rows[row[k]]))
      BY <1>5, <2>1, <2>2
    <3>2. flat[j] \in InkOf(body, rows[row[j]]) /\ flat[k] \in InkOf(body, rows[row[k]])
      BY <1>7, <1>9, <2>1
    <3> QED
      BY <3>1, <3>2 DEF Precedes
  <2>3. CASE row[j] = row[k] /\ col[j] < col[k]
    <3> DEFINE n == row[k]
    <3>1. /\ n \in 1 .. N /\ col[j] \in 1 .. Len(rows[n]) /\ flat[j] = rows[n][col[j]]
          /\ col[k] \in 1 .. Len(rows[n]) /\ flat[k] = rows[n][col[k]]
      BY <2>1, <2>3
    <3> HIDE DEF n
    <3>2. Dark(body, rows[n][col[j]]) /\ Dark(body, rows[n][col[k]])
      BY <1>9, <3>1
    <3> QED
      BY <1>7, <2>3, <3>1, <3>2
  <2> QED
    BY <1>4, <1>9, <2>2, <2>3
<1>10. AsWritten(body, flat)
  BY <1>2, <1>9, InkIs DEF K
<1> QED
  BY <1>2, <1>8, <1>10 DEF flat

-----------------------------------------------------------------------------
(* The scans, as functions of what they have after each step.              *)

LEMMA AppendType ==
    ASSUME NEW S, NEW s \in Seq(S), NEW e \in S
    PROVE  Append(s, e) \in Seq(S)
  BY AppendProperties

GoesOn(cuts, c) == [cuts EXCEPT ![Len(cuts)] = @ \o <<c>>]

LEMMA GoingOn ==
    ASSUME NEW cuts \in Seq(Texts), NEW c \in Chars
    PROVE  /\ GoesOn(cuts, c) \in Seq(Texts)
           /\ cuts # <<>> => Len(GoesOn(cuts, c)) = Len(cuts)
           /\ cuts # <<>> => \A n \in 1 .. Len(cuts) - 1 : GoesOn(cuts, c)[n] = cuts[n]
           /\ cuts # <<>> => GoesOn(cuts, c)[Len(cuts)] = cuts[Len(cuts)] \o <<c>>
<1>1. <<c>> \in Texts
  BY DEF Texts
<1> DEFINE m == Len(cuts)
           longer == GoesOn(cuts, c)
<1>3. m \in Nat /\ DOMAIN cuts = 1 .. m /\ cuts \in [1 .. m -> Texts] /\ (cuts # <<>> => m \in 1 .. m)
  BY Listed
<1>4. m \in 1 .. m => cuts[m] \o <<c>> \in Texts
  <2> HIDE DEF m
  <2> SUFFICES ASSUME m \in 1 .. m
               PROVE  cuts[m] \o <<c>> \in Texts
    OBVIOUS
  <2>1. cuts[m] \in Texts
    BY <1>3
  <2> QED
    BY <1>1, <2>1, ConcatProperties DEF Texts
<1>5. longer = [cuts EXCEPT ![m] = @ \o <<c>>]
  BY DEF GoesOn
<1> HIDE DEF longer, m
<1>6. longer \in [1 .. m -> Texts]
  BY <1>3, <1>4, <1>5
<1>7. longer \in Seq(Texts) /\ Len(longer) = m
  <2>1. longer \in Seq(Texts) /\ DOMAIN longer = 1 .. m
    BY <1>3, <1>6, MapIsSeq
  <2> QED
    BY <1>3, <2>1
<1>8. cuts # <<>> => longer[m] = cuts[m] \o <<c>> /\ \A n \in 1 .. m - 1 : longer[n] = cuts[n]
  BY <1>3, <1>5
<1> QED
  BY <1>7, <1>8 DEF longer, m

LEMMA CutNextType ==
    ASSUME NEW cuts \in Seq(Texts), NEW c \in Chars, NEW starts
    PROVE  CutNext(cuts, c, starts) \in Seq(Texts)
<1>1. <<c>> \in Texts
  BY DEF Texts
<1>2. Append(cuts, <<c>>) \in Seq(Texts)
  BY <1>1, AppendType
<1> QED
  BY <1>2, GoingOn DEF CutNext, GoesOn

\* f has the parts that are cut up to each character.
Cutting(f, text) ==
    /\ f[0] = <<>> /\ \A i \in 0 .. Len(text) : f[i] \in Seq(Texts)
    /\ \A i \in 1 .. Len(text) : f[i] = Append(f[i - 1], << text[i] >>) \/ (i # 1 /\ f[i] = GoesOn(f[i - 1], text[i]))
Filling(f, most, text) ==
    /\ Cutting(f, text)
    /\ \A i \in 1 .. Len(text) :
           f[i] = Append(f[i - 1], << text[i] >>) \/ Len(Last(f[i - 1])) # most

LEMMA NoTexts == <<>> \in Texts /\ <<>> \in Seq(Texts)
  BY DEF Texts

\* f is what CutBefore has cut up to each character.
CutsOf(f, text, positions) ==
    f = [i \in 0 .. Len(text) |-> IF i = 0 THEN <<>> ELSE CutNext(f[i - 1], text[i], i = 1 \/ i \in positions)]

LEMMA CutBeforeIs ==
    ASSUME NEW text \in Texts,
           NEW positions
    PROVE  \E f : Cutting(f, text) /\ CutBefore(text, positions) = f[Len(text)]
<1> DEFINE n == Len(text)
           Step == [i \in 1 .. n |-> [s \in Seq(Texts) |-> CutNext(s, text[i], i = 1 \/ i \in positions)]]
           f == CHOOSE x : CutsOf(x, text, positions)
<1>1. n \in Nat
  BY LenProperties DEF Texts
<1>2. <<>> \in Seq(Texts)
  BY NoTexts
<1>3. \A i \in 1 .. n : \A s \in Seq(Texts) : CutNext(s, text[i], i = 1 \/ i \in positions) \in Seq(Texts)
  <2> HIDE DEF n
  <2>1. \A i \in 1 .. n : text[i] \in Chars
    BY Listed DEF Texts, n
  <2> QED
    BY <2>1, CutNextType
<1>4. Keeps(Step, Seq(Texts), n)
  <2> HIDE DEF n
  <2> QED
    BY <1>3 DEF Keeps
<1>5. PICK g : Scans(g, Seq(Texts), <<>>, n, Step)
  <2> HIDE DEF n, Step
  <2> QED
    BY <1>1, <1>2, <1>4, RecursionExists
<1>6. CutsOf(g, text, positions)
  <2>1. g \in [0 .. n -> Seq(Texts)] /\ g[0] = <<>> /\ \A i \in 1 .. n : g[i] = Step[i][g[i - 1]]
    BY <1>5 DEF Scans
  <2>2. ASSUME NEW i \in 1 .. n
        PROVE  g[i] = CutNext(g[i - 1], text[i], i = 1 \/ i \in positions)
    <3>1. i - 1 \in 0 .. n
      BY <1>1
    <3> HIDE DEF n
    <3>2. g[i - 1] \in Seq(Texts)
      BY <2>1, <3>1
    <3> QED
      BY <2>1, <3>2
  <2> HIDE DEF Step
  <2> QED
    BY <1>1, <2>1, <2>2 DEF CutsOf
<1>7. CutsOf(f, text, positions)
  <2> HIDE DEF Step, n
  <2> QED
    BY <1>6
<1>8. f[0] = <<>> /\ \A i \in 1 .. n : f[i] = CutNext(f[i - 1], text[i], i = 1 \/ i \in positions)
  <2> HIDE DEF f
  <2> QED
    BY <1>1, <1>7 DEF CutsOf
<1>9. \A i \in 0 .. n : f[i] \in Seq(Texts)
  <2> HIDE DEF f, n
  <2>1. \A i \in 1 .. n : f[i - 1] \in Seq(Texts) => f[i] \in Seq(Texts)
    BY <1>3, <1>8
  <2> QED
    BY <1>1, <1>2, <1>8, <2>1, RecursionType
<1>10. CutBefore(text, positions) = f[Len(text)]
  BY DEF CutBefore, CutsOf
<1> HIDE DEF f
<1> HIDE DEF n
<1>11. \A i \in 1 .. n : f[i] = Append(f[i - 1], << text[i] >>) \/ (i # 1 /\ f[i] = GoesOn(f[i - 1], text[i]))
  BY <1>8 DEF CutNext, GoesOn
<1>12. Cutting(f, text)
  BY <1>8, <1>9, <1>11 DEF Cutting, n
<1> QED
  BY <1>10, <1>12

\* f is what Every has cut up to each character.
FillsOf(f, most, text) ==
    f = [i \in 0 .. Len(text) |-> IF i = 0 THEN <<>> ELSE CutNext(f[i - 1], text[i], i = 1 \/ Len(Last(f[i - 1])) = most)]

LEMMA EveryIs ==
    ASSUME NEW most,
           NEW text \in Texts
    PROVE  \E f : Filling(f, most, text) /\ Every(most, text) = f[Len(text)]
<1> DEFINE n == Len(text)
           Step == [i \in 1 .. n |-> [s \in Seq(Texts) |-> CutNext(s, text[i], i = 1 \/ Len(Last(s)) = most)]]
           f == CHOOSE x : FillsOf(x, most, text)
<1>1. n \in Nat
  BY LenProperties DEF Texts
<1>2. <<>> \in Seq(Texts)
  BY NoTexts
<1>3. \A i \in 1 .. n : \A s \in Seq(Texts) : CutNext(s, text[i], i = 1 \/ Len(Last(s)) = most) \in Seq(Texts)
  <2> HIDE DEF n
  <2>1. \A i \in 1 .. n : text[i] \in Chars
    BY Listed DEF Texts, n
  <2> QED
    BY <2>1, CutNextType
<1>4. Keeps(Step, Seq(Texts), n)
  <2> HIDE DEF n
  <2> QED
    BY <1>3 DEF Keeps
<1>5. PICK g : Scans(g, Seq(Texts), <<>>, n, Step)
  <2> HIDE DEF n, Step
  <2> QED
    BY <1>1, <1>2, <1>4, RecursionExists
<1>6. FillsOf(g, most, text)
  <2>1. g \in [0 .. n -> Seq(Texts)] /\ g[0] = <<>> /\ \A i \in 1 .. n : g[i] = Step[i][g[i - 1]]
    BY <1>5 DEF Scans
  <2>2. ASSUME NEW i \in 1 .. n
        PROVE  g[i] = CutNext(g[i - 1], text[i], i = 1 \/ Len(Last(g[i - 1])) = most)
    <3>1. i - 1 \in 0 .. n
      BY <1>1
    <3> HIDE DEF n
    <3>2. g[i - 1] \in Seq(Texts)
      BY <2>1, <3>1
    <3> QED
      BY <2>1, <3>2
  <2> HIDE DEF Step
  <2> QED
    BY <1>1, <2>1, <2>2 DEF FillsOf
<1>7. FillsOf(f, most, text)
  <2> HIDE DEF Step, n
  <2> QED
    BY <1>6
<1>8. f[0] = <<>> /\ \A i \in 1 .. n : f[i] = CutNext(f[i - 1], text[i], i = 1 \/ Len(Last(f[i - 1])) = most)
  <2> HIDE DEF f
  <2> QED
    BY <1>1, <1>7 DEF FillsOf
<1>9. \A i \in 0 .. n : f[i] \in Seq(Texts)
  <2> HIDE DEF f, n
  <2>1. \A i \in 1 .. n : f[i - 1] \in Seq(Texts) => f[i] \in Seq(Texts)
    BY <1>3, <1>8
  <2> QED
    BY <1>1, <1>2, <1>8, <2>1, RecursionType
<1>10. Every(most, text) = f[Len(text)]
  BY DEF Every, FillsOf
<1> HIDE DEF f
<1> HIDE DEF n
<1>11. \A i \in 1 .. n : f[i] = Append(f[i - 1], << text[i] >>) \/ (i # 1 /\ f[i] = GoesOn(f[i - 1], text[i]))
  BY <1>8 DEF CutNext, GoesOn
<1>12. Cutting(f, text)
  BY <1>8, <1>9, <1>11 DEF Cutting, n
<1>13. \A i \in 1 .. n : f[i] = Append(f[i - 1], << text[i] >>) \/ Len(Last(f[i - 1])) # most
  BY <1>8 DEF CutNext
<1>14. Filling(f, most, text)
  BY <1>12, <1>13 DEF Filling, n
<1> QED
  BY <1>10, <1>14

SplitStates == [done : Seq(Texts), rest : Texts, next : Nat]
NewSplit == [done |-> <<>>, rest |-> <<>>, next |-> 1]

LEMMA SplitNextType ==
    ASSUME NEW body, NEW prose \in Texts, NEW acc \in SplitStates, NEW i \in 1 .. Len(prose)
    PROVE  SplitNext(body, prose, acc, i) \in SplitStates
<1>1. acc.done \in Seq(Texts) /\ acc.rest \in Texts /\ acc.next \in Nat
  BY DEF SplitStates
<1>2. prose[i] \in Chars /\ i \in Nat /\ << prose[i] >> \in Texts
  BY Listed DEF Texts
<1>3. Append(acc.done, acc.rest) \in Seq(Texts) /\ acc.rest \o << prose[i] >> \in Texts /\ <<>> \in Texts
  BY <1>1, <1>2, AppendType, ConcatProperties DEF Texts
<1>4. [done |-> Append(acc.done, acc.rest), rest |-> <<>>, next |-> i + 2] \in SplitStates
  BY <1>2, <1>3 DEF SplitStates
<1>5. [acc EXCEPT !.rest = @ \o << prose[i] >>] \in SplitStates
  BY <1>3 DEF SplitStates
<1> QED
  BY <1>4, <1>5 DEF SplitNext

\* f is what Paragraphs has split up to each character.
SplitOf(f, body, prose) ==
    f = [i \in 0 .. Len(prose) |-> IF i = 0 THEN NewSplit ELSE SplitNext(body, prose, f[i - 1], i)]

LEMMA ParagraphsAre ==
    ASSUME NEW body,
           NEW prose \in Texts
    PROVE  \E f : /\ f[0] = NewSplit /\ \A i \in 0 .. Len(prose) : f[i] \in SplitStates
                  /\ \A i \in 1 .. Len(prose) : f[i] = SplitNext(body, prose, f[i - 1], i)
                  /\ Paragraphs(body, prose) = Append(f[Len(prose)].done, f[Len(prose)].rest)
<1> DEFINE n == Len(prose)
           Step == [i \in 1 .. n |-> [s \in SplitStates |-> SplitNext(body, prose, s, i)]]
           f == CHOOSE x : SplitOf(x, body, prose)
<1>1. n \in Nat
  BY LenProperties DEF Texts
<1>2. NewSplit \in SplitStates
  BY NoTexts DEF NewSplit, SplitStates
<1>3. \A i \in 1 .. n : \A s \in SplitStates : SplitNext(body, prose, s, i) \in SplitStates
  BY SplitNextType
<1>4. Keeps(Step, SplitStates, n)
  <2> HIDE DEF n
  <2> QED
    BY <1>3 DEF Keeps
<1>5. PICK g : Scans(g, SplitStates, NewSplit, n, Step)
  <2> HIDE DEF n, Step
  <2> QED
    BY <1>1, <1>2, <1>4, RecursionExists
<1>6. SplitOf(g, body, prose)
  <2>1. g \in [0 .. n -> SplitStates] /\ g[0] = NewSplit /\ \A i \in 1 .. n : g[i] = Step[i][g[i - 1]]
    BY <1>5 DEF Scans
  <2>2. ASSUME NEW i \in 1 .. n
        PROVE  g[i] = SplitNext(body, prose, g[i - 1], i)
    <3>1. i - 1 \in 0 .. n
      BY <1>1
    <3> HIDE DEF n
    <3>2. g[i - 1] \in SplitStates
      BY <2>1, <3>1
    <3> QED
      BY <2>1, <3>2
  <2> HIDE DEF Step
  <2> QED
    BY <1>1, <2>1, <2>2 DEF SplitOf
<1>7. SplitOf(f, body, prose)
  <2> HIDE DEF Step, n
  <2> QED
    BY <1>6
<1>8. f[0] = NewSplit /\ \A i \in 1 .. n : f[i] = SplitNext(body, prose, f[i - 1], i)
  <2> HIDE DEF f
  <2> QED
    BY <1>1, <1>7 DEF SplitOf
<1>9. \A i \in 0 .. n : f[i] \in SplitStates
  <2> HIDE DEF f, n
  <2>1. \A i \in 1 .. n : f[i - 1] \in SplitStates => f[i] \in SplitStates
    BY <1>3, <1>8
  <2> QED
    BY <1>1, <1>2, <1>8, <2>1, RecursionType
<1>10. Paragraphs(body, prose) = Append(f[Len(prose)].done, f[Len(prose)].rest)
  BY DEF Paragraphs, SplitOf, NewSplit
<1> HIDE DEF f
<1> QED
  BY <1>8, <1>9, <1>10

LEMMA StripType ==
    ASSUME NEW body, NEW texts \in Seq(Texts)
    PROVE  /\ [n \in DOMAIN texts |-> Strip(body, texts[n])] \in Seq(Texts)
           /\ Len([n \in DOMAIN texts |-> Strip(body, texts[n])]) = Len(texts)
           /\ \A n \in 1 .. Len(texts) : [k \in DOMAIN texts |-> Strip(body, texts[k])][n] = Strip(body, texts[n])
<1>1. Len(texts) \in Nat /\ DOMAIN texts = 1 .. Len(texts) /\ \A n \in 1 .. Len(texts) : texts[n] \in Texts
  BY Listed
<1> DEFINE others == [n \in DOMAIN texts |-> Strip(body, texts[n])]
<1>2. others \in [1 .. Len(texts) -> Texts]
  BY <1>1, Stripping
<1>3. \A n \in 1 .. Len(texts) : others[n] = Strip(body, texts[n])
  BY <1>1
<1> HIDE DEF others
<1>4. others \in Seq(Texts)
  BY <1>1, <1>2, MapIsSeq
<1> QED
  BY <1>1, <1>2, <1>3, <1>4 DEF others

TextStates == [parts : Seq(Texts), current : Texts]
NewText == [parts |-> <<>>, current |-> <<>>]

\* The parts of a sentence that never fits.
CutAt(body, most, sentence) == [n \in DOMAIN Every(most, sentence) |-> Strip(body, Every(most, sentence)[n])]

LEMMA TakeSentenceType ==
    ASSUME NEW body, NEW most, NEW acc \in TextStates, NEW sentence \in Texts
    PROVE  TakeSentence(body, most, acc, sentence) \in TextStates
<1> DEFINE pieces == CutAt(body, most, sentence)
           closed == Close(body, acc)
<1>1. acc.parts \in Seq(Texts) /\ acc.current \in Texts
  BY DEF TextStates
<1>2. closed \in Seq(Texts)
  BY <1>1, Stripping, AppendType DEF Close
<1>3. pieces \in Seq(Texts)
  <2>1. Every(most, sentence) \in Seq(Texts)
    <3>1. PICK f : Filling(f, most, sentence) /\ Every(most, sentence) = f[Len(sentence)]
      BY EveryIs
    <3>2. Len(sentence) \in 0 .. Len(sentence)
      BY LenProperties DEF Texts
    <3> QED
      BY <3>1, <3>2 DEF Filling, Cutting
  <2> QED
    BY <2>1, StripType DEF CutAt
<1>4. acc.current \o sentence \in Texts /\ <<>> \in Texts
  BY <1>1, ConcatProperties DEF Texts
<1>5. closed \o pieces \in Seq(Texts)
  <2> HIDE DEF closed, pieces
  <2> QED
    BY <1>2, <1>3, ConcatProperties
<1>6. [acc EXCEPT !.current = @ \o sentence] \in TextStates
  BY <1>4 DEF TextStates
<1>7. /\ [parts |-> closed, current |-> sentence] \in TextStates
      /\ [parts |-> closed \o pieces, current |-> <<>>] \in TextStates
  <2> HIDE DEF closed, pieces
  <2> QED
    BY <1>2, <1>4, <1>5 DEF TextStates
<1> QED
  BY <1>6, <1>7 DEF TakeSentence, CutAt

\* f is what the sentences up to each one make.
JoinsOf(f, body, most, sentences) ==
    f = [i \in 0 .. Len(sentences) |-> IF i = 0 THEN NewText ELSE TakeSentence(body, most, f[i - 1], sentences[i])]

LEMMA SplitUnitIs ==
    ASSUME NEW body,
           NEW most,
           NEW unit,
           NEW sentences \in Seq(Texts),
           sentences = Sentences(body, unit),
           ~(Len(unit) <= most)
    PROVE  \E f : /\ f[0] = NewText /\ \A i \in 0 .. Len(sentences) : f[i] \in TextStates
                  /\ \A i \in 1 .. Len(sentences) : f[i] = TakeSentence(body, most, f[i - 1], sentences[i])
                  /\ SplitUnit(body, unit, most) = NotEmpty(Close(body, f[Len(sentences)]))
<1> DEFINE n == Len(sentences)
           Step == [i \in 1 .. n |-> [s \in TextStates |-> TakeSentence(body, most, s, sentences[i])]]
           f == CHOOSE x : JoinsOf(x, body, most, sentences)
<1>1. n \in Nat
  BY LenProperties
<1>2. NewText \in TextStates
  BY NoTexts DEF NewText, TextStates
<1>3. \A i \in 1 .. n : \A s \in TextStates : TakeSentence(body, most, s, sentences[i]) \in TextStates
  BY Listed, TakeSentenceType
<1>4. Keeps(Step, TextStates, n)
  <2> HIDE DEF n
  <2> QED
    BY <1>3 DEF Keeps
<1>5. PICK g : Scans(g, TextStates, NewText, n, Step)
  <2> HIDE DEF n, Step
  <2> QED
    BY <1>1, <1>2, <1>4, RecursionExists
<1>6. JoinsOf(g, body, most, sentences)
  <2>1. g \in [0 .. n -> TextStates] /\ g[0] = NewText /\ \A i \in 1 .. n : g[i] = Step[i][g[i - 1]]
    BY <1>5 DEF Scans
  <2>2. ASSUME NEW i \in 1 .. n
        PROVE  g[i] = TakeSentence(body, most, g[i - 1], sentences[i])
    <3>1. i - 1 \in 0 .. n
      BY <1>1
    <3> HIDE DEF n
    <3>2. g[i - 1] \in TextStates
      BY <2>1, <3>1
    <3> QED
      BY <2>1, <3>2
  <2> HIDE DEF Step
  <2> QED
    BY <1>1, <2>1, <2>2 DEF JoinsOf
<1>7. JoinsOf(f, body, most, sentences)
  <2> HIDE DEF Step, n
  <2> QED
    BY <1>6
<1>8. f[0] = NewText /\ \A i \in 1 .. n : f[i] = TakeSentence(body, most, f[i - 1], sentences[i])
  <2> HIDE DEF f
  <2> QED
    BY <1>1, <1>7 DEF JoinsOf
<1>9. \A i \in 0 .. n : f[i] \in TextStates
  <2> HIDE DEF f, n
  <2>1. \A i \in 1 .. n : f[i - 1] \in TextStates => f[i] \in TextStates
    BY <1>3, <1>8
  <2> QED
    BY <1>1, <1>2, <1>8, <2>1, RecursionType
<1>10. SplitUnit(body, unit, most) = NotEmpty(Close(body, f[Len(sentences)]))
  BY DEF SplitUnit, JoinsOf, NewText
<1> HIDE DEF f
<1> QED
  BY <1>8, <1>9, <1>10

PackStates == [pieces : Seq(Texts), current : Texts]
NewPack == [pieces |-> <<>>, current |-> <<>>]

LEMMA JoinType ==
    ASSUME NEW first \in Texts, NEW second \in Texts
    PROVE  Joined(first, second) \in Texts
<1>1. ParagraphJoin \in Texts
  BY DEF ParagraphJoin, Added, Texts, Chars
<1>2. first \o ParagraphJoin \in Texts
  BY <1>1, ConcatProperties DEF Texts
<1>3. (first \o ParagraphJoin) \o second \in Texts
  BY <1>2, ConcatProperties DEF Texts
<1> QED
  BY <1>3 DEF Joined

LEMMA PackUnitType ==
    ASSUME NEW most, NEW acc \in PackStates, NEW unit \in Texts
    PROVE  PackUnit(most, acc, unit) \in PackStates
<1>1. acc.pieces \in Seq(Texts) /\ acc.current \in Texts
  BY DEF PackStates
<1>2. Joined(acc.current, unit) \in Texts /\ Append(acc.pieces, acc.current) \in Seq(Texts)
  BY <1>1, JoinType, AppendType
<1>3. [acc EXCEPT !.current = Joined(@, unit)] \in PackStates
  BY <1>2 DEF PackStates
<1>4. [pieces |-> Append(acc.pieces, acc.current), current |-> unit] \in PackStates
  BY <1>2 DEF PackStates
<1> QED
  BY <1>3, <1>4 DEF PackUnit

\* f is what the units up to each one make.
PacksOf(f, units, most) ==
    f = [i \in 0 .. Len(units) |-> IF i = 0 THEN NewPack ELSE PackUnit(most, f[i - 1], units[i])]

LEMMA PackIs ==
    ASSUME NEW most,
           NEW units \in Seq(Texts)
    PROVE  \E f : /\ f[0] = NewPack /\ \A i \in 0 .. Len(units) : f[i] \in PackStates
                  /\ \A i \in 1 .. Len(units) : f[i] = PackUnit(most, f[i - 1], units[i])
                  /\ Pack(units, most) = NotEmpty(Append(f[Len(units)].pieces, f[Len(units)].current))
<1> DEFINE n == Len(units)
           Step == [i \in 1 .. n |-> [s \in PackStates |-> PackUnit(most, s, units[i])]]
           f == CHOOSE x : PacksOf(x, units, most)
<1>1. n \in Nat
  BY LenProperties
<1>2. NewPack \in PackStates
  BY NoTexts DEF NewPack, PackStates
<1>3. \A i \in 1 .. n : \A s \in PackStates : PackUnit(most, s, units[i]) \in PackStates
  BY Listed, PackUnitType
<1>4. Keeps(Step, PackStates, n)
  <2> HIDE DEF n
  <2> QED
    BY <1>3 DEF Keeps
<1>5. PICK g : Scans(g, PackStates, NewPack, n, Step)
  <2> HIDE DEF n, Step
  <2> QED
    BY <1>1, <1>2, <1>4, RecursionExists
<1>6. PacksOf(g, units, most)
  <2>1. g \in [0 .. n -> PackStates] /\ g[0] = NewPack /\ \A i \in 1 .. n : g[i] = Step[i][g[i - 1]]
    BY <1>5 DEF Scans
  <2>2. ASSUME NEW i \in 1 .. n
        PROVE  g[i] = PackUnit(most, g[i - 1], units[i])
    <3>1. i - 1 \in 0 .. n
      BY <1>1
    <3> HIDE DEF n
    <3>2. g[i - 1] \in PackStates
      BY <2>1, <3>1
    <3> QED
      BY <2>1, <3>2
  <2> HIDE DEF Step
  <2> QED
    BY <1>1, <2>1, <2>2 DEF PacksOf
<1>7. PacksOf(f, units, most)
  <2> HIDE DEF Step, n
  <2> QED
    BY <1>6
<1>8. f[0] = NewPack /\ \A i \in 1 .. n : f[i] = PackUnit(most, f[i - 1], units[i])
  <2> HIDE DEF f
  <2> QED
    BY <1>1, <1>7 DEF PacksOf
<1>9. \A i \in 0 .. n : f[i] \in PackStates
  <2> HIDE DEF f, n
  <2>1. \A i \in 1 .. n : f[i - 1] \in PackStates => f[i] \in PackStates
    BY <1>3, <1>8
  <2> QED
    BY <1>1, <1>2, <1>8, <2>1, RecursionType
<1>10. Pack(units, most) = NotEmpty(Append(f[Len(units)].pieces, f[Len(units)].current))
  BY DEF Pack, PacksOf, NewPack
<1> HIDE DEF f
<1> QED
  BY <1>8, <1>9, <1>10

-----------------------------------------------------------------------------
(* What stands in a text up to a character, and in texts up to one.        *)

InkTo(body, text, i) == {text[j] : j \in {j \in 1 .. i : Dark(body, text[j])}}
InkThrough(body, texts, n) == UNION {InkOf(body, texts[k]) : k \in 1 .. n}

LEMMA InkToIs ==
    ASSUME NEW body, NEW text \in Texts, AsWritten(body, text)
    PROVE  /\ Len(text) \in Nat /\ InkTo(body, text, 0) = {} /\ InkTo(body, text, Len(text)) = InkOf(body, text)
           /\ \A i \in 1 .. Len(text) :
                /\ text[i] \in Chars /\ << text[i] >> \in Texts /\ AsWritten(body, << text[i] >>)
                /\ InkTo(body, text, i) = InkTo(body, text, i - 1) \cup InkOf(body, << text[i] >>)
                /\ Precedes(InkTo(body, text, i - 1), InkOf(body, << text[i] >>))
<1>1. /\ Len(text) \in Nat /\ \A i \in 1 .. Len(text) : text[i] \in Chars
      /\ \A c : c \in InkOf(body, text) <=> \E i \in 1 .. Len(text) : text[i] = c /\ Dark(body, c)
      /\ \A i, j \in 1 .. Len(text) :
             i < j /\ Dark(body, text[i]) /\ Dark(body, text[j]) => Before(text[i], text[j])
  BY InkIs
<1>2. InkTo(body, text, 0) = {} /\ InkTo(body, text, Len(text)) = InkOf(body, text)
  <2>1. \A c : c \in InkTo(body, text, Len(text)) <=> \E i \in 1 .. Len(text) : text[i] = c /\ Dark(body, c)
    BY DEF InkTo
  <2>2. 1 .. 0 = {}
    OBVIOUS
  <2> QED
    BY <1>1, <2>1, <2>2 DEF InkTo
<1>3. ASSUME NEW i \in 1 .. Len(text)
      PROVE  /\ text[i] \in Chars /\ << text[i] >> \in Texts /\ AsWritten(body, << text[i] >>)
             /\ InkTo(body, text, i) = InkTo(body, text, i - 1) \cup InkOf(body, << text[i] >>)
             /\ Precedes(InkTo(body, text, i - 1), InkOf(body, << text[i] >>))
  <2> DEFINE c == text[i]
  <2>1. c \in Chars
    BY <1>1
  <2>2. /\ <<c>> \in Texts /\ AsWritten(body, <<c>>)
        /\ InkOf(body, <<c>>) = IF Dark(body, c) THEN {c} ELSE {}
    BY <2>1, OneCharacter
  <2>3. 1 .. i = (1 .. i - 1) \cup {i} /\ \A j \in 1 .. i - 1 : j \in 1 .. Len(text) /\ j < i
    BY <1>1
  <2>4. Precedes(InkTo(body, text, i - 1), InkOf(body, <<c>>))
    BY <1>1, <2>2, <2>3 DEF InkTo, Precedes
  <2>5. ASSUME NEW d
        PROVE  d \in InkTo(body, text, i) <=> d \in InkTo(body, text, i - 1) \cup InkOf(body, <<c>>)
    <3>1. d \in InkTo(body, text, i) <=> \E j \in 1 .. i : Dark(body, text[j]) /\ d = text[j]
      BY DEF InkTo
    <3>2. d \in InkTo(body, text, i - 1) <=> \E j \in 1 .. i - 1 : Dark(body, text[j]) /\ d = text[j]
      BY DEF InkTo
    <3>3. d \in InkOf(body, <<c>>) <=> Dark(body, c) /\ d = c
      BY <2>2
    <3> QED
      BY <2>3, <3>1, <3>2, <3>3
  <2> QED
    BY <2>1, <2>2, <2>4, <2>5
<1> QED
  BY <1>1, <1>2, <1>3

LEMMA InkThroughIs ==
    ASSUME NEW body, NEW texts, NEW S, Divides(body, texts, S)
    PROVE  /\ Len(texts) \in Nat /\ InkThrough(body, texts, 0) = {} /\ InkThrough(body, texts, Len(texts)) = S
           /\ \A n \in 1 .. Len(texts) :
                /\ texts[n] \in Texts /\ AsWritten(body, texts[n])
                /\ InkThrough(body, texts, n) = InkThrough(body, texts, n - 1) \cup InkOf(body, texts[n])
                /\ Precedes(InkThrough(body, texts, n - 1), InkOf(body, texts[n]))
<1>1. /\ Len(texts) \in Nat /\ \A n \in 1 .. Len(texts) : texts[n] \in Texts
      /\ \A n \in 1 .. Len(texts) : AsWritten(body, texts[n])
      /\ \A n, m \in 1 .. Len(texts) : n < m => Precedes(InkOf(body, texts[n]), InkOf(body, texts[m]))
      /\ S = UNION {InkOf(body, texts[n]) : n \in 1 .. Len(texts)}
  BY Listed DEF Divides
<1>2. InkThrough(body, texts, 0) = {} /\ InkThrough(body, texts, Len(texts)) = S
  BY <1>1 DEF InkThrough
<1>3. ASSUME NEW n \in 1 .. Len(texts)
      PROVE  /\ InkThrough(body, texts, n) = InkThrough(body, texts, n - 1) \cup InkOf(body, texts[n])
             /\ Precedes(InkThrough(body, texts, n - 1), InkOf(body, texts[n]))
  <2>1. 1 .. n = (1 .. n - 1) \cup {n} /\ \A j \in 1 .. n - 1 : j \in 1 .. Len(texts) /\ j < n
    BY <1>1
  <2>2. ASSUME NEW d
        PROVE  d \in InkThrough(body, texts, n) <=> d \in InkThrough(body, texts, n - 1) \cup InkOf(body, texts[n])
    BY <2>1 DEF InkThrough
  <2>3. ASSUME NEW c \in InkThrough(body, texts, n - 1), NEW d \in InkOf(body, texts[n])
        PROVE  Before(c, d)
    <3>1. PICK j \in 1 .. n - 1 : c \in InkOf(body, texts[j])
      BY DEF InkThrough
    <3>2. Precedes(InkOf(body, texts[j]), InkOf(body, texts[n]))
      BY <1>1, <2>1
    <3> QED
      BY <3>1, <3>2 DEF Precedes
  <2> QED
    BY <2>2, <2>3 DEF Precedes
<1> QED
  BY <1>1, <1>2, <1>3

Remain(body, left, texts, S) ==
    /\ Divides(body, left, S)
    /\ \A k \in 1 .. Len(left) : left[k] # <<>> /\ left[k] \in {texts[n] : n \in 1 .. Len(texts)}

LEMMA NotEmptyRemain ==
    ASSUME NEW body, NEW texts, NEW S, Divides(body, texts, S)
    PROVE  Remain(body, NotEmpty(texts), texts, S)
<1> DEFINE rows == [n \in DOMAIN texts |-> IF texts[n] = <<>> THEN <<>> ELSE << texts[n] >>]
           N == Len(texts)
<1>1. N \in Nat /\ DOMAIN texts = 1 .. N /\ \A n \in 1 .. N : texts[n] \in Texts /\ AsWritten(body, texts[n])
  BY Listed DEF Divides
<1> HIDE DEF N
<1>2. rows \in Seq(Seq(Texts)) /\ Len(rows) = N
  <2>1. \A t \in Texts : <<t>> \in Seq(Texts)
    OBVIOUS
  <2>2. <<>> \in Seq(Texts)
    OBVIOUS
  <2>3. rows \in [1 .. N -> Seq(Texts)]
    BY <1>1, <2>1, <2>2
  <2> HIDE DEF rows
  <2>4. rows \in Seq(Seq(Texts)) /\ DOMAIN rows = 1 .. N
    BY <1>1, <2>3, MapIsSeq
  <2> QED
    BY <1>1, <2>4
<1>3. \A n \in 1 .. N : rows[n] = IF texts[n] = <<>> THEN <<>> ELSE << texts[n] >>
  BY <1>1
<1> HIDE DEF rows
<1>4. ASSUME NEW n \in 1 .. N
      PROVE  Divides(body, rows[n], InkOf(body, texts[n]))
  <2>1. CASE texts[n] = <<>>
    <3>1. rows[n] = <<>> /\ InkOf(body, texts[n]) = {}
      BY <1>3, <2>1, NoInk
    <3> QED
      BY <3>1, NothingDivides
  <2>2. CASE texts[n] # <<>>
    BY <1>1, <1>3, <2>2, OneDivides
  <2> QED
    BY <2>1, <2>2
<1>5. Divides(body, FlattenSeq(rows), S)
  BY <1>2, <1>4, FlattenDivides DEF N
<1>6. NotEmpty(texts) = FlattenSeq(rows)
  BY DEF NotEmpty, rows
<1> DEFINE flat == FlattenSeq(rows)
<1>7. PICK row, col : Spreads(flat, rows, Len(rows), row, col)
  BY <1>2, FlattenIndex
<1> HIDE DEF flat
<1>8. ASSUME NEW k \in 1 .. Len(flat)
      PROVE  flat[k] # <<>> /\ flat[k] \in {texts[n] : n \in 1 .. N}
  <2>1. row[k] \in 1 .. N /\ col[k] \in 1 .. Len(rows[row[k]]) /\ flat[k] = rows[row[k]][col[k]]
    BY <1>2, <1>7 DEF Spreads
  <2> DEFINE n == row[k]
  <2> HIDE DEF n
  <2>2. texts[n] # <<>>
    <3> SUFFICES ASSUME texts[n] = <<>>
                 PROVE  FALSE
      OBVIOUS
    <3>1. rows[n] = <<>>
      BY <1>3, <2>1 DEF n
    <3>2. Len(<<>>) = 0
      BY EmptySeq
    <3>3. col[k] \in 1 .. 0
      BY <2>1, <3>1, <3>2 DEF n
    <3> QED
      BY <3>3
  <2>3. rows[n] = << texts[n] >>
    BY <1>3, <2>1, <2>2 DEF n
  <2>4. Len(rows[n]) = 1 /\ rows[n][1] = texts[n]
    BY <2>3
  <2>5. col[k] = 1 /\ flat[k] = texts[n] /\ n \in 1 .. N
    BY <2>1, <2>4 DEF n
  <2> QED
    BY <2>2, <2>5
<1> QED
  BY <1>5, <1>6, <1>8 DEF flat, N, Remain

-----------------------------------------------------------------------------
(* Cutting a text.                                                         *)

LEMMA CutsDivide ==
    ASSUME NEW body, NEW text \in Texts, AsWritten(body, text), NEW f, Cutting(f, text)
    PROVE  Divides(body, f[Len(text)], InkOf(body, text)) /\ \A i \in 1 .. Len(text) : f[i] # <<>>
<1> DEFINE n == Len(text)
           T == {i \in 0 .. n : Divides(body, f[i], InkTo(body, text, i)) /\ (i # 0 => f[i] # <<>>)}
<1>1. /\ n \in Nat /\ InkTo(body, text, 0) = {} /\ InkTo(body, text, n) = InkOf(body, text)
      /\ \A i \in 1 .. n :
           /\ text[i] \in Chars /\ << text[i] >> \in Texts /\ AsWritten(body, << text[i] >>)
           /\ InkTo(body, text, i) = InkTo(body, text, i - 1) \cup InkOf(body, << text[i] >>)
           /\ Precedes(InkTo(body, text, i - 1), InkOf(body, << text[i] >>))
  BY InkToIs
<1>5. /\ f[0] = <<>> /\ \A i \in 0 .. n : f[i] \in Seq(Texts)
      /\ \A i \in 1 .. n : f[i] = Append(f[i - 1], << text[i] >>) \/ (i # 1 /\ f[i] = GoesOn(f[i - 1], text[i]))
  BY DEF Cutting
<1>2. 0 \in T
  <2>1. Divides(body, f[0], InkTo(body, text, 0))
    BY <1>1, <1>5, NothingDivides
  <2> HIDE DEF n
  <2> QED
    BY <1>1, <2>1
<1>3. ASSUME NEW i \in 1 .. n, i - 1 \in T
      PROVE  i \in T
  <2> DEFINE cuts == f[i - 1]
             c == text[i]
             so == InkTo(body, text, i - 1)
  <2>1. /\ cuts \in Seq(Texts) /\ c \in Chars /\ Divides(body, cuts, so) /\ (i # 1 => cuts # <<>>)
        /\ <<c>> \in Texts /\ AsWritten(body, <<c>>)
        /\ InkTo(body, text, i) = so \cup InkOf(body, <<c>>) /\ Precedes(so, InkOf(body, <<c>>))
    <3>1. i - 1 \in 0 .. n
      BY <1>1
    <3> QED
      BY <1>1, <1>3, <1>5, <3>1
  <2> HIDE DEF cuts, c, so
  <2>2. CASE f[i] = Append(cuts, <<c>>)
    <3>2. Divides(body, f[i], InkTo(body, text, i))
      BY <2>1, <2>2, AppendDivides
    <3>3. Len(f[i]) = Len(cuts) + 1 /\ Len(cuts) \in Nat
      BY <2>1, <2>2, AppendProperties, LenProperties
    <3>4. f[i] # <<>>
      BY <3>3, EmptySeq
    <3> QED
      BY <1>1, <3>2, <3>4
  <2>3. CASE i # 1 /\ f[i] = GoesOn(cuts, c)
    <3> DEFINE longer == GoesOn(cuts, c)
    <3>1. /\ longer \in Seq(Texts) /\ Len(longer) = Len(cuts)
          /\ \A k \in 1 .. Len(cuts) - 1 : longer[k] = cuts[k]
          /\ longer[Len(cuts)] = cuts[Len(cuts)] \o <<c>>
      BY <2>1, <2>3, GoingOn
    <3> HIDE DEF longer
    <3>2. Divides(body, longer, so \cup InkOf(body, <<c>>))
      BY <2>1, <2>3, <3>1, GrowingDivides
    <3>3. longer # <<>>
      BY <2>1, <2>3, <3>1, Listed
    <3>4. Divides(body, f[i], InkTo(body, text, i)) /\ f[i] # <<>>
      BY <2>1, <2>3, <3>2, <3>3 DEF longer
    <3> QED
      BY <1>1, <3>4
  <2>4. f[i] = Append(cuts, <<c>>) \/ (i # 1 /\ f[i] = GoesOn(cuts, c))
    BY <1>5 DEF cuts, c
  <2> QED
    BY <2>2, <2>3, <2>4
<1>4. \A i \in 0 .. n : i \in T
  <2> HIDE DEF T, n
  <2> QED
    BY <1>1, <1>2, <1>3, Climbs
<1>6. n \in 0 .. n /\ \A i \in 1 .. n : i \in 0 .. n /\ i # 0
  BY <1>1
<1> QED
  BY <1>1, <1>4, <1>6

LEMMA CutBeforeDivides ==
    ASSUME NEW body, NEW text \in Texts, AsWritten(body, text), NEW positions
    PROVE  Divides(body, CutBefore(text, positions), InkOf(body, text))
<1>1. PICK f : Cutting(f, text) /\ CutBefore(text, positions) = f[Len(text)]
  BY CutBeforeIs
<1> QED
  BY <1>1, CutsDivide

LEMMA EveryDivides ==
    ASSUME NEW body, NEW text \in Texts, AsWritten(body, text), NEW most \in Nat \ {0}
    PROVE  /\ Divides(body, Every(most, text), InkOf(body, text))
           /\ \A n \in 1 .. Len(Every(most, text)) : Len(Every(most, text)[n]) <= most
<1>1. PICK f : Filling(f, most, text) /\ Every(most, text) = f[Len(text)]
  BY EveryIs
<1>2. /\ Cutting(f, text) /\ f[0] = <<>> /\ \A i \in 0 .. Len(text) : f[i] \in Seq(Texts)
      /\ \A i \in 1 .. Len(text) :
             f[i] = Append(f[i - 1], << text[i] >>) \/ (i # 1 /\ Len(Last(f[i - 1])) # most /\ f[i] = GoesOn(f[i - 1], text[i]))
  BY <1>1 DEF Filling, Cutting
<1>3. Divides(body, f[Len(text)], InkOf(body, text)) /\ \A i \in 1 .. Len(text) : f[i] # <<>>
  BY <1>2, CutsDivide
<1> DEFINE n == Len(text)
           T == {i \in 0 .. n : \A k \in 1 .. Len(f[i]) : Len(f[i][k]) <= most}
<1>4. n \in Nat /\ \A i \in 1 .. n : text[i] \in Chars
  BY InkIs
<1>5. 0 \in T
  <2>1. 1 .. Len(f[0]) = {}
    <3>1. Len(<<>>) = 0 /\ f[0] = <<>>
      BY <1>2, EmptySeq
    <3> QED
      BY <3>1
  <2> QED
    BY <1>4, <2>1
<1>6. ASSUME NEW i \in 1 .. n, i - 1 \in T
      PROVE  i \in T
  <2> DEFINE cuts == f[i - 1]
             c == text[i]
  <2>1. i - 1 \in 0 .. n /\ (i # 1 => i - 1 \in 1 .. n)
    BY <1>4
  <2>2. /\ cuts \in Seq(Texts) /\ c \in Chars /\ (i # 1 => cuts # <<>>)
        /\ \A k \in 1 .. Len(cuts) : Len(cuts[k]) <= most
    BY <1>2, <1>3, <1>4, <1>6, <2>1
  <2>9. f[i] = Append(cuts, <<c>>) \/ (i # 1 /\ Len(Last(cuts)) # most /\ f[i] = GoesOn(cuts, c))
    BY <1>2
  <2>3. Len(cuts) \in Nat /\ \A k \in 1 .. Len(cuts) : cuts[k] \in Texts
    BY <2>2, Listed
  <2> HIDE DEF cuts, c
  <2>4. CASE f[i] = Append(cuts, <<c>>)
    <3>2. <<c>> \in Texts /\ Len(<<c>>) = 1
      BY <2>2 DEF Texts
    <3>3. /\ Len(f[i]) = Len(cuts) + 1 /\ \A k \in 1 .. Len(cuts) : f[i][k] = cuts[k]
          /\ f[i][Len(cuts) + 1] = <<c>>
      BY <2>2, <2>4, <3>2, AppendProperties
    <3>4. ASSUME NEW k \in 1 .. Len(f[i])
          PROVE  Len(f[i][k]) <= most
      <4>1. CASE k = Len(cuts) + 1
        <5>1. Len(f[i][k]) = 1
          BY <3>2, <3>3, <4>1
        <5> QED
          BY <5>1
      <4>2. CASE k \in 1 .. Len(cuts)
        BY <2>2, <3>3, <4>2
      <4> QED
        BY <2>3, <3>3, <4>1, <4>2
    <3> QED
      BY <1>4, <3>4
  <2>5. CASE i # 1 /\ Len(Last(cuts)) # most /\ f[i] = GoesOn(cuts, c)
    <3>1. /\ Len(f[i]) = Len(cuts) /\ \A k \in 1 .. Len(cuts) - 1 : f[i][k] = cuts[k]
          /\ f[i][Len(cuts)] = cuts[Len(cuts)] \o <<c>>
      BY <2>2, <2>5, GoingOn
    <3>2. <<c>> \in Texts /\ Len(<<c>>) = 1
      BY <2>2 DEF Texts
    <3>3. Len(cuts) \in 1 .. Len(cuts) /\ cuts[Len(cuts)] \in Texts /\ Len(cuts[Len(cuts)]) <= most
      BY <2>2, <2>3, <2>5, Listed
    <3>4. Len(cuts[Len(cuts)]) # most /\ Len(cuts[Len(cuts)]) \in Nat
      BY <2>5, <3>3, InkIs DEF Last
    <3>5. Len(f[i][Len(cuts)]) = Len(cuts[Len(cuts)]) + 1
      BY <3>1, <3>2, <3>3, InkOfConcat
    <3>6. ASSUME NEW k \in 1 .. Len(f[i])
          PROVE  Len(f[i][k]) <= most
      <4>1. CASE k = Len(cuts)
        BY <3>3, <3>4, <3>5, <4>1
      <4>2. CASE k \in 1 .. Len(cuts) - 1
        <5>1. k \in 1 .. Len(cuts)
          BY <2>3, <4>2
        <5> QED
          BY <2>2, <3>1, <4>2, <5>1
      <4> QED
        BY <2>3, <3>1, <4>1, <4>2
    <3> QED
      BY <1>4, <3>6
  <2> QED
    BY <2>4, <2>5, <2>9
<1>7. \A i \in 0 .. n : i \in T
  <2> HIDE DEF T, n
  <2> QED
    BY <1>4, <1>5, <1>6, Climbs
<1>8. n \in 0 .. n
  BY <1>4
<1> QED
  BY <1>1, <1>3, <1>7, <1>8

-----------------------------------------------------------------------------
(* The last text of a list, as it grows or is written anew.                *)

LEMMA LastGrows ==
    ASSUME NEW body, NEW texts \in Seq(Texts), NEW last \in Texts, NEW S, Divides(body, Append(texts, last), S),
           NEW text \in Texts, AsWritten(body, text), Precedes(S, InkOf(body, text))
    PROVE  Divides(body, Append(texts, last \o text), S \cup InkOf(body, text))
<1> DEFINE before == Append(texts, last)
           after == Append(texts, last \o text)
           k == Len(texts)
<1>1. last \o text \in Texts
  BY InkOfConcat
<1>2. /\ k \in Nat /\ before \in Seq(Texts) /\ after \in Seq(Texts) /\ Len(before) = k + 1 /\ Len(after) = k + 1
      /\ \A n \in 1 .. k : before[n] = texts[n] /\ after[n] = texts[n]
      /\ before[k + 1] = last /\ after[k + 1] = last \o text
  BY <1>1, AppendProperties, LenProperties
<1> HIDE DEF before, after, k
<1>3. /\ Len(after) = Len(before) /\ \A n \in 1 .. Len(before) - 1 : after[n] = before[n]
      /\ after[Len(before)] = before[Len(before)] \o text /\ before # <<>>
  <2>1. Len(before) - 1 = k /\ Len(before) # 0
    BY <1>2
  <2>2. before # <<>>
    BY <2>1, EmptySeq
  <2> QED
    BY <1>2, <2>1, <2>2
<1>4. Divides(body, before, S)
  BY DEF before
<1>5. Divides(body, after, S \cup InkOf(body, text))
  BY <1>2, <1>3, <1>4, GrowingDivides
<1> QED
  BY <1>5 DEF after

LEMMA LastRewritten ==
    ASSUME NEW body, NEW texts \in Seq(Texts), NEW last \in Texts, NEW S, Divides(body, Append(texts, last), S),
           NEW text \in Texts, AsWritten(body, last) => AsWritten(body, text), InkOf(body, text) = InkOf(body, last)
    PROVE  Divides(body, Append(texts, text), S)
<1> DEFINE before == Append(texts, last)
           after == Append(texts, text)
           k == Len(texts)
<1>2. /\ k \in Nat /\ before \in Seq(Texts) /\ after \in Seq(Texts) /\ Len(before) = k + 1 /\ Len(after) = k + 1
      /\ \A n \in 1 .. k : before[n] = texts[n] /\ after[n] = texts[n]
      /\ before[k + 1] = last /\ after[k + 1] = text
  BY AppendProperties, LenProperties
<1> HIDE DEF before, after, k
<1>3. Divides(body, before, S) /\ \A n \in 1 .. Len(before) : AsWritten(body, before[n])
  BY DEF before, Divides
<1>4. ASSUME NEW n \in 1 .. Len(before)
      PROVE  InkOf(body, after[n]) = InkOf(body, before[n]) /\ AsWritten(body, after[n])
  <2>1. n \in 1 .. k \/ n = k + 1
    BY <1>2
  <2> QED
    BY <1>2, <1>3, <2>1
<1>5. Divides(body, after, S)
  BY <1>2, <1>3, <1>4, RewrittenDivides
<1> QED
  BY <1>5 DEF after

LEMMA StripDivides ==
    ASSUME NEW body, NEW texts, NEW S, Divides(body, texts, S)
    PROVE  Divides(body, [n \in DOMAIN texts |-> Strip(body, texts[n])], S)
<1> DEFINE others == [n \in DOMAIN texts |-> Strip(body, texts[n])]
<1>1. texts \in Seq(Texts) /\ \A n \in 1 .. Len(texts) : texts[n] \in Texts /\ AsWritten(body, texts[n])
  BY Listed DEF Divides
<1>2. others \in Seq(Texts) /\ Len(others) = Len(texts) /\ \A n \in 1 .. Len(texts) : others[n] = Strip(body, texts[n])
  BY <1>1, StripType
<1> HIDE DEF others
<1>3. \A n \in 1 .. Len(texts) : InkOf(body, others[n]) = InkOf(body, texts[n]) /\ AsWritten(body, others[n])
  BY <1>1, <1>2, Stripping
<1>4. Divides(body, others, S)
  BY <1>2, <1>3, RewrittenDivides
<1> QED
  BY <1>4 DEF others

\* Texts are within the limit, and none is blank but the empty one.
Fits(body, texts, most) ==
    \A n \in 1 .. Len(texts) : Len(texts[n]) <= most /\ (texts[n] = <<>> \/ InkOf(body, texts[n]) # {})

LEMMA AppendFits ==
    ASSUME NEW body, NEW most, NEW texts \in Seq(Texts), NEW text \in Texts, Fits(body, texts, most),
           Len(text) <= most, text = <<>> \/ InkOf(body, text) # {}
    PROVE  Fits(body, Append(texts, text), most)
<1> DEFINE after == Append(texts, text)
           k == Len(texts)
<1>1. k \in Nat /\ Len(after) = k + 1 /\ after[k + 1] = text /\ \A n \in 1 .. k : after[n] = texts[n]
  BY AppendProperties, LenProperties
<1>2. \A n \in 1 .. k : Len(texts[n]) <= most /\ (texts[n] = <<>> \/ InkOf(body, texts[n]) # {})
  BY DEF Fits
<1> HIDE DEF after, k
<1>3. \A n \in 1 .. Len(after) : n \in 1 .. k \/ n = k + 1
  BY <1>1
<1>4. Fits(body, after, most)
  BY <1>1, <1>2, <1>3 DEF Fits
<1> QED
  BY <1>4 DEF after

LEMMA ConcatFits ==
    ASSUME NEW body, NEW most, NEW a \in Seq(Texts), NEW b \in Seq(Texts), Fits(body, a, most), Fits(body, b, most)
    PROVE  Fits(body, a \o b, most)
<1> DEFINE ab == a \o b
           L == Len(a)
           M == Len(b)
<1>1. /\ Len(ab) = L + M /\ L \in Nat /\ M \in Nat
      /\ \A i \in 1 .. L + M : ab[i] = IF i <= L THEN a[i] ELSE b[i - L]
  BY ConcatProperties, LenProperties
<1>2. /\ \A n \in 1 .. L : Len(a[n]) <= most /\ (a[n] = <<>> \/ InkOf(body, a[n]) # {})
      /\ \A n \in 1 .. M : Len(b[n]) <= most /\ (b[n] = <<>> \/ InkOf(body, b[n]) # {})
  BY DEF Fits
<1> HIDE DEF ab, L, M
<1>3. \A i \in 1 .. L + M : \/ i \in 1 .. L /\ ab[i] = a[i]
                            \/ i - L \in 1 .. M /\ ab[i] = b[i - L]
  BY <1>1
<1>4. ASSUME NEW i \in 1 .. L + M
      PROVE  Len(ab[i]) <= most /\ (ab[i] = <<>> \/ InkOf(body, ab[i]) # {})
  <2>1. CASE i \in 1 .. L /\ ab[i] = a[i]
    BY <1>2, <2>1
  <2>2. CASE i - L \in 1 .. M /\ ab[i] = b[i - L]
    BY <1>2, <2>2
  <2> QED
    BY <1>3, <2>1, <2>2
<1>5. Fits(body, ab, most)
  BY <1>1, <1>4 DEF Fits
<1> QED
  BY <1>5 DEF ab

LEMMA NothingFits ==
    ASSUME NEW body, NEW most
    PROVE  Fits(body, <<>>, most)
<1>1. 1 .. Len(<<>>) = {}
  BY EmptySeq
<1> QED
  BY <1>1 DEF Fits

\* They are pieces: of a set of ink, within the limit, and none without ink.
Pieces(body, texts, S, most) ==
    Divides(body, texts, S) /\ \A n \in 1 .. Len(texts) : Len(texts[n]) <= most /\ InkOf(body, texts[n]) # {}

LEMMA NotEmptyPieces ==
    ASSUME NEW body, NEW most, NEW texts, NEW S, Divides(body, texts, S), Fits(body, texts, most)
    PROVE  Pieces(body, NotEmpty(texts), S, most)
<1> DEFINE left == NotEmpty(texts)
<1>1. Remain(body, left, texts, S)
  BY NotEmptyRemain
<1> HIDE DEF left
<1>2. /\ Divides(body, left, S)
      /\ \A k \in 1 .. Len(left) : left[k] # <<>> /\ \E n \in 1 .. Len(texts) : left[k] = texts[n]
  BY <1>1 DEF Remain
<1>3. \A n \in 1 .. Len(texts) : Len(texts[n]) <= most /\ (texts[n] = <<>> \/ InkOf(body, texts[n]) # {})
  BY DEF Fits
<1>4. \A k \in 1 .. Len(left) : Len(left[k]) <= most /\ InkOf(body, left[k]) # {}
  BY <1>2, <1>3
<1> QED
  BY <1>2, <1>4 DEF Pieces, left

LEMMA FlattenPieces ==
    ASSUME NEW body, NEW most, NEW texts, NEW S, Divides(body, texts, S),
           NEW rows \in Seq(Seq(Texts)), Len(rows) = Len(texts),
           \A n \in 1 .. Len(texts) : Pieces(body, rows[n], InkOf(body, texts[n]), most)
    PROVE  Pieces(body, FlattenSeq(rows), S, most)
<1> DEFINE flat == FlattenSeq(rows)
<1>1. \A n \in 1 .. Len(texts) : Divides(body, rows[n], InkOf(body, texts[n]))
  BY DEF Pieces
<1>2. Divides(body, flat, S)
  BY <1>1, FlattenDivides
<1>3. PICK row, col : Spreads(flat, rows, Len(rows), row, col)
  BY FlattenIndex
<1> HIDE DEF flat
<1>4. ASSUME NEW k \in 1 .. Len(flat)
      PROVE  Len(flat[k]) <= most /\ InkOf(body, flat[k]) # {}
  <2>1. row[k] \in 1 .. Len(rows) /\ col[k] \in 1 .. Len(rows[row[k]]) /\ flat[k] = rows[row[k]][col[k]]
    BY <1>3 DEF Spreads
  <2>2. Pieces(body, rows[row[k]], InkOf(body, texts[row[k]]), most)
    BY <2>1
  <2> QED
    BY <2>1, <2>2 DEF Pieces
<1> QED
  BY <1>2, <1>4 DEF flat, Pieces

-----------------------------------------------------------------------------
(* Paragraphs.                                                             *)

\* What the splitter has made of the first i characters.
Splits(body, prose, acc, i) ==
    /\ Divides(body, Append(acc.done, acc.rest), InkTo(body, prose, i))
    /\ \/ acc.next <= i + 1
       \/ acc.next = i + 2 /\ i + 1 \in 1 .. Len(prose) /\ ~Dark(body, prose[i + 1])

LEMMA SplitFurther ==
    ASSUME NEW body, NEW prose \in Texts, AsWritten(body, prose), NEW i \in 1 .. Len(prose),
           NEW acc \in SplitStates, Splits(body, prose, acc, i - 1)
    PROVE  Splits(body, prose, SplitNext(body, prose, acc, i), i)
<1> DEFINE c == prose[i]
           so == InkTo(body, prose, i - 1)
           Newline(j) == j \in DOMAIN prose /\ Kind(body, prose[j]) = "newline"
<1>1. /\ Len(prose) \in Nat /\ DOMAIN prose = 1 .. Len(prose) /\ c \in Chars
      /\ <<c>> \in Texts /\ AsWritten(body, <<c>>)
      /\ InkTo(body, prose, i) = so \cup InkOf(body, <<c>>) /\ Precedes(so, InkOf(body, <<c>>))
      /\ InkOf(body, <<c>>) = IF Dark(body, c) THEN {c} ELSE {}
  <2>1. Len(prose) \in Nat /\ DOMAIN prose = 1 .. Len(prose) /\ c \in Chars
    BY InkIs
  <2>2. /\ <<c>> \in Texts /\ AsWritten(body, <<c>>)
        /\ InkTo(body, prose, i) = so \cup InkOf(body, <<c>>) /\ Precedes(so, InkOf(body, <<c>>))
    BY InkToIs
  <2>3. InkOf(body, <<c>>) = IF Dark(body, c) THEN {c} ELSE {}
    BY <2>1, OneCharacter
  <2> QED
    BY <2>1, <2>2, <2>3
<1>2. acc.done \in Seq(Texts) /\ acc.rest \in Texts /\ acc.next \in Nat
  BY DEF SplitStates
<1>3. /\ Divides(body, Append(acc.done, acc.rest), so)
      /\ acc.next <= i \/ (acc.next = i + 1 /\ ~Dark(body, c))
  <2>1. (i - 1) + 1 = i /\ (i - 1) + 2 = i + 1
    BY <1>1
  <2> QED
    BY <2>1 DEF Splits
<1>4. \A j : Newline(j) => j \in 1 .. Len(prose) /\ ~Dark(body, prose[j])
  BY <1>1 DEF Dark, Blanks
<1>5. SplitNext(body, prose, acc, i) =
          IF i < acc.next THEN acc
          ELSE IF Newline(i) /\ Newline(i + 1)
               THEN [done |-> Append(acc.done, acc.rest), rest |-> <<>>, next |-> i + 2]
               ELSE [acc EXCEPT !.rest = @ \o <<c>>]
  BY DEF SplitNext
<1> HIDE DEF so, c, Newline
<1>6. CASE i < acc.next
  <2>1. SplitNext(body, prose, acc, i) = acc
    BY <1>5, <1>6
  <2>2. acc.next = i + 1 /\ ~Dark(body, c)
    BY <1>1, <1>2, <1>3, <1>6
  <2>3. InkTo(body, prose, i) = so
    BY <1>1, <2>2
  <2> QED
    BY <1>3, <2>1, <2>2, <2>3 DEF Splits
<1>7. CASE ~(i < acc.next) /\ Newline(i) /\ Newline(i + 1)
  <2> DEFINE new == [done |-> Append(acc.done, acc.rest), rest |-> <<>>, next |-> i + 2]
  <2>1. SplitNext(body, prose, acc, i) = new
    BY <1>5, <1>7
  <2>2. ~Dark(body, c) /\ i + 1 \in 1 .. Len(prose) /\ ~Dark(body, prose[i + 1])
    BY <1>4, <1>7 DEF c
  <2>3. <<>> \in Texts /\ InkOf(body, <<>>) = {} /\ AsWritten(body, <<>>) /\ Precedes(so, {})
    BY NoInk DEF Precedes
  <2>4. Divides(body, Append(Append(acc.done, acc.rest), <<>>), so \cup {})
    BY <1>3, <2>3, AppendDivides
  <2>5. InkTo(body, prose, i) = so \cup {}
    BY <1>1, <2>2
  <2>6. new.done = Append(acc.done, acc.rest) /\ new.rest = <<>> /\ new.next = i + 2
    OBVIOUS
  <2> HIDE DEF new
  <2> QED
    BY <2>1, <2>2, <2>4, <2>5, <2>6 DEF Splits
<1>8. CASE ~(i < acc.next) /\ ~(Newline(i) /\ Newline(i + 1))
  <2> DEFINE new == [acc EXCEPT !.rest = @ \o <<c>>]
  <2>1. SplitNext(body, prose, acc, i) = new
    BY <1>5, <1>8
  <2>2. new.done = acc.done /\ new.rest = acc.rest \o <<c>> /\ new.next = acc.next
    BY DEF SplitStates
  <2> HIDE DEF new
  <2>3. Divides(body, Append(acc.done, acc.rest \o <<c>>), so \cup InkOf(body, <<c>>))
    BY <1>1, <1>2, <1>3, LastGrows
  <2>4. new.next <= i + 1
    BY <1>1, <1>2, <1>8, <2>2
  <2> QED
    BY <1>1, <2>1, <2>2, <2>3, <2>4 DEF Splits
<1> QED
  BY <1>6, <1>7, <1>8

LEMMA ParagraphsDivide ==
    ASSUME NEW body, NEW prose \in Texts, AsWritten(body, prose)
    PROVE  Divides(body, Paragraphs(body, prose), InkOf(body, prose))
<1>1. PICK f : /\ f[0] = NewSplit /\ \A i \in 0 .. Len(prose) : f[i] \in SplitStates
               /\ \A i \in 1 .. Len(prose) : f[i] = SplitNext(body, prose, f[i - 1], i)
               /\ Paragraphs(body, prose) = Append(f[Len(prose)].done, f[Len(prose)].rest)
  BY ParagraphsAre
<1> DEFINE n == Len(prose)
           T == {i \in 0 .. n : Splits(body, prose, f[i], i)}
<1>2. n \in Nat /\ InkTo(body, prose, 0) = {} /\ InkTo(body, prose, n) = InkOf(body, prose)
  BY InkToIs
<1>3. Splits(body, prose, NewSplit, 0)
  <2>1. NewSplit.done = <<>> /\ NewSplit.rest = <<>> /\ NewSplit.next = 1
    BY DEF NewSplit
  <2>2. <<>> \in Texts /\ InkOf(body, <<>>) = {} /\ AsWritten(body, <<>>) /\ Precedes({}, {})
    BY NoInk DEF Precedes
  <2>3. Divides(body, Append(<<>>, <<>>), {} \cup {})
    <3> HIDE DEF Divides
    <3> QED
      BY <2>2, NothingDivides, AppendDivides, Zenon
  <2>4. {} \cup {} = {}
    OBVIOUS
  <2> QED
    BY <1>2, <2>1, <2>3, <2>4 DEF Splits
<1>4. 0 \in T
  <2> HIDE DEF n
  <2> QED
    BY <1>1, <1>2, <1>3
<1>5. ASSUME NEW i \in 1 .. n, i - 1 \in T
      PROVE  i \in T
  <2>1. i - 1 \in 0 .. n /\ i \in 0 .. n
    BY <1>2
  <2>2. f[i - 1] \in SplitStates /\ Splits(body, prose, f[i - 1], i - 1)
    BY <1>1, <1>5, <2>1
  <2>3. Splits(body, prose, f[i], i)
    BY <1>1, <2>2, SplitFurther
  <2> QED
    BY <2>1, <2>3
<1>6. \A i \in 0 .. n : i \in T
  <2> HIDE DEF T, n
  <2> QED
    BY <1>2, <1>4, <1>5, Climbs
<1>7. Splits(body, prose, f[n], n)
  <2> HIDE DEF n
  <2> QED
    BY <1>2, <1>6
<1> QED
  BY <1>1, <1>2, <1>7 DEF Splits

-----------------------------------------------------------------------------
(* Units.                                                                  *)

LEMMA CutAtDivides ==
    ASSUME NEW body, NEW sentence \in Texts, AsWritten(body, sentence), NEW most \in Nat \ {0}
    PROVE  /\ Divides(body, CutAt(body, most, sentence), InkOf(body, sentence))
           /\ Fits(body, CutAt(body, most, sentence), most)
<1> DEFINE raw == Every(most, sentence)
           parts == CutAt(body, most, sentence)
<1>1. Divides(body, raw, InkOf(body, sentence)) /\ \A n \in 1 .. Len(raw) : Len(raw[n]) <= most
  BY EveryDivides
<1>2. parts = [n \in DOMAIN raw |-> Strip(body, raw[n])]
  BY DEF CutAt
<1> HIDE DEF raw, parts
<1>3. raw \in Seq(Texts) /\ \A n \in 1 .. Len(raw) : raw[n] \in Texts
  BY <1>1, Listed DEF Divides
<1>4. Divides(body, parts, InkOf(body, sentence))
  BY <1>1, <1>2, StripDivides
<1>5. Len(parts) = Len(raw) /\ \A n \in 1 .. Len(raw) : parts[n] = Strip(body, raw[n])
  BY <1>2, <1>3, StripType
<1>6. ASSUME NEW n \in 1 .. Len(parts)
      PROVE  Len(parts[n]) <= most /\ (parts[n] = <<>> \/ InkOf(body, parts[n]) # {})
  <2>1. raw[n] \in Texts /\ Len(raw[n]) <= most /\ parts[n] = Strip(body, raw[n])
    BY <1>1, <1>3, <1>5, <1>6
  <2>2. /\ parts[n] \in Texts /\ Len(parts[n]) <= Len(raw[n]) /\ (parts[n] = <<>> \/ InkOf(body, raw[n]) # {})
        /\ InkOf(body, parts[n]) = InkOf(body, raw[n])
    BY <2>1, Stripping
  <2>3. Len(parts[n]) \in Nat /\ Len(raw[n]) \in Nat
    BY <2>1, <2>2, InkIs
  <2> QED
    BY <2>1, <2>2, <2>3
<1> QED
  BY <1>4, <1>6 DEF Fits, parts

\* What the first n sentences have become.
Takes(body, most, sentences, acc, n) ==
    /\ Divides(body, Append(acc.parts, acc.current), InkThrough(body, sentences, n))
    /\ Len(acc.current) <= most /\ Fits(body, acc.parts, most)

LEMMA Closing ==
    ASSUME NEW body, NEW most \in Nat \ {0}, NEW S, NEW acc \in TextStates,
           Divides(body, Append(acc.parts, acc.current), S), Len(acc.current) <= most, Fits(body, acc.parts, most)
    PROVE  Close(body, acc) \in Seq(Texts) /\ Divides(body, Close(body, acc), S) /\ Fits(body, Close(body, acc), most)
<1> DEFINE text == Strip(body, acc.current)
<1>1. acc.parts \in Seq(Texts) /\ acc.current \in Texts
  BY DEF TextStates
<1>2. /\ text \in Texts /\ Len(text) <= Len(acc.current) /\ InkOf(body, text) = InkOf(body, acc.current)
      /\ AsWritten(body, acc.current) => AsWritten(body, text)
      /\ text = <<>> \/ InkOf(body, text) # {}
  BY <1>1, Stripping
<1>3. Close(body, acc) = Append(acc.parts, text)
  BY DEF Close
<1> HIDE DEF text
<1>4. Len(text) \in Nat /\ Len(acc.current) \in Nat
  BY <1>1, <1>2, InkIs
<1>5. Len(text) <= most
  BY <1>2, <1>4
<1>6. Divides(body, Append(acc.parts, text), S)
  BY <1>1, <1>2, LastRewritten
<1>7. Fits(body, Append(acc.parts, text), most)
  BY <1>1, <1>2, <1>5, AppendFits
<1>8. Append(acc.parts, text) \in Seq(Texts)
  BY <1>1, <1>2, AppendType
<1> QED
  BY <1>3, <1>6, <1>7, <1>8

LEMMA TakeFurther ==
    ASSUME NEW body, NEW most \in Nat \ {0}, NEW sentences, NEW S, Divides(body, sentences, S),
           NEW n \in 1 .. Len(sentences), NEW acc \in TextStates, Takes(body, most, sentences, acc, n - 1)
    PROVE  Takes(body, most, sentences, TakeSentence(body, most, acc, sentences[n]), n)
<1> DEFINE s == sentences[n]
           so == InkThrough(body, sentences, n - 1)
           closed == Close(body, acc)
           parts == CutAt(body, most, s)
           after == TakeSentence(body, most, acc, s)
<1>1. /\ s \in Texts /\ AsWritten(body, s) /\ InkThrough(body, sentences, n) = so \cup InkOf(body, s)
      /\ Precedes(so, InkOf(body, s))
  BY InkThroughIs
<1>2. acc.parts \in Seq(Texts) /\ acc.current \in Texts
  BY DEF TextStates
<1>3. Divides(body, Append(acc.parts, acc.current), so) /\ Len(acc.current) <= most /\ Fits(body, acc.parts, most)
  BY DEF Takes
<1> HIDE DEF s, so
<1>4. closed \in Seq(Texts) /\ Divides(body, closed, so) /\ Fits(body, closed, most)
  BY <1>3, Closing
<1>5. after = IF Len(acc.current \o s) <= most
              THEN [acc EXCEPT !.current = @ \o s]
              ELSE IF Len(s) <= most
              THEN [parts |-> closed, current |-> s]
              ELSE [parts |-> closed \o parts, current |-> <<>>]
  BY DEF TakeSentence, CutAt
<1> HIDE DEF after
<1>6. CASE Len(acc.current \o s) <= most
  <2>1. after = [acc EXCEPT !.current = @ \o s]
    BY <1>5, <1>6
  <2>2. after.parts = acc.parts /\ after.current = acc.current \o s
    BY <2>1 DEF TextStates
  <2>3. Divides(body, Append(acc.parts, acc.current \o s), so \cup InkOf(body, s))
    BY <1>1, <1>2, <1>3, LastGrows
  <2> QED
    BY <1>1, <1>3, <1>6, <2>2, <2>3 DEF Takes, after, s
<1>7. CASE ~(Len(acc.current \o s) <= most) /\ Len(s) <= most
  <2>1. after = [parts |-> closed, current |-> s]
    BY <1>5, <1>7
  <2> HIDE DEF closed
  <2>2. after.parts = closed /\ after.current = s
    BY <2>1
  <2>3. Divides(body, Append(closed, s), so \cup InkOf(body, s))
    BY <1>1, <1>4, AppendDivides
  <2> QED
    BY <1>1, <1>4, <1>7, <2>2, <2>3 DEF Takes, after, s
<1>8. CASE ~(Len(acc.current \o s) <= most) /\ ~(Len(s) <= most)
  <2>1. after = [parts |-> closed \o parts, current |-> <<>>]
    BY <1>5, <1>8
  <2>2. Divides(body, parts, InkOf(body, s)) /\ Fits(body, parts, most)
    BY <1>1, CutAtDivides
  <2>3. parts \in Seq(Texts)
    BY <2>2 DEF Divides
  <2> HIDE DEF closed, parts
  <2>4. after.parts = closed \o parts /\ after.current = <<>>
    BY <2>1
  <2>5. Divides(body, closed \o parts, so \cup InkOf(body, s))
    BY <1>1, <1>4, <2>2, ConcatDivides
  <2>6. Fits(body, closed \o parts, most)
    BY <1>4, <2>2, <2>3, ConcatFits
  <2> DEFINE whole == so \cup InkOf(body, s)
             all == closed \o parts
  <2>7. <<>> \in Texts /\ InkOf(body, <<>>) = {} /\ AsWritten(body, <<>>) /\ Precedes(whole, {}) /\ Len(<<>>) = 0
    BY NoInk, EmptySeq DEF Precedes
  <2>8. Divides(body, Append(all, <<>>), whole \cup {})
    <3> HIDE DEF whole, all
    <3>1. Divides(body, all, whole)
      BY <2>5 DEF whole, all
    <3> QED
      BY <2>7, <3>1, AppendDivides
  <2>9. whole \cup {} = whole
    OBVIOUS
  <2>10. Len(after.current) <= most
    BY <2>4, <2>7
  <2> QED
    BY <1>1, <2>4, <2>6, <2>8, <2>9, <2>10 DEF Takes, after, s
<1> QED
  BY <1>6, <1>7, <1>8 DEF after, s

LEMMA UnitPieces ==
    ASSUME NEW body, NEW unit \in Texts, AsWritten(body, unit), InkOf(body, unit) # {}, NEW most \in Nat \ {0}
    PROVE  Pieces(body, SplitUnit(body, unit, most), InkOf(body, unit), most)
<1> DEFINE sentences == Sentences(body, unit)
<1>1. CASE Len(unit) <= most
  <2>1. SplitUnit(body, unit, most) = <<unit>>
    BY <1>1 DEF SplitUnit
  <2>2. Divides(body, <<unit>>, InkOf(body, unit))
    BY OneDivides
  <2>3. Len(<<unit>>) = 1 /\ <<unit>>[1] = unit /\ 1 .. 1 = {1}
    OBVIOUS
  <2> QED
    BY <1>1, <2>1, <2>2, <2>3 DEF Pieces
<1>2. CASE ~(Len(unit) <= most)
  <2>1. Divides(body, sentences, InkOf(body, unit))
    BY CutBeforeDivides DEF Sentences
  <2>2. sentences \in Seq(Texts)
    BY <2>1 DEF Divides
  <2>3. PICK f : /\ f[0] = NewText /\ \A i \in 0 .. Len(sentences) : f[i] \in TextStates
                 /\ \A i \in 1 .. Len(sentences) : f[i] = TakeSentence(body, most, f[i - 1], sentences[i])
                 /\ SplitUnit(body, unit, most) = NotEmpty(Close(body, f[Len(sentences)]))
    BY <1>2, <2>2, SplitUnitIs
  <2> HIDE DEF sentences
  <2> DEFINE n == Len(sentences)
             T == {i \in 0 .. n : Takes(body, most, sentences, f[i], i)}
  <2>4. /\ n \in Nat /\ InkThrough(body, sentences, 0) = {}
        /\ InkThrough(body, sentences, n) = InkOf(body, unit)
    BY <2>1, InkThroughIs
  <2>5. Takes(body, most, sentences, NewText, 0)
    <3>1. NewText.parts = <<>> /\ NewText.current = <<>>
      BY DEF NewText
    <3>2. <<>> \in Texts /\ InkOf(body, <<>>) = {} /\ AsWritten(body, <<>>) /\ Precedes({}, {}) /\ Len(<<>>) = 0
      BY NoInk, EmptySeq DEF Precedes
    <3>3. Divides(body, Append(<<>>, <<>>), {} \cup {})
      BY <3>2, NothingDivides, AppendDivides, Zenon
    <3>4. {} \cup {} = {}
      OBVIOUS
    <3>5. Len(NewText.current) <= most
      BY <3>1, <3>2
    <3> QED
      BY <2>4, <3>1, <3>3, <3>4, <3>5, NothingFits DEF Takes
  <2>6. 0 \in T
    <3> HIDE DEF n
    <3> QED
      BY <2>3, <2>4, <2>5
  <2>7. ASSUME NEW i \in 1 .. n, i - 1 \in T
        PROVE  i \in T
    <3>1. i - 1 \in 0 .. n /\ i \in 0 .. n
      BY <2>4
    <3>2. f[i - 1] \in TextStates /\ Takes(body, most, sentences, f[i - 1], i - 1)
      BY <2>3, <2>7, <3>1
    <3>3. Takes(body, most, sentences, f[i], i)
      BY <2>1, <2>3, <3>2, TakeFurther
    <3> QED
      BY <3>1, <3>3
  <2>8. \A i \in 0 .. n : i \in T
    <3> HIDE DEF T, n
    <3> QED
      BY <2>4, <2>6, <2>7, Climbs
  <2>9. Takes(body, most, sentences, f[n], n) /\ f[n] \in TextStates
    <3> HIDE DEF n
    <3>1. n \in 0 .. n
      BY <2>4
    <3> QED
      BY <2>3, <2>8, <3>1 DEF n
  <2> DEFINE closed == Close(body, f[n])
  <2>10. Divides(body, closed, InkOf(body, unit)) /\ Fits(body, closed, most)
    <3> HIDE DEF n
    <3> QED
      BY <2>4, <2>9, Closing DEF Takes
  <2> HIDE DEF closed
  <2>11. Pieces(body, NotEmpty(closed), InkOf(body, unit), most)
    BY <2>10, NotEmptyPieces
  <2> QED
    BY <2>3, <2>11 DEF closed
<1> QED
  BY <1>1, <1>2

LEMMA UnitsPieces ==
    ASSUME NEW body, NEW prose \in Texts, AsWritten(body, prose), NEW most \in Nat \ {0}
    PROVE  Pieces(body, Units(body, prose, most), InkOf(body, prose), most)
<1> DEFINE paragraphs == Paragraphs(body, prose)
           stripped == [n \in DOMAIN paragraphs |-> Strip(body, paragraphs[n])]
           units == NotEmpty(stripped)
           rows == [n \in DOMAIN units |-> SplitUnit(body, units[n], most)]
<1>1. Units(body, prose, most) = FlattenSeq(rows)
  BY DEF Units
<1>2. Divides(body, paragraphs, InkOf(body, prose))
  BY ParagraphsDivide
<1> HIDE DEF paragraphs
<1>3. paragraphs \in Seq(Texts) /\ \A n \in 1 .. Len(paragraphs) : paragraphs[n] \in Texts
  BY <1>2, Listed DEF Divides
<1>4. Divides(body, stripped, InkOf(body, prose))
  BY <1>2, StripDivides
<1>5. Len(stripped) = Len(paragraphs) /\ \A n \in 1 .. Len(stripped) : stripped[n] = Strip(body, paragraphs[n])
  BY <1>3, StripType
<1> HIDE DEF stripped
<1>6. Remain(body, units, stripped, InkOf(body, prose))
  BY <1>4, NotEmptyRemain
<1> HIDE DEF units
<1>7. Divides(body, units, InkOf(body, prose))
  BY <1>6 DEF Remain
<1>8. /\ units \in Seq(Texts) /\ Len(units) \in Nat /\ DOMAIN units = 1 .. Len(units)
      /\ \A n \in 1 .. Len(units) : units[n] \in Texts /\ AsWritten(body, units[n])
  BY <1>7, Listed DEF Divides
<1>9. ASSUME NEW n \in 1 .. Len(units)
      PROVE  InkOf(body, units[n]) # {}
  <2>1. units[n] # <<>> /\ \E k \in 1 .. Len(stripped) : units[n] = stripped[k]
    BY <1>6 DEF Remain
  <2>2. PICK k \in 1 .. Len(stripped) : units[n] = stripped[k]
    BY <2>1
  <2>3. paragraphs[k] \in Texts /\ units[n] = Strip(body, paragraphs[k])
    BY <1>3, <1>5, <2>2
  <2> QED
    BY <2>1, <2>3, Stripping
<1>10. \A n \in 1 .. Len(units) : Pieces(body, SplitUnit(body, units[n], most), InkOf(body, units[n]), most)
  BY <1>8, <1>9, UnitPieces
<1>11. /\ rows \in Seq(Seq(Texts)) /\ Len(rows) = Len(units)
       /\ \A n \in 1 .. Len(units) : rows[n] = SplitUnit(body, units[n], most)
  <2>1. \A n \in 1 .. Len(units) : SplitUnit(body, units[n], most) \in Seq(Texts)
    BY <1>10 DEF Pieces, Divides
  <2>2. rows \in [1 .. Len(units) -> Seq(Texts)] /\ \A n \in 1 .. Len(units) : rows[n] = SplitUnit(body, units[n], most)
    BY <1>8, <2>1
  <2> HIDE DEF rows
  <2>3. rows \in Seq(Seq(Texts)) /\ DOMAIN rows = 1 .. Len(units)
    BY <1>8, <2>2, MapIsSeq
  <2> QED
    BY <1>8, <2>2, <2>3
<1> HIDE DEF rows
<1>12. Pieces(body, FlattenSeq(rows), InkOf(body, prose), most)
  BY <1>7, <1>10, <1>11, FlattenPieces
<1> QED
  BY <1>1, <1>12

-----------------------------------------------------------------------------
(* Packing.                                                                *)

LEMMA JoinIs ==
    ASSUME NEW body
    PROVE  /\ ParagraphJoin \in Texts /\ Len(ParagraphJoin) = 2
           /\ InkOf(body, ParagraphJoin) = {} /\ AsWritten(body, ParagraphJoin)
<1>1. Added \in Chars /\ ~Dark(body, Added)
  BY DEF Added, Chars, Dark, Kind, Blanks
<1>2. /\ ParagraphJoin \in Texts /\ Len(ParagraphJoin) = 2
      /\ \A i \in 1 .. 2 : ParagraphJoin[i] = Added
  BY <1>1 DEF ParagraphJoin, Texts
<1>3. \A i \in 1 .. Len(ParagraphJoin) : ~Dark(body, ParagraphJoin[i])
  BY <1>1, <1>2
<1>4. InkOf(body, ParagraphJoin) = {} /\ AsWritten(body, ParagraphJoin)
  BY <1>2, <1>3, InkIs
<1> QED
  BY <1>2, <1>4

LEMMA JoiningTexts ==
    ASSUME NEW body, NEW first \in Texts, NEW second \in Texts
    PROVE  /\ Joined(first, second) \in Texts
           /\ InkOf(body, Joined(first, second)) = InkOf(body, first) \cup InkOf(body, second)
           /\ Len(Joined(first, second)) <= Len(first) + 2 + Len(second)
           /\ AsWritten(body, first) /\ AsWritten(body, second) /\ Precedes(InkOf(body, first), InkOf(body, second)) =>
                  AsWritten(body, Joined(first, second))
<1>1. Len(first) \in Nat /\ Len(second) \in Nat
  BY InkIs
<1>2. CASE first = <<>>
  <2>1. Joined(first, second) = second
    BY <1>2 DEF Joined
  <2>2. InkOf(body, first) = {} /\ Len(second) <= Len(first) + 2 + Len(second)
    BY <1>1, <1>2, NoInk
  <2> QED
    BY <2>1, <2>2
<1>3. CASE first # <<>>
  <2> DEFINE spaced == first \o ParagraphJoin
  <2>1. Joined(first, second) = spaced \o second
    BY <1>3 DEF Joined
  <2>2. /\ spaced \in Texts /\ Len(spaced) = Len(first) + 2 /\ InkOf(body, spaced) = InkOf(body, first)
        /\ AsWritten(body, first) => AsWritten(body, spaced)
    <3>1. Precedes(InkOf(body, first), {})
      BY DEF Precedes
    <3>2. /\ ParagraphJoin \in Texts /\ Len(ParagraphJoin) = 2
          /\ InkOf(body, ParagraphJoin) = {} /\ AsWritten(body, ParagraphJoin)
      BY JoinIs
    <3>3. /\ spaced \in Texts /\ Len(spaced) = Len(first) + Len(ParagraphJoin)
          /\ InkOf(body, spaced) = InkOf(body, first) \cup InkOf(body, ParagraphJoin)
          /\ AsWritten(body, first) /\ AsWritten(body, ParagraphJoin)
                 /\ Precedes(InkOf(body, first), InkOf(body, ParagraphJoin)) => AsWritten(body, spaced)
      BY <3>2, InkOfConcat
    <3> HIDE DEF spaced
    <3> QED
      BY <3>1, <3>2, <3>3
  <2> HIDE DEF spaced
  <2>3. /\ spaced \o second \in Texts /\ Len(spaced \o second) = Len(spaced) + Len(second)
        /\ InkOf(body, spaced \o second) = InkOf(body, spaced) \cup InkOf(body, second)
        /\ AsWritten(body, spaced) /\ AsWritten(body, second) /\ Precedes(InkOf(body, spaced), InkOf(body, second)) =>
               AsWritten(body, spaced \o second)
    BY <2>2, InkOfConcat
  <2>4. Len(spaced \o second) <= Len(first) + 2 + Len(second)
    BY <1>1, <2>2, <2>3
  <2> QED
    BY <2>1, <2>2, <2>3, <2>4
<1> QED
  BY <1>2, <1>3

LEMMA LastJoins ==
    ASSUME NEW body, NEW texts \in Seq(Texts), NEW last \in Texts, NEW S, Divides(body, Append(texts, last), S),
           NEW text \in Texts, AsWritten(body, text), Precedes(S, InkOf(body, text))
    PROVE  Divides(body, Append(texts, Joined(last, text)), S \cup InkOf(body, text))
<1>1. CASE last = <<>>
  <2>1. Joined(last, text) = text
    BY <1>1 DEF Joined
  <2>2. last \o text = text
    BY <1>1, ConcatEmptySeq DEF Texts
  <2>3. Divides(body, Append(texts, last \o text), S \cup InkOf(body, text))
    BY LastGrows
  <2> QED
    BY <2>1, <2>2, <2>3
<1>2. CASE last # <<>>
  <2> DEFINE spaced == last \o ParagraphJoin
  <2>1. Joined(last, text) = spaced \o text
    BY <1>2 DEF Joined
  <2>2. /\ ParagraphJoin \in Texts /\ InkOf(body, ParagraphJoin) = {} /\ AsWritten(body, ParagraphJoin)
        /\ Precedes(S, {})
    BY JoinIs DEF Precedes
  <2>3. spaced \in Texts
    BY <2>2, InkOfConcat
  <2>4. Divides(body, Append(texts, spaced), S \cup {})
    BY <2>2, LastGrows
  <2> HIDE DEF spaced
  <2>5. S \cup {} = S
    OBVIOUS
  <2>6. Divides(body, Append(texts, spaced), S)
    BY <2>4, <2>5
  <2>7. Divides(body, Append(texts, spaced \o text), S \cup InkOf(body, text))
    BY <2>3, <2>6, LastGrows
  <2> QED
    BY <2>1, <2>7
<1> QED
  BY <1>1, <1>2

\* What the first n units have become.
Packs(body, most, units, acc, n) ==
    /\ Divides(body, Append(acc.pieces, acc.current), InkThrough(body, units, n))
    /\ Len(acc.current) <= most /\ (acc.current = <<>> \/ InkOf(body, acc.current) # {})
    /\ Fits(body, acc.pieces, most)

LEMMA PackFurther ==
    ASSUME NEW body, NEW most \in Nat \ {0}, NEW units, NEW S, Pieces(body, units, S, most),
           NEW n \in 1 .. Len(units), NEW acc \in PackStates, Packs(body, most, units, acc, n - 1)
    PROVE  Packs(body, most, units, PackUnit(most, acc, units[n]), n)
<1> DEFINE u == units[n]
           so == InkThrough(body, units, n - 1)
           after == PackUnit(most, acc, u)
<1>1. /\ u \in Texts /\ AsWritten(body, u) /\ InkThrough(body, units, n) = so \cup InkOf(body, u)
      /\ Precedes(so, InkOf(body, u))
  BY InkThroughIs DEF Pieces
<1>2. acc.pieces \in Seq(Texts) /\ acc.current \in Texts
  BY DEF PackStates
<1>3. /\ Divides(body, Append(acc.pieces, acc.current), so) /\ Len(acc.current) <= most
      /\ acc.current = <<>> \/ InkOf(body, acc.current) # {}
      /\ Fits(body, acc.pieces, most)
  BY DEF Packs
<1>4. Len(u) <= most /\ InkOf(body, u) # {}
  BY DEF Pieces
<1>5. after = IF Len(Joined(acc.current, u)) <= most THEN [acc EXCEPT !.current = Joined(@, u)]
              ELSE [pieces |-> Append(acc.pieces, acc.current), current |-> u]
  BY DEF PackUnit
<1> HIDE DEF u, so, after
<1>6. CASE Len(Joined(acc.current, u)) <= most
  <2>1. after.pieces = acc.pieces /\ after.current = Joined(acc.current, u)
    BY <1>5, <1>6 DEF PackStates
  <2>2. Divides(body, Append(acc.pieces, Joined(acc.current, u)), so \cup InkOf(body, u))
    BY <1>1, <1>2, <1>3, LastJoins
  <2>3. InkOf(body, Joined(acc.current, u)) # {}
    <3>1. InkOf(body, Joined(acc.current, u)) = InkOf(body, acc.current) \cup InkOf(body, u)
      BY <1>1, <1>2, JoiningTexts
    <3> QED
      BY <1>4, <3>1
  <2> QED
    BY <1>1, <1>3, <1>6, <2>1, <2>2, <2>3 DEF Packs, after, u
<1>7. CASE ~(Len(Joined(acc.current, u)) <= most)
  <2> DEFINE more == Append(acc.pieces, acc.current)
  <2>1. after.pieces = more /\ after.current = u
    BY <1>5, <1>7
  <2>2. Fits(body, more, most)
    BY <1>2, <1>3, AppendFits
  <2>3. Divides(body, more, so)
    BY <1>3
  <2> HIDE DEF more
  <2>4. Divides(body, Append(more, u), so \cup InkOf(body, u))
    BY <1>1, <2>3, AppendDivides
  <2> QED
    BY <1>1, <1>4, <2>1, <2>2, <2>4 DEF Packs, after, u
<1> QED
  BY <1>6, <1>7 DEF after, u

LEMMA PackPieces ==
    ASSUME NEW body, NEW most \in Nat \ {0}, NEW units, NEW S, Pieces(body, units, S, most)
    PROVE  Pieces(body, Pack(units, most), S, most)
<1>1. Divides(body, units, S) /\ units \in Seq(Texts)
  BY DEF Pieces, Divides
<1>2. PICK f : /\ f[0] = NewPack /\ \A i \in 0 .. Len(units) : f[i] \in PackStates
               /\ \A i \in 1 .. Len(units) : f[i] = PackUnit(most, f[i - 1], units[i])
               /\ Pack(units, most) = NotEmpty(Append(f[Len(units)].pieces, f[Len(units)].current))
  BY <1>1, PackIs
<1> DEFINE n == Len(units)
           T == {i \in 0 .. n : Packs(body, most, units, f[i], i)}
<1>3. n \in Nat /\ InkThrough(body, units, 0) = {} /\ InkThrough(body, units, n) = S
  BY <1>1, InkThroughIs
<1>4. Packs(body, most, units, NewPack, 0)
  <2>1. NewPack.pieces = <<>> /\ NewPack.current = <<>>
    BY DEF NewPack
  <2>2. <<>> \in Texts /\ InkOf(body, <<>>) = {} /\ AsWritten(body, <<>>) /\ Precedes({}, {}) /\ Len(<<>>) = 0
    BY NoInk, EmptySeq DEF Precedes
  <2>3. Divides(body, Append(<<>>, <<>>), {} \cup {})
    BY <2>2, NothingDivides, AppendDivides, Zenon
  <2>4. {} \cup {} = {}
    OBVIOUS
  <2>5. Len(NewPack.current) <= most
    BY <2>1, <2>2
  <2> QED
    BY <1>3, <2>1, <2>3, <2>4, <2>5, NothingFits DEF Packs
<1>5. 0 \in T
  <2> HIDE DEF n
  <2> QED
    BY <1>2, <1>3, <1>4
<1>6. ASSUME NEW i \in 1 .. n, i - 1 \in T
      PROVE  i \in T
  <2>1. i - 1 \in 0 .. n /\ i \in 0 .. n
    BY <1>3
  <2>2. f[i - 1] \in PackStates /\ Packs(body, most, units, f[i - 1], i - 1)
    BY <1>2, <1>6, <2>1
  <2>3. Packs(body, most, units, f[i], i)
    BY <1>2, <2>2, PackFurther
  <2> QED
    BY <2>1, <2>3
<1>7. \A i \in 0 .. n : i \in T
  <2> HIDE DEF T, n
  <2> QED
    BY <1>3, <1>5, <1>6, Climbs
<1>8. Packs(body, most, units, f[n], n) /\ f[n] \in PackStates
  <2> HIDE DEF n
  <2>1. n \in 0 .. n
    BY <1>3
  <2> QED
    BY <1>2, <1>7, <2>1 DEF n
<1> DEFINE all == Append(f[n].pieces, f[n].current)
<1>9. Divides(body, all, S) /\ Fits(body, all, most)
  <2> HIDE DEF n
  <2>1. f[n].pieces \in Seq(Texts) /\ f[n].current \in Texts
    BY <1>8 DEF PackStates
  <2> QED
    BY <1>3, <1>8, <2>1, AppendFits DEF Packs
<1> HIDE DEF all
<1>10. Pieces(body, NotEmpty(all), S, most)
  BY <1>9, NotEmptyPieces
<1> QED
  BY <1>2, <1>10 DEF all

-----------------------------------------------------------------------------
(* The overlap.                                                            *)

LEMMA InkCount ==
    ASSUME NEW body, NEW text \in Texts
    PROVE  IsFiniteSet(InkOf(body, text)) /\ Cardinality(InkOf(body, text)) <= Len(text)
<1> DEFINE I == {i \in 1 .. Len(text) : Dark(body, text[i])}
           f == [i \in I |-> text[i]]
<1>1. /\ Len(text) \in Nat
      /\ \A c : c \in InkOf(body, text) <=> \E i \in 1 .. Len(text) : text[i] = c /\ Dark(body, c)
  BY InkIs
<1>2. IsFiniteSet(1 .. Len(text)) /\ Cardinality(1 .. Len(text)) = Len(text)
  <2>1. 1 \in Int /\ Len(text) \in Int /\ (IF 1 > Len(text) THEN 0 ELSE Len(text) - 1 + 1) = Len(text)
    BY <1>1
  <2>2. /\ IsFiniteSet(1 .. Len(text))
        /\ Cardinality(1 .. Len(text)) = IF 1 > Len(text) THEN 0 ELSE Len(text) - 1 + 1
    BY <2>1, FS_Interval, Zenon
  <2> QED
    BY <2>1, <2>2
<1>3. IsFiniteSet(I) /\ Cardinality(I) <= Len(text)
  <2>1. I \in SUBSET (1 .. Len(text))
    OBVIOUS
  <2> HIDE DEF I
  <2> QED
    BY <1>2, <2>1, FS_Subset
<1>4. f \in Surjection(I, InkOf(body, text))
  <2>1. \A i \in I : f[i] \in InkOf(body, text)
    BY <1>1
  <2>2. \A c \in InkOf(body, text) : \E i \in I : f[i] = c
    BY <1>1
  <2> HIDE DEF I
  <2> QED
    BY <2>1, <2>2 DEF Surjection
<1>5. IsFiniteSet(InkOf(body, text)) /\ Cardinality(InkOf(body, text)) <= Cardinality(I)
  <2> HIDE DEF I, f
  <2> QED
    BY <1>3, <1>4, FS_Surjection
<1>6. Cardinality(I) \in Nat /\ Cardinality(InkOf(body, text)) \in Nat
  <2> HIDE DEF I
  <2> QED
    BY <1>3, <1>5, FS_CardinalityType
<1> HIDE DEF I
<1> QED
  BY <1>1, <1>3, <1>5, <1>6

LEMMA Skipping ==
    ASSUME NEW body, NEW text \in Texts, NEW i \in 1 .. Len(text) + 1, NEW kinds
    PROVE  SkipKinds(body, text, i, kinds) \in i .. Len(text) + 1
<1> DEFINE stops == {j \in i .. Len(text) + 1 : j > Len(text) \/ Kind(body, text[j]) \notin kinds}
<1>1. Len(text) \in Nat
  BY InkIs
<1>2. stops \in SUBSET Nat /\ stops \subseteq i .. Len(text) + 1 /\ Len(text) + 1 \in stops
  BY <1>1
<1> HIDE DEF stops
<1>3. Min(stops) \in stops
  BY <1>2, MinIs
<1> QED
  BY <1>2, <1>3 DEF SkipKinds, stops

LEMMA TailIs ==
    ASSUME NEW body, NEW text \in Texts, NEW most \in Nat \ {0}
    PROVE  LET tail == SentenceAlignedTail(body, text, most)
           IN /\ tail \in Texts /\ Len(tail) <= most /\ InkOf(body, tail) \subseteq InkOf(body, text)
              /\ AsWritten(body, text) => AsWritten(body, tail)
<1> DEFINE tail == SentenceAlignedTail(body, text, most)
           window == Len(text) - most + 1
           ends == SentenceEnds(body, text, window)
           start == IF ends # {} /\ Min(ends) <= Len(text) THEN Min(ends) ELSE window
<1>1. /\ Len(text) \in Nat
      /\ \A c : c \in InkOf(body, text) <=> \E i \in 1 .. Len(text) : text[i] = c /\ Dark(body, c)
  BY InkIs
<1>2. CASE Len(text) <= most
  BY <1>2 DEF SentenceAlignedTail
<1>3. CASE ~(Len(text) <= most)
  <2>1. tail = SubSeq(text, start, Len(text))
    BY <1>3 DEF SentenceAlignedTail
  <2>2. window \in 1 .. Len(text)
    BY <1>1, <1>3
  <2>3. ends \subseteq window .. Len(text) + 1
    <3>1. ASSUME NEW i \in window .. Len(text)
          PROVE  SkipKinds(body, text, SkipKinds(body, text, i + 1, {"close"}), Blanks) \in window .. Len(text) + 1
      <4> DEFINE j == SkipKinds(body, text, i + 1, {"close"})
                 k == SkipKinds(body, text, j, Blanks)
      <4>1. i + 1 \in 1 .. Len(text) + 1
        BY <1>1, <2>2
      <4>2. j \in i + 1 .. Len(text) + 1
        BY <4>1, Skipping
      <4> HIDE DEF j
      <4>3. j \in 1 .. Len(text) + 1
        BY <1>1, <4>1, <4>2
      <4>4. k \in j .. Len(text) + 1
        BY <4>3, Skipping
      <4> HIDE DEF k
      <4>5. k \in window .. Len(text) + 1
        BY <1>1, <2>2, <4>2, <4>4
      <4> QED
        BY <4>5 DEF j, k
    <3> HIDE DEF window
    <3> QED
      BY <3>1 DEF SentenceEnds
  <2> HIDE DEF window, ends
  <2>4. ends # {} => Min(ends) \in ends
    <3>1. ends \in SUBSET Nat
      BY <1>1, <2>2, <2>3
    <3> QED
      BY <3>1, MinIs
  <2>5. start \in window .. Len(text)
    <3>1. CASE ends # {} /\ Min(ends) <= Len(text)
      <4>1. start = Min(ends) /\ Min(ends) \in window .. Len(text) + 1
        BY <2>3, <2>4, <3>1
      <4> QED
        BY <1>1, <2>2, <3>1, <4>1
    <3>2. CASE ~(ends # {} /\ Min(ends) <= Len(text))
      <4>1. start = window
        BY <3>2
      <4> QED
        BY <1>1, <2>2, <4>1
    <3> QED
      BY <3>1, <3>2
  <2> HIDE DEF start
  <2>6. start \in 1 .. Len(text) + 1 /\ Len(text) \in start - 1 .. Len(text)
    BY <1>1, <2>2, <2>5
  <2> DEFINE part == SubSeq(text, start, Len(text))
  <2>7. /\ part \in Texts /\ Len(part) = Len(text) - start + 1
        /\ \A c : c \in InkOf(body, part) <=>
                      \E i \in 1 .. Len(text) : start <= i /\ i <= Len(text) /\ text[i] = c /\ Dark(body, c)
        /\ AsWritten(body, text) => AsWritten(body, part)
    BY <2>6, InkOfPart
  <2> HIDE DEF part
  <2>8. Len(part) <= most
    BY <1>1, <2>5, <2>7 DEF window
  <2>9. InkOf(body, part) \subseteq InkOf(body, text)
    BY <1>1, <2>7
  <2> QED
    BY <2>1, <2>7, <2>8, <2>9 DEF part
<1> QED
  BY <1>2, <1>3

\* Pieces of a set of ink that share with their neighbours at most the overlap.
Covers(body, pieces, S, budget, overlap) ==
    /\ pieces \in Seq(Texts) /\ S = UNION {InkOf(body, pieces[n]) : n \in 1 .. Len(pieces)}
    /\ \A n \in 1 .. Len(pieces) :
        Len(pieces[n]) <= budget /\ InkOf(body, pieces[n]) # {} /\ AsWritten(body, pieces[n])
    /\ \A n, m \in 1 .. Len(pieces) :
        n < m => Cardinality(InkOf(body, pieces[n]) \cap InkOf(body, pieces[m])) <= IF m = n + 1 THEN overlap ELSE 0

LEMMA PrecedingIsDisjoint ==
    ASSUME NEW body, NEW S, NEW T, Precedes(S, T), \A c \in S : c \in Chars
    PROVE  S \cap T = {}
<1> SUFFICES ASSUME NEW c \in S, c \in T
             PROVE  FALSE
  OBVIOUS
<1>1. Before(c, c) /\ c \in Chars
  BY DEF Precedes
<1>2. c[1] \in Nat /\ c[2] \in Nat
  BY <1>1 DEF Chars
<1> QED
  BY <1>1, <1>2 DEF Before

LEMMA OverlapCovers ==
    ASSUME NEW body, NEW pieces, NEW S, NEW most \in Nat \ {0}, Pieces(body, pieces, S, most),
           NEW overlap \in Nat, NEW budget \in Int,
           most <= budget, overlap # 0 => most + overlap + 2 <= budget
    PROVE  Covers(body, ApplyOverlap(body, pieces, overlap), S, budget, overlap)
<1> DEFINE N == Len(pieces)
           result == ApplyOverlap(body, pieces, overlap)
           ink(n) == InkOf(body, pieces[n])
<1>1. /\ pieces \in Seq(Texts) /\ N \in Nat /\ DOMAIN pieces = 1 .. N
      /\ \A n \in 1 .. N : pieces[n] \in Texts /\ AsWritten(body, pieces[n]) /\ ink(n) # {} /\ Len(pieces[n]) <= most
      /\ \A n, m \in 1 .. N : n < m => Precedes(ink(n), ink(m))
      /\ S = UNION {ink(n) : n \in 1 .. N}
  BY Listed DEF Pieces, Divides
<1>2. \A n \in 1 .. N : result[n] = IF overlap = 0 \/ n = 1 THEN pieces[n]
                                    ELSE Joined(SentenceAlignedTail(body, pieces[n - 1], overlap), pieces[n])
  BY <1>1 DEF ApplyOverlap
<1>3. DOMAIN result = 1 .. N /\ result = [n \in 1 .. N |-> result[n]]
  BY <1>1 DEF ApplyOverlap
<1> HIDE DEF result
<1>4. ASSUME NEW n \in 1 .. N, NEW m \in 1 .. N, n < m
      PROVE  ink(n) \cap ink(m) = {}
  <2>1. Precedes(ink(n), ink(m)) /\ \A c \in ink(n) : c \in Chars
    BY <1>1, <1>4, InkIs
  <2> QED
    BY <2>1, PrecedingIsDisjoint
<1> DEFINE tail(n) == IF overlap = 0 \/ n = 1 THEN <<>> ELSE SentenceAlignedTail(body, pieces[n - 1], overlap)
<1> HIDE DEF N
<1>5. ASSUME NEW n \in 1 .. N
      PROVE  /\ tail(n) \in Texts /\ Len(tail(n)) <= overlap /\ AsWritten(body, tail(n))
             /\ InkOf(body, tail(n)) = {} \/ (n - 1 \in 1 .. N /\ InkOf(body, tail(n)) \subseteq ink(n - 1))
             /\ result[n] \in Texts /\ Len(result[n]) <= budget /\ AsWritten(body, result[n])
             /\ InkOf(body, result[n]) = InkOf(body, tail(n)) \cup ink(n)
  <2>0. pieces[n] \in Texts /\ AsWritten(body, pieces[n]) /\ Len(pieces[n]) <= most /\ Len(pieces[n]) \in Nat
    BY <1>1, InkIs
  <2>1. CASE overlap = 0 \/ n = 1
    <3>1. result[n] = pieces[n] /\ tail(n) = <<>>
      BY <1>2, <2>1
    <3>2. <<>> \in Texts /\ Len(<<>>) = 0 /\ InkOf(body, <<>>) = {} /\ AsWritten(body, <<>>)
      BY NoInk, EmptySeq
    <3>3. Len(result[n]) <= budget /\ Len(tail(n)) <= overlap
      BY <2>0, <3>1, <3>2
    <3> HIDE DEF tail
    <3> QED
      BY <2>0, <3>1, <3>2, <3>3
  <2>2. CASE ~(overlap = 0 \/ n = 1)
    <3> DEFINE t == SentenceAlignedTail(body, pieces[n - 1], overlap)
    <3>1. result[n] = Joined(t, pieces[n]) /\ tail(n) = t
      BY <1>2, <2>2
    <3>2. n - 1 \in 1 .. N /\ overlap \in Nat \ {0} /\ n - 1 < n
      BY <1>1, <2>2
    <3>3. pieces[n - 1] \in Texts /\ AsWritten(body, pieces[n - 1]) /\ Precedes(ink(n - 1), ink(n))
      BY <1>1, <3>2
    <3>4. /\ t \in Texts /\ Len(t) <= overlap /\ InkOf(body, t) \subseteq ink(n - 1) /\ AsWritten(body, t)
      BY <3>2, <3>3, TailIs
    <3> HIDE DEF t, tail
    <3>5. Precedes(InkOf(body, t), ink(n))
      BY <3>3, <3>4 DEF Precedes
    <3>6. /\ Joined(t, pieces[n]) \in Texts /\ InkOf(body, Joined(t, pieces[n])) = InkOf(body, t) \cup ink(n)
          /\ Len(Joined(t, pieces[n])) <= Len(t) + 2 + Len(pieces[n]) /\ AsWritten(body, Joined(t, pieces[n]))
      BY <2>0, <3>4, <3>5, JoiningTexts
    <3>7. Len(t) \in Nat /\ Len(Joined(t, pieces[n])) \in Nat
      BY <3>4, <3>6, InkIs
    <3>8. Len(Joined(t, pieces[n])) <= budget
      <4> DEFINE a == Len(t)
                 b == Len(pieces[n])
                 c == Len(Joined(t, pieces[n]))
      <4>1. a \in Nat /\ b \in Nat /\ c \in Nat /\ a <= overlap /\ b <= most /\ c <= a + 2 + b
        BY <2>0, <3>4, <3>6, <3>7
      <4>2. most + overlap + 2 <= budget
        BY <2>2
      <4> HIDE DEF a, b, c
      <4>3. c <= budget
        BY <4>1, <4>2
      <4> QED
        BY <4>3 DEF c
    <3> QED
      BY <3>1, <3>2, <3>4, <3>6, <3>8
  <2> QED
    BY <2>1, <2>2
<1> HIDE DEF tail
<1>6. result \in Seq(Texts) /\ Len(result) = N
  <2>1. result \in [1 .. N -> Texts]
    BY <1>3, <1>5
  <2>2. result \in Seq(Texts)
    BY <1>1, <2>1, MapIsSeq DEF N
  <2> QED
    BY <1>1, <1>3, <2>2 DEF N
<1>7. ASSUME NEW c
      PROVE  c \in S <=> \E n \in 1 .. N : c \in InkOf(body, result[n])
  <2>1. c \in S <=> \E n \in 1 .. N : c \in ink(n)
    BY <1>1 DEF N
  <2> HIDE DEF ink
  <2>2. \A n \in 1 .. N : c \in ink(n) => c \in InkOf(body, result[n])
    BY <1>5
  <2>3. \A n \in 1 .. N : c \in InkOf(body, result[n]) => \E k \in 1 .. N : c \in ink(k)
    BY <1>5
  <2> QED
    BY <2>1, <2>2, <2>3
<1>8. ASSUME NEW n \in 1 .. N, NEW m \in 1 .. N, n < m
      PROVE  Cardinality(InkOf(body, result[n]) \cap InkOf(body, result[m])) <= IF m = n + 1 THEN overlap ELSE 0
  <2> DEFINE both == InkOf(body, result[n]) \cap InkOf(body, result[m])
  <2>0. n \in Nat /\ m \in Nat
    BY <1>1 DEF N
  <2>1. InkOf(body, result[n]) = InkOf(body, tail(n)) \cup ink(n) /\ InkOf(body, result[m]) = InkOf(body, tail(m)) \cup ink(m)
    BY <1>5
  <2>2. InkOf(body, tail(n)) = {} \/ (n - 1 \in 1 .. N /\ InkOf(body, tail(n)) \subseteq ink(n - 1))
    BY <1>5
  <2>3. InkOf(body, tail(m)) = {} \/ (m - 1 \in 1 .. N /\ InkOf(body, tail(m)) \subseteq ink(m - 1))
    BY <1>5
  <2>4. ink(n) \cap ink(m) = {} /\ InkOf(body, tail(n)) \cap ink(m) = {}
    <3>1. ink(n) \cap ink(m) = {}
      BY <1>4, <1>8
    <3>2. n - 1 \in 1 .. N => ink(n - 1) \cap ink(m) = {}
      <4>1. n - 1 < m
        BY <1>8, <2>0
      <4> QED
        BY <1>4, <4>1
    <3> HIDE DEF ink
    <3> QED
      BY <2>2, <3>1, <3>2
  <2>5. both \subseteq InkOf(body, tail(m))
    <3> HIDE DEF ink
    <3> QED
      BY <2>1, <2>4
  <2>6. CASE m = n + 1
    <3>1. tail(m) \in Texts /\ Len(tail(m)) <= overlap /\ Len(tail(m)) \in Nat
      BY <1>5, InkIs
    <3>2. IsFiniteSet(InkOf(body, tail(m))) /\ Cardinality(InkOf(body, tail(m))) <= Len(tail(m))
      BY <3>1, InkCount
    <3> HIDE DEF both
    <3>3. IsFiniteSet(both) /\ Cardinality(both) <= Cardinality(InkOf(body, tail(m)))
      BY <2>5, <3>2, FS_Subset
    <3>4. Cardinality(both) \in Nat /\ Cardinality(InkOf(body, tail(m))) \in Nat
      BY <3>2, <3>3, FS_CardinalityType
    <3>5. Cardinality(both) <= overlap
      BY <3>1, <3>2, <3>3, <3>4
    <3> QED
      BY <2>6, <3>5 DEF both
  <2>7. CASE m # n + 1
    <3>1. n < m - 1 /\ (n - 1) < m - 1
      BY <1>8, <2>0, <2>7
    <3>2. m - 1 \in 1 .. N => ink(n) \cap ink(m - 1) = {}
      BY <1>4, <3>1
    <3>3. m - 1 \in 1 .. N /\ n - 1 \in 1 .. N => ink(n - 1) \cap ink(m - 1) = {}
      BY <1>4, <3>1
    <3>4. both = {}
      <4> HIDE DEF ink
      <4> QED
        BY <2>1, <2>2, <2>3, <2>5, <3>2, <3>3
    <3>5. Cardinality({}) = 0
      BY FS_EmptySet
    <3> QED
      BY <2>7, <3>4, <3>5
  <2> QED
    BY <2>6, <2>7
<1>9. ASSUME NEW n \in 1 .. N
      PROVE  InkOf(body, result[n]) # {}
  <2>1. ink(n) # {} /\ InkOf(body, result[n]) = InkOf(body, tail(n)) \cup ink(n)
    BY <1>1, <1>5 DEF N
  <2> HIDE DEF ink
  <2> QED
    BY <2>1
<1>10. S = UNION {InkOf(body, result[n]) : n \in 1 .. N}
  BY <1>7
<1>11. Covers(body, result, S, budget, overlap)
  BY <1>5, <1>6, <1>8, <1>9, <1>10 DEF Covers
<1> QED
  BY <1>11 DEF result

LEMMA SectionCovers ==
    ASSUME NEW body, NEW prose \in Texts, AsWritten(body, prose), InkOf(body, prose) # {},
           NEW overlap \in Nat, NEW budget \in Int, Len(prose) <= budget \/ PackedBudget(budget, overlap) > 0
    PROVE  Covers(body, SplitSection(body, prose, budget, overlap), InkOf(body, prose), budget, overlap)
<1>1. CASE Len(prose) <= budget
  <2>1. SplitSection(body, prose, budget, overlap) = <<prose>>
    BY <1>1 DEF SplitSection
  <2>2. <<prose>> \in Seq(Texts) /\ Len(<<prose>>) = 1 /\ <<prose>>[1] = prose /\ 1 .. 1 = {1}
    OBVIOUS
  <2>3. \A n, m \in {1} : ~(n < m)
    OBVIOUS
  <2>4. InkOf(body, prose) = UNION {InkOf(body, <<prose>>[n]) : n \in {1}}
    BY <2>2
  <2> QED
    BY <1>1, <2>1, <2>2, <2>3, <2>4 DEF Covers
<1>2. CASE ~(Len(prose) <= budget)
  <2> DEFINE most == PackedBudget(budget, overlap)
             units == Units(body, prose, most)
             pieces == Pack(units, most)
  <2>1. most \in Nat \ {0} /\ most <= budget /\ (overlap # 0 => most + overlap + 2 <= budget)
    <3>1. Len(ParagraphJoin) = 2
      BY DEF ParagraphJoin
    <3> QED
      BY <1>2, <3>1 DEF PackedBudget
  <2>2. SplitSection(body, prose, budget, overlap) = ApplyOverlap(body, pieces, overlap)
    BY <1>2 DEF SplitSection
  <2> HIDE DEF most
  <2>3. Pieces(body, units, InkOf(body, prose), most)
    BY <2>1, UnitsPieces
  <2> HIDE DEF units
  <2>4. Pieces(body, pieces, InkOf(body, prose), most)
    BY <2>1, <2>3, PackPieces
  <2> HIDE DEF pieces
  <2>5. Covers(body, ApplyOverlap(body, pieces, overlap), InkOf(body, prose), budget, overlap)
    BY <2>1, <2>4, OverlapCovers
  <2> QED
    BY <2>2, <2>5
<1> QED
  BY <1>1, <1>2

-----------------------------------------------------------------------------
(* The prose of lines.                                                     *)

IsBody(body) == body \in Seq(ToSet(body)) /\ \A l \in DOMAIN body : body[l].text \in Seq(ToSet(body[l].text))

\* Where the ink of a line stands.
LineInk(body, l) == {<<l, c>> : c \in Inked(body[l])}

LEMMA CharactersInk ==
    ASSUME NEW body, IsBody(body), NEW l \in 1 .. Len(body)
    PROVE  /\ Characters(body, l) \in Texts /\ AsWritten(body, Characters(body, l))
           /\ InkOf(body, Characters(body, l)) = LineInk(body, l)
<1> DEFINE n == Len(body[l].text)
           row == [column \in 1 .. n |-> <<l, column>>]
           text == Characters(body, l)
<1>1. n \in Nat /\ l \in Nat /\ DOMAIN body[l].text = 1 .. n
  <2>1. l \in DOMAIN body /\ l \in Nat
    BY Listed DEF IsBody
  <2>2. body[l].text \in Seq(ToSet(body[l].text))
    BY <2>1 DEF IsBody
  <2> QED
    BY <2>1, <2>2, LenProperties
<1>2. Inked(body[l]) = {c \in 1 .. n : body[l].text[c] \notin Blanks}
  BY <1>1 DEF Inked
<1> HIDE DEF n
<1>3. row \in [1 .. n -> Chars] /\ \A i \in 1 .. n : row[i] = <<l, i>>
  <2>1. \A column \in 1 .. n : <<l, column>> \in Chars
    BY <1>1 DEF Chars
  <2> QED
    BY <2>1
<1>4. row \in Texts /\ Len(row) = n
  <2> HIDE DEF row
  <2>1. row \in Seq(Chars) /\ DOMAIN row = 1 .. n
    BY <1>1, <1>3, MapIsSeq
  <2> QED
    BY <1>1, <2>1, LenProperties DEF Texts
<1>5. text = row \o << <<l, 0>> >>
  BY DEF Characters, n
<1> HIDE DEF text, row
<1>6. << <<l, 0>> >> \in Texts /\ Len(<< <<l, 0>> >>) = 1 /\ << <<l, 0>> >>[1] = <<l, 0>>
  BY <1>1 DEF Texts, Chars
<1>7. /\ text \in Texts /\ Len(text) = n + 1
      /\ \A i \in 1 .. n + 1 : text[i] = IF i <= n THEN <<l, i>> ELSE <<l, 0>>
  <2>1. /\ text \in Texts /\ Len(text) = n + 1
        /\ \A i \in 1 .. n + 1 : text[i] = IF i <= n THEN row[i] ELSE << <<l, 0>> >>[i - n]
    BY <1>4, <1>5, <1>6, ConcatProperties DEF Texts
  <2>2. ASSUME NEW i \in 1 .. n + 1
        PROVE  text[i] = IF i <= n THEN <<l, i>> ELSE <<l, 0>>
    <3>1. CASE i <= n
      <4>1. i \in 1 .. n
        BY <1>1, <3>1
      <4> QED
        BY <1>3, <2>1, <3>1, <4>1
    <3>2. CASE ~(i <= n)
      <4>1. i - n = 1
        BY <1>1, <3>2
      <4> QED
        BY <1>6, <2>1, <3>2, <4>1
    <3> QED
      BY <3>1, <3>2
  <2> QED
    BY <2>1, <2>2
<1>8. /\ ~Dark(body, <<l, 0>>)
      /\ \A c \in 1 .. n : Dark(body, <<l, c>>) <=> c \in Inked(body[l])
  <2>1. Kind(body, <<l, 0>>) = "newline"
    BY DEF Kind
  <2>2. ASSUME NEW c \in 1 .. n
        PROVE  Kind(body, <<l, c>>) = body[l].text[c]
    <3>1. c # 0
      BY <1>1
    <3> QED
      BY <3>1 DEF Kind
  <2> QED
    BY <1>2, <2>1, <2>2 DEF Dark, Blanks
<1>9. \A i \in 1 .. n + 1 : Dark(body, text[i]) => i \in 1 .. n /\ text[i] = <<l, i>>
  <2> SUFFICES ASSUME NEW i \in 1 .. n + 1, Dark(body, text[i])
               PROVE  i \in 1 .. n /\ text[i] = <<l, i>>
    OBVIOUS
  <2>1. i <= n
    BY <1>7, <1>8
  <2> QED
    BY <1>1, <1>7, <2>1
<1>10. AsWritten(body, text)
  <2>1. ASSUME NEW i \in 1 .. n + 1, NEW j \in 1 .. n + 1, i < j, Dark(body, text[i]), Dark(body, text[j])
        PROVE  Before(text[i], text[j])
    <3>1. text[i] = <<l, i>> /\ text[j] = <<l, j>>
      BY <1>9, <2>1
    <3> QED
      BY <2>1, <3>1 DEF Before
  <2> QED
    BY <1>7, <2>1, InkIs
<1>11. \A d : d \in InkOf(body, text) <=> d \in LineInk(body, l)
  <2>1. \A d : d \in InkOf(body, text) <=> \E i \in 1 .. n + 1 : text[i] = d /\ Dark(body, d)
    BY <1>7, InkIs
  <2>2. ASSUME NEW d \in InkOf(body, text)
        PROVE  d \in LineInk(body, l)
    <3>1. PICK i \in 1 .. n + 1 : text[i] = d /\ Dark(body, d)
      BY <2>1
    <3>2. i \in 1 .. n /\ d = <<l, i>>
      BY <1>9, <3>1
    <3>3. i \in Inked(body[l])
      BY <1>8, <3>1, <3>2
    <3> QED
      BY <3>2, <3>3 DEF LineInk
  <2>3. ASSUME NEW d \in LineInk(body, l)
        PROVE  d \in InkOf(body, text)
    <3>1. PICK c \in Inked(body[l]) : d = <<l, c>>
      BY DEF LineInk
    <3>2. c \in 1 .. n /\ c \in 1 .. n + 1 /\ c <= n
      BY <1>1, <1>2
    <3>3. text[c] = <<l, c>> /\ Dark(body, <<l, c>>)
      BY <1>7, <1>8, <3>2
    <3> QED
      BY <2>1, <3>1, <3>2, <3>3
  <2> QED
    BY <2>2, <2>3
<1> QED
  BY <1>7, <1>10, <1>11 DEF text

Rises(lines) == \A i, j \in 1 .. Len(lines) : i < j => lines[i] < lines[j]

LEMMA ProseInk ==
    ASSUME NEW body, IsBody(body), NEW lines \in Seq(1 .. Len(body)), Rises(lines)
    PROVE  /\ Prose(body, lines) \in Texts /\ AsWritten(body, Prose(body, lines))
           /\ InkOf(body, Prose(body, lines)) = UNION {LineInk(body, lines[i]) : i \in 1 .. Len(lines)}
           /\ Prose(body, lines) = <<>> \/ InkOf(body, Prose(body, lines)) # {}
<1> DEFINE rows == [n \in DOMAIN lines |-> Characters(body, lines[n])]
           N == Len(lines)
           S == UNION {LineInk(body, lines[i]) : i \in 1 .. N}
<1>1. N \in Nat /\ DOMAIN lines = 1 .. N /\ \A n \in 1 .. N : lines[n] \in 1 .. Len(body)
  BY Listed
<1>2. \A n \in 1 .. N : /\ rows[n] \in Texts /\ AsWritten(body, rows[n])
                        /\ InkOf(body, rows[n]) = LineInk(body, lines[n])
  BY <1>1, CharactersInk
<1>3. rows \in Seq(Texts) /\ Len(rows) = N
  <2>1. rows \in [1 .. N -> Texts]
    BY <1>1, <1>2
  <2> HIDE DEF rows
  <2>2. rows \in Seq(Texts) /\ DOMAIN rows = 1 .. N
    BY <1>1, <2>1, MapIsSeq
  <2> QED
    BY <1>1, <2>2, LenProperties
<1>4. Prose(body, lines) = Strip(body, FlattenSeq(rows))
  BY DEF Prose
<1> HIDE DEF rows, N
<1>5. ASSUME NEW n \in 1 .. N, NEW m \in 1 .. N, n < m
      PROVE  Precedes(InkOf(body, rows[n]), InkOf(body, rows[m]))
  <2>1. lines[n] < lines[m]
    BY <1>5 DEF Rises, N
  <2>2. \A c \in LineInk(body, lines[n]) : c[1] = lines[n]
    BY DEF LineInk
  <2>3. \A c \in LineInk(body, lines[m]) : c[1] = lines[m]
    BY DEF LineInk
  <2>4. Precedes(LineInk(body, lines[n]), LineInk(body, lines[m]))
    BY <2>1, <2>2, <2>3 DEF Precedes, Before
  <2> QED
    BY <1>2, <2>4
<1>6. S = UNION {InkOf(body, rows[n]) : n \in 1 .. N}
  BY <1>2
<1>7. Divides(body, rows, S)
  <2> HIDE DEF S
  <2> QED
    BY <1>2, <1>3, <1>5, <1>6 DEF Divides
<1> DEFINE flat == FlattenSeq(rows)
<1>8. flat \in Texts /\ InkOf(body, flat) = S /\ AsWritten(body, flat)
  <2> HIDE DEF S
  <2> QED
    BY <1>7, FlattenedText
<1> HIDE DEF flat, S
<1>9. /\ Strip(body, flat) \in Texts /\ InkOf(body, Strip(body, flat)) = S /\ AsWritten(body, Strip(body, flat))
      /\ Strip(body, flat) = <<>> \/ S # {}
  BY <1>8, Stripping
<1> QED
  BY <1>4, <1>9 DEF flat, S, N

-----------------------------------------------------------------------------
(* The scan for sections.                                                  *)

LinesOf(body) == 1 .. Len(body)
Fences(body) == {NoFence} \cup {[mark |-> body[l].mark, run |-> body[l].run] : l \in LinesOf(body)}
SectionsOf(body) == [path : Seq(LinesOf(body)), prose : Texts]
ScanStates(body) ==
    [stack : Seq(LinesOf(body)), buffer : Seq(LinesOf(body)), fence : Fences(body), sections : Seq(SectionsOf(body))]
NewScan == [stack |-> <<>>, buffer |-> <<>>, fence |-> NoFence, sections |-> <<>>]

LEMMA ProseType ==
    ASSUME NEW body, IsBody(body), NEW lines \in Seq(1 .. Len(body))
    PROVE  Prose(body, lines) \in Texts
<1> DEFINE rows == [n \in DOMAIN lines |-> Characters(body, lines[n])]
<1>1. Len(lines) \in Nat /\ DOMAIN lines = 1 .. Len(lines) /\ \A n \in 1 .. Len(lines) : lines[n] \in 1 .. Len(body)
  BY Listed
<1>2. rows \in [1 .. Len(lines) -> Texts]
  BY <1>1, CharactersInk
<1>3. rows \in Seq(Texts)
  <2> HIDE DEF rows
  <2> QED
    BY <1>1, <1>2, MapIsSeq
<1>4. FlattenSeq(rows) \in Texts
  <2> HIDE DEF rows
  <2> QED
    BY <1>3, FlattenType DEF Texts
<1> QED
  BY <1>4, Stripping DEF Prose

LEMMA FlushedType ==
    ASSUME NEW body, IsBody(body), NEW scan \in ScanStates(body)
    PROVE  Flushed(body, scan) \in Seq(SectionsOf(body))
<1>1. scan.stack \in Seq(LinesOf(body)) /\ scan.buffer \in Seq(LinesOf(body)) /\ scan.sections \in Seq(SectionsOf(body))
  BY DEF ScanStates
<1>2. Prose(body, scan.buffer) \in Texts
  BY <1>1, ProseType DEF LinesOf
<1>3. [path |-> scan.stack, prose |-> Prose(body, scan.buffer)] \in SectionsOf(body)
  BY <1>1, <1>2 DEF SectionsOf
<1>4. Append(scan.sections, [path |-> scan.stack, prose |-> Prose(body, scan.buffer)]) \in Seq(SectionsOf(body))
  BY <1>1, <1>3, AppendProperties
<1> QED
  BY <1>1, <1>4 DEF Flushed

LEMMA PushType ==
    ASSUME NEW body, NEW stack \in Seq(LinesOf(body)), NEW l \in LinesOf(body)
    PROVE  Push(body, stack, l) \in Seq(LinesOf(body))
<1> DEFINE levels == {n \in 0 .. Len(stack) : n = 0 \/ body[stack[n]].level < body[l].level}
           outer == Max(levels)
<1>1. Len(stack) \in Nat
  BY LenProperties
<1>2. outer \in 0 .. Len(stack)
  <2>1. levels \in SUBSET (0 .. Len(stack)) /\ 0 \in levels
    BY <1>1
  <2> HIDE DEF levels
  <2> QED
    BY <1>1, <2>1, MaxIs
<1>3. SubSeq(stack, 1, outer) \in Seq(LinesOf(body))
  <2> HIDE DEF outer
  <2> QED
    BY <1>1, <1>2, SubSeqProperties
<1>4. Append(SubSeq(stack, 1, outer), l) \in Seq(LinesOf(body))
  <2> HIDE DEF outer
  <2> QED
    BY <1>3, AppendProperties
<1> QED
  BY <1>4 DEF Push

LEMMA ScanLineType ==
    ASSUME NEW body, IsBody(body), NEW scan \in ScanStates(body), NEW l \in LinesOf(body)
    PROVE  ScanLine(body, scan, l) \in ScanStates(body)
<1> DEFINE line == body[l]
           kept == [scan EXCEPT !.buffer = Append(@, l)]
           pushed == [scan EXCEPT !.sections = Flushed(body, scan), !.buffer = <<>>,
                                  !.stack = IF line.isTitle THEN <<>> ELSE Push(body, @, l)]
<1>1. scan.stack \in Seq(LinesOf(body)) /\ scan.buffer \in Seq(LinesOf(body))
  BY DEF ScanStates
<1>2. kept \in ScanStates(body)
  <2>1. Append(scan.buffer, l) \in Seq(LinesOf(body))
    BY <1>1, AppendProperties
  <2> QED
    BY <2>1 DEF ScanStates
<1>3. /\ [kept EXCEPT !.fence = NoFence] \in ScanStates(body)
      /\ [kept EXCEPT !.fence = [mark |-> line.mark, run |-> line.run]] \in ScanStates(body)
  <2>1. NoFence \in Fences(body) /\ [mark |-> line.mark, run |-> line.run] \in Fences(body)
    BY DEF Fences
  <2> HIDE DEF kept
  <2> QED
    BY <1>2, <2>1 DEF ScanStates
<1>4. pushed \in ScanStates(body)
  <2>1. Flushed(body, scan) \in Seq(SectionsOf(body))
    BY FlushedType
  <2>2. Push(body, scan.stack, l) \in Seq(LinesOf(body))
    BY <1>1, PushType
  <2>3. <<>> \in Seq(LinesOf(body))
    OBVIOUS
  <2> QED
    BY <2>1, <2>2, <2>3 DEF ScanStates
<1> HIDE DEF pushed
<1> QED
  BY <1>2, <1>3, <1>4 DEF ScanLine, pushed

\* f is what the scanner has after each line.
ScanOf(f, body) ==
    f = [i \in 0 .. Len(body) |-> IF i = 0 THEN NewScan ELSE ScanLine(body, f[i - 1], i)]

LEMMA SectionsAre ==
    ASSUME NEW body,
           IsBody(body)
    PROVE  \E f : /\ f[0] = NewScan /\ \A i \in 0 .. Len(body) : f[i] \in ScanStates(body)
                  /\ \A i \in 1 .. Len(body) : f[i] = ScanLine(body, f[i - 1], i)
                  /\ Sections(body) = Flushed(body, f[Len(body)])
<1> DEFINE n == Len(body)
           Step == [i \in 1 .. n |-> [s \in ScanStates(body) |-> ScanLine(body, s, i)]]
           f == CHOOSE x : ScanOf(x, body)
<1>1. n \in Nat
  BY LenProperties DEF IsBody
<1>2. NewScan \in ScanStates(body)
  <2>1. NoFence \in Fences(body) /\ <<>> \in Seq(LinesOf(body)) /\ <<>> \in Seq(SectionsOf(body))
    BY DEF Fences
  <2> QED
    BY <2>1 DEF NewScan, ScanStates
<1>3. \A i \in 1 .. n : \A s \in ScanStates(body) : ScanLine(body, s, i) \in ScanStates(body)
  BY ScanLineType DEF LinesOf
<1>4. Keeps(Step, ScanStates(body), n)
  <2> HIDE DEF n
  <2> QED
    BY <1>3 DEF Keeps
<1>5. PICK g : Scans(g, ScanStates(body), NewScan, n, Step)
  <2> HIDE DEF n, Step
  <2> QED
    BY <1>1, <1>2, <1>4, RecursionExists
<1>6. ScanOf(g, body)
  <2>1. g \in [0 .. n -> ScanStates(body)] /\ g[0] = NewScan /\ \A i \in 1 .. n : g[i] = Step[i][g[i - 1]]
    BY <1>5 DEF Scans
  <2>2. ASSUME NEW i \in 1 .. n
        PROVE  g[i] = ScanLine(body, g[i - 1], i)
    <3>1. i - 1 \in 0 .. n
      BY <1>1
    <3> HIDE DEF n
    <3>2. g[i - 1] \in ScanStates(body)
      BY <2>1, <3>1
    <3> QED
      BY <2>1, <3>2
  <2> HIDE DEF Step
  <2> QED
    BY <1>1, <2>1, <2>2 DEF ScanOf
<1>7. ScanOf(f, body)
  <2> HIDE DEF Step, n
  <2> QED
    BY <1>6
<1>8. f[0] = NewScan /\ \A i \in 1 .. n : f[i] = ScanLine(body, f[i - 1], i)
  <2> HIDE DEF f
  <2> QED
    BY <1>1, <1>7 DEF ScanOf
<1>9. \A i \in 0 .. n : f[i] \in ScanStates(body)
  <2> HIDE DEF f, n
  <2>1. \A i \in 1 .. n : f[i - 1] \in ScanStates(body) => f[i] \in ScanStates(body)
    BY <1>3, <1>8
  <2> QED
    BY <1>1, <1>2, <1>8, <2>1, RecursionType
<1>10. Sections(body) = Flushed(body, f[Len(body)])
  BY DEF Sections, ScanOf, NewScan
<1> HIDE DEF f
<1> QED
  BY <1>8, <1>9, <1>10

\* The fence after a line.
FenceNext(body, fence, l) ==
    IF fence # NoFence
    THEN IF ClosesFence(body[l], fence) THEN NoFence ELSE fence
    ELSE IF OpensFence(body[l]) THEN [mark |-> body[l].mark, run |-> body[l].run] ELSE NoFence

\* f is the fence after each line.
FencesOf(f, body) ==
    f = [i \in 0 .. Len(body) |-> IF i = 0 THEN NoFence ELSE FenceNext(body, f[i - 1], i)]

LEMMA FenceIs ==
    ASSUME NEW body,
           IsBody(body)
    PROVE  \E f : /\ f[0] = NoFence /\ \A i \in 0 .. Len(body) : f[i] \in Fences(body)
                  /\ \A i \in 1 .. Len(body) : f[i] = FenceNext(body, f[i - 1], i)
                  /\ FenceAt(body) = f
<1> DEFINE n == Len(body)
           Step == [i \in 1 .. n |-> [s \in Fences(body) |-> FenceNext(body, s, i)]]
           f == CHOOSE x : FencesOf(x, body)
<1>1. n \in Nat
  BY LenProperties DEF IsBody
<1>2. NoFence \in Fences(body)
  BY DEF Fences
<1>3. \A i \in 1 .. n : \A s \in Fences(body) : FenceNext(body, s, i) \in Fences(body)
  BY DEF FenceNext, Fences, LinesOf
<1>4. Keeps(Step, Fences(body), n)
  <2> HIDE DEF n
  <2> QED
    BY <1>3 DEF Keeps
<1>5. PICK g : Scans(g, Fences(body), NoFence, n, Step)
  <2> HIDE DEF n, Step
  <2> QED
    BY <1>1, <1>2, <1>4, RecursionExists
<1>6. FencesOf(g, body)
  <2>1. g \in [0 .. n -> Fences(body)] /\ g[0] = NoFence /\ \A i \in 1 .. n : g[i] = Step[i][g[i - 1]]
    BY <1>5 DEF Scans
  <2>2. ASSUME NEW i \in 1 .. n
        PROVE  g[i] = FenceNext(body, g[i - 1], i)
    <3>1. i - 1 \in 0 .. n
      BY <1>1
    <3> HIDE DEF n
    <3>2. g[i - 1] \in Fences(body)
      BY <2>1, <3>1
    <3> QED
      BY <2>1, <3>2
  <2> HIDE DEF Step
  <2> QED
    BY <1>1, <2>1, <2>2 DEF FencesOf
<1>7. FencesOf(f, body)
  <2> HIDE DEF Step, n
  <2> QED
    BY <1>6
<1>8. f[0] = NoFence /\ \A i \in 1 .. n : f[i] = FenceNext(body, f[i - 1], i)
  <2> HIDE DEF f
  <2> QED
    BY <1>1, <1>7 DEF FencesOf
<1>9. \A i \in 0 .. n : f[i] \in Fences(body)
  <2> HIDE DEF f, n
  <2>1. \A i \in 1 .. n : f[i - 1] \in Fences(body) => f[i] \in Fences(body)
    BY <1>3, <1>8
  <2> QED
    BY <1>1, <1>2, <1>8, <2>1, RecursionType
<1>10. FenceAt(body) = f
  BY DEF FenceAt, FencesOf, FenceNext
<1> HIDE DEF f
<1> QED
  BY <1>8, <1>9, <1>10

\* A path and the title have a width.
Measured(document, trail) ==
    /\ document.titleWidth \in Nat /\ Len(trail) \in Nat
    /\ \A n \in 1 .. Len(trail) : document.body[trail[n]].width \in Nat

\* f is the width of the path up to each heading.
WidthsOf(f, document, trail) ==
    f = [i \in 0 .. Len(trail) |-> IF i = 0 THEN document.titleWidth ELSE f[i - 1] + HeadingSeparatorWidth + document.body[trail[i]].width]

LEMMA WidthType ==
    ASSUME NEW document,
           NEW trail,
           Measured(document, trail)
    PROVE  PathWidth(document, trail) \in Nat
<1> DEFINE n == Len(trail)
           Step == [i \in 1 .. n |-> [s \in Nat |-> s + HeadingSeparatorWidth + document.body[trail[i]].width]]
           f == CHOOSE x : WidthsOf(x, document, trail)
<1>1. n \in Nat
  BY DEF Measured
<1>2. document.titleWidth \in Nat
  BY DEF Measured
<1>3. \A i \in 1 .. n : \A s \in Nat : s + HeadingSeparatorWidth + document.body[trail[i]].width \in Nat
  BY DEF Measured, HeadingSeparatorWidth
<1>4. Keeps(Step, Nat, n)
  <2> HIDE DEF n
  <2> QED
    BY <1>3 DEF Keeps
<1>5. PICK g : Scans(g, Nat, document.titleWidth, n, Step)
  <2> HIDE DEF n, Step
  <2> QED
    BY <1>1, <1>2, <1>4, RecursionExists
<1>6. WidthsOf(g, document, trail)
  <2>1. g \in [0 .. n -> Nat] /\ g[0] = document.titleWidth /\ \A i \in 1 .. n : g[i] = Step[i][g[i - 1]]
    BY <1>5 DEF Scans
  <2>2. ASSUME NEW i \in 1 .. n
        PROVE  g[i] = g[i - 1] + HeadingSeparatorWidth + document.body[trail[i]].width
    <3>1. i - 1 \in 0 .. n
      BY <1>1
    <3> HIDE DEF n
    <3>2. g[i - 1] \in Nat
      BY <2>1, <3>1
    <3> QED
      BY <2>1, <3>2
  <2> HIDE DEF Step
  <2> QED
    BY <1>1, <2>1, <2>2 DEF WidthsOf
<1>7. WidthsOf(f, document, trail)
  <2> HIDE DEF Step, n
  <2> QED
    BY <1>6
<1>8. f[0] = document.titleWidth /\ \A i \in 1 .. n : f[i] = f[i - 1] + HeadingSeparatorWidth + document.body[trail[i]].width
  <2> HIDE DEF f
  <2> QED
    BY <1>1, <1>7 DEF WidthsOf
<1>9. \A i \in 0 .. n : f[i] \in Nat
  <2> HIDE DEF f, n
  <2>1. \A i \in 1 .. n : f[i - 1] \in Nat => f[i] \in Nat
    BY <1>3, <1>8
  <2> QED
    BY <1>1, <1>2, <1>8, <2>1, RecursionType
<1>10. PathWidth(document, trail) = f[Len(trail)]
  BY DEF PathWidth, WidthsOf
<1> HIDE DEF f
<1>11. n \in 0 .. n
  BY <1>1
<1> QED
  BY <1>9, <1>10, <1>11

\* Headings have a level and a width.
Marked(body) == \A l \in DOMAIN body : body[l].kind = "heading" => body[l].level \in Nat /\ body[l].width \in Nat

LEMMA HeadingsAre ==
    ASSUME NEW body, IsBody(body), Marked(body)
    PROVE  /\ Len(body) \in Nat /\ DOMAIN body = 1 .. Len(body)
           /\ \A h \in Headings(body) : h \in 1 .. Len(body) /\ body[h].level \in Nat /\ body[h].width \in Nat
<1>1. Len(body) \in Nat /\ DOMAIN body = 1 .. Len(body)
  BY Listed DEF IsBody
<1>2. \A h \in Headings(body) : h \in DOMAIN body /\ body[h].kind = "heading"
  BY DEF Headings
<1> QED
  BY <1>1, <1>2 DEF Marked

\* Which headings enclose the line after line l.
LEMMA EnclosingNext ==
    ASSUME NEW body, IsBody(body), Marked(body), NEW l \in 1 .. Len(body)
    PROVE  /\ \A h \in Enclosing(body, l) : h \in Headings(body) /\ h < l
           /\ l \notin Headings(body) => Enclosing(body, l + 1) = Enclosing(body, l)
           /\ l \in Headings(body) /\ body[l].isTitle => Enclosing(body, l + 1) = {}
           /\ l \in Headings(body) /\ ~body[l].isTitle =>
                  \A h : h \in Enclosing(body, l + 1) <=>
                             h = l \/ (h \in Enclosing(body, l) /\ body[l].level > body[h].level)
<1> DEFINE H == Headings(body)
<1>1. l \in Nat /\ Len(body) \in Nat /\ \A h \in H : h \in Nat
  <2>1. Len(body) \in Nat /\ \A h \in H : h \in 1 .. Len(body)
    BY HeadingsAre
  <2> HIDE DEF H
  <2> QED
    BY <2>1
<1>2. \A h, m : h \in Enclosing(body, m) <=>
                    /\ h \in H /\ h < m /\ ~body[h].isTitle
                    /\ \A g \in H : h < g /\ g < m => body[g].level > body[h].level /\ ~body[g].isTitle
  BY DEF Enclosing
<1> HIDE DEF H
<1>3. \A g \in H : g < l + 1 <=> g < l \/ g = l
  BY <1>1
<1>4. ~(l < l) /\ l < l + 1
  BY <1>1
<1>5. \A h \in Enclosing(body, l) : h \in H /\ h < l
  BY <1>2
<1>6. ASSUME l \notin H
      PROVE  Enclosing(body, l + 1) = Enclosing(body, l)
  <2>1. \A g \in H : g < l + 1 <=> g < l
    BY <1>3, <1>6
  <2>2. ASSUME NEW h
        PROVE  h \in Enclosing(body, l + 1) <=> h \in Enclosing(body, l)
    <3>1. h \in Enclosing(body, l) <=>
              /\ h \in H /\ h < l /\ ~body[h].isTitle
              /\ \A g \in H : h < g /\ g < l => body[g].level > body[h].level /\ ~body[g].isTitle
      BY <1>2
    <3>2. h \in Enclosing(body, l + 1) <=>
              /\ h \in H /\ h < l + 1 /\ ~body[h].isTitle
              /\ \A g \in H : h < g /\ g < l + 1 => body[g].level > body[h].level /\ ~body[g].isTitle
      BY <1>2
    <3> QED
      BY <2>1, <3>1, <3>2
  <2> QED
    BY <2>2
<1>7. ASSUME l \in H, body[l].isTitle
      PROVE  Enclosing(body, l + 1) = {}
  <2> SUFFICES ASSUME NEW h \in Enclosing(body, l + 1)
               PROVE  FALSE
    OBVIOUS
  <2>1. /\ h \in H /\ h < l + 1 /\ ~body[h].isTitle
        /\ \A g \in H : h < g /\ g < l + 1 => ~body[g].isTitle
    BY <1>2
  <2>2. h < l
    BY <1>3, <1>7, <2>1
  <2> QED
    BY <1>4, <1>7, <2>1, <2>2
<1>8. ASSUME l \in H, ~body[l].isTitle, NEW h
      PROVE  h \in Enclosing(body, l + 1) <=>
                 h = l \/ (h \in Enclosing(body, l) /\ body[l].level > body[h].level)
  <2>1. CASE h = l
    <3>1. \A g \in H : ~(l < g /\ g < l + 1)
      BY <1>1
    <3> QED
      BY <1>2, <1>4, <1>8, <2>1, <3>1
  <2>2. CASE h # l
    <3>1. ASSUME h \in Enclosing(body, l + 1)
          PROVE  h \in Enclosing(body, l) /\ body[l].level > body[h].level
      <4>1. /\ h \in H /\ h < l + 1 /\ ~body[h].isTitle
            /\ \A g \in H : h < g /\ g < l + 1 => body[g].level > body[h].level /\ ~body[g].isTitle
        BY <1>2, <3>1
      <4>2. h < l
        BY <1>3, <2>2, <4>1
      <4>3. body[l].level > body[h].level
        BY <1>4, <1>8, <4>1, <4>2
      <4>4. \A g \in H : h < g /\ g < l => body[g].level > body[h].level /\ ~body[g].isTitle
        BY <1>3, <4>1
      <4> QED
        BY <1>2, <4>1, <4>2, <4>3, <4>4
    <3>2. ASSUME h \in Enclosing(body, l), body[l].level > body[h].level
          PROVE  h \in Enclosing(body, l + 1)
      <4>1. /\ h \in H /\ h < l /\ ~body[h].isTitle
            /\ \A g \in H : h < g /\ g < l => body[g].level > body[h].level /\ ~body[g].isTitle
        BY <1>2, <3>2
      <4>2. h < l + 1
        BY <1>3, <4>1
      <4>3. \A g \in H : h < g /\ g < l + 1 => body[g].level > body[h].level /\ ~body[g].isTitle
        BY <1>3, <1>8, <3>2, <4>1
      <4> QED
        BY <1>2, <4>1, <4>2, <4>3
    <3> QED
      BY <2>2, <3>1, <3>2
  <2> QED
    BY <2>1, <2>2
<1> QED
  BY <1>5, <1>6, <1>7, <1>8 DEF H

\* The stack has the headings that enclose line l, the outermost first.
Stacked(body, stack, l) ==
    /\ stack \in Seq(LinesOf(body)) /\ Rises(stack)
    /\ \A i, j \in 1 .. Len(stack) : i < j => body[stack[i]].level < body[stack[j]].level
    /\ \A h : h \in Enclosing(body, l) <=> \E i \in 1 .. Len(stack) : stack[i] = h

LEMMA PushStacked ==
    ASSUME NEW body, IsBody(body), Marked(body), NEW l \in Headings(body), ~body[l].isTitle,
           NEW stack, Stacked(body, stack, l)
    PROVE  Stacked(body, Push(body, stack, l), l + 1)
<1> DEFINE N == Len(stack)
           levels == {n \in 0 .. N : n = 0 \/ body[stack[n]].level < body[l].level}
           outer == Max(levels)
           part == SubSeq(stack, 1, outer)
           more == Append(part, l)
           Level(n) == body[stack[n]].level
<1>1. N \in Nat /\ l \in 1 .. Len(body) /\ Len(body) \in Nat /\ body[l].level \in Nat
  <2>1. stack \in Seq(LinesOf(body))
    BY DEF Stacked
  <2> QED
    BY <2>1, HeadingsAre, LenProperties
<1>2. \A i \in 1 .. N : /\ stack[i] \in LinesOf(body) /\ stack[i] \in Enclosing(body, l)
                        /\ stack[i] \in Headings(body) /\ stack[i] < l /\ Level(i) \in Nat
  <2>1. \A i \in 1 .. N : stack[i] \in LinesOf(body) /\ stack[i] \in Enclosing(body, l)
    BY Listed DEF Stacked
  <2>2. \A h \in Enclosing(body, l) : h \in Headings(body) /\ h < l
    BY <1>1, EnclosingNext
  <2>3. \A h \in Headings(body) : body[h].level \in Nat
    BY HeadingsAre
  <2> QED
    BY <2>1, <2>2, <2>3
<1>3. outer \in levels /\ \A n \in levels : n <= outer
  <2>1. levels \in SUBSET (0 .. N) /\ 0 \in levels
    BY <1>1
  <2> HIDE DEF levels, N
  <2> QED
    BY <1>1, <2>1, MaxIs
<1> DEFINE O == outer
<1>4. O \in 0 .. N /\ (O = 0 \/ Level(O) < body[l].level) /\ \A n \in 1 .. N : Level(n) < body[l].level => n <= O
  <2>1. \A n \in 1 .. N : Level(n) < body[l].level => n \in levels
    BY <1>1
  <2>2. O \in 0 .. N /\ (O = 0 \/ Level(O) < body[l].level)
    <3> HIDE DEF outer
    <3> QED
      BY <1>3
  <2> HIDE DEF levels
  <2> QED
    BY <1>3, <2>1, <2>2
<1> HIDE DEF outer, O, N
<1>5. part \in Seq(LinesOf(body)) /\ Len(part) = O /\ \A i \in 1 .. O : part[i] = stack[i]
  <2>1. stack \in Seq(LinesOf(body)) /\ O \in 0 .. Len(stack) /\ part = SubSeq(stack, 1, O)
    BY <1>4 DEF Stacked, N, O
  <2>2. Len(stack) \in Nat
    BY <1>1 DEF N
  <2> HIDE DEF part
  <2> QED
    BY <2>1, <2>2, SubSeqProperties
<1> HIDE DEF part
<1>6. /\ more \in Seq(LinesOf(body)) /\ Len(more) = O + 1 /\ more[O + 1] = l
      /\ \A i \in 1 .. O : more[i] = stack[i]
  <2>1. l \in LinesOf(body)
    BY <1>1 DEF LinesOf
  <2>2. more \in Seq(LinesOf(body)) /\ Len(more) = O + 1 /\ more[O + 1] = l /\ \A i \in 1 .. O : more[i] = part[i]
    BY <1>5, <2>1, AppendProperties
  <2> QED
    BY <1>5, <2>2
<1> HIDE DEF more
<1>7. \A i, j \in 1 .. N : i < j => stack[i] < stack[j] /\ Level(i) < Level(j)
  BY DEF Stacked, Rises, N
<1>8. \A i \in 1 .. O : i \in 1 .. N /\ Level(i) < body[l].level
  <2> SUFFICES ASSUME NEW i \in 1 .. O
               PROVE  i \in 1 .. N /\ Level(i) < body[l].level
    OBVIOUS
  <2>1. i \in 1 .. N /\ O \in 1 .. N /\ Level(O) < body[l].level
    BY <1>1, <1>4
  <2>2. i = O \/ Level(i) < Level(O)
    <3>1. i = O \/ i < O
      BY <1>1, <1>4
    <3> QED
      BY <1>7, <2>1, <3>1
  <2>3. Level(i) \in Nat /\ Level(O) \in Nat
    BY <1>2, <2>1
  <2> HIDE DEF Level
  <2> QED
    BY <1>1, <2>1, <2>2, <2>3
<1>9. ASSUME NEW i \in 1 .. O + 1, NEW j \in 1 .. O + 1, i < j
      PROVE  more[i] < more[j] /\ body[more[i]].level < body[more[j]].level
  <2>1. i \in 1 .. O /\ (j = O + 1 \/ j \in 1 .. O)
    BY <1>1, <1>4, <1>9
  <2>2. CASE j = O + 1
    BY <1>2, <1>6, <1>8, <2>1, <2>2
  <2>3. CASE j \in 1 .. O
    BY <1>6, <1>7, <1>8, <1>9, <2>1, <2>3
  <2> QED
    BY <2>1, <2>2, <2>3
<1>10. ASSUME NEW h
       PROVE  h \in Enclosing(body, l + 1) <=> \E i \in 1 .. O + 1 : more[i] = h
  <2>1. h \in Enclosing(body, l + 1) <=> h = l \/ (h \in Enclosing(body, l) /\ body[l].level > body[h].level)
    BY <1>1, EnclosingNext
  <2>2. O + 1 \in 1 .. O + 1 /\ \A i \in 1 .. O : i \in 1 .. O + 1
    BY <1>1, <1>4
  <2>3. ASSUME h \in Enclosing(body, l), body[l].level > body[h].level
        PROVE  \E i \in 1 .. O + 1 : more[i] = h
    <3>1. PICK i \in 1 .. N : stack[i] = h
      BY <2>3 DEF Stacked, N
    <3>2. Level(i) < body[l].level
      BY <1>1, <1>2, <2>3, <3>1
    <3>3. i \in 1 .. O
      BY <1>1, <1>4, <3>2
    <3> QED
      BY <1>6, <2>2, <3>1, <3>3
  <2>4. ASSUME NEW i \in 1 .. O + 1, more[i] = h
        PROVE  h = l \/ (h \in Enclosing(body, l) /\ body[l].level > body[h].level)
    <3>1. i = O + 1 \/ i \in 1 .. O
      BY <1>1, <1>4
    <3>2. CASE i = O + 1
      BY <1>6, <2>4, <3>2
    <3>3. CASE i \in 1 .. O
      <4>1. h = stack[i] /\ h \in Enclosing(body, l) /\ Level(i) < body[l].level /\ Level(i) \in Nat
        BY <1>2, <1>6, <1>8, <2>4, <3>3
      <4> QED
        BY <1>1, <4>1
    <3> QED
      BY <3>1, <3>2, <3>3
  <2> QED
    BY <1>6, <2>1, <2>2, <2>3, <2>4
<1>11. Stacked(body, more, l + 1)
  BY <1>6, <1>9, <1>10 DEF Stacked, Rises
<1>12. Push(body, stack, l) = more
  BY DEF Push, more, part, outer, N
<1> QED
  BY <1>11, <1>12

-----------------------------------------------------------------------------
(* What the scan has done after a line.                                    *)

\* The ink of the prose of the first k lines.
ProseTo(body, k) == {c \in InkedProse(body) : c[1] <= k}
Proses(sections) == [n \in DOMAIN sections |-> sections[n].prose]

\* A section has its ink's enclosing headings as its path.
UnderItsPath(body, section) ==
    /\ InkOf(body, section.prose) # {} /\ Rises(section.path)
    /\ \A c \in InkOf(body, section.prose) :
           \A h : h \in Enclosing(body, c[1]) <=> \E i \in 1 .. Len(section.path) : section.path[i] = h
Sectioned(body, sections, k) ==
    /\ sections \in Seq(SectionsOf(body)) /\ Divides(body, Proses(sections), ProseTo(body, k))
    /\ \A n \in 1 .. Len(sections) : UnderItsPath(body, sections[n])

\* The buffer has the lines after line k, none of which is a heading.
Buffered(body, buffer, k, l) ==
    /\ buffer \in Seq(LinesOf(body)) /\ Len(buffer) = l - k
    /\ \A i \in 1 .. l - k : /\ buffer[i] = k + i /\ k + i \notin Headings(body)
                             /\ Enclosing(body, k + i) = Enclosing(body, l + 1)
Scanned(body, scan, l) ==
    /\ scan \in ScanStates(body) /\ scan.fence = FenceAt(body)[l]
    /\ Stacked(body, scan.stack, l + 1)
    /\ \E k \in 0 .. l : Buffered(body, scan.buffer, k, l) /\ Sectioned(body, scan.sections, k)

LEMMA InkedIs ==
    ASSUME NEW body, IsBody(body)
    PROVE  /\ \A l \in 1 .. Len(body) : \A c \in LineInk(body, l) : c[1] = l
           /\ \A c : c \in InkedProse(body) <=>
                         \E l \in 1 .. Len(body) : l \notin Headings(body) /\ c \in LineInk(body, l)
<1>1. DOMAIN body = 1 .. Len(body)
  BY Listed DEF IsBody
<1>2. InkedProse(body) = UNION {LineInk(body, l) : l \in DOMAIN body \ Headings(body)}
  BY DEF InkedProse, LineInk
<1> QED
  BY <1>1, <1>2 DEF LineInk

LEMMA FlushSections ==
    ASSUME NEW body, IsBody(body), NEW l \in 0 .. Len(body), NEW scan, Scanned(body, scan, l)
    PROVE  Sectioned(body, Flushed(body, scan), l)
<1> DEFINE buffer == scan.buffer
           sections == scan.sections
           prose == Prose(body, buffer)
           ink == InkOf(body, prose)
           N == Len(sections)
<1>1. PICK k \in 0 .. l : Buffered(body, buffer, k, l) /\ Sectioned(body, sections, k)
  BY DEF Scanned
<1>2. scan \in ScanStates(body) /\ scan.stack \in Seq(LinesOf(body)) /\ Rises(scan.stack)
  BY DEF Scanned, Stacked
<1>3. k \in Nat /\ l \in Nat /\ k <= l /\ Len(body) \in Nat /\ l <= Len(body)
  <2>1. Len(body) \in Nat
    BY LenProperties DEF IsBody
  <2> QED
    BY <2>1
<1>4. /\ buffer \in Seq(1 .. Len(body)) /\ Len(buffer) = l - k
      /\ \A i \in 1 .. l - k : buffer[i] = k + i /\ k + i \notin Headings(body)
  BY <1>1 DEF Buffered, LinesOf
<1> HIDE DEF buffer
<1>5. Rises(buffer)
  <2>1. \A i, j \in 1 .. l - k : i < j => k + i < k + j
    BY <1>3
  <2> QED
    BY <1>4, <2>1 DEF Rises
<1>6. /\ prose \in Texts /\ AsWritten(body, prose)
      /\ ink = UNION {LineInk(body, buffer[i]) : i \in 1 .. Len(buffer)}
      /\ prose = <<>> \/ ink # {}
  BY <1>4, <1>5, ProseInk
<1> HIDE DEF prose
<1>7. \A c : c \in ink <=> \E i \in 1 .. l - k : c \in LineInk(body, k + i)
  <2>1. ink = UNION {LineInk(body, k + i) : i \in 1 .. l - k}
    BY <1>4, <1>6
  <2> HIDE DEF ink
  <2> QED
    BY <2>1
<1>8. \A i \in 1 .. l - k : k + i \in 1 .. Len(body) /\ k + i <= l /\ ~(k + i <= k)
  BY <1>3
<1>9. \A j \in 1 .. Len(body) : j <= l => j <= k \/ (j - k \in 1 .. l - k /\ k + (j - k) = j)
  BY <1>3
<1> HIDE DEF ink
<1>10. \A c \in ink : \E i \in 1 .. l - k : c[1] = k + i /\ c \in LineInk(body, k + i)
  <2> SUFFICES ASSUME NEW c \in ink
               PROVE  \E i \in 1 .. l - k : c[1] = k + i /\ c \in LineInk(body, k + i)
    OBVIOUS
  <2>1. PICK i \in 1 .. l - k : c \in LineInk(body, k + i)
    BY <1>7
  <2>2. c[1] = k + i
    BY <1>8, <2>1, InkedIs
  <2> QED
    BY <2>1, <2>2
<1>11. ProseTo(body, l) = ProseTo(body, k) \cup ink
  <2>1. ASSUME NEW c \in ProseTo(body, l)
        PROVE  c \in ProseTo(body, k) \cup ink
    <3>1. c \in InkedProse(body) /\ c[1] <= l
      BY DEF ProseTo
    <3>2. PICK j \in 1 .. Len(body) : j \notin Headings(body) /\ c \in LineInk(body, j)
      BY <3>1, InkedIs
    <3>3. c[1] = j
      BY <3>2, InkedIs
    <3>4. CASE j <= k
      BY <3>1, <3>3, <3>4 DEF ProseTo
    <3>5. CASE ~(j <= k)
      <4>1. j - k \in 1 .. l - k /\ k + (j - k) = j
        BY <1>9, <3>1, <3>3, <3>5
      <4> QED
        BY <1>7, <3>2, <4>1
    <3> QED
      BY <3>4, <3>5
  <2>2. ASSUME NEW c \in ink
        PROVE  c \in ProseTo(body, l)
    <3>1. PICK i \in 1 .. l - k : c[1] = k + i /\ c \in LineInk(body, k + i)
      BY <1>10
    <3>2. k + i \in 1 .. Len(body) /\ k + i <= l /\ k + i \notin Headings(body)
      BY <1>4, <1>8
    <3>3. c \in InkedProse(body)
      BY <3>1, <3>2, InkedIs
    <3> QED
      BY <3>1, <3>2, <3>3 DEF ProseTo
  <2>3. ASSUME NEW c \in ProseTo(body, k)
        PROVE  c \in ProseTo(body, l)
    <3>1. c \in InkedProse(body) /\ c[1] <= k
      BY DEF ProseTo
    <3>2. PICK j \in 1 .. Len(body) : c \in LineInk(body, j)
      BY <3>1, InkedIs
    <3>3. c[1] = j
      BY <3>2, InkedIs
    <3>4. j <= l
      BY <1>3, <3>1, <3>3
    <3> QED
      BY <3>1, <3>3, <3>4 DEF ProseTo
  <2> QED
    BY <2>1, <2>2, <2>3
<1>12. CASE prose = <<>>
  <2>1. ink = {}
    BY <1>12, NoInk DEF ink
  <2>2. Flushed(body, scan) = sections
    BY <1>12 DEF Flushed, prose, buffer
  <2> QED
    BY <1>1, <1>11, <2>1, <2>2 DEF Sectioned
<1>13. CASE prose # <<>>
  <2> DEFINE new == [path |-> scan.stack, prose |-> prose]
             more == Append(sections, new)
  <2>1. Flushed(body, scan) = more
    BY <1>13 DEF Flushed, prose, buffer
  <2>2. new \in SectionsOf(body) /\ new.path = scan.stack /\ new.prose = prose
    BY <1>2, <1>6 DEF SectionsOf
  <2>3. /\ sections \in Seq(SectionsOf(body)) /\ Divides(body, Proses(sections), ProseTo(body, k))
        /\ \A n \in 1 .. N : UnderItsPath(body, sections[n])
    BY <1>1 DEF Sectioned
  <2> HIDE DEF new, sections
  <2>4. /\ more \in Seq(SectionsOf(body)) /\ Len(more) = N + 1 /\ more[N + 1] = new /\ N \in Nat
        /\ \A n \in 1 .. N : more[n] = sections[n]
    BY <2>2, <2>3, AppendProperties, LenProperties
  <2> HIDE DEF more
  <2>5. Proses(more) = Append(Proses(sections), prose)
    <3>1. DOMAIN more = 1 .. N + 1 /\ DOMAIN sections = 1 .. N
      BY <2>3, <2>4, LenProperties
    <3>2. Proses(sections) = [n \in 1 .. N |-> sections[n].prose]
      BY <3>1 DEF Proses
    <3>3. Proses(more) = [n \in 1 .. N + 1 |-> IF n <= N THEN sections[n].prose ELSE prose]
      <4>1. ASSUME NEW n \in 1 .. N + 1
            PROVE  more[n].prose = IF n <= N THEN sections[n].prose ELSE prose
        <5>1. n \in 1 .. N \/ (n = N + 1 /\ ~(n <= N))
          BY <2>4
        <5> QED
          BY <2>2, <2>4, <5>1
      <4> QED
        BY <3>1, <4>1 DEF Proses
    <3>4. Proses(sections) \in Seq(Texts) /\ Len(Proses(sections)) = N
      <4>1. Proses(sections) \in Seq(Texts)
        BY <2>3 DEF Divides
      <4> HIDE DEF N
      <4> QED
        BY <2>4, <3>2, <4>1
    <3> HIDE DEF N
    <3>5. Append(Proses(sections), prose) = [n \in 1 .. N + 1 |-> IF n <= N THEN sections[n].prose ELSE prose]
      <4> DEFINE P == Proses(sections)
                 A == Append(P, prose)
      <4>1. /\ A \in Seq(Texts) /\ Len(A) = N + 1 /\ A[N + 1] = prose
            /\ \A n \in 1 .. N : A[n] = P[n]
        <5> HIDE DEF P
        <5>1. P \in Seq(Texts) /\ Len(P) = N
          BY <3>4 DEF P
        <5> QED
          BY <1>6, <5>1, AppendProperties
      <4>2. \A n \in 1 .. N : P[n] = sections[n].prose
        BY <3>2
      <4> HIDE DEF P, A
      <4>3. ASSUME NEW n \in 1 .. N + 1
            PROVE  A[n] = IF n <= N THEN sections[n].prose ELSE prose
        <5>1. n \in 1 .. N \/ (n = N + 1 /\ ~(n <= N))
          BY <2>4
        <5> QED
          BY <4>1, <4>2, <5>1
      <4>4. A = [n \in 1 .. N + 1 |-> A[n]]
        BY <4>1
      <4>5. A = [n \in 1 .. N + 1 |-> IF n <= N THEN sections[n].prose ELSE prose]
        BY <4>3, <4>4
      <4> QED
        BY <4>5 DEF A, P
    <3> QED
      BY <3>3, <3>5
  <2>6. Precedes(ProseTo(body, k), ink)
    <3>1. ASSUME NEW c \in ProseTo(body, k), NEW d \in ink
          PROVE  c[1] < d[1]
      <4>1. PICK i \in 1 .. l - k : d[1] = k + i
        BY <1>10
      <4>2. c \in InkedProse(body) /\ c[1] <= k
        BY DEF ProseTo
      <4>3. PICK j \in 1 .. Len(body) : c \in LineInk(body, j)
        BY <4>2, InkedIs
      <4>4. c[1] = j
        BY <4>3, InkedIs
      <4> QED
        BY <1>3, <4>1, <4>2, <4>4
    <3> QED
      BY <3>1 DEF Precedes, Before
  <2>7. Divides(body, Proses(more), ProseTo(body, l))
    <3>1. Divides(body, Append(Proses(sections), prose), ProseTo(body, k) \cup ink)
      BY <1>6, <2>3, <2>6, AppendDivides DEF ink
    <3> QED
      BY <1>11, <2>5, <3>1
  <2>8. UnderItsPath(body, new)
    <3>1. InkOf(body, new.prose) # {} /\ Rises(new.path)
      BY <1>2, <1>6, <1>13, <2>2 DEF ink
    <3>2. ASSUME NEW c \in InkOf(body, new.prose), NEW h
          PROVE  h \in Enclosing(body, c[1]) <=> \E i \in 1 .. Len(new.path) : new.path[i] = h
      <4>1. c \in ink
        BY <2>2, <3>2 DEF ink
      <4>2. PICK i \in 1 .. l - k : c[1] = k + i
        BY <1>10, <4>1
      <4>3. Enclosing(body, c[1]) = Enclosing(body, l + 1)
        <5>1. Enclosing(body, k + i) = Enclosing(body, l + 1)
          BY <1>1 DEF Buffered
        <5> QED
          BY <4>2, <5>1
      <4>4. h \in Enclosing(body, l + 1) <=> \E j \in 1 .. Len(scan.stack) : scan.stack[j] = h
        BY DEF Scanned, Stacked
      <4> QED
        BY <2>2, <4>3, <4>4
    <3> QED
      BY <3>1, <3>2 DEF UnderItsPath
  <2>9. \A n \in 1 .. N + 1 : UnderItsPath(body, more[n])
    <3>1. \A n \in 1 .. N + 1 : n \in 1 .. N \/ n = N + 1
      BY <2>4
    <3> QED
      BY <2>3, <2>4, <2>8, <3>1
  <2> QED
    BY <2>1, <2>4, <2>7, <2>9 DEF Sectioned
<1> QED
  BY <1>12, <1>13

LEMMA ScanLineIs ==
    ASSUME NEW body, NEW scan \in ScanStates(body), NEW l
    PROVE  LET new == ScanLine(body, scan, l)
           IN /\ new.fence = FenceNext(body, scan.fence, l)
              /\ body[l].kind = "heading" /\ scan.fence = NoFence =>
                     /\ new.sections = Flushed(body, scan) /\ new.buffer = <<>>
                     /\ new.stack = IF body[l].isTitle THEN <<>> ELSE Push(body, scan.stack, l)
              /\ ~(body[l].kind = "heading" /\ scan.fence = NoFence) =>
                     /\ new.sections = scan.sections /\ new.buffer = Append(scan.buffer, l)
                     /\ new.stack = scan.stack
<1> DEFINE line == body[l]
           new == ScanLine(body, scan, l)
           kept == [scan EXCEPT !.buffer = Append(@, l)]
           stack == IF line.isTitle THEN <<>> ELSE Push(body, scan.stack, l)
<1>1. /\ kept.fence = scan.fence /\ kept.sections = scan.sections /\ kept.stack = scan.stack
      /\ kept.buffer = Append(scan.buffer, l)
  BY DEF ScanStates
<1>2. \A f : LET k == [kept EXCEPT !.fence = f]
             IN k.fence = f /\ k.sections = scan.sections /\ k.stack = scan.stack /\ k.buffer = Append(scan.buffer, l)
  BY DEF ScanStates
<1>3. LET p == [scan EXCEPT !.sections = Flushed(body, scan), !.buffer = <<>>,
                            !.stack = IF line.isTitle THEN <<>> ELSE Push(body, @, l)]
      IN p.fence = scan.fence /\ p.sections = Flushed(body, scan) /\ p.buffer = <<>> /\ p.stack = stack
  BY DEF ScanStates
<1> HIDE DEF stack
<1>4. OpensFence(line) => line.kind # "heading"
  BY DEF OpensFence
<1>5. CASE scan.fence # NoFence
  <2>1. new = IF ClosesFence(line, scan.fence) THEN [kept EXCEPT !.fence = NoFence] ELSE kept
    BY <1>5 DEF ScanLine
  <2> HIDE DEF kept, new
  <2>2. CASE ClosesFence(line, scan.fence)
    <3>1. new = [kept EXCEPT !.fence = NoFence] /\ FenceNext(body, scan.fence, l) = NoFence
      BY <1>5, <2>1, <2>2 DEF FenceNext
    <3> QED
      BY <1>2, <1>5, <3>1 DEF new
  <2>3. CASE ~ClosesFence(line, scan.fence)
    <3>1. new = kept /\ FenceNext(body, scan.fence, l) = scan.fence
      BY <1>5, <2>1, <2>3 DEF FenceNext
    <3> QED
      BY <1>1, <1>5, <3>1 DEF new
  <2> QED
    BY <2>2, <2>3
<1>6. CASE scan.fence = NoFence /\ OpensFence(line)
  <2>1. new = [kept EXCEPT !.fence = [mark |-> line.mark, run |-> line.run]]
    BY <1>6 DEF ScanLine
  <2>2. FenceNext(body, scan.fence, l) = [mark |-> line.mark, run |-> line.run]
    BY <1>6 DEF FenceNext
  <2> HIDE DEF kept, new
  <2>3. new.fence = FenceNext(body, scan.fence, l) /\ new.sections = scan.sections
        /\ new.stack = scan.stack /\ new.buffer = Append(scan.buffer, l)
    BY <1>2, <2>1, <2>2
  <2> QED
    BY <1>4, <1>6, <2>3 DEF new
<1>7. CASE scan.fence = NoFence /\ ~OpensFence(line) /\ line.kind # "heading"
  <2>1. new = kept /\ FenceNext(body, scan.fence, l) = NoFence
    BY <1>7 DEF FenceNext, ScanLine
  <2> HIDE DEF kept, new
  <2> QED
    BY <1>1, <1>7, <2>1 DEF new
<1>8. CASE scan.fence = NoFence /\ ~OpensFence(line) /\ line.kind = "heading"
  <2> DEFINE p == [scan EXCEPT !.sections = Flushed(body, scan), !.buffer = <<>>,
                               !.stack = IF line.isTitle THEN <<>> ELSE Push(body, @, l)]
  <2>1. new = p /\ FenceNext(body, scan.fence, l) = NoFence
    BY <1>8 DEF FenceNext, ScanLine
  <2>2. p.fence = scan.fence /\ p.sections = Flushed(body, scan) /\ p.buffer = <<>> /\ p.stack = stack
    BY <1>3
  <2> HIDE DEF p, kept, new
  <2> QED
    BY <1>8, <2>1, <2>2 DEF new, stack
<1> QED
  BY <1>5, <1>6, <1>7, <1>8

LEMMA LineScanned ==
    ASSUME NEW body, IsBody(body), Marked(body), NEW l \in 1 .. Len(body), NEW scan, Scanned(body, scan, l - 1)
    PROVE  Scanned(body, ScanLine(body, scan, l), l)
<1> DEFINE new == ScanLine(body, scan, l)
<1>1. l \in Nat /\ Len(body) \in Nat /\ l - 1 \in 0 .. Len(body) /\ (l - 1) + 1 = l /\ l \in LinesOf(body)
  <2>1. Len(body) \in Nat
    BY HeadingsAre
  <2> QED
    BY <2>1 DEF LinesOf
<1>2. /\ scan \in ScanStates(body) /\ scan.fence = FenceAt(body)[l - 1] /\ Stacked(body, scan.stack, l)
      /\ \E k \in 0 .. l - 1 : Buffered(body, scan.buffer, k, l - 1) /\ Sectioned(body, scan.sections, k)
  BY <1>1 DEF Scanned
<1>3. new \in ScanStates(body)
  BY <1>1, <1>2, ScanLineType
<1>4. /\ new.fence = FenceNext(body, scan.fence, l)
      /\ body[l].kind = "heading" /\ scan.fence = NoFence =>
             /\ new.sections = Flushed(body, scan) /\ new.buffer = <<>>
             /\ new.stack = IF body[l].isTitle THEN <<>> ELSE Push(body, scan.stack, l)
      /\ ~(body[l].kind = "heading" /\ scan.fence = NoFence) =>
             /\ new.sections = scan.sections /\ new.buffer = Append(scan.buffer, l)
             /\ new.stack = scan.stack
  BY <1>2, ScanLineIs
<1> HIDE DEF new
<1>5. new.fence = FenceAt(body)[l]
  <2>1. \A i \in 1 .. Len(body) : FenceAt(body)[i] = FenceNext(body, FenceAt(body)[i - 1], i)
    BY FenceIs
  <2> QED
    BY <1>2, <1>4, <2>1
<1>6. l \in Headings(body) <=> body[l].kind = "heading" /\ scan.fence = NoFence
  <2>1. l \in DOMAIN body
    BY HeadingsAre
  <2> QED
    BY <1>2, <2>1 DEF Headings
<1>7. CASE l \in Headings(body)
  <2>1. /\ new.sections = Flushed(body, scan) /\ new.buffer = <<>>
        /\ new.stack = IF body[l].isTitle THEN <<>> ELSE Push(body, scan.stack, l)
    BY <1>4, <1>6, <1>7
  <2>2. Sectioned(body, new.sections, l - 1)
    BY <1>1, <2>1, FlushSections
  <2>3. ProseTo(body, l) = ProseTo(body, l - 1)
    <3>1. ASSUME NEW c \in InkedProse(body)
          PROVE  c[1] <= l <=> c[1] <= l - 1
      <4>1. PICK j \in 1 .. Len(body) : j \notin Headings(body) /\ c \in LineInk(body, j)
        BY InkedIs
      <4>2. c[1] = j /\ j # l
        BY <1>7, <4>1, InkedIs
      <4> QED
        BY <1>1, <4>2
    <3> QED
      BY <3>1 DEF ProseTo
  <2>4. Sectioned(body, new.sections, l)
    BY <2>2, <2>3 DEF Sectioned
  <2>5. Buffered(body, new.buffer, l, l)
    <3>1. new.buffer \in Seq(LinesOf(body)) /\ Len(new.buffer) = 0 /\ l - l = 0 /\ 1 .. l - l = {}
      BY <1>1, <2>1
    <3> QED
      BY <3>1 DEF Buffered
  <2>6. Stacked(body, new.stack, l + 1)
    <3>1. CASE body[l].isTitle
      <4>1. new.stack = <<>> /\ new.stack \in Seq(LinesOf(body)) /\ 1 .. Len(new.stack) = {}
        BY <2>1, <3>1
      <4>2. Enclosing(body, l + 1) = {}
        BY <1>7, <3>1, EnclosingNext
      <4> QED
        BY <4>1, <4>2 DEF Stacked, Rises
    <3>2. CASE ~body[l].isTitle
      BY <1>2, <1>7, <2>1, <3>2, PushStacked
    <3> QED
      BY <3>1, <3>2
  <2>7. l \in 0 .. l
    BY <1>1
  <2>8. Scanned(body, new, l)
    BY <1>3, <1>5, <2>4, <2>5, <2>6, <2>7 DEF Scanned
  <2> QED
    BY <2>8 DEF new
<1>8. CASE l \notin Headings(body)
  <2>1. new.sections = scan.sections /\ new.buffer = Append(scan.buffer, l) /\ new.stack = scan.stack
    BY <1>4, <1>6, <1>8
  <2>2. Enclosing(body, l + 1) = Enclosing(body, l)
    BY <1>8, EnclosingNext
  <2>3. Stacked(body, new.stack, l + 1)
    BY <1>2, <2>1, <2>2 DEF Stacked
  <2>4. PICK k \in 0 .. l - 1 : Buffered(body, scan.buffer, k, l - 1) /\ Sectioned(body, scan.sections, k)
    BY <1>2
  <2>5. k \in 0 .. l /\ k \in Nat /\ (l - 1) - k \in Nat /\ l - k = ((l - 1) - k) + 1 /\ k + (l - k) = l
    BY <1>1
  <2> DEFINE n == (l - 1) - k
             B == scan.buffer
  <2>6. /\ B \in Seq(LinesOf(body)) /\ Len(B) = n
        /\ \A i \in 1 .. n : /\ B[i] = k + i /\ k + i \notin Headings(body)
                             /\ Enclosing(body, k + i) = Enclosing(body, l)
    BY <1>1, <2>4 DEF Buffered
  <2> HIDE DEF n, B
  <2>7. /\ new.buffer \in Seq(LinesOf(body)) /\ Len(new.buffer) = n + 1 /\ new.buffer[n + 1] = l
        /\ \A i \in 1 .. n : new.buffer[i] = B[i]
    <3>1. new.buffer = Append(B, l)
      BY <2>1 DEF B
    <3> QED
      BY <1>1, <2>6, <3>1, AppendProperties
  <2>8. ASSUME NEW i \in 1 .. l - k
        PROVE  /\ new.buffer[i] = k + i /\ k + i \notin Headings(body)
               /\ Enclosing(body, k + i) = Enclosing(body, l + 1)
    <3>1. i \in 1 .. n \/ (i = n + 1 /\ k + i = l)
      BY <1>1, <2>5 DEF n
    <3>2. CASE i \in 1 .. n
      BY <2>2, <2>6, <2>7, <3>2
    <3>3. CASE i = n + 1 /\ k + i = l
      BY <1>8, <2>2, <2>7, <3>3
    <3> QED
      BY <3>1, <3>2, <3>3
  <2>9. Buffered(body, new.buffer, k, l)
    <3>1. Len(new.buffer) = l - k
      BY <2>5, <2>7 DEF n
    <3> QED
      BY <2>7, <2>8, <3>1 DEF Buffered
  <2>10. Sectioned(body, new.sections, k)
    BY <2>1, <2>4
  <2>11. Scanned(body, new, l)
    BY <1>3, <1>5, <2>3, <2>5, <2>9, <2>10 DEF Scanned
  <2> QED
    BY <2>11 DEF new
<1> QED
  BY <1>7, <1>8

\* The sections have all of the prose, each under its headings.
LEMMA SectionsKeep ==
    ASSUME NEW body, IsBody(body), Marked(body)
    PROVE  Sectioned(body, Sections(body), Len(body)) /\ ProseTo(body, Len(body)) = InkedProse(body)
<1> DEFINE N == Len(body)
<1>1. N \in Nat /\ N \in 0 .. N /\ \A i \in 1 .. N : i \in LinesOf(body)
  <2>1. N \in Nat
    BY HeadingsAre
  <2> QED
    BY <2>1 DEF LinesOf
<1>2. PICK f : /\ f[0] = NewScan /\ \A i \in 0 .. N : f[i] \in ScanStates(body)
               /\ \A i \in 1 .. N : f[i] = ScanLine(body, f[i - 1], i)
               /\ Sections(body) = Flushed(body, f[N])
  BY SectionsAre
<1> DEFINE T == {i \in 0 .. N : Scanned(body, f[i], i)}
<1>3. 0 \in T
  <2>1. 0 \in 0 .. N /\ 0 \in 0 .. 0 /\ 0 - 0 = 0 /\ 0 + 1 = 1 /\ 1 .. 0 = {}
    BY <1>1
  <2>2. FenceAt(body)[0] = NoFence
    BY FenceIs
  <2>3. /\ f[0].fence = NoFence /\ f[0].stack = <<>> /\ f[0].buffer = <<>> /\ f[0].sections = <<>>
        /\ Len(<<>>) = 0 /\ <<>> \in Seq(LinesOf(body)) /\ <<>> \in Seq(SectionsOf(body))
    BY <1>2 DEF NewScan
  <2>4. Enclosing(body, 1) = {}
    <3>1. \A h \in Headings(body) : ~(h < 1)
      <4>1. \A h \in Headings(body) : h \in 1 .. N
        BY HeadingsAre
      <4> QED
        BY <1>1, <4>1
    <3> QED
      BY <3>1 DEF Enclosing
  <2>5. Stacked(body, f[0].stack, 1)
    BY <2>1, <2>3, <2>4 DEF Stacked, Rises
  <2>6. Buffered(body, f[0].buffer, 0, 0)
    BY <2>1, <2>3 DEF Buffered
  <2>7. ProseTo(body, 0) = {}
    <3>1. ASSUME NEW c \in InkedProse(body)
          PROVE  ~(c[1] <= 0)
      <4>1. PICK j \in 1 .. N : c \in LineInk(body, j)
        BY InkedIs
      <4>2. c[1] = j
        BY <4>1, InkedIs
      <4> QED
        BY <1>1, <4>2
    <3> QED
      BY <3>1 DEF ProseTo
  <2>8. Proses(<<>>) = <<>>
    BY DEF Proses
  <2>9. Sectioned(body, f[0].sections, 0)
    BY <2>1, <2>3, <2>7, <2>8, NothingDivides DEF Sectioned
  <2>10. Scanned(body, f[0], 0)
    BY <1>2, <2>1, <2>2, <2>3, <2>5, <2>6, <2>9 DEF Scanned
  <2> QED
    BY <2>1, <2>10
<1>4. ASSUME NEW i \in 1 .. N, i - 1 \in T
      PROVE  i \in T
  <2>1. i \in 0 .. N /\ f[i] = ScanLine(body, f[i - 1], i) /\ Scanned(body, f[i - 1], i - 1)
    BY <1>1, <1>2, <1>4
  <2>2. Scanned(body, ScanLine(body, f[i - 1], i), i)
    BY <2>1, LineScanned
  <2> QED
    BY <2>1, <2>2
<1>5. Scanned(body, f[N], N)
  <2> HIDE DEF T, N
  <2>1. \A i \in 0 .. N : i \in T
    BY <1>1, <1>3, <1>4, Climbs
  <2> QED
    BY <1>1, <2>1 DEF T
<1>6. Sectioned(body, Sections(body), N)
  BY <1>1, <1>2, <1>5, FlushSections
<1>7. ASSUME NEW c \in InkedProse(body)
      PROVE  c[1] <= N
  <2>1. PICK j \in 1 .. N : c \in LineInk(body, j)
    BY InkedIs
  <2>2. c[1] = j
    BY <2>1, InkedIs
  <2> QED
    BY <1>1, <2>2
<1> QED
  BY <1>6, <1>7 DEF ProseTo

-----------------------------------------------------------------------------
(* Documents.                                                              *)

IsDocument(document) == IsBody(document.body) /\ Marked(document.body) /\ document.titleWidth \in Nat
SectionAt(document, n) == Sections(document.body)[n]
Budget(document, limits, n) == Room(document, SectionAt(document, n).path, limits)
PiecesAt(document, limits, n) ==
    SplitSection(document.body, SectionAt(document, n).prose, Budget(document, limits, n), limits.overlap)

LEMMA SectionsOrdered ==
    ASSUME NEW document, IsDocument(document)
    PROVE  LET body == document.body
               N == Len(Sections(body))
               Ink(n) == InkOf(body, SectionAt(document, n).prose)
           IN /\ N \in Nat /\ DOMAIN Sections(body) = 1 .. N
              /\ \A n \in 1 .. N : /\ SectionAt(document, n) \in SectionsOf(body) /\ UnderItsPath(body, SectionAt(document, n))
                                   /\ AsWritten(body, SectionAt(document, n).prose)
                                   /\ Ink(n) \subseteq InkedProse(body)
              /\ \A m, n \in 1 .. N : m < n => Ink(m) \cap Ink(n) = {}
              /\ \A c \in InkedProse(body) : \E n \in 1 .. N : c \in Ink(n)
<1> DEFINE body == document.body
           sections == Sections(body)
           N == Len(sections)
           P == Proses(sections)
           Ink(n) == InkOf(body, SectionAt(document, n).prose)
<1>1. /\ sections \in Seq(SectionsOf(body)) /\ Divides(body, P, InkedProse(body))
      /\ \A n \in 1 .. N : UnderItsPath(body, sections[n])
  <2>1. Sectioned(body, sections, Len(body)) /\ ProseTo(body, Len(body)) = InkedProse(body)
    BY SectionsKeep DEF IsDocument
  <2> QED
    BY <2>1 DEF Sectioned
<1>2. \A n : SectionAt(document, n) = sections[n]
  BY DEF SectionAt
<1> HIDE DEF sections
<1>3. N \in Nat /\ DOMAIN sections = 1 .. N /\ \A n \in 1 .. N : sections[n] \in SectionsOf(body)
  BY <1>1, Listed
<1>4. P = [n \in 1 .. N |-> sections[n].prose]
  BY <1>3 DEF Proses
<1>5. P \in Seq(Texts) /\ Len(P) = N
  <2>1. P \in Seq(Texts)
    BY <1>1 DEF Divides
  <2> HIDE DEF N, P
  <2> QED
    BY <1>3, <1>4, <2>1, LenProperties
<1>6. \A n \in 1 .. N : P[n] = SectionAt(document, n).prose
  BY <1>2, <1>4
<1> HIDE DEF P, N
<1>7. /\ \A n \in 1 .. N : AsWritten(body, P[n])
      /\ \A n, m \in 1 .. N : n < m => Precedes(InkOf(body, P[n]), InkOf(body, P[m]))
      /\ InkedProse(body) = UNION {InkOf(body, P[n]) : n \in 1 .. N}
  BY <1>1, <1>5 DEF Divides
<1>8. \A n \in 1 .. N : \A c \in InkOf(body, P[n]) : c \in Chars
  <2> SUFFICES ASSUME NEW n \in 1 .. N, NEW c \in InkOf(body, P[n])
               PROVE  c \in Chars
    OBVIOUS
  <2>1. P[n] \in Texts
    BY <1>5, Listed
  <2> QED
    BY <2>1, InkIs
<1>9. \A m, n \in 1 .. N : m < n => Ink(m) \cap Ink(n) = {}
  <2> SUFFICES ASSUME NEW m \in 1 .. N, NEW n \in 1 .. N, m < n
               PROVE  Ink(m) \cap Ink(n) = {}
    OBVIOUS
  <2>1. InkOf(body, P[m]) \cap InkOf(body, P[n]) = {}
    <3>1. Precedes(InkOf(body, P[m]), InkOf(body, P[n])) /\ \A c \in InkOf(body, P[m]) : c \in Chars
      BY <1>7, <1>8
    <3> QED
      BY <3>1, PrecedingIsDisjoint
  <2> QED
    BY <1>6, <2>1
<1>10. ASSUME NEW n \in 1 .. N
       PROVE  /\ SectionAt(document, n) \in SectionsOf(body) /\ UnderItsPath(body, SectionAt(document, n))
              /\ AsWritten(body, SectionAt(document, n).prose) /\ Ink(n) \subseteq InkedProse(body)
  <2>1. SectionAt(document, n) \in SectionsOf(body) /\ UnderItsPath(body, SectionAt(document, n))
    BY <1>1, <1>2, <1>3 DEF N
  <2>2. AsWritten(body, SectionAt(document, n).prose) /\ Ink(n) \subseteq InkedProse(body)
    BY <1>6, <1>7
  <2> QED
    BY <2>1, <2>2
<1>11. \A c \in InkedProse(body) : \E n \in 1 .. N : c \in Ink(n)
  BY <1>6, <1>7
<1> QED
  BY <1>3, <1>9, <1>10, <1>11 DEF N, sections

LEMMA SectionKept ==
    ASSUME NEW document, IsDocument(document), NEW limits \in [max : Int, overlap : Int],
           ~ChunkingFails(document, limits), NEW n \in 1 .. Len(Sections(document.body))
    PROVE  LET section == SectionAt(document, n)
           IN /\ limits.overlap \in Nat /\ limits.max \in Int /\ PathWidth(document, section.path) \in Nat
              /\ Covers(document.body, PiecesAt(document, limits, n), InkOf(document.body, section.prose),
                        Budget(document, limits, n), limits.overlap)
<1> DEFINE body == document.body
           section == SectionAt(document, n)
           budget == Budget(document, limits, n)
<1>1. /\ section \in SectionsOf(body) /\ UnderItsPath(body, section) /\ AsWritten(body, section.prose)
      /\ n \in DOMAIN Sections(body)
  BY SectionsOrdered
<1>2. LegalLimits(limits) /\ ~Unsplittable(document, section, limits)
  BY <1>1 DEF ChunkingFails, SectionAt
<1> HIDE DEF section
<1>3. section.path \in Seq(LinesOf(body)) /\ section.prose \in Texts /\ InkOf(body, section.prose) # {}
  BY <1>1 DEF SectionsOf, UnderItsPath
<1>4. limits.max \in Int /\ limits.overlap \in Nat
  BY <1>2 DEF LegalLimits
<1>5. Measured(document, section.path)
  <2>1. PICK c \in InkOf(body, section.prose) : TRUE
    BY <1>3
  <2>2. \A i \in 1 .. Len(section.path) : section.path[i] \in Headings(body)
    <3>1. \A i \in 1 .. Len(section.path) : section.path[i] \in Enclosing(body, c[1])
      BY <1>1, <2>1 DEF UnderItsPath
    <3> QED
      BY <3>1 DEF Enclosing
  <2>3. \A h \in Headings(body) : body[h].width \in Nat
    BY HeadingsAre DEF IsDocument
  <2>4. Len(section.path) \in Nat
    BY <1>3, LenProperties
  <2> QED
    BY <2>2, <2>3, <2>4 DEF Measured, IsDocument
<1>6. PathWidth(document, section.path) \in Nat
  BY <1>5, WidthType
<1>7. budget \in Int
  BY <1>4, <1>6 DEF Budget, Room, EmbeddingJoinWidth, section
<1>8. budget = Room(document, section.path, limits)
  BY DEF Budget, section
<1> HIDE DEF budget
<1>9. Len(section.prose) <= budget \/ PackedBudget(budget, limits.overlap) > 0
  <2>1. ~(Len(section.prose) > budget /\ PackedBudget(budget, limits.overlap) <= 0)
    BY <1>2, <1>8 DEF Unsplittable
  <2>2. Len(section.prose) \in Nat /\ PackedBudget(budget, limits.overlap) \in Int
    <3>1. Len(ParagraphJoin) = 2
      BY DEF ParagraphJoin
    <3> QED
      BY <1>3, <1>4, <1>7, <3>1, LenProperties DEF PackedBudget, Texts
  <2> QED
    BY <1>7, <2>1, <2>2
<1>10. Covers(body, SplitSection(body, section.prose, budget, limits.overlap), InkOf(body, section.prose),
              budget, limits.overlap)
  BY <1>1, <1>3, <1>4, <1>7, <1>9, SectionCovers
<1> QED
  BY <1>4, <1>6, <1>10 DEF section, budget, PiecesAt

\* Where the chunks of a document come from: section by section, piece by piece.
CutFrom(document, limits, cs, row, col) ==
    /\ \A k \in 1 .. Len(cs) :
          /\ row[k] \in 1 .. Len(Sections(document.body)) /\ col[k] \in 1 .. Len(PiecesAt(document, limits, row[k]))
          /\ cs[k].path = SectionAt(document, row[k]).path
          /\ cs[k].content = PiecesAt(document, limits, row[k])[col[k]]
    /\ \A j, k \in 1 .. Len(cs) : j < k => row[j] < row[k] \/ (row[j] = row[k] /\ col[j] < col[k])
    /\ \A m \in 1 .. Len(Sections(document.body)) : \A i \in 1 .. Len(PiecesAt(document, limits, m)) :
           \E k \in 1 .. Len(cs) : row[k] = m /\ col[k] = i

LEMMA ChunksAre ==
    ASSUME NEW document, IsDocument(document), NEW limits \in [max : Int, overlap : Int],
           ~ChunkingFails(document, limits)
    PROVE  /\ Len(ChunkMarkdown(document, limits)) \in Nat
           /\ DOMAIN ChunkMarkdown(document, limits) = 1 .. Len(ChunkMarkdown(document, limits))
           /\ \E row, col : CutFrom(document, limits, ChunkMarkdown(document, limits), row, col)
<1> DEFINE sections == Sections(document.body)
           N == Len(sections)
           rows == [n \in DOMAIN sections |-> PiecesOf(document, sections[n], limits)]
           all == FlattenSeq(rows)
           Values == UNION {{rows[n][i] : i \in DOMAIN rows[n]} : n \in DOMAIN sections}
           cs == ChunkMarkdown(document, limits)
<1>1. N \in Nat /\ DOMAIN sections = 1 .. N
  BY SectionsOrdered
<1>2. ASSUME NEW n \in 1 .. N
      PROVE  /\ Len(PiecesAt(document, limits, n)) \in Nat
             /\ rows[n] = [i \in 1 .. Len(PiecesAt(document, limits, n)) |->
                              [path |-> SectionAt(document, n).path, content |-> PiecesAt(document, limits, n)[i]]]
  <2> DEFINE P == PiecesAt(document, limits, n)
  <2>1. P \in Seq(Texts)
    BY SectionKept DEF Covers
  <2>2. rows[n] = [i \in DOMAIN P |-> [path |-> SectionAt(document, n).path, content |-> P[i]]]
    BY <1>1 DEF PiecesOf, PiecesAt, Budget, SectionAt
  <2> HIDE DEF P, rows
  <2>3. Len(P) \in Nat /\ DOMAIN P = 1 .. Len(P)
    BY <2>1, Listed
  <2> QED
    BY <2>2, <2>3 DEF P
<1>3. rows = [n \in 1 .. N |-> rows[n]]
  BY <1>1
<1>4. all = FlattenSeq(rows) /\ \A n \in 1 .. N : \A i \in DOMAIN rows[n] : rows[n][i] \in Values
  BY <1>1
<1>5. cs = [n \in DOMAIN all |->
               [parent |-> [tenant |-> document.tenant, doc |-> document.doc_id], ordinal |-> n - 1,
                path |-> all[n].path, content |-> all[n].content, groups |-> document.groups]]
  BY DEF ChunkMarkdown
<1> HIDE DEF sections, N, rows, all, Values, cs
<1>6. ASSUME NEW n \in 1 .. N
      PROVE  rows[n] \in Seq(Values) /\ Len(rows[n]) = Len(PiecesAt(document, limits, n))
  <2>1. rows[n] \in [1 .. Len(PiecesAt(document, limits, n)) -> Values]
    BY <1>2, <1>4
  <2>2. Len(PiecesAt(document, limits, n)) \in Nat
    BY <1>2
  <2>3. rows[n] \in Seq(Values) /\ DOMAIN rows[n] = 1 .. Len(PiecesAt(document, limits, n))
    BY <2>1, <2>2, MapIsSeq
  <2> QED
    BY <2>2, <2>3, LenProperties
<1>7. rows \in Seq(Seq(Values)) /\ Len(rows) = N
  <2>1. rows \in [1 .. N -> Seq(Values)]
    BY <1>3, <1>6
  <2>2. rows \in Seq(Seq(Values)) /\ DOMAIN rows = 1 .. N
    BY <1>1, <2>1, MapIsSeq
  <2> QED
    BY <1>1, <2>2, LenProperties
<1>8. Len(all) \in Nat /\ DOMAIN all = 1 .. Len(all)
  <2>1. all \in Seq(Values)
    BY <1>4, <1>7, FlattenType
  <2> QED
    BY <2>1, Listed
<1>9. PICK row, col : Spreads(all, rows, N, row, col)
  BY <1>4, <1>7, FlattenIndex
<1>10. Len(cs) = Len(all) /\ DOMAIN cs = 1 .. Len(all)
  BY <1>5, <1>8
<1> DEFINE L == Len(all)
<1> HIDE DEF L
<1>11. /\ \A k \in 1 .. L : row[k] \in 1 .. N /\ col[k] \in 1 .. Len(rows[row[k]]) /\ all[k] = rows[row[k]][col[k]]
       /\ \A j, k \in 1 .. L : j < k => row[j] < row[k] \/ (row[j] = row[k] /\ col[j] < col[k])
       /\ \A m \in 1 .. N : \A i \in 1 .. Len(rows[m]) : \E k \in 1 .. L : row[k] = m /\ col[k] = i
  BY <1>9 DEF Spreads, L
<1>12. ASSUME NEW k \in 1 .. L
       PROVE  /\ row[k] \in 1 .. N /\ col[k] \in 1 .. Len(PiecesAt(document, limits, row[k]))
              /\ cs[k].path = SectionAt(document, row[k]).path
              /\ cs[k].content = PiecesAt(document, limits, row[k])[col[k]]
  <2>1. row[k] \in 1 .. N /\ col[k] \in 1 .. Len(PiecesAt(document, limits, row[k]))
    BY <1>6, <1>11
  <2>2. all[k] = [path |-> SectionAt(document, row[k]).path, content |-> PiecesAt(document, limits, row[k])[col[k]]]
    <3> DEFINE m == row[k]
               i == col[k]
    <3>1. m \in 1 .. N /\ i \in 1 .. Len(PiecesAt(document, limits, m)) /\ all[k] = rows[m][i]
      BY <1>11, <2>1
    <3> HIDE DEF m, i
    <3>2. rows[m] = [h \in 1 .. Len(PiecesAt(document, limits, m)) |->
                        [path |-> SectionAt(document, m).path, content |-> PiecesAt(document, limits, m)[h]]]
      BY <1>2, <3>1
    <3>3. all[k] = [path |-> SectionAt(document, m).path, content |-> PiecesAt(document, limits, m)[i]]
      BY <3>1, <3>2
    <3> QED
      BY <3>3 DEF m, i
  <2>3. k \in DOMAIN all
    BY <1>8 DEF L
  <2>4. cs[k].path = all[k].path /\ cs[k].content = all[k].content
    BY <1>5, <2>3
  <2> QED
    BY <2>1, <2>2, <2>4
<1>13. \A m \in 1 .. N : \A i \in 1 .. Len(PiecesAt(document, limits, m)) : \E k \in 1 .. L : row[k] = m /\ col[k] = i
  BY <1>6, <1>11
<1>14. L \in Nat /\ Len(cs) = L /\ DOMAIN cs = 1 .. L
  BY <1>8, <1>10 DEF L
<1>15. CutFrom(document, limits, cs, row, col)
  BY <1>11, <1>12, <1>13, <1>14 DEF CutFrom, N, sections
<1>16. \E r, c : CutFrom(document, limits, cs, r, c)
  BY <1>15
<1> QED
  BY <1>14, <1>16 DEF cs

\* Who stands next in a row comes next.
RowByRow(n, row, col) ==
    /\ n \in Nat /\ \A k \in 1 .. n : row[k] \in Nat /\ col[k] \in Nat
    /\ \A j, k \in 1 .. n : j < k => row[j] < row[k] \/ (row[j] = row[k] /\ col[j] < col[k])

LEMMA NextInRow ==
    ASSUME NEW L, NEW row, NEW col, RowByRow(L, row, col),
           NEW j \in 1 .. L, NEW k \in 1 .. L, j < k, row[j] = row[k], col[k] = col[j] + 1
    PROVE  k = j + 1
<1> SUFFICES ASSUME k # j + 1
             PROVE  FALSE
  OBVIOUS
<1> DEFINE m == j + 1
<1>1. m \in 1 .. L /\ j < m /\ m < k /\ L \in Nat
  BY DEF RowByRow
<1> HIDE DEF m
<1>2. /\ row[j] < row[m] \/ (row[j] = row[m] /\ col[j] < col[m])
      /\ row[m] < row[k] \/ (row[m] = row[k] /\ col[m] < col[k])
  BY <1>1 DEF RowByRow
<1>3. row[j] \in Nat /\ row[m] \in Nat /\ row[k] \in Nat /\ col[j] \in Nat /\ col[m] \in Nat /\ col[k] \in Nat
  BY <1>1 DEF RowByRow
<1>4. row[m] = row[j] /\ col[j] < col[m] /\ col[m] < col[k]
  BY <1>2, <1>3
<1> QED
  BY <1>3, <1>4

(* Chunking keeps the prose, whatever the document and the limits: the     *)
(* chunks carry what is not blank in it and nothing else, in the order of  *)
(* the author, under the headings that enclose it, within the limit, and   *)
(* repeated only from one chunk to the next (services/chunking.py          *)
(* chunk_markdown).                                                        *)
THEOREM ChunkingKeeps ==
    ASSUME NEW document, IsDocument(document), NEW limits \in [max : Int, overlap : Int],
           ~ChunkingFails(document, limits)
    PROVE  ProseIsKept(document, limits, ChunkMarkdown(document, limits))
<1> DEFINE body == document.body
           cs == ChunkMarkdown(document, limits)
           L == Len(cs)
           N == Len(Sections(body))
           At(n) == SectionAt(document, n)
           P(n) == PiecesAt(document, limits, n)
           Ink(k) == InkOf(body, cs[k].content)
           SectionInk(n) == InkOf(body, At(n).prose)
           over == limits.overlap
<1>1. L \in Nat /\ DOMAIN cs = 1 .. L
  BY ChunksAre
<1>2. PICK row, col : CutFrom(document, limits, cs, row, col)
  BY ChunksAre
<1> HIDE DEF cs, L
<1>3. /\ \A k \in 1 .. L : /\ row[k] \in 1 .. N /\ col[k] \in 1 .. Len(P(row[k]))
                           /\ cs[k].path = At(row[k]).path /\ cs[k].content = P(row[k])[col[k]]
      /\ \A j, k \in 1 .. L : j < k => row[j] < row[k] \/ (row[j] = row[k] /\ col[j] < col[k])
      /\ \A m \in 1 .. N : \A i \in 1 .. Len(P(m)) : \E k \in 1 .. L : row[k] = m /\ col[k] = i
  BY <1>2 DEF CutFrom, L
<1>4. /\ N \in Nat
      /\ \A n \in 1 .. N : At(n) \in SectionsOf(body) /\ UnderItsPath(body, At(n)) /\ SectionInk(n) \subseteq InkedProse(body)
      /\ \A m, n \in 1 .. N : m < n => SectionInk(m) \cap SectionInk(n) = {}
      /\ \A c \in InkedProse(body) : \E n \in 1 .. N : c \in SectionInk(n)
  BY SectionsOrdered
<1>5. \A n \in 1 .. N : /\ over \in Nat /\ limits.max \in Int /\ PathWidth(document, At(n).path) \in Nat
                        /\ Covers(body, P(n), SectionInk(n), Budget(document, limits, n), over)
  BY SectionKept
<1>6. ASSUME NEW n \in 1 .. N
      PROVE  /\ P(n) \in Seq(Texts) /\ Len(P(n)) \in Nat
             /\ \A c : c \in SectionInk(n) <=> \E i \in 1 .. Len(P(n)) : c \in InkOf(body, P(n)[i])
             /\ \A i \in 1 .. Len(P(n)) : /\ Len(P(n)[i]) <= Budget(document, limits, n)
                                          /\ InkOf(body, P(n)[i]) # {} /\ AsWritten(body, P(n)[i])
             /\ \A i, m \in 1 .. Len(P(n)) :
                    i < m => Cardinality(InkOf(body, P(n)[i]) \cap InkOf(body, P(n)[m]))
                                 <= IF m = i + 1 THEN over ELSE 0
  <2>1. Covers(body, P(n), SectionInk(n), Budget(document, limits, n), over)
    BY <1>5
  <2>2. P(n) \in Seq(Texts) /\ SectionInk(n) = UNION {InkOf(body, P(n)[i]) : i \in 1 .. Len(P(n))}
    BY <2>1 DEF Covers
  <2> HIDE DEF SectionInk
  <2> QED
    BY <2>1, <2>2, LenProperties DEF Covers
<1> HIDE DEF N, At, P, SectionInk, over
<1>7. ASSUME NEW k \in 1 .. L
      PROVE  /\ row[k] \in 1 .. N /\ col[k] \in 1 .. Len(P(row[k])) /\ row[k] \in Nat /\ col[k] \in Nat
             /\ cs[k].path = At(row[k]).path /\ Ink(k) = InkOf(body, P(row[k])[col[k]])
             /\ Ink(k) \subseteq SectionInk(row[k])
  <2>1. /\ row[k] \in 1 .. N /\ col[k] \in 1 .. Len(P(row[k]))
        /\ cs[k].path = At(row[k]).path /\ cs[k].content = P(row[k])[col[k]]
    BY <1>3
  <2>2. Len(P(row[k])) \in Nat
    BY <1>6, <2>1
  <2>3. \A c \in InkOf(body, P(row[k])[col[k]]) : c \in SectionInk(row[k])
    BY <1>6, <2>1
  <2> QED
    BY <1>4, <2>1, <2>2, <2>3
<1>8. ASSUME NEW c
      PROVE  c \in InkedProse(body) <=> \E k \in 1 .. L : c \in Ink(k)
  <2>1. ASSUME c \in InkedProse(body)
        PROVE  \E k \in 1 .. L : c \in Ink(k)
    <3>1. PICK n \in 1 .. N : c \in SectionInk(n)
      BY <1>4, <2>1
    <3>2. PICK i \in 1 .. Len(P(n)) : c \in InkOf(body, P(n)[i])
      BY <1>6, <3>1
    <3>3. PICK k \in 1 .. L : row[k] = n /\ col[k] = i
      BY <1>3
    <3>4. Ink(k) = InkOf(body, P(n)[i])
      BY <1>7, <3>3
    <3> HIDE DEF Ink
    <3> QED
      BY <3>2, <3>4
  <2>2. ASSUME NEW k \in 1 .. L, c \in Ink(k)
        PROVE  c \in InkedProse(body)
    <3>1. c \in SectionInk(row[k]) /\ row[k] \in 1 .. N
      BY <1>7, <2>2
    <3> QED
      BY <1>4, <3>1
  <2> HIDE DEF Ink
  <2> QED
    BY <2>1, <2>2
<1>9. ASSUME NEW k \in 1 .. L
      PROVE  /\ PathWidth(document, cs[k].path) + EmbeddingJoinWidth + Len(cs[k].content) <= limits.max
             /\ Ink(k) # {} /\ AsWritten(body, cs[k].content)
  <2> DEFINE n == row[k]
             i == col[k]
  <2>1. n \in 1 .. N /\ i \in 1 .. Len(P(n)) /\ cs[k].path = At(n).path /\ cs[k].content = P(n)[i]
    BY <1>3
  <2> HIDE DEF n, i
  <2>2. /\ P(n) \in Seq(Texts) /\ Len(P(n)[i]) <= Budget(document, limits, n)
        /\ InkOf(body, P(n)[i]) # {} /\ AsWritten(body, P(n)[i])
    BY <1>6, <2>1
  <2>3. Len(P(n)[i]) \in Nat
    BY <2>1, <2>2, Listed, InkIs
  <2>4. limits.max \in Int /\ PathWidth(document, At(n).path) \in Nat
    BY <1>5, <2>1
  <2>5. Budget(document, limits, n) = limits.max - PathWidth(document, At(n).path) - 2
    BY DEF Budget, Room, EmbeddingJoinWidth, At
  <2>6. PathWidth(document, At(n).path) + 2 + Len(P(n)[i]) <= limits.max
    BY <2>2, <2>3, <2>4, <2>5
  <2> QED
    BY <2>1, <2>2, <2>6 DEF EmbeddingJoinWidth
<1>10. ASSUME NEW k \in 1 .. L
       PROVE  /\ \A c \in Ink(k) : ToSet(cs[k].path) = Enclosing(body, c[1])
              /\ \A i, j \in DOMAIN cs[k].path : i < j => cs[k].path[i] < cs[k].path[j]
  <2> DEFINE n == row[k]
             trail == cs[k].path
  <2>1. n \in 1 .. N /\ trail = At(n).path /\ Ink(k) \subseteq SectionInk(n)
    BY <1>7
  <2> HIDE DEF n, Ink
  <2>2. UnderItsPath(body, At(n)) /\ At(n) \in SectionsOf(body)
    BY <1>4, <2>1
  <2>3. trail \in Seq(LinesOf(body))
    BY <2>1, <2>2 DEF SectionsOf
  <2> HIDE DEF trail
  <2>4. DOMAIN trail = 1 .. Len(trail)
    BY <2>3, LenProperties
  <2>5. Rises(trail) /\ \A c \in SectionInk(n) : \A h : h \in Enclosing(body, c[1]) <=> \E i \in 1 .. Len(trail) : trail[i] = h
    BY <2>1, <2>2 DEF UnderItsPath, SectionInk
  <2>6. \A h : h \in ToSet(trail) <=> \E i \in 1 .. Len(trail) : trail[i] = h
    BY <2>4 DEF ToSet
  <2>7. ASSUME NEW c \in Ink(k)
        PROVE  ToSet(trail) = Enclosing(body, c[1])
    <3>1. c \in SectionInk(n)
      BY <2>1
    <3>2. \A h : h \in ToSet(trail) <=> h \in Enclosing(body, c[1])
      BY <2>5, <2>6, <3>1
    <3> QED
      BY <3>2
  <2>8. \A i, j \in DOMAIN trail : i < j => trail[i] < trail[j]
    BY <2>4, <2>5 DEF Rises
  <2> QED
    BY <2>7, <2>8 DEF trail
<1>11. ASSUME NEW j \in 1 .. L, NEW k \in 1 .. L, j < k
       PROVE  Cardinality(Ink(j) \cap Ink(k)) <= IF k = j + 1 THEN over ELSE 0
  <2>1. over \in Nat
    BY <1>5, <1>7
  <2>2. CASE row[j] < row[k]
    <3>1. SectionInk(row[j]) \cap SectionInk(row[k]) = {}
      BY <1>4, <1>7, <2>2
    <3>2. Ink(j) \subseteq SectionInk(row[j]) /\ Ink(k) \subseteq SectionInk(row[k])
      BY <1>7
    <3> HIDE DEF Ink
    <3>3. Ink(j) \cap Ink(k) = {}
      BY <3>1, <3>2
    <3>4. Cardinality(Ink(j) \cap Ink(k)) = 0
      BY <3>3, FS_EmptySet
    <3> HIDE DEF over
    <3> QED
      BY <2>1, <3>4
  <2>3. CASE row[j] = row[k] /\ col[j] < col[k]
    <3> DEFINE n == row[k]
    <3>1. /\ n \in 1 .. N /\ col[j] \in 1 .. Len(P(n)) /\ col[k] \in 1 .. Len(P(n))
          /\ Ink(j) = InkOf(body, P(n)[col[j]]) /\ Ink(k) = InkOf(body, P(n)[col[k]])
      BY <1>7, <2>3
    <3> HIDE DEF n, Ink, over
    <3>2. Cardinality(Ink(j) \cap Ink(k)) <= IF col[k] = col[j] + 1 THEN over ELSE 0
      BY <1>6, <2>3, <3>1
    <3>3. col[k] = col[j] + 1 => k = j + 1
      <4>1. \A i \in 1 .. L : row[i] \in Nat /\ col[i] \in Nat
        BY <1>7
      <4>2. RowByRow(L, row, col)
        BY <1>1, <1>3, <4>1 DEF RowByRow
      <4>3. ASSUME col[k] = col[j] + 1
            PROVE  k = j + 1
        <5>1. j < k /\ row[j] = row[k]
          BY <1>11, <2>3
        <5> QED
          BY <4>2, <4>3, <5>1, NextInRow
      <4> QED
        BY <4>3
    <3>4. CASE col[k] = col[j] + 1
      BY <3>2, <3>3, <3>4
    <3>5. CASE col[k] # col[j] + 1
      <4> DEFINE card == Cardinality(Ink(j) \cap Ink(k))
      <4>1. card <= 0
        BY <3>2, <3>5
      <4>2. card \in Int \/ k # j + 1
        <5>1. Ink(j) \cap Ink(k) \in SUBSET Ink(j)
          OBVIOUS
        <5>2. IsFiniteSet(Ink(j))
          <6>1. P(n)[col[j]] \in Texts
            BY <1>6, <3>1, Listed
          <6> QED
            BY <3>1, <6>1, InkCount
        <5>3. IsFiniteSet(Ink(j) \cap Ink(k))
          BY <5>1, <5>2, FS_Subset
        <5> QED
          BY <5>3, FS_CardinalityType
      <4> HIDE DEF card
      <4>3. card <= IF k = j + 1 THEN over ELSE 0
        BY <2>1, <4>1, <4>2
      <4> QED
        BY <4>3 DEF card
    <3> QED
      BY <3>4, <3>5
  <2> QED
    BY <1>3, <1>11, <2>2, <2>3
<1> DEFINE ink == [n \in DOMAIN cs |-> InkOf(body, cs[n].content)]
<1>12. \A k \in 1 .. L : ink[k] = Ink(k)
  BY <1>1
<1>13. UNION {ink[n] : n \in DOMAIN cs} = InkedProse(body)
  <2> HIDE DEF ink, Ink
  <2> QED
    BY <1>1, <1>8, <1>12
<1> HIDE DEF ink
<1>14. ProseIsKept(document, limits, cs)
  <2>1. ASSUME NEW n \in DOMAIN cs
        PROVE  /\ PathWidth(document, cs[n].path) + EmbeddingJoinWidth + Len(cs[n].content) <= limits.max
               /\ ink[n] # {} /\ AsWritten(body, cs[n].content)
               /\ \A c \in ink[n] : ToSet(cs[n].path) = Enclosing(body, c[1])
               /\ \A i, j \in DOMAIN cs[n].path : i < j => cs[n].path[i] < cs[n].path[j]
               /\ \A m \in DOMAIN cs :
                      n < m => Cardinality(ink[n] \cap ink[m]) <= IF m = n + 1 THEN limits.overlap ELSE 0
    <3>1. n \in 1 .. L /\ ink[n] = Ink(n)
      BY <1>1, <1>12
    <3> HIDE DEF Ink
    <3>2. ASSUME NEW m \in DOMAIN cs, n < m
          PROVE  Cardinality(ink[n] \cap ink[m]) <= IF m = n + 1 THEN limits.overlap ELSE 0
      <4>1. m \in 1 .. L /\ ink[m] = Ink(m)
        BY <1>1, <1>12
      <4> QED
        BY <1>11, <3>1, <3>2, <4>1 DEF over
    <3>3. \A c \in Ink(n) : ToSet(cs[n].path) = Enclosing(body, c[1])
      BY <1>10, <3>1
    <3>4. \A i, j \in DOMAIN cs[n].path : i < j => cs[n].path[i] < cs[n].path[j]
      BY <1>10, <3>1
    <3> QED
      BY <1>9, <3>1, <3>2, <3>3, <3>4
  <2> HIDE DEF Ink
  <2> QED
    BY <1>13, <2>1 DEF ProseIsKept, ink
<1> QED
  BY <1>14 DEF cs

-----------------------------------------------------------------------------
(* Splitting a section gives a list, whatever the limits.                  *)

LEMMA NotEmptyType ==
    ASSUME NEW texts \in Seq(Texts)
    PROVE  NotEmpty(texts) \in Seq(Texts)
<1> DEFINE rows == [n \in DOMAIN texts |-> IF texts[n] = <<>> THEN <<>> ELSE << texts[n] >>]
<1>1. Len(texts) \in Nat /\ DOMAIN texts = 1 .. Len(texts) /\ \A n \in 1 .. Len(texts) : texts[n] \in Texts
  BY Listed
<1>2. rows \in [1 .. Len(texts) -> Seq(Texts)]
  <2>1. \A t \in Texts : <<t>> \in Seq(Texts)
    OBVIOUS
  <2>2. <<>> \in Seq(Texts)
    OBVIOUS
  <2> QED
    BY <1>1, <2>1, <2>2
<1>3. rows \in Seq(Seq(Texts))
  <2> HIDE DEF rows
  <2> QED
    BY <1>1, <1>2, MapIsSeq
<1> HIDE DEF rows
<1>4. FlattenSeq(rows) \in Seq(Texts)
  BY <1>3, FlattenType
<1> QED
  BY <1>4 DEF NotEmpty, rows

LEMMA CutType ==
    ASSUME NEW text \in Texts, NEW positions
    PROVE  CutBefore(text, positions) \in Seq(Texts)
<1>1. PICK f : Cutting(f, text) /\ CutBefore(text, positions) = f[Len(text)]
  BY CutBeforeIs
<1>2. Len(text) \in 0 .. Len(text)
  BY LenProperties DEF Texts
<1> QED
  BY <1>1, <1>2 DEF Cutting

LEMMA SplitUnitType ==
    ASSUME NEW body, NEW unit \in Texts, NEW most
    PROVE  SplitUnit(body, unit, most) \in Seq(Texts)
<1> DEFINE sentences == Sentences(body, unit)
<1>1. sentences \in Seq(Texts)
  BY CutType DEF Sentences
<1>2. CASE Len(unit) <= most
  BY <1>2 DEF SplitUnit
<1>3. CASE ~(Len(unit) <= most)
  <2>1. PICK f : /\ \A i \in 0 .. Len(sentences) : f[i] \in TextStates
                 /\ SplitUnit(body, unit, most) = NotEmpty(Close(body, f[Len(sentences)]))
    BY <1>1, <1>3, SplitUnitIs
  <2> HIDE DEF sentences
  <2>2. f[Len(sentences)] \in TextStates
    <3>1. Len(sentences) \in 0 .. Len(sentences)
      BY <1>1, LenProperties
    <3> QED
      BY <2>1, <3>1
  <2> DEFINE last == f[Len(sentences)]
  <2>3. last \in TextStates
    BY <2>2
  <2> HIDE DEF last
  <2>4. last.parts \in Seq(Texts) /\ Strip(body, last.current) \in Texts
    BY <2>3, Stripping DEF TextStates
  <2>5. Close(body, last) \in Seq(Texts)
    BY <2>4, AppendType DEF Close
  <2> QED
    BY <2>1, <2>5, NotEmptyType DEF last
<1> QED
  BY <1>2, <1>3

LEMMA ParagraphsType ==
    ASSUME NEW body, NEW prose \in Texts
    PROVE  Paragraphs(body, prose) \in Seq(Texts)
<1>1. PICK f : /\ \A i \in 0 .. Len(prose) : f[i] \in SplitStates
               /\ Paragraphs(body, prose) = Append(f[Len(prose)].done, f[Len(prose)].rest)
  BY ParagraphsAre
<1>2. Len(prose) \in 0 .. Len(prose)
  BY LenProperties DEF Texts
<1> DEFINE last == f[Len(prose)]
<1>3. last \in SplitStates
  BY <1>1, <1>2
<1> HIDE DEF last
<1>4. last.done \in Seq(Texts) /\ last.rest \in Texts
  BY <1>3 DEF SplitStates
<1>5. Append(last.done, last.rest) \in Seq(Texts)
  BY <1>4, AppendType
<1> QED
  BY <1>1, <1>5 DEF last

LEMMA UnitsType ==
    ASSUME NEW body, NEW prose \in Texts, NEW most
    PROVE  Units(body, prose, most) \in Seq(Texts)
<1> DEFINE paragraphs == Paragraphs(body, prose)
           units == NotEmpty([n \in DOMAIN paragraphs |-> Strip(body, paragraphs[n])])
           rows == [n \in DOMAIN units |-> SplitUnit(body, units[n], most)]
<1>1. units \in Seq(Texts)
  <2>1. paragraphs \in Seq(Texts)
    BY ParagraphsType
  <2> HIDE DEF paragraphs
  <2> QED
    BY <2>1, StripType, NotEmptyType
<1>2. rows \in Seq(Seq(Texts))
  <2> HIDE DEF units
  <2>1. Len(units) \in Nat /\ DOMAIN units = 1 .. Len(units) /\ \A n \in 1 .. Len(units) : units[n] \in Texts
    BY <1>1, Listed
  <2>2. rows \in [1 .. Len(units) -> Seq(Texts)]
    BY <2>1, SplitUnitType
  <2> HIDE DEF rows
  <2> QED
    BY <2>1, <2>2, MapIsSeq
<1>3. FlattenSeq(rows) \in Seq(Texts)
  <2> HIDE DEF rows
  <2> QED
    BY <1>2, FlattenType
<1> QED
  BY <1>3 DEF Units

LEMMA PackType ==
    ASSUME NEW most, NEW units \in Seq(Texts)
    PROVE  Pack(units, most) \in Seq(Texts)
<1>1. PICK f : /\ \A i \in 0 .. Len(units) : f[i] \in PackStates
               /\ Pack(units, most) = NotEmpty(Append(f[Len(units)].pieces, f[Len(units)].current))
  BY PackIs
<1>2. Len(units) \in 0 .. Len(units)
  BY LenProperties
<1> DEFINE last == f[Len(units)]
<1>3. last \in PackStates
  BY <1>1, <1>2
<1> HIDE DEF last
<1>4. last.pieces \in Seq(Texts) /\ last.current \in Texts
  BY <1>3 DEF PackStates
<1>5. NotEmpty(Append(last.pieces, last.current)) \in Seq(Texts)
  BY <1>4, AppendType, NotEmptyType
<1> QED
  BY <1>1, <1>5 DEF last

LEMMA SectionsType ==
    ASSUME NEW body, IsBody(body)
    PROVE  Sections(body) \in Seq(SectionsOf(body))
<1>1. PICK f : /\ \A i \in 0 .. Len(body) : f[i] \in ScanStates(body)
               /\ Sections(body) = Flushed(body, f[Len(body)])
  BY SectionsAre
<1>2. Len(body) \in 0 .. Len(body)
  BY LenProperties DEF IsBody
<1>3. f[Len(body)] \in ScanStates(body)
  BY <1>1, <1>2
<1> QED
  BY <1>1, <1>3, FlushedType

\* Splitting a section gives a list,
LEMMA PiecesListed ==
    ASSUME NEW body, NEW prose \in Texts, NEW budget, NEW overlap
    PROVE  \E k \in Nat : DOMAIN SplitSection(body, prose, budget, overlap) = 1 .. k
<1> DEFINE most == PackedBudget(budget, overlap)
           pieces == Pack(Units(body, prose, most), most)
<1>1. CASE Len(prose) <= budget
  <2>1. DOMAIN <<prose>> = 1 .. 1
    OBVIOUS
  <2> QED
    BY <1>1, <2>1 DEF SplitSection
<1>2. CASE ~(Len(prose) <= budget)
  <2>1. pieces \in Seq(Texts)
    <3> HIDE DEF most
    <3> QED
      BY UnitsType, PackType
  <2>2. Len(pieces) \in Nat /\ DOMAIN pieces = 1 .. Len(pieces)
    <3> HIDE DEF pieces
    <3> QED
      BY <2>1, Listed
  <2>3. DOMAIN ApplyOverlap(body, pieces, overlap) = DOMAIN pieces
    <3> HIDE DEF pieces
    <3> QED
      BY DEF ApplyOverlap
  <2>4. SplitSection(body, prose, budget, overlap) = ApplyOverlap(body, pieces, overlap)
    BY <1>2 DEF SplitSection
  <2> HIDE DEF pieces
  <2> QED
    BY <2>2, <2>3, <2>4
<1> QED
  BY <1>1, <1>2

\* and chunking a document numbers its chunks from 0, under its own key.
LEMMA ChunksNumbered ==
    ASSUME NEW document, IsBody(document.body), NEW limits
    PROVE  LET cs == ChunkMarkdown(document, limits)
           IN /\ Len(cs) \in Nat /\ DOMAIN cs = 1 .. Len(cs)
              /\ \A n \in 1 .. Len(cs) : cs[n].parent = Parent(document) /\ cs[n].ordinal = n - 1
<1> DEFINE sections == Sections(document.body)
           rows == [n \in DOMAIN sections |-> PiecesOf(document, sections[n], limits)]
           all == FlattenSeq(rows)
           Values == UNION {{rows[n][i] : i \in DOMAIN rows[n]} : n \in DOMAIN sections}
           cs == ChunkMarkdown(document, limits)
<1>1. sections \in Seq(SectionsOf(document.body))
  BY SectionsType
<1> HIDE DEF sections
<1>2. /\ Len(sections) \in Nat /\ DOMAIN sections = 1 .. Len(sections)
      /\ \A n \in 1 .. Len(sections) : sections[n] \in SectionsOf(document.body)
  BY <1>1, Listed
<1>3. ASSUME NEW n \in 1 .. Len(sections)
      PROVE  rows[n] \in Seq(Values)
  <2> DEFINE section == sections[n]
             pieces == SplitSection(document.body, section.prose,
                                           Room(document, section.path, limits), limits.overlap)
  <2>1. section.prose \in Texts
    BY <1>2 DEF SectionsOf
  <2>2. PICK k \in Nat : DOMAIN pieces = 1 .. k
    <3> HIDE DEF section
    <3> QED
      BY <2>1, PiecesListed
  <2>3. DOMAIN rows[n] = 1 .. k /\ rows[n] = [i \in DOMAIN rows[n] |-> rows[n][i]]
    <3>1. rows[n] = PiecesOf(document, section, limits)
      BY <1>2
    <3>2. PiecesOf(document, section, limits)
              = [i \in DOMAIN pieces |-> [path |-> section.path, content |-> pieces[i]]]
      BY DEF PiecesOf
    <3> HIDE DEF rows, pieces, section
    <3> QED
      BY <2>2, <3>1, <3>2
  <2>4. \A i \in DOMAIN rows[n] : rows[n][i] \in Values
    <3> HIDE DEF rows
    <3> QED
      BY <1>2
  <2>5. rows[n] \in [1 .. k -> Values]
    <3> HIDE DEF rows, Values
    <3> QED
      BY <2>3, <2>4
  <2> HIDE DEF rows, Values
  <2> QED
    BY <2>5, MapIsSeq
<1>4. rows \in Seq(Seq(Values))
  <2>1. rows \in [1 .. Len(sections) -> Seq(Values)]
    <3> HIDE DEF Values
    <3>1. rows = [n \in 1 .. Len(sections) |-> rows[n]]
      BY <1>2
    <3> HIDE DEF rows
    <3> QED
      BY <1>3, <3>1
  <2> HIDE DEF rows, Values
  <2> QED
    BY <1>2, <2>1, MapIsSeq
<1>5. all \in Seq(Values)
  <2> HIDE DEF rows, Values
  <2> QED
    BY <1>4, FlattenType
<1>6. Len(all) \in Nat /\ DOMAIN all = 1 .. Len(all)
  <2> HIDE DEF all, Values
  <2> QED
    BY <1>5, Listed
<1>7. cs = [n \in DOMAIN all |->
               [parent |-> [tenant |-> document.tenant, doc |-> document.doc_id], ordinal |-> n - 1,
                path |-> all[n].path, content |-> all[n].content, groups |-> document.groups]]
  BY DEF ChunkMarkdown, sections
<1> HIDE DEF all, cs
<1>8. DOMAIN cs = 1 .. Len(all) /\ Len(cs) = Len(all)
  BY <1>6, <1>7
<1>9. \A n \in 1 .. Len(all) : cs[n].parent = Parent(document) /\ cs[n].ordinal = n - 1
  BY <1>6, <1>7 DEF Parent
<1> QED
  BY <1>6, <1>8, <1>9 DEF cs

-----------------------------------------------------------------------------
(* The index while the loop goes on, for an index, a corpus and a number   *)
(* of documents that are written.                                          *)

ChunksOf(jb, src, n) == ChunkMarkdown(src[n], jb.limits)
Base(jb) == IF jb.schema = "recreate" THEN Empty ELSE jb.index
IsCorpus(src) == Len(src) \in Nat /\ DOMAIN src = 1 .. Len(src) /\ \A n \in 1 .. Len(src) : IsBody(src[n].body)

\* Entries under parents that no document written has are those of the start.
OthersAsFound(jb, src, idx, p) ==
    /\ \A key \in DOMAIN Base(jb) : (\A n \in 1 .. p : key[1] # Parent(src[n])) =>
           key \in DOMAIN idx /\ idx[key] = Base(jb)[key]
    /\ \A key \in DOMAIN idx : (\A n \in 1 .. p : key[1] # Parent(src[n])) => key \in DOMAIN Base(jb)

\* Under the parent of a document there are its chunks and nothing else.
InPlace(jb, src, idx, n) ==
    /\ \A i \in 1 .. Len(ChunksOf(jb, src, n)) :
        /\ <<Parent(src[n]), i - 1>> \in DOMAIN idx
        /\ idx[<<Parent(src[n]), i - 1>>].chunk = ChunksOf(jb, src, n)[i]
    /\ \A key \in DOMAIN idx : key[1] = Parent(src[n]) =>
           \E i \in 1 .. Len(ChunksOf(jb, src, n)) : key = <<Parent(src[n]), i - 1>>

IsLast(src, n, p) == \A m \in n + 1 .. p : Parent(src[m]) # Parent(src[n])
Replaced(jb, src, idx, p) == \A n \in 1 .. p : IsLast(src, n, p) => InPlace(jb, src, idx, n)

\* No entry has the vector of another text, but for those the run found.
OwnVectors(jb, idx) ==
    \A key \in DOMAIN idx : \/ key \in DOMAIN jb.index /\ idx[key] = jb.index[key]
                            \/ idx[key].vector = EmbeddingInput(idx[key].chunk)

\* The properties' parts, for an index, a corpus and a position.
IsWhole(jb, src, idx, n) ==
    \A chunk \in ToSet(ChunksOf(jb, src, n)) :
        \E key \in {key \in DOMAIN idx : key[1] = Parent(src[n])} : idx[key].chunk = chunk
ReachedFrom(src, first, pos) == {Parent(src[n]) : n \in (first .. pos) \cap DOMAIN src}
EarlierOnes(src, pos) == {n \in 1 .. pos - 1 : Parent(src[n]) = Parent(src[pos])}
KeysThere(jb, src, pos) ==
    IF EarlierOnes(src, pos) = {} THEN {key \in DOMAIN jb.index : key[1] = Parent(src[pos])}
    ELSE {<<chunk.parent, chunk.ordinal>> :
              chunk \in ToSet(ChunksOf(jb, src, Max(EarlierOnes(src, pos))))}
Left(jb, src, idx, pos) ==
    /\ \A n \in 1 .. pos - 1 : Parent(src[n]) \notin ReachedFrom(src, n + 1, pos) => IsWhole(jb, src, idx, n)
    /\ \A key \in DOMAIN jb.index : key[1] \notin ReachedFrom(src, 1, pos) =>
           key \in DOMAIN idx /\ idx[key] = jb.index[key]
    /\ pos \in DOMAIN src => KeysThere(jb, src, pos) \subseteq DOMAIN idx \/ IsWhole(jb, src, idx, pos)
Holds(jb, src, idx) ==
    /\ \A n \in DOMAIN src :
        (\A later \in n + 1 .. Len(src) : Parent(src[later]) # Parent(src[n])) =>
            {idx[key].chunk : key \in {key \in DOMAIN idx : key[1] = Parent(src[n])}}
                = ToSet(ChunksOf(jb, src, n))
    /\ jb.schema = "recreate" => \A key \in DOMAIN idx : \E n \in DOMAIN src : key[1] = Parent(src[n])

LEMMA Chunked ==
    ASSUME NEW jb, NEW src, IsCorpus(src), NEW n \in 1 .. Len(src)
    PROVE  /\ Len(ChunksOf(jb, src, n)) \in Nat
           /\ DOMAIN ChunksOf(jb, src, n) = 1 .. Len(ChunksOf(jb, src, n))
           /\ \A i \in 1 .. Len(ChunksOf(jb, src, n)) :
               /\ ChunksOf(jb, src, n)[i].parent = Parent(src[n])
               /\ ChunksOf(jb, src, n)[i].ordinal = i - 1
<1>1. IsBody(src[n].body)
  BY DEF IsCorpus
<1> QED
  BY <1>1, ChunksNumbered DEF ChunksOf

LEMMA PlaceIsWhole ==
    ASSUME NEW jb, NEW src, IsCorpus(src), NEW n \in 1 .. Len(src), NEW idx,
           \A i \in 1 .. Len(ChunksOf(jb, src, n)) :
               /\ <<Parent(src[n]), i - 1>> \in DOMAIN idx
               /\ idx[<<Parent(src[n]), i - 1>>].chunk = ChunksOf(jb, src, n)[i]
    PROVE  IsWhole(jb, src, idx, n)
<1> DEFINE cs == ChunksOf(jb, src, n)
           parent == Parent(src[n])
<1>1. DOMAIN cs = 1 .. Len(cs)
  BY Chunked
<1>2. \A i \in 1 .. Len(cs) : <<parent, i - 1>>[1] = parent
  OBVIOUS
<1>3. \A chunk \in ToSet(cs) : \E i \in 1 .. Len(cs) : chunk = cs[i]
  BY <1>1 DEF ToSet
<1>4. \A i \in 1 .. Len(cs) : /\ <<parent, i - 1>> \in {key \in DOMAIN idx : key[1] = parent}
                              /\ idx[<<parent, i - 1>>].chunk = cs[i]
  BY <1>2
<1> HIDE DEF cs, parent
<1>5. ASSUME NEW chunk \in ToSet(cs)
      PROVE  \E key \in {key \in DOMAIN idx : key[1] = parent} : idx[key].chunk = chunk
  <2> DEFINE under == {key \in DOMAIN idx : key[1] = parent}
  <2>1. PICK i \in 1 .. Len(cs) : chunk = cs[i]
    BY <1>3
  <2>2. <<parent, i - 1>> \in under /\ idx[<<parent, i - 1>>].chunk = cs[i]
    BY <1>4
  <2> HIDE DEF under
  <2>3. \E key \in under : idx[key].chunk = chunk
    BY <2>1, <2>2
  <2> QED
    BY <2>3 DEF under
<1> QED
  BY <1>5 DEF IsWhole, cs, parent

LEMMA EarlierAre ==
    ASSUME NEW src, NEW pos \in Nat, EarlierOnes(src, pos) # {}
    PROVE  LET n == Max(EarlierOnes(src, pos))
           IN n \in 1 .. pos - 1 /\ Parent(src[n]) = Parent(src[pos]) /\ IsLast(src, n, pos - 1)
<1> DEFINE n == Max(EarlierOnes(src, pos))
<1>1. EarlierOnes(src, pos) \in SUBSET (0 .. pos)
  BY DEF EarlierOnes
<1>2. n \in EarlierOnes(src, pos) /\ \A m \in EarlierOnes(src, pos) : m <= n
  BY <1>1, MaxIs
<1> HIDE DEF n
<1>3. n \in 1 .. pos - 1 /\ Parent(src[n]) = Parent(src[pos])
  BY <1>2 DEF EarlierOnes
<1>4. ASSUME NEW m \in n + 1 .. pos - 1, Parent(src[m]) = Parent(src[n])
      PROVE  FALSE
  <2>1. m \in 1 .. pos - 1 /\ ~(m <= n)
    BY <1>3
  <2>2. m \in EarlierOnes(src, pos)
    BY <1>3, <1>4, <2>1 DEF EarlierOnes
  <2> QED
    BY <1>2, <2>1, <2>2
<1> QED
  BY <1>3, <1>4 DEF IsLast, n

\* Where nothing of the document at hand is written, its old keys are there.
LEMMA KeysStand ==
    ASSUME NEW jb, NEW src, IsCorpus(src), NEW pos \in 1 .. Len(src), NEW idx, jb.schema # "recreate",
           OthersAsFound(jb, src, idx, pos - 1), Replaced(jb, src, idx, pos - 1)
    PROVE  KeysThere(jb, src, pos) \subseteq DOMAIN idx
<1>1. CASE EarlierOnes(src, pos) = {}
  <2> SUFFICES ASSUME NEW key \in DOMAIN jb.index, key[1] = Parent(src[pos])
               PROVE  key \in DOMAIN idx
    BY <1>1 DEF KeysThere
  <2>1. \A n \in 1 .. pos - 1 : key[1] # Parent(src[n])
    BY <1>1 DEF EarlierOnes
  <2> QED
    BY <2>1 DEF OthersAsFound, Base
<1>2. CASE EarlierOnes(src, pos) # {}
  <2> DEFINE n == Max(EarlierOnes(src, pos))
             cs == ChunksOf(jb, src, n)
  <2>1. n \in 1 .. pos - 1 /\ n \in 1 .. Len(src) /\ IsLast(src, n, pos - 1)
    <3>1. pos \in Nat /\ Len(src) \in Nat
      BY DEF IsCorpus
    <3>2. n \in 1 .. pos - 1 /\ IsLast(src, n, pos - 1)
      BY <1>2, <3>1, EarlierAre
    <3> HIDE DEF n
    <3> QED
      BY <3>1, <3>2
  <2>2. KeysThere(jb, src, pos) = {<<chunk.parent, chunk.ordinal>> : chunk \in ToSet(cs)}
    BY <1>2 DEF KeysThere
  <2> HIDE DEF n
  <2>3. InPlace(jb, src, idx, n)
    BY <2>1 DEF Replaced
  <2>4. /\ DOMAIN cs = 1 .. Len(cs)
        /\ \A i \in 1 .. Len(cs) : cs[i].parent = Parent(src[n]) /\ cs[i].ordinal = i - 1
    BY <2>1, Chunked
  <2>5. \A i \in 1 .. Len(cs) : <<cs[i].parent, cs[i].ordinal>> \in DOMAIN idx
    BY <2>3, <2>4 DEF InPlace
  <2> HIDE DEF cs
  <2>6. \A chunk \in ToSet(cs) : <<chunk.parent, chunk.ordinal>> \in DOMAIN idx
    BY <2>4, <2>5 DEF ToSet
  <2> QED
    BY <2>2, <2>6
<1> QED
  BY <1>1, <1>2

LEMMA LoopLeaves ==
    ASSUME NEW jb, NEW src, IsCorpus(src), NEW pos \in 1 .. Len(src) + 1, NEW idx, jb.schema # "recreate",
           OthersAsFound(jb, src, idx, pos - 1), Replaced(jb, src, idx, pos - 1)
    PROVE  Left(jb, src, idx, pos)
<1>1. Len(src) \in Nat /\ DOMAIN src = 1 .. Len(src)
  BY DEF IsCorpus
<1>2. ASSUME NEW n \in 1 .. pos - 1, Parent(src[n]) \notin ReachedFrom(src, n + 1, pos)
      PROVE  IsWhole(jb, src, idx, n)
  <2>1. n \in 1 .. Len(src)
    BY <1>1
  <2>2. \A m \in n + 1 .. pos - 1 : m \in (n + 1 .. pos) \cap DOMAIN src
    BY <1>1
  <2>3. IsLast(src, n, pos - 1)
    BY <1>2, <2>2 DEF ReachedFrom, IsLast
  <2>4. InPlace(jb, src, idx, n)
    BY <2>3 DEF Replaced
  <2> QED
    BY <2>1, <2>4, PlaceIsWhole DEF InPlace
<1>3. ASSUME NEW key \in DOMAIN jb.index, key[1] \notin ReachedFrom(src, 1, pos)
      PROVE  key \in DOMAIN idx /\ idx[key] = jb.index[key]
  <2>1. \A n \in 1 .. pos - 1 : n \in (1 .. pos) \cap DOMAIN src
    BY <1>1
  <2>2. \A n \in 1 .. pos - 1 : key[1] # Parent(src[n])
    BY <1>3, <2>1 DEF ReachedFrom
  <2> QED
    BY <2>2 DEF OthersAsFound, Base
<1>4. pos \in DOMAIN src => KeysThere(jb, src, pos) \subseteq DOMAIN idx
  BY <1>1, KeysStand
<1> QED
  BY <1>2, <1>3, <1>4 DEF Left

LEMMA LoopHolds ==
    ASSUME NEW jb, NEW src, IsCorpus(src), NEW idx, OthersAsFound(jb, src, idx, Len(src)),
           Replaced(jb, src, idx, Len(src))
    PROVE  Holds(jb, src, idx)
<1>1. DOMAIN src = 1 .. Len(src)
  BY DEF IsCorpus
<1>2. ASSUME NEW n \in DOMAIN src,
             \A later \in n + 1 .. Len(src) : Parent(src[later]) # Parent(src[n])
      PROVE  {idx[key].chunk : key \in {key \in DOMAIN idx : key[1] = Parent(src[n])}}
                 = ToSet(ChunksOf(jb, src, n))
  <2> DEFINE parent == Parent(src[n])
             cs == ChunksOf(jb, src, n)
             under == {key \in DOMAIN idx : key[1] = parent}
  <2>1. InPlace(jb, src, idx, n) /\ DOMAIN cs = 1 .. Len(cs)
    BY <1>1, <1>2, Chunked DEF Replaced, IsLast
  <2>2. \A key \in under : \E i \in 1 .. Len(cs) : key = <<parent, i - 1>> /\ idx[key].chunk = cs[i]
    BY <2>1 DEF InPlace
  <2>3. \A i \in 1 .. Len(cs) : <<parent, i - 1>> \in under /\ idx[<<parent, i - 1>>].chunk = cs[i]
    BY <2>1 DEF InPlace
  <2>4. ToSet(cs) = {cs[i] : i \in 1 .. Len(cs)}
    BY <2>1 DEF ToSet
  <2> HIDE DEF under, cs, parent
  <2>5. {idx[key].chunk : key \in under} = ToSet(cs)
    <3>1. \A key \in under : idx[key].chunk \in ToSet(cs)
      BY <2>2, <2>4
    <3>2. \A i \in 1 .. Len(cs) : \E key \in under : cs[i] = idx[key].chunk
      BY <2>3
    <3>3. ToSet(cs) \subseteq {idx[key].chunk : key \in under}
      BY <2>4, <3>2
    <3> QED
      BY <3>1, <3>3
  <2> QED
    BY <2>5 DEF under, cs, parent
<1>3. jb.schema = "recreate" => \A key \in DOMAIN idx : \E n \in DOMAIN src : key[1] = Parent(src[n])
  <2>1. jb.schema = "recreate" => DOMAIN Base(jb) = {}
    BY DEF Base, Empty
  <2> QED
    BY <1>1, <2>1 DEF OthersAsFound
<1> QED
  BY <1>2, <1>3 DEF Holds

-----------------------------------------------------------------------------
(* Writing a document.                                                     *)

Vectors(cs, n) == [i \in 1 .. n |-> EmbeddingInput(cs[i])]
NewAt(jb, src, pos) ==
    IndexDocuments(ChunksOf(jb, src, pos), Vectors(ChunksOf(jb, src, pos), Len(ChunksOf(jb, src, pos))))
StaleAt(jb, src, idx, pos) ==
    {key \in DOMAIN idx : key[1] = Parent(src[pos])} \ DOMAIN NewAt(jb, src, pos)
IndexAfter(idx, new, uploaded, removed) ==
    [key \in (DOMAIN idx \cup uploaded) \ removed |-> IF key \in uploaded THEN new[key] ELSE idx[key]]

\* What is new has the key of the chunk, the chunk and its own vector.
IsUnder(key, parent) == key[1] = parent
IsNumbered(key, parent, n) == \E i \in 1 .. n : key = <<parent, i - 1>>
IsOwn(entry) == entry.vector = EmbeddingInput(entry.chunk)
HasChunk(idx, parent, i, chunk) == <<parent, i - 1>> \in DOMAIN idx /\ idx[<<parent, i - 1>>].chunk = chunk

LEMMA NewEntries ==
    ASSUME NEW jb, NEW src, IsCorpus(src), NEW pos \in 1 .. Len(src)
    PROVE  /\ \A key \in DOMAIN NewAt(jb, src, pos) :
               /\ IsUnder(key, Parent(src[pos]))
               /\ IsNumbered(key, Parent(src[pos]), Len(ChunksOf(jb, src, pos)))
               /\ IsOwn(NewAt(jb, src, pos)[key])
           /\ \A i \in 1 .. Len(ChunksOf(jb, src, pos)) :
               HasChunk(NewAt(jb, src, pos), Parent(src[pos]), i, ChunksOf(jb, src, pos)[i])
<1> DEFINE cs == ChunksOf(jb, src, pos)
           vs == Vectors(cs, Len(cs))
           new == NewAt(jb, src, pos)
           parent == Parent(src[pos])
           keys == {<<cs[n].parent, cs[n].ordinal>> : n \in DOMAIN cs}
<1>1. /\ Len(cs) \in Nat /\ DOMAIN cs = 1 .. Len(cs)
      /\ \A i \in 1 .. Len(cs) : cs[i].parent = parent /\ cs[i].ordinal = i - 1
  BY Chunked
<1>2. new = [key \in keys |-> [chunk |-> cs[key[2] + 1], vector |-> vs[key[2] + 1]]]
  BY DEF NewAt, IndexDocuments
<1>3. \A i \in 1 .. Len(cs) : vs[i] = EmbeddingInput(cs[i])
  BY DEF Vectors
<1> HIDE DEF cs, vs, new, parent
<1>4. keys = {<<parent, i - 1>> : i \in 1 .. Len(cs)}
  BY <1>1
<1> HIDE DEF keys
<1>5. ASSUME NEW i \in 1 .. Len(cs)
      PROVE  /\ <<parent, i - 1>> \in keys
             /\ new[<<parent, i - 1>>] = [chunk |-> cs[i], vector |-> EmbeddingInput(cs[i])]
  <2>1. <<parent, i - 1>> \in keys /\ <<parent, i - 1>>[2] = i - 1 /\ (i - 1) + 1 = i
    BY <1>4
  <2>2. new[<<parent, i - 1>>] = [chunk |-> cs[i], vector |-> vs[i]]
    BY <1>2, <2>1
  <2> QED
    BY <1>3, <2>1, <2>2
<1>6. ASSUME NEW key \in DOMAIN new
      PROVE  \E i \in 1 .. Len(cs) : key = <<parent, i - 1>>
  BY <1>2, <1>4
<1>7. ASSUME NEW key \in DOMAIN new
      PROVE  key[1] = parent /\ new[key].vector = EmbeddingInput(new[key].chunk)
  <2>1. PICK i \in 1 .. Len(cs) : key = <<parent, i - 1>>
    BY <1>6
  <2>2. <<parent, i - 1>>[1] = parent
    OBVIOUS
  <2>3. new[<<parent, i - 1>>] = [chunk |-> cs[i], vector |-> EmbeddingInput(cs[i])]
    BY <1>5
  <2>4. new[key].chunk = cs[i] /\ new[key].vector = EmbeddingInput(cs[i])
    BY <2>1, <2>3
  <2> QED
    BY <2>1, <2>2, <2>4
<1>8. DOMAIN new = keys
  BY <1>2
<1>9. ASSUME NEW i \in 1 .. Len(cs)
      PROVE  <<parent, i - 1>> \in DOMAIN new /\ new[<<parent, i - 1>>].chunk = cs[i]
  <2>1. <<parent, i - 1>> \in DOMAIN new
    BY <1>5, <1>8
  <2>2. new[<<parent, i - 1>>] = [chunk |-> cs[i], vector |-> EmbeddingInput(cs[i])]
    BY <1>5
  <2>3. new[<<parent, i - 1>>].chunk = cs[i]
    BY <2>2
  <2> QED
    BY <2>1, <2>3
<1>10. \A key \in DOMAIN new : IsUnder(key, parent) /\ IsNumbered(key, parent, Len(cs)) /\ IsOwn(new[key])
  BY <1>6, <1>7 DEF IsUnder, IsNumbered, IsOwn
<1>11. \A i \in 1 .. Len(cs) : HasChunk(new, parent, i, cs[i])
  BY <1>9 DEF HasChunk
<1> QED
  BY <1>10, <1>11 DEF cs, new, parent

LEMMA NewKeys ==
    ASSUME NEW jb, NEW src, IsCorpus(src), NEW pos \in 1 .. Len(src)
    PROVE  \A key \in DOMAIN NewAt(jb, src, pos) : key[1] = Parent(src[pos])
<1>1. \A key \in DOMAIN NewAt(jb, src, pos) : IsUnder(key, Parent(src[pos]))
  BY NewEntries
<1> QED
  BY <1>1 DEF IsUnder

LEMMA NewOwn ==
    ASSUME NEW jb, NEW src, IsCorpus(src), NEW pos \in 1 .. Len(src)
    PROVE  \A key \in DOMAIN NewAt(jb, src, pos) :
               NewAt(jb, src, pos)[key].vector = EmbeddingInput(NewAt(jb, src, pos)[key].chunk)
  BY NewEntries DEF IsOwn

LEMMA NewKeysAre ==
    ASSUME NEW jb, NEW src, IsCorpus(src), NEW pos \in 1 .. Len(src)
    PROVE  \A key \in DOMAIN NewAt(jb, src, pos) :
               \E i \in 1 .. Len(ChunksOf(jb, src, pos)) : key = <<Parent(src[pos]), i - 1>>
<1>1. \A key \in DOMAIN NewAt(jb, src, pos) : IsNumbered(key, Parent(src[pos]), Len(ChunksOf(jb, src, pos)))
  BY NewEntries
<1> QED
  BY <1>1 DEF IsNumbered

\* Other parents' entries are not touched by a write, complete or not.
LEMMA OthersStay ==
    ASSUME NEW jb, NEW src, IsCorpus(src), NEW pos \in 1 .. Len(src), NEW idx,
           NEW uploaded, uploaded \subseteq DOMAIN NewAt(jb, src, pos),
           NEW removed, removed \subseteq StaleAt(jb, src, idx, pos),
           NEW key, key[1] # Parent(src[pos])
    PROVE  LET after == IndexAfter(idx, NewAt(jb, src, pos), uploaded, removed)
           IN (key \in DOMAIN after <=> key \in DOMAIN idx) /\ (key \in DOMAIN idx => after[key] = idx[key])
<1>1. key \notin uploaded
  BY NewKeys
<1>2. key \notin removed
  BY DEF StaleAt
<1> QED
  BY <1>1, <1>2 DEF IndexAfter

LEMMA PlaceStays ==
    ASSUME NEW jb, NEW src, IsCorpus(src), NEW pos \in 1 .. Len(src), NEW idx,
           NEW uploaded, uploaded \subseteq DOMAIN NewAt(jb, src, pos),
           NEW removed, removed \subseteq StaleAt(jb, src, idx, pos),
           NEW n, Parent(src[n]) # Parent(src[pos]), InPlace(jb, src, idx, n)
    PROVE  InPlace(jb, src, IndexAfter(idx, NewAt(jb, src, pos), uploaded, removed), n)
<1> DEFINE after == IndexAfter(idx, NewAt(jb, src, pos), uploaded, removed)
           parent == Parent(src[n])
           cs == ChunksOf(jb, src, n)
<1>1. \A key : key[1] # Parent(src[pos]) =>
          (key \in DOMAIN after <=> key \in DOMAIN idx) /\ (key \in DOMAIN idx => after[key] = idx[key])
  BY OthersStay
<1> HIDE DEF after
<1>2. ASSUME NEW i \in 1 .. Len(cs)
      PROVE  <<parent, i - 1>> \in DOMAIN after /\ after[<<parent, i - 1>>].chunk = cs[i]
  <2>1. <<parent, i - 1>>[1] = parent
    OBVIOUS
  <2>2. <<parent, i - 1>> \in DOMAIN idx /\ idx[<<parent, i - 1>>].chunk = cs[i]
    BY DEF InPlace
  <2> QED
    BY <1>1, <2>1, <2>2
<1>3. ASSUME NEW key \in DOMAIN after, key[1] = parent
      PROVE  \E i \in 1 .. Len(cs) : key = <<parent, i - 1>>
  <2>1. key \in DOMAIN idx
    BY <1>1, <1>3
  <2> QED
    BY <1>3, <2>1 DEF InPlace
<1> QED
  BY <1>2, <1>3 DEF InPlace, after

LEMMA OthersFound ==
    ASSUME NEW jb, NEW src, IsCorpus(src), NEW pos \in 1 .. Len(src), NEW idx, OthersAsFound(jb, src, idx, pos - 1),
           NEW uploaded, uploaded \subseteq DOMAIN NewAt(jb, src, pos),
           NEW removed, removed \subseteq StaleAt(jb, src, idx, pos)
    PROVE  OthersAsFound(jb, src, IndexAfter(idx, NewAt(jb, src, pos), uploaded, removed), pos)
<1> DEFINE after == IndexAfter(idx, NewAt(jb, src, pos), uploaded, removed)
<1>1. \A key : key[1] # Parent(src[pos]) =>
          (key \in DOMAIN after <=> key \in DOMAIN idx) /\ (key \in DOMAIN idx => after[key] = idx[key])
  BY OthersStay
<1> HIDE DEF after
<1>2. \A n \in 1 .. pos - 1 : n \in 1 .. pos
  BY DEF IsCorpus
<1>3. pos \in 1 .. pos
  BY DEF IsCorpus
<1>4. ASSUME NEW key \in DOMAIN Base(jb), \A n \in 1 .. pos : key[1] # Parent(src[n])
      PROVE  key \in DOMAIN after /\ after[key] = Base(jb)[key]
  <2>1. key \in DOMAIN idx /\ idx[key] = Base(jb)[key]
    BY <1>2, <1>4 DEF OthersAsFound
  <2> QED
    BY <1>1, <1>3, <1>4, <2>1
<1>5. ASSUME NEW key \in DOMAIN after, \A n \in 1 .. pos : key[1] # Parent(src[n])
      PROVE  key \in DOMAIN Base(jb)
  <2>1. key \in DOMAIN idx
    BY <1>1, <1>3, <1>5
  <2> QED
    BY <1>2, <1>5, <2>1 DEF OthersAsFound
<1> QED
  BY <1>4, <1>5 DEF OthersAsFound, after

\* A complete replacement puts the document in its place.
LEMMA LoopGoesOn ==
    ASSUME NEW jb, NEW src, IsCorpus(src), NEW pos \in 1 .. Len(src), NEW idx,
           Replaced(jb, src, idx, pos - 1)
    PROVE  Replaced(jb, src, IndexAfter(idx, NewAt(jb, src, pos), DOMAIN NewAt(jb, src, pos),
                                        StaleAt(jb, src, idx, pos)), pos)
<1> DEFINE new == NewAt(jb, src, pos)
           stale == StaleAt(jb, src, idx, pos)
           after == IndexAfter(idx, new, DOMAIN new, stale)
           cs == ChunksOf(jb, src, pos)
           parent == Parent(src[pos])
<1>1. /\ \A key \in DOMAIN new : \E i \in 1 .. Len(cs) : key = <<parent, i - 1>>
      /\ \A i \in 1 .. Len(cs) : <<parent, i - 1>> \in DOMAIN new /\ new[<<parent, i - 1>>].chunk = cs[i]
  <2>1. \A key \in DOMAIN new : \E i \in 1 .. Len(cs) : key = <<parent, i - 1>>
    BY NewKeysAre
  <2>2. \A i \in 1 .. Len(cs) : HasChunk(new, parent, i, cs[i])
    BY NewEntries
  <2> HIDE DEF new, cs, parent
  <2> QED
    BY <2>1, <2>2 DEF HasChunk
<1>2. stale = {key \in DOMAIN idx : key[1] = parent} \ DOMAIN new
  BY DEF StaleAt
<1>3. DOMAIN after = (DOMAIN idx \cup DOMAIN new) \ stale /\ \A key \in DOMAIN new : after[key] = new[key]
  <2>1. \A key \in DOMAIN new : key \notin stale
    BY <1>2
  <2> HIDE DEF new, stale
  <2> QED
    BY <2>1 DEF IndexAfter
<1>4. InPlace(jb, src, after, pos)
  <2> HIDE DEF new, stale, after
  <2>1. \A i \in 1 .. Len(cs) : <<parent, i - 1>> \in DOMAIN after /\ after[<<parent, i - 1>>].chunk = cs[i]
    BY <1>1, <1>2, <1>3
  <2>2. \A key \in DOMAIN after : key[1] = parent => \E i \in 1 .. Len(cs) : key = <<parent, i - 1>>
    BY <1>1, <1>2, <1>3
  <2> QED
    BY <2>1, <2>2 DEF InPlace
<1>5. ASSUME NEW n \in 1 .. pos, IsLast(src, n, pos)
      PROVE  InPlace(jb, src, after, n)
  <2>1. CASE n = pos
    BY <1>4, <2>1
  <2>2. CASE n # pos
    <3>1. n \in 1 .. pos - 1 /\ pos \in n + 1 .. pos /\ \A m \in n + 1 .. pos - 1 : m \in n + 1 .. pos
      BY <2>2 DEF IsCorpus
    <3>2. Parent(src[n]) # parent /\ IsLast(src, n, pos - 1)
      BY <1>5, <3>1 DEF IsLast
    <3>3. InPlace(jb, src, idx, n)
      BY <3>1, <3>2 DEF Replaced
    <3>4. DOMAIN new \subseteq DOMAIN new /\ stale \subseteq stale
      OBVIOUS
    <3> QED
      BY <3>2, <3>3, <3>4, PlaceStays
  <2> QED
    BY <2>1, <2>2
<1> HIDE DEF after
<1>6. Replaced(jb, src, after, pos)
  BY <1>5 DEF Replaced
<1> QED
  BY <1>6 DEF after

\* One that stops leaves documents whole.
LEMMA LoopStops ==
    ASSUME NEW jb, NEW src, IsCorpus(src), NEW pos \in 1 .. Len(src), NEW idx, jb.schema # "recreate",
           OthersAsFound(jb, src, idx, pos - 1), Replaced(jb, src, idx, pos - 1),
           NEW uploaded, uploaded \subseteq DOMAIN NewAt(jb, src, pos),
           NEW removed, removed \subseteq StaleAt(jb, src, idx, pos),
           removed # {} => uploaded = DOMAIN NewAt(jb, src, pos)
    PROVE  Left(jb, src, IndexAfter(idx, NewAt(jb, src, pos), uploaded, removed), pos)
<1> DEFINE new == NewAt(jb, src, pos)
           after == IndexAfter(idx, new, uploaded, removed)
           parent == Parent(src[pos])
           cs == ChunksOf(jb, src, pos)
<1>1. Len(src) \in Nat /\ DOMAIN src = 1 .. Len(src) /\ pos \in DOMAIN src
  BY DEF IsCorpus
<1>2. OthersAsFound(jb, src, after, pos)
  BY OthersFound
<1>3. ASSUME NEW n \in 1 .. pos - 1, Parent(src[n]) \notin ReachedFrom(src, n + 1, pos)
      PROVE  IsWhole(jb, src, after, n)
  <2>1. n \in 1 .. Len(src)
    BY <1>1
  <2>2. \A m \in n + 1 .. pos : m \in (n + 1 .. pos) \cap DOMAIN src
    BY <1>1
  <2>3. \A m \in n + 1 .. pos : Parent(src[m]) # Parent(src[n])
    BY <1>3, <2>2 DEF ReachedFrom
  <2>4. pos \in n + 1 .. pos /\ \A m \in n + 1 .. pos - 1 : m \in n + 1 .. pos
    BY <1>1
  <2>5. IsLast(src, n, pos - 1) /\ Parent(src[n]) # parent
    BY <2>3, <2>4 DEF IsLast
  <2>6. InPlace(jb, src, idx, n)
    BY <2>5 DEF Replaced
  <2>7. InPlace(jb, src, after, n)
    BY <2>5, <2>6, PlaceStays
  <2> HIDE DEF after
  <2> QED
    BY <2>1, <2>7, PlaceIsWhole DEF InPlace
<1>4. ASSUME NEW key \in DOMAIN jb.index, key[1] \notin ReachedFrom(src, 1, pos)
      PROVE  key \in DOMAIN after /\ after[key] = jb.index[key]
  <2>1. \A n \in 1 .. pos : n \in (1 .. pos) \cap DOMAIN src
    BY <1>1
  <2>2. \A n \in 1 .. pos : key[1] # Parent(src[n])
    BY <1>4, <2>1 DEF ReachedFrom
  <2> HIDE DEF after
  <2> QED
    BY <1>2, <2>2 DEF OthersAsFound, Base
<1>5. KeysThere(jb, src, pos) \subseteq DOMAIN after \/ IsWhole(jb, src, after, pos)
  <2>1. CASE removed = {}
    <3>1. KeysThere(jb, src, pos) \subseteq DOMAIN idx
      BY KeysStand
    <3>2. DOMAIN idx \subseteq DOMAIN after
      BY <2>1 DEF IndexAfter
    <3> QED
      BY <3>1, <3>2
  <2>2. CASE removed # {}
    <3>1. uploaded = DOMAIN new
      BY <2>2
    <3>2. \A i \in 1 .. Len(cs) : <<parent, i - 1>> \in DOMAIN new /\ new[<<parent, i - 1>>].chunk = cs[i]
      <4>1. \A i \in 1 .. Len(cs) : HasChunk(new, parent, i, cs[i])
        BY NewEntries
      <4> HIDE DEF new, cs, parent
      <4> QED
        BY <4>1 DEF HasChunk
    <3>3. \A key \in DOMAIN new : key \in DOMAIN after /\ after[key] = new[key]
      <4>1. \A key \in DOMAIN new : key \notin removed
        BY DEF StaleAt
      <4> HIDE DEF new
      <4> QED
        BY <3>1, <4>1 DEF IndexAfter
    <3>4. \A i \in 1 .. Len(cs) : <<parent, i - 1>> \in DOMAIN after /\ after[<<parent, i - 1>>].chunk = cs[i]
      <4> HIDE DEF new, after
      <4> QED
        BY <3>2, <3>3
    <3> HIDE DEF after
    <3> QED
      BY <3>4, PlaceIsWhole
  <2> QED
    BY <2>1, <2>2
<1> HIDE DEF after
<1>6. Left(jb, src, after, pos)
  BY <1>3, <1>4, <1>5 DEF Left
<1> QED
  BY <1>6 DEF after

LEMMA OwnVectorsStay ==
    ASSUME NEW jb, NEW src, IsCorpus(src), NEW pos \in 1 .. Len(src), NEW idx, OwnVectors(jb, idx),
           NEW uploaded, uploaded \subseteq DOMAIN NewAt(jb, src, pos), NEW removed
    PROVE  OwnVectors(jb, IndexAfter(idx, NewAt(jb, src, pos), uploaded, removed))
<1> DEFINE new == NewAt(jb, src, pos)
           after == IndexAfter(idx, new, uploaded, removed)
<1>1. \A key \in DOMAIN new : new[key].vector = EmbeddingInput(new[key].chunk)
  BY NewOwn
<1>2. DOMAIN after = (DOMAIN idx \cup uploaded) \ removed
  BY DEF IndexAfter
<1>3. \A key \in DOMAIN after : after[key] = IF key \in uploaded THEN new[key] ELSE idx[key]
  BY DEF IndexAfter
<1> HIDE DEF new, after
<1>4. OwnVectors(jb, after)
  <2> SUFFICES ASSUME NEW key \in DOMAIN after
               PROVE  \/ key \in DOMAIN jb.index /\ after[key] = jb.index[key]
                      \/ after[key].vector = EmbeddingInput(after[key].chunk)
    BY DEF OwnVectors
  <2>1. CASE key \in uploaded
    BY <1>1, <1>3, <2>1 DEF new
  <2>2. CASE key \notin uploaded
    <3>1. key \in DOMAIN idx /\ after[key] = idx[key]
      BY <1>2, <1>3, <2>2
    <3> QED
      BY <3>1 DEF OwnVectors
  <2> QED
    BY <2>1, <2>2
<1> QED
  BY <1>4 DEF after, new

-----------------------------------------------------------------------------
(* The run.  Before the loop the index is as it was found, or emptied; in  *)
(* the loop the documents before the one at hand are in their place, the   *)
(* chunks are those of the one at hand, and the first of them have their   *)
(* vectors.                                                                *)

Looping == {"chunk", "embed", "replace"}
Stages == {"guard", "delete", "create", "load", "seed", "over"} \cup Looping
Loop(jb, src, idx, p) == OthersAsFound(jb, src, idx, p) /\ Replaced(jb, src, idx, p)

AtStart ==
    /\ sources = <<>> /\ position = 1
    /\ job.schema # "recreate" => index = job.index /\ stage # "delete"
    /\ job.schema = "recreate" /\ stage \in {"create", "load"} => DOMAIN index = {}
InLoop == IsCorpus(sources) /\ position \in 1 .. Len(sources) + 1 /\ Loop(job, sources, index, position - 1)
DocumentAtHand ==
    /\ position \in 1 .. Len(sources) /\ chunks = ChunksOf(job, sources, position)
    /\ \E k \in 0 .. Len(chunks) : vectors = Vectors(chunks, k) /\ (stage = "replace" => k = Len(chunks))
AtEnd ==
    /\ ending = "indexed" => Holds(job, sources, index)
    /\ job.schema # "recreate" => Left(job, sources, index, position)

IndexInv ==
    /\ job \in IngestionJobs /\ stage \in Stages /\ OwnVectors(job, index)
    /\ stage = "seed" => job.kind = "seed"
    /\ stage # "over" => ending = "running"
    /\ stage \in {"guard", "delete", "create", "load"} => AtStart
    /\ stage \in Looping => InLoop
    /\ stage \in {"embed", "replace"} => DocumentAtHand
    /\ stage = "over" /\ job.kind = "tool" => AtEnd

LEMMA NothingLeft ==
    ASSUME NEW jb
    PROVE  Left(jb, <<>>, jb.index, 1)
<1>1. 1 .. 0 = {} /\ 1 - 1 = 0 /\ 1 \notin DOMAIN <<>>
  OBVIOUS
<1> QED
  BY <1>1 DEF Left

LEMMA RunLeaves ==
    ASSUME IndexInv, stage \notin {"seed", "over"}, job.schema # "recreate"
    PROVE  Left(job, sources, index, position)
<1>1. CASE stage \in Looping
  BY <1>1, LoopLeaves DEF IndexInv, InLoop, Loop
<1>2. CASE stage \notin Looping
  <2>1. AtStart
    BY <1>2 DEF IndexInv, Stages
  <2>2. sources = <<>> /\ position = 1 /\ index = job.index
    BY <2>1 DEF AtStart
  <2> QED
    BY <2>2, NothingLeft
<1> QED
  BY <1>1, <1>2

\* What the invariant is for.
LEMMA LeftIs == LeftWhole <=> Left(job, sources, index, position)
  BY DEF LeftWhole, Left, Whole, IsWhole, Under, Reached, ReachedFrom,
         KeysBefore, KeysThere, Earlier, EarlierOnes, ChunksOf

LEMMA HoldsIs == HoldsTheCorpus <=> Holds(job, sources, index)
  BY DEF HoldsTheCorpus, Holds, Under, ChunksOf

LEMMA RunFollows == IndexInv => IndexFollowsTheCorpus
<1> SUFFICES ASSUME IndexInv PROVE IndexFollowsTheCorpus
  BY DEF IndexFollowsTheCorpus
<1>1. \A key \in {k \in DOMAIN index : k \notin DOMAIN job.index \/ index[k] # job.index[k]} :
          index[key].vector = EmbeddingInput(index[key].chunk)
  BY DEF IndexInv, OwnVectors
<1>2. job.kind = "tool" /\ ending = "indexed" => HoldsTheCorpus
  BY HoldsIs DEF IndexInv, AtEnd
<1>3. job.kind = "tool" /\ job.schema # "recreate" => LeftWhole
  <2> SUFFICES ASSUME job.kind = "tool", job.schema # "recreate" PROVE LeftWhole
    OBVIOUS
  <2>1. CASE stage = "over"
    BY <2>1, LeftIs DEF IndexInv, AtEnd
  <2>2. CASE stage # "over"
    <3>1. stage # "seed"
      BY DEF IndexInv
    <3> QED
      BY <2>2, <3>1, RunLeaves, LeftIs
  <2> QED
    BY <2>1, <2>2
<1> QED
  BY <1>1, <1>2, <1>3 DEF IndexFollowsTheCorpus

-----------------------------------------------------------------------------
(* Its steps.                                                              *)

\* A run that stops before it wrote anything further.
LEMMA StoppedHere ==
    ASSUME IndexInv, stage \notin {"seed", "over"}, Leave("aborted") \/ Leave("refused"),
           UNCHANGED <<job, sources, position, index>>
    PROVE  IndexInv'
<1>1. stage' = "over" /\ ending' # "indexed"
  BY DEF Leave
<1>2. (job.schema # "recreate" => Left(job, sources, index, position))'
  BY RunLeaves
<1>3. AtEnd'
  BY <1>1, <1>2 DEF AtEnd
<1> QED
  BY <1>1, <1>3 DEF IndexInv, Stages, Looping

LEMMA GuardFollows ==
    ASSUME IndexInv, Guard
    PROVE  IndexInv'
<1>1. stage = "guard" /\ AtStart /\ UNCHANGED <<job, sources, position, chunks, vectors, exists, index>>
  BY DEF Guard, Locals, IndexInv
<1>2. CASE job.fake_embeddings \/ ~job.search_configured
  <2>1. Leave("aborted") \/ Leave("refused")
    BY <1>2 DEF Guard
  <2> QED
    BY <1>1, <2>1, StoppedHere
<1>3. CASE ~(job.fake_embeddings \/ ~job.search_configured)
  <2>1. /\ stage' = IF job.schema = "recreate" THEN "delete" ELSE IF job.schema = "create" THEN "create" ELSE "load"
        /\ ending' = ending
    BY <1>3 DEF Guard, Enter
  <2>2. AtStart'
    BY <1>1, <2>1 DEF AtStart
  <2> QED
    BY <1>1, <2>1, <2>2 DEF IndexInv, Stages, Looping
<1> QED
  BY <1>2, <1>3

LEMMA DeleteFollows ==
    ASSUME IndexInv, DeleteIndex
    PROVE  IndexInv'
<1>1. /\ stage = "delete" /\ AtStart /\ job.schema = "recreate"
      /\ UNCHANGED <<job, sources, position, chunks, vectors>>
  BY DEF DeleteIndex, Locals, IndexInv, AtStart
<1>2. PICK landed \in BOOLEAN, failed \in BOOLEAN :
          /\ landed \/ failed
          /\ IF failed THEN Leave("aborted") ELSE Enter("create")
          /\ index' = IF landed THEN Empty ELSE index
  BY DEF DeleteIndex
<1>3. DOMAIN Empty = {}
  BY DEF Empty
<1>4. OwnVectors(job', index')
  BY <1>1, <1>2, <1>3 DEF OwnVectors, IndexInv
<1>5. CASE failed
  <2>1. stage' = "over" /\ ending' = "aborted"
    BY <1>2, <1>5 DEF Leave
  <2>2. AtEnd'
    BY <1>1, <2>1 DEF AtEnd
  <2> QED
    BY <1>1, <1>4, <2>1, <2>2 DEF IndexInv, Stages, Looping
<1>6. CASE ~failed
  <2>1. stage' = "create" /\ ending' = ending /\ DOMAIN index' = {}
    BY <1>2, <1>3, <1>6 DEF Enter
  <2>2. AtStart'
    BY <1>1, <2>1 DEF AtStart
  <2> QED
    BY <1>1, <1>4, <2>1, <2>2 DEF IndexInv, Stages, Looping
<1> QED
  BY <1>5, <1>6

LEMMA CreateFollows ==
    ASSUME IndexInv, CreateIndex
    PROVE  IndexInv'
<1>1. stage = "create" /\ AtStart /\ UNCHANGED <<job, sources, position, chunks, vectors, index>>
  BY DEF CreateIndex, Locals, IndexInv
<1>2. CASE Leave("aborted")
  BY <1>1, <1>2, StoppedHere
<1>3. CASE Enter("load")
  <2>1. stage' = "load" /\ ending' = ending
    BY <1>3 DEF Enter
  <2>2. AtStart'
    BY <1>1, <2>1 DEF AtStart
  <2> QED
    BY <1>1, <2>1, <2>2 DEF IndexInv, Stages, Looping
<1> QED
  BY <1>2, <1>3 DEF CreateIndex

\* Files are lists of texts, and so is what is loaded of them.
LEMMA LoadedCorpus ==
    ASSUME job \in IngestionJobs, NEW tenant
    PROVE  IsCorpus(LoadDocuments(tenant))
<1> DEFINE docs == LoadDocuments(tenant)
           loaded == job.files
<1>1. /\ loaded \in Seq(ToSet(loaded))
      /\ \A file \in ToSet(loaded) : /\ file.body \in Seq(ToSet(file.body))
                                    /\ \A line \in ToSet(file.body) : line.text \in Seq(ToSet(line.text))
  BY IngestionAssumption
<1>2. docs = [n \in DOMAIN loaded |-> SourceDocument(loaded[n], tenant)]
  BY DEF LoadDocuments
<1> HIDE DEF docs, loaded
<1>3. Len(loaded) \in Nat /\ DOMAIN loaded = 1 .. Len(loaded) /\ \A n \in 1 .. Len(loaded) : loaded[n] \in ToSet(loaded)
  BY <1>1, Listed
<1>4. DOMAIN docs = 1 .. Len(loaded) /\ Len(docs) = Len(loaded)
  BY <1>2, <1>3
<1>5. ASSUME NEW n \in 1 .. Len(loaded)
      PROVE  IsBody(docs[n].body)
  <2> DEFINE body == loaded[n].body
  <2>1. docs[n].body = body
    BY <1>2, <1>3 DEF SourceDocument
  <2>2. body \in Seq(ToSet(body)) /\ \A line \in ToSet(body) : line.text \in Seq(ToSet(line.text))
    BY <1>1, <1>3
  <2> HIDE DEF body
  <2>3. \A l \in DOMAIN body : body[l] \in ToSet(body)
    BY DEF ToSet
  <2> QED
    BY <2>1, <2>2, <2>3 DEF IsBody
<1>6. IsCorpus(docs)
  BY <1>3, <1>4, <1>5 DEF IsCorpus
<1> QED
  BY <1>6 DEF docs

LEMMA LoadFollows ==
    ASSUME IndexInv, Load
    PROVE  IndexInv'
<1>1. stage = "load" /\ AtStart /\ UNCHANGED <<job, position, chunks, vectors, exists, index>>
  BY DEF Load, IndexInv
<1>2. CASE Leave("aborted") /\ UNCHANGED sources
  BY <1>1, <1>2, StoppedHere
<1>3. CASE Enter("chunk") /\ sources' = LoadDocuments(job.tenant)
  <2>1. stage' = "chunk" /\ ending' = ending
    BY <1>3 DEF Enter
  <2>2. IsCorpus(sources') /\ position' = 1
    BY <1>1, <1>3, LoadedCorpus DEF IndexInv, AtStart
  <2>3. OthersAsFound(job', sources', index', 0)
    <3>1. job.schema # "recreate" => index = job.index
      BY <1>1 DEF AtStart
    <3>2. job.schema = "recreate" => DOMAIN index = {}
      BY <1>1 DEF AtStart
    <3>3. DOMAIN Empty = {}
      BY DEF Empty
    <3> QED
      BY <1>1, <3>1, <3>2, <3>3 DEF OthersAsFound, Base
  <2>4. Replaced(job', sources', index', 0)
    <3>1. 1 .. 0 = {}
      OBVIOUS
    <3> QED
      BY <3>1 DEF Replaced
  <2>5. InLoop'
    <3>1. position' - 1 = 0 /\ position' \in 1 .. Len(sources') + 1
      BY <2>2 DEF IsCorpus
    <3> QED
      BY <2>2, <2>3, <2>4, <3>1 DEF InLoop, Loop
  <2> QED
    BY <1>1, <2>1, <2>5 DEF IndexInv, Stages, Looping
<1> QED
  BY <1>2, <1>3 DEF Load

LEMMA ChunkFollows ==
    ASSUME IndexInv, Chunk
    PROVE  IndexInv'
<1>1. /\ stage = "chunk" /\ position <= Len(sources) /\ vectors' = <<>> /\ InLoop
      /\ UNCHANGED <<job, sources, position, exists, index>>
  BY DEF Chunk, IndexInv, Looping
<1>2. CASE Leave("aborted")
  BY <1>1, <1>2, StoppedHere
<1>3. CASE Enter("embed") /\ chunks' = ChunkMarkdown(sources[position], job.limits)
  <2>1. stage' = "embed" /\ ending' = ending /\ chunks' = ChunksOf(job', sources', position')
    BY <1>1, <1>3 DEF Enter, ChunksOf
  <2>2. position' \in 1 .. Len(sources')
    BY <1>1 DEF InLoop, IsCorpus
  <2>3. Len(chunks') \in Nat /\ vectors' = Vectors(chunks', 0)
    <3>1. Len(chunks') \in Nat
      BY <1>1, <2>1, <2>2, Chunked DEF InLoop
    <3>2. Vectors(chunks', 0) = <<>>
      BY DEF Vectors
    <3> QED
      BY <1>1, <3>1, <3>2
  <2>4. DocumentAtHand'
    <3>1. 0 \in 0 .. Len(chunks')
      BY <2>3
    <3> QED
      BY <2>1, <2>2, <2>3, <3>1 DEF DocumentAtHand
  <2>5. InLoop'
    BY <1>1 DEF InLoop
  <2> QED
    BY <1>1, <2>1, <2>4, <2>5 DEF IndexInv, Stages, Looping
<1> QED
  BY <1>2, <1>3 DEF Chunk

LEMMA VectorsListed ==
    ASSUME NEW cs, NEW k \in Nat
    PROVE  /\ Vectors(cs, k) \in Seq({EmbeddingInput(cs[i]) : i \in 1 .. k})
           /\ Len(Vectors(cs, k)) = k
           /\ \A i \in 1 .. k : Vectors(cs, k)[i] = EmbeddingInput(cs[i])
<1> DEFINE V == {EmbeddingInput(cs[i]) : i \in 1 .. k}
           vs == Vectors(cs, k)
<1>1. vs = [i \in 1 .. k |-> EmbeddingInput(cs[i])]
  BY DEF Vectors
<1>2. \A i \in 1 .. k : EmbeddingInput(cs[i]) \in V
  OBVIOUS
<1> HIDE DEF V, vs
<1>3. vs \in [1 .. k -> V]
  BY <1>1, <1>2
<1>4. vs \in Seq(V)
  BY <1>3, MapIsSeq
<1>5. Len(vs) = k
  BY <1>3
<1> QED
  BY <1>1, <1>4, <1>5 DEF V, vs

LEMMA MoreVectors ==
    ASSUME NEW cs, NEW k \in Nat, NEW n \in Nat, NEW more,
           more = [i \in 1 .. n |-> EmbeddingInput(cs[k + i])]
    PROVE  Vectors(cs, k) \o more = Vectors(cs, k + n)
<1> DEFINE V == {EmbeddingInput(cs[i]) : i \in 1 .. k + n}
           first == Vectors(cs, k)
           all == Vectors(cs, k + n)
<1>1. /\ first \in Seq(V) /\ Len(first) = k
      /\ \A i \in 1 .. k : first[i] = EmbeddingInput(cs[i])
  <2>1. \A i \in 1 .. k : i \in 1 .. k + n
    OBVIOUS
  <2>2. first = [i \in 1 .. k |-> EmbeddingInput(cs[i])] /\ \A i \in 1 .. k : EmbeddingInput(cs[i]) \in V
    BY <2>1 DEF Vectors
  <2>3. first \in [1 .. k -> V]
    <3> HIDE DEF first, V
    <3> QED
      BY <2>2
  <2>4. first \in Seq(V)
    <3> HIDE DEF first, V
    <3> QED
      BY <2>3, MapIsSeq
  <2> QED
    BY <2>4, VectorsListed
<1>2. all \in Seq(V) /\ Len(all) = k + n /\ \A i \in 1 .. k + n : all[i] = EmbeddingInput(cs[i])
  <2>1. k + n \in Nat
    OBVIOUS
  <2> QED
    BY <2>1, VectorsListed
<1>3. more \in [1 .. n -> V]
  <2>1. \A i \in 1 .. n : k + i \in 1 .. k + n
    OBVIOUS
  <2> QED
    BY <2>1
<1> HIDE DEF V, first, all
<1>4. more \in Seq(V) /\ Len(more) = n
  <2>1. more \in Seq(V)
    BY <1>3, MapIsSeq
  <2>2. Len(more) = n
    BY <1>3
  <2> QED
    BY <2>1, <2>2
<1>5. /\ first \o more \in Seq(V) /\ Len(first \o more) = k + n
      /\ \A i \in 1 .. k + n : (first \o more)[i] = IF i <= k THEN first[i] ELSE more[i - k]
  <2>1. /\ first \o more \in Seq(V) /\ Len(first \o more) = Len(first) + Len(more)
        /\ \A i \in 1 .. Len(first) + Len(more) :
               (first \o more)[i] = IF i <= Len(first) THEN first[i] ELSE more[i - Len(first)]
    BY <1>1, <1>4, ConcatProperties, ZenonT(60)
  <2> QED
    BY <1>1, <1>4, <2>1
<1>6. ASSUME NEW i \in 1 .. k + n
      PROVE  (first \o more)[i] = all[i]
  <2>1. CASE i <= k
    BY <1>1, <1>2, <1>5, <2>1
  <2>2. CASE ~(i <= k)
    <3>1. i - k \in 1 .. n /\ k + (i - k) = i
      BY <2>2
    <3>2. more[i - k] = EmbeddingInput(cs[i])
      BY <3>1
    <3> QED
      BY <1>2, <1>5, <2>2, <3>2
  <2> QED
    BY <2>1, <2>2
<1>7. first \o more = all
  BY <1>2, <1>5, <1>6, SeqEqual
<1> QED
  BY <1>7 DEF first, all

\* An answer that is accepted gives each input its own vector.
LEMMA BoundIs ==
    ASSUME NEW n \in Nat, NEW response, Acceptable(response, n), NEW i \in 1 .. n
    PROVE  Bound(response, i) = EmbeddingInput(chunks[Len(vectors) + i])
<1> DEFINE k == CHOOSE k \in DOMAIN response : response[k].index = i - 1
<1>1. i - 1 \in 0 .. n - 1
  OBVIOUS
<1>2. \E j \in DOMAIN response : response[j].index = i - 1
  <2>1. {response[j].index : j \in DOMAIN response} = 0 .. n - 1
    BY DEF Acceptable
  <2> QED
    BY <1>1, <2>1
<1>3. response[k].index = i - 1
  BY <1>2
<1>4. Bound(response, i) = BatchInput(response[k].index + 1)
  BY DEF Bound
<1> HIDE DEF k
<1>5. response[k].index + 1 = i
  BY <1>3
<1> QED
  BY <1>4, <1>5 DEF BatchInput

LEMMA BatchFits ==
    ASSUME NEW n \in Nat, NEW k \in 0 .. n
    PROVE  Min({MaxBatchInputs, n - k}) \in 0 .. n - k
<1>1. MaxBatchInputs \in Nat /\ n - k \in Nat
  BY IngestionAssumption
<1> DEFINE T == {MaxBatchInputs, n - k}
<1>2. T \in SUBSET Nat /\ T # {} /\ n - k \in T
  BY <1>1
<1> HIDE DEF T
<1>3. Min(T) \in T /\ Min(T) <= n - k
  BY <1>2, MinIs
<1>4. Min(T) \in 0 .. n - k
  <2>1. \A m \in Nat : m <= n - k => m \in 0 .. n - k
    BY <1>1
  <2> QED
    BY <1>2, <1>3, <2>1
<1> QED
  BY <1>4 DEF T

LEMMA EmbedFollows ==
    ASSUME IndexInv, Embed
    PROVE  IndexInv'
<1>1. /\ stage = "embed" /\ InLoop /\ DocumentAtHand
      /\ UNCHANGED <<job, sources, position, chunks, exists, index>>
  BY DEF Embed, IndexInv, Looping
<1>2. CASE Leave("aborted")
  BY <1>1, <1>2, StoppedHere
<1>3. ASSUME NEW response, Acceptable(response, BatchSize),
             vectors' = vectors \o [i \in 1 .. BatchSize |-> Bound(response, i)],
             UNCHANGED <<stage, ending>>
      PROVE  IndexInv'
  <2> DEFINE n == BatchSize
             more == [i \in 1 .. n |-> Bound(response, i)]
  <2>1. Len(chunks) \in Nat
    BY <1>1, Chunked DEF DocumentAtHand, InLoop
  <2>2. PICK k \in 0 .. Len(chunks) : vectors = Vectors(chunks, k)
    BY <1>1 DEF DocumentAtHand
  <2>3. k \in Nat /\ Len(vectors) = k
    <3>1. k \in Nat
      BY <2>1
    <3>2. Len(Vectors(chunks, k)) = k
      BY <3>1, VectorsListed
    <3> QED
      BY <2>2, <3>1, <3>2
  <2>4. n \in 0 .. Len(chunks) - k
    <3>1. n = Min({MaxBatchInputs, Len(chunks) - k})
      BY <2>3 DEF BatchSize
    <3> HIDE DEF n
    <3> QED
      BY <2>1, <3>1, BatchFits
  <2> HIDE DEF n
  <2>5. n \in Nat /\ k + n \in 0 .. Len(chunks)
    BY <2>1, <2>4
  <2>6. \A i \in 1 .. n : Bound(response, i) = EmbeddingInput(chunks[k + i])
    BY <1>3, <2>3, <2>5, BoundIs DEF n
  <2>7. more = [i \in 1 .. n |-> EmbeddingInput(chunks[k + i])]
    BY <2>6
  <2>8. vectors' = vectors \o more
    BY <1>3 DEF n
  <2> HIDE DEF more
  <2>9. vectors' = Vectors(chunks, k + n)
    BY <2>2, <2>3, <2>5, <2>7, <2>8, MoreVectors, ZenonT(60)
  <2>10. DocumentAtHand' /\ InLoop'
    BY <1>1, <1>3, <2>5, <2>9 DEF DocumentAtHand, InLoop
  <2> QED
    BY <1>1, <1>3, <2>10 DEF IndexInv, Stages, Looping
<1> QED
  BY <1>2, <1>3 DEF Embed

LEMMA EmbeddedFollows ==
    ASSUME IndexInv, Embedded
    PROVE  IndexInv'
<1>1. /\ stage = "embed" /\ Len(vectors) = Len(chunks) /\ InLoop /\ DocumentAtHand
      /\ stage' = "replace" /\ ending' = ending
      /\ UNCHANGED <<job, sources, position, chunks, vectors, exists, index>>
  BY DEF Embedded, Enter, Locals, IndexInv, Looping
<1>2. Len(chunks) \in Nat
  BY <1>1, Chunked DEF DocumentAtHand, InLoop
<1>3. PICK k \in 0 .. Len(chunks) : vectors = Vectors(chunks, k)
  BY <1>1 DEF DocumentAtHand
<1>4. k = Len(chunks)
  <2>1. k \in Nat
    BY <1>2
  <2> QED
    BY <1>1, <1>3, <2>1, VectorsListed
<1>5. DocumentAtHand' /\ InLoop'
  BY <1>1, <1>3, <1>4 DEF DocumentAtHand, InLoop
<1> QED
  BY <1>1, <1>5 DEF IndexInv, Stages, Looping

\* What a replacement writes.
LEMMA NewIs ==
    ASSUME DocumentAtHand, stage = "replace"
    PROVE  /\ New = NewAt(job, sources, position)
           /\ Stale = StaleAt(job, sources, index, position)
           /\ \A uploaded, removed :
               Written(uploaded, removed) = IndexAfter(index, NewAt(job, sources, position), uploaded, removed)
<1>1. chunks = ChunksOf(job, sources, position) /\ vectors = Vectors(chunks, Len(chunks))
  BY DEF DocumentAtHand
<1>2. New = NewAt(job, sources, position)
  BY <1>1 DEF New, NewAt
<1>3. Stale = StaleAt(job, sources, index, position)
  BY <1>2 DEF Stale, Under, StaleAt
<1>4. \A uploaded, removed :
          Written(uploaded, removed) = IndexAfter(index, NewAt(job, sources, position), uploaded, removed)
  BY <1>2 DEF Written, IndexAfter
<1> QED
  BY <1>2, <1>3, <1>4

LEMMA CompleteFollows ==
    ASSUME IndexInv, Complete
    PROVE  IndexInv'
<1> DEFINE new == NewAt(job, sources, position)
           stale == StaleAt(job, sources, index, position)
<1>1. /\ stage = "replace" /\ InLoop /\ DocumentAtHand
      /\ index' = Written(DOMAIN New, Stale)
      /\ stage' = "chunk" /\ ending' = ending /\ position' = position + 1
      /\ UNCHANGED <<job, sources, chunks, vectors, exists>>
  BY DEF Complete, NextDocument, Enter, IndexInv, Looping
<1>2. IsCorpus(sources) /\ position \in 1 .. Len(sources) /\ OthersAsFound(job, sources, index, position - 1)
      /\ Replaced(job, sources, index, position - 1) /\ OwnVectors(job, index)
  BY <1>1 DEF InLoop, Loop, DocumentAtHand, IndexInv
<1>3. index' = IndexAfter(index, new, DOMAIN new, stale)
  BY <1>1, NewIs
<1>4. DOMAIN new \subseteq DOMAIN new /\ stale \subseteq stale
  OBVIOUS
<1>5. OthersAsFound(job, sources, index', position)
  BY <1>2, <1>3, <1>4, OthersFound
<1>6. Replaced(job, sources, index', position)
  BY <1>2, <1>3, LoopGoesOn
<1>7. OwnVectors(job, index')
  BY <1>2, <1>3, <1>4, OwnVectorsStay
<1>8. InLoop'
  <2>1. position' - 1 = position /\ position' \in 1 .. Len(sources) + 1
    BY <1>1, <1>2 DEF IsCorpus
  <2> HIDE DEF new, stale
  <2> QED
    BY <1>1, <1>2, <1>5, <1>6, <2>1 DEF InLoop, Loop
<1> QED
  BY <1>1, <1>7, <1>8 DEF IndexInv, Stages, Looping

LEMMA IncompleteFollows ==
    ASSUME IndexInv, Incomplete
    PROVE  IndexInv'
<1> DEFINE new == NewAt(job, sources, position)
           stale == StaleAt(job, sources, index, position)
<1>1. stage = "replace" /\ InLoop /\ DocumentAtHand /\ UNCHANGED <<job, sources, chunks, vectors, exists>>
  BY DEF Incomplete, IndexInv, Looping
<1>2. IsCorpus(sources) /\ position \in 1 .. Len(sources) /\ OthersAsFound(job, sources, index, position - 1)
      /\ Replaced(job, sources, index, position - 1) /\ OwnVectors(job, index)
  BY <1>1 DEF InLoop, Loop, DocumentAtHand, IndexInv
<1>3. PICK uploaded \in SUBSET DOMAIN New, removed \in SUBSET Stale :
          /\ removed # {} => uploaded = DOMAIN New
          /\ Stop(uploaded, removed)
  BY DEF Incomplete
<1>4. /\ index' = Written(uploaded, removed)
      /\ stage' = "over" /\ ending' = "aborted" /\ position' = position
  BY <1>3 DEF Stop, Leave
<1>5. /\ uploaded \subseteq DOMAIN new /\ removed \subseteq stale /\ (removed # {} => uploaded = DOMAIN new)
      /\ index' = IndexAfter(index, new, uploaded, removed)
  BY <1>1, <1>3, <1>4, NewIs
<1>6. OwnVectors(job, index')
  BY <1>2, <1>5, OwnVectorsStay
<1>7. job.schema # "recreate" => Left(job, sources, index', position)
  BY <1>2, <1>5, LoopStops
<1> HIDE DEF new, stale
<1>8. AtEnd'
  BY <1>1, <1>4, <1>7 DEF AtEnd
<1> QED
  BY <1>1, <1>4, <1>6, <1>8 DEF IndexInv, Stages, Looping

LEMMA FinishFollows ==
    ASSUME IndexInv, Finish
    PROVE  IndexInv'
<1>1. /\ stage = "chunk" /\ position > Len(sources) /\ InLoop /\ stage' = "over" /\ ending' = "indexed"
      /\ UNCHANGED <<job, sources, position, chunks, vectors, exists, index>>
  BY DEF Finish, Leave, Locals, IndexInv, Looping
<1>2. IsCorpus(sources) /\ position - 1 = Len(sources)
  BY <1>1 DEF InLoop, IsCorpus
<1>3. Holds(job, sources, index)
  BY <1>1, <1>2, LoopHolds DEF InLoop, Loop
<1>4. job.schema # "recreate" => Left(job, sources, index, position)
  BY <1>1, RunLeaves
<1>5. AtEnd'
  BY <1>1, <1>3, <1>4 DEF AtEnd
<1> QED
  BY <1>1, <1>5 DEF IndexInv, Stages, Looping

LEMMA SeedFollows ==
    ASSUME IndexInv, SeedIndex
    PROVE  IndexInv'
<1>1. stage = "seed" /\ job.kind = "seed" /\ stage' = "over" /\ UNCHANGED <<job, index>>
  BY DEF SeedIndex, Leave, IndexInv
<1> QED
  BY <1>1 DEF IndexInv, Stages, Looping

LEMMA IndexStep ==
    ASSUME IndexInv, [IngestionNext]_ingestionVars
    PROVE  IndexInv'
<1>1. CASE Guard \/ DeleteIndex \/ CreateIndex \/ Load
  BY <1>1, GuardFollows, DeleteFollows, CreateFollows, LoadFollows
<1>2. CASE Chunk \/ Embed \/ Embedded
  BY <1>2, ChunkFollows, EmbedFollows, EmbeddedFollows
<1>3. CASE EmbedRaises \/ NoIndex
  <2>1. stage \in {"embed", "replace"} /\ Leave("aborted") /\ UNCHANGED <<job, sources, position, index>>
    BY <1>3 DEF EmbedRaises, NoIndex, Locals
  <2> QED
    BY <2>1, StoppedHere
<1>4. CASE Complete \/ Incomplete \/ Finish \/ SeedIndex
  BY <1>4, CompleteFollows, IncompleteFollows, FinishFollows, SeedFollows
<1>5. CASE UNCHANGED ingestionVars
  BY <1>5 DEF ingestionVars, IndexInv, AtStart, InLoop, DocumentAtHand, AtEnd
<1> QED
  BY <1>1, <1>2, <1>3, <1>4, <1>5 DEF IngestionNext

LEMMA IndexStarts == IngestionInit => IndexInv
<1> SUFFICES ASSUME IngestionInit PROVE IndexInv
  OBVIOUS
<1>1. /\ job \in IngestionJobs /\ index = job.index /\ ending = "running" /\ sources = <<>> /\ position = 1
      /\ stage = IF job.kind = "seed" THEN "seed" ELSE "guard"
  BY DEF IngestionInit
<1>2. OwnVectors(job, index)
  BY <1>1 DEF OwnVectors
<1>3. AtStart
  BY <1>1 DEF AtStart
<1> QED
  BY <1>1, <1>2, <1>3 DEF IndexInv, Stages, Looping

(* A run that says it indexed the corpus did; one that stops, wherever it  *)
(* does, leaves whole documents; and none leaves an entry of its own with  *)
(* the vector of another text (tools/index_corpus.py _index;               *)
(* services/embeddings.py embed).                                          *)
THEOREM IndexFollows == IngestionSpec => []IndexFollowsTheCorpus
<1>1. IndexInv /\ [IngestionNext]_ingestionVars => IndexInv'
  BY IndexStep
<1> QED
  BY <1>1, IndexStarts, RunFollows, PTL DEF IngestionSpec

-----------------------------------------------------------------------------
(* Chunks among the chunks of other documents.                             *)

\* The chunks q are row number d of a longer list, the n-th of them at k where
\* col[k] = n.
IsRow(q, pieces, M, row, col, d) ==
    /\ RowByRow(M, row, col)
    /\ DOMAIN q = {k \in 1 .. M : row[k] = d}
    /\ Len(pieces) \in Nat /\ DOMAIN pieces = 1 .. Len(pieces)
    /\ \A k \in DOMAIN q : col[k] \in 1 .. Len(pieces) /\ q[k] = pieces[col[k]]
    /\ \A i \in 1 .. Len(pieces) : \E k \in DOMAIN q : col[k] = i

\* Prose that is kept by a list of chunks is kept by them as a row.
LEMMA KeptInRow ==
    ASSUME NEW document, NEW limits, NEW pieces, ProseIsKept(document, limits, pieces),
           NEW M, NEW row, NEW col, NEW d, NEW q, IsRow(q, pieces, M, row, col, d)
    PROVE  ProseIsKept(document, limits, q)
<1> DEFINE body == document.body
           K == DOMAIN q
           L == Len(pieces)
           Ink(i) == InkOf(body, pieces[i].content)
           ink == [i \in DOMAIN pieces |-> InkOf(body, pieces[i].content)]
           own == [k \in DOMAIN q |-> InkOf(body, q[k].content)]
<1>1. /\ K = {k \in 1 .. M : row[k] = d} /\ RowByRow(M, row, col)
      /\ DOMAIN q = K /\ DOMAIN pieces = 1 .. L /\ L \in Nat
      /\ \A k \in K : col[k] \in 1 .. L /\ q[k] = pieces[col[k]]
      /\ \A i \in 1 .. L : \E k \in K : col[k] = i
  BY DEF IsRow
<1>2. \A k \in K : own[k] = ink[col[k]]
  BY <1>1
<1>3. /\ UNION {ink[n] : n \in DOMAIN pieces} = InkedProse(body)
      /\ \A n \in DOMAIN pieces :
            /\ PathWidth(document, pieces[n].path) + EmbeddingJoinWidth + Len(pieces[n].content) <= limits.max
            /\ ink[n] # {} /\ AsWritten(body, pieces[n].content)
            /\ \A c \in ink[n] : ToSet(pieces[n].path) = Enclosing(body, c[1])
            /\ \A i, j \in DOMAIN pieces[n].path : i < j => pieces[n].path[i] < pieces[n].path[j]
            /\ \A m \in DOMAIN pieces :
                   n < m => Cardinality(ink[n] \cap ink[m]) <= IF m = n + 1 THEN limits.overlap ELSE 0
  BY DEF ProseIsKept
<1> HIDE DEF ink, own, body, K, L
<1>4. ASSUME NEW j \in K, NEW k \in K
      PROVE  /\ j \in 1 .. M /\ k \in 1 .. M /\ M \in Nat
             /\ row[j] = row[k] /\ row[j] \in Nat /\ col[j] \in Nat /\ col[k] \in Nat
             /\ j < k => col[j] < col[k]
  <2>1. j \in 1 .. M /\ k \in 1 .. M /\ row[j] = d /\ row[k] = d
    BY <1>1
  <2>2. /\ M \in Nat /\ row[j] \in Nat /\ col[j] \in Nat /\ col[k] \in Nat
        /\ j < k => row[j] < row[k] \/ (row[j] = row[k] /\ col[j] < col[k])
    BY <1>1, <2>1 DEF RowByRow
  <2> QED
    BY <2>1, <2>2
<1>5. ASSUME NEW j \in K, NEW k \in K, j < k
      PROVE  k = j + 1 <=> col[k] = col[j] + 1
  <2>1. ASSUME col[k] = col[j] + 1
        PROVE  k = j + 1
    BY <1>1, <1>4, <1>5, <2>1, NextInRow
  <2>2. ASSUME k = j + 1
        PROVE  col[k] = col[j] + 1
    <3>1. col[j] < col[k] /\ col[j] \in 1 .. L /\ col[k] \in 1 .. L
      BY <1>1, <1>4, <1>5
    <3>2. col[j] + 1 \in 1 .. L
      BY <1>1, <3>1
    <3>3. PICK i \in K : col[i] = col[j] + 1
      BY <1>1, <3>2
    <3>4. i < j => col[i] < col[j]
      BY <1>4
    <3>5. k < i => col[k] < col[i]
      BY <1>4
    <3>6. i \in Nat /\ j \in Nat
      BY <1>4
    <3>7. ~(i < j) /\ i # j
      BY <3>1, <3>3, <3>4
    <3>8. ~(k < i)
      BY <3>1, <3>3, <3>5
    <3>9. i = k
      BY <2>2, <3>6, <3>7, <3>8
    <3> QED
      BY <3>3, <3>9
  <2> QED
    BY <2>1, <2>2
<1>6. UNION {own[k] : k \in DOMAIN q} = InkedProse(body)
  <2>1. \A k \in K : own[k] \in {ink[n] : n \in DOMAIN pieces}
    BY <1>1, <1>2
  <2>2. \A n \in DOMAIN pieces : ink[n] \in {own[k] : k \in DOMAIN q}
    BY <1>1, <1>2
  <2>3. {own[k] : k \in DOMAIN q} = {ink[n] : n \in DOMAIN pieces}
    <3>1. ASSUME NEW s \in {own[k] : k \in DOMAIN q}
          PROVE  s \in {ink[n] : n \in DOMAIN pieces}
      <4>1. PICK k \in DOMAIN q : s = own[k]
        OBVIOUS
      <4> QED
        BY <1>1, <2>1, <4>1
    <3>2. ASSUME NEW s \in {ink[n] : n \in DOMAIN pieces}
          PROVE  s \in {own[k] : k \in DOMAIN q}
      <4>1. PICK n \in DOMAIN pieces : s = ink[n]
        OBVIOUS
      <4> QED
        BY <2>2, <4>1
    <3> QED
      BY <3>1, <3>2
  <2> QED
    BY <1>3, <2>3
<1>7. ASSUME NEW j \in DOMAIN q
      PROVE  /\ PathWidth(document, q[j].path) + EmbeddingJoinWidth + Len(q[j].content) <= limits.max
             /\ own[j] # {} /\ AsWritten(body, q[j].content)
             /\ \A c \in own[j] : ToSet(q[j].path) = Enclosing(body, c[1])
             /\ \A a, b \in DOMAIN q[j].path : a < b => q[j].path[a] < q[j].path[b]
             /\ \A k \in DOMAIN q :
                    j < k => Cardinality(own[j] \cap own[k]) <= IF k = j + 1 THEN limits.overlap ELSE 0
  <2>1. /\ j \in K /\ col[j] \in DOMAIN pieces /\ q[j] = pieces[col[j]] /\ own[j] = ink[col[j]]
    BY <1>1, <1>2
  <2>2. ASSUME NEW k \in DOMAIN q, j < k
        PROVE  Cardinality(own[j] \cap own[k]) <= IF k = j + 1 THEN limits.overlap ELSE 0
    <3>1. k \in K /\ col[k] \in DOMAIN pieces /\ own[k] = ink[col[k]]
      BY <1>1, <1>2
    <3>2. col[j] < col[k]
      BY <1>4, <2>1, <2>2, <3>1
    <3>3. Cardinality(ink[col[j]] \cap ink[col[k]]) <= IF col[k] = col[j] + 1 THEN limits.overlap ELSE 0
      BY <1>3, <2>1, <3>1, <3>2
    <3>4. k = j + 1 <=> col[k] = col[j] + 1
      BY <1>5, <2>1, <2>2, <3>1
    <3> QED
      BY <2>1, <3>1, <3>3, <3>4
  <2> QED
    BY <1>3, <2>1, <2>2
<1> QED
  BY <1>6, <1>7 DEF ProseIsKept, own, body, K

\* Documents of a corpus that can be chunked within these limits, and no two of
\* them under one key.
AreChunked(documents, limits) ==
    /\ IsCorpus(documents)
    /\ \A n \in 1 .. Len(documents) : IsDocument(documents[n]) /\ ~ChunkingFails(documents[n], limits)
    /\ \A m, n \in 1 .. Len(documents) : Parent(documents[m]) = Parent(documents[n]) => m = n

ChunksOfAll(documents, limits) == [n \in DOMAIN documents |-> ChunkMarkdown(documents[n], limits)]
ChunksUnder(all, parent) == Restrict(all, {k \in DOMAIN all : all[k].parent = parent})

\* Put one after the other the chunks of several documents keep what each keeps.
LEMMA KeptAmongOthers ==
    ASSUME NEW documents, NEW limits \in [max : Int, overlap : Int], AreChunked(documents, limits),
           NEW d \in DOMAIN documents
    PROVE  ProseIsKept(documents[d], limits,
                       ChunksUnder(FlattenSeq(ChunksOfAll(documents, limits)), Parent(documents[d])))
<1> DEFINE N == Len(documents)
           rows == ChunksOfAll(documents, limits)
           Values == UNION {{rows[n][i] : i \in DOMAIN rows[n]} : n \in DOMAIN documents}
           all == FlattenSeq(rows)
           M == Len(all)
           pieces == rows[d]
           K == {k \in DOMAIN all : all[k].parent = Parent(documents[d])}
           q == ChunksUnder(all, Parent(documents[d]))
<1>1. /\ N \in Nat /\ DOMAIN documents = 1 .. N
      /\ \A n \in 1 .. N : IsDocument(documents[n]) /\ ~ChunkingFails(documents[n], limits)
      /\ \A m, n \in 1 .. N : Parent(documents[m]) = Parent(documents[n]) => m = n
  BY DEF AreChunked, IsCorpus
<1>2. DOMAIN rows = 1 .. N /\ \A n \in 1 .. N : rows[n] = ChunkMarkdown(documents[n], limits)
  BY <1>1 DEF ChunksOfAll
<1> HIDE DEF rows, N
<1>3. ASSUME NEW n \in 1 .. N
      PROVE  /\ Len(rows[n]) \in Nat /\ DOMAIN rows[n] = 1 .. Len(rows[n])
             /\ \A i \in 1 .. Len(rows[n]) : rows[n][i].parent = Parent(documents[n])
             /\ rows[n] \in Seq(Values)
  <2>1. IsBody(documents[n].body)
    BY <1>1 DEF IsDocument
  <2>2. /\ Len(rows[n]) \in Nat /\ DOMAIN rows[n] = 1 .. Len(rows[n])
        /\ \A i \in 1 .. Len(rows[n]) : rows[n][i].parent = Parent(documents[n])
    BY <1>2, <2>1, ChunksNumbered
  <2>3. rows[n] = [i \in DOMAIN rows[n] |-> rows[n][i]]
    BY <1>2 DEF ChunkMarkdown
  <2>4. \A i \in DOMAIN rows[n] : rows[n][i] \in Values
    BY <1>1
  <2> HIDE DEF Values
  <2>5. rows[n] \in [1 .. Len(rows[n]) -> Values]
    BY <2>2, <2>3, <2>4
  <2>6. rows[n] \in Seq(Values)
    BY <2>2, <2>5, MapIsSeq
  <2> QED
    BY <2>2, <2>6
<1> HIDE DEF Values
<1>4. rows \in Seq(Seq(Values)) /\ Len(rows) = N
  <2>1. rows = [n \in 1 .. N |-> rows[n]]
    BY <1>1, <1>2 DEF rows, ChunksOfAll
  <2>2. rows \in [1 .. N -> Seq(Values)]
    BY <1>3, <2>1
  <2>3. N \in Nat
    BY <1>1
  <2>4. rows \in Seq(Seq(Values))
    BY <2>2, <2>3, MapIsSeq
  <2> QED
    BY <1>2, <2>3, <2>4, LenProperties
<1>5. all \in Seq(Values)
  BY <1>4, FlattenType
<1>6. PICK row, col : Spreads(all, rows, N, row, col)
  BY <1>4, FlattenIndex
<1> HIDE DEF all
<1>7. M \in Nat /\ DOMAIN all = 1 .. M
  BY <1>5, Listed
<1>8. /\ \A k \in 1 .. M : row[k] \in 1 .. N /\ col[k] \in Nat
      /\ \A k \in 1 .. M : col[k] \in 1 .. Len(rows[row[k]]) /\ all[k] = rows[row[k]][col[k]]
      /\ \A j, k \in 1 .. M : j < k => row[j] < row[k] \/ (row[j] = row[k] /\ col[j] < col[k])
      /\ \A m \in 1 .. N : \A i \in 1 .. Len(rows[m]) : \E k \in 1 .. M : row[k] = m /\ col[k] = i
  BY <1>6 DEF Spreads
<1> HIDE DEF M
<1>9. \A k \in 1 .. M : all[k].parent = Parent(documents[row[k]])
  BY <1>3, <1>8
<1>10. d \in 1 .. N
  BY <1>1
<1>11. K = {k \in 1 .. M : row[k] = d}
  <2>1. \A k \in 1 .. M : all[k].parent = Parent(documents[d]) <=> row[k] = d
    BY <1>1, <1>8, <1>9, <1>10
  <2> QED
    BY <1>7, <2>1
<1>12. DOMAIN q = K /\ \A k \in K : q[k] = all[k]
  BY DEF ChunksUnder, Restrict
<1> HIDE DEF K, q
<1>13. RowByRow(M, row, col)
  <2>1. \A k \in 1 .. M : row[k] \in Nat /\ col[k] \in Nat
    BY <1>1, <1>8
  <2> QED
    BY <1>7, <1>8, <2>1 DEF RowByRow
<1>14. Len(pieces) \in Nat /\ DOMAIN pieces = 1 .. Len(pieces)
  BY <1>3, <1>10
<1>15. ProseIsKept(documents[d], limits, pieces)
  BY <1>1, <1>2, <1>10, ChunkingKeeps
<1>16. IsRow(q, pieces, M, row, col, d)
  <2>1. \A k \in K : col[k] \in 1 .. Len(pieces) /\ q[k] = pieces[col[k]]
    BY <1>8, <1>11, <1>12
  <2>2. \A i \in 1 .. Len(pieces) : \E k \in K : col[k] = i
    BY <1>8, <1>10, <1>11
  <2> HIDE DEF pieces
  <2> QED
    BY <1>11, <1>12, <1>13, <1>14, <2>1, <2>2 DEF IsRow
<1> HIDE DEF pieces
<1>17. ProseIsKept(documents[d], limits, q)
  BY <1>15, <1>16, KeptInRow
<1> QED
  BY <1>17 DEF q, all, rows

-----------------------------------------------------------------------------
(* The prose.  A document is at hand with its chunks only after it could   *)
(* be chunked; the seeding has no documents before its one step, and has   *)
(* those and their chunks after it.                                        *)

AreDocuments(src) == \A n \in DOMAIN src : IsDocument(src[n])
Seeded ==
    \A n \in DOMAIN sources : ProseIsKept(sources[n], job.limits, ChunksUnder(chunks, Parent(sources[n])))

ProseInv ==
    /\ IndexInv
    /\ job.kind = "seed" => stage \in {"seed", "over"} /\ Seeded
    /\ stage = "seed" => sources = <<>>
    /\ stage \in Looping => AreDocuments(sources)
    /\ stage = "embed" => ~ChunkingFails(sources[position], job.limits)

LEMMA ProseFollows == ProseInv => ChunksKeepTheProse
<1> SUFFICES ASSUME ProseInv PROVE ChunksKeepTheProse
  OBVIOUS
<1>1. ASSUME stage = "embed"
      PROVE  ProseIsKept(sources[position], job.limits, chunks)
  <2>1. IndexInv /\ stage \in Looping
    BY <1>1 DEF ProseInv, Looping
  <2>2. IsCorpus(sources) /\ position \in 1 .. Len(sources) /\ chunks = ChunkMarkdown(sources[position], job.limits)
    BY <1>1, <2>1 DEF IndexInv, InLoop, DocumentAtHand, ChunksOf
  <2>3. IsDocument(sources[position]) /\ ~ChunkingFails(sources[position], job.limits)
    BY <1>1, <2>1, <2>2 DEF ProseInv, AreDocuments, IsCorpus
  <2>4. job.limits \in [max : Int, overlap : Int]
    BY <2>1, IngestionAssumption DEF IndexInv
  <2> QED
    BY <2>2, <2>3, <2>4, ChunkingKeeps
<1>2. job.kind = "seed" => Seeded
  BY DEF ProseInv
<1> QED
  BY <1>1, <1>2 DEF ChunksKeepTheProse, Seeded, ChunksUnder

\* What is loaded can be chunked, and two files never become one document.
LEMMA LoadedDocuments ==
    ASSUME job \in IngestionJobs, NEW tenant
    PROVE  AreDocuments(LoadDocuments(tenant))
<1> DEFINE docs == LoadDocuments(tenant)
           loaded == job.files
<1>1. \A file \in ToSet(loaded) :
          /\ file.titleWidth \in Nat /\ file.body \in Seq(ToSet(file.body))
          /\ \A line \in ToSet(file.body) : line.kind = "heading" => line.level \in Nat /\ line.width \in Nat
  BY IngestionAssumption
<1>2. IsCorpus(docs) /\ docs = [n \in DOMAIN loaded |-> SourceDocument(loaded[n], tenant)]
  BY LoadedCorpus DEF LoadDocuments
<1> HIDE DEF docs, loaded
<1>3. ASSUME NEW n \in DOMAIN docs
      PROVE  IsDocument(docs[n])
  <2>1. n \in DOMAIN loaded /\ IsBody(docs[n].body)
    BY <1>2 DEF IsCorpus
  <2>2. docs[n].body = loaded[n].body /\ docs[n].titleWidth = loaded[n].titleWidth
    BY <1>2, <2>1 DEF SourceDocument
  <2>3. loaded[n] \in ToSet(loaded)
    BY <2>1 DEF ToSet
  <2>4. \A l \in DOMAIN loaded[n].body : loaded[n].body[l] \in ToSet(loaded[n].body)
    BY DEF ToSet
  <2> QED
    BY <1>1, <2>1, <2>2, <2>3, <2>4 DEF IsDocument, Marked
<1> QED
  BY <1>3 DEF AreDocuments, docs

LEMMA LoadedApart ==
    ASSUME job \in IngestionJobs, ~LoadFails, NEW m \in DOMAIN job.files, NEW n \in DOMAIN job.files,
           Parent(LoadDocuments(NoTenant)[m]) = Parent(LoadDocuments(NoTenant)[n])
    PROVE  m = n
<1> DEFINE loaded == job.files
           docs == LoadDocuments(NoTenant)
<1>1. \A i \in DOMAIN loaded : loaded[i].tenant_id = loaded[i].dir /\ loaded[i].doc_id = loaded[i].stem
  BY DEF LoadFails, FileIsWellFormed
<1>2. \A i \in DOMAIN loaded : docs[i].tenant = loaded[i].tenant_id /\ docs[i].doc_id = loaded[i].doc_id
  BY DEF LoadDocuments, SourceDocument
<1>3. docs[m].tenant = docs[n].tenant /\ docs[m].doc_id = docs[n].doc_id
  BY DEF Parent
<1>4. loaded[m].dir = loaded[n].dir /\ loaded[m].stem = loaded[n].stem
  BY <1>1, <1>2, <1>3
<1> QED
  BY <1>4, IngestionAssumption

LEMMA SeedKeeps ==
    ASSUME ProseInv, SeedIndex
    PROVE  ProseInv'
<1> DEFINE documents == LoadDocuments(NoTenant)
           all == FlattenSeq(ChunksOfAll(documents, job.limits))
<1>1. /\ stage = "seed" /\ stage' = "over" /\ job' = job /\ job \in IngestionJobs /\ sources = <<>>
      /\ job.limits \in [max : Int, overlap : Int]
  BY IngestionAssumption DEF SeedIndex, Leave, ProseInv, IndexInv
<1>2. IndexInv'
  BY SeedFollows DEF ProseInv
<1>3. CASE sources' = sources
  <2>1. DOMAIN sources' = {}
    BY <1>1, <1>3
  <2> QED
    BY <1>1, <1>2, <2>1 DEF ProseInv, Seeded, Looping
<1>4. CASE /\ ~LoadFails /\ ~\E n \in DOMAIN documents : ChunkingFails(documents[n], job.limits)
           /\ sources' = documents /\ chunks' = all
  <2>1. IsCorpus(documents) /\ AreDocuments(documents) /\ DOMAIN documents = DOMAIN job.files
    BY <1>1, LoadedCorpus, LoadedDocuments DEF LoadDocuments
  <2>2. AreChunked(documents, job.limits)
    <3>1. \A m, n \in DOMAIN documents : Parent(documents[m]) = Parent(documents[n]) => m = n
      BY <1>1, <1>4, <2>1, LoadedApart
    <3> HIDE DEF documents
    <3> QED
      BY <1>4, <2>1, <3>1 DEF AreChunked, IsCorpus, AreDocuments
  <2>3. \A n \in DOMAIN documents : ProseIsKept(documents[n], job.limits, ChunksUnder(all, Parent(documents[n])))
    <3> HIDE DEF documents
    <3> QED
      BY <1>1, <2>2, KeptAmongOthers
  <2>4. Seeded'
    <3> HIDE DEF documents, all
    <3> QED
      BY <1>1, <1>4, <2>3 DEF Seeded
  <2> QED
    BY <1>1, <1>2, <2>4 DEF ProseInv, Looping
<1> QED
  BY <1>3, <1>4 DEF SeedIndex, ChunksOfAll

LEMMA ProseStep ==
    ASSUME ProseInv, [IngestionNext]_ingestionVars
    PROVE  ProseInv'
<1>1. IndexInv'
  BY IndexStep DEF ProseInv
<1>2. CASE SeedIndex
  BY <1>2, SeedKeeps
<1>3. CASE Load
  <2>1. stage = "load" /\ job' = job /\ job \in IngestionJobs /\ job.kind # "seed"
    BY <1>3 DEF Load, ProseInv, IndexInv
  <2>2. stage' = "over" \/ (stage' = "chunk" /\ sources' = LoadDocuments(job.tenant))
    BY <1>3 DEF Load, Leave, Enter
  <2> QED
    BY <1>1, <2>1, <2>2, LoadedDocuments DEF ProseInv, Looping
<1>4. CASE Chunk
  <2>1. /\ stage = "chunk" /\ job.kind # "seed" /\ AreDocuments(sources)
        /\ UNCHANGED <<job, sources, position>>
    BY <1>4 DEF Chunk, ProseInv, Looping
  <2>2. stage' = "over" \/ (stage' = "embed" /\ ~ChunkingFails(sources[position], job.limits))
    BY <1>4 DEF Chunk, Leave, Enter
  <2> QED
    BY <1>1, <2>1, <2>2 DEF ProseInv, Looping
<1>5. CASE Guard \/ DeleteIndex \/ CreateIndex
  <2>1. job.kind # "seed" /\ job' = job
    BY <1>5 DEF Guard, DeleteIndex, CreateIndex, ProseInv
  <2>2. stage' \in {"delete", "create", "load", "over"}
    BY <1>5 DEF Guard, DeleteIndex, CreateIndex, Leave, Enter
  <2> QED
    BY <1>1, <2>1, <2>2 DEF ProseInv, Looping
<1>6. CASE Embed
  <2>1. /\ stage = "embed" /\ job.kind # "seed" /\ AreDocuments(sources)
        /\ ~ChunkingFails(sources[position], job.limits) /\ UNCHANGED <<job, sources, position>>
    BY <1>6 DEF Embed, ProseInv, Looping
  <2>2. stage' \in {"over", "embed"}
    BY <1>6, <2>1 DEF Embed, Leave
  <2> QED
    BY <1>1, <2>1, <2>2 DEF ProseInv, Looping
<1>7. CASE EmbedRaises \/ Embedded \/ Complete \/ Incomplete \/ NoIndex \/ Finish
  <2>1. /\ stage \in Looping /\ job.kind # "seed" /\ AreDocuments(sources) /\ UNCHANGED <<job, sources>>
    BY <1>7 DEF EmbedRaises, Embedded, Complete, Incomplete, NoIndex, Finish, Locals, ProseInv, Looping
  <2>2. stage' \in {"over", "replace", "chunk"}
    BY <1>7 DEF EmbedRaises, Embedded, Complete, Incomplete, NoIndex, Finish, Stop, NextDocument, Leave, Enter
  <2> QED
    BY <1>1, <2>1, <2>2 DEF ProseInv, Looping
<1>8. CASE UNCHANGED ingestionVars
  BY <1>1, <1>8 DEF ingestionVars, ProseInv, Seeded
<1> QED
  BY <1>2, <1>3, <1>4, <1>5, <1>6, <1>7, <1>8 DEF IngestionNext

(* What is chunked in a run keeps its prose: every document of any corpus, *)
(* under any limits, the one at hand of tools/index_corpus.py and all of   *)
(* services/agent_tools.py _seed_index_documents, whose chunks stand among *)
(* those of the other documents.                                           *)
THEOREM ProseIsKeptThroughout == IngestionSpec => []ChunksKeepTheProse
<1>1. IngestionInit => ProseInv
  <2> SUFFICES ASSUME IngestionInit PROVE ProseInv
    OBVIOUS
  <2>1. /\ job \in IngestionJobs /\ sources = <<>> /\ DOMAIN sources = {}
        /\ stage = IF job.kind = "seed" THEN "seed" ELSE "guard"
    BY DEF IngestionInit
  <2> QED
    BY <2>1, IndexStarts DEF ProseInv, Seeded, Looping
<1>2. ProseInv /\ [IngestionNext]_ingestionVars => ProseInv'
  BY ProseStep
<1> QED
  BY <1>1, <1>2, ProseFollows, PTL DEF IngestionSpec
==============================================================================
