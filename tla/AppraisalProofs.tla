---------------------------- MODULE AppraisalProofs ----------------------------
(***************************************************************************)
(* Proofs about the deciding stages (Appraisal), for any requests, pages,  *)
(* official pages, benchmark references and days.                          *)
(***************************************************************************)
EXTENDS Appraisal, RankingProofs

-------------------------------------------------------------------------------
(***************************************************************************)
(* Sums.  SumFunction takes the indices away one by one; what holds of no  *)
(* indices and is kept as one is put back holds of all.                    *)
(***************************************************************************)
Chosen(s) == CHOOSE x \in s : TRUE

Iterates(fun, it, S) ==
    it = [s \in SUBSET S |-> IF s = {} THEN 0 ELSE fun[Chosen(s)] + it[s \ {Chosen(s)}]]

\* What holds of no index, and of some when it holds of all but a chosen one, holds of all.
LEMMA ChosenInduction ==
    ASSUME NEW S, IsFiniteSet(S), NEW D, {} \in D,
           \A s \in SUBSET S : s # {} /\ s \ {Chosen(s)} \in D => s \in D
    PROVE  \A s \in SUBSET S : s \in D
<1> DEFINE Bad == {s \in SUBSET S : s \notin D}
<1> SUFFICES ASSUME Bad # {} PROVE FALSE
  OBVIOUS
<1>1. Bad \subseteq FiniteSubsetsOf(S)
  BY FS_Subset DEF FiniteSubsetsOf
<1>2. PICK s \in Bad : \A u \in Bad : ~(<<u, s>> \in StrictSubsetOrdering(S))
  <2> HIDE DEF Bad
  <2> QED BY <1>1, FS_StrictSubsetOrderingWellFounded, WFMin
<1>3. s \in SUBSET S /\ s # {} /\ s \notin D
  OBVIOUS
<1>4. Chosen(s) \in s
  BY <1>3 DEF Chosen
<1>5. s \ {Chosen(s)} \in Bad
  BY <1>3
<1>6. <<s \ {Chosen(s)}, s>> \in StrictSubsetOrdering(S)
  BY <1>3, <1>4 DEF StrictSubsetOrdering
<1> QED BY <1>2, <1>5, <1>6

\* The sum over the indices exists, whatever the function is.
LEMMA SumIs ==
    ASSUME NEW fun, IsFiniteSet(DOMAIN fun)
    PROVE  \E it : Iterates(fun, it, DOMAIN fun) /\ SumFunction(fun) = it[DOMAIN fun]
<1> DEFINE S == DOMAIN fun
           N == Cardinality(S)
           UpToSize(k) == {s \in SUBSET S : Cardinality(s) <= k}
           Sums(f, k) == f = [s \in UpToSize(k) |->
                                IF s = {} THEN 0 ELSE fun[Chosen(s)] + f[s \ {Chosen(s)}]]
           D == {k \in 0 .. N : \E f : Sums(f, k)}
<1>1. N \in Nat
  BY FS_CardinalityType
<1>2. ASSUME NEW s \in SUBSET S
      PROVE  /\ Cardinality(s) \in Nat /\ Cardinality(s) <= N
             /\ Cardinality(s) = 0 <=> s = {}
             /\ s # {} => Cardinality(s \ {Chosen(s)}) = Cardinality(s) - 1
  <2>1. IsFiniteSet(s) /\ Cardinality(s) <= N
    BY FS_Subset, FS_CardinalityType
  <2>2. Cardinality(s) \in Nat /\ (Cardinality(s) = 0 <=> s = {})
    BY <2>1, FS_CardinalityType, FS_EmptySet
  <2>3. ASSUME s # {} PROVE Cardinality(s \ {Chosen(s)}) = Cardinality(s) - 1
    <3>1. Chosen(s) \in s
      BY <2>3 DEF Chosen
    <3> QED BY <2>1, <3>1, FS_RemoveElement
  <2> QED BY <2>1, <2>2, <2>3
<1> HIDE DEF N
<1>3. 0 \in D
  <2> DEFINE f == [s \in UpToSize(0) |-> 0]
  <2>1. ASSUME NEW s \in UpToSize(0) PROVE s = {}
    <3>1. Cardinality(s) \in Nat /\ Cardinality(s) <= 0 /\ (Cardinality(s) = 0 <=> s = {})
      BY <1>2
    <3> HIDE DEF UpToSize
    <3> QED BY <3>1
  <2>2. f = [s \in UpToSize(0) |-> IF s = {} THEN 0 ELSE fun[Chosen(s)] + f[s \ {Chosen(s)}]]
    <3> HIDE DEF UpToSize
    <3> QED BY <2>1
  <2>3. Sums(f, 0)
    BY <2>2
  <2> HIDE DEF f, Sums
  <2> QED BY <1>1, <2>3
<1>4. ASSUME NEW k \in 1 .. N, k - 1 \in D PROVE k \in D
  <2>1. PICK f : Sums(f, k - 1)
    BY <1>4
  <2> DEFINE g == [s \in UpToSize(k) |->
                     IF s = {} THEN 0 ELSE fun[Chosen(s)] + f[s \ {Chosen(s)}]]
  <2>2. ASSUME NEW s \in UpToSize(k), s # {}
        PROVE  s \ {Chosen(s)} \in UpToSize(k - 1) /\ s \ {Chosen(s)} \in UpToSize(k)
    BY <1>2, <2>2
  <2>3. ASSUME NEW s \in UpToSize(k - 1)
        PROVE  f[s] = IF s = {} THEN 0 ELSE fun[Chosen(s)] + f[s \ {Chosen(s)}]
    <3> HIDE DEF UpToSize
    <3> QED BY <2>1
  <2>4. ASSUME NEW s \in UpToSize(k)
        PROVE  g[s] = IF s = {} THEN 0 ELSE fun[Chosen(s)] + f[s \ {Chosen(s)}]
    <3> HIDE DEF UpToSize
    <3> QED OBVIOUS
  <2>5. ASSUME NEW s \in UpToSize(k), s # {} PROVE g[s \ {Chosen(s)}] = f[s \ {Chosen(s)}]
    <3> DEFINE t == s \ {Chosen(s)}
    <3>1. t \in UpToSize(k - 1) /\ t \in UpToSize(k)
      BY <2>2, <2>5
    <3> HIDE DEF t, g, UpToSize
    <3>2. g[t] = f[t]
      BY <2>3, <2>4, <3>1
    <3> QED BY <3>2 DEF t
  <2>6. g = [s \in UpToSize(k) |->
               IF s = {} THEN 0 ELSE fun[Chosen(s)] + g[s \ {Chosen(s)}]]
    <3>1. \A s \in UpToSize(k) : (IF s = {} THEN 0 ELSE fun[Chosen(s)] + f[s \ {Chosen(s)}])
                               = (IF s = {} THEN 0 ELSE fun[Chosen(s)] + g[s \ {Chosen(s)}])
      <4> HIDE DEF g, UpToSize
      <4> QED BY <2>5
    <3> HIDE DEF UpToSize
    <3> QED BY <3>1, Zenon
  <2>7. Sums(g, k)
    BY <2>6
  <2> HIDE DEF g, Sums
  <2> QED BY <2>7
<1>5. N \in D
  <2> HIDE DEF D
  <2> QED BY <1>1, <1>3, <1>4, UpTo
<1>6. PICK f : Sums(f, N)
  BY <1>5
<1>7. UpToSize(N) = SUBSET S
  BY <1>2
<1> DEFINE it == CHOOSE jt : jt = [s \in SUBSET S |-> IF s = {} THEN 0
                                ELSE fun[CHOOSE x \in s : TRUE] + jt[s \ {CHOOSE x \in s : TRUE}]]
<1>8. it = [s \in SUBSET S |-> IF s = {} THEN 0
                              ELSE fun[CHOOSE x \in s : TRUE] + it[s \ {CHOOSE x \in s : TRUE}]]
  <2>1. f = [s \in SUBSET S |-> IF s = {} THEN 0
                              ELSE fun[CHOOSE x \in s : TRUE] + f[s \ {CHOOSE x \in s : TRUE}]]
    BY <1>6, <1>7 DEF Chosen
  <2> QED BY <2>1
<1>9. SumFunction(fun) = it[DOMAIN fun]
  BY DEF SumFunction, SumFunctionOnSet, FoldFunctionOnSet, MapThenFoldSet
<1>10. Iterates(fun, it, DOMAIN fun)
  BY <1>8 DEF Iterates, Chosen
<1> QED BY <1>9, <1>10

\* The weights and values of a weighted average.
AreWeights(criteria, indices, values, top) ==
    /\ IsFiniteSet(indices)
    /\ \A i \in indices : /\ criteria[i].weight \in Int /\ criteria[i].weight > 0
                          /\ values[i] \in 0 .. top

\* The sum of weighted values lies between zero and the top of them all.
LEMMA WeightedSums ==
    ASSUME NEW criteria, NEW indices, NEW values, NEW top \in Nat,
           AreWeights(criteria, indices, values, top)
    PROVE  LET sum == SumFunction([i \in indices |-> criteria[i].weight * values[i]])
               weights == SumFunction([i \in indices |-> criteria[i].weight])
           IN  /\ sum \in Int /\ weights \in Int
               /\ 0 <= sum /\ sum <= top * weights
               /\ 0 <= weights
               /\ indices # {} => weights > 0
<1> DEFINE f == [i \in indices |-> criteria[i].weight * values[i]]
           g == [i \in indices |-> criteria[i].weight]
<1>1. IsFiniteSet(indices)
  BY DEF AreWeights
<1>2. DOMAIN f = indices /\ DOMAIN g = indices
  OBVIOUS
<1>3. ASSUME NEW i \in indices
      PROVE  f[i] \in Int /\ g[i] \in Int /\ 0 <= f[i] /\ f[i] <= top * g[i] /\ g[i] > 0
  <2>1. criteria[i].weight \in Int /\ criteria[i].weight > 0 /\ values[i] \in 0 .. top
    BY DEF AreWeights
  <2> DEFINE w == criteria[i].weight
             v == values[i]
  <2>2. f[i] = w * v /\ g[i] = w
    OBVIOUS
  <2>3. w \in Int /\ w > 0 /\ v \in Int /\ 0 <= v /\ v <= top
    BY <2>1
  <2> HIDE DEF w, v, f, g
  <2>4. w * v \in Int /\ 0 <= w * v /\ w * v <= top * w
    BY <2>3
  <2> QED BY <2>2, <2>3, <2>4
<1> HIDE DEF f, g
<1>4. PICK sf : Iterates(f, sf, indices) /\ SumFunction(f) = sf[indices]
  BY <1>1, <1>2, SumIs
<1>5. PICK sg : Iterates(g, sg, indices) /\ SumFunction(g) = sg[indices]
  BY <1>1, <1>2, SumIs
<1> DEFINE Bounded(s) == /\ sf[s] \in Int /\ sg[s] \in Int
                         /\ 0 <= sf[s] /\ sf[s] <= top * sg[s]
                         /\ 0 <= sg[s]
                         /\ s # {} => sg[s] > 0
           D == {s \in SUBSET indices : Bounded(s)}
<1>6. ASSUME NEW s \in SUBSET indices
      PROVE  /\ sf[s] = IF s = {} THEN 0 ELSE f[Chosen(s)] + sf[s \ {Chosen(s)}]
             /\ sg[s] = IF s = {} THEN 0 ELSE g[Chosen(s)] + sg[s \ {Chosen(s)}]
  BY <1>4, <1>5 DEF Iterates
<1>7. {} \in D
  <2>1. {} \in SUBSET indices
    OBVIOUS
  <2>2. sf[{}] = 0 /\ sg[{}] = 0
    BY <1>6, <2>1
  <2>3. Bounded({})
    BY <2>2
  <2> QED BY <2>1, <2>3
<1>8. ASSUME NEW s \in SUBSET indices, s # {}, s \ {Chosen(s)} \in D PROVE s \in D
  <2> DEFINE x == Chosen(s)
             t == s \ {x}
             a == f[x]
             b == g[x]
             c == sf[t]
             d == sg[t]
  <2>1. x \in indices
    BY <1>8 DEF Chosen
  <2>2. a \in Int /\ b \in Int /\ 0 <= a /\ a <= top * b /\ b > 0
    BY <1>3, <2>1
  <2>3. c \in Int /\ d \in Int /\ 0 <= c /\ c <= top * d /\ 0 <= d
    BY <1>8
  <2>4. sf[s] = a + c /\ sg[s] = b + d
    BY <1>6, <1>8
  <2> HIDE DEF a, b, c, d
  <2>5. a + c \in Int /\ b + d \in Int /\ 0 <= a + c /\ a + c <= top * (b + d) /\ 0 < b + d
    BY <2>2, <2>3
  <2> QED BY <2>4, <2>5
<1> HIDE DEF D
<1>9. \A s \in SUBSET indices : s \in D
  BY <1>1, <1>7, <1>8, ChosenInduction
<1>10. Bounded(indices)
  BY <1>9 DEF D
<1> QED BY <1>4, <1>5, <1>10 DEF f, g
-------------------------------------------------------------------------------
(***************************************************************************)
(* Rounded quotients.                                                      *)
(***************************************************************************)
\* What an integer quotient is.
LEMMA QuotientIs ==
    ASSUME NEW n \in Int, NEW d \in Int, d > 0
    PROVE  n \div d \in Int /\ d * (n \div d) <= n /\ n < d * (n \div d) + d
OBVIOUS

\* A quotient is at most q when the dividend is less than q + 1 times the divisor.
LEMMA QuotientAtMost ==
    ASSUME NEW n \in Int, NEW d \in Int, d > 0, NEW q \in Int, n < d * (q + 1)
    PROVE  n \div d <= q
<1>1. n \div d \in Int /\ d * (n \div d) <= n
  BY QuotientIs
<1> DEFINE r == n \div d
<1> HIDE DEF r
<1>2. r \in Int /\ d * r < d * (q + 1)
  BY <1>1 DEF r
<1>3. r < q + 1
  <2> SUFFICES ASSUME r >= q + 1 PROVE FALSE
    BY <1>2
  <2>1. d * r >= d * (q + 1)
    BY <1>2
  <2> QED BY <1>2, <2>1
<1> QED BY <1>2, <1>3 DEF r

\* ... and at least q when the dividend is at least q times the divisor.
LEMMA QuotientAtLeast ==
    ASSUME NEW n \in Int, NEW d \in Int, d > 0, NEW q \in Int, d * q <= n
    PROVE  q <= n \div d
<1>1. n \div d \in Int /\ n < d * (n \div d) + d
  BY QuotientIs
<1> DEFINE r == n \div d
<1> HIDE DEF r
<1>2. r \in Int /\ d * q < d * (r + 1)
  BY <1>1 DEF r
<1>3. q < r + 1
  <2> SUFFICES ASSUME q >= r + 1 PROVE FALSE
    BY <1>2
  <2>1. d * q >= d * (r + 1)
    BY <1>2
  <2> QED BY <1>2, <2>1
<1> QED BY <1>2, <1>3 DEF r

\* A rounded quotient lies between the bounds of the fraction.
LEMMA HalfUpBetween ==
    ASSUME NEW n \in Int, NEW d \in Int, d > 0, NEW low \in Int, NEW high \in Int,
           d * low <= n, n <= d * high
    PROVE  HalfUp(n, d) \in Int /\ low <= HalfUp(n, d) /\ HalfUp(n, d) <= high
<1>1. 2 * d \in Int /\ 2 * d > 0 /\ 2 * n + d \in Int
  OBVIOUS
<1>2. (2 * n + d) \div (2 * d) \in Int
  BY <1>1, QuotientIs
<1>3. (2 * d) * low <= 2 * n + d
  OBVIOUS
<1>4. 2 * n + d < (2 * d) * (high + 1)
  OBVIOUS
<1>5. low <= (2 * n + d) \div (2 * d)
  BY <1>1, <1>3, QuotientAtLeast
<1>6. (2 * n + d) \div (2 * d) <= high
  BY <1>1, <1>4, QuotientAtMost
<1> QED BY <1>2, <1>5, <1>6 DEF HalfUp

\* A weighted average lies between zero and the top of what is averaged.
LEMMA MeanBetween ==
    ASSUME NEW criteria, NEW indices, NEW values, NEW top \in Nat,
           AreWeights(criteria, indices, values, top), indices # {}
    PROVE  WeightedMean(criteria, indices, values) \in 0 .. top
<1> DEFINE sum == SumFunction([i \in indices |-> criteria[i].weight * values[i]])
           weights == SumFunction([i \in indices |-> criteria[i].weight])
<1>1. sum \in Int /\ weights \in Int /\ 0 <= sum /\ sum <= top * weights /\ weights > 0
  BY WeightedSums
<1>2. WeightedMean(criteria, indices, values) = HalfUp(sum, weights)
  BY DEF WeightedMean
<1> HIDE DEF sum, weights
<1>3. weights * 0 <= sum /\ sum <= weights * top /\ 0 \in Int /\ top \in Int
  BY <1>1
<1>4. HalfUp(sum, weights) \in Int /\ 0 <= HalfUp(sum, weights) /\ HalfUp(sum, weights) <= top
  BY <1>1, <1>3, HalfUpBetween
<1> QED BY <1>2, <1>4
-------------------------------------------------------------------------------
(***************************************************************************)
(* The inductive invariant: what is stored is what the stages made of the  *)
(* pages, of the day they ran on.                                          *)
(***************************************************************************)
Reviewed == phase # "new"
Rendered == phase = "report_rendered"
Scored == Rendered \/ phase = "candidates_scored"
Normalized == Scored \/ phase = "data_normalized"
Offered == Normalized \/ phase \in {"offers_collected", "evidence_cross_checked"}

Phases == {"new", "awaiting_details", "details_collected", "offers_collected",
           "evidence_cross_checked", "data_normalized", "candidates_scored", "report_rendered"}

IsRow(row) ==
    /\ row.product \in Int
    /\ row.captured \in Int
    /\ row.source \in DOMAIN SourceReliability
    /\ row.value.number \in Optional(Nat)

IsCheck(check) ==
    /\ check.status \in DOMAIN CheckConsistency
    /\ check.checkedAt \in Int

FactsOf(day) == UNION {Facts(product, RowsOf(product), day) : product \in Collected}

Candidates(day) == {Candidate(product, day) : product \in Collected}

RequestInv ==
    IF Reviewed THEN request \in Requests /\ Ready(request.criteria) ELSE request = None

PagesInv ==
    /\ pages \in PageSets \cup {{}}
    /\ offers = IF Offered THEN pages ELSE {}
    /\ \A page \in offers : Convertible(page)

\* Evidence of no later than today, or of a page, which bears any day.
IsDated(row) == row.captured <= today \/ \E page \in pages : row \in PageEvidence(page)

RowsInv ==
    /\ IsFiniteSet(rows)
    /\ \A row \in rows : IsRow(row) /\ row.product \in Collected /\ IsDated(row)
    /\ \A check \in checks : /\ IsCheck(check)
                             /\ check.product \in Collected /\ check.checkedAt <= today

FactsInv ==
    IF Normalized THEN \E day \in Days : day <= today /\ facts = FactsOf(day) ELSE facts = {}

ScoresInv ==
    IF Scored
    THEN \E day \in Days : day <= today /\ stored = Range(Scores(request, Candidates(day)))
    ELSE stored = {}

ReportInv ==
    /\ IF Rendered THEN \E day \in Days : report = Report(StableScores(stored), day)
       ELSE report = None
    /\ shown # None => Rendered

IInv ==
    /\ phase \in Phases
    /\ reference \in {{}} \cup {{r} : r \in References}
    /\ today \in Days
    /\ RequestInv
    /\ PagesInv
    /\ RowsInv
    /\ FactsInv
    /\ ScoresInv
    /\ ReportInv
    /\ WhatWasAcceptedIsNotRefused
-------------------------------------------------------------------------------
(***************************************************************************)
(* Images and unions of finitely many finite sets are finite.              *)
(***************************************************************************)
Maps(S, f, T) == \A t \in T : \E s \in S : t = f[s]
Covers(S, f, T) == \A t \in T : \E s \in S : t \in f[s]
AllFinite(S, f) == \A s \in S : IsFiniteSet(f[s])

\* The image of a finite set is finite.
LEMMA ImageIsFinite ==
    ASSUME NEW S, IsFiniteSet(S), NEW f, NEW T, Maps(S, f, T)
    PROVE  IsFiniteSet(T)
<1> DEFINE g == [s \in S |-> f[s]]
           U == {f[s] : s \in S}
<1>1. g \in [S -> U] /\ \A t \in U : \E s \in S : g[s] = t
  OBVIOUS
<1>2. IsFiniteSet(U)
  <2> HIDE DEF g, U
  <2> QED BY <1>1, Fun_IsSurj, FS_Surjection
<1>3. T \in SUBSET U
  BY DEF Maps
<1> HIDE DEF U
<1> QED BY <1>2, <1>3, FS_Subset

\* The union of a finite number of finite sets is finite.
LEMMA UnionIsFinite ==
    ASSUME NEW S, IsFiniteSet(S), NEW f, NEW T, Covers(S, f, T), AllFinite(S, f)
    PROVE  IsFiniteSet(T)
<1> DEFINE U == {f[s] : s \in S}
<1>1. Maps(S, f, U)
  BY DEF Maps
<1>2. \A V \in U : IsFiniteSet(V)
  BY DEF AllFinite
<1>3. T \in SUBSET (UNION U)
  BY DEF Covers
<1> HIDE DEF U
<1>4. IsFiniteSet(UNION U)
  BY <1>1, <1>2, ImageIsFinite, FS_UNION
<1> QED BY <1>3, <1>4, FS_Subset
-------------------------------------------------------------------------------
(***************************************************************************)
(* Evidence: what the pages, the benchmark reference and the official      *)
(* pages say is a finite number of rows with the fields they should have.  *)
(***************************************************************************)
IsPage(page) == page \in PageRecord /\ IsFiniteSet(page.specs)
IsOfficial(official) == official \in OfficialRecord /\ IsFiniteSet(official.specs)
IsReference(r) == r \in ReferenceRecord /\ IsFiniteSet(r.entries)

AreRowsOf(evidence, product) ==
    /\ IsFiniteSet(evidence)
    /\ \A row \in evidence : IsRow(row) /\ row.product = product

\* A text that is stored is a number that is not negative, or a word.
LEMMA StoredText ==
    ASSUME NEW text, text.number \in Optional(Nat)
    PROVE  Stored(text).number \in Optional(Nat)
BY DEF Stored, Word, Optional

\* One row has the fields of its parts.
LEMMA RowFields ==
    ASSUME NEW product \in Int, NEW field, NEW source \in DOMAIN SourceReliability, NEW url,
           NEW captured \in Int, NEW origin, NEW text, text.number \in Optional(Nat)
    PROVE  LET row == Row(product, field, source, url, captured, origin, text)
           IN  IsRow(row) /\ row.product = product /\ row.captured = captured
<1>1. Stored(text).number \in Optional(Nat)
  BY StoredText
<1> QED BY <1>1 DEF Row, IsRow

\* A page is converted to rows about its product, of its day.
LEMMA PageRows ==
    ASSUME NEW page, IsPage(page)
    PROVE  /\ AreRowsOf(PageEvidence(page), page.product)
           /\ \A row \in PageEvidence(page) : row.captured = page.captured
<1> DEFINE Observed(field, text) ==
             Row(page.product, field, SourceOfStore[page.store], page.url, page.captured,
                 page.id, text)
           name == Word(ToString(page.product))
           A == {Observed(field, name) : field \in IdentityFields}
           B == {Observed(spec[1], spec[2]) : spec \in page.specs}
           fa == [field \in IdentityFields |-> Observed(field, name)]
           fb == [spec \in page.specs |-> Observed(spec[1], spec[2])]
<1>1. PageEvidence(page) = A \cup B
  BY DEF PageEvidence
<1>2. page \in PageRecord /\ IsFiniteSet(page.specs)
  BY DEF IsPage
<1>3. /\ page.product \in Int /\ page.captured \in Int
      /\ SourceOfStore[page.store] \in DOMAIN SourceReliability
  BY <1>2 DEF PageRecord, SourceOfStore, SourceReliability
<1>4. name.number \in Optional(Nat)
  BY DEF Word, Optional
<1>5. ASSUME NEW field, NEW text, text.number \in Optional(Nat)
      PROVE  LET row == Observed(field, text)
             IN  IsRow(row) /\ row.product = page.product /\ row.captured = page.captured
  BY <1>3, <1>5, RowFields
<1>6. \A spec \in page.specs : spec[2].number \in Optional(Nat)
  BY <1>2 DEF PageRecord, Specs, Text
<1>7. IsFiniteSet(IdentityFields)
  <2>1. IdentityFields = ({} \cup {"brand-and-model"}) \cup {"canonical-name"}
    BY DEF IdentityFields
  <2> QED BY <2>1, FS_EmptySet, FS_AddElement
<1>8. Maps(IdentityFields, fa, A) /\ Maps(page.specs, fb, B)
  BY DEF Maps
<1>9. IsFiniteSet(A) /\ IsFiniteSet(B)
  <2> HIDE DEF A, B, fa, fb
  <2> QED BY <1>2, <1>7, <1>8, ImageIsFinite
<1>10. IsFiniteSet(A \cup B)
  <2> HIDE DEF A, B
  <2> QED BY <1>9, FS_Union
<1>11. ASSUME NEW row \in A \cup B
       PROVE  IsRow(row) /\ row.product = page.product /\ row.captured = page.captured
  <2>1. CASE row \in A
    <3>1. PICK field \in IdentityFields : row = Observed(field, name)
      BY <2>1
    <3> HIDE DEF Observed, name
    <3> QED BY <3>1, <1>4, <1>5
  <2>2. CASE row \in B
    <3>1. PICK spec \in page.specs : row = Observed(spec[1], spec[2])
      BY <2>2
    <3> HIDE DEF Observed
    <3> QED BY <3>1, <1>5, <1>6
  <2> QED BY <1>11, <2>1, <2>2
<1> HIDE DEF A, B
<1> QED BY <1>1, <1>10, <1>11 DEF AreRowsOf

\* So is an official page, of the day it was read on.
LEMMA OfficialRows ==
    ASSUME NEW official, IsOfficial(official), NEW day \in Int
    PROVE  /\ AreRowsOf(OfficialEvidence(official, day), official.product)
           /\ \A row \in OfficialEvidence(official, day) : row.captured = day
<1> DEFINE Observed(field, text) ==
             Row(official.product, field, "manufacturer_official", official.url, day,
                 official.id, text)
           name == Word(ToString(official.names))
           B == {Observed(spec[1], spec[2]) : spec \in official.specs}
           fb == [spec \in official.specs |-> Observed(spec[1], spec[2])]
           x == Observed("brand-and-model", name)
<1>1. OfficialEvidence(official, day) = {x} \cup B
  BY DEF OfficialEvidence
<1>2. official \in OfficialRecord /\ IsFiniteSet(official.specs)
  BY DEF IsOfficial
<1>3. official.product \in Int /\ "manufacturer_official" \in DOMAIN SourceReliability
  BY <1>2 DEF OfficialRecord, SourceReliability
<1>4. name.number \in Optional(Nat)
  BY DEF Word, Optional
<1>5. ASSUME NEW field, NEW text, text.number \in Optional(Nat)
      PROVE  LET row == Observed(field, text)
             IN  IsRow(row) /\ row.product = official.product /\ row.captured = day
  BY <1>3, <1>5, RowFields
<1>6. \A spec \in official.specs : spec[2].number \in Optional(Nat)
  BY <1>2 DEF OfficialRecord, Specs, Text
<1>7. Maps(official.specs, fb, B)
  BY DEF Maps
<1>8. IsRow(x) /\ x.product = official.product /\ x.captured = day
  <2> HIDE DEF name, Observed
  <2> QED BY <1>4, <1>5
<1>9. ASSUME NEW row \in B
      PROVE  IsRow(row) /\ row.product = official.product /\ row.captured = day
  <2>1. PICK spec \in official.specs : row = Observed(spec[1], spec[2])
    OBVIOUS
  <2> HIDE DEF Observed
  <2> QED BY <2>1, <1>5, <1>6
<1> HIDE DEF B, fb, x
<1>10. IsFiniteSet(B)
  BY <1>2, <1>7, ImageIsFinite
<1>11. IsFiniteSet({x} \cup B)
  <2>1. {x} \cup B = B \cup {x}
    OBVIOUS
  <2> QED BY <2>1, <1>10, FS_AddElement
<1> QED BY <1>1, <1>8, <1>9, <1>11 DEF AreRowsOf

\* At most one entry of the reference is looked up.
LEMMA LookupIs ==
    ASSUME NEW r, IsReference(r), NEW chip
    PROVE  Lookup(r, chip) \subseteq r.entries /\ IsFiniteSet(Lookup(r, chip))
<1> DEFINE matches == {entry \in r.entries : chip \in entry.tokens}
           scores == {entry.score : entry \in matches}
           names == {entry.name : entry \in matches}
           first == CHOOSE entry \in matches : \A other \in matches : entry.name <= other.name
<1>1. Lookup(r, chip) = IF Cardinality(scores) # 1 THEN {} ELSE {first}
  BY DEF Lookup
<1>2. CASE Cardinality(scores) # 1
  BY <1>1, <1>2, FS_EmptySet
<1>3. CASE Cardinality(scores) = 1
  <2>1. matches # {}
    <3> SUFFICES ASSUME matches = {} PROVE FALSE
      OBVIOUS
    <3>1. scores = {}
      OBVIOUS
    <3> HIDE DEF scores
    <3> QED BY <1>3, <3>1, FS_EmptySet
  <2>2. r \in ReferenceRecord /\ IsFiniteSet(r.entries)
    BY DEF IsReference
  <2>3. IsFiniteSet(matches) /\ \A entry \in matches : entry.name \in Int
    BY <2>2, FS_Subset DEF ReferenceRecord
  <2> DEFINE f == [entry \in matches |-> entry.name]
  <2>4. Maps(matches, f, names)
    BY DEF Maps
  <2>5. names \subseteq Int /\ names # {}
    BY <2>1, <2>3
  <2>6. IsFiniteSet(names)
    <3> HIDE DEF matches, names, f
    <3> QED BY <2>3, <2>4, ImageIsFinite
  <2>7. Min(names) \in names /\ \A name \in names : Min(names) <= name
    <3> HIDE DEF names
    <3> QED BY <2>5, <2>6, LeastOfFinite
  <2>8. PICK entry \in matches : entry.name = Min(names)
    BY <2>7
  <2>9. \A other \in matches : entry.name <= other.name
    BY <2>7, <2>8
  <2> HIDE DEF matches
  <2>10. first \in matches
    BY <2>8, <2>9
  <2>11. first \in r.entries
    BY <2>10 DEF matches
  <2> HIDE DEF first
  <2> QED BY <1>1, <1>3, <2>11, FS_Singleton
<1> HIDE DEF scores
<1> QED BY <1>2, <1>3

\* What the reference says of the chips of a product's rows, of its own day.
LEMMA BenchmarkRows ==
    ASSUME NEW r, IsReference(r), NEW evidence, NEW product, AreRowsOf(evidence, product)
    PROVE  /\ AreRowsOf(BenchmarkEvidence(r, evidence), product)
           /\ \A row \in BenchmarkEvidence(r, evidence) : row.captured = r.captured
<1> DEFINE chips == {row \in evidence : row.field = "chip"}
           Said(row, entry) == Row(row.product, "chip_performance", "independent_review", "socpk",
                                   r.captured, entry.name, Measure(entry.score, "SOCPK"))
           Of(row) == {Said(row, entry) : entry \in Lookup(r, row.value)}
           B == BenchmarkEvidence(r, evidence)
           f == [row \in chips |-> Of(row)]
<1>1. B = UNION {Of(row) : row \in chips}
  BY DEF BenchmarkEvidence
<1>2. r \in ReferenceRecord /\ r.captured \in Int
  BY DEF IsReference, ReferenceRecord
<1>3. IsFiniteSet(evidence) /\ \A row \in chips : IsRow(row) /\ row.product = product
  BY DEF AreRowsOf
<1>4. IsFiniteSet(chips)
  BY <1>3, FS_Subset
<1>5. ASSUME NEW row \in chips, NEW entry \in Lookup(r, row.value)
      PROVE  LET said == Said(row, entry)
             IN  IsRow(said) /\ said.product = product /\ said.captured = r.captured
  <2>1. entry \in r.entries
    BY LookupIs
  <2>2. entry.score \in Nat
    BY <1>2, <2>1 DEF ReferenceRecord
  <2> DEFINE text == Measure(entry.score, "SOCPK")
  <2>3. text.number \in Optional(Nat)
    BY <2>2 DEF Measure, Optional
  <2>4. row.product \in Int /\ row.product = product
    BY <1>3 DEF IsRow
  <2>5. "independent_review" \in DOMAIN SourceReliability
    BY DEF SourceReliability
  <2> HIDE DEF text
  <2>6. LET said == Row(row.product, "chip_performance", "independent_review", "socpk",
                        r.captured, entry.name, text)
        IN  IsRow(said) /\ said.product = row.product /\ said.captured = r.captured
    BY <1>2, <2>3, <2>4, <2>5, RowFields
  <2> QED BY <2>4, <2>6 DEF text
<1>6. ASSUME NEW row \in chips PROVE IsFiniteSet(Of(row))
  <2> DEFINE L == Lookup(r, row.value)
             g == [entry \in L |-> Said(row, entry)]
             image == Of(row)
  <2>1. IsFiniteSet(L)
    BY LookupIs
  <2>2. Maps(L, g, image)
    BY DEF Maps
  <2> HIDE DEF L, g, image
  <2>3. IsFiniteSet(image)
    BY <2>1, <2>2, ImageIsFinite
  <2> QED BY <2>3 DEF image
<1>7. ASSUME NEW row \in B
      PROVE  IsRow(row) /\ row.product = product /\ row.captured = r.captured
  <2>1. PICK chip \in chips : \E entry \in Lookup(r, chip.value) : row = Said(chip, entry)
    BY <1>1, <1>7
  <2>2. PICK entry \in Lookup(r, chip.value) : row = Said(chip, entry)
    BY <2>1
  <2> HIDE DEF Said
  <2> QED BY <1>5, <2>2
<1> HIDE DEF Of
<1>8. AllFinite(chips, f) /\ Covers(chips, f, B)
  BY <1>1, <1>6 DEF AllFinite, Covers
<1> HIDE DEF B, chips, f
<1>9. IsFiniteSet(B)
  BY <1>4, <1>8, UnionIsFinite
<1> QED BY <1>7, <1>9 DEF AreRowsOf, B

\* A check has one of the five results, of the day it was made on.
LEMMA ChecksAreTyped ==
    ASSUME NEW product, NEW evidence, NEW officials, NEW day \in Int,
           NEW check \in Checks(product, evidence, officials, day)
    PROVE  IsCheck(check) /\ check.product = product /\ check.checkedAt = day
<1>1. \A platform, official : ComparisonStatus(platform, official) \in DOMAIN CheckConsistency
  BY DEF ComparisonStatus, CheckConsistency
<1>2. "missing_official_source" \in DOMAIN CheckConsistency
  BY DEF CheckConsistency
<1>3. CASE officials = {}
  <2>1. \E field : check = Check(product, field, "missing_official_source", day)
    BY <1>3 DEF Checks
  <2> QED BY <1>2, <2>1 DEF Check, IsCheck
<1>4. CASE officials # {}
  <2>1. \E field, platform, official :
           check = Check(product, field, ComparisonStatus(platform, official), day)
    BY <1>4 DEF Checks
  <2> QED BY <1>1, <2>1 DEF Check, IsCheck
<1> QED BY <1>3, <1>4
-------------------------------------------------------------------------------
(***************************************************************************)
(* The catalogue: no two definitions share a key or an alias, and no       *)
(* factor is negative.                                                     *)
(***************************************************************************)
\* A page's key names at most one definition, which its canonical key names again.
LEMMA DefinitionIs ==
    ASSUME NEW field, DefinitionOf(field) # {}
    PROVE  \E d \in Catalogue : /\ DefinitionOf(field) = {d}
                                /\ CanonicalKey(field) = d.key
                                /\ (CHOOSE e \in Catalogue : e.key = d.key) = d
<1>1. \A d, e \in Catalogue : d.key = e.key => d = e
  BY DEF Catalogue
<1>2. \A d, e \in Catalogue : \A k : k \in d.aliases /\ k \in e.aliases => d.key = e.key
  BY DEF Catalogue
<1> DEFINE D == DefinitionOf(field)
<1>3. D = {d \in Catalogue : KeyToken(field) \in d.aliases}
  BY DEF DefinitionOf
<1> HIDE DEF D
<1>4. PICK d \in Catalogue : d \in D
  BY <1>3 DEF D
<1>5. D = {d}
  BY <1>1, <1>2, <1>3, <1>4
<1>6. CanonicalKey(field) = d.key
  BY <1>5 DEF CanonicalKey, D
<1>7. (CHOOSE e \in Catalogue : e.key = d.key) = d
  BY <1>1, <1>4
<1> QED BY <1>4, <1>5, <1>6, <1>7 DEF D

\* A text that parses measures one number, which is not negative.
LEMMA ReadingIs ==
    ASSUME NEW text, text.number \in Optional(Nat), NEW d \in Catalogue
    PROVE  Reading(text, d) = {} \/ \E v \in Nat : Reading(text, d) = {v}
<1>1. \A unit \in DOMAIN d.factors : d.factors[unit] \in Nat
  BY DEF Catalogue
<1>2. CASE text.number # None /\ text.unit \in DOMAIN d.factors
  <2> DEFINE n == text.number
             m == d.factors[text.unit]
  <2>1. n \in Nat /\ m \in Nat
    BY <1>1, <1>2 DEF Optional
  <2>2. Reading(text, d) = {n * m}
    BY <1>2 DEF Reading
  <2> HIDE DEF n, m
  <2>3. n * m \in Nat
    BY <2>1
  <2> QED BY <2>2, <2>3
<1>3. CASE ~(text.number # None /\ text.unit \in DOMAIN d.factors)
  BY <1>3 DEF Reading
<1> QED BY <1>2, <1>3

\* What the definition of a row's key reads in it.
ReadingsOf(row) == UNION {Reading(row.value, d) : d \in DefinitionOf(row.field)}

\* A row has one reading at most.
LEMMA ReadingsOfIs ==
    ASSUME NEW row, IsRow(row)
    PROVE  ReadingsOf(row) = {} \/ \E v \in Nat : ReadingsOf(row) = {v}
<1>1. CASE DefinitionOf(row.field) = {}
  BY <1>1 DEF ReadingsOf
<1>2. CASE DefinitionOf(row.field) # {}
  <2>1. PICK d \in Catalogue : DefinitionOf(row.field) = {d}
    BY <1>2, DefinitionIs
  <2>2. ReadingsOf(row) = Reading(row.value, d)
    BY <2>1 DEF ReadingsOf
  <2> QED BY <2>2, ReadingIs DEF IsRow
<1> QED BY <1>1, <1>2

\* Finitely many rows have finitely many readings, all of them natural numbers.
LEMMA ReadingsAreFinite ==
    ASSUME NEW group, IsFiniteSet(group), \A row \in group : IsRow(row)
    PROVE  IsFiniteSet(GroupReadings(group)) /\ GroupReadings(group) \subseteq Nat
<1> DEFINE f == [row \in group |-> ReadingsOf(row)]
           T == GroupReadings(group)
<1>1. T = UNION {ReadingsOf(row) : row \in group}
  BY DEF GroupReadings, ReadingsOf
<1>2. \A row \in group : IsFiniteSet(ReadingsOf(row)) /\ ReadingsOf(row) \subseteq Nat
  <2> TAKE row \in group
  <2>1. ReadingsOf(row) = {} \/ \E v \in Nat : ReadingsOf(row) = {v}
    BY ReadingsOfIs
  <2>2. IsFiniteSet(ReadingsOf(row))
    BY <2>1, FS_EmptySet, FS_Singleton
  <2> QED BY <2>1, <2>2
<1>3. Covers(group, f, T) /\ AllFinite(group, f) /\ T \subseteq Nat
  BY <1>1, <1>2 DEF Covers, AllFinite
<1> HIDE DEF T, f
<1> QED BY <1>3, UnionIsFinite DEF T
-------------------------------------------------------------------------------
(***************************************************************************)
(* One reading decides: of the rows about a product, for any facts that    *)
(* were normalized from them.                                              *)
(***************************************************************************)
SpecRows(product) == {row \in RowsOf(product) : row.field \notin IdentityFields}
GroupOf(product, key) == {row \in SpecRows(product) : CanonicalKey(row.field) = key}
FactAbout(product, key, day) == Fact(product, key, GroupOf(product, key), day)
KeysAbout(product) == {CanonicalKey(row.field) : row \in SpecRows(product)}

\* The facts of a product are one for each canonical key of its rows.
LEMMA FactsAre ==
    ASSUME NEW product, NEW day
    PROVE  Facts(product, RowsOf(product), day)
              = {FactAbout(product, key, day) : key \in KeysAbout(product)}
BY DEF Facts, FactAbout, GroupOf, SpecRows, KeysAbout

\* The groups whose key folds to the criterion's hold the rows about it, and no others.
LEMMA ReachingFacts ==
    ASSUME NEW product, NEW criterion, NEW day
    PROVE  LET reaching == Reaching(criterion, Facts(product, RowsOf(product), day))
           IN  /\ \A row \in About(product, criterion) :
                     /\ FactAbout(product, CanonicalKey(row.field), day) \in reaching
                     /\ row \in GroupOf(product, CanonicalKey(row.field))
               /\ \A fact \in reaching :
                     \E key : /\ fact = FactAbout(product, key, day)
                              /\ GroupOf(product, key) # {}
                              /\ GroupOf(product, key) \subseteq About(product, criterion)
<1> DEFINE reaching == Reaching(criterion, Facts(product, RowsOf(product), day))
<1>1. reaching = {fact \in {FactAbout(product, key, day) : key \in KeysAbout(product)} :
                     KeyToken(fact.key) = KeyToken(criterion.key)}
  BY FactsAre DEF Reaching
<1>2. \A key : FactAbout(product, key, day).key = key
  BY DEF FactAbout, Fact
<1>3. ASSUME NEW row \in About(product, criterion)
      PROVE  /\ FactAbout(product, CanonicalKey(row.field), day) \in reaching
             /\ row \in GroupOf(product, CanonicalKey(row.field))
  <2>1. /\ row \in SpecRows(product)
        /\ KeyToken(CanonicalKey(row.field)) = KeyToken(criterion.key)
    BY DEF About, SpecRows
  <2>2. CanonicalKey(row.field) \in KeysAbout(product)
    BY <2>1 DEF KeysAbout
  <2> QED BY <1>1, <1>2, <2>1, <2>2 DEF GroupOf
<1>4. ASSUME NEW fact \in reaching
      PROVE  \E key : /\ fact = FactAbout(product, key, day)
                      /\ GroupOf(product, key) # {}
                      /\ GroupOf(product, key) \subseteq About(product, criterion)
  <2>1. PICK key \in KeysAbout(product) : fact = FactAbout(product, key, day)
    BY <1>1
  <2>2. KeyToken(key) = KeyToken(criterion.key)
    BY <1>1, <1>2, <2>1
  <2>3. GroupOf(product, key) # {}
    BY <2>1 DEF KeysAbout, GroupOf
  <2>4. GroupOf(product, key) \subseteq About(product, criterion)
    BY <2>2 DEF GroupOf, SpecRows, About
  <2> QED BY <2>1, <2>3, <2>4
<1> HIDE DEF reaching
<1>5. /\ \A row \in About(product, criterion) :
            /\ FactAbout(product, CanonicalKey(row.field), day) \in reaching
            /\ row \in GroupOf(product, CanonicalKey(row.field))
      /\ \A fact \in reaching :
            \E key : /\ fact = FactAbout(product, key, day)
                     /\ GroupOf(product, key) # {}
                     /\ GroupOf(product, key) \subseteq About(product, criterion)
  BY <1>3, <1>4
<1> QED BY <1>5 DEF reaching

\* The readings of the facts that reach a criterion are those of the rows about it.
LEMMA ObservedReadings ==
    ASSUME NEW product, NEW criterion, NEW day
    PROVE  LET reaching == Reaching(criterion, Facts(product, RowsOf(product), day))
           IN  /\ UNION {fact.readings : fact \in reaching} = Readings(product, criterion)
               /\ Readings(product, criterion) = GroupReadings(About(product, criterion))
               /\ reaching = {} <=> About(product, criterion) = {}
<1> DEFINE reaching == Reaching(criterion, Facts(product, RowsOf(product), day))
           observed == UNION {fact.readings : fact \in reaching}
           A == About(product, criterion)
<1>1. /\ \A row \in A : /\ FactAbout(product, CanonicalKey(row.field), day) \in reaching
                        /\ row \in GroupOf(product, CanonicalKey(row.field))
      /\ \A fact \in reaching : \E key : /\ fact = FactAbout(product, key, day)
                                         /\ GroupOf(product, key) # {}
                                         /\ GroupOf(product, key) \subseteq A
  BY ReachingFacts
<1>2. Readings(product, criterion) = UNION {ReadingsOf(row) : row \in A}
  BY DEF Readings, ReadingsOf
<1>3. GroupReadings(A) = UNION {ReadingsOf(row) : row \in A}
  BY DEF GroupReadings, ReadingsOf
<1>4. \A key : FactAbout(product, key, day).readings
                  = UNION {ReadingsOf(row) : row \in GroupOf(product, key)}
  BY DEF FactAbout, Fact, GroupReadings, ReadingsOf
<1> HIDE DEF reaching, A
<1>5. ASSUME NEW v \in observed PROVE v \in UNION {ReadingsOf(row) : row \in A}
  <2>1. PICK fact \in reaching : v \in fact.readings
    OBVIOUS
  <2>2. PICK key : fact = FactAbout(product, key, day) /\ GroupOf(product, key) \subseteq A
    BY <1>1
  <2> QED BY <1>4, <2>1, <2>2
<1>6. ASSUME NEW row \in A, NEW v \in ReadingsOf(row) PROVE v \in observed
  <2> DEFINE fact == FactAbout(product, CanonicalKey(row.field), day)
  <2>1. fact \in reaching /\ v \in fact.readings
    BY <1>1, <1>4
  <2> HIDE DEF fact
  <2> QED BY <2>1
<1>7. observed = UNION {ReadingsOf(row) : row \in A}
  BY <1>5, <1>6
<1>8. reaching = {} <=> A = {}
  BY <1>1
<1> QED BY <1>2, <1>3, <1>7, <1>8 DEF reaching, A

\* The status of a group is normalized exactly when each of its rows reads and all read the same.
LEMMA GroupStatus ==
    ASSUME NEW group, group # {}, IsFiniteSet(group), \A row \in group : IsRow(row)
    PROVE  /\ FactStatus(group) \in {"unsupported_key", "unparseable_value", "normalized", "conflict"}
           /\ FactStatus(group) = "normalized"
                 <=> \E v : \A row \in group : ReadingsOf(row) = {v}
<1>1. IsFiniteSet(GroupReadings(group))
  BY ReadingsAreFinite
<1>2. GroupReadings(group) = UNION {ReadingsOf(row) : row \in group}
  BY DEF GroupReadings, ReadingsOf
<1>3. ASSUME NEW row \in group
      PROVE  ReadingsOf(row) = {}
                <=> \/ DefinitionOf(row.field) = {}
                    \/ \E d \in DefinitionOf(row.field) : Reading(row.value, d) = {}
  <2>1. CASE DefinitionOf(row.field) = {}
    BY <2>1 DEF ReadingsOf
  <2>2. CASE DefinitionOf(row.field) # {}
    <3>1. PICK d \in Catalogue : DefinitionOf(row.field) = {d}
      BY <2>2, DefinitionIs
    <3>2. ReadingsOf(row) = Reading(row.value, d)
      BY <3>1 DEF ReadingsOf
    <3> QED BY <3>1, <3>2
  <2> QED BY <2>1, <2>2
<1>4. FactStatus(group) = "normalized"
         <=> /\ \A row \in group : ReadingsOf(row) # {}
             /\ Cardinality(GroupReadings(group)) = 1
  BY <1>3 DEF FactStatus, ParseFailed
<1>5. Cardinality(GroupReadings(group)) = 1 <=> \E v : GroupReadings(group) = {v}
  BY <1>1, FS_Singleton
<1>6. FactStatus(group) = "normalized" <=> \E v : \A row \in group : ReadingsOf(row) = {v}
  <2>1. ASSUME \A row \in group : ReadingsOf(row) # {}, NEW v, GroupReadings(group) = {v}
        PROVE  \A row \in group : ReadingsOf(row) = {v}
    BY <1>2, <2>1
  <2>2. ASSUME NEW v, \A row \in group : ReadingsOf(row) = {v}
        PROVE  GroupReadings(group) = {v}
    BY <1>2, <2>2
  <2> QED BY <1>4, <1>5, <2>1, <2>2
<1>7. FactStatus(group) \in {"unsupported_key", "unparseable_value", "normalized", "conflict"}
  BY DEF FactStatus
<1> QED BY <1>6, <1>7

RowsAreSound == IsFiniteSet(rows) /\ \A row \in rows : IsRow(row)

\* The fact of a group: its status, and the unit of the one definition its rows have.
LEMMA FactOfGroup ==
    ASSUME RowsAreSound, NEW product, NEW key, NEW day, GroupOf(product, key) # {}
    PROVE  LET fact == FactAbout(product, key, day)
               group == GroupOf(product, key)
           IN  /\ fact.status \in {"unsupported_key", "unparseable_value", "normalized", "conflict"}
               /\ fact.status = "normalized" <=> \E v : \A row \in group : ReadingsOf(row) = {v}
               /\ fact.status = "normalized" =>
                     \A row \in group : \A d \in DefinitionOf(row.field) : fact.unit = d.unit
<1> DEFINE group == GroupOf(product, key)
           fact == FactAbout(product, key, day)
<1>1. group \subseteq rows /\ \A row \in group : CanonicalKey(row.field) = key
  BY DEF GroupOf, SpecRows, RowsOf
<1>2. IsFiniteSet(group) /\ \A row \in group : IsRow(row)
  BY <1>1, FS_Subset DEF RowsAreSound
<1>3. fact.status = FactStatus(group)
  BY DEF FactAbout, Fact
<1>4. fact.unit = IF FactStatus(group) = "unsupported_key" THEN None
                  ELSE (CHOOSE d \in Catalogue : d.key = key).unit
  BY DEF FactAbout, Fact
<1> HIDE DEF group, fact
<1>5. /\ fact.status \in {"unsupported_key", "unparseable_value", "normalized", "conflict"}
      /\ fact.status = "normalized" <=> \E v : \A row \in group : ReadingsOf(row) = {v}
  <2>1. group # {}
    BY DEF group
  <2> QED BY <1>2, <1>3, <2>1, GroupStatus
<1>6. ASSUME fact.status = "normalized", NEW row \in group, NEW d \in DefinitionOf(row.field)
      PROVE  fact.unit = d.unit
  <2>1. PICK e \in Catalogue : /\ DefinitionOf(row.field) = {e}
                               /\ CanonicalKey(row.field) = e.key
                               /\ (CHOOSE f \in Catalogue : f.key = e.key) = e
    BY DefinitionIs
  <2>2. key = e.key /\ d = e
    BY <1>1, <2>1
  <2>3. fact.unit = (CHOOSE f \in Catalogue : f.key = key).unit
    BY <1>3, <1>4, <1>6
  <2> QED BY <2>1, <2>2, <2>3
<1> QED BY <1>5, <1>6 DEF group, fact

\* The evaluation of a criterion is that of the value all its rows agree on, if there is one.
LEMMA ReadingDecides ==
    ASSUME RowsAreSound, NEW product, NEW criterion, NEW day
    PROVE  LET e == Evaluate(criterion, Facts(product, RowsOf(product), day))
           IN  /\ \A v : Measured(product, criterion, v) =>
                            /\ v \in Nat
                            /\ Readings(product, criterion) = {v}
                            /\ e = [status |-> ScoreValue(v, criterion)[1],
                                    score |-> ScoreValue(v, criterion)[2]]
               /\ \/ \E v \in Readings(product, criterion) : Measured(product, criterion, v)
                  \/ e.status \in {"missing", "conflict", "unresolved"} /\ e.score = 0
<1> DEFINE reaching == Reaching(criterion, Facts(product, RowsOf(product), day))
           observed == UNION {fact.readings : fact \in reaching}
           statuses == {fact.status : fact \in reaching}
           units == {fact.unit : fact \in reaching}
           A == About(product, criterion)
           e == Evaluate(criterion, Facts(product, RowsOf(product), day))
           Failed == {"unparseable_value", "unsupported_key"}
           Unscored(status) == [status |-> status, score |-> 0]
           value == CHOOSE v \in observed : TRUE
<1>1. e = IF reaching = {} THEN Unscored("missing")
          ELSE IF "conflict" \in statuses \/ Cardinality(observed) > 1 THEN Unscored("conflict")
          ELSE IF statuses \cap Failed # {} \/ Cardinality(observed) # 1 \/ units # {criterion.unit}
          THEN Unscored("unresolved")
          ELSE [status |-> ScoreValue(value, criterion)[1],
                score |-> ScoreValue(value, criterion)[2]]
  BY DEF Evaluate
<1>2. /\ \A row \in A : /\ FactAbout(product, CanonicalKey(row.field), day) \in reaching
                        /\ row \in GroupOf(product, CanonicalKey(row.field))
      /\ \A fact \in reaching : \E key : /\ fact = FactAbout(product, key, day)
                                         /\ GroupOf(product, key) # {}
                                         /\ GroupOf(product, key) \subseteq A
  BY ReachingFacts
<1>3. /\ observed = Readings(product, criterion)
      /\ Readings(product, criterion) = GroupReadings(A)
      /\ reaching = {} <=> A = {}
  BY ObservedReadings
<1>4. A \in SUBSET rows
  BY DEF About, RowsOf
<1>5. IsFiniteSet(A) /\ \A row \in A : IsRow(row)
  BY <1>4, FS_Subset DEF RowsAreSound
<1>6. IsFiniteSet(observed) /\ observed \subseteq Nat
  BY <1>3, <1>5, ReadingsAreFinite
<1>7. observed = UNION {ReadingsOf(row) : row \in A}
  BY <1>3 DEF GroupReadings, ReadingsOf
<1>8. Cardinality(observed) = 1 <=> \E v : observed = {v}
  BY <1>6, FS_Singleton
<1>9. ASSUME NEW row, DefinitionOf(row.field) # {}
      PROVE  \E d \in Catalogue : DefinitionOf(row.field) = {d}
  BY <1>9, DefinitionIs
<1>10. \A v : Measured(product, criterion, v)
                 <=> /\ A # {}
                     /\ \A row \in A : \E d \in DefinitionOf(row.field) :
                           d.unit = criterion.unit /\ Reading(row.value, d) = {v}
  BY DEF Measured
<1> HIDE DEF reaching, observed, A, e
<1>11. ASSUME NEW v, Measured(product, criterion, v)
       PROVE  /\ v \in Nat
              /\ observed = {v}
              /\ e = [status |-> ScoreValue(v, criterion)[1], score |-> ScoreValue(v, criterion)[2]]
  <2>1. ASSUME NEW row \in A
        PROVE  \E d : /\ DefinitionOf(row.field) = {d} /\ d.unit = criterion.unit
                      /\ ReadingsOf(row) = {v}
    <3>1. PICK d \in DefinitionOf(row.field) : d.unit = criterion.unit /\ Reading(row.value, d) = {v}
      BY <1>10, <1>11
    <3>2. DefinitionOf(row.field) = {d}
      BY <1>9, <3>1
    <3> QED BY <3>1, <3>2 DEF ReadingsOf
  <2>2. A # {} /\ observed = {v}
    BY <1>7, <1>10, <1>11, <2>1
  <2>3. ASSUME NEW fact \in reaching
        PROVE  fact.status = "normalized" /\ fact.unit = criterion.unit
    <3>1. PICK key : /\ fact = FactAbout(product, key, day)
                     /\ GroupOf(product, key) # {}
                     /\ GroupOf(product, key) \subseteq A
      BY <1>2
    <3>2. \A row \in GroupOf(product, key) : ReadingsOf(row) = {v}
      BY <2>1, <3>1
    <3>3. fact.status = "normalized"
      BY <3>1, <3>2, FactOfGroup
    <3>4. PICK row \in GroupOf(product, key) : TRUE
      BY <3>1
    <3>5. PICK d : DefinitionOf(row.field) = {d} /\ d.unit = criterion.unit
      BY <2>1, <3>1, <3>4
    <3>6. fact.unit = d.unit
      BY <3>1, <3>3, <3>4, <3>5, FactOfGroup
    <3> QED BY <3>3, <3>5, <3>6
  <2>4. reaching # {}
    BY <1>3, <2>2
  <2>5. statuses = {"normalized"} /\ units = {criterion.unit}
    BY <2>3, <2>4
  <2>6. Cardinality(observed) = 1 /\ value = v /\ v \in Nat
    BY <1>6, <1>8, <2>2
  <2>7. e = [status |-> ScoreValue(value, criterion)[1], score |-> ScoreValue(value, criterion)[2]]
    BY <1>1, <2>4, <2>5, <2>6
  <2> QED BY <2>2, <2>6, <2>7
<1>12. ASSUME ~(e.status \in {"missing", "conflict", "unresolved"} /\ e.score = 0)
       PROVE  \E v \in observed : Measured(product, criterion, v)
  <2>1. /\ reaching # {}
        /\ "conflict" \notin statuses
        /\ statuses \cap Failed = {}
        /\ Cardinality(observed) = 1
        /\ units = {criterion.unit}
    BY <1>1, <1>12
  <2>2. PICK v : observed = {v}
    BY <1>8, <2>1
  <2>3. ASSUME NEW row \in A
        PROVE  \E d \in DefinitionOf(row.field) :
                  d.unit = criterion.unit /\ Reading(row.value, d) = {v}
    <3> DEFINE key == CanonicalKey(row.field)
               fact == FactAbout(product, key, day)
    <3>1. fact \in reaching /\ row \in GroupOf(product, key)
      BY <1>2
    <3>2. /\ fact.status \in {"unsupported_key", "unparseable_value", "normalized", "conflict"}
          /\ fact.status = "normalized"
                <=> \E w : \A other \in GroupOf(product, key) : ReadingsOf(other) = {w}
          /\ fact.status = "normalized" =>
                \A other \in GroupOf(product, key) :
                   \A d \in DefinitionOf(other.field) : fact.unit = d.unit
      BY <3>1, FactOfGroup
    <3> HIDE DEF fact, key
    <3>3. fact.status = "normalized" /\ fact.unit = criterion.unit
      BY <2>1, <3>1, <3>2
    <3>4. PICK w : ReadingsOf(row) = {w}
      BY <3>1, <3>2, <3>3
    <3>5. ReadingsOf(row) = {v}
      BY <1>7, <2>2, <3>4
    <3>6. DefinitionOf(row.field) # {}
      BY <3>5 DEF ReadingsOf
    <3>7. PICK d : DefinitionOf(row.field) = {d}
      BY <1>9, <3>6
    <3>8. Reading(row.value, d) = {v}
      BY <3>5, <3>7 DEF ReadingsOf
    <3>9. d.unit = criterion.unit
      BY <3>1, <3>2, <3>3, <3>7
    <3> QED BY <3>7, <3>8, <3>9
  <2>4. A # {}
    BY <1>3, <2>1
  <2> QED BY <1>10, <2>2, <2>3, <2>4
<1>13. \/ \E v \in observed : Measured(product, criterion, v)
       \/ e.status \in {"missing", "conflict", "unresolved"} /\ e.score = 0
  BY <1>12
<1>14. \A v : Measured(product, criterion, v) =>
                 /\ v \in Nat
                 /\ observed = {v}
                 /\ e = [status |-> ScoreValue(v, criterion)[1],
                         score |-> ScoreValue(v, criterion)[2]]
  BY <1>11
<1> QED BY <1>3, <1>13, <1>14 DEF e
-------------------------------------------------------------------------------
(***************************************************************************)
(* The score of a measured value: at most one half outside the bounds and  *)
(* at least one half inside them, and no less the nearer the value lies.   *)
(***************************************************************************)
IsSound(criterion) ==
    /\ criterion.minimum \in Optional(Nat)
    /\ criterion.preferred \in Optional(Nat)
    /\ criterion.maximum \in Optional(Nat)
    /\ BoundsAreSound(criterion)

\* One half is one half, and a percentage is no more than the whole.
LEMMA HalfIs == Scale \in Nat /\ Scale > 0 /\ Half \in Nat /\ 2 * Half = Scale
<1>1. Scale \in Nat /\ Scale > 0 /\ Scale % 100 = 0
  BY ScaleAssumption
<1>2. Scale % 2 = 0
  BY <1>1
<1> QED BY <1>1, <1>2 DEF Half

\* A percentage is no more than the whole.
LEMMA PercentIs ==
    ASSUME NEW n \in 0 .. 100
    PROVE  Percent(n) \in 0 .. Scale
<1> DEFINE c == Scale \div 100
<1>1. Scale \in Nat /\ Scale > 0 /\ Scale % 100 = 0
  BY ScaleAssumption
<1>2. c \in Nat /\ 100 * c = Scale
  BY <1>1
<1> HIDE DEF c
<1>3. n * c \in Nat /\ n * c <= 100 * c
  BY <1>2
<1> QED BY <1>1, <1>2, <1>3 DEF Percent, c

\* A rounded quotient grows with the dividend ...
LEMMA HalfUpGrows ==
    ASSUME NEW n \in Int, NEW m \in Int, n <= m, NEW d \in Int, d > 0
    PROVE  HalfUp(n, d) <= HalfUp(m, d)
<1> DEFINE a == 2 * n + d
           b == 2 * m + d
           q == b \div (2 * d)
           r == a \div (2 * d)
<1>1. a \in Int /\ b \in Int /\ a <= b /\ 2 * d \in Int /\ 2 * d > 0
  OBVIOUS
<1> HIDE DEF a, b
<1>2. q \in Int /\ b < (2 * d) * q + 2 * d
  BY <1>1, QuotientIs
<1> HIDE DEF q
<1>3. a < (2 * d) * (q + 1)
  BY <1>1, <1>2
<1>4. a \div (2 * d) <= q
  BY <1>1, <1>2, <1>3, QuotientAtMost
<1> QED BY <1>4 DEF HalfUp, a, b, q

\* ... and shrinks with the divisor.
LEMMA HalfUpShrinks ==
    ASSUME NEW n \in Nat, NEW d \in Int, d > 0, NEW e \in Int, d <= e
    PROVE  HalfUp(n, e) <= HalfUp(n, d)
<1> DEFINE a == 2 * n + d
           b == 2 * n + e
           q == a \div (2 * d)
<1>1. a \in Int /\ b \in Int /\ 2 * d \in Int /\ 2 * d > 0 /\ 2 * e \in Int /\ 2 * e > 0
  OBVIOUS
<1>2. (2 * d) * 0 <= a /\ 0 \in Int
  BY DEF a
<1>3. q \in Int /\ a < (2 * d) * q + 2 * d /\ 0 <= q
  <2> HIDE DEF a
  <2> QED BY <1>1, <1>2, QuotientIs, QuotientAtLeast
<1> HIDE DEF q
<1>4. d * q <= e * q
  BY <1>3
<1>5. b < (2 * e) * (q + 1)
  BY <1>3, <1>4
<1> HIDE DEF a, b
<1>6. b \div (2 * e) <= q
  BY <1>1, <1>3, <1>5, QuotientAtMost
<1> QED BY <1>6 DEF HalfUp, a, b, q

\* The score of a value inside the bounds.
LEMMA SatisfiedScoreBetween ==
    ASSUME NEW criterion, IsSound(criterion), NEW v \in Nat, Within(v, criterion)
    PROVE  SatisfiedScore(v, criterion) \in Int /\ Half <= SatisfiedScore(v, criterion)
                                                /\ SatisfiedScore(v, criterion) <= Scale
<1> DEFINE low == criterion.minimum
           best == criterion.preferred
           high == criterion.maximum
<1>1. /\ low \in Optional(Nat) /\ best \in Optional(Nat) /\ high \in Optional(Nat)
      /\ Given(low) => v >= low
      /\ Given(high) => v <= high
  BY DEF IsSound, Within
<1>2. SatisfiedScore(v, criterion)
        = IF ~Given(best) THEN Scale
          ELSE IF Given(low) /\ v < best
               THEN HalfUp(Scale * ((best - low) + (v - low)), 2 * (best - low))
          ELSE IF Given(high) /\ v > best
               THEN HalfUp(Scale * ((high - best) + (high - v)), 2 * (high - best))
          ELSE Scale
  BY DEF SatisfiedScore
<1> HIDE DEF low, best, high
<1>3. Scale \in Nat /\ Scale > 0 /\ Half \in Nat /\ 2 * Half = Scale
  BY HalfIs
<1>4. ASSUME NEW near \in Nat, NEW far \in Nat, near > 0, far <= near
      PROVE  /\ HalfUp(Scale * (near + far), 2 * near) \in Int
             /\ Half <= HalfUp(Scale * (near + far), 2 * near)
             /\ HalfUp(Scale * (near + far), 2 * near) <= Scale
  <2> DEFINE n == Scale * (near + far)
             d == 2 * near
  <2>1. (2 * near) * Half = Scale * near
    BY <1>3
  <2>2. Scale * far >= 0 /\ Scale * far <= Scale * near
    BY <1>3, <1>4
  <2>3. Scale * (near + far) = Scale * near + Scale * far
    BY <1>3
  <2>4. n \in Int /\ d \in Int /\ d > 0 /\ Half \in Int /\ Scale \in Int
    BY <1>3, <1>4
  <2>5. d * Half <= n
    BY <2>1, <2>2, <2>3, <1>3
  <2>6. d * Scale = Scale * near + Scale * near
    BY <1>3
  <2>7. n <= d * Scale
    BY <2>2, <2>3, <2>6, <1>3
  <2> HIDE DEF n, d
  <2>8. HalfUp(n, d) \in Int /\ Half <= HalfUp(n, d) /\ HalfUp(n, d) <= Scale
    BY <2>4, <2>5, <2>7, HalfUpBetween
  <2> QED BY <2>8 DEF n, d
<1>5. CASE ~Given(best)
  BY <1>2, <1>3, <1>5
<1>6. CASE Given(best) /\ Given(low) /\ v < best
  <2> DEFINE near == best - low
             far == v - low
  <2>1. near \in Nat /\ far \in Nat /\ near > 0 /\ far <= near
    BY <1>1, <1>6 DEF Given, Optional
  <2>2. SatisfiedScore(v, criterion) = HalfUp(Scale * (near + far), 2 * near)
    BY <1>2, <1>6
  <2> HIDE DEF near, far
  <2> QED BY <1>4, <2>1, <2>2
<1>7. CASE Given(best) /\ ~(Given(low) /\ v < best) /\ Given(high) /\ v > best
  <2> DEFINE near == high - best
             far == high - v
  <2>1. near \in Nat /\ far \in Nat /\ near > 0 /\ far <= near
    BY <1>1, <1>7 DEF Given, Optional
  <2>2. SatisfiedScore(v, criterion) = HalfUp(Scale * (near + far), 2 * near)
    BY <1>2, <1>7
  <2> HIDE DEF near, far
  <2> QED BY <1>4, <2>1, <2>2
<1>8. CASE Given(best) /\ ~(Given(low) /\ v < best) /\ ~(Given(high) /\ v > best)
  BY <1>2, <1>3, <1>8
<1> QED BY <1>5, <1>6, <1>7, <1>8

\* The score of any value that was measured.
LEMMA ScoreValueIs ==
    ASSUME NEW criterion, IsSound(criterion), NEW v \in Nat
    PROVE  /\ Within(v, criterion) =>
                 ScoreValue(v, criterion) = <<"satisfied", SatisfiedScore(v, criterion)>>
           /\ ~Within(v, criterion) =>
                 /\ ScoreValue(v, criterion)[1] = "unsatisfied"
                 /\ ScoreValue(v, criterion)[2] \in 0 .. Half
           /\ ScoreValue(v, criterion)[2] \in 0 .. Scale
<1> DEFINE low == criterion.minimum
           high == criterion.maximum
           score == ScoreValue(v, criterion)
<1>1. low \in Optional(Nat) /\ high \in Optional(Nat)
  BY DEF IsSound
<1>2. score = IF Given(low) /\ v < low
              THEN <<"unsatisfied", HalfUp(Scale * v, 2 * low)>>
              ELSE IF Given(high) /\ v > high
              THEN <<"unsatisfied", HalfUp(Scale * high, 2 * v)>>
              ELSE <<"satisfied", SatisfiedScore(v, criterion)>>
  BY DEF ScoreValue
<1>3. Within(v, criterion) <=> (Given(low) => v >= low) /\ (Given(high) => v <= high)
  BY DEF Within
<1> HIDE DEF low, high, score
<1>4. Scale \in Nat /\ Scale > 0 /\ Half \in Nat /\ 2 * Half = Scale
  BY HalfIs
<1>5. ASSUME NEW less \in Nat, NEW more \in Nat, less < more
      PROVE  HalfUp(Scale * less, 2 * more) \in 0 .. Half
  <2> DEFINE n == Scale * less
             d == 2 * more
  <2>1. n \in Int /\ d \in Int /\ d > 0 /\ d * 0 <= n /\ 0 \in Int /\ Half \in Int
    BY <1>4, <1>5
  <2>2. d * Half = Scale * more
    BY <1>4
  <2>3. n <= d * Half
    BY <1>4, <1>5, <2>2
  <2> HIDE DEF n, d
  <2>4. HalfUp(n, d) \in Int /\ 0 <= HalfUp(n, d) /\ HalfUp(n, d) <= Half
    BY <2>1, <2>3, HalfUpBetween
  <2>5. HalfUp(n, d) \in 0 .. Half
    BY <2>4, <1>4
  <2> QED BY <2>5 DEF n, d
<1>6. CASE Given(low) /\ v < low
  <2>1. score[1] = "unsatisfied" /\ score[2] = HalfUp(Scale * v, 2 * low)
    BY <1>2, <1>6
  <2>2. low \in Nat
    BY <1>1, <1>6 DEF Given, Optional
  <2>3. score[2] \in 0 .. Half
    BY <1>5, <1>6, <2>1, <2>2
  <2>4. ~Within(v, criterion)
    BY <1>3, <1>6, <2>2
  <2> QED BY <1>4, <2>1, <2>3, <2>4 DEF score
<1>7. CASE ~(Given(low) /\ v < low) /\ Given(high) /\ v > high
  <2>1. score[1] = "unsatisfied" /\ score[2] = HalfUp(Scale * high, 2 * v)
    BY <1>2, <1>7
  <2>2. high \in Nat
    BY <1>1, <1>7 DEF Given, Optional
  <2>3. score[2] \in 0 .. Half
    BY <1>5, <1>7, <2>1, <2>2
  <2>4. ~Within(v, criterion)
    BY <1>3, <1>7, <2>2
  <2> QED BY <1>4, <2>1, <2>3, <2>4 DEF score
<1>8. CASE ~(Given(low) /\ v < low) /\ ~(Given(high) /\ v > high)
  <2>1. score = <<"satisfied", SatisfiedScore(v, criterion)>>
    BY <1>2, <1>8
  <2>2. Within(v, criterion)
    BY <1>1, <1>3, <1>8 DEF Given, Optional
  <2>3. /\ SatisfiedScore(v, criterion) \in Int
        /\ Half <= SatisfiedScore(v, criterion)
        /\ SatisfiedScore(v, criterion) <= Scale
    BY <2>2, SatisfiedScoreBetween
  <2>4. score[2] = SatisfiedScore(v, criterion)
    BY <2>1
  <2>5. score[2] \in 0 .. Scale
    BY <1>4, <2>3, <2>4
  <2> QED BY <2>1, <2>2, <2>5 DEF score
<1> QED BY <1>6, <1>7, <1>8

\* The order of the bounds.
LEMMA BoundsAreOrdered ==
    ASSUME NEW criterion, IsSound(criterion)
    PROVE  /\ Given(criterion.minimum) /\ Given(criterion.maximum) =>
                 criterion.minimum <= criterion.maximum
           /\ Given(criterion.preferred) /\ Given(criterion.minimum) =>
                 criterion.minimum <= criterion.preferred
           /\ Given(criterion.preferred) /\ Given(criterion.maximum) =>
                 criterion.preferred <= criterion.maximum
<1>1. /\ criterion.minimum \in Optional(Nat) /\ criterion.preferred \in Optional(Nat)
      /\ criterion.maximum \in Optional(Nat) /\ BoundsAreSound(criterion)
  BY DEF IsSound
<1> QED BY <1>1 DEF BoundsAreSound, Given, Optional

\* Below the preferred value, or the minimum without one: the nearer value scores no less.
LEMMA NearerFromBelow ==
    ASSUME NEW criterion, IsSound(criterion), NEW v \in Nat, NEW w \in Nat,
           Given(criterion.minimum), w <= v, v <= Target(criterion, criterion.minimum)
    PROVE  ScoreValue(w, criterion)[2] <= ScoreValue(v, criterion)[2]
<1> DEFINE low == criterion.minimum
           best == criterion.preferred
           high == criterion.maximum
<1>1. low \in Nat /\ best \in Optional(Nat) /\ high \in Optional(Nat)
  BY DEF IsSound, Optional, Given
<1>2. /\ Given(low)
      /\ Given(high) => low <= high
      /\ Given(best) => low <= best
      /\ Given(best) /\ Given(high) => best <= high
      /\ v <= IF Given(best) THEN best ELSE low
  BY BoundsAreOrdered DEF Target
<1>3. Scale \in Nat /\ Half \in Nat /\ Scale > 0
  BY HalfIs
<1>4. \A x \in Nat : ScoreValue(x, criterion)
         = IF Given(low) /\ x < low
           THEN <<"unsatisfied", HalfUp(Scale * x, 2 * low)>>
           ELSE IF Given(high) /\ x > high
           THEN <<"unsatisfied", HalfUp(Scale * high, 2 * x)>>
           ELSE <<"satisfied", SatisfiedScore(x, criterion)>>
  BY DEF ScoreValue
<1>5. \A x \in Nat : SatisfiedScore(x, criterion)
        = IF ~Given(best) THEN Scale
          ELSE IF Given(low) /\ x < best
               THEN HalfUp(Scale * ((best - low) + (x - low)), 2 * (best - low))
          ELSE IF Given(high) /\ x > best
               THEN HalfUp(Scale * ((high - best) + (high - x)), 2 * (high - best))
          ELSE Scale
  BY DEF SatisfiedScore
<1>6. \A x \in Nat : Within(x, criterion) <=> low <= x /\ (Given(high) => x <= high)
  BY <1>1, <1>2 DEF Within
<1> HIDE DEF low, best, high
<1>7. CASE v < low
  <2>1. ScoreValue(v, criterion)[2] = HalfUp(Scale * v, 2 * low)
    BY <1>2, <1>4, <1>7
  <2>2. w < low
    BY <1>1, <1>7
  <2>3. ScoreValue(w, criterion)[2] = HalfUp(Scale * w, 2 * low)
    BY <1>2, <1>4, <2>2
  <2> DEFINE n == Scale * w
             m == Scale * v
             d == 2 * low
  <2>4. n \in Int /\ m \in Int /\ n <= m /\ d \in Int /\ d > 0
    BY <1>1, <1>3, <1>7
  <2> HIDE DEF n, m, d
  <2>5. HalfUp(n, d) <= HalfUp(m, d)
    BY <2>4, HalfUpGrows
  <2> QED BY <2>1, <2>3, <2>5 DEF n, m, d
<1>8. CASE low <= v
  <2>1. Given(high) => v <= high
    BY <1>1, <1>2, <1>8 DEF Given, Optional
  <2>2. Within(v, criterion)
    BY <1>6, <1>8, <2>1
  <2>3. ScoreValue(v, criterion)[2] = SatisfiedScore(v, criterion)
    BY <2>2, ScoreValueIs
  <2>4. CASE w < low
    <3>1. ~Within(w, criterion)
      BY <1>1, <1>6, <2>4
    <3>2. ScoreValue(w, criterion)[2] \in 0 .. Half
      BY <3>1, ScoreValueIs
    <3>3. SatisfiedScore(v, criterion) \in Int /\ Half <= SatisfiedScore(v, criterion)
      BY <2>2, SatisfiedScoreBetween
    <3> QED BY <1>3, <2>3, <3>2, <3>3
  <2>5. CASE low <= w
    <3>1. Given(high) => w <= high
      BY <1>1, <2>1 DEF Given, Optional
    <3>2. Within(w, criterion)
      BY <1>6, <2>5, <3>1
    <3>3. ScoreValue(w, criterion)[2] = SatisfiedScore(w, criterion)
      BY <3>2, ScoreValueIs
    <3>4. SatisfiedScore(w, criterion) \in Int /\ SatisfiedScore(w, criterion) <= Scale
      BY <3>2, SatisfiedScoreBetween
    <3>5. CASE ~Given(best)
      <4>1. SatisfiedScore(v, criterion) = Scale
        BY <1>5, <3>5
      <4> QED BY <2>3, <3>3, <3>4, <4>1
    <3>6. CASE Given(best) /\ v < best
      <4>1. w < best /\ best \in Nat
        BY <1>1, <3>6 DEF Given, Optional
      <4> DEFINE n == Scale * ((best - low) + (w - low))
                 m == Scale * ((best - low) + (v - low))
                 d == 2 * (best - low)
      <4>2. SatisfiedScore(v, criterion) = HalfUp(m, d) /\ SatisfiedScore(w, criterion) = HalfUp(n, d)
        BY <1>2, <1>5, <3>6, <4>1
      <4>3. (best - low) + (w - low) <= (best - low) + (v - low) /\ best - low > 0
        BY <1>1, <1>8, <3>6, <4>1
      <4>4. n \in Int /\ m \in Int /\ n <= m /\ d \in Int /\ d > 0
        BY <1>1, <1>3, <4>1, <4>3
      <4> HIDE DEF n, m, d
      <4>5. HalfUp(n, d) <= HalfUp(m, d)
        BY <4>4, HalfUpGrows
      <4> QED BY <2>3, <3>3, <4>2, <4>5
    <3>7. CASE Given(best) /\ ~(v < best)
      <4>1. v = best
        BY <1>1, <1>2, <3>7 DEF Given, Optional
      <4>2. SatisfiedScore(v, criterion) = Scale
        BY <1>1, <1>5, <4>1
      <4> QED BY <2>3, <3>3, <3>4, <4>2
    <3> QED BY <3>5, <3>6, <3>7
  <2> QED BY <1>1, <2>4, <2>5
<1> QED BY <1>1, <1>7, <1>8

\* Above the preferred value, or the maximum without one: the nearer value scores no less.
LEMMA NearerFromAbove ==
    ASSUME NEW criterion, IsSound(criterion), NEW v \in Nat, NEW w \in Nat,
           Given(criterion.maximum), w >= v, v >= Target(criterion, criterion.maximum)
    PROVE  ScoreValue(w, criterion)[2] <= ScoreValue(v, criterion)[2]
<1> DEFINE low == criterion.minimum
           best == criterion.preferred
           high == criterion.maximum
<1>1. low \in Optional(Nat) /\ best \in Optional(Nat) /\ high \in Nat
  BY DEF IsSound, Optional, Given
<1>2. /\ Given(high)
      /\ Given(low) => low <= high
      /\ Given(best) => best <= high
      /\ Given(best) /\ Given(low) => low <= best
      /\ v >= IF Given(best) THEN best ELSE high
  BY BoundsAreOrdered DEF Target
<1>3. Scale \in Nat /\ Half \in Nat /\ Scale > 0
  BY HalfIs
<1>4. \A x \in Nat : ScoreValue(x, criterion)
         = IF Given(low) /\ x < low
           THEN <<"unsatisfied", HalfUp(Scale * x, 2 * low)>>
           ELSE IF Given(high) /\ x > high
           THEN <<"unsatisfied", HalfUp(Scale * high, 2 * x)>>
           ELSE <<"satisfied", SatisfiedScore(x, criterion)>>
  BY DEF ScoreValue
<1>5. \A x \in Nat : SatisfiedScore(x, criterion)
        = IF ~Given(best) THEN Scale
          ELSE IF Given(low) /\ x < best
               THEN HalfUp(Scale * ((best - low) + (x - low)), 2 * (best - low))
          ELSE IF Given(high) /\ x > best
               THEN HalfUp(Scale * ((high - best) + (high - x)), 2 * (high - best))
          ELSE Scale
  BY DEF SatisfiedScore
<1>6. \A x \in Nat : Within(x, criterion) <=> (Given(low) => low <= x) /\ x <= high
  BY <1>1, <1>2 DEF Within, Given, Optional
<1> HIDE DEF low, best, high
<1>7. \A x \in Nat : x >= v => (Given(low) => low <= x)
  BY <1>1, <1>2 DEF Given, Optional
<1>8. CASE v > high
  <2>1. w > high
    BY <1>1, <1>8
  <2>2. ~(Given(low) /\ v < low) /\ ~(Given(low) /\ w < low)
    BY <1>1, <1>7 DEF Given, Optional
  <2>3. ScoreValue(v, criterion)[2] = HalfUp(Scale * high, 2 * v)
    BY <1>2, <1>4, <1>8, <2>2
  <2>4. ScoreValue(w, criterion)[2] = HalfUp(Scale * high, 2 * w)
    BY <1>2, <1>4, <2>1, <2>2
  <2> DEFINE n == Scale * high
             d == 2 * v
             e == 2 * w
  <2>5. n \in Nat /\ d \in Int /\ d > 0 /\ e \in Int /\ d <= e
    BY <1>1, <1>3, <1>8
  <2> HIDE DEF n, d, e
  <2>6. HalfUp(n, e) <= HalfUp(n, d)
    BY <2>5, HalfUpShrinks
  <2> QED BY <2>3, <2>4, <2>6 DEF n, d, e
<1>9. CASE v <= high
  <2>1. Within(v, criterion)
    BY <1>6, <1>7, <1>9
  <2>2. ScoreValue(v, criterion)[2] = SatisfiedScore(v, criterion)
    BY <2>1, ScoreValueIs
  <2>3. CASE w > high
    <3>1. ~Within(w, criterion)
      BY <1>1, <1>6, <2>3
    <3>2. ScoreValue(w, criterion)[2] \in 0 .. Half
      BY <3>1, ScoreValueIs
    <3>3. SatisfiedScore(v, criterion) \in Int /\ Half <= SatisfiedScore(v, criterion)
      BY <2>1, SatisfiedScoreBetween
    <3> QED BY <1>3, <2>2, <3>2, <3>3
  <2>4. CASE w <= high
    <3>1. Within(w, criterion)
      BY <1>6, <1>7, <2>4
    <3>2. ScoreValue(w, criterion)[2] = SatisfiedScore(w, criterion)
      BY <3>1, ScoreValueIs
    <3>3. SatisfiedScore(w, criterion) \in Int /\ SatisfiedScore(w, criterion) <= Scale
      BY <3>1, SatisfiedScoreBetween
    <3>4. CASE ~Given(best)
      <4>1. SatisfiedScore(v, criterion) = Scale
        BY <1>5, <3>4
      <4> QED BY <2>2, <3>2, <3>3, <4>1
    <3>5. CASE Given(best) /\ v > best
      <4>1. w > best /\ best \in Nat
        BY <1>1, <3>5 DEF Given, Optional
      <4> DEFINE n == Scale * ((high - best) + (high - w))
                 m == Scale * ((high - best) + (high - v))
                 d == 2 * (high - best)
      <4>2. ~(v < best) /\ ~(w < best)
        BY <3>5, <4>1
      <4>3. SatisfiedScore(v, criterion) = HalfUp(m, d) /\ SatisfiedScore(w, criterion) = HalfUp(n, d)
        BY <1>2, <1>5, <3>5, <4>1, <4>2
      <4>4. (high - best) + (high - w) <= (high - best) + (high - v) /\ high - best > 0
        BY <1>1, <1>9, <3>5, <4>1
      <4>5. n \in Int /\ m \in Int /\ n <= m /\ d \in Int /\ d > 0
        BY <1>1, <1>3, <4>1, <4>4
      <4> HIDE DEF n, m, d
      <4>6. HalfUp(n, d) <= HalfUp(m, d)
        BY <4>5, HalfUpGrows
      <4> QED BY <2>2, <3>2, <4>3, <4>6
    <3>6. CASE Given(best) /\ ~(v > best)
      <4>1. v = best
        BY <1>1, <1>2, <3>6 DEF Given, Optional
      <4>2. SatisfiedScore(v, criterion) = Scale
        BY <1>1, <1>5, <4>1
      <4> QED BY <2>2, <3>2, <3>3, <4>2
    <3> QED BY <3>4, <3>5, <3>6
  <2> QED BY <1>1, <2>3, <2>4
<1> QED BY <1>1, <1>8, <1>9

\* The two together.
LEMMA NearerIsNoLess ==
    ASSUME NEW criterion, IsSound(criterion), NEW v \in Nat, NEW w \in Nat,
           Nearer(v, w, criterion)
    PROVE  ScoreValue(w, criterion)[2] <= ScoreValue(v, criterion)[2]
<1>1. CASE /\ Given(criterion.minimum)
           /\ w <= v
           /\ v <= Target(criterion, criterion.minimum)
  BY <1>1, NearerFromBelow
<1>2. CASE /\ Given(criterion.maximum)
           /\ w >= v
           /\ v >= Target(criterion, criterion.maximum)
  BY <1>2, NearerFromAbove
<1> QED BY <1>1, <1>2 DEF Nearer
-------------------------------------------------------------------------------
(***************************************************************************)
(* Confidence: every part of it, and the whole, is a share of one.         *)
(***************************************************************************)
ChecksAreSound == \A check \in checks : IsCheck(check)

\* The newest row and the best source count with a percentage.
LEMMA RowShares ==
    ASSUME NEW linked, linked # {}, \A row \in linked : IsRow(row), NEW at \in Int
    PROVE  /\ Max({SourceReliability[row.source] : row \in linked}) \in 0 .. 100
           /\ Max({Freshness(row, at) : row \in linked}) \in 0 .. 100
<1> DEFINE R == {SourceReliability[row.source] : row \in linked}
           F == {Freshness(row, at) : row \in linked}
<1>1. R # {} /\ R \subseteq Int /\ \A x \in R : 0 <= x /\ x <= 100
  BY DEF IsRow, SourceReliability
<1>2. ASSUME NEW row \in linked PROVE Freshness(row, at) \in 0 .. 100
  <2>1. at - row.captured \in Int
    BY DEF IsRow
  <2> QED BY <2>1 DEF Freshness
<1>3. F # {} /\ F \subseteq Int /\ \A x \in F : 0 <= x /\ x <= 100
  BY <1>2
<1> HIDE DEF R, F
<1>4. Max(R) \in 0 .. 100
  <2>1. R # {} /\ R \subseteq Int /\ 100 \in Int /\ \A x \in R : x <= 100
    BY <1>1
  <2>2. Max(R) \in R
    BY <2>1, GreatestOfBounded
  <2>3. \A x \in R : x \in 0 .. 100
    BY <1>1
  <2> QED BY <2>2, <2>3
<1>5. Max(F) \in 0 .. 100
  <2>1. F # {} /\ F \subseteq Int /\ 100 \in Int /\ \A x \in F : x <= 100
    BY <1>3
  <2>2. Max(F) \in F
    BY <2>1, GreatestOfBounded
  <2>3. \A x \in F : x \in 0 .. 100
    BY <1>3
  <2> QED BY <2>2, <2>3
<1> QED BY <1>4, <1>5 DEF R, F

\* So does the consistency of the checks.
LEMMA ConsistencyShare ==
    ASSUME NEW linked, NEW some, \A check \in some : IsCheck(check)
    PROVE  Consistency(linked, some) \in 0 .. 100
<1> DEFINE statuses == {check.status : check \in some}
           S == {CheckConsistency[status] : status \in statuses}
<1>1. statuses \subseteq DOMAIN CheckConsistency
  BY DEF IsCheck
<1>2. \A status \in DOMAIN CheckConsistency : CheckConsistency[status] \in 0 .. 100
  BY DEF CheckConsistency
<1>3. statuses # {} => S # {} /\ S \in SUBSET (0 .. 100)
  BY <1>1, <1>2
<1>4. IsFiniteSet(0 .. 100)
  <2>1. 0 \in Int /\ 100 \in Int
    OBVIOUS
  <2> QED BY <2>1, FS_Interval
<1>5. S \in SUBSET (0 .. 100) => IsFiniteSet(S) /\ S \subseteq Int
  <2> DEFINE whole == 0 .. 100
  <2>1. whole \subseteq Int
    OBVIOUS
  <2> HIDE DEF S, whole
  <2>2. IsFiniteSet(whole)
    BY <1>4 DEF whole
  <2>3. S \in SUBSET whole => IsFiniteSet(S) /\ S \subseteq Int
    BY <2>1, <2>2, FS_Subset
  <2> QED BY <2>3 DEF whole
<1> HIDE DEF S
<1>6. statuses # {} => Min(S) \in 0 .. 100
  BY <1>3, <1>5, LeastOfFinite
<1>7. Consistency(linked, some)
        = IF linked = {} THEN 0
          ELSE IF Cardinality({row.url : row \in linked}) >= 2 THEN 100
          ELSE IF "match" \in statuses THEN 100
          ELSE IF "conflict" \in statuses THEN 0
          ELSE IF statuses # {} THEN Min(S)
          ELSE 50
  BY DEF Consistency, S
<1> HIDE DEF statuses
<1> QED BY <1>6, <1>7

\* One assessment: three shares, and whether anything in it is from the future.
LEMMA AssessmentIs ==
    ASSUME RowsAreSound, ChecksAreSound, NEW criterion, NEW evaluation, NEW itsFacts,
           NEW itsRows \in SUBSET rows, NEW itsChecks \in SUBSET checks, NEW at \in Int
    PROVE  LET item == AssessOne(criterion, evaluation, itsFacts, itsRows, itsChecks, at)
           IN  /\ item.complete = Resolved(evaluation)
               /\ item.reliability \in 0 .. Scale
               /\ item.freshness \in 0 .. Scale
               /\ item.consistency \in 0 .. Scale
               /\ item.evidence \subseteq itsRows
               /\ item.future =>
                     \/ \E fact \in itsFacts : fact.normalizedAt > at
                     \/ \E row \in itsRows : row.captured > at
                     \/ \E check \in itsChecks : check.checkedAt > at
<1> DEFINE reaching == Reaching(criterion, itsFacts)
           sources == UNION {fact.evidence : fact \in reaching}
           linked == sources \cap itsRows
           relevant == {check \in itsChecks : check.field \in {row.field : row \in sources}}
           complete == Resolved(evaluation) /\ linked # {}
           reliability == IF complete THEN Percent(Max({SourceReliability[row.source] :
                                                           row \in linked})) ELSE 0
           freshness == IF complete THEN Percent(Max({Freshness(row, at) : row \in linked})) ELSE 0
           consistency == IF Resolved(evaluation) THEN Percent(Consistency(linked, relevant)) ELSE 0
           future == FromTheFuture(linked, reaching, relevant, at, Resolved(evaluation))
           item == AssessOne(criterion, evaluation, itsFacts, itsRows, itsChecks, at)
<1>1. /\ item.complete = Resolved(evaluation)
      /\ item.evidence = linked
      /\ item.reliability = reliability
      /\ item.freshness = freshness
      /\ item.consistency = consistency
      /\ item.future = future
  BY DEF AssessOne
<1>2. reaching \subseteq itsFacts
  BY DEF Reaching
<1>3. linked \subseteq itsRows /\ relevant \subseteq itsChecks
  OBVIOUS
<1>4. (\A row \in linked : IsRow(row)) /\ (\A check \in relevant : IsCheck(check))
  BY DEF RowsAreSound, ChecksAreSound
<1> HIDE DEF item, linked, relevant, reaching
<1>5. Scale \in Nat /\ Scale > 0
  BY HalfIs
<1>6. reliability \in 0 .. Scale /\ freshness \in 0 .. Scale
  <2>1. CASE complete
    <3>1. linked # {}
      BY <2>1
    <3>2. /\ Max({SourceReliability[row.source] : row \in linked}) \in 0 .. 100
          /\ Max({Freshness(row, at) : row \in linked}) \in 0 .. 100
      BY <1>4, <3>1, RowShares
    <3>3. /\ Percent(Max({SourceReliability[row.source] : row \in linked})) \in 0 .. Scale
          /\ Percent(Max({Freshness(row, at) : row \in linked})) \in 0 .. Scale
      BY <3>2, PercentIs
    <3> QED BY <2>1, <3>3
  <2>2. CASE ~complete
    BY <1>5, <2>2
  <2> QED BY <2>1, <2>2
<1>7. consistency \in 0 .. Scale
  <2>1. Percent(Consistency(linked, relevant)) \in 0 .. Scale
    BY <1>4, ConsistencyShare, PercentIs
  <2> QED BY <1>5, <2>1
<1>8. future => \/ \E fact \in itsFacts : fact.normalizedAt > at
                \/ \E row \in itsRows : row.captured > at
                \/ \E check \in itsChecks : check.checkedAt > at
  BY <1>2, <1>3 DEF FromTheFuture
<1> HIDE DEF reliability, freshness, consistency, future
<1>9. /\ item.complete = Resolved(evaluation)
      /\ item.reliability \in 0 .. Scale
      /\ item.freshness \in 0 .. Scale
      /\ item.consistency \in 0 .. Scale
      /\ item.evidence \subseteq itsRows
      /\ item.future => \/ \E fact \in itsFacts : fact.normalizedAt > at
                        \/ \E row \in itsRows : row.captured > at
                        \/ \E check \in itsChecks : check.checkedAt > at
  BY <1>1, <1>3, <1>6, <1>7, <1>8
<1> QED BY <1>9 DEF item

Sound(asked) ==
    /\ IsFiniteSet(DOMAIN asked.criteria)
    /\ DOMAIN asked.criteria = {} <=> asked.criteria = <<>>
    /\ \A i \in DOMAIN asked.criteria : /\ asked.criteria[i].weight \in Int
                                        /\ asked.criteria[i].weight > 0
                                        /\ IsSound(asked.criteria[i])
    /\ asked.maximum \in Nat
    /\ asked.stretch \in Optional(Nat)
    /\ Given(asked.stretch) => asked.stretch >= asked.maximum

\* An average over some of the criteria of a request.
LEMMA SomeWeights ==
    ASSUME NEW asked, Sound(asked), NEW indices \in SUBSET DOMAIN asked.criteria, NEW values,
           NEW top \in Nat, \A i \in indices : values[i] \in 0 .. top
    PROVE  /\ AreWeights(asked.criteria, indices, values, top)
           /\ indices # {} => WeightedMean(asked.criteria, indices, values) \in 0 .. top
<1>1. IsFiniteSet(indices)
  BY FS_Subset DEF Sound
<1>2. AreWeights(asked.criteria, indices, values, top)
  BY <1>1 DEF AreWeights, Sound
<1> QED BY <1>2, MeanBetween

\* A share of a share is a share.
LEMMA ShareOfShare ==
    ASSUME NEW s \in Nat, NEW t \in Nat, NEW a \in 0 .. s, NEW b \in 0 .. t
    PROVE  a * b \in 0 .. s * t
<1>1. a * b >= 0 /\ a * b <= s * b /\ s * b <= s * t
  OBVIOUS
<1> QED BY <1>1

\* What is known of the confidence c in a candidate.
IsConfidence(c, asked, foundation, itsFacts, itsRows, itsChecks, at) ==
    /\ c.total \in 0 .. Scale
    /\ c.adjusted = IF foundation.utility = None THEN None
                    ELSE HalfUp(foundation.utility * c.total, Scale)
    /\ DOMAIN c.items = DOMAIN asked.criteria
    /\ \A i \in DOMAIN asked.criteria : c.items[i].evidence \subseteq itsRows
    /\ c.future => \/ \E fact \in itsFacts : fact.normalizedAt > at
                   \/ \E row \in itsRows : row.captured > at
                   \/ \E check \in itsChecks : check.checkedAt > at

\* The confidence in a candidate.
LEMMA ConfidenceIs ==
    ASSUME RowsAreSound, ChecksAreSound, NEW asked, Sound(asked), NEW foundation, NEW itsFacts,
           NEW itsRows \in SUBSET rows, NEW itsChecks \in SUBSET checks, NEW at \in Int
    PROVE  IsConfidence(Confidence(asked, foundation, itsFacts, itsRows, itsChecks, at),
                        asked, foundation, itsFacts, itsRows, itsChecks, at)
<1> DEFINE criteria == asked.criteria
           D == DOMAIN criteria
           items == [i \in D |-> AssessOne(criteria[i], foundation.evaluations[i], itsFacts,
                                           itsRows, itsChecks, at)]
           complete == {i \in D : items[i].complete}
           full == [i \in D |-> IF i \in complete THEN Scale ELSE 0]
           rs == [i \in complete |-> items[i].reliability]
           fs == [i \in complete |-> items[i].freshness]
           ks == [i \in complete |-> items[i].consistency]
           a == IF criteria = <<>> THEN 0 ELSE WeightedMean(criteria, D, full)
           r == IF complete = {} THEN 0 ELSE WeightedMean(criteria, complete, rs)
           f == IF complete = {} THEN 0 ELSE WeightedMean(criteria, complete, fs)
           k == IF complete = {} THEN 0 ELSE WeightedMean(criteria, complete, ks)
           total == HalfUp(a * r * f * k, Scale * Scale * Scale)
           c == Confidence(asked, foundation, itsFacts, itsRows, itsChecks, at)
<1>1. /\ c.items = items
      /\ c.total = total
      /\ c.adjusted = IF foundation.utility = None THEN None
                      ELSE HalfUp(foundation.utility * total, Scale)
      /\ c.future <=> \E i \in D : items[i].future
  BY DEF Confidence
<1>2. ASSUME NEW i \in D
      PROVE  /\ items[i].reliability \in 0 .. Scale
             /\ items[i].freshness \in 0 .. Scale
             /\ items[i].consistency \in 0 .. Scale
             /\ items[i].evidence \subseteq itsRows
             /\ items[i].future => \/ \E fact \in itsFacts : fact.normalizedAt > at
                                   \/ \E row \in itsRows : row.captured > at
                                   \/ \E check \in itsChecks : check.checkedAt > at
  <2> DEFINE item == AssessOne(criteria[i], foundation.evaluations[i], itsFacts, itsRows,
                               itsChecks, at)
  <2>1. /\ item.reliability \in 0 .. Scale
        /\ item.freshness \in 0 .. Scale
        /\ item.consistency \in 0 .. Scale
        /\ item.evidence \subseteq itsRows
        /\ item.future => \/ \E fact \in itsFacts : fact.normalizedAt > at
                          \/ \E row \in itsRows : row.captured > at
                          \/ \E check \in itsChecks : check.checkedAt > at
    <3> HIDE DEF criteria
    <3> QED BY AssessmentIs
  <2>2. items[i] = item
    OBVIOUS
  <2> HIDE DEF items, item
  <2> QED BY <2>1, <2>2
<1>3. DOMAIN items = D
  OBVIOUS
<1>4. Scale \in Nat /\ Scale > 0
  BY HalfIs
<1>5. D = {} <=> criteria = <<>>
  BY DEF Sound
<1> HIDE DEF items, c
<1>6. /\ \A i \in D : full[i] \in 0 .. Scale
      /\ \A i \in complete : rs[i] \in 0 .. Scale /\ fs[i] \in 0 .. Scale /\ ks[i] \in 0 .. Scale
      /\ complete \in SUBSET D
  BY <1>2, <1>4
<1> HIDE DEF full, rs, fs, ks, complete
<1>7. a \in 0 .. Scale
  <2>1. D # {} => WeightedMean(criteria, D, full) \in 0 .. Scale
    BY <1>4, <1>6, SomeWeights
  <2> QED BY <1>4, <1>5, <2>1
<1>8. r \in 0 .. Scale /\ f \in 0 .. Scale /\ k \in 0 .. Scale
  <2>1. complete # {} => /\ WeightedMean(criteria, complete, rs) \in 0 .. Scale
                         /\ WeightedMean(criteria, complete, fs) \in 0 .. Scale
                         /\ WeightedMean(criteria, complete, ks) \in 0 .. Scale
    BY <1>4, <1>6, SomeWeights
  <2> QED BY <1>4, <2>1
<1> HIDE DEF a, r, f, k
<1>9. total \in 0 .. Scale
  <2> DEFINE s == Scale
             s2 == s * s
             s3 == s2 * s
             s4 == s3 * s
             n == a * r * f * k
  <2>1. s2 \in Nat /\ s3 \in Nat /\ s3 > 0 /\ s3 \in Int /\ s4 \in Nat
    BY <1>4
  <2>2. a * r \in 0 .. s2
    BY <1>4, <1>7, <1>8, ShareOfShare
  <2> HIDE DEF s2
  <2>3. (a * r) * f \in 0 .. s3
    BY <1>4, <1>8, <2>1, <2>2, ShareOfShare
  <2> HIDE DEF s3
  <2>4. n \in 0 .. s4
    BY <1>4, <1>8, <2>1, <2>3, ShareOfShare
  <2> HIDE DEF n
  <2>5. n \in Int /\ s3 * 0 <= n /\ n <= s3 * s /\ 0 \in Int /\ s \in Int
    BY <1>4, <2>1, <2>4
  <2>6. HalfUp(n, s3) \in Int /\ 0 <= HalfUp(n, s3) /\ HalfUp(n, s3) <= s
    BY <2>1, <2>5, HalfUpBetween
  <2>7. total = HalfUp(n, s3)
    BY DEF n, s3, s2
  <2> HIDE DEF total
  <2> QED BY <1>4, <2>6, <2>7
<1>10. /\ c.total \in 0 .. Scale
       /\ c.adjusted = IF foundation.utility = None THEN None
                       ELSE HalfUp(foundation.utility * c.total, Scale)
       /\ DOMAIN c.items = DOMAIN asked.criteria
       /\ \A i \in DOMAIN asked.criteria : c.items[i].evidence \subseteq itsRows
       /\ c.future => \/ \E fact \in itsFacts : fact.normalizedAt > at
                      \/ \E row \in itsRows : row.captured > at
                      \/ \E check \in itsChecks : check.checkedAt > at
  <2> HIDE DEF total
  <2> QED BY <1>1, <1>2, <1>3, <1>9
<1> QED BY <1>10 DEF c, IsConfidence
-------------------------------------------------------------------------------
(***************************************************************************)
(* Candidates: what the offers of a product cost and what its facts are    *)
(* worth.                                                                  *)
(***************************************************************************)
\* The assessment of an offer that a page was converted to.
LEMMA AssessIs ==
    ASSUME NEW page, IsPage(page), Convertible(page), NEW currency
    PROVE  LET cost == Assess(page, currency)
           IN  /\ cost.offer = page
               /\ cost.price = ComparisonPrice(page)[2] /\ cost.price \in Nat
               /\ cost.risk \in 0 .. 30
               /\ cost.cost \in Nat
               /\ cost.comparable <=> page.stock # "sold_out" /\ page.currency = currency
<1> DEFINE kind == ComparisonPrice(page)[1]
           price == ComparisonPrice(page)[2]
           stockRisk == CASE page.stock = "available" -> 0
                          [] page.stock = "unknown"   -> 4
                          [] page.stock = "sold_out"  -> 10
           sum == StoreRisk[page.store] + PriceRisk[kind] + stockRisk
           risk == IF sum > RiskLimit THEN RiskLimit ELSE sum
           cost == Assess(page, currency)
<1>1. /\ page.store \in DOMAIN SourceOfStore
      /\ page.stock \in {"available", "unknown", "sold_out"}
      /\ page.list \in Optional(Nat) /\ page.displayed \in Optional(Nat)
      /\ page.conditional \in Optional(Nat)
  BY DEF IsPage, PageRecord
<1>2. kind \in DOMAIN PriceRisk /\ price \in Nat
  <2>1. Prices(page) # {}
    BY DEF Convertible
  <2> QED BY <1>1, <2>1 DEF ComparisonPrice, Prices, Given, Optional, PriceRisk
<1>3. StoreRisk[page.store] \in 0 .. 8
  BY <1>1 DEF StoreRisk, SourceOfStore
<1>4. PriceRisk[kind] \in 4 .. 10
  BY <1>2 DEF PriceRisk
<1>5. stockRisk \in 0 .. 10
  BY <1>1
<1>6. /\ cost.offer = page
      /\ cost.price = price
      /\ cost.risk = risk
      /\ cost.cost = price * (Scale + Percent(risk))
      /\ cost.comparable <=> page.stock # "sold_out" /\ page.currency = currency
  BY DEF Assess
<1> HIDE DEF kind, stockRisk, cost
<1>7. risk \in 0 .. 30
  <2> DEFINE x == StoreRisk[page.store]
             y == PriceRisk[kind]
  <2>1. x \in 0 .. 8 /\ y \in 4 .. 10
    BY <1>3, <1>4
  <2>2. sum = x + y + stockRisk
    OBVIOUS
  <2> HIDE DEF x, y, sum
  <2> QED BY <1>5, <2>1, <2>2 DEF RiskLimit
<1> HIDE DEF risk
<1>8. Percent(risk) \in 0 .. Scale /\ Scale \in Nat
  <2>1. risk \in 0 .. 100
    BY <1>7
  <2> QED BY <2>1, PercentIs, HalfIs
<1> DEFINE factor == Scale + Percent(risk)
<1>9. factor \in Nat
  BY <1>8
<1> HIDE DEF price, factor
<1>10. price * factor \in Nat
  BY <1>2, <1>9 DEF price
<1>11. cost.cost \in Nat
  BY <1>6, <1>10 DEF factor
<1>12. /\ cost.offer = page
       /\ cost.price = ComparisonPrice(page)[2] /\ cost.price \in Nat
       /\ cost.risk \in 0 .. 30
       /\ cost.cost \in Nat
       /\ cost.comparable <=> page.stock # "sold_out" /\ page.currency = currency
  BY <1>2, <1>6, <1>7, <1>11 DEF price
<1> QED BY <1>12 DEF cost

ReadyToScore ==
    /\ Sound(request)
    /\ RowsAreSound
    /\ ChecksAreSound
    /\ IsFiniteSet(offers)
    /\ \A page \in offers : IsPage(page) /\ Convertible(page)
    /\ \E day \in Days : day <= today /\ facts = FactsOf(day)

FactsAbout(product) == {fact \in facts : fact.product = product}

\* The facts stored about a product are those normalized from its rows.
LEMMA FactsOfProduct ==
    ASSUME NEW day, facts = FactsOf(day), NEW product \in Collected
    PROVE  FactsAbout(product) = Facts(product, RowsOf(product), day)
<1>1. \A p : Facts(p, RowsOf(p), day) = {FactAbout(p, key, day) : key \in KeysAbout(p)}
  BY FactsAre
<1>2. \A p, key : FactAbout(p, key, day).product = p
  BY DEF FactAbout, Fact
<1>3. ASSUME NEW fact \in FactsAbout(product) PROVE fact \in Facts(product, RowsOf(product), day)
  <2>1. PICK p \in Collected : fact \in Facts(p, RowsOf(p), day)
    BY DEF FactsAbout, FactsOf
  <2>2. fact.product = p /\ fact.product = product
    BY <1>1, <1>2, <2>1 DEF FactsAbout
  <2> QED BY <2>1, <2>2
<1>4. ASSUME NEW fact \in Facts(product, RowsOf(product), day) PROVE fact \in FactsAbout(product)
  <2>1. fact \in facts
    BY DEF FactsOf
  <2>2. fact.product = product
    BY <1>1, <1>2
  <2> QED BY <2>1, <2>2 DEF FactsAbout
<1> QED BY <1>3, <1>4

\* The evaluation of a criterion is a share, resolved when one value was measured.
IsEvaluation(e, product, criterion) ==
    /\ e.score \in 0 .. Scale
    /\ Resolved(e) <=> \E v \in Readings(product, criterion) : Measured(product, criterion, v)
    /\ \A v : Measured(product, criterion, v) =>
          /\ v \in Nat
          /\ Readings(product, criterion) = {v}
          /\ e.status = ScoreValue(v, criterion)[1]
          /\ e.score = ScoreValue(v, criterion)[2]

\* The evaluation of any stored facts of a product is one.
LEMMA EvaluationIs ==
    ASSUME ReadyToScore, NEW product, NEW day, NEW i \in DOMAIN request.criteria
    PROVE  IsEvaluation(Evaluate(request.criteria[i], Facts(product, RowsOf(product), day)),
                        product, request.criteria[i])
<1> DEFINE criterion == request.criteria[i]
           e == Evaluate(criterion, Facts(product, RowsOf(product), day))
<1>1. RowsAreSound /\ IsSound(criterion)
  BY DEF ReadyToScore, Sound
<1> HIDE DEF criterion
<1>2. /\ \A v : Measured(product, criterion, v) =>
                   /\ v \in Nat
                   /\ Readings(product, criterion) = {v}
                   /\ e = [status |-> ScoreValue(v, criterion)[1],
                           score |-> ScoreValue(v, criterion)[2]]
      /\ \/ \E v \in Readings(product, criterion) : Measured(product, criterion, v)
         \/ e.status \in {"missing", "conflict", "unresolved"} /\ e.score = 0
  BY <1>1, ReadingDecides
<1> HIDE DEF e
<1>3. \A v : Measured(product, criterion, v) =>
                /\ v \in Nat
                /\ Readings(product, criterion) = {v}
                /\ e.status = ScoreValue(v, criterion)[1]
                /\ e.score = ScoreValue(v, criterion)[2]
  BY <1>2
<1>4. \A v \in Nat : /\ ScoreValue(v, criterion)[1] \in {"satisfied", "unsatisfied"}
                     /\ ScoreValue(v, criterion)[2] \in 0 .. Scale
  <2> TAKE v \in Nat
  <2>1. CASE Within(v, criterion)
    <3>1. ScoreValue(v, criterion) = <<"satisfied", SatisfiedScore(v, criterion)>>
      BY <1>1, <2>1, ScoreValueIs
    <3> QED BY <1>1, <3>1, ScoreValueIs
  <2>2. CASE ~Within(v, criterion)
    BY <1>1, <2>2, ScoreValueIs
  <2> QED BY <2>1, <2>2
<1>5. CASE \E v \in Readings(product, criterion) : Measured(product, criterion, v)
  <2>1. PICK v \in Readings(product, criterion) : Measured(product, criterion, v)
    BY <1>5
  <2>2. Resolved(e) /\ e.score \in 0 .. Scale
    BY <1>3, <1>4, <2>1 DEF Resolved
  <2> QED BY <1>3, <2>1, <2>2 DEF e, criterion, IsEvaluation
<1>6. CASE ~\E v \in Readings(product, criterion) : Measured(product, criterion, v)
  <2>1. e.status \in {"missing", "conflict", "unresolved"} /\ e.score = 0
    BY <1>2, <1>6
  <2>2. ~Resolved(e) /\ e.score \in 0 .. Scale
    BY <2>1, HalfIs DEF Resolved
  <2> QED BY <1>3, <1>6, <2>2 DEF e, criterion, IsEvaluation
<1> QED BY <1>5, <1>6

ItsOffers(product) == {offer \in offers : offer.product = product}
ItsChecks(product) == {check \in checks : check.product = product}

ConfidenceIn(product, day) ==
    Confidence(request, Candidate(product, day).foundation, FactsAbout(product),
               RowsOf(product), ItsChecks(product), day)

EvaluationsIn(product) ==
    [i \in DOMAIN request.criteria |-> Evaluate(request.criteria[i], FactsAbout(product))]

UtilityIn(evaluations) ==
    IF request.criteria = <<>> THEN None
    ELSE WeightedMean(request.criteria, DOMAIN request.criteria,
                      [i \in DOMAIN request.criteria |-> evaluations[i].score])

HardIsMetIn(evaluations) ==
    \A i \in DOMAIN request.criteria :
       request.criteria[i].hard => evaluations[i].status = "satisfied"

\* What a candidate consists of.
LEMMA CandidateParts ==
    ASSUME NEW product, NEW day
    PROVE  LET c == Candidate(product, day)
           IN  /\ c.product = product
               /\ c.foundation.evaluations = EvaluationsIn(product)
               /\ c.foundation.utility = UtilityIn(EvaluationsIn(product))
               /\ c.foundation.hardMet = HardIsMetIn(EvaluationsIn(product))
               /\ c.foundation.best = BestOffers(ItsOffers(product), request.currency)
               /\ c.confidence = ConfidenceIn(product, day)
BY DEF Candidate, Foundation, FactsAbout, ItsOffers, ItsChecks, ConfidenceIn, EvaluationsIn,
       UtilityIn, HardIsMetIn

\* The best offer is one of the product that can be had, in the currency of the budget.
LEMMA BestIsOffer ==
    ASSUME NEW product, NEW currency, NEW cost \in BestOffers(ItsOffers(product), currency)
    PROVE  \E page \in offers : /\ page.product = product
                                /\ cost = Assess(page, currency)
                                /\ cost.comparable
BY DEF BestOffers, ItsOffers

\* The numbers of a candidate.
LEMMA CandidateIs ==
    ASSUME ReadyToScore, NEW product \in Collected, NEW day \in Int
    PROVE  LET c == Candidate(product, day)
           IN  /\ \A i \in DOMAIN request.criteria : c.foundation.evaluations[i].score \in 0 .. Scale
               /\ c.foundation.utility = None \/ c.foundation.utility \in 0 .. Scale
               /\ c.confidence.total \in 0 .. Scale
               /\ c.foundation.utility # None => c.confidence.adjusted \in Int
               /\ DOMAIN c.confidence.items = DOMAIN request.criteria
               /\ \A i \in DOMAIN request.criteria :
                     c.confidence.items[i].evidence \subseteq RowsOf(product)
               /\ c.confidence.future => \/ \E fact \in FactsAbout(product) : fact.normalizedAt > day
                                         \/ \E row \in rows : row.captured > day
                                         \/ \E check \in checks : check.checkedAt > day
<1> DEFINE c == Candidate(product, day)
           D == DOMAIN request.criteria
           conf == ConfidenceIn(product, day)
           found == EvaluationsIn(product)
<1>1. PICK d \in Days : facts = FactsOf(d)
  BY DEF ReadyToScore
<1>2. FactsAbout(product) = Facts(product, RowsOf(product), d)
  BY <1>1, FactsOfProduct
<1>3. /\ c.foundation.evaluations = found
      /\ c.foundation.utility = UtilityIn(found)
      /\ c.confidence = conf
  BY CandidateParts
<1>4. Sound(request) /\ RowsAreSound /\ ChecksAreSound
  BY DEF ReadyToScore
<1>5. Scale \in Nat /\ Scale > 0
  BY HalfIs
<1> HIDE DEF c, found
<1>6. ASSUME NEW i \in D PROVE found[i].score \in 0 .. Scale
  <2>1. Evaluate(request.criteria[i], Facts(product, RowsOf(product), d)).score \in 0 .. Scale
    BY EvaluationIs DEF IsEvaluation
  <2>2. found[i] = Evaluate(request.criteria[i], FactsAbout(product))
    BY DEF EvaluationsIn, found
  <2> QED BY <1>2, <2>1, <2>2
<1>7. c.foundation.utility = None \/ c.foundation.utility \in 0 .. Scale
  <2> DEFINE values == [i \in D |-> found[i].score]
  <2>1. \A i \in D : values[i] \in 0 .. Scale
    BY <1>6
  <2>2. request.criteria # <<>> => D # {}
    BY <1>4 DEF Sound
  <2>4. UtilityIn(found) = IF request.criteria = <<>> THEN None
                           ELSE WeightedMean(request.criteria, D, values)
    BY DEF UtilityIn
  <2> HIDE DEF values
  <2>3. D # {} => WeightedMean(request.criteria, D, values) \in 0 .. Scale
    BY <1>4, <1>5, <2>1, SomeWeights
  <2> QED BY <1>3, <2>2, <2>3, <2>4
<1>8. /\ c.confidence.total \in 0 .. Scale
      /\ c.confidence.adjusted = IF c.foundation.utility = None THEN None
                                 ELSE HalfUp(c.foundation.utility * c.confidence.total, Scale)
      /\ DOMAIN c.confidence.items = D
      /\ \A i \in D : c.confidence.items[i].evidence \subseteq RowsOf(product)
      /\ c.confidence.future => \/ \E fact \in FactsAbout(product) : fact.normalizedAt > day
                                \/ \E row \in RowsOf(product) : row.captured > day
                                \/ \E check \in ItsChecks(product) : check.checkedAt > day
  <2>1. RowsOf(product) \in SUBSET rows /\ ItsChecks(product) \in SUBSET checks
    BY DEF RowsOf, ItsChecks
  <2>2. /\ conf.total \in 0 .. Scale
        /\ conf.adjusted = IF c.foundation.utility = None THEN None
                           ELSE HalfUp(c.foundation.utility * conf.total, Scale)
        /\ DOMAIN conf.items = D
        /\ \A i \in D : conf.items[i].evidence \subseteq RowsOf(product)
        /\ conf.future => \/ \E fact \in FactsAbout(product) : fact.normalizedAt > day
                          \/ \E row \in RowsOf(product) : row.captured > day
                          \/ \E check \in ItsChecks(product) : check.checkedAt > day
    <3> DEFINE F == FactsAbout(product)
               R == RowsOf(product)
               K == ItsChecks(product)
               it == c.foundation
               raw == Confidence(request, it, F, R, K, day)
    <3>1. conf = raw
      BY DEF ConfidenceIn, c
    <3> HIDE DEF F, R, K, it, conf
    <3>2. R \in SUBSET rows /\ K \in SUBSET checks
      BY <2>1 DEF R, K
    <3>3. IsConfidence(raw, request, it, F, R, K, day)
      BY <1>4, <3>2, ConfidenceIs
    <3> HIDE DEF raw
    <3> QED BY <3>1, <3>3 DEF F, R, K, it, IsConfidence
  <2> HIDE DEF conf
  <2> QED BY <1>3, <2>2
<1>9. RowsOf(product) \subseteq rows /\ ItsChecks(product) \subseteq checks
  BY DEF RowsOf, ItsChecks
<1>10. c.foundation.utility # None => c.confidence.adjusted \in Int
  <2> DEFINE u == c.foundation.utility
             t == c.confidence.total
  <2>1. ASSUME u \in 0 .. Scale PROVE HalfUp(u * t, Scale) \in Int
    <3>1. t \in 0 .. Scale
      BY <1>8
    <3> HIDE DEF u, t
    <3>2. 2 * (u * t) + Scale \in Int /\ 2 * Scale \in Int /\ 2 * Scale > 0
      BY <1>5, <2>1, <3>1
    <3> QED BY <3>2, QuotientIs DEF HalfUp
  <2> QED BY <1>7, <1>8, <2>1
<1>11. /\ \A i \in D : c.foundation.evaluations[i].score \in 0 .. Scale
       /\ c.foundation.utility = None \/ c.foundation.utility \in 0 .. Scale
       /\ c.confidence.total \in 0 .. Scale
       /\ c.foundation.utility # None => c.confidence.adjusted \in Int
       /\ DOMAIN c.confidence.items = D
       /\ \A i \in D : c.confidence.items[i].evidence \subseteq RowsOf(product)
       /\ c.confidence.future => \/ \E fact \in FactsAbout(product) : fact.normalizedAt > day
                                 \/ \E row \in rows : row.captured > day
                                 \/ \E check \in checks : check.checkedAt > day
  BY <1>3, <1>6, <1>7, <1>8, <1>9, <1>10
<1> QED BY <1>11 DEF c

\* What it takes not to be excluded.
LEMMA NotExcluded ==
    ASSUME NEW asked, NEW c, Exclusions(asked, c) = {}
    PROVE  /\ c.foundation.utility # None
           /\ c.foundation.hardMet
           /\ HasBest(c)
           /\ ~(Best(c).cost <= 0)
           /\ BudgetStatus(asked, c) # "over_budget"
<1> DEFINE E == Exclusions(asked, c)
           Applies(code) ==
               CASE code = "criteria_not_defined" -> c.foundation.utility = None
                 [] code = "hard_requirements_unmet" -> ~c.foundation.hardMet
                 [] code = "no_comparable_offer" -> ~HasBest(c)
                 [] code = "nonpositive_effective_cost" -> HasBest(c) /\ Best(c).cost <= 0
                 [] code = "over_budget" -> BudgetStatus(asked, c) = "over_budget"
                 [] code = "evidence_confidence_zero" -> c.confidence.total <= 0
<1>1. \A code \in {"criteria_not_defined", "hard_requirements_unmet", "no_comparable_offer",
                   "nonpositive_effective_cost", "over_budget", "evidence_confidence_zero"} :
         ~Applies(code)
  BY DEF Exclusions
<1>2. ~Applies("criteria_not_defined") => c.foundation.utility # None
  OBVIOUS
<1>3. ~Applies("hard_requirements_unmet") => c.foundation.hardMet
  OBVIOUS
<1>4. ~Applies("no_comparable_offer") => HasBest(c)
  OBVIOUS
<1>5. ~Applies("nonpositive_effective_cost") => ~(HasBest(c) /\ Best(c).cost <= 0)
  OBVIOUS
<1>6. ~Applies("over_budget") => BudgetStatus(asked, c) # "over_budget"
  OBVIOUS
<1> HIDE DEF Applies
<1> QED BY <1>1, <1>2, <1>3, <1>4, <1>5, <1>6

\* The fields of a draft.
LEMMA DraftFields ==
    ASSUME NEW asked, NEW c
    PROVE  LET draft == Draft(asked, c)
               ranked == Exclusions(asked, c) = {}
           IN  /\ DOMAIN draft = ScoreFields
               /\ draft.product = c.product
               /\ draft.budget = BudgetStatus(asked, c)
               /\ draft.eligible = ranked
               /\ draft.best = c.foundation.best
               /\ draft.evaluations = c.foundation.evaluations
               /\ draft.cited = UNION {item.evidence : item \in Range(c.confidence.items)}
               /\ draft.adjusted = c.confidence.adjusted
               /\ draft.confidence = c.confidence.total
               /\ draft.cost = IF HasBest(c) THEN Best(c).cost ELSE None
               /\ draft.per100 = IF ranked THEN ValuePer100(c) ELSE None
               /\ draft.final = IF ranked THEN FinalScore(c) ELSE None
               /\ draft.front = None
               /\ draft.rank = None
BY DEF Draft, ScoreFields

\* A rounded quotient is an integer.
LEMMA HalfUpIsInt ==
    ASSUME NEW n \in Int, NEW d \in Int, d > 0
    PROVE  HalfUp(n, d) \in Int
<1>1. 2 * n + d \in Int /\ 2 * d \in Int /\ 2 * d > 0
  OBVIOUS
<1> QED BY <1>1, QuotientIs DEF HalfUp

\* The final score of a candidate is a number.
LEMMA FinalIsInt ==
    ASSUME NEW c, c.foundation.utility \in Int, c.confidence.total \in Int, Best(c).risk \in 0 .. 30
    PROVE  FinalScore(c) \in Int
<1> DEFINE raw == 75 * c.foundation.utility + 25 * c.confidence.total - 100 * Percent(Best(c).risk)
           top == 100 * Scale
           A == {top, raw}
           B == {0, Min(A)}
<1>1. Percent(Best(c).risk) \in Int
  <2>1. Best(c).risk \in 0 .. 100
    OBVIOUS
  <2> QED BY <2>1, PercentIs, HalfIs
<1>2. raw \in Int /\ top \in Int
  BY <1>1, HalfIs
<1>3. FinalScore(c) = Max(B)
  BY DEF FinalScore
<1> HIDE DEF raw, top
<1>4. A \subseteq Int /\ A # {}
  BY <1>2
<1>5. IsFiniteSet(A)
  <2>1. A = ({} \cup {top}) \cup {raw}
    OBVIOUS
  <2> HIDE DEF A
  <2> QED BY <2>1, FS_EmptySet, FS_AddElement
<1>6. Min(A) \in Int
  <2> HIDE DEF A
  <2> QED BY <1>4, <1>5, LeastOfFinite
<1>7. B \subseteq Int /\ B # {}
  BY <1>6
<1>8. Max(B) \in Int
  <2> DEFINE n == IF Min(A) >= 0 THEN Min(A) ELSE 0
  <2>1. n \in Int /\ \A x \in B : x <= n
    BY <1>6
  <2> HIDE DEF B, n
  <2>2. Max(B) \in B
    BY <1>7, <2>1, GreatestOfBounded
  <2> QED BY <1>7, <2>2
<1> QED BY <1>3, <1>8

DraftOf(product, day) == Draft(request, Candidate(product, day))

\* The best offer of a candidate.
LEMMA BestIs ==
    ASSUME ReadyToScore, NEW product \in Collected, NEW day, HasBest(Candidate(product, day))
    PROVE  LET best == Best(Candidate(product, day))
           IN  /\ best.cost \in Nat
               /\ best.price \in Nat
               /\ best.risk \in 0 .. 30
               /\ \E page \in offers : /\ page.product = product
                                       /\ page.stock # "sold_out"
                                       /\ page.currency = request.currency
                                       /\ best.price = ComparisonPrice(page)[2]
<1> DEFINE c == Candidate(product, day)
           best == Best(c)
<1>1. c.foundation.best = BestOffers(ItsOffers(product), request.currency)
  BY CandidateParts
<1>2. best \in c.foundation.best
  BY DEF Best, HasBest
<1> HIDE DEF c, best
<1>3. PICK page \in offers : /\ page.product = product
                             /\ best = Assess(page, request.currency)
                             /\ best.comparable
  BY <1>1, <1>2, BestIsOffer
<1>4. IsPage(page) /\ Convertible(page)
  BY DEF ReadyToScore
<1>5. /\ best.price = ComparisonPrice(page)[2] /\ best.price \in Nat
      /\ best.risk \in 0 .. 30
      /\ best.cost \in Nat
      /\ best.comparable <=> page.stock # "sold_out" /\ page.currency = request.currency
  BY <1>3, <1>4, AssessIs
<1> QED BY <1>3, <1>5 DEF best, c

\* A draft is as the ranking expects it.
LEMMA DraftIs ==
    ASSUME ReadyToScore, NEW product \in Collected, NEW day \in Int
    PROVE  IsDraft(DraftOf(product, day)) /\ DraftOf(product, day).product = product
<1> DEFINE c == Candidate(product, day)
           draft == DraftOf(product, day)
           ranked == Exclusions(request, c) = {}
<1>1. /\ DOMAIN draft = ScoreFields
      /\ draft.product = c.product
      /\ draft.budget = BudgetStatus(request, c)
      /\ draft.eligible = ranked
      /\ draft.adjusted = c.confidence.adjusted
      /\ draft.confidence = c.confidence.total
      /\ draft.cost = IF HasBest(c) THEN Best(c).cost ELSE None
      /\ draft.per100 = IF ranked THEN ValuePer100(c) ELSE None
      /\ draft.final = IF ranked THEN FinalScore(c) ELSE None
      /\ draft.front = None
      /\ draft.rank = None
  BY DraftFields DEF DraftOf
<1>2. c.product = product
  BY CandidateParts
<1>3. product \in Int
  BY DEF Collected, ReadyToScore, IsPage, PageRecord
<1>4. /\ c.foundation.utility = None \/ c.foundation.utility \in 0 .. Scale
      /\ c.confidence.total \in 0 .. Scale
      /\ c.foundation.utility # None => c.confidence.adjusted \in Int
  BY CandidateIs
<1>5. HasBest(c) => /\ Best(c).cost \in Nat
                    /\ Best(c).risk \in 0 .. 30
  BY BestIs
<1> HIDE DEF c, draft
<1>6. draft.eligible \in BOOLEAN
  BY <1>1
<1>7. ASSUME ranked
      PROVE  /\ draft.adjusted \in Int
             /\ draft.confidence \in Int
             /\ draft.cost \in Int
             /\ draft.cost > 0
             /\ draft.per100 \in Int
             /\ draft.final \in Int
             /\ draft.budget \in {"within_budget", "within_stretch"}
  <2>1. /\ c.foundation.utility # None
        /\ HasBest(c)
        /\ ~(Best(c).cost <= 0)
        /\ BudgetStatus(request, c) # "over_budget"
    BY <1>7, NotExcluded
  <2>2. Scale \in Nat /\ Scale > 0 /\ IndexScale \in Nat /\ IndexScale > 0
    BY HalfIs, IndexScaleAssumption
  <2>3. c.foundation.utility \in Int /\ c.confidence.total \in Int /\ c.confidence.adjusted \in Int
    BY <1>4, <2>1, <2>2
  <2>4. Best(c).cost \in Int /\ Best(c).cost > 0 /\ Best(c).risk \in 0 .. 30
    BY <1>5, <2>1
  <2>5. draft.budget \in {"within_budget", "within_stretch"}
    BY <1>1, <2>1 DEF BudgetStatus
  <2>6. FinalScore(c) \in Int
    BY <2>3, <2>4, FinalIsInt
  <2>7. ValueIndex(c) \in Int
    <3> DEFINE n == c.confidence.adjusted * IndexScale
               d == Best(c).cost
    <3>1. n \in Int /\ d \in Int /\ d > 0
      BY <2>2, <2>3, <2>4
    <3>2. ValueIndex(c) = HalfUp(n, d)
      BY DEF ValueIndex
    <3> HIDE DEF n, d
    <3> QED BY <3>1, <3>2, HalfUpIsInt
  <2>8. ValuePer100(c) \in Int
    <3> DEFINE v == ValueIndex(c)
               n == v * 100 * Scale
    <3>1. n \in Int /\ IndexScale \in Int /\ IndexScale > 0
      <4> HIDE DEF v
      <4>1. v \in Int
        BY <2>7 DEF v
      <4> QED BY <2>2, <4>1
    <3>2. ValuePer100(c) = HalfUp(n, IndexScale)
      BY DEF ValuePer100
    <3> HIDE DEF n
    <3> QED BY <3>1, <3>2, HalfUpIsInt
  <2> QED BY <1>1, <1>7, <2>1, <2>3, <2>4, <2>5, <2>6, <2>8
<1>8. IsDraft(draft)
  BY <1>1, <1>2, <1>3, <1>6, <1>7 DEF IsDraft
<1> QED BY <1>1, <1>2, <1>8 DEF draft
-------------------------------------------------------------------------------
(***************************************************************************)
(* The scores of a day: the ranking of the drafts of every product.        *)
(***************************************************************************)
DraftsOn(day) == {DraftOf(product, day) : product \in Collected}
ScoresOn(day) == Scores(request, Candidates(day))

\* The drafts are as the ranking expects them, and the scores are their ranking.
LEMMA ScoresAreRanking ==
    ASSUME ReadyToScore, NEW day \in Int
    PROVE  /\ AreDrafts(DraftsOn(day))
           /\ \E source : IsRanking(DraftsOn(day), source, ScoresOn(day))
<1> DEFINE drafts == DraftsOn(day)
           f == [page \in offers |-> page.product]
           g == [product \in Collected |-> DraftOf(product, day)]
<1>1. ScoresOn(day) = Ranking(drafts)
  <2>1. {Draft(request, candidate) : candidate \in Candidates(day)} = drafts
    BY DEF DraftsOn, Candidates, DraftOf
  <2> QED BY <2>1 DEF Scores, ScoresOn
<1>2. IsFiniteSet(Collected)
  <2>1. Maps(offers, f, Collected)
    BY DEF Maps, Collected
  <2>2. IsFiniteSet(offers)
    BY DEF ReadyToScore
  <2> HIDE DEF f
  <2> QED BY <2>1, <2>2, ImageIsFinite
<1>3. IsFiniteSet(drafts)
  <2>1. Maps(Collected, g, drafts)
    BY DEF Maps, DraftsOn
  <2> HIDE DEF g, drafts
  <2> QED BY <1>2, <2>1, ImageIsFinite
<1>4. \A product \in Collected :
         IsDraft(DraftOf(product, day)) /\ DraftOf(product, day).product = product
  BY DraftIs
<1>5. AreDrafts(drafts)
  <2>1. \A draft \in drafts : IsDraft(draft)
    BY <1>4 DEF DraftsOn
  <2>2. ASSUME NEW a \in drafts, NEW b \in drafts, a.product = b.product PROVE a = b
    <3>1. PICK p \in Collected : a = DraftOf(p, day)
      BY DEF DraftsOn
    <3>2. PICK q \in Collected : b = DraftOf(q, day)
      BY DEF DraftsOn
    <3> QED BY <1>4, <2>2, <3>1, <3>2
  <2> HIDE DEF drafts
  <2> QED BY <1>3, <2>1, <2>2 DEF AreDrafts
<1> HIDE DEF drafts
<1>6. \E source : IsRanking(drafts, source, ScoresOn(day))
  BY <1>1, <1>5, RankingIs
<1> QED BY <1>5, <1>6 DEF drafts

IsScoreOfProduct(score, product, day) ==
    LET draft == DraftOf(product, day)
    IN  /\ score.product = product
        /\ score.evaluations = Candidate(product, day).foundation.evaluations
        /\ score.confidence = Candidate(product, day).confidence.total
        /\ score.eligible = draft.eligible

\* Every score is that of a product, and every product has one.
LEMMA ScoreOfProduct ==
    ASSUME ReadyToScore, NEW day \in Int
    PROVE  /\ \A score \in Range(ScoresOn(day)) :
                 \E product \in Collected : IsScoreOfProduct(score, product, day)
           /\ \A product \in Collected :
                 \E score \in Range(ScoresOn(day)) : score.product = product
<1> DEFINE drafts == DraftsOn(day)
           scores == ScoresOn(day)
           N == Cardinality(drafts)
<1>1. PICK source : AreDrafts(drafts) /\ IsRanking(drafts, source, scores)
  BY ScoresAreRanking
<1> HIDE DEF scores
<1>2. Lists(drafts, source) /\ DOMAIN scores = 1 .. N
  BY <1>1 DEF IsRanking
<1>3. ASSUME NEW i \in 1 .. N
      PROVE  \E product \in Collected : IsScoreOfProduct(scores[i], product, day)
                                        /\ source[i] = DraftOf(product, day)
  <2>1. IsScoreAt(drafts, source, scores, i)
    <3> HIDE DEF drafts
    <3> QED BY <1>1, <1>3, ScoresAre DEF N
  <2>2. PICK product \in Collected : source[i] = DraftOf(product, day)
    BY <2>1 DEF IsScoreAt, DraftsOn
  <2>3. /\ scores[i].product = source[i].product
        /\ scores[i].evaluations = source[i].evaluations
        /\ scores[i].confidence = source[i].confidence
    BY <2>1 DEF IsScoreAt, ScoreFields
  <2>4. scores[i].eligible = source[i].eligible
    <3>1. source[i] \in drafts /\ source[i].eligible \in BOOLEAN
      BY <2>1, <1>1 DEF IsScoreAt, AreDrafts, IsDraft
    <3> HIDE DEF drafts
    <3> QED BY <2>1, <3>1 DEF IsScoreAt, Eligible
  <2>5. /\ source[i].product = product
        /\ source[i].evaluations = Candidate(product, day).foundation.evaluations
        /\ source[i].confidence = Candidate(product, day).confidence.total
    BY <2>2, DraftFields, CandidateParts DEF DraftOf
  <2> QED BY <2>2, <2>3, <2>4, <2>5 DEF IsScoreOfProduct
<1>4. Range(scores) = {scores[i] : i \in 1 .. N}
  BY <1>2 DEF Range
<1>5. ASSUME NEW product \in Collected PROVE \E score \in Range(scores) : score.product = product
  <2>1. PICK i \in 1 .. N : source[i] = DraftOf(product, day)
    BY <1>2 DEF Lists, DraftsOn
  <2>2. PICK p \in Collected : IsScoreOfProduct(scores[i], p, day) /\ source[i] = DraftOf(p, day)
    BY <1>3
  <2>3. p = product
    BY <2>1, <2>2, DraftIs
  <2> QED BY <1>4, <2>2, <2>3 DEF IsScoreOfProduct
<1> QED BY <1>3, <1>4, <1>5 DEF scores

\* What a score cites is stored, and its best offer is one of its product's.
LEMMA CitationsAreStored ==
    ASSUME ReadyToScore, NEW day \in Int, NEW draft \in DraftsOn(day)
    PROVE  /\ draft.cited \subseteq {row \in rows : row.product = draft.product}
           /\ \A cost \in draft.best : cost.offer \in offers /\ cost.offer.product = draft.product
<1>1. PICK product \in Collected : draft = DraftOf(product, day)
  BY DEF DraftsOn
<1> DEFINE c == Candidate(product, day)
<1>2. /\ draft.product = c.product
      /\ draft.best = c.foundation.best
      /\ draft.cited = UNION {item.evidence : item \in Range(c.confidence.items)}
  BY <1>1, DraftFields DEF DraftOf
<1>3. c.product = product /\ c.foundation.best = BestOffers(ItsOffers(product), request.currency)
  BY CandidateParts
<1>4. \A i \in DOMAIN c.confidence.items : c.confidence.items[i].evidence \subseteq RowsOf(product)
  BY CandidateIs
<1> HIDE DEF c
<1>5. draft.cited \subseteq RowsOf(product)
  BY <1>2, <1>4 DEF Range
<1>6. ASSUME NEW cost \in draft.best
      PROVE  cost.offer \in offers /\ cost.offer.product = product
  <2>1. PICK page \in offers : page.product = product /\ cost = Assess(page, request.currency)
    BY <1>2, <1>3, <1>6, BestIsOffer
  <2>2. cost.offer = page
    BY <2>1 DEF Assess
  <2> QED BY <2>1, <2>2
<1> QED BY <1>2, <1>3, <1>5, <1>6 DEF RowsOf

\* No batch refuses itself, the stored set gives it back, and no report is refused.
LEMMA NothingIsRefused ==
    ASSUME ReadyToScore, NEW day \in Int
    PROVE  /\ BatchIsConsistent(ScoresOn(day))
           /\ StableScores(Range(ScoresOn(day))) = ScoresOn(day)
           /\ ReportIsBuildable(ScoresOn(day), rows, offers)
<1> DEFINE drafts == DraftsOn(day)
           scores == ScoresOn(day)
           Cites(draft) ==
               /\ draft.cited \subseteq {row \in rows : row.product = draft.product}
               /\ \A cost \in draft.best :
                     cost.offer \in offers /\ cost.offer.product = draft.product
<1>1. PICK source : AreDrafts(drafts) /\ IsRanking(drafts, source, scores)
  BY ScoresAreRanking
<1>2. ASSUME NEW draft \in drafts PROVE Cites(draft)
  BY CitationsAreStored
<1> HIDE DEF drafts, scores
<1>3. BatchIsConsistent(scores)
  BY <1>1, BatchesAreConsistent
<1>4. StableScores(Range(scores)) = scores
  BY <1>1, StableScoresAreTheRanking
<1>5. ReportIsBuildable(scores, rows, offers)
  BY <1>1, <1>2, ReportsAreBuildable
<1> QED BY <1>3, <1>4, <1>5 DEF scores

\* Checks and facts made by today are not from the future of a later day: what
\* is, is a row.
LEMMA OnlyRowsAreAhead ==
    ASSUME ReadyToScore, NEW day \in Int, today \in Int, today <= day, Days \subseteq Int,
           \A check \in checks : check.checkedAt \in Int /\ check.checkedAt <= today,
           NEW candidate \in Candidates(day), candidate.confidence.future
    PROVE  \E row \in rows : row.captured > day
<1>1. PICK product \in Collected : candidate = Candidate(product, day)
  BY DEF Candidates
<1>2. PICK d \in Days : d <= today /\ facts = FactsOf(d)
  BY DEF ReadyToScore
<1>3. FactsAbout(product) = Facts(product, RowsOf(product), d)
  BY <1>2, FactsOfProduct
<1>4. \A fact \in FactsAbout(product) : fact.normalizedAt = d
  BY <1>3, FactsAre DEF FactAbout, Fact
<1>5. candidate.confidence.future => \/ \E fact \in FactsAbout(product) : fact.normalizedAt > day
                                     \/ \E row \in rows : row.captured > day
                                     \/ \E check \in checks : check.checkedAt > day
  BY <1>1, CandidateIs
<1>6. d \in Int
  BY <1>2
<1> QED BY <1>2, <1>4, <1>5, <1>6

\* A request that passed the review has the bounds and weights that scoring reads.
LEMMA ReviewedIsSound ==
    ASSUME NEW asked \in Requests, Ready(asked.criteria)
    PROVE  Sound(asked) /\ \A i \in DOMAIN asked.criteria : BoundsAreSound(asked.criteria[i])
<1> DEFINE criteria == asked.criteria
           D == DOMAIN criteria
           One == [key : STRING, weight : Nat \ {0}, hard : BOOLEAN, minimum : Bound,
                   preferred : Bound, maximum : Bound, unit : Optional(STRING)]
<1>1. asked \in RequestRecord /\ (Given(asked.stretch) => asked.stretch >= asked.maximum)
  BY RequestsAssumption
<1>2. criteria \in Seq(One) /\ asked.maximum \in Nat /\ asked.stretch \in Optional(Nat)
  BY <1>1 DEF RequestRecord, Criteria
<1> HIDE DEF One
<1>3. D = 1 .. Len(criteria) /\ Len(criteria) \in Nat /\ \A i \in D : criteria[i] \in One
  BY <1>2
<1>4. IsFiniteSet(D)
  <2>1. 1 \in Int /\ Len(criteria) \in Int
    BY <1>3
  <2> HIDE DEF criteria, D
  <2>2. IsFiniteSet(1 .. Len(criteria))
    BY <2>1, FS_Interval
  <2> QED BY <1>3, <2>2
<1>5. D = {} <=> criteria = <<>>
  BY <1>2, <1>3, EmptySeq
<1>6. ASSUME NEW i \in D
      PROVE  /\ criteria[i].weight \in Int /\ criteria[i].weight > 0
             /\ IsSound(criteria[i])
             /\ BoundsAreSound(criteria[i])
  <2> DEFINE c == criteria[i]
  <2>1. c \in One
    BY <1>3
  <2>2. c.weight \in Int /\ c.weight > 0
    BY <2>1 DEF One
  <2>3. c.minimum \in Bound /\ c.preferred \in Bound /\ c.maximum \in Bound
    BY <2>1 DEF One
  <2>4. BoundsAreSound(c)
    BY DEF Ready, Blocking
  <2> HIDE DEF c
  <2>5. \A bound \in {c.minimum, c.preferred, c.maximum} \ {None} : bound # NaN /\ bound >= 0
    BY <2>4 DEF BoundsAreSound, Bounds
  <2>6. \A bound \in Bound : (bound = None \/ (bound # NaN /\ bound >= 0)) => bound \in Optional(Nat)
    BY DEF Bound, Optional
  <2>7. IsSound(c)
    BY <2>3, <2>4, <2>5, <2>6 DEF IsSound
  <2> QED BY <2>2, <2>4, <2>7 DEF c
<1> QED BY <1>1, <1>2, <1>4, <1>5, <1>6 DEF Sound
-------------------------------------------------------------------------------
(***************************************************************************)
(* The invariant is inductive.                                             *)
(***************************************************************************)
Stages == Phases \ {"new"}

\* The pages that were collected are pages, finitely many.
LEMMA CollectedPages ==
    ASSUME NEW found \in PageSets \cup {{}}
    PROVE  IsFiniteSet(found) /\ \A page \in found : IsPage(page)
BY PageSetsAssumption, FS_EmptySet DEF IsPage

\* Where scoring starts, what it reads is sound.
LEMMA InvariantIsReady ==
    ASSUME IInv, Normalized
    PROVE  ReadyToScore
<1>1. Reviewed /\ Offered
  BY DEF Normalized, Scored, Rendered, Reviewed, Offered
<1>2. request \in Requests /\ Ready(request.criteria)
  BY <1>1 DEF IInv, RequestInv
<1>3. Sound(request)
  BY <1>2, ReviewedIsSound
<1>4. offers = pages /\ pages \in PageSets \cup {{}} /\ \A page \in offers : Convertible(page)
  BY <1>1 DEF IInv, PagesInv
<1>5. IsFiniteSet(offers) /\ \A page \in offers : IsPage(page)
  BY <1>4, CollectedPages
<1>6. RowsAreSound /\ ChecksAreSound
  BY DEF IInv, RowsInv, RowsAreSound, ChecksAreSound
<1>7. \E day \in Days : day <= today /\ facts = FactsOf(day)
  BY DEF IInv, FactsInv
<1> QED BY <1>3, <1>4, <1>5, <1>6, <1>7 DEF ReadyToScore

\* What is made of the same data is the same.
LEMMA SameData ==
    ASSUME UNCHANGED <<request, offers, rows, checks, facts>>
    PROVE  /\ Collected' = Collected
           /\ \A day : FactsOf(day)' = FactsOf(day) /\ Candidates(day)' = Candidates(day)
<1>1. Collected' = Collected
  BY DEF Collected
<1>2. ASSUME NEW day PROVE FactsOf(day)' = FactsOf(day) /\ Candidates(day)' = Candidates(day)
  <2>1. FactsOf(day)' = FactsOf(day)
    BY <1>1 DEF FactsOf, RowsOf
  <2>2. Candidates(day)' = Candidates(day)
    BY <1>1 DEF Candidates, Candidate, RowsOf
  <2> QED BY <2>1, <2>2
<1> QED BY <1>1, <1>2

\* At the start nothing is stored.
LEMMA InitInv == Init => IInv
<1> SUFFICES ASSUME Init PROVE IInv
  OBVIOUS
<1>1. today \in Days
  BY DaysAssumption, LeastOfFinite DEF Init
<1>2. phase \in Phases /\ reference \in {{}} \cup {{r} : r \in References}
  BY DEF Init, Phases
<1>3. ~Reviewed /\ ~Rendered /\ ~Scored /\ ~Normalized /\ ~Offered
  BY DEF Init, Reviewed, Rendered, Scored, Normalized, Offered
<1>4. RequestInv /\ PagesInv /\ RowsInv /\ FactsInv /\ ScoresInv /\ ReportInv
  BY <1>3, FS_EmptySet
     DEF Init, RequestInv, PagesInv, RowsInv, FactsInv, ScoresInv, ReportInv
<1>5. WhatWasAcceptedIsNotRefused
  BY DEF Init, WhatWasAcceptedIsNotRefused
<1> QED BY <1>1, <1>2, <1>4, <1>5 DEF IInv

\* The errors that are no late refusal, and the one that a page explains.
MayBeRaised(code) ==
    /\ code \notin {"criterion_definition", "ranking_batch", "report_input"}
    /\ code = "evidence_timeline" => \E page \in offers : page.captured > today

\* A call that raises changes nothing but the error.
LEMMA RaiseKeepsInv ==
    ASSUME IInv, NEW code, Raise(code), MayBeRaised(code)
    PROVE  IInv'
<1> USE DEF Raise
<1>1. UNCHANGED <<request, offers, rows, checks, facts>>
  OBVIOUS
<1>2. /\ phase' \in Phases /\ today' \in Days
      /\ reference' \in {{}} \cup {{r} : r \in References}
  BY DEF IInv
<1>3. RequestInv' /\ PagesInv'
  BY DEF IInv, RequestInv, PagesInv, Reviewed, Offered, Normalized, Scored, Rendered
<1>4. RowsInv'
  BY <1>1, SameData DEF IInv, RowsInv, IsDated
<1>5. FactsInv'
  BY <1>1, SameData DEF IInv, FactsInv, Normalized, Scored, Rendered
<1>6. ScoresInv'
  BY <1>1, SameData DEF IInv, ScoresInv, Scored, Rendered
<1>7. ReportInv'
  BY DEF IInv, ReportInv, Rendered
<1>8. WhatWasAcceptedIsNotRefused'
  BY DEF WhatWasAcceptedIsNotRefused, MayBeRaised
<1> QED BY <1>2, <1>3, <1>4, <1>5, <1>6, <1>7, <1>8 DEF IInv

\* A day on which a stage may run is a number, and today is one.
LEMMA DaysAreNumbers == IInv => today \in Int /\ Days \subseteq Int
BY DaysAssumption DEF IInv

\* The review.
LEMMA StartKeepsInv ==
    ASSUME IInv, NEW asked \in Requests, Start(asked)
    PROVE  IInv'
<1>1. CASE ~Ready(asked.criteria)
  <2>1. Raise("clarification_required")
    BY <1>1 DEF Start
  <2> QED BY <2>1, RaiseKeepsInv DEF MayBeRaised
<1>2. CASE Ready(asked.criteria)
  <2>1. /\ phase = "new" /\ phase' = "awaiting_details" /\ request' = asked /\ error' = ""
        /\ UNCHANGED <<pages, reference, today, rows, offers, checks, facts, stored, report, shown>>
    BY <1>2 DEF Start
  <2>2. ~Normalized /\ ~Normalized' /\ ~Scored /\ ~Scored' /\ ~Rendered /\ ~Rendered' /\ ~Offered
           /\ ~Offered' /\ Reviewed'
    BY <2>1 DEF Normalized, Scored, Rendered, Offered, Reviewed
  <2>3. phase' \in Phases /\ today' \in Days /\ reference' \in {{}} \cup {{r} : r \in References}
    BY <2>1 DEF IInv, Phases
  <2>4. RequestInv' /\ PagesInv'
    BY <1>2, <2>1, <2>2 DEF IInv, RequestInv, PagesInv
  <2>5. RowsInv' /\ FactsInv' /\ ScoresInv' /\ ReportInv'
    BY <2>1, <2>2 DEF IInv, RowsInv, IsDated, FactsInv, ScoresInv, ReportInv, Collected
  <2> QED BY <2>1, <2>3, <2>4, <2>5 DEF IInv, WhatWasAcceptedIsNotRefused
<1> QED BY <1>1, <1>2

\* The collection of details.
LEMMA CollectKeepsInv ==
    ASSUME IInv, NEW found \in PageSets, NEW day \in Days, Collect(found, day)
    PROVE  IInv'
<1>1. CASE request.query = "long"
  <2>1. Raise("query_rejected")
    BY <1>1 DEF Collect
  <2> QED BY <2>1, RaiseKeepsInv DEF MayBeRaised
<1>2. CASE request.query # "long"
  <2>1. /\ phase = "awaiting_details" /\ phase' = "details_collected" /\ pages' = found
        /\ today' = day /\ day >= today /\ error' = ""
        /\ UNCHANGED <<request, reference, rows, offers, checks, facts, stored, report, shown>>
    BY <1>2 DEF Collect
  <2>2. ~Normalized /\ ~Normalized' /\ ~Scored /\ ~Scored' /\ ~Rendered /\ ~Rendered' /\ ~Offered
           /\ ~Offered' /\ Reviewed /\ Reviewed'
    BY <2>1 DEF Normalized, Scored, Rendered, Offered, Reviewed
  <2>3. phase' \in Phases /\ today' \in Days /\ reference' \in {{}} \cup {{r} : r \in References}
    BY <2>1 DEF IInv, Phases
  <2>4. RequestInv' /\ PagesInv'
    BY <2>1, <2>2 DEF IInv, RequestInv, PagesInv
  <2>5. today \in Int /\ today' \in Int /\ today <= today'
    BY <2>1, DaysAreNumbers
  <2>6. RowsInv'
    <3>1. Collected = {}
      BY <2>2 DEF IInv, PagesInv, Collected
    <3> QED BY <2>1, <3>1 DEF IInv, RowsInv, Collected
  <2>7. FactsInv' /\ ScoresInv' /\ ReportInv'
    BY <2>1, <2>2 DEF IInv, FactsInv, ScoresInv, ReportInv
  <2> QED BY <2>1, <2>3, <2>4, <2>6, <2>7 DEF IInv, WhatWasAcceptedIsNotRefused
<1> QED BY <1>1, <1>2

\* Pages become offers and evidence.
LEMMA IngestKeepsInv ==
    ASSUME IInv, Ingest
    PROVE  IInv'
<1>1. CASE ~\A page \in pages : Convertible(page)
  <2>1. Raise("detail_context_incomplete")
    BY <1>1 DEF Ingest
  <2> QED BY <2>1, RaiseKeepsInv DEF MayBeRaised
<1>2. CASE \A page \in pages : Convertible(page)
  <2>1. /\ phase = "details_collected" /\ phase' = "offers_collected" /\ offers' = pages
        /\ rows' = UNION {PageEvidence(page) : page \in pages} /\ error' = ""
        /\ UNCHANGED <<request, pages, reference, today, checks, facts, stored, report, shown>>
    BY <1>2 DEF Ingest
  <2>2. ~Normalized /\ ~Normalized' /\ ~Scored /\ ~Scored' /\ ~Rendered /\ ~Rendered' /\ ~Offered
           /\ Offered' /\ Reviewed /\ Reviewed'
    BY <2>1 DEF Normalized, Scored, Rendered, Offered, Reviewed
  <2>3. phase' \in Phases /\ today' \in Days /\ reference' \in {{}} \cup {{r} : r \in References}
    BY <2>1 DEF IInv, Phases
  <2>4. RequestInv' /\ PagesInv'
    BY <1>2, <2>1, <2>2 DEF IInv, RequestInv, PagesInv
  <2>5. IsFiniteSet(pages) /\ \A page \in pages : IsPage(page)
    BY CollectedPages DEF IInv, PagesInv
  <2>6. IsFiniteSet(rows')
    <3> DEFINE found == [page \in pages |-> PageEvidence(page)]
    <3>1. Covers(pages, found, rows')
      BY <2>1 DEF Covers
    <3>2. AllFinite(pages, found)
      BY <2>5, PageRows DEF AllFinite, AreRowsOf
    <3> HIDE DEF found
    <3> QED BY <2>5, <3>1, <3>2, UnionIsFinite
  <2>7. Collected' = {page.product : page \in pages}
    BY <2>1 DEF Collected
  <2>8. ASSUME NEW row \in rows'
        PROVE  IsRow(row) /\ row.product \in Collected' /\ IsDated(row)'
    <3>1. PICK page \in pages : row \in PageEvidence(page)
      BY <2>1
    <3>2. IsRow(row) /\ row.product = page.product
      BY <2>5, <3>1, PageRows DEF AreRowsOf
    <3>3. IsDated(row)'
      BY <2>1, <3>1 DEF IsDated
    <3> QED BY <2>7, <3>2, <3>3
  <2>9. RowsInv'
    <3>1. Collected = {}
      BY <2>2 DEF IInv, PagesInv, Collected
    <3>2. checks' = {}
      BY <2>1, <3>1 DEF IInv, RowsInv
    <3> QED BY <2>6, <2>8, <3>2 DEF RowsInv
  <2>10. FactsInv' /\ ScoresInv' /\ ReportInv'
    BY <2>1, <2>2 DEF IInv, FactsInv, ScoresInv, ReportInv
  <2> QED BY <2>1, <2>3, <2>4, <2>9, <2>10 DEF IInv, WhatWasAcceptedIsNotRefused
<1> QED BY <1>1, <1>2

\* The evidence that a cross-check collects, and the official pages it asked for.
IndependentRows ==
    UNION {UNION {BenchmarkEvidence(r, RowsOf(product)) : r \in reference} : product \in Collected}
AskedOf(officials) == UNION {{o \in officials : o.product = product} : product \in Collected}

\* The evidence of the benchmark reference is sound, about collected products.
LEMMA IndependentRowsAreSound ==
    ASSUME IInv, IsFiniteSet(Collected)
    PROVE  /\ IsFiniteSet(IndependentRows)
           /\ \A row \in IndependentRows : IsRow(row) /\ row.product \in Collected
<1>1. IsFiniteSet(reference) /\ \A r \in reference : IsReference(r)
  <2>1. CASE reference = {}
    BY <2>1, FS_EmptySet
  <2>2. CASE \E r \in References : reference = {r}
    BY <2>2, FS_Singleton, ReferencesAssumption DEF IsReference
  <2> QED BY <2>1, <2>2 DEF IInv
<1>2. ASSUME NEW product PROVE AreRowsOf(RowsOf(product), product)
  <2>1. IsFiniteSet(RowsOf(product))
    BY FS_Subset DEF IInv, RowsInv, RowsOf
  <2> QED BY <2>1 DEF IInv, RowsInv, RowsOf, AreRowsOf
<1>3. ASSUME NEW product, NEW r \in reference
      PROVE  AreRowsOf(BenchmarkEvidence(r, RowsOf(product)), product)
  BY <1>1, <1>2, BenchmarkRows
<1> DEFINE OfProduct(product) == UNION {BenchmarkEvidence(r, RowsOf(product)) : r \in reference}
           found == [product \in Collected |-> OfProduct(product)]
<1>4. ASSUME NEW product PROVE IsFiniteSet(OfProduct(product))
  <2> DEFINE byReference == [r \in reference |-> BenchmarkEvidence(r, RowsOf(product))]
  <2>1. Covers(reference, byReference, OfProduct(product))
    BY DEF Covers
  <2>2. AllFinite(reference, byReference)
    BY <1>3 DEF AllFinite, AreRowsOf
  <2> HIDE DEF byReference, OfProduct
  <2> QED BY <1>1, <2>1, <2>2, UnionIsFinite
<1>5. Covers(Collected, found, IndependentRows)
  BY DEF Covers, IndependentRows
<1>6. AllFinite(Collected, found)
  BY <1>4 DEF AllFinite
<1>7. IsFiniteSet(IndependentRows)
  <2> HIDE DEF found
  <2> QED BY <1>5, <1>6, UnionIsFinite
<1>8. ASSUME NEW row \in IndependentRows PROVE IsRow(row) /\ row.product \in Collected
  <2>1. PICK product \in Collected, r \in reference : row \in BenchmarkEvidence(r, RowsOf(product))
    BY DEF IndependentRows
  <2> QED BY <2>1, <1>3 DEF AreRowsOf
<1> QED BY <1>7, <1>8

\* So is that of the official pages, which is of the day.
LEMMA OfficialRowsAreSound ==
    ASSUME NEW officials \in OfficialSets, NEW day \in Int
    PROVE  LET evidence == UNION {OfficialEvidence(o, day) : o \in AskedOf(officials)}
           IN  /\ IsFiniteSet(evidence)
               /\ \A row \in evidence : IsRow(row) /\ row.product \in Collected /\ row.captured = day
<1> DEFINE asked == AskedOf(officials)
           evidence == UNION {OfficialEvidence(o, day) : o \in asked}
           found == [o \in asked |-> OfficialEvidence(o, day)]
<1>1. asked \subseteq officials /\ \A o \in asked : o.product \in Collected
  BY DEF AskedOf
<1>2. IsFiniteSet(asked) /\ \A o \in asked : IsOfficial(o)
  <2>1. IsFiniteSet(officials) /\ \A o \in officials : IsOfficial(o)
    BY OfficialsAssumption DEF IsOfficial
  <2> QED BY <1>1, <2>1, FS_Subset
<1> HIDE DEF asked
<1>3. ASSUME NEW o \in asked
      PROVE  /\ AreRowsOf(OfficialEvidence(o, day), o.product)
             /\ \A row \in OfficialEvidence(o, day) : row.captured = day
  BY <1>2, OfficialRows
<1>4. Covers(asked, found, evidence)
  BY DEF Covers
<1>5. AllFinite(asked, found)
  BY <1>3 DEF AllFinite, AreRowsOf
<1>6. IsFiniteSet(evidence)
  <2> HIDE DEF found, evidence
  <2> QED BY <1>2, <1>4, <1>5, UnionIsFinite
<1>7. ASSUME NEW row \in evidence
      PROVE  IsRow(row) /\ row.product \in Collected /\ row.captured = day
  <2>1. PICK o \in asked : row \in OfficialEvidence(o, day)
    OBVIOUS
  <2> QED BY <1>1, <1>3, <2>1 DEF AreRowsOf
<1> QED BY <1>6, <1>7 DEF asked

\* No number is less than itself.
LEMMA NoLess == \A n \in Int : n <= n
OBVIOUS

\* What a cross-check leaves behind when it returns.
CrossChecked(officials, day) ==
    /\ phase = "offers_collected" /\ phase' = "evidence_cross_checked"
    /\ day >= today /\ today' = day
    /\ IndependentInScope(IndependentRows, today)
    /\ checks' = UNION {Checks(product, RowsOf(product), {o \in officials : o.product = product},
                               today) : product \in Collected}
    /\ rows' = rows \cup IndependentRows
                    \cup UNION {OfficialEvidence(o, day) : o \in AskedOf(officials)}
    /\ error' = ""
    /\ UNCHANGED <<request, pages, reference, offers, facts, stored, report, shown>>

\* A cross-check either raises or returns.
LEMMA CrossCheckIs ==
    ASSUME NEW officials, NEW day, CrossCheck(officials, day)
    PROVE  \/ Raise("official_identity_mismatch")
           \/ Raise("independent_evidence_scope")
           \/ CrossChecked(officials, day)
<1>1. CASE \E official \in AskedOf(officials) : official.names # official.product
  BY <1>1 DEF CrossCheck, AskedOf
<1>2. CASE /\ ~\E official \in AskedOf(officials) : official.names # official.product
           /\ ~IndependentInScope(IndependentRows, today)
  BY <1>2 DEF CrossCheck, AskedOf, IndependentRows
<1>3. CASE /\ ~\E official \in AskedOf(officials) : official.names # official.product
           /\ IndependentInScope(IndependentRows, today)
  BY <1>3 DEF CrossCheck, CrossChecked, AskedOf, IndependentRows
<1> QED BY <1>1, <1>2, <1>3

\* The cross-check.
LEMMA CrossCheckKeepsInv ==
    ASSUME IInv, NEW officials \in OfficialSets, NEW day \in Days, CrossCheck(officials, day)
    PROVE  IInv'
<1>1. CASE Raise("official_identity_mismatch") \/ Raise("independent_evidence_scope")
  BY <1>1, RaiseKeepsInv DEF MayBeRaised
<1>2. CASE CrossChecked(officials, day)
  <2> USE <1>2
  <2>1. ~Normalized /\ ~Normalized' /\ ~Scored /\ ~Scored' /\ ~Rendered /\ ~Rendered' /\ Offered
           /\ Offered' /\ Reviewed /\ Reviewed'
    BY DEF CrossChecked, Normalized, Scored, Rendered, Offered, Reviewed
  <2>2. phase' \in Phases /\ today' \in Days /\ reference' \in {{}} \cup {{r} : r \in References}
    BY DEF CrossChecked, IInv, Phases
  <2>3. today \in Int /\ today' \in Int /\ day \in Int /\ today <= today' /\ today' = day
    BY DaysAreNumbers DEF CrossChecked
  <2>4. IsFiniteSet(offers) /\ \A page \in offers : IsPage(page)
    BY <2>1, CollectedPages DEF IInv, PagesInv
  <2>5. RequestInv' /\ PagesInv'
    BY <2>1 DEF CrossChecked, IInv, RequestInv, PagesInv
  <2>6. Collected' = Collected
    BY DEF CrossChecked, Collected
  <2>7. IsFiniteSet(Collected)
    <3> DEFINE found == [page \in offers |-> page.product]
    <3>1. Maps(offers, found, Collected)
      BY DEF Maps, Collected
    <3> HIDE DEF found
    <3> QED BY <2>4, <3>1, ImageIsFinite
  <2> DEFINE official == UNION {OfficialEvidence(o, day) : o \in AskedOf(officials)}
  <2>8. /\ IsFiniteSet(official)
        /\ \A row \in official : IsRow(row) /\ row.product \in Collected /\ row.captured = day
    BY <2>3, OfficialRowsAreSound
  <2>9. /\ IsFiniteSet(IndependentRows)
        /\ \A row \in IndependentRows : IsRow(row) /\ row.product \in Collected
    BY <2>7, IndependentRowsAreSound
  <2>10. rows' = rows \cup IndependentRows \cup official
    BY DEF CrossChecked
  <2> HIDE DEF official
  <2>11. IsFiniteSet(rows')
    BY <2>8, <2>9, <2>10, FS_Union DEF IInv, RowsInv
  <2>12. ASSUME NEW row \in rows'
         PROVE  IsRow(row) /\ row.product \in Collected' /\ IsDated(row)'
    <3>1. CASE row \in rows
      <4>1. pages' = pages
        BY DEF CrossChecked
      <4> QED BY <2>3, <2>6, <3>1, <4>1 DEF IInv, RowsInv, IsRow, IsDated
    <3>2. CASE row \in IndependentRows
      <4>1. row.captured <= today
        BY <3>2 DEF CrossChecked, IndependentInScope
      <4> QED BY <2>3, <2>6, <2>9, <3>2, <4>1 DEF IsRow, IsDated
    <3>3. CASE row \in official
      <4>1. today' <= today'
        BY <2>3, NoLess
      <4> QED BY <2>3, <2>6, <2>8, <3>3, <4>1 DEF IsDated
    <3> QED BY <2>10, <3>1, <3>2, <3>3
  <2>13. ASSUME NEW check \in checks'
         PROVE  IsCheck(check) /\ check.product \in Collected' /\ check.checkedAt <= today'
    <3>1. PICK product \in Collected :
             check \in Checks(product, RowsOf(product), {o \in officials : o.product = product}, today)
      BY DEF CrossChecked
    <3>2. IsCheck(check) /\ check.product = product /\ check.checkedAt = today
      BY <2>3, <3>1, ChecksAreTyped
    <3> QED BY <2>3, <2>6, <3>2
  <2>14. RowsInv'
    BY <2>11, <2>12, <2>13 DEF RowsInv
  <2>15. FactsInv' /\ ScoresInv' /\ ReportInv'
    BY <2>1 DEF CrossChecked, IInv, FactsInv, ScoresInv, ReportInv
  <2> QED BY <2>2, <2>5, <2>14, <2>15 DEF CrossChecked, IInv, WhatWasAcceptedIsNotRefused
<1> QED BY <1>1, <1>2, CrossCheckIs

\* The days go on, and the pages stay.
LEMMA TimeGoesOn ==
    ASSUME IInv, NEW day \in Days, day >= today, today' = day, Offered, Offered', UNCHANGED <<pages, offers>>
    PROVE  today \in Int /\ day \in Int /\ PagesInv'
<1>1. today \in Int /\ day \in Int
  BY DaysAreNumbers
<1> QED BY <1>1 DEF IInv, PagesInv

\* So does the evidence.
LEMMA EvidenceStays ==
    ASSUME IInv, today \in Int, today' \in Int, today <= today',
           UNCHANGED <<pages, offers, rows, checks>>
    PROVE  RowsInv'
<1>1. Collected' = Collected
  BY DEF Collected
<1> QED BY <1>1 DEF IInv, RowsInv, IsRow, IsDated, IsCheck

\* The normalization of the specifications.
LEMMA NormalizeKeepsInv ==
    ASSUME IInv, NEW day \in Days, Normalize(day)
    PROVE  IInv'
<1>1. CASE FactsOf(day) = {}
  <2>1. Raise("no_specifications")
    BY <1>1 DEF Normalize, FactsOf
  <2> QED BY <2>1, RaiseKeepsInv DEF MayBeRaised
<1>2. CASE FactsOf(day) # {}
  <2>1. /\ phase = "evidence_cross_checked" /\ phase' = "data_normalized" /\ facts' = FactsOf(day)
        /\ day >= today /\ today' = day /\ error' = ""
        /\ UNCHANGED <<request, pages, reference, rows, offers, checks, stored, report, shown>>
    BY <1>2 DEF Normalize, FactsOf
  <2>2. ~Normalized /\ Normalized' /\ ~Scored /\ ~Scored' /\ ~Rendered /\ ~Rendered' /\ Offered
           /\ Offered' /\ Reviewed /\ Reviewed'
    BY <2>1 DEF Normalized, Scored, Rendered, Offered, Reviewed
  <2>3. phase' \in Phases /\ today' \in Days /\ reference' \in {{}} \cup {{r} : r \in References}
    BY <2>1 DEF IInv, Phases
  <2>4. today \in Int /\ day \in Int /\ PagesInv'
    BY <2>1, <2>2, TimeGoesOn
  <2>5. RequestInv'
    BY <2>1, <2>2 DEF IInv, RequestInv
  <2>6. RowsInv'
    BY <2>1, <2>4, EvidenceStays
  <2>7. FactsInv'
    <3>1. Collected' = Collected
      BY <2>1 DEF Collected
    <3>2. \A d : FactsOf(d)' = FactsOf(d)
      BY <2>1, <3>1 DEF FactsOf, RowsOf
    <3>3. day <= today'
      BY <2>1, <2>4, NoLess
    <3> QED BY <2>1, <2>2, <3>2, <3>3 DEF FactsInv
  <2>8. ScoresInv' /\ ReportInv'
    BY <2>1, <2>2 DEF IInv, ScoresInv, ReportInv
  <2> QED BY <2>1, <2>3, <2>4, <2>5, <2>6, <2>7, <2>8 DEF IInv, WhatWasAcceptedIsNotRefused
<1> QED BY <1>1, <1>2

\* Facts stay those of the day on which they were made.
LEMMA FactsStay ==
    ASSUME IInv, Normalized, Normalized', today \in Int, today' \in Int, today <= today',
           UNCHANGED <<request, offers, rows, checks, facts>>
    PROVE  FactsInv'
<1>1. PICK day \in Days : day <= today /\ facts = FactsOf(day)
  BY DEF IInv, FactsInv
<1>2. day \in Int
  BY DaysAssumption
<1>3. FactsOf(day)' = FactsOf(day)
  BY SameData
<1> QED BY <1>1, <1>2, <1>3 DEF FactsInv

\* What scoring leaves behind when it returns.
HasScored(day) ==
    /\ phase = "data_normalized" /\ phase' = "candidates_scored"
    /\ day >= today /\ today' = day
    /\ stored' = Range(ScoresOn(day))
    /\ error' = ""
    /\ UNCHANGED <<request, pages, reference, rows, offers, checks, facts, report, shown>>

\* Reviewed criteria are defined for scoring.
LEMMA ReviewedAreDefined ==
    ASSUME NEW S, NEW criteria \in Seq(S), Ready(criteria)
    PROVE  CriteriaAreDefined(criteria)
<1>1. ASSUME NEW i \in DOMAIN criteria
      PROVE  /\ BoundsAreSound(criteria[i])
             /\ \A j \in 1 .. i - 1 : KeyToken(criteria[j].key) # KeyToken(criteria[i].key)
  BY DEF Ready, Blocking
<1>2. ASSUME NEW i \in DOMAIN criteria, NEW j \in DOMAIN criteria, i # j
      PROVE  i \in 1 .. j - 1 \/ j \in 1 .. i - 1
  <2>1. Len(criteria) \in Nat /\ i \in 1 .. Len(criteria) /\ j \in 1 .. Len(criteria)
    OBVIOUS
  <2> QED BY <1>2, <2>1
<1>3. ASSUME NEW i \in DOMAIN criteria, NEW j \in DOMAIN criteria, i # j
      PROVE  KeyToken(criteria[i].key) # KeyToken(criteria[j].key)
  BY <1>1, <1>2, <1>3
<1> QED BY <1>1, <1>3 DEF CriteriaAreDefined

\* Scoring refuses nothing that was accepted before, but a page that was saved
\* with a later day than today's.
LEMMA ScoreIs ==
    ASSUME IInv, NEW day \in Days, Score(day)
    PROVE  \/ HasScored(day)
           \/ Raise("evidence_timeline") /\ \E page \in offers : page.captured > today
<1>1. /\ phase = "data_normalized" /\ day >= today
  BY DEF Score
<1>2. Normalized /\ Offered /\ Reviewed
  BY <1>1 DEF Normalized, Offered, Reviewed
<1>3. ReadyToScore /\ CriteriaAreDefined(request.criteria)
  <2>1. request \in Requests /\ Ready(request.criteria)
    BY <1>2 DEF IInv, RequestInv
  <2>2. request.criteria \in Criteria
    BY <2>1, RequestsAssumption DEF RequestRecord
  <2>3. CriteriaAreDefined(request.criteria)
    BY <2>1, <2>2, ReviewedAreDefined DEF Criteria
  <2> QED BY <1>2, <2>3, InvariantIsReady
<1>4. today \in Int /\ day \in Int /\ Days \subseteq Int
  BY DaysAreNumbers
<1>5. \A check \in checks : check.checkedAt \in Int /\ check.checkedAt <= today
  BY DEF IInv, RowsInv, IsCheck
<1>6. ASSUME NEW candidate \in Candidates(day), candidate.confidence.future
      PROVE  \E page \in offers : page.captured > today
  <2>1. PICK row \in rows : row.captured > day
    BY <1>1, <1>3, <1>4, <1>5, <1>6, OnlyRowsAreAhead
  <2>2. row.captured \in Int /\ IsDated(row)
    BY DEF IInv, RowsInv, IsRow
  <2>3. row.captured > today
    BY <1>1, <1>4, <2>1, <2>2
  <2>4. PICK page \in pages : row \in PageEvidence(page)
    BY <1>4, <2>2, <2>3 DEF IsDated
  <2>5. row.captured = page.captured
    BY <2>4, CollectedPages, PageRows DEF IInv, PagesInv
  <2> QED BY <1>2, <2>3, <2>4, <2>5 DEF IInv, PagesInv
<1>7. BatchIsConsistent(ScoresOn(day))
  BY <1>3, <1>4, NothingIsRefused
<1>8. CASE \E candidate \in Candidates(day) : candidate.confidence.future
  <2>1. Raise("evidence_timeline")
    BY <1>3, <1>8 DEF Score, Candidates
  <2> QED BY <1>6, <1>8, <2>1
<1>9. CASE ~\E candidate \in Candidates(day) : candidate.confidence.future
  <2>1. HasScored(day)
    BY <1>1, <1>3, <1>7, <1>9 DEF Score, HasScored, ScoresOn, Candidates
  <2> QED BY <2>1
<1> QED BY <1>8, <1>9

\* The scoring.
LEMMA ScoreKeepsInv ==
    ASSUME IInv, NEW day \in Days, Score(day)
    PROVE  IInv'
<1>1. CASE Raise("evidence_timeline") /\ \E page \in offers : page.captured > today
  BY <1>1, RaiseKeepsInv DEF MayBeRaised
<1>2. CASE HasScored(day)
  <2> USE <1>2
  <2>2. ~Scored /\ Scored' /\ Normalized /\ Normalized' /\ ~Rendered /\ ~Rendered' /\ Offered
           /\ Offered' /\ Reviewed /\ Reviewed'
    BY DEF HasScored, Normalized, Scored, Rendered, Offered, Reviewed
  <2>3. phase' \in Phases /\ today' \in Days /\ reference' \in {{}} \cup {{r} : r \in References}
    BY DEF HasScored, IInv, Phases
  <2>4. today \in Int /\ day \in Int /\ PagesInv'
    BY <2>2, TimeGoesOn DEF HasScored
  <2>5. RequestInv'
    BY <2>2 DEF HasScored, IInv, RequestInv
  <2>6. RowsInv'
    BY <2>4, EvidenceStays DEF HasScored
  <2>7. FactsInv'
    BY <2>2, <2>4, FactsStay DEF HasScored
  <2>8. ScoresInv'
    <3>1. \A d : Candidates(d)' = Candidates(d)
      BY SameData DEF HasScored
    <3>2. request' = request /\ stored' = Range(Scores(request, Candidates(day)))
      BY DEF HasScored, ScoresOn
    <3>3. day <= today'
      BY <2>4, NoLess DEF HasScored
    <3> QED BY <2>2, <3>1, <3>2, <3>3 DEF ScoresInv
  <2>9. ReportInv'
    BY <2>2 DEF HasScored, IInv, ReportInv
  <2> QED BY <2>3, <2>4, <2>5, <2>6, <2>7, <2>8, <2>9 DEF HasScored, IInv, WhatWasAcceptedIsNotRefused
<1> QED BY <1>1, <1>2, ScoreIs

\* What was stored is the ranking of some day.
LEMMA StoredIs ==
    ASSUME IInv, Scored
    PROVE  \E day \in Days : /\ day \in Int /\ day <= today
                             /\ stored = Range(ScoresOn(day))
                             /\ StableScores(stored) = ScoresOn(day)
                             /\ ReportIsBuildable(StableScores(stored), rows, offers)
<1>1. PICK day \in Days : day <= today /\ stored = Range(ScoresOn(day))
  BY DEF IInv, ScoresInv, ScoresOn
<1>2. day \in Int
  BY DaysAssumption
<1>3. ReadyToScore
  BY InvariantIsReady DEF Normalized
<1>4. /\ StableScores(Range(ScoresOn(day))) = ScoresOn(day)
      /\ ReportIsBuildable(ScoresOn(day), rows, offers)
  BY <1>2, <1>3, NothingIsRefused
<1> QED BY <1>1, <1>2, <1>4

\* Scores stay those of the day on which they were given.
LEMMA ScoresStay ==
    ASSUME IInv, Scored, Scored', today \in Int, today' \in Int, today <= today',
           UNCHANGED <<request, offers, rows, checks, facts, stored>>
    PROVE  ScoresInv'
<1>1. PICK day \in Days : day <= today /\ stored = Range(Scores(request, Candidates(day)))
  BY DEF IInv, ScoresInv
<1>2. day \in Int
  BY DaysAssumption
<1>3. Candidates(day)' = Candidates(day)
  BY SameData
<1>4. stored' = Range(Scores(request', Candidates(day)'))
  BY <1>1, <1>3
<1> QED BY <1>1, <1>2, <1>4 DEF ScoresInv

\* The rendering, which refuses nothing either.
LEMMA RenderKeepsInv ==
    ASSUME IInv, NEW day \in Days, Render(day)
    PROVE  IInv'
<1>1. phase = "candidates_scored"
  BY DEF Render
<1>2. ReportIsBuildable(StableScores(stored), rows, offers)
  BY <1>1, StoredIs DEF Scored
<1>3. /\ phase' = "report_rendered" /\ day >= today /\ today' = day /\ error' = ""
      /\ report' = Report(StableScores(stored), day)
      /\ UNCHANGED <<request, pages, reference, rows, offers, checks, facts, stored, shown>>
  BY <1>2 DEF Render
<1>4. Scored /\ Scored' /\ Normalized /\ Normalized' /\ ~Rendered /\ Rendered' /\ Offered
         /\ Offered' /\ Reviewed /\ Reviewed'
  BY <1>1, <1>3 DEF Normalized, Scored, Rendered, Offered, Reviewed
<1>5. phase' \in Phases /\ today' \in Days /\ reference' \in {{}} \cup {{r} : r \in References}
  BY <1>3 DEF IInv, Phases
<1>6. today \in Int /\ day \in Int /\ PagesInv'
  BY <1>3, <1>4, TimeGoesOn
<1>7. RequestInv'
  BY <1>3, <1>4 DEF IInv, RequestInv
<1>8. RowsInv'
  BY <1>3, <1>6, EvidenceStays
<1>9. FactsInv'
  BY <1>3, <1>4, <1>6, FactsStay
<1>10. ScoresInv'
  BY <1>3, <1>4, <1>6, ScoresStay
<1>11. ReportInv'
  BY <1>3, <1>4 DEF ReportInv
<1> QED BY <1>3, <1>5, <1>6, <1>7, <1>8, <1>9, <1>10, <1>11 DEF IInv, WhatWasAcceptedIsNotRefused

\* A presentation changes what is shown, and that alone.
LEMMA PresentKeepsInv ==
    ASSUME IInv, phase = "report_rendered", error' = "",
           UNCHANGED <<phase, request, pages, reference, today, rows, offers, checks, facts,
                       stored, report>>
    PROVE  IInv'
<1>1. Scored' /\ Normalized' /\ Rendered' /\ Offered' /\ Reviewed'
         /\ Scored /\ Normalized /\ Rendered /\ Offered /\ Reviewed
  BY DEF Normalized, Scored, Rendered, Offered, Reviewed
<1>2. phase' \in Phases /\ today' \in Days /\ reference' \in {{}} \cup {{r} : r \in References}
  BY DEF IInv
<1>3. RequestInv' /\ PagesInv'
  BY <1>1 DEF IInv, RequestInv, PagesInv
<1>4. today \in Int /\ today' \in Int /\ today <= today'
  <2>1. today' = today
    OBVIOUS
  <2>2. today \in Int
    BY DaysAreNumbers
  <2> QED BY <2>1, <2>2, NoLess
<1>5. RowsInv' /\ FactsInv' /\ ScoresInv'
  BY <1>1, <1>4, EvidenceStays, FactsStay, ScoresStay
<1>6. ReportInv'
  BY <1>1 DEF IInv, ReportInv
<1> QED BY <1>2, <1>3, <1>5, <1>6 DEF IInv, WhatWasAcceptedIsNotRefused

\* The explanation.
LEMMA ExplainKeepsInv ==
    ASSUME IInv, Explain
    PROVE  IInv'
<1>1. CASE Raise("explanation_request")
  BY <1>1, RaiseKeepsInv DEF MayBeRaised
<1>2. CASE ~Raise("explanation_request")
  BY <1>2, PresentKeepsInv DEF Explain
<1> QED BY <1>1, <1>2

\* A step that changes nothing keeps everything.
LEMMA StutterKeepsInv ==
    ASSUME IInv, UNCHANGED vars
    PROVE  IInv'
<1>1. MayBeRaised(error)
  BY DEF IInv, WhatWasAcceptedIsNotRefused, MayBeRaised
<1>2. Raise(error)
  BY DEF vars, Raise
<1> QED BY <1>1, <1>2, RaiseKeepsInv

(***************************************************************************)
(* The facts are those of a day that has passed, the scores the ranking of *)
(* such a day, the report that of the scores, all from the same offers and *)
(* evidence; only evidence of a saved page may be from the future; what    *)
(* the review, the conversion and the cross-check accepted stays accepted, *)
(* unless such evidence stands against it.                                 *)
(***************************************************************************)
THEOREM AppraisalInductive == Spec => []IInv
<1>1. Init => IInv
  BY InitInv
<1>2. IInv /\ [Next]_vars => IInv'
  <2> SUFFICES ASSUME IInv, [Next]_vars PROVE IInv'
    OBVIOUS
  <2>1. CASE \E asked \in Requests : Start(asked)
    BY <2>1, StartKeepsInv
  <2>2. CASE \E found \in PageSets, day \in Days : Collect(found, day)
    BY <2>2, CollectKeepsInv
  <2>3. CASE Ingest
    BY <2>3, IngestKeepsInv
  <2>4. CASE \E officials \in OfficialSets, day \in Days : CrossCheck(officials, day)
    BY <2>4, CrossCheckKeepsInv
  <2>5. CASE \E day \in Days : Normalize(day)
    BY <2>5, NormalizeKeepsInv
  <2>6. CASE \E day \in Days : Score(day)
    BY <2>6, ScoreKeepsInv
  <2>7. CASE \E day \in Days : Render(day)
    BY <2>7, RenderKeepsInv
  <2>8. CASE Explain
    BY <2>8, ExplainKeepsInv
  <2>9. CASE UNCHANGED vars
    BY <2>9, StutterKeepsInv
  <2> QED BY <2>1, <2>2, <2>3, <2>4, <2>5, <2>6, <2>7, <2>8, <2>9 DEF Next
<1> QED BY <1>1, <1>2, PTL DEF Spec
-------------------------------------------------------------------------------
(***************************************************************************)
(* What the invariant gives: the properties of the module.                 *)
(***************************************************************************)

\* Everything that is stored, as its product, its facts and its day have it.
LEMMA StoredScores ==
    ASSUME IInv, NEW score \in stored
    PROVE  /\ Scored
           /\ ReadyToScore
           /\ \E day \in Days, product \in Collected :
                 day \in Int /\ IsScoreOfProduct(score, product, day)
<1>1. Scored
  BY DEF IInv, ScoresInv
<1>2. ReadyToScore
  BY <1>1, InvariantIsReady DEF Normalized
<1>3. PICK day \in Days : day \in Int /\ stored = Range(ScoresOn(day))
  BY <1>1, StoredIs
<1>4. \E product \in Collected : IsScoreOfProduct(score, product, day)
  BY <1>2, <1>3, ScoreOfProduct
<1> QED BY <1>1, <1>2, <1>3, <1>4

\* The products of the scores are all that were collected.
LEMMA StoredProducts ==
    ASSUME IInv
    PROVE  {score.product : score \in stored} \in {{}, Collected}
<1>1. CASE ~Scored
  BY <1>1 DEF IInv, ScoresInv
<1>2. CASE Scored
  <2>1. ReadyToScore
    BY <1>2, InvariantIsReady DEF Normalized
  <2>2. PICK day \in Days : day \in Int /\ stored = Range(ScoresOn(day))
    BY <1>2, StoredIs
  <2>3. \A score \in stored : \E product \in Collected : score.product = product
    BY <2>1, <2>2, ScoreOfProduct DEF IsScoreOfProduct
  <2>4. \A product \in Collected : \E score \in stored : score.product = product
    BY <2>1, <2>2, ScoreOfProduct
  <2> QED BY <2>3, <2>4
<1> QED BY <1>1, <1>2

\* A fact is about a collected product and rests on stored rows.
LEMMA StoredFacts ==
    ASSUME IInv, NEW fact \in facts
    PROVE  fact.product \in Collected /\ fact.evidence \subseteq rows
<1>1. PICK day \in Days : facts = FactsOf(day)
  BY DEF IInv, FactsInv
<1>2. PICK product \in Collected : fact \in Facts(product, RowsOf(product), day)
  BY <1>1 DEF FactsOf
<1>3. PICK key \in KeysAbout(product) : fact = FactAbout(product, key, day)
  BY <1>2, FactsAre
<1>4. fact.product = product /\ fact.evidence = GroupOf(product, key)
  BY <1>3 DEF FactAbout, Fact
<1> QED BY <1>4 DEF GroupOf, SpecRows, RowsOf

\* The invariant gives the types.
LEMMA InvariantIsTyped ==
    ASSUME IInv
    PROVE  TypeOK
<1>1. request \in Requests \cup {None} /\ (request = None <=> phase = "new")
  BY RequestsAssumption DEF IInv, RequestInv, Reviewed
<1>2. pages \in PageSets \cup {{}} /\ offers \in {{}, pages} /\ today \in Days
  BY DEF IInv, PagesInv
<1>3. /\ \A row \in rows : row.product \in Collected /\ (row.captured <= today \/ IsSavedAhead(row))
      /\ \A check \in checks : check.product \in Collected /\ check.checkedAt <= today
  <2>1. today \in Int
    BY DaysAreNumbers
  <2>2. ASSUME NEW row \in rows, ~(row.captured <= today)
        PROVE  IsSavedAhead(row)
    <3>1. row.captured \in Int /\ IsDated(row)
      BY DEF IInv, RowsInv, IsRow
    <3>2. PICK page \in pages : row \in PageEvidence(page)
      BY <2>2, <3>1 DEF IsDated
    <3>3. row.captured = page.captured
      BY <3>2, CollectedPages, PageRows DEF IInv, PagesInv
    <3> QED BY <2>1, <2>2, <3>1, <3>2, <3>3 DEF IsSavedAhead
  <2> QED BY <2>2 DEF IInv, RowsInv
<1>4. \A fact \in facts : fact.product \in Collected /\ fact.evidence \subseteq rows
  BY StoredFacts
<1>5. {score.product : score \in stored} \in {{}, Collected}
  BY StoredProducts
<1>6. ASSUME NEW score \in stored PROVE score.confidence \in 0 .. Scale
  <2>1. ReadyToScore
    BY StoredScores
  <2>2. PICK day \in Days, product \in Collected : day \in Int /\ IsScoreOfProduct(score, product, day)
    BY StoredScores
  <2>3. Candidate(product, day).confidence.total \in 0 .. Scale
    BY <2>1, <2>2, CandidateIs
  <2> QED BY <2>2, <2>3 DEF IsScoreOfProduct
<1>7. IF phase = "report_rendered" THEN report.generatedAt \in Days ELSE report = None
  BY DEF IInv, ReportInv, Rendered, Report
<1>8. shown # None => phase = "report_rendered"
  BY DEF IInv, ReportInv, Rendered
<1> QED BY <1>1, <1>2, <1>3, <1>4, <1>5, <1>6, <1>7, <1>8 DEF TypeOK, IInv, Phases

\* How a criterion of a stored score was evaluated.
LEMMA StoredEvaluation ==
    ASSUME IInv, NEW score \in stored, NEW i \in DOMAIN request.criteria
    PROVE  /\ IsSound(request.criteria[i])
           /\ IsEvaluation(score.evaluations[i], score.product, request.criteria[i])
<1>1. ReadyToScore
  BY StoredScores
<1>2. PICK day \in Days, product \in Collected : IsScoreOfProduct(score, product, day)
  BY StoredScores
<1>3. score.product = product /\ score.evaluations = EvaluationsIn(product)
  BY <1>2, CandidateParts DEF IsScoreOfProduct
<1>4. PICK made \in Days : facts = FactsOf(made)
  BY <1>1 DEF ReadyToScore
<1>5. score.evaluations[i]
         = Evaluate(request.criteria[i], Facts(product, RowsOf(product), made))
  BY <1>3, <1>4, FactsOfProduct DEF EvaluationsIn
<1>6. IsSound(request.criteria[i])
  BY <1>1 DEF ReadyToScore, Sound
<1>7. IsEvaluation(Evaluate(request.criteria[i], Facts(product, RowsOf(product), made)),
                   product, request.criteria[i])
  BY <1>1, EvaluationIs
<1> QED BY <1>3, <1>5, <1>6, <1>7

\* A stored criterion is resolved exactly when one value was measured.
LEMMA InvariantDecides ==
    ASSUME IInv
    PROVE  OneReadingDecides
BY StoredEvaluation DEF OneReadingDecides, IsEvaluation

\* Of two stored scores the nearer value scores no less.
LEMMA InvariantPrefersNearer ==
    ASSUME IInv
    PROVE  NearerScoresNoLess
<1> SUFFICES ASSUME NEW left \in stored, NEW right \in stored, NEW i \in DOMAIN request.criteria,
                    Resolved(left.evaluations[i]), Resolved(right.evaluations[i]),
                    NEW v \in Readings(left.product, request.criteria[i]),
                    NEW w \in Readings(right.product, request.criteria[i]),
                    Nearer(v, w, request.criteria[i])
             PROVE  left.evaluations[i].score >= right.evaluations[i].score
  BY DEF NearerScoresNoLess
<1> DEFINE criterion == request.criteria[i]
<1>1. /\ IsEvaluation(left.evaluations[i], left.product, criterion)
      /\ IsEvaluation(right.evaluations[i], right.product, criterion)
      /\ IsSound(criterion)
  BY StoredEvaluation
<1>2. PICK x \in Readings(left.product, criterion) : Measured(left.product, criterion, x)
  BY <1>1 DEF IsEvaluation
<1>3. x \in Nat /\ v = x /\ left.evaluations[i].score = ScoreValue(x, criterion)[2]
  BY <1>1, <1>2 DEF IsEvaluation
<1>4. PICK y \in Readings(right.product, criterion) : Measured(right.product, criterion, y)
  BY <1>1 DEF IsEvaluation
<1>5. y \in Nat /\ w = y /\ right.evaluations[i].score = ScoreValue(y, criterion)[2]
  BY <1>1, <1>4 DEF IsEvaluation
<1>6. Nearer(x, y, criterion)
  BY <1>3, <1>5
<1> HIDE DEF criterion
<1>7. ScoreValue(y, criterion)[2] <= ScoreValue(x, criterion)[2]
  BY <1>1, <1>3, <1>5, <1>6, NearerIsNoLess
<1>8. ScoreValue(y, criterion)[2] \in 0 .. Scale /\ ScoreValue(x, criterion)[2] \in 0 .. Scale
  BY <1>1, <1>3, <1>5, ScoreValueIs
<1> QED BY <1>3, <1>5, <1>7, <1>8

\* The stored scores are a ranking of drafts.
LEMMA StoredIsRanking ==
    ASSUME IInv, Scored
    PROVE  \E day \in Days : \E source :
              /\ day \in Int /\ stored = Range(ScoresOn(day))
              /\ StableScores(stored) = ScoresOn(day)
              /\ AreDrafts(DraftsOn(day)) /\ IsRanking(DraftsOn(day), source, ScoresOn(day))
<1>1. ReadyToScore
  BY InvariantIsReady DEF Normalized
<1>2. PICK day \in Days : /\ day \in Int /\ stored = Range(ScoresOn(day))
                          /\ StableScores(stored) = ScoresOn(day)
  BY StoredIs
<1>3. AreDrafts(DraftsOn(day)) /\ \E source : IsRanking(DraftsOn(day), source, ScoresOn(day))
  BY <1>1, <1>2, ScoresAreRanking
<1> QED BY <1>2, <1>3

\* A front of the stored scores is a depth.
LEMMA InvariantHasDepths ==
    ASSUME IInv
    PROVE  FrontsAreDominanceDepth
<1> SUFFICES ASSUME NEW score \in Ranked
             PROVE  score.front = 1 + Max({0} \cup {other.front : other \in
                       {other \in Ranked : other.budget = score.budget /\ Dominates(other, score)}})
  BY DEF FrontsAreDominanceDepth
<1>1. score \in stored /\ score.eligible
  BY DEF Ranked
<1>2. Scored
  BY <1>1, StoredScores
<1>3. PICK day, source :
         /\ stored = Range(ScoresOn(day)) /\ AreDrafts(DraftsOn(day))
         /\ IsRanking(DraftsOn(day), source, ScoresOn(day))
  BY <1>2, StoredIsRanking
<1>4. Ranked = {s \in Range(ScoresOn(day)) : s.eligible}
  BY <1>3 DEF Ranked
<1> QED BY <1>1, <1>3, <1>4, ScoresHaveDepth

\* In the stored scores the better stands first.
LEMMA InvariantRanksBetterFirst ==
    ASSUME IInv
    PROVE  BetterRanksFirst
<1> SUFFICES ASSUME NEW left \in Ranked, NEW right \in Ranked,
                    \/ TierPriority(left.budget) < TierPriority(right.budget)
                    \/ left.budget = right.budget /\ Dominates(left, right)
             PROVE  left.rank < right.rank
  BY DEF BetterRanksFirst
<1>1. left \in stored /\ left.eligible /\ right \in stored /\ right.eligible
  BY DEF Ranked
<1>2. Scored
  BY <1>1, StoredScores
<1>3. PICK day, source :
         /\ stored = Range(ScoresOn(day)) /\ AreDrafts(DraftsOn(day))
         /\ IsRanking(DraftsOn(day), source, ScoresOn(day))
  BY <1>2, StoredIsRanking
<1> QED BY <1>1, <1>3, BetterStandsBefore

\* The product that is recommended has an eligible score.
LEMMA RecommendedIsEligible ==
    ASSUME IInv, Rendered, report.recommended # None
    PROVE  \E score \in stored : score.eligible /\ report.recommended = score.product
<1>1. Scored
  BY DEF Scored
<1>2. PICK day, source :
         /\ stored = Range(ScoresOn(day)) /\ StableScores(stored) = ScoresOn(day)
         /\ AreDrafts(DraftsOn(day)) /\ IsRanking(DraftsOn(day), source, ScoresOn(day))
  BY <1>1, StoredIsRanking
<1>3. report.recommended = Recommended(ScoresOn(day))
  <2>1. PICK made \in Days : report = Report(StableScores(stored), made)
    BY DEF IInv, ReportInv
  <2> QED BY <1>2, <2>1 DEF Report
<1> DEFINE scores == ScoresOn(day)
           drafts == DraftsOn(day)
           chosen == Selected(scores, TRUE)
           E == Cardinality(Eligible(drafts))
<1>4. chosen # <<>> /\ report.recommended = chosen[1].product
  BY <1>3 DEF Recommended
<1> HIDE DEF scores, drafts
<1>5. AreDrafts(drafts) /\ IsRanking(drafts, source, scores)
  BY <1>2 DEF drafts, scores
<1>6. /\ chosen \in [1 .. E -> Range(scores)]
      /\ \A n \in 1 .. E : chosen[n] = scores[n]
  BY <1>5, SelectedOfRanking
<1>7. /\ E \in Nat
      /\ \A i \in 1 .. E : scores[i] \in Range(scores) /\ scores[i].eligible
  BY <1>5, EligibleScores
<1> HIDE DEF chosen, E
<1>8. E # 0
  <2> SUFFICES ASSUME E = 0 PROVE FALSE
    OBVIOUS
  <2>1. chosen \in [{} -> Range(scores)]
    BY <1>6
  <2>2. chosen = <<>>
    BY <2>1
  <2> QED BY <1>4, <2>2
<1>9. 1 \in 1 .. E
  BY <1>7, <1>8
<1>10. scores[1] \in Range(scores) /\ scores[1].eligible /\ chosen[1] = scores[1]
  BY <1>6, <1>7, <1>9
<1>11. stored = Range(scores)
  BY <1>2 DEF scores
<1> QED BY <1>4, <1>10, <1>11

\* What is behind an eligible score.
LEMMA EligibleIs ==
    ASSUME IInv, NEW score \in stored, score.eligible
    PROVE  /\ \A i \in DOMAIN request.criteria :
                 request.criteria[i].hard => score.evaluations[i].status = "satisfied"
           /\ \E page \in offers : /\ page.product = score.product
                                   /\ page.stock # "sold_out"
                                   /\ page.currency = request.currency
                                   /\ ComparisonPrice(page)[2] <= Limit
<1>1. ReadyToScore
  BY StoredScores
<1>2. PICK day \in Days, product \in Collected : day \in Int /\ IsScoreOfProduct(score, product, day)
  BY StoredScores
<1> DEFINE c == Candidate(product, day)
<1>3. /\ score.product = product
      /\ score.evaluations = EvaluationsIn(product)
      /\ DraftOf(product, day).eligible
      /\ c.foundation.hardMet = HardIsMetIn(EvaluationsIn(product))
  BY <1>2, CandidateParts DEF IsScoreOfProduct
<1> HIDE DEF c
<1>4. Exclusions(request, c) = {}
  BY <1>3, DraftFields DEF DraftOf, c
<1>5. c.foundation.hardMet /\ HasBest(c) /\ BudgetStatus(request, c) # "over_budget"
  BY <1>4, NotExcluded
<1>6. \A i \in DOMAIN request.criteria :
         request.criteria[i].hard => score.evaluations[i].status = "satisfied"
  BY <1>3, <1>5 DEF HardIsMetIn
<1>7. /\ Best(c).price \in Nat
      /\ \E page \in offers : /\ page.product = product
                              /\ page.stock # "sold_out"
                              /\ page.currency = request.currency
                              /\ Best(c).price = ComparisonPrice(page)[2]
  BY <1>1, <1>2, <1>5, BestIs DEF c
<1>8. Best(c).price <= Limit
  <2>1. /\ request.maximum \in Nat /\ request.stretch \in Optional(Nat)
        /\ Given(request.stretch) => request.stretch >= request.maximum
    BY <1>1 DEF ReadyToScore, Sound
  <2>2. \/ Best(c).price <= request.maximum
        \/ Given(request.stretch) /\ Best(c).price <= request.stretch
    BY <1>5 DEF BudgetStatus
  <2>3. CASE Given(request.stretch)
    <3>1. request.stretch \in Nat
      BY <2>1, <2>3 DEF Given, Optional
    <3> QED BY <1>7, <2>1, <2>2, <2>3, <3>1 DEF Limit
  <2>4. CASE ~Given(request.stretch)
    BY <2>2, <2>4 DEF Limit
  <2> QED BY <2>3, <2>4
<1> QED BY <1>3, <1>6, <1>7, <1>8

\* A recommendation can be defended.
LEMMA InvariantIsDefensible ==
    ASSUME IInv
    PROVE  RecommendationIsDefensible
<1> SUFFICES ASSUME phase = "report_rendered", report.recommended # None
             PROVE  /\ \A i \in DOMAIN request.criteria :
                          request.criteria[i].hard =>
                             \E value \in Readings(report.recommended, request.criteria[i]) :
                                /\ Measured(report.recommended, request.criteria[i], value)
                                /\ Within(value, request.criteria[i])
                    /\ \E page \in pages :
                          /\ page.product = report.recommended
                          /\ page.stock # "sold_out"
                          /\ page.currency = request.currency
                          /\ ComparisonPrice(page)[2] <= Limit
  BY DEF RecommendationIsDefensible
<1>1. PICK score \in stored : score.eligible /\ report.recommended = score.product
  BY RecommendedIsEligible DEF Rendered
<1>2. offers = pages
  BY DEF IInv, PagesInv, Offered, Normalized, Scored, Rendered
<1>3. \E page \in pages : /\ page.product = report.recommended
                          /\ page.stock # "sold_out"
                          /\ page.currency = request.currency
                          /\ ComparisonPrice(page)[2] <= Limit
  BY <1>1, <1>2, EligibleIs
<1>4. ASSUME NEW i \in DOMAIN request.criteria, request.criteria[i].hard
      PROVE  \E value \in Readings(report.recommended, request.criteria[i]) :
                /\ Measured(report.recommended, request.criteria[i], value)
                /\ Within(value, request.criteria[i])
  <2> DEFINE criterion == request.criteria[i]
             e == score.evaluations[i]
  <2>1. e.status = "satisfied"
    BY <1>1, <1>4, EligibleIs
  <2>2. IsSound(criterion) /\ IsEvaluation(e, score.product, criterion)
    BY StoredEvaluation
  <2> HIDE DEF criterion, e
  <2>3. Resolved(e)
    BY <2>1 DEF Resolved
  <2>4. PICK value \in Readings(score.product, criterion) : Measured(score.product, criterion, value)
    BY <2>2, <2>3 DEF IsEvaluation
  <2>5. value \in Nat /\ e.status = ScoreValue(value, criterion)[1]
    BY <2>2, <2>4 DEF IsEvaluation
  <2>6. Within(value, criterion)
    BY <2>1, <2>2, <2>5, ScoreValueIs
  <2> QED BY <1>1, <2>4, <2>6 DEF criterion
<1> QED BY <1>3, <1>4

(***************************************************************************)
(* Every stage leaves data of the right kind behind: evidence, checks and  *)
(* facts about collected products and scores of all of them, nothing of    *)
(* it from after the stage but what a page was saved with.                 *)
(***************************************************************************)
THEOREM AppraisalTypeCorrect == Spec => []TypeOK
<1>1. IInv => TypeOK
  BY InvariantIsTyped
<1> QED BY <1>1, AppraisalInductive, PTL

(***************************************************************************)
(* A criterion is scored exactly when all that was observed of it agrees.  *)
(***************************************************************************)
THEOREM AppraisalOneReadingDecides == Spec => []OneReadingDecides
<1>1. IInv => OneReadingDecides
  BY InvariantDecides
<1> QED BY <1>1, AppraisalInductive, PTL

(***************************************************************************)
(* A value nearer to the preferred one never scores less.                  *)
(***************************************************************************)
THEOREM AppraisalNearerScoresNoLess == Spec => []NearerScoresNoLess
<1>1. IInv => NearerScoresNoLess
  BY InvariantPrefersNearer
<1> QED BY <1>1, AppraisalInductive, PTL

(***************************************************************************)
(* No later stage refuses what an earlier one accepted: of all the         *)
(* refusals scoring and the report have only that of evidence from the     *)
(* future ever occurs, and only while an offer's page bears a later time   *)
(* than the clock (confidence.py:183).                                     *)
(***************************************************************************)
THEOREM AppraisalNothingRefused == Spec => []WhatWasAcceptedIsNotRefused
<1>1. IInv => WhatWasAcceptedIsNotRefused
  BY DEF IInv
<1> QED BY <1>1, AppraisalInductive, PTL

(***************************************************************************)
(* The front of a candidate is its depth in the order of dominance.        *)
(***************************************************************************)
THEOREM AppraisalFrontsAreDepth == Spec => []FrontsAreDominanceDepth
<1>1. IInv => FrontsAreDominanceDepth
  BY InvariantHasDepths
<1> QED BY <1>1, AppraisalInductive, PTL

(***************************************************************************)
(* The better of two candidates of one tier ranks first.                   *)
(***************************************************************************)
THEOREM AppraisalBetterRanksFirst == Spec => []BetterRanksFirst
<1>1. IInv => BetterRanksFirst
  BY InvariantRanksBetterFirst
<1> QED BY <1>1, AppraisalInductive, PTL

(***************************************************************************)
(* The recommended product meets every hard requirement in all that was    *)
(* observed of it, and can be had within the budget.                       *)
(***************************************************************************)
THEOREM AppraisalIsDefensible == Spec => []RecommendationIsDefensible
<1>1. IInv => RecommendationIsDefensible
  BY InvariantIsDefensible
<1> QED BY <1>1, AppraisalInductive, PTL

===============================================================================
