----------------------------- MODULE RankingProofs -----------------------------
(***************************************************************************)
(* Proofs about the order of the candidates (CandidateRanking,             *)
(* ShoppingReport), for any number of candidates.                          *)
(***************************************************************************)
EXTENDS ShoppingReport, FiniteSetTheorems, FunctionTheorems, SequenceTheorems, TLAPS

-------------------------------------------------------------------------------
(***************************************************************************)
(* Induction.  Strict inclusion of finite sets is well founded, so that a  *)
(* set that is not as it should be has a smallest subset that is not.      *)
(***************************************************************************)
LEMMA FiniteInduction ==
    ASSUME NEW S, IsFiniteSet(S), NEW D, {} \in D,
           \A T \in SUBSET S : \A x \in S \ T : T \in D => T \cup {x} \in D
    PROVE  S \in D
<1> DEFINE Bad == {T \in SUBSET S : T \notin D}
<1> SUFFICES ASSUME S \notin D PROVE FALSE
  OBVIOUS
<1>1. Bad \subseteq FiniteSubsetsOf(S) /\ Bad # {}
  BY FS_Subset DEF FiniteSubsetsOf
<1>2. PICK T \in Bad : \A U \in Bad : ~(<<U, T>> \in StrictSubsetOrdering(S))
  <2> HIDE DEF Bad
  <2> QED BY <1>1, FS_StrictSubsetOrderingWellFounded, WFMin
<1>3. PICK x \in T : TRUE
  OBVIOUS
<1>4. T \ {x} \in Bad
  BY <1>3
<1>5. <<T \ {x}, T>> \in StrictSubsetOrdering(S)
  BY <1>3 DEF StrictSubsetOrdering
<1> QED BY <1>2, <1>4, <1>5

\* A set of natural numbers that is not empty has a least element.
LEMMA LeastNatural ==
    ASSUME NEW T, T \subseteq Nat, T # {}
    PROVE  \E x \in T : \A y \in T : x <= y
<1> DEFINE Down(n) == 1 .. n
           I == {Down(n) : n \in T}
<1>1. I \subseteq FiniteSubsetsOf(Nat) /\ I # {}
  <2>1. ASSUME NEW n \in T PROVE Down(n) \in SUBSET Nat /\ IsFiniteSet(Down(n))
    <3>1. n \in Int /\ 1 \in Int
      BY <2>1
    <3>2. IsFiniteSet(1 .. n)
      BY <3>1, FS_Interval
    <3> QED BY <3>1, <3>2
  <2> QED BY <2>1 DEF FiniteSubsetsOf
<1>2. PICK U \in I : \A V \in I : ~(<<V, U>> \in StrictSubsetOrdering(Nat))
  <2> HIDE DEF I
  <2> QED BY <1>1, FS_StrictSubsetOrderingWellFounded, WFMin
<1>3. PICK x \in T : U = Down(x)
  OBVIOUS
<1>4. ASSUME NEW y \in T, y < x PROVE FALSE
  <2>1. Down(y) \subseteq Down(x) /\ x \in Down(x) /\ x \notin Down(y)
    BY <1>4
  <2>2. <<Down(y), Down(x)>> \in StrictSubsetOrdering(Nat)
    BY <2>1 DEF StrictSubsetOrdering
  <2> QED BY <2>2, <1>2, <1>3
<1> QED BY <1>4

\* Induction over the numbers from zero to n.
LEMMA UpTo ==
    ASSUME NEW n \in Nat, NEW D, 0 \in D, \A k \in 1 .. n : k - 1 \in D => k \in D
    PROVE  \A k \in 0 .. n : k \in D
<1> DEFINE T == {k \in 0 .. n : k \notin D}
<1> SUFFICES ASSUME T # {} PROVE FALSE
  OBVIOUS
<1>1. T \subseteq Nat
  OBVIOUS
<1>2. PICK k \in T : \A m \in T : k <= m
  <2> HIDE DEF T
  <2> QED BY <1>1, LeastNatural
<1>3. k \in 1 .. n /\ k - 1 \in 0 .. n
  BY <1>2
<1>4. k - 1 \notin T
  BY <1>2, <1>3
<1> QED BY <1>2, <1>3, <1>4

-------------------------------------------------------------------------------
(***************************************************************************)
(* The greatest and the least number of a set.                             *)
(***************************************************************************)
LEMMA GreatestOfBounded ==
    ASSUME NEW S, S \subseteq Int, S # {}, NEW n \in Int, \A x \in S : x <= n
    PROVE  Max(S) \in S /\ \A x \in S : x <= Max(S)
<1> DEFINE T == {n - x : x \in S}
<1>1. T \subseteq Nat /\ T # {}
  <2>1. ASSUME NEW x \in S PROVE n - x \in Nat
    BY <2>1
  <2> QED BY <2>1
<1>2. PICK t \in T : \A u \in T : t <= u
  <2> HIDE DEF T
  <2> QED BY <1>1, LeastNatural
<1>3. PICK x \in S : t = n - x
  BY <1>2
<1>4. ASSUME NEW y \in S PROVE y <= x
  <2>1. t <= n - y
    BY <1>2
  <2> QED BY <1>3, <2>1
<1> QED BY <1>4 DEF Max

\* So has a finite set of numbers, and Min is that element.
LEMMA LeastOfFinite ==
    ASSUME NEW S, S \subseteq Int, S # {}, IsFiniteSet(S)
    PROVE  Min(S) \in S /\ \A x \in S : Min(S) <= x
<1> DEFINE D == {T \in SUBSET S : T = {} \/ \E x \in T : \A y \in T : x <= y}
<1>1. {} \in D
  OBVIOUS
<1>2. ASSUME NEW T \in SUBSET S, NEW z \in S \ T, T \in D PROVE T \cup {z} \in D
  <2>1. CASE T = {}
    BY <2>1
  <2>2. CASE T # {}
    <3>1. PICK x \in T : \A y \in T : x <= y
      BY <1>2, <2>2
    <3>2. CASE x <= z
      BY <3>1, <3>2
    <3>3. CASE z < x
      <4>1. \A y \in T \cup {z} : z <= y
        BY <3>1, <3>3
      <4> QED BY <4>1
    <3> QED BY <3>2, <3>3
  <2> QED BY <2>1, <2>2
<1>3. S \in D
  <2> HIDE DEF D
  <2> QED BY <1>1, <1>2, FiniteInduction
<1>4. \E x \in S : \A y \in S : x <= y
  BY <1>3
<1> QED BY <1>4 DEF Min
-------------------------------------------------------------------------------
(***************************************************************************)
(* Keys are compared number by number: a strict total order.               *)
(***************************************************************************)
KeysOf(n) == [1 .. n -> Int]

\* Keys of one length are strictly ordered.
LEMMA KeyLessIsStrict ==
    ASSUME NEW n \in Nat, NEW a \in KeysOf(n), NEW b \in KeysOf(n), NEW c \in KeysOf(n)
    PROVE  /\ ~KeyLess(a, a)
           /\ KeyLess(a, b) => ~KeyLess(b, a)
           /\ KeyLess(a, b) /\ KeyLess(b, c) => KeyLess(a, c)
<1>1. ASSUME NEW x \in KeysOf(n), NEW y \in KeysOf(n)
      PROVE  KeyLess(x, y) <=> \E i \in 1 .. n : x[i] < y[i] /\ \A j \in 1 .. i - 1 : x[j] = y[j]
  BY DEF KeyLess, KeysOf
<1>2. ~KeyLess(a, a)
  BY <1>1 DEF KeysOf
<1>3. ASSUME KeyLess(a, b), KeyLess(b, c) PROVE KeyLess(a, c)
  <2>1. PICK i \in 1 .. n : a[i] < b[i] /\ \A j \in 1 .. i - 1 : a[j] = b[j]
    BY <1>1, <1>3
  <2>2. PICK k \in 1 .. n : b[k] < c[k] /\ \A j \in 1 .. k - 1 : b[j] = c[j]
    BY <1>1, <1>3
  <2>3. CASE i <= k
    <3>1. a[i] < c[i]
      BY <2>1, <2>2, <2>3 DEF KeysOf
    <3>2. \A j \in 1 .. i - 1 : a[j] = c[j]
      BY <2>1, <2>2, <2>3
    <3> QED BY <1>1, <3>1, <3>2
  <2>4. CASE k < i
    <3>1. a[k] < c[k]
      BY <2>1, <2>2, <2>4 DEF KeysOf
    <3>2. \A j \in 1 .. k - 1 : a[j] = c[j]
      BY <2>1, <2>2, <2>4
    <3> QED BY <1>1, <3>1, <3>2
  <2> QED BY <2>3, <2>4
<1>4. ASSUME KeyLess(a, b), KeyLess(b, a) PROVE FALSE
  <2>1. PICK i \in 1 .. n : a[i] < b[i] /\ \A j \in 1 .. i - 1 : a[j] = b[j]
    BY <1>1, <1>4
  <2>2. PICK k \in 1 .. n : b[k] < a[k] /\ \A j \in 1 .. k - 1 : b[j] = a[j]
    BY <1>1, <1>4
  <2>3. a[i] \in Int /\ b[i] \in Int /\ a[k] \in Int /\ b[k] \in Int
    BY DEF KeysOf
  <2> QED BY <2>1, <2>2, <2>3
<1> QED BY <1>2, <1>3, <1>4

\* Two keys of one length that differ are comparable.
LEMMA KeyLessIsTotal ==
    ASSUME NEW n \in Nat, NEW a \in KeysOf(n), NEW b \in KeysOf(n), a # b
    PROVE  KeyLess(a, b) \/ KeyLess(b, a)
<1> DEFINE T == {i \in 1 .. n : a[i] # b[i]}
<1>1. T \subseteq Nat /\ T # {}
  BY DEF KeysOf
<1>2. PICK i \in T : \A j \in T : i <= j
  <2> HIDE DEF T
  <2> QED BY <1>1, LeastNatural
<1>3. \A j \in 1 .. i - 1 : a[j] = b[j]
  BY <1>2
<1>4. a[i] \in Int /\ b[i] \in Int /\ a[i] # b[i]
  BY DEF KeysOf
<1>5. DOMAIN a = 1 .. n /\ DOMAIN b = 1 .. n
  BY DEF KeysOf
<1> QED BY <1>3, <1>4, <1>5 DEF KeyLess
-------------------------------------------------------------------------------
(***************************************************************************)
(* Sorting.  Keys that differ put a finite set in one order: the element   *)
(* with i - 1 smaller ones stands at place i.                              *)
(***************************************************************************)
HasKeys(n, S, key) ==
    /\ n \in Nat
    /\ IsFiniteSet(S)
    /\ key \in [S -> KeysOf(n)]
    /\ \A x, y \in S : key[x] = key[y] => x = y

Ascends(S, key, seq) ==
    /\ seq \in [1 .. Cardinality(S) -> S]
    /\ \A i, j \in 1 .. Cardinality(S) : i < j => KeyLess(key[seq[i]], key[seq[j]])

\* Every element once.
Lists(S, seq) ==
    /\ seq \in [1 .. Cardinality(S) -> S]
    /\ \A i, j \in 1 .. Cardinality(S) : seq[i] = seq[j] => i = j
    /\ \A x \in S : \E i \in 1 .. Cardinality(S) : seq[i] = x

\* Finitely many elements with distinct keys can be put in order.
LEMMA OrderedExists ==
    ASSUME NEW n, NEW S, NEW key, HasKeys(n, S, key)
    PROVE  \E seq : Ascends(S, key, seq)
<1> USE DEF HasKeys
<1> DEFINE Below(x) == {y \in S : KeyLess(key[y], key[x])}
           Places == 1 .. Cardinality(S)
           place == [x \in S |-> 1 + Cardinality(Below(x))]
<1>1. Cardinality(S) \in Nat
  BY FS_CardinalityType
<1>2. \A x \in S : key[x] \in KeysOf(n)
  OBVIOUS
<1>3. ASSUME NEW x \in S PROVE IsFiniteSet(Below(x)) /\ Cardinality(Below(x)) \in Nat
  <2>1. Below(x) \in SUBSET S
    OBVIOUS
  <2> HIDE DEF Below
  <2>2. IsFiniteSet(Below(x))
    BY <2>1, FS_Subset
  <2> QED BY <2>2, FS_CardinalityType
<1>4. ASSUME NEW x \in S, NEW y \in S, KeyLess(key[x], key[y]) PROVE place[x] < place[y]
  <2>1. Below(x) \subseteq Below(y) /\ x \in Below(y) /\ x \notin Below(x)
    <3>1. ~KeyLess(key[x], key[x])
      BY <1>2, KeyLessIsStrict
    <3>2. ASSUME NEW z \in S, KeyLess(key[z], key[x]) PROVE KeyLess(key[z], key[y])
      BY <1>2, <1>4, <3>2, KeyLessIsStrict
    <3> QED BY <1>4, <3>1, <3>2
  <2> HIDE DEF Below
  <2>2. Cardinality(Below(x)) <= Cardinality(Below(y)) /\ Cardinality(Below(x)) # Cardinality(Below(y))
    BY <1>3, <2>1, FS_Subset
  <2> QED BY <1>3, <2>2
<1>5. ASSUME NEW x \in S PROVE place[x] \in Places
  <2>1. Below(x) \in SUBSET S /\ x \notin Below(x)
    BY <1>2, KeyLessIsStrict
  <2> HIDE DEF Below
  <2>2. Cardinality(Below(x)) <= Cardinality(S) /\ Cardinality(Below(x)) # Cardinality(S)
    BY <2>1, FS_Subset
  <2> QED BY <1>1, <1>3, <2>2
<1>6. \A x, y \in S : place[x] = place[y] => x = y
  <2> SUFFICES ASSUME NEW x \in S, NEW y \in S, place[x] = place[y], x # y PROVE FALSE
    OBVIOUS
  <2>1. key[x] # key[y]
    OBVIOUS
  <2>2. KeyLess(key[x], key[y]) \/ KeyLess(key[y], key[x])
    BY <1>2, <2>1, KeyLessIsTotal
  <2>3. place[x] \in Int /\ place[y] \in Int
    BY <1>5
  <2> HIDE DEF place
  <2> QED BY <1>4, <2>2, <2>3
<1> HIDE DEF Below, place
<1>7. place \in Injection(S, Places)
  <2>1. place \in [S -> Places]
    BY <1>5 DEF place
  <2> QED BY <1>6, <2>1, Fun_IsInj
<1>8. place \in Surjection(S, Places)
  <2>1. IsFiniteSet(Places) /\ Cardinality(Places) = Cardinality(S)
    <3>1. 1 \in Int /\ Cardinality(S) \in Int
      BY <1>1
    <3> QED BY <1>1, <3>1, FS_Interval
  <2> HIDE DEF Places
  <2> QED BY <1>7, <2>1, FS_Injection
<1>9. \A i \in Places : \E x \in S : place[x] = i
  BY <1>8, Fun_SurjectionProperties
<1> DEFINE seq == [i \in Places |-> CHOOSE x \in S : place[x] = i]
<1>10. \A i \in Places : seq[i] \in S /\ place[seq[i]] = i
  BY <1>9
<1>11. ASSUME NEW i \in Places, NEW j \in Places, i < j PROVE KeyLess(key[seq[i]], key[seq[j]])
  <2>1. seq[i] \in S /\ seq[j] \in S /\ place[seq[i]] = i /\ place[seq[j]] = j
    BY <1>10
  <2> HIDE DEF seq
  <2>2. seq[i] # seq[j]
    BY <1>11, <2>1
  <2>3. key[seq[i]] # key[seq[j]]
    BY <2>1, <2>2
  <2>4. KeyLess(key[seq[i]], key[seq[j]]) \/ KeyLess(key[seq[j]], key[seq[i]])
    BY <1>2, <2>1, <2>3, KeyLessIsTotal
  <2>5. ~(place[seq[j]] < place[seq[i]])
    BY <1>11, <2>1
  <2> QED BY <1>4, <2>1, <2>4, <2>5
<1>12. seq \in [Places -> S]
  BY <1>10
<1> HIDE DEF seq
<1> QED BY <1>11, <1>12 DEF Ascends

\* What an ascending sequence of a set is: each element once.
LEMMA AscendingIsComplete ==
    ASSUME NEW n, NEW S, NEW key, HasKeys(n, S, key), NEW seq, Ascends(S, key, seq)
    PROVE  Lists(S, seq)
<1> USE DEF HasKeys, Ascends
<1> DEFINE Places == 1 .. Cardinality(S)
<1>1. Cardinality(S) \in Nat
  BY FS_CardinalityType
<1>2. ASSUME NEW i \in Places, NEW j \in Places, seq[i] = seq[j] PROVE i = j
  <2>1. seq[i] \in S /\ key[seq[i]] \in KeysOf(n)
    OBVIOUS
  <2>2. ~KeyLess(key[seq[i]], key[seq[i]])
    BY <2>1, KeyLessIsStrict
  <2>3. ~(i < j) /\ ~(j < i)
    BY <1>2, <2>2
  <2> QED BY <1>1, <2>3
<1>3. seq \in Injection(Places, S)
  BY <1>2, Fun_IsInj
<1>4. seq \in Surjection(Places, S)
  <2>1. Cardinality(Places) = Cardinality(S)
    <3>1. 1 \in Int /\ Cardinality(S) \in Int
      BY <1>1
    <3> QED BY <1>1, <3>1, FS_Interval
  <2> HIDE DEF Places
  <2> QED BY <1>3, <2>1, FS_Injection
<1>5. \A x \in S : \E i \in Places : seq[i] = x
  <2> HIDE DEF Places
  <2> QED BY <1>4, Fun_SurjectionProperties
<1> QED BY <1>2, <1>5 DEF Lists

\* Ordered does so, and loses and repeats nothing.
LEMMA OrderedIs ==
    ASSUME NEW n, NEW S, NEW key, HasKeys(n, S, key)
    PROVE  /\ Ascends(S, key, Ordered(key))
           /\ Lists(S, Ordered(key))
           /\ Cardinality(S) \in Nat
<1>1. DOMAIN key = S /\ IsFiniteSet(S)
  BY DEF HasKeys
<1>2. Cardinality(S) \in Nat
  BY <1>1, FS_CardinalityType
<1>3. PICK seq : Ascends(S, key, seq)
  BY OrderedExists
<1>4. Ascends(S, key, Ordered(key))
  BY <1>1, <1>3 DEF Ordered, Ascends
<1> QED BY <1>2, <1>4, AscendingIsComplete

\* There is only one such order.
LEMMA OrderedIsUnique ==
    ASSUME NEW n, NEW S, NEW key, HasKeys(n, S, key), NEW seq, Ascends(S, key, seq)
    PROVE  Ordered(key) = seq
<1> DEFINE Places == 1 .. Cardinality(S)
           own == Ordered(key)
           T == {i \in Places : own[i] # seq[i]}
<1>1. /\ Cardinality(S) \in Nat
      /\ own \in [Places -> S]
      /\ \A i, j \in Places : i < j => KeyLess(key[own[i]], key[own[j]])
      /\ \A i, j \in Places : own[i] = own[j] => i = j
      /\ \A x \in S : \E i \in Places : own[i] = x
  <2>1. Ascends(S, key, own) /\ Lists(S, own) /\ Cardinality(S) \in Nat
    BY OrderedIs
  <2> HIDE DEF own
  <2> QED BY <2>1 DEF Ascends, Lists
<1>2. /\ seq \in [Places -> S]
      /\ \A i, j \in Places : i < j => KeyLess(key[seq[i]], key[seq[j]])
      /\ \A i, j \in Places : seq[i] = seq[j] => i = j
      /\ \A x \in S : \E i \in Places : seq[i] = x
  <2>1. Lists(S, seq)
    BY AscendingIsComplete
  <2> QED BY <2>1 DEF Ascends, Lists
<1> HIDE DEF own
<1>3. SUFFICES ASSUME T # {} PROVE FALSE
  <2>1. own = seq
    BY <1>1, <1>2, <1>3
  <2> QED BY <2>1 DEF own
<1>4. T \subseteq Nat
  OBVIOUS
<1>5. PICK i \in T : \A j \in T : i <= j
  <2> HIDE DEF T
  <2> QED BY <1>3, <1>4, LeastNatural
<1>6. i \in Places /\ own[i] # seq[i] /\ own[i] \in S /\ seq[i] \in S
  BY <1>1, <1>2, <1>5
<1>7. \A j \in Places : j < i => own[j] = seq[j]
  BY <1>1, <1>5
<1>8. PICK j \in Places : seq[j] = own[i]
  BY <1>2, <1>6
<1>9. PICK k \in Places : own[k] = seq[i]
  BY <1>1, <1>6
<1>10. ~(j < i) /\ j # i /\ ~(k < i) /\ k # i
  BY <1>1, <1>2, <1>6, <1>7, <1>8, <1>9
<1>11. i < j /\ i < k
  BY <1>1, <1>6, <1>10
<1>12. KeyLess(key[seq[i]], key[own[i]]) /\ KeyLess(key[own[i]], key[seq[i]])
  BY <1>1, <1>2, <1>6, <1>8, <1>9, <1>11
<1>13. n \in Nat /\ key[own[i]] \in KeysOf(n) /\ key[seq[i]] \in KeysOf(n)
  BY <1>6 DEF HasKeys
<1> QED BY <1>12, <1>13, KeyLessIsStrict
-------------------------------------------------------------------------------
(***************************************************************************)
(* Dominance, and the fronts that are peeled off a tier.                   *)
(***************************************************************************)
AreComparable(tier) ==
    /\ IsFiniteSet(tier)
    /\ \A draft \in tier : draft.adjusted \in Int /\ draft.confidence \in Int /\ draft.cost \in Int

\* Dominance is a strict order.
LEMMA DominatesIsStrict ==
    ASSUME NEW tier, AreComparable(tier), NEW a \in tier, NEW b \in tier, NEW c \in tier
    PROVE  /\ ~Dominates(a, a)
           /\ Dominates(a, b) /\ Dominates(b, c) => Dominates(a, c)
  BY DEF AreComparable, Dominates

\* Some draft of a tier is dominated by no other.
LEMMA SomeUndominated ==
    ASSUME NEW tier, AreComparable(tier), tier # {}
    PROVE  Undominated(tier) # {}
<1> DEFINE D == {T \in SUBSET tier : T = {} \/ \E x \in T : \A y \in T : ~Dominates(y, x)}
<1>1. {} \in D
  OBVIOUS
<1>2. ASSUME NEW T \in SUBSET tier, NEW z \in tier \ T, T \in D PROVE T \cup {z} \in D
  <2>1. ~Dominates(z, z)
    BY DominatesIsStrict
  <2>2. CASE T = {}
    BY <2>1, <2>2
  <2>3. CASE T # {}
    <3>1. PICK x \in T : \A y \in T : ~Dominates(y, x)
      BY <1>2, <2>3
    <3>2. CASE ~Dominates(z, x)
      BY <3>1, <3>2
    <3>3. CASE Dominates(z, x)
      <4>1. \A y \in T : ~Dominates(y, z)
        BY <3>1, <3>3, DominatesIsStrict
      <4> QED BY <2>1, <4>1
    <3> QED BY <3>2, <3>3
  <2> QED BY <2>2, <2>3
<1>3. tier \in D
  <2> HIDE DEF D
  <2> QED BY <1>1, <1>2, FiniteInduction DEF AreComparable
<1> QED BY <1>3 DEF Undominated

\* The recursive definition has a value.
LEMMA RemainingIs ==
    ASSUME NEW tier, IsFiniteSet(tier)
    PROVE  LET N == Cardinality(tier)
               left == Remaining(tier)
           IN  /\ N \in Nat
               /\ left \in [0 .. N -> SUBSET tier]
               /\ left[0] = tier
               /\ \A n \in 1 .. N : left[n] = left[n - 1] \ Undominated(left[n - 1])
<1> DEFINE N == Cardinality(tier)
           Peels(f, k) == /\ f \in [0 .. k -> SUBSET tier]
                          /\ f[0] = tier
                          /\ \A n \in 1 .. k : f[n] = f[n - 1] \ Undominated(f[n - 1])
           D == {k \in 0 .. N : \E f : Peels(f, k)}
<1>1. N \in Nat
  BY FS_CardinalityType
<1> HIDE DEF N
<1>2. 0 \in D
  <2>1. Peels([n \in 0 .. 0 |-> tier], 0)
    OBVIOUS
  <2> HIDE DEF Peels
  <2> QED BY <1>1, <2>1
<1>3. ASSUME NEW k \in 1 .. N, k - 1 \in D PROVE k \in D
  <2>1. PICK f : Peels(f, k - 1)
    BY <1>3
  <2> DEFINE g == [n \in 0 .. k |-> IF n = k THEN f[k - 1] \ Undominated(f[k - 1]) ELSE f[n]]
  <2>2. \A n \in 0 .. k - 1 : g[n] = f[n] /\ f[n] \in SUBSET tier
    BY <2>1
  <2>3. g[k] = f[k - 1] \ Undominated(f[k - 1])
    OBVIOUS
  <2>4. g \in [0 .. k -> SUBSET tier]
    <3>1. k - 1 \in 0 .. k - 1 /\ k \in Int
      BY <1>3
    <3>2. g[k] \in SUBSET tier
      BY <2>2, <2>3, <3>1
    <3>3. \A n \in 0 .. k : n = k \/ n \in 0 .. k - 1
      BY <3>1
    <3>4. \A n \in 0 .. k : g[n] \in SUBSET tier
      BY <2>2, <3>2, <3>3
    <3> QED BY <3>4
  <2>5. ASSUME NEW n \in 1 .. k PROVE g[n] = g[n - 1] \ Undominated(g[n - 1])
    <3>1. CASE n = k
      BY <2>2, <2>3, <3>1
    <3>2. CASE n # k
      <4>1. n \in 1 .. k - 1 /\ n - 1 \in 0 .. k - 1
        BY <3>2
      <4> QED BY <2>1, <2>2, <4>1
    <3> QED BY <3>1, <3>2
  <2>6. Peels(g, k)
    <3>1. g[0] = tier
      BY <2>1, <2>2
    <3> QED BY <2>4, <2>5, <3>1
  <2> HIDE DEF Peels
  <2> QED BY <2>6
<1>4. N \in D
  <2> HIDE DEF D
  <2> QED BY <1>1, <1>2, <1>3, UpTo
<1>5. PICK f : Peels(f, N)
  BY <1>4
<1>6. f = [n \in 0 .. N |-> IF n = 0 THEN tier ELSE f[n - 1] \ Undominated(f[n - 1])]
  <2>1. \A n \in 0 .. N : f[n] = IF n = 0 THEN tier ELSE f[n - 1] \ Undominated(f[n - 1])
    BY <1>5
  <2> QED BY <1>5, <2>1
<1>7. Remaining(tier) = [n \in 0 .. N |-> IF n = 0 THEN tier
                                          ELSE Remaining(tier)[n - 1] \ Undominated(Remaining(tier)[n - 1])]
  BY <1>6 DEF Remaining, N
<1> DEFINE left == Remaining(tier)
<1>8. left[0] = tier /\ \A n \in 1 .. N : left[n] = left[n - 1] \ Undominated(left[n - 1])
  <2>1. left = [n \in 0 .. N |-> IF n = 0 THEN tier ELSE left[n - 1] \ Undominated(left[n - 1])]
    BY <1>7
  <2> HIDE DEF left
  <2>2. \A n \in 0 .. N : left[n] = IF n = 0 THEN tier ELSE left[n - 1] \ Undominated(left[n - 1])
    BY <2>1
  <2>3. 0 \in 0 .. N /\ \A n \in 1 .. N : n \in 0 .. N /\ n # 0
    BY <1>1
  <2> QED BY <2>2, <2>3
<1>9. \A n \in 0 .. N : left[n] \in SUBSET tier
  <2> DEFINE E == {n \in 0 .. N : left[n] \in SUBSET tier}
  <2> HIDE DEF left
  <2>1. 0 \in E
    BY <1>1, <1>8
  <2>2. \A n \in 1 .. N : n - 1 \in E => n \in E
    BY <1>1, <1>8
  <2> HIDE DEF E
  <2>3. \A n \in 0 .. N : n \in E
    BY <1>1, <2>1, <2>2, UpTo
  <2> QED BY <2>3 DEF E
<1>10. left \in [0 .. N -> SUBSET tier]
  BY <1>7, <1>9
<1> HIDE DEF left
<1> QED BY <1>1, <1>8, <1>10 DEF N, left
\* After as many fronts as there are candidates nobody is left.
LEMMA NobodyRemains ==
    ASSUME NEW tier, AreComparable(tier)
    PROVE  Remaining(tier)[Cardinality(tier)] = {}
<1> DEFINE N == Cardinality(tier)
           left == Remaining(tier)
           D == {n \in 0 .. N : Cardinality(left[n]) <= N - n}
<1>1. IsFiniteSet(tier)
  BY DEF AreComparable
<1>2. /\ N \in Nat
      /\ left \in [0 .. N -> SUBSET tier]
      /\ left[0] = tier
      /\ \A n \in 1 .. N : left[n] = left[n - 1] \ Undominated(left[n - 1])
  BY <1>1, RemainingIs
<1> HIDE DEF left
<1>3. ASSUME NEW T \in SUBSET tier PROVE AreComparable(T) /\ Cardinality(T) \in Nat
  <2>1. IsFiniteSet(T)
    BY <1>1, FS_Subset
  <2> QED BY <2>1, FS_CardinalityType DEF AreComparable
<1>4. 0 \in D
  BY <1>2
<1>5. ASSUME NEW n \in 1 .. N, n - 1 \in D PROVE n \in D
  <2> DEFINE T == left[n - 1]
  <2>1. n - 1 \in 0 .. N /\ n \in 0 .. N
    BY <1>2
  <2>2. T \in SUBSET tier /\ left[n] = T \ Undominated(T) /\ Cardinality(T) <= N - (n - 1)
    BY <1>2, <1>5, <2>1
  <2> HIDE DEF T
  <2>3. left[n] \in SUBSET T
    BY <2>2
  <2>4. IsFiniteSet(T) /\ AreComparable(T) /\ Cardinality(T) \in Nat /\ Cardinality(left[n]) \in Nat
    BY <1>3, <2>2, <2>3 DEF AreComparable
  <2>5. Cardinality(left[n]) <= N - n
    <3>1. CASE T = {}
      <4>1. left[n] = {}
        BY <2>3, <3>1
      <4>2. Cardinality(left[n]) = 0
        BY <4>1, FS_EmptySet
      <4> QED BY <1>2, <2>1, <4>2
    <3>2. CASE T # {}
      <4>1. Undominated(T) # {} /\ Undominated(T) \subseteq T
        BY <2>4, <3>2, SomeUndominated DEF Undominated
      <4>2. left[n] # T
        BY <2>2, <4>1
      <4>3. Cardinality(left[n]) <= Cardinality(T) /\ Cardinality(left[n]) # Cardinality(T)
        BY <2>3, <2>4, <4>2, FS_Subset
      <4> QED BY <1>2, <2>2, <2>4, <4>3
    <3> QED BY <3>1, <3>2
  <2> QED BY <2>1, <2>5
<1>6. N \in D
  <2> HIDE DEF D
  <2>1. \A n \in 0 .. N : n \in D
    BY <1>2, <1>4, <1>5, UpTo
  <2> QED BY <1>2, <2>1
<1>7. left[N] \in SUBSET tier /\ Cardinality(left[N]) <= 0
  BY <1>2, <1>6
<1>8. Cardinality(left[N]) = 0 /\ IsFiniteSet(left[N])
  BY <1>3, <1>7 DEF AreComparable
<1> QED BY <1>8, FS_EmptySet DEF left

\* What remains after more fronts is less.
LEMMA RemainingShrinks ==
    ASSUME NEW tier, IsFiniteSet(tier),
           NEW m \in 0 .. Cardinality(tier), NEW n \in 0 .. Cardinality(tier), m <= n
    PROVE  Remaining(tier)[n] \subseteq Remaining(tier)[m]
<1> DEFINE N == Cardinality(tier)
           left == Remaining(tier)
           D == {k \in 0 .. N : m <= k => left[k] \subseteq left[m]}
<1>1. /\ N \in Nat
      /\ \A k \in 1 .. N : left[k] = left[k - 1] \ Undominated(left[k - 1])
  BY RemainingIs
<1> HIDE DEF left
<1>2. 0 \in D
  BY <1>1
<1>3. ASSUME NEW k \in 1 .. N, k - 1 \in D PROVE k \in D
  <2>1. left[k] \subseteq left[k - 1]
    BY <1>1
  <2>2. CASE m <= k - 1
    BY <1>3, <2>1, <2>2
  <2>3. CASE ~(m <= k - 1)
    <3>1. m <= k => m = k
      BY <1>1, <2>3
    <3> QED BY <1>1, <3>1
  <2> QED BY <2>2, <2>3
<1>4. \A k \in 0 .. N : k \in D
  <2> HIDE DEF D
  <2> QED BY <1>1, <1>2, <1>3, UpTo
<1> QED BY <1>4 DEF left

\* The front of a draft: where it is no longer dominated.
LEMMA FrontInIs ==
    ASSUME NEW tier, AreComparable(tier), NEW draft \in tier
    PROVE  /\ Cardinality(tier) \in Nat
           /\ FrontIn(tier, draft) \in 1 .. Cardinality(tier)
           /\ draft \in Undominated(Remaining(tier)[FrontIn(tier, draft) - 1])
           /\ \A n \in 0 .. Cardinality(tier) :
                 draft \in Remaining(tier)[n] <=> n < FrontIn(tier, draft)
<1> DEFINE N == Cardinality(tier)
           left == Remaining(tier)
           T == {n \in 0 .. N : draft \in left[n]}
           m == Max(T)
<1>1. IsFiniteSet(tier)
  BY DEF AreComparable
<1>2. /\ N \in Nat
      /\ left[0] = tier
      /\ left[N] = {}
      /\ \A k \in 1 .. N : left[k] = left[k - 1] \ Undominated(left[k - 1])
      /\ \A i, k \in 0 .. N : i <= k => left[k] \subseteq left[i]
  BY <1>1, RemainingIs, NobodyRemains, RemainingShrinks
<1>3. FrontIn(tier, draft) = m + 1
  BY DEF FrontIn
<1> HIDE DEF left
<1>4. m \in T /\ \A n \in T : n <= m
  <2>1. T \subseteq Int /\ T # {} /\ N \in Int /\ \A n \in T : n <= N
    BY <1>2
  <2> HIDE DEF T
  <2> QED BY <2>1, GreatestOfBounded
<1> HIDE DEF m
<1>5. m \in 0 .. N /\ m # N /\ draft \in left[m]
  BY <1>2, <1>4
<1>6. m + 1 \in 1 .. N /\ m + 1 \notin T
  BY <1>2, <1>4, <1>5
<1>7. draft \in Undominated(left[m])
  <2>1. draft \notin left[m + 1] /\ (m + 1) - 1 = m
    BY <1>2, <1>5, <1>6
  <2> QED BY <1>2, <1>5, <1>6, <2>1
<1>8. ASSUME NEW n \in 0 .. N PROVE draft \in left[n] <=> n < m + 1
  <2>1. CASE n <= m
    BY <1>2, <1>5, <2>1
  <2>2. CASE ~(n <= m)
    BY <1>2, <1>4, <1>5, <2>2
  <2> QED BY <1>5, <2>1, <2>2
<1>9. (m + 1) - 1 = m
  BY <1>5
<1> QED BY <1>2, <1>3, <1>6, <1>7, <1>8, <1>9 DEF left

\* Who dominates stands in an earlier front.
LEMMA DominatorIsInEarlierFront ==
    ASSUME NEW tier, AreComparable(tier), NEW a \in tier, NEW b \in tier, Dominates(a, b)
    PROVE  FrontIn(tier, a) < FrontIn(tier, b)
<1> DEFINE left == Remaining(tier)
           f == FrontIn(tier, a)
           g == FrontIn(tier, b)
<1>1. Cardinality(tier) \in Nat /\ f \in 1 .. Cardinality(tier) /\ g \in 1 .. Cardinality(tier)
  BY FrontInIs
<1>2. b \in Undominated(left[g - 1])
  BY FrontInIs
<1>3. \A n \in 0 .. Cardinality(tier) : a \in left[n] <=> n < f
  BY FrontInIs
<1> HIDE DEF left, f, g
<1>4. a # b
  BY DominatesIsStrict
<1>5. a \notin left[g - 1]
  BY <1>2, <1>4 DEF Undominated
<1>6. ~(g - 1 < f)
  BY <1>1, <1>3, <1>5
<1>7. f < g
  BY <1>1, <1>6
<1> QED BY <1>7 DEF f, g

\* Who is not in the first front is dominated from the front before.
LEMMA DominatedFromFrontBefore ==
    ASSUME NEW tier, AreComparable(tier), NEW b \in tier, FrontIn(tier, b) # 1
    PROVE  \E a \in tier : Dominates(a, b) /\ FrontIn(tier, a) = FrontIn(tier, b) - 1
<1> DEFINE left == Remaining(tier)
           N == Cardinality(tier)
           g == FrontIn(tier, b)
<1>1. IsFiniteSet(tier)
  BY DEF AreComparable
<1>2. N \in Nat /\ g \in 1 .. N /\ b \in Undominated(left[g - 1]) /\ \A n \in 0 .. N : b \in left[n] <=> n < g
  BY FrontInIs
<1>3. left \in [0 .. N -> SUBSET tier] /\ \A k \in 1 .. N : left[k] = left[k - 1] \ Undominated(left[k - 1])
  BY <1>1, RemainingIs
<1>4. \A a \in tier : FrontIn(tier, a) \in 1 .. N /\ \A n \in 0 .. N : a \in left[n] <=> n < FrontIn(tier, a)
  BY FrontInIs
<1> HIDE DEF left
<1>5. g # 1 /\ g - 1 \in 1 .. N /\ (g - 1) - 1 = g - 2 /\ g - 2 \in 0 .. N
  BY <1>2
<1>6. b \in left[g - 1] /\ b \in left[g - 2]
  BY <1>2, <1>5
<1>7. b \notin Undominated(left[g - 2])
  <2>1. left[g - 1] = left[g - 2] \ Undominated(left[g - 2])
    BY <1>3, <1>5
  <2> QED BY <1>6, <2>1
<1>8. PICK a \in left[g - 2] : Dominates(a, b)
  BY <1>6, <1>7 DEF Undominated
<1>9. a \in tier
  BY <1>3, <1>5
<1>10. g - 2 < FrontIn(tier, a) /\ FrontIn(tier, a) < g /\ FrontIn(tier, a) \in 1 .. N
  BY <1>4, <1>5, <1>8, <1>9, DominatorIsInEarlierFront
<1>11. FrontIn(tier, a) = g - 1
  BY <1>2, <1>10
<1> QED BY <1>8, <1>9, <1>11

\* One more than the greatest front of those that dominate it.
LEMMA FrontIsDepth ==
    ASSUME NEW tier, AreComparable(tier), NEW b \in tier
    PROVE  FrontIn(tier, b)
              = 1 + Max({0} \cup {FrontIn(tier, a) : a \in {other \in tier : Dominates(other, b)}})
<1> DEFINE F == {FrontIn(tier, a) : a \in {other \in tier : Dominates(other, b)}}
           g == FrontIn(tier, b)
           N == Cardinality(tier)
<1>1. N \in Nat /\ \A a \in tier : FrontIn(tier, a) \in 1 .. N
  BY FrontInIs
<1>2. \A n \in F : n \in 1 .. N /\ n < g
  BY <1>1, DominatorIsInEarlierFront
<1>3. g \in 1 .. N /\ g - 1 \in {0} \cup F
  <2>1. CASE g = 1
    BY <1>1, <2>1
  <2>2. CASE g # 1
    <3>1. PICK a \in tier : Dominates(a, b) /\ FrontIn(tier, a) = g - 1
      BY <2>2, DominatedFromFrontBefore
    <3> QED BY <1>1, <3>1
  <2> QED BY <2>1, <2>2
<1> HIDE DEF F, g
<1>4. {0} \cup F \subseteq Int /\ {0} \cup F # {} /\ \A n \in {0} \cup F : n <= g - 1
  BY <1>1, <1>2, <1>3
<1>5. Max({0} \cup F) \in {0} \cup F /\ \A n \in {0} \cup F : n <= Max({0} \cup F)
  <2>1. g - 1 \in Int
    BY <1>3
  <2> QED BY <1>4, <2>1, GreatestOfBounded
<1>6. Max({0} \cup F) = g - 1
  <2> DEFINE M == Max({0} \cup F)
  <2>1. M \in {0} \cup F /\ g - 1 <= M
    BY <1>3, <1>5
  <2> HIDE DEF M
  <2>2. M \in Int /\ M <= g - 1 /\ g \in Int
    BY <1>3, <1>4, <2>1
  <2>3. M = g - 1
    BY <2>1, <2>2
  <2> QED BY <2>3 DEF M
<1>7. g = 1 + Max({0} \cup F)
  BY <1>3, <1>6
<1> QED BY <1>7 DEF F, g

\* The fronts of a tier are numbered without a gap.
LEMMA FrontsHaveNoGap ==
    ASSUME NEW tier, AreComparable(tier), NEW b \in tier, NEW n \in 1 .. FrontIn(tier, b)
    PROVE  \E a \in tier : FrontIn(tier, a) = n
<1> DEFINE g == FrontIn(tier, b)
           N == Cardinality(tier)
           D == {k \in 0 .. g - 1 : \E a \in tier : FrontIn(tier, a) = g - k}
<1>1. N \in Nat /\ g \in 1 .. N /\ \A a \in tier : FrontIn(tier, a) \in 1 .. N
  BY FrontInIs
<1>2. n \in 1 .. g
  OBVIOUS
<1>3. 0 \in D
  BY <1>1
<1>4. ASSUME NEW k \in 1 .. g - 1, k - 1 \in D PROVE k \in D
  <2>1. PICK a \in tier : FrontIn(tier, a) = g - (k - 1)
    BY <1>4
  <2>2. FrontIn(tier, a) # 1 /\ k \in 0 .. g - 1
    BY <1>1, <2>1
  <2>3. PICK c \in tier : FrontIn(tier, c) = FrontIn(tier, a) - 1
    BY <2>2, DominatedFromFrontBefore
  <2>4. FrontIn(tier, c) = g - k
    BY <1>1, <2>1, <2>3
  <2> QED BY <2>2, <2>4
<1> HIDE DEF g
<1>5. \A k \in 0 .. g - 1 : k \in D
  <2>1. g - 1 \in Nat
    BY <1>1
  <2> HIDE DEF D
  <2> QED BY <1>3, <1>4, <2>1, UpTo
<1>6. g - n \in 0 .. g - 1 /\ g - (g - n) = n
  BY <1>1, <1>2
<1> QED BY <1>5, <1>6
-------------------------------------------------------------------------------
(***************************************************************************)
(* The ranking of drafts whose numbers are numbers, one for each product.  *)
(***************************************************************************)
ScoreFields ==
    {"product", "budget", "eligible", "exclusions", "best", "evaluations", "cited", "adjusted",
     "confidence", "cost", "per100", "final", "front", "rank"}

IsDraft(draft) ==
    /\ DOMAIN draft = ScoreFields
    /\ draft.product \in Int
    /\ draft.eligible \in BOOLEAN
    /\ draft.eligible =>
          /\ draft.adjusted \in Int
          /\ draft.confidence \in Int
          /\ draft.cost \in Int
          /\ draft.cost > 0
          /\ draft.per100 \in Int
          /\ draft.final \in Int
          /\ draft.budget \in {"within_budget", "within_stretch"}
    /\ draft.front = None
    /\ draft.rank = None

AreDrafts(drafts) ==
    /\ IsFiniteSet(drafts)
    /\ \A draft \in drafts : IsDraft(draft)
    /\ \A a, b \in drafts : a.product = b.product => a = b

Eligible(drafts) == {draft \in drafts : draft.eligible}

KeyIn(eligible, draft) == RankingKey(draft, FrontOf(eligible, draft))

\* What scores are: the drafts, each in its place, with their fronts and ranks.
IsRanking(drafts, source, scores) ==
    LET E == Cardinality(Eligible(drafts))
        N == Cardinality(drafts)
    IN  /\ E \in Nat /\ N \in Nat /\ E <= N
        /\ Lists(drafts, source)
        /\ scores = [i \in 1 .. N |->
                       IF i <= E THEN [source[i] EXCEPT !.front = FrontOf(Eligible(drafts), source[i]),
                                                        !.rank = i]
                       ELSE source[i]]
        /\ \A i \in 1 .. N : source[i].eligible <=> i <= E
        /\ \A i, j \in 1 .. E :
              i < j => KeyLess(KeyIn(Eligible(drafts), source[i]), KeyIn(Eligible(drafts), source[j]))
        /\ \A i, j \in E + 1 .. N : i < j => source[i].product < source[j].product

\* The eligible drafts of a tier can be compared, and have a front in it.
LEMMA TiersAreComparable ==
    ASSUME NEW drafts, AreDrafts(drafts), NEW draft \in Eligible(drafts)
    PROVE  /\ AreComparable(Tier(Eligible(drafts), draft.budget))
           /\ draft \in Tier(Eligible(drafts), draft.budget)
           /\ FrontOf(Eligible(drafts), draft) \in Nat
           /\ FrontOf(Eligible(drafts), draft) > 0
<1> DEFINE tier == Tier(Eligible(drafts), draft.budget)
<1>1. tier \in SUBSET drafts /\ IsFiniteSet(drafts)
  BY DEF Tier, Eligible, AreDrafts
<1>2. draft \in tier
  BY DEF Tier
<1>3. \A d \in tier : d.adjusted \in Int /\ d.confidence \in Int /\ d.cost \in Int
  BY DEF Tier, Eligible, AreDrafts, IsDraft
<1> HIDE DEF tier
<1>4. IsFiniteSet(tier)
  BY <1>1, FS_Subset
<1>5. AreComparable(tier)
  BY <1>3, <1>4 DEF AreComparable
<1>6. Cardinality(tier) \in Nat /\ FrontIn(tier, draft) \in 1 .. Cardinality(tier)
  BY <1>2, <1>5, FrontInIs
<1>7. FrontIn(tier, draft) \in Nat /\ FrontIn(tier, draft) > 0
  BY <1>6
<1> QED BY <1>2, <1>5, <1>7 DEF tier, FrontOf

\* No two eligible drafts have one ranking key: it ends with the product.
LEMMA RankingKeysDiffer ==
    ASSUME NEW drafts, AreDrafts(drafts)
    PROVE  HasKeys(6, Eligible(drafts), [draft \in Eligible(drafts) |-> KeyIn(Eligible(drafts), draft)])
<1> DEFINE S == Eligible(drafts)
           key == [draft \in S |-> KeyIn(S, draft)]
<1>1. S \in SUBSET drafts /\ IsFiniteSet(drafts)
  BY DEF Eligible, AreDrafts
<1>2. IsFiniteSet(S)
  BY <1>1, FS_Subset
<1>3. ASSUME NEW d \in S
      PROVE  KeyIn(S, d) \in KeysOf(6) /\ KeyIn(S, d)[6] = d.product
  <2>1. IsDraft(d) /\ d.eligible
    BY DEF AreDrafts, Eligible
  <2>2. FrontOf(S, d) \in Int
    BY TiersAreComparable
  <2>3. TierPriority(d.budget) \in Int
    BY DEF TierPriority
  <2> QED BY <2>1, <2>2, <2>3 DEF KeyIn, RankingKey, KeysOf, IsDraft
<1>4. ASSUME NEW a \in S, NEW b \in S, key[a] = key[b] PROVE a = b
  <2>1. a.product = b.product
    BY <1>3, <1>4
  <2> QED BY <1>1, <2>1 DEF AreDrafts
<1>5. key \in [S -> KeysOf(6)]
  BY <1>3
<1> QED BY <1>2, <1>4, <1>5 DEF HasKeys

\* No two drafts have one product.
LEMMA ProductKeysDiffer ==
    ASSUME NEW drafts, AreDrafts(drafts), NEW S \in SUBSET drafts
    PROVE  HasKeys(1, S, [draft \in S |-> <<draft.product>>])
<1> DEFINE key == [draft \in S |-> <<draft.product>>]
<1>1. IsFiniteSet(S)
  BY FS_Subset DEF AreDrafts
<1>2. \A d \in S : d.product \in Int /\ key[d] = <<d.product>>
  BY DEF AreDrafts, IsDraft
<1>3. key \in [S -> KeysOf(1)]
  BY <1>2 DEF KeysOf
<1>4. ASSUME NEW a \in S, NEW b \in S, key[a] = key[b] PROVE a = b
  <2>1. a.product = b.product
    BY <1>2, <1>4
  <2> QED BY <2>1 DEF AreDrafts
<1> QED BY <1>1, <1>3, <1>4 DEF HasKeys

\* What the engine returns is a ranking of the drafts it was given.
LEMMA RankingIs ==
    ASSUME NEW drafts, AreDrafts(drafts)
    PROVE  \E source : IsRanking(drafts, source, Ranking(drafts))
<1> DEFINE S == Eligible(drafts)
           rest == drafts \ S
           E == Cardinality(S)
           M == Cardinality(rest)
           N == Cardinality(drafts)
           front == [draft \in S |-> FrontOf(S, draft)]
           key == [draft \in S |-> RankingKey(draft, front[draft])]
           other == [draft \in rest |-> <<draft.product>>]
           ranked == Ordered(key)
           others == Ordered(other)
           source == [i \in 1 .. N |-> IF i <= E THEN ranked[i] ELSE others[i - E]]
           head == [i \in DOMAIN ranked |-> [ranked[i] EXCEPT !.front = front[ranked[i]], !.rank = i]]
<1>1. Ascends(S, key, ranked) /\ Lists(S, ranked) /\ E \in Nat
  <2>1. key = [draft \in S |-> KeyIn(S, draft)]
    BY DEF KeyIn
  <2>2. HasKeys(6, S, key)
    BY <2>1, RankingKeysDiffer
  <2> HIDE DEF key, S
  <2> QED BY <2>2, OrderedIs
<1>2. Ascends(rest, other, others) /\ Lists(rest, others) /\ M \in Nat
  <2>1. HasKeys(1, rest, other)
    BY ProductKeysDiffer
  <2> HIDE DEF other, rest
  <2> QED BY <2>1, OrderedIs
<1>3. N \in Nat /\ N = E + M
  <2>1. IsFiniteSet(drafts) /\ S \subseteq drafts
    BY DEF AreDrafts, Eligible
  <2>2. S \cap drafts = S /\ drafts \cap S = S
    BY <2>1
  <2> HIDE DEF S
  <2>3. M = N - Cardinality(drafts \cap S)
    BY <2>1, FS_Difference
  <2>4. N \in Nat
    BY <2>1, FS_CardinalityType
  <2>5. Cardinality(drafts \cap S) = E
    BY <2>2
  <2> HIDE DEF E, M, N
  <2> QED BY <1>1, <1>2, <2>3, <2>4, <2>5
<1>4. Ranking(drafts) = head \o others
  BY DEF Ranking, Eligible
<1>5. /\ ranked \in [1 .. E -> S]
      /\ \A i, j \in 1 .. E : i < j => KeyLess(key[ranked[i]], key[ranked[j]])
      /\ \A i, j \in 1 .. E : ranked[i] = ranked[j] => i = j
      /\ \A x \in S : \E i \in 1 .. E : ranked[i] = x
  <2> HIDE DEF key, ranked, S
  <2> QED BY <1>1 DEF Ascends, Lists
<1>6. /\ others \in [1 .. M -> rest]
      /\ \A i, j \in 1 .. M : i < j => KeyLess(other[others[i]], other[others[j]])
      /\ \A i, j \in 1 .. M : others[i] = others[j] => i = j
      /\ \A x \in rest : \E i \in 1 .. M : others[i] = x
  <2> HIDE DEF other, others, rest
  <2> QED BY <1>2 DEF Ascends, Lists
<1> HIDE DEF ranked, others, E, M, N
<1>7. \A i \in 1 .. E : source[i] = ranked[i] /\ source[i] \in S /\ source[i].eligible
  BY <1>1, <1>2, <1>3, <1>5 DEF Eligible
<1>8. \A i \in E + 1 .. N : /\ i - E \in 1 .. M /\ source[i] = others[i - E]
                            /\ source[i] \in rest /\ ~source[i].eligible
  <2> SUFFICES ASSUME NEW i \in E + 1 .. N
               PROVE  /\ i - E \in 1 .. M /\ source[i] = others[i - E]
                      /\ source[i] \in rest /\ ~source[i].eligible
    OBVIOUS
  <2>1. i - E \in 1 .. M /\ i \in 1 .. N /\ ~(i <= E)
    BY <1>1, <1>2, <1>3
  <2>2. source[i] = others[i - E]
    BY <2>1
  <2> QED BY <1>6, <2>1, <2>2 DEF Eligible
<1>9. \A i \in 1 .. N : i \in 1 .. E \/ i \in E + 1 .. N
  BY <1>1, <1>3
<1>10. source \in [1 .. N -> drafts]
  <2>1. S \subseteq drafts /\ rest \subseteq drafts
    BY DEF Eligible
  <2> QED BY <1>7, <1>8, <1>9, <2>1
<1>11. ASSUME NEW i \in 1 .. N, NEW j \in 1 .. N, source[i] = source[j] PROVE i = j
  <2> HIDE DEF source
  <2>1. CASE i \in 1 .. E /\ j \in 1 .. E
    BY <1>5, <1>7, <1>11, <2>1
  <2>2. CASE i \in E + 1 .. N /\ j \in E + 1 .. N
    <3>1. i - E = j - E
      BY <1>6, <1>8, <1>11, <2>2
    <3> QED BY <1>1, <3>1
  <2> QED BY <1>7, <1>8, <1>9, <1>11, <2>1, <2>2
<1>12. ASSUME NEW x \in drafts PROVE \E i \in 1 .. N : source[i] = x
  <2>1. CASE x \in S
    <3>1. PICK i \in 1 .. E : ranked[i] = x
      BY <1>5, <2>1
    <3>2. i \in 1 .. N
      BY <1>1, <1>2, <1>3
    <3> QED BY <1>7, <3>1, <3>2
  <2>2. CASE x \notin S
    <3>1. PICK i \in 1 .. M : others[i] = x
      BY <1>6, <2>2
    <3>2. i + E \in E + 1 .. N /\ i + E \in 1 .. N /\ (i + E) - E = i
      BY <1>1, <1>2, <1>3
    <3> HIDE DEF source
    <3> QED BY <1>8, <3>1, <3>2
  <2> QED BY <2>1, <2>2
<1>13. Lists(drafts, source)
  <2> HIDE DEF source
  <2> QED BY <1>10, <1>11, <1>12 DEF Lists, N
<1>14. ASSUME NEW i \in E + 1 .. N, NEW j \in E + 1 .. N, i < j
       PROVE  source[i].product < source[j].product
  <2>0. E \in Int /\ i \in Int /\ j \in Int
    BY <1>1
  <2>1. i - E \in 1 .. M /\ j - E \in 1 .. M /\ i - E < j - E
    <3>1. i - E \in 1 .. M /\ j - E \in 1 .. M
      BY <1>8
    <3>2. i - E < j - E
      BY <1>14, <2>0
    <3> QED BY <3>1, <3>2
  <2>2. KeyLess(other[source[i]], other[source[j]]) /\ source[i] \in rest /\ source[j] \in rest
    BY <1>6, <1>8, <2>1
  <2> HIDE DEF source
  <2>3. KeyLess(<<source[i].product>>, <<source[j].product>>)
    BY <2>2
  <2> QED BY <2>3 DEF KeyLess
<1>15. ASSUME NEW i \in 1 .. E, NEW j \in 1 .. E, i < j
       PROVE  KeyLess(KeyIn(S, source[i]), KeyIn(S, source[j]))
  <2>1. KeyLess(key[source[i]], key[source[j]]) /\ source[i] \in S /\ source[j] \in S
    BY <1>5, <1>7, <1>15
  <2> HIDE DEF source
  <2> QED BY <2>1 DEF KeyIn
<1>16. head \o others = [i \in 1 .. N |->
                          IF i <= E THEN [source[i] EXCEPT !.front = FrontOf(S, source[i]), !.rank = i]
                          ELSE source[i]]
  <2>1. DOMAIN ranked = 1 .. E /\ DOMAIN others = 1 .. M
    BY <1>5, <1>6
  <2>2. Len(head) = E /\ Len(others) = M
    BY <1>1, <1>2, <2>1
  <2>3. head \o others = [i \in 1 .. E + M |-> IF i <= E THEN head[i] ELSE others[i - E]]
    <3> DEFINE A == {head[i] : i \in 1 .. E} \cup {others[i] : i \in 1 .. M}
    <3>1. head \in [1 .. E -> A]
      BY <2>1
    <3>2. others \in [1 .. M -> A]
      BY <1>6
    <3>3. E \in Nat /\ M \in Nat
      BY <1>1, <1>2
    <3> HIDE DEF head, A
    <3>4. /\ head \o others \in [1 .. E + M -> A]
          /\ \A i \in 1 .. E + M : (head \o others)[i] = IF i <= E THEN head[i] ELSE others[i - E]
      <4>1. head \in Seq(A) /\ Len(head) = E
        BY <3>1, <3>3
      <4>2. others \in Seq(A) /\ Len(others) = M
        BY <3>2, <3>3
      <4>3. /\ head \o others \in Seq(A)
            /\ Len(head \o others) = E + M
            /\ \A i \in 1 .. E + M : (head \o others)[i] = IF i <= E THEN head[i] ELSE others[i - E]
        BY <4>1, <4>2, ConcatProperties
      <4>4. head \o others \in [1 .. E + M -> A]
        BY <4>3, LenProperties
      <4> QED BY <4>3, <4>4
    <3> QED BY <3>4
  <2>4. ASSUME NEW i \in 1 .. E
        PROVE  head[i] = [source[i] EXCEPT !.front = FrontOf(S, source[i]), !.rank = i]
    <3>1. ranked[i] = source[i] /\ source[i] \in S
      BY <1>7
    <3> HIDE DEF source
    <3> QED BY <2>1, <3>1
  <2>5. ASSUME NEW i \in 1 .. N
        PROVE  (IF i <= E THEN head[i] ELSE others[i - E])
                  = IF i <= E THEN [source[i] EXCEPT !.front = FrontOf(S, source[i]), !.rank = i]
                    ELSE source[i]
    <3>1. CASE i \in 1 .. E
      <4>1. i <= E
        BY <1>1, <3>1
      <4> HIDE DEF source, head
      <4> QED BY <2>4, <3>1, <4>1
    <3>2. CASE i \in E + 1 .. N
      <4>1. others[i - E] = source[i] /\ ~(i <= E)
        BY <1>1, <1>8, <3>2
      <4> HIDE DEF source, head
      <4> QED BY <4>1
    <3> QED BY <1>9, <3>1, <3>2
  <2> HIDE DEF source, head
  <2> QED BY <1>3, <2>3, <2>5
<1>17. E <= N /\ \A i \in 1 .. N : source[i].eligible <=> i <= E
  <2> HIDE DEF source
  <2> QED BY <1>1, <1>2, <1>3, <1>7, <1>8, <1>9
<1>18. IsRanking(drafts, source, Ranking(drafts))
  <2> HIDE DEF source
  <2> QED BY <1>1, <1>3, <1>4, <1>13, <1>14, <1>15, <1>16, <1>17 DEF IsRanking, E, N
<1> QED BY <1>18
\* A score is its draft, but for the front and the rank.
IsScoreAt(drafts, source, scores, i) ==
    /\ source[i] \in drafts
    /\ DOMAIN scores[i] = ScoreFields
    /\ \A f \in ScoreFields \ {"front", "rank"} : scores[i][f] = source[i][f]
    /\ \/ /\ i <= Cardinality(Eligible(drafts))
          /\ source[i] \in Eligible(drafts)
          /\ scores[i].eligible = TRUE
          /\ scores[i].front = FrontOf(Eligible(drafts), source[i])
          /\ scores[i].rank = i
       \/ /\ ~(i <= Cardinality(Eligible(drafts)))
          /\ source[i] \notin Eligible(drafts)
          /\ scores[i].eligible = FALSE
          /\ scores[i].front = None
          /\ scores[i].rank = None

\* A score is its draft, with a front and a rank when it is eligible.
LEMMA ScoresAre ==
    ASSUME NEW drafts, AreDrafts(drafts), NEW source, NEW scores, IsRanking(drafts, source, scores),
           NEW i \in 1 .. Cardinality(drafts)
    PROVE  IsScoreAt(drafts, source, scores, i)
<1> DEFINE E == Cardinality(Eligible(drafts))
           N == Cardinality(drafts)
           f == FrontOf(Eligible(drafts), source[i])
<1>1. source[i] \in drafts
  BY DEF IsRanking, Lists
<1>2. IsDraft(source[i]) /\ (source[i] \in Eligible(drafts) <=> source[i].eligible)
  BY <1>1 DEF AreDrafts, Eligible
<1>3. source[i].eligible <=> i <= E
  BY DEF IsRanking
<1>4. scores[i] = IF i <= E THEN [source[i] EXCEPT !.front = f, !.rank = i] ELSE source[i]
  BY DEF IsRanking
<1>5. DOMAIN source[i] = ScoreFields /\ source[i].eligible \in BOOLEAN
  BY <1>2 DEF IsDraft
<1>6. CASE i <= E
  <2> DEFINE d == source[i]
             s == [d EXCEPT !.front = f, !.rank = i]
  <2>1. scores[i] = s
    BY <1>4, <1>6
  <2>2. DOMAIN d = ScoreFields /\ d.eligible = TRUE /\ d \in Eligible(drafts)
    BY <1>2, <1>3, <1>5, <1>6
  <2> HIDE DEF d, f
  <2>3. /\ DOMAIN s = ScoreFields
        /\ \A g \in ScoreFields \ {"front", "rank"} : s[g] = d[g]
        /\ s.front = f
        /\ s.rank = i
    BY <2>2 DEF ScoreFields
  <2>4. s.eligible = TRUE
    BY <2>2, <2>3 DEF ScoreFields
  <2> QED BY <1>1, <1>6, <2>1, <2>2, <2>3, <2>4 DEF d, f, IsScoreAt
<1>7. CASE ~(i <= E)
  <2>1. scores[i] = source[i]
    BY <1>4, <1>7
  <2>2. source[i].eligible = FALSE /\ source[i] \notin Eligible(drafts)
    BY <1>2, <1>3, <1>5, <1>7
  <2>3. source[i].front = None /\ source[i].rank = None
    BY <1>2 DEF IsDraft
  <2> QED BY <1>1, <1>5, <1>7, <2>1, <2>2, <2>3 DEF IsScoreAt
<1> QED BY <1>6, <1>7

\* The eligible scores, and the others, when they stand together.
StandFromTo(scores, eligible, a, b) ==
    /\ a \in Nat /\ b \in Nat /\ a <= b
    /\ {i \in DOMAIN scores : scores[i].eligible = eligible} = a + 1 .. b

\* The scores selected are a part of the list when they stand together.
LEMMA SelectedIs ==
    ASSUME NEW scores, NEW eligible, NEW a, NEW b, StandFromTo(scores, eligible, a, b)
    PROVE  /\ Selected(scores, eligible) \in [1 .. b - a -> Range(scores)]
           /\ \A n \in 1 .. b - a : Selected(scores, eligible)[n] = scores[a + n]
<1>0. a \in Nat /\ b \in Nat /\ a <= b
  BY DEF StandFromTo
<1> DEFINE chosen == {i \in DOMAIN scores : scores[i].eligible = eligible}
           Nth(n) == CHOOSE i \in chosen : Cardinality({j \in chosen : j <= i}) = n
<1>1. chosen = a + 1 .. b /\ chosen \subseteq DOMAIN scores
  BY DEF StandFromTo
<1>2. Cardinality(chosen) = b - a
  <2>1. a + 1 \in Int /\ b \in Int
    BY <1>0
  <2>2. Cardinality(a + 1 .. b) = IF a + 1 > b THEN 0 ELSE b - (a + 1) + 1
    BY <2>1, FS_Interval
  <2>3. (IF a + 1 > b THEN 0 ELSE b - (a + 1) + 1) = b - a
    BY <1>0
  <2> QED BY <1>1, <2>2, <2>3
<1> HIDE DEF chosen
<1>3. ASSUME NEW i \in chosen
      PROVE  Cardinality({j \in chosen : j <= i}) = i - a
  <2>1. a + 1 \in Int /\ i \in Int /\ {j \in chosen : j <= i} = a + 1 .. i /\ a + 1 <= i
    BY <1>0, <1>1
  <2>2. Cardinality(a + 1 .. i) = IF a + 1 > i THEN 0 ELSE i - (a + 1) + 1
    BY <2>1, FS_Interval
  <2>3. (IF a + 1 > i THEN 0 ELSE i - (a + 1) + 1) = i - a
    BY <1>0, <2>1
  <2> QED BY <2>1, <2>2, <2>3
<1>4. ASSUME NEW n \in 1 .. b - a PROVE Nth(n) = a + n
  <2>1. a + n \in chosen /\ (a + n) - a = n
    BY <1>0, <1>1
  <2>2. Cardinality({j \in chosen : j <= a + n}) = n
    BY <1>3, <2>1
  <2>3. Nth(n) \in chosen /\ Cardinality({j \in chosen : j <= Nth(n)}) = n
    BY <2>1, <2>2
  <2> HIDE DEF Nth
  <2>4. Nth(n) - a = n /\ Nth(n) \in Int
    BY <1>0, <1>1, <1>3, <2>3
  <2> QED BY <1>0, <2>4
<1>5. Selected(scores, eligible) = [n \in 1 .. Cardinality(chosen) |-> scores[Nth(n)]]
  BY DEF Selected, chosen
<1> HIDE DEF Nth
<1>6. \A n \in 1 .. b - a : Nth(n) = a + n /\ a + n \in DOMAIN scores
  BY <1>0, <1>1, <1>4
<1>7. \A n \in 1 .. b - a : scores[a + n] \in Range(scores)
  BY <1>6 DEF Range
<1>8. Selected(scores, eligible) = [n \in 1 .. b - a |-> scores[Nth(n)]]
  BY <1>2, <1>5
<1>9. \A n \in 1 .. b - a : Selected(scores, eligible)[n] = scores[a + n]
  BY <1>6, <1>8
<1> QED BY <1>7, <1>8, <1>9

\* In a ranking the eligible stand first and the others behind them.
LEMMA SelectedOfRanking ==
    ASSUME NEW drafts, AreDrafts(drafts), NEW source, NEW scores, IsRanking(drafts, source, scores)
    PROVE  LET E == Cardinality(Eligible(drafts))
               N == Cardinality(drafts)
           IN  /\ Selected(scores, TRUE) \in [1 .. E -> Range(scores)]
               /\ \A n \in 1 .. E : Selected(scores, TRUE)[n] = scores[n]
               /\ Selected(scores, FALSE) \in [1 .. N - E -> Range(scores)]
               /\ \A n \in 1 .. N - E : Selected(scores, FALSE)[n] = scores[E + n]
<1> DEFINE E == Cardinality(Eligible(drafts))
           N == Cardinality(drafts)
<1>1. E \in Nat /\ N \in Nat /\ E <= N /\ DOMAIN scores = 1 .. N
  BY DEF IsRanking
<1>2. ASSUME NEW i \in 1 .. N
      PROVE  /\ (scores[i].eligible = TRUE) <=> (i \in 0 + 1 .. E)
             /\ (scores[i].eligible = FALSE) <=> (i \in E + 1 .. N)
  <2>1. IsScoreAt(drafts, source, scores, i)
    BY ScoresAre
  <2>2. \/ i <= E /\ scores[i].eligible = TRUE
        \/ ~(i <= E) /\ scores[i].eligible = FALSE
    BY <2>1 DEF IsScoreAt
  <2>3. (i \in 0 + 1 .. E <=> i <= E) /\ (i \in E + 1 .. N <=> ~(i <= E))
    BY <1>1
  <2> QED BY <2>2, <2>3
<1> HIDE DEF E, N
<1>3. StandFromTo(scores, TRUE, 0, E)
  <2>1. {i \in DOMAIN scores : scores[i].eligible = TRUE} = 0 + 1 .. E
    <3>1. 0 + 1 .. E \subseteq 1 .. N
      BY <1>1
    <3> QED BY <1>1, <1>2, <3>1
  <2> QED BY <1>1, <2>1 DEF StandFromTo
<1>4. StandFromTo(scores, FALSE, E, N)
  <2>1. {i \in DOMAIN scores : scores[i].eligible = FALSE} = E + 1 .. N
    <3>1. E + 1 .. N \subseteq 1 .. N
      BY <1>1
    <3> QED BY <1>1, <1>2, <3>1
  <2> QED BY <1>1, <2>1 DEF StandFromTo
<1>5. E - 0 = E /\ \A n \in 1 .. E : 0 + n = n
  BY <1>1
<1>6. /\ Selected(scores, TRUE) \in [1 .. E -> Range(scores)]
      /\ \A n \in 1 .. E : Selected(scores, TRUE)[n] = scores[n]
  <2> DEFINE yes == TRUE
  <2>1. StandFromTo(scores, yes, 0, E)
    BY <1>3
  <2> HIDE DEF yes
  <2>2. /\ Selected(scores, yes) \in [1 .. E - 0 -> Range(scores)]
        /\ \A n \in 1 .. E - 0 : Selected(scores, yes)[n] = scores[0 + n]
    BY <2>1, SelectedIs
  <2> USE DEF yes
  <2> QED BY <1>5, <2>2
<1>7. /\ Selected(scores, FALSE) \in [1 .. N - E -> Range(scores)]
      /\ \A n \in 1 .. N - E : Selected(scores, FALSE)[n] = scores[E + n]
  <2> DEFINE no == FALSE
  <2>1. StandFromTo(scores, no, E, N)
    BY <1>4
  <2> HIDE DEF no
  <2>2. /\ Selected(scores, no) \in [1 .. N - E -> Range(scores)]
        /\ \A n \in 1 .. N - E : Selected(scores, no)[n] = scores[E + n]
    BY <2>1, SelectedIs
  <2> QED BY <2>2 DEF no
<1> QED BY <1>6, <1>7 DEF E, N

\* The rank follows the key.
LEMMA KeyDecidesRank ==
    ASSUME NEW drafts, AreDrafts(drafts), NEW source, NEW scores, IsRanking(drafts, source, scores),
           NEW i \in 1 .. Cardinality(Eligible(drafts)), NEW j \in 1 .. Cardinality(Eligible(drafts)),
           KeyLess(KeyIn(Eligible(drafts), source[i]), KeyIn(Eligible(drafts), source[j]))
    PROVE  i < j
<1> DEFINE S == Eligible(drafts)
           E == Cardinality(S)
           N == Cardinality(drafts)
<1>1. E \in Nat /\ N \in Nat /\ E <= N
      /\ \A k, m \in 1 .. E : k < m => KeyLess(KeyIn(S, source[k]), KeyIn(S, source[m]))
  BY DEF IsRanking
<1>2. \A k \in 1 .. E : source[k] \in S
  <2> TAKE k \in 1 .. E
  <2>1. k \in 1 .. N /\ k <= E
    BY <1>1
  <2>2. IsScoreAt(drafts, source, scores, k)
    BY <2>1, ScoresAre
  <2> QED BY <2>1, <2>2 DEF IsScoreAt
<1>3. \A d \in S : KeyIn(S, d) \in KeysOf(6)
  <2>1. HasKeys(6, S, [d \in S |-> KeyIn(S, d)])
    BY RankingKeysDiffer
  <2> QED BY <2>1 DEF HasKeys
<1> DEFINE a == KeyIn(S, source[i])
           b == KeyIn(S, source[j])
<1>4. a \in KeysOf(6) /\ b \in KeysOf(6) /\ KeyLess(a, b) /\ i \in Int /\ j \in Int
  BY <1>2, <1>3
<1>5. i = j => a = b
  OBVIOUS
<1>6. j < i => KeyLess(b, a)
  BY <1>1
<1> HIDE DEF a, b
<1>7. ~KeyLess(b, a) /\ a # b
  BY <1>4, KeyLessIsStrict
<1> QED BY <1>4, <1>5, <1>6, <1>7
-------------------------------------------------------------------------------
(***************************************************************************)
(* What the validators of a batch and of a report ask for.                 *)
(***************************************************************************)
LEMMA BatchesAreConsistent ==
    ASSUME NEW drafts, AreDrafts(drafts), NEW source, NEW scores, IsRanking(drafts, source, scores)
    PROVE  BatchIsConsistent(scores)
<1> USE NoneAssumption
<1> DEFINE S == Eligible(drafts)
           E == Cardinality(S)
           N == Cardinality(drafts)
           eligible == Selected(scores, TRUE)
           fronts == {eligible[i].front : i \in DOMAIN eligible}
<1>1. E \in Nat /\ N \in Nat /\ E <= N /\ DOMAIN scores = 1 .. N
  BY DEF IsRanking
<1>2. \A i \in 1 .. N : IsScoreAt(drafts, source, scores, i)
  BY ScoresAre
<1>3. DOMAIN eligible = 1 .. E /\ \A i \in 1 .. E : eligible[i] = scores[i]
  BY SelectedOfRanking
<1> HIDE DEF eligible
<1>4. ASSUME NEW i \in 1 .. N, NEW j \in 1 .. N, scores[i].product = scores[j].product
      PROVE  i = j
  <2>1. source[i] \in drafts /\ source[j] \in drafts
        /\ scores[i].product = source[i].product /\ scores[j].product = source[j].product
    BY <1>2 DEF IsScoreAt, ScoreFields
  <2>2. source[i] = source[j]
    BY <1>4, <2>1 DEF AreDrafts
  <2> QED BY <2>2 DEF IsRanking, Lists
<1>5. ASSUME NEW i \in 1 .. E
      PROVE  /\ scores[i].rank = i
             /\ source[i] \in S
             /\ scores[i].front = FrontOf(S, source[i])
  <2>1. i \in 1 .. N /\ i <= E
    BY <1>1
  <2> QED BY <1>2, <2>1 DEF IsScoreAt
<1>6. ASSUME NEW d \in S PROVE \E i \in 1 .. E : source[i] = d
  <2>1. d \in drafts
    BY DEF Eligible
  <2>2. PICK i \in 1 .. N : source[i] = d
    BY <2>1 DEF IsRanking, Lists
  <2>3. i <= E
    BY <1>2, <2>2 DEF IsScoreAt
  <2> QED BY <1>1, <2>2, <2>3
<1>7. fronts = {FrontOf(S, d) : d \in S}
  BY <1>3, <1>5, <1>6
<1> HIDE DEF fronts
<1>8. ASSUME fronts # {} PROVE fronts = 1 .. Max(fronts)
  <2>1. ASSUME NEW d \in S PROVE FrontOf(S, d) \in 1 .. N
    <3> DEFINE tier == Tier(S, d.budget)
    <3>1. AreComparable(tier) /\ d \in tier /\ tier \in SUBSET drafts /\ IsFiniteSet(drafts)
      <4>1. tier \in SUBSET drafts /\ IsFiniteSet(drafts)
        BY DEF Tier, Eligible, AreDrafts
      <4> QED BY <4>1, TiersAreComparable
    <3> HIDE DEF tier
    <3>2. Cardinality(tier) <= N /\ Cardinality(tier) \in Nat /\ FrontIn(tier, d) \in 1 .. Cardinality(tier)
      BY <3>1, FS_Subset, FrontInIs
    <3>3. FrontIn(tier, d) \in 1 .. N
      BY <1>1, <3>2
    <3> QED BY <3>3 DEF tier, FrontOf
  <2>2. fronts \subseteq Int /\ N \in Int /\ \A n \in fronts : n <= N
    BY <1>1, <1>7, <2>1
  <2>3. Max(fronts) \in fronts /\ \A n \in fronts : n <= Max(fronts)
    BY <1>8, <2>2, GreatestOfBounded
  <2>4. PICK d \in S : Max(fronts) = FrontOf(S, d)
    BY <1>7, <2>3
  <2>5. ASSUME NEW n \in 1 .. Max(fronts) PROVE n \in fronts
    <3> DEFINE tier == Tier(S, d.budget)
    <3>1. AreComparable(tier) /\ d \in tier /\ FrontIn(tier, d) = FrontOf(S, d)
      BY TiersAreComparable DEF FrontOf
    <3>2. n \in 1 .. FrontIn(tier, d)
      BY <2>4, <2>5, <3>1
    <3>3. PICK a \in tier : FrontIn(tier, a) = n
      <4> HIDE DEF tier
      <4> QED BY <3>1, <3>2, FrontsHaveNoGap
    <3>4. a \in S /\ a.budget = d.budget
      BY DEF Tier
    <3>5. FrontOf(S, a) = n
      BY <3>3, <3>4 DEF FrontOf
    <3> QED BY <1>7, <3>4, <3>5
  <2>6. \A n \in fronts : n \in 1 .. Max(fronts)
    BY <1>7, <2>1, <2>2, <2>3
  <2> QED BY <2>5, <2>6
<1>9. ASSUME NEW i \in 1 .. N, scores[i].eligible
      PROVE  /\ None \notin {scores[i].adjusted, scores[i].front, scores[i].rank}
             /\ scores[i].cost > 0
  <2>1. source[i] \in S /\ source[i] \in drafts
        /\ scores[i].front = FrontOf(S, source[i]) /\ scores[i].rank = i
        /\ scores[i].adjusted = source[i].adjusted /\ scores[i].cost = source[i].cost
    <3>1. IsScoreAt(drafts, source, scores, i)
      BY <1>2
    <3> QED BY <1>9, <3>1 DEF IsScoreAt, ScoreFields
  <2>2. IsDraft(source[i]) /\ source[i].eligible
    BY <2>1 DEF AreDrafts, Eligible
  <2>3. FrontOf(S, source[i]) \in Int
    BY <2>1, TiersAreComparable
  <2> QED BY <2>1, <2>2, <2>3 DEF IsDraft
<1> QED BY <1>1, <1>3, <1>4, <1>5, <1>8, <1>9 DEF BatchIsConsistent, eligible, fronts

\* The order of keys of three numbers.
LEMMA TripleLess ==
    ASSUME NEW a \in Int, NEW b \in Int, NEW c \in Int, NEW x \in Int, NEW y \in Int, NEW z \in Int,
           \/ a < x
           \/ a = x /\ b < y
           \/ a = x /\ b = y /\ c < z
    PROVE  KeyLess(<<a, b, c>>, <<x, y, z>>)
<1> DEFINE p == <<a, b, c>>
           q == <<x, y, z>>
<1>1. /\ DOMAIN p = 1 .. 3
      /\ p[1] = a /\ p[2] = b /\ p[3] = c
      /\ q[1] = x /\ q[2] = y /\ q[3] = z
  OBVIOUS
<1> HIDE DEF p, q
<1>2. \E i \in 1 .. 3 : p[i] < q[i] /\ \A j \in 1 .. i - 1 : p[j] = q[j]
  <2>1. CASE a < x
    <3>1. \A j \in 1 .. 1 - 1 : FALSE
      OBVIOUS
    <3> QED BY <1>1, <2>1, <3>1
  <2>2. CASE a = x /\ b < y
    <3>1. \A j \in 1 .. 2 - 1 : j = 1
      OBVIOUS
    <3> QED BY <1>1, <2>2, <3>1
  <2>3. CASE a = x /\ b = y /\ c < z
    <3>1. \A j \in 1 .. 3 - 1 : j = 1 \/ j = 2
      OBVIOUS
    <3> QED BY <1>1, <2>3, <3>1
  <2> QED BY <2>1, <2>2, <2>3
<1>3. KeyLess(p, q)
  BY <1>1, <1>2 DEF KeyLess
<1> QED BY <1>3 DEF p, q

\* From the stored set of scores the report builder restores the ranking.
LEMMA StableScoresAreTheRanking ==
    ASSUME NEW drafts, AreDrafts(drafts), NEW source, NEW scores, IsRanking(drafts, source, scores)
    PROVE  StableScores(Range(scores)) = scores
<1> USE NoneAssumption
<1> DEFINE rows == Range(scores)
           E == Cardinality(Eligible(drafts))
           N == Cardinality(drafts)
           Key(score) == <<IF score.eligible THEN 0 ELSE 1,
                           IF score.rank = None THEN 0 ELSE score.rank, score.product>>
           key == [score \in rows |-> Key(score)]
<1>1. E \in Nat /\ N \in Nat /\ E <= N /\ DOMAIN scores = 1 .. N
  BY DEF IsRanking
<1>2. scores \in [1 .. N -> rows] /\ \A x \in rows : \E i \in 1 .. N : scores[i] = x
  BY <1>1 DEF Range, IsRanking
<1>3. ASSUME NEW i \in 1 .. N
      PROVE  /\ source[i] \in drafts
             /\ scores[i].product = source[i].product
             /\ scores[i].product \in Int
             /\ Key(scores[i]) = IF i <= E THEN <<0, i, source[i].product>>
                                 ELSE <<1, 0, source[i].product>>
  <2>1. IsScoreAt(drafts, source, scores, i)
    BY ScoresAre
  <2>2. source[i] \in drafts /\ scores[i].product = source[i].product
    BY <2>1 DEF IsScoreAt, ScoreFields
  <2>3. source[i].product \in Int
    BY <2>2 DEF AreDrafts, IsDraft
  <2>4. CASE i <= E
    <3>1. scores[i].eligible = TRUE /\ scores[i].rank = i /\ i # None
      BY <2>1, <2>4 DEF IsScoreAt
    <3> QED BY <2>2, <2>3, <2>4, <3>1
  <2>5. CASE ~(i <= E)
    <3>1. scores[i].eligible = FALSE /\ scores[i].rank = None
      BY <2>1, <2>5 DEF IsScoreAt
    <3> QED BY <2>2, <2>3, <2>5, <3>1
  <2> QED BY <2>4, <2>5
<1>4. ASSUME NEW i \in 1 .. N, NEW j \in 1 .. N, scores[i].product = scores[j].product
      PROVE  i = j
  <2>0. source[i] \in drafts /\ source[j] \in drafts /\ source[i].product = source[j].product
    BY <1>3, <1>4
  <2>1. source[i] = source[j]
    BY <2>0 DEF AreDrafts
  <2> QED BY <2>1 DEF IsRanking, Lists
<1>5. Cardinality(rows) = N /\ IsFiniteSet(rows)
  <2>1. scores \in Surjection(1 .. N, rows)
    BY <1>2, Fun_IsSurj
  <2>2. scores \in Injection(1 .. N, rows)
    BY <1>2, <1>4, Fun_IsInj
  <2>3. 1 \in Int /\ N \in Int
    BY <1>1
  <2>4. IsFiniteSet(1 .. N) /\ Cardinality(1 .. N) = N
    BY <1>1, <2>3, FS_Interval
  <2> HIDE DEF N, rows
  <2> QED BY <2>1, <2>2, <2>4, FS_Surjection
<1> HIDE DEF Key, rows, E, N
<1>6. HasKeys(3, rows, key)
  <2>1. ASSUME NEW x \in rows PROVE Key(x) \in KeysOf(3) /\ Key(x)[3] = x.product
    <3>1. PICK i \in 1 .. N : scores[i] = x
      BY <1>2
    <3>a. Key(x) = Key(scores[i])
      BY <3>1
    <3>b. source[i].product = scores[i].product
      BY <1>3
    <3>0. source[i].product = x.product /\ Key(x) = Key(scores[i])
      BY <3>1, <3>a, <3>b
    <3>2. Key(x) = IF i <= E THEN <<0, i, x.product>> ELSE <<1, 0, x.product>>
      BY <1>3, <3>0
    <3>c. scores[i].product \in Int /\ i \in Int
      BY <1>1, <1>3
    <3>3. x.product \in Int /\ i \in Int
      BY <3>1, <3>c
    <3> QED BY <3>2, <3>3 DEF KeysOf
  <2>2. key \in [rows -> KeysOf(3)]
    BY <2>1
  <2>3. ASSUME NEW x \in rows, NEW y \in rows, key[x] = key[y] PROVE x = y
    <3>1. x.product = y.product
      BY <2>1, <2>3
    <3>2. PICK i \in 1 .. N : scores[i] = x
      BY <1>2
    <3>3. PICK j \in 1 .. N : scores[j] = y
      BY <1>2
    <3> QED BY <1>4, <3>1, <3>2, <3>3
  <2> QED BY <1>5, <2>2, <2>3 DEF HasKeys
<1>7. Ascends(rows, key, scores)
  <2>1. ASSUME NEW i \in 1 .. N, NEW j \in 1 .. N, i < j PROVE KeyLess(key[scores[i]], key[scores[j]])
    <3>0. i \in Int /\ j \in Int /\ E \in Int
      BY <1>1
    <3>1. key[scores[i]] = Key(scores[i]) /\ key[scores[j]] = Key(scores[j])
      BY <1>2
    <3> DEFINE p == source[i].product
               q == source[j].product
    <3>2. p \in Int /\ q \in Int
      BY <1>3
    <3> HIDE DEF p, q
    <3>3. CASE j <= E
      <4>1. key[scores[i]] = <<0, i, p>> /\ key[scores[j]] = <<0, j, q>>
        <5>1. i <= E
          BY <2>1, <3>0, <3>3
        <5> QED BY <1>3, <3>1, <3>3, <5>1 DEF p, q
      <4>2. KeyLess(<<0, i, p>>, <<0, j, q>>)
        BY <2>1, <3>0, <3>2, TripleLess
      <4> QED BY <4>1, <4>2
    <3>4. CASE i <= E /\ ~(j <= E)
      <4>1. key[scores[i]] = <<0, i, p>> /\ key[scores[j]] = <<1, 0, q>>
        BY <1>3, <3>1, <3>4 DEF p, q
      <4> QED BY <3>0, <3>2, <4>1, TripleLess
    <3>5. CASE ~(i <= E) /\ ~(j <= E)
      <4>1. key[scores[i]] = <<1, 0, p>> /\ key[scores[j]] = <<1, 0, q>>
        BY <1>3, <3>1, <3>5 DEF p, q
      <4>2. i \in E + 1 .. N /\ j \in E + 1 .. N
        BY <1>1, <3>5
      <4>3. p < q
        BY <2>1, <4>2 DEF IsRanking, E, N, p, q
      <4> QED BY <3>2, <4>1, <4>3, TripleLess
    <3> QED BY <3>3, <3>4, <3>5
  <2> QED BY <1>2, <1>5, <2>1 DEF Ascends
<1>8. StableScores(rows) = Ordered(key)
  BY DEF StableScores, Key
<1>9. Ordered(key) = scores
  <2> HIDE DEF key
  <2> QED BY <1>6, <1>7, OrderedIsUnique
<1> QED BY <1>8, <1>9 DEF rows
\* The report builder refuses no ranking whose citations are stored.
LEMMA ReportsAreBuildable ==
    ASSUME NEW drafts, AreDrafts(drafts), NEW source, NEW scores, IsRanking(drafts, source, scores),
           NEW rows, NEW offers,
           \A draft \in drafts :
              /\ draft.cited \subseteq {row \in rows : row.product = draft.product}
              /\ \A cost \in draft.best : cost.offer \in offers /\ cost.offer.product = draft.product
    PROVE  ReportIsBuildable(scores, rows, offers)
<1> USE NoneAssumption
<1> DEFINE E == Cardinality(Eligible(drafts))
           N == Cardinality(drafts)
           eligible == Selected(scores, TRUE)
           excluded == Selected(scores, FALSE)
<1>1. E \in Nat /\ N \in Nat /\ E <= N /\ DOMAIN scores = 1 .. N
  BY DEF IsRanking
<1>2. /\ eligible \in [1 .. E -> Range(scores)]
      /\ \A n \in 1 .. E : eligible[n] = scores[n]
      /\ excluded \in [1 .. N - E -> Range(scores)]
      /\ \A n \in 1 .. N - E : excluded[n] = scores[E + n]
  BY SelectedOfRanking
<1>3. ASSUME NEW i \in 1 .. N
      PROVE  /\ source[i] \in drafts
             /\ scores[i].product = source[i].product
             /\ scores[i].cited = source[i].cited
             /\ scores[i].best = source[i].best
  <2>1. IsScoreAt(drafts, source, scores, i)
    BY ScoresAre
  <2> QED BY <2>1 DEF IsScoreAt, ScoreFields
<1>4. \A i, j \in E + 1 .. N : i < j => source[i].product < source[j].product
  BY DEF IsRanking
<1>5. scores \in [1 .. N -> Range(scores)]
  <2>1. \A i \in 1 .. N : scores[i] \in Range(scores)
    BY <1>1 DEF Range
  <2>2. scores = [i \in 1 .. N |-> scores[i]]
    BY DEF IsRanking
  <2> QED BY <2>1, <2>2
<1> HIDE DEF eligible, excluded, E, N
<1>6. scores = eligible \o excluded
  <2> DEFINE A == Range(scores)
             M == N - E
             both == eligible \o excluded
  <2>0. M \in Nat /\ E + M = N
    BY <1>1
  <2>1. eligible \in [1 .. E -> A] /\ excluded \in [1 .. M -> A]
    BY <1>2
  <2> HIDE DEF A, M
  <2>2. eligible \in Seq(A) /\ Len(eligible) = E
    BY <1>1, <2>1
  <2>3. excluded \in Seq(A) /\ Len(excluded) = M
    BY <2>0, <2>1
  <2>4. /\ both \in Seq(A)
        /\ Len(both) = E + M
        /\ \A i \in 1 .. E + M : both[i] = IF i <= E THEN eligible[i] ELSE excluded[i - E]
    BY <2>2, <2>3, ConcatProperties
  <2>5. E + M = N /\ M = N - E
    BY <2>0 DEF M
  <2> HIDE DEF both
  <2>6. both \in [1 .. N -> A]
    BY <2>4, <2>5, LenProperties
  <2>7. ASSUME NEW i \in 1 .. N PROVE both[i] = scores[i]
    <3>1. CASE i <= E
      <4>1. i \in 1 .. E
        BY <1>1, <3>1
      <4> QED BY <1>2, <2>4, <2>5, <3>1, <4>1
    <3>2. CASE ~(i <= E)
      <4>1. i - E \in 1 .. N - E /\ E + (i - E) = i
        BY <1>1, <2>5, <3>2
      <4>2. excluded[i - E] = scores[i]
        BY <1>2, <4>1
      <4>3. both[i] = excluded[i - E]
        BY <2>4, <2>5, <3>2
      <4> QED BY <4>2, <4>3
    <3> QED BY <3>1, <3>2
  <2>8. scores \in [1 .. N -> A]
    BY <1>5 DEF A
  <2>9. scores = both
    <3>1. scores = [i \in 1 .. N |-> scores[i]] /\ both = [i \in 1 .. N |-> both[i]]
      BY <2>6, <2>8
    <3>2. [i \in 1 .. N |-> scores[i]] = [i \in 1 .. N |-> both[i]]
      BY <2>7
    <3> QED BY <3>1, <3>2
  <2> QED BY <2>9 DEF both
<1>7. ASSUME NEW i \in DOMAIN excluded, NEW j \in DOMAIN excluded, i < j
      PROVE  excluded[i].product < excluded[j].product
  <2>1. i \in 1 .. N - E /\ j \in 1 .. N - E
    BY <1>2
  <2>2. E + i \in E + 1 .. N /\ E + j \in E + 1 .. N /\ E + i \in 1 .. N /\ E + j \in 1 .. N /\ E + i < E + j
    BY <1>1, <1>7, <2>1
  <2>3. excluded[i].product = source[E + i].product
    <3>1. excluded[i] = scores[E + i]
      BY <1>2, <2>1
    <3>2. scores[E + i].product = source[E + i].product
      BY <1>3, <2>2
    <3> QED BY <3>1, <3>2
  <2>4. excluded[j].product = source[E + j].product
    <3>1. excluded[j] = scores[E + j]
      BY <1>2, <2>1
    <3>2. scores[E + j].product = source[E + j].product
      BY <1>3, <2>2
    <3> QED BY <3>1, <3>2
  <2> QED BY <1>4, <2>2, <2>3, <2>4
<1>8. ASSUME NEW i \in DOMAIN scores
      PROVE  /\ scores[i].cited \subseteq {row \in rows : row.product = scores[i].product}
             /\ \A cost \in scores[i].best :
                   cost.offer \in offers /\ cost.offer.product = scores[i].product
  <2>1. i \in 1 .. N
    BY <1>1
  <2>2. /\ source[i].cited \subseteq {row \in rows : row.product = source[i].product}
        /\ \A cost \in source[i].best :
              cost.offer \in offers /\ cost.offer.product = source[i].product
    BY <1>3, <2>1
  <2>3. /\ scores[i].product = source[i].product
        /\ scores[i].cited = source[i].cited
        /\ scores[i].best = source[i].best
    BY <1>3, <2>1
  <2> QED BY <2>2, <2>3
<1>9. BatchIsConsistent(scores)
  BY BatchesAreConsistent
<1> QED BY <1>6, <1>7, <1>8, <1>9 DEF ReportIsBuildable, eligible, excluded

(***************************************************************************)
(* An eligible score and the draft it was made of.                         *)
(***************************************************************************)
IsScoreOf(drafts, score, draft) ==
    /\ draft \in Eligible(drafts)
    /\ score.budget = draft.budget
    /\ score.adjusted = draft.adjusted
    /\ score.confidence = draft.confidence
    /\ score.cost = draft.cost
    /\ score.front = FrontOf(Eligible(drafts), draft)

\* Where the eligible scores stand, and what they are scores of.
LEMMA EligibleScores ==
    ASSUME NEW drafts, AreDrafts(drafts), NEW source, NEW scores, IsRanking(drafts, source, scores)
    PROVE  LET E == Cardinality(Eligible(drafts)) IN
           /\ E \in Nat
           /\ \A score \in Range(scores) :
                 score.eligible => \E i \in 1 .. E : score = scores[i]
           /\ \A i \in 1 .. E : /\ IsScoreOf(drafts, scores[i], source[i])
                                /\ scores[i] \in Range(scores)
                                /\ scores[i].eligible
                                /\ scores[i].rank = i
           /\ \A draft \in Eligible(drafts) : \E i \in 1 .. E : source[i] = draft
<1> DEFINE E == Cardinality(Eligible(drafts))
           N == Cardinality(drafts)
<1>1. E \in Nat /\ N \in Nat /\ E <= N /\ DOMAIN scores = 1 .. N
  BY DEF IsRanking
<1>2. \A i \in 1 .. N : IsScoreAt(drafts, source, scores, i)
  BY ScoresAre
<1>3. ASSUME NEW i \in 1 .. E
      PROVE  /\ IsScoreOf(drafts, scores[i], source[i])
             /\ scores[i] \in Range(scores)
             /\ scores[i].eligible
             /\ scores[i].rank = i
  <2>1. i \in 1 .. N /\ i <= E
    BY <1>1
  <2>2. IsScoreAt(drafts, source, scores, i)
    BY <1>2, <2>1
  <2>3. scores[i] \in Range(scores)
    BY <1>1, <2>1 DEF Range
  <2> QED BY <2>1, <2>2, <2>3 DEF IsScoreAt, IsScoreOf, ScoreFields
<1>4. ASSUME NEW score \in Range(scores), score.eligible PROVE \E i \in 1 .. E : score = scores[i]
  <2>1. PICK i \in 1 .. N : score = scores[i]
    BY <1>1 DEF Range
  <2>2. i <= E
    BY <1>2, <1>4, <2>1 DEF IsScoreAt
  <2> QED BY <1>1, <2>1, <2>2
<1>5. ASSUME NEW draft \in Eligible(drafts) PROVE \E i \in 1 .. E : source[i] = draft
  <2>1. draft \in drafts
    BY DEF Eligible
  <2>2. PICK i \in 1 .. N : source[i] = draft
    BY <2>1 DEF IsRanking, Lists
  <2>3. i <= E
    BY <1>2, <2>2 DEF IsScoreAt
  <2> QED BY <1>1, <2>2, <2>3
<1> QED BY <1>1, <1>3, <1>4, <1>5

\* Fronts are depths in the order of dominance.
LEMMA ScoresHaveDepth ==
    ASSUME NEW drafts, AreDrafts(drafts), NEW source, NEW scores, IsRanking(drafts, source, scores),
           NEW score \in Range(scores), score.eligible
    PROVE  score.front = 1 + Max({0} \cup {other.front : other \in
              {other \in {s \in Range(scores) : s.eligible} :
                 other.budget = score.budget /\ Dominates(other, score)}})
<1> DEFINE S == Eligible(drafts)
           E == Cardinality(S)
           dominating == {other \in {s \in Range(scores) : s.eligible} :
                             other.budget = score.budget /\ Dominates(other, score)}
<1>1. /\ E \in Nat
      /\ \A s \in Range(scores) : s.eligible => \E k \in 1 .. E : s = scores[k]
      /\ \A k \in 1 .. E : IsScoreOf(drafts, scores[k], source[k])
                           /\ scores[k] \in Range(scores) /\ scores[k].eligible
      /\ \A draft \in S : \E k \in 1 .. E : source[k] = draft
  BY EligibleScores
<1>2. PICK i \in 1 .. E : score = scores[i]
  BY <1>1
<1> DEFINE d == source[i]
           tier == Tier(S, d.budget)
<1>3. IsScoreOf(drafts, score, d)
  BY <1>1, <1>2
<1>4. AreComparable(tier) /\ d \in tier
  BY <1>3, TiersAreComparable DEF IsScoreOf
<1>5. score.front = FrontIn(tier, d)
  BY <1>3 DEF IsScoreOf, FrontOf
<1>6. {other.front : other \in dominating}
        = {FrontIn(tier, a) : a \in {other \in tier : Dominates(other, d)}}
  <2>1. ASSUME NEW other \in dominating
        PROVE  \E a \in {x \in tier : Dominates(x, d)} : other.front = FrontIn(tier, a)
    <3>1. PICK k \in 1 .. E : other = scores[k]
      BY <1>1
    <3>2. IsScoreOf(drafts, other, source[k])
      BY <1>1, <3>1
    <3>3. source[k] \in tier /\ FrontOf(S, source[k]) = FrontIn(tier, source[k])
      BY <1>3, <3>2 DEF IsScoreOf, Tier, FrontOf
    <3>4. Dominates(source[k], d)
      BY <1>3, <3>2 DEF IsScoreOf, Dominates
    <3> QED BY <3>2, <3>3, <3>4 DEF IsScoreOf
  <2>2. ASSUME NEW a \in tier, Dominates(a, d)
        PROVE  \E other \in dominating : other.front = FrontIn(tier, a)
    <3>1. a \in S /\ a.budget = d.budget
      BY DEF Tier
    <3>2. PICK k \in 1 .. E : source[k] = a
      BY <1>1, <3>1
    <3>3. IsScoreOf(drafts, scores[k], a) /\ scores[k] \in Range(scores) /\ scores[k].eligible
      BY <1>1, <3>2
    <3>4. scores[k].budget = score.budget /\ Dominates(scores[k], score)
      BY <1>3, <2>2, <3>1, <3>3 DEF IsScoreOf, Dominates
    <3>5. scores[k].front = FrontIn(tier, a)
      BY <3>1, <3>3 DEF IsScoreOf, FrontOf
    <3> QED BY <3>3, <3>4, <3>5
  <2> HIDE DEF dominating, tier, d
  <2> QED BY <2>1, <2>2
<1> HIDE DEF dominating, tier, d
<1>7. FrontIn(tier, d)
        = 1 + Max({0} \cup {FrontIn(tier, a) : a \in {other \in tier : Dominates(other, d)}})
  BY <1>4, FrontIsDepth
<1> QED BY <1>5, <1>6, <1>7 DEF dominating

\* Who is better stands before.
LEMMA BetterStandsBefore ==
    ASSUME NEW drafts, AreDrafts(drafts), NEW source, NEW scores, IsRanking(drafts, source, scores),
           NEW left \in Range(scores), left.eligible, NEW right \in Range(scores), right.eligible,
           \/ TierPriority(left.budget) < TierPriority(right.budget)
           \/ left.budget = right.budget /\ Dominates(left, right)
    PROVE  left.rank < right.rank
<1> DEFINE S == Eligible(drafts)
           E == Cardinality(S)
<1>1. /\ E \in Nat
      /\ \A s \in Range(scores) : s.eligible => \E k \in 1 .. E : s = scores[k]
      /\ \A k \in 1 .. E : IsScoreOf(drafts, scores[k], source[k]) /\ scores[k].rank = k
  BY EligibleScores
<1>2. PICK i \in 1 .. E : left = scores[i]
  BY <1>1
<1>3. PICK j \in 1 .. E : right = scores[j]
  BY <1>1
<1> DEFINE a == source[i]
           b == source[j]
<1>4. IsScoreOf(drafts, left, a) /\ IsScoreOf(drafts, right, b) /\ left.rank = i /\ right.rank = j
  BY <1>1, <1>2, <1>3
<1> HIDE DEF a, b
<1>5. a \in S /\ b \in S
  BY <1>4 DEF IsScoreOf
<1>6. KeyIn(S, a) \in KeysOf(6) /\ KeyIn(S, b) \in KeysOf(6)
  <2>1. HasKeys(6, S, [d \in S |-> KeyIn(S, d)])
    BY RankingKeysDiffer
  <2> QED BY <1>5, <2>1 DEF HasKeys
<1>7. /\ KeyIn(S, a)[1] = TierPriority(a.budget) /\ KeyIn(S, a)[2] = FrontOf(S, a)
      /\ KeyIn(S, b)[1] = TierPriority(b.budget) /\ KeyIn(S, b)[2] = FrontOf(S, b)
  BY DEF KeyIn, RankingKey
<1>8. KeyLess(KeyIn(S, a), KeyIn(S, b))
  <2> DEFINE p == KeyIn(S, a)
             q == KeyIn(S, b)
  <2>1. DOMAIN p = 1 .. 6
    BY <1>6 DEF KeysOf
  <2>2. CASE TierPriority(left.budget) < TierPriority(right.budget)
    <3>1. p[1] < q[1]
      BY <1>4, <1>7, <2>2 DEF IsScoreOf
    <3>2. 1 \in 1 .. 6 /\ \A k \in 1 .. 1 - 1 : FALSE
      OBVIOUS
    <3> HIDE DEF p, q
    <3>3. KeyLess(p, q)
      BY <2>1, <3>1, <3>2 DEF KeyLess
    <3> QED BY <3>3 DEF p, q
  <2>3. CASE left.budget = right.budget /\ Dominates(left, right)
    <3> DEFINE tier == Tier(S, a.budget)
    <3>1. a.budget = b.budget /\ Dominates(a, b)
      BY <1>4, <2>3 DEF IsScoreOf, Dominates
    <3>2. AreComparable(tier) /\ a \in tier
      BY <1>5, TiersAreComparable
    <3>3. b \in tier
      BY <1>5, <3>1 DEF Tier
    <3>4. FrontIn(tier, a) < FrontIn(tier, b)
      <4> HIDE DEF tier
      <4> QED BY <3>1, <3>2, <3>3, DominatorIsInEarlierFront
    <3>5. p[1] = q[1] /\ p[2] < q[2]
      BY <1>7, <3>1, <3>4 DEF FrontOf
    <3>6. 2 \in 1 .. 6 /\ \A k \in 1 .. 2 - 1 : k = 1
      OBVIOUS
    <3> HIDE DEF p, q
    <3>7. KeyLess(p, q)
      BY <2>1, <3>5, <3>6 DEF KeyLess
    <3> QED BY <3>7 DEF p, q
  <2> QED BY <2>2, <2>3
<1>9. i < j
  BY <1>8, KeyDecidesRank DEF a, b
<1> QED BY <1>4, <1>9
===============================================================================
