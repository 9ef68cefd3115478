----------------------- MODULE ThresholdCryptoProofs -----------------------
(***************************************************************************)
(* Proofs about the threshold cryptography, for every prime order of the   *)
(* groups, any number of operators and any polynomials: that interpolation *)
(* over any threshold of operators recovers the constant term, that the    *)
(* rounds of SecretSharing keep handing on sharings of one key, and what   *)
(* the client's calls of KMSClient return.                                 *)
(*                                                                         *)
(* The algebra is built from the folds that ThresholdCrypto defines. A     *)
(* statement about every finite set of operators is proved by AllSubsets,  *)
(* one about every polynomial by AllNumbers, on its degree.                *)
(***************************************************************************)
EXTENDS SecretSharing, KMSClient, FiniteSetTheorems, WellFoundedInduction, TLAPS

-----------------------------------------------------------------------------
(* Natural numbers, as facts about sets of them.                           *)

(* Every nonempty set of numbers has a least one.                          *)
LEMMA LeastOf ==
    ASSUME NEW T \in SUBSET Nat, T # {}
    PROVE  \E t \in T : \A u \in T : t <= u
<1> DEFINE R == OpToRel(<, Nat)
<1>1. IsWellFoundedOn(R, Nat)
  BY NatLessThanWellFounded
<1> HIDE DEF R
<1>2. PICK t \in T : \A u \in T : ~(<<u, t>> \in R)
  BY <1>1, WFMin
<1>3. ASSUME NEW u \in T
      PROVE  t <= u
  <2>1. ~(<<u, t>> \in R)
    BY <1>2
  <2>2. ~(u < t)
    BY <2>1 DEF R, OpToRel
  <2>3. QED
    BY <2>2
<1>4. QED
  BY <1>3

(* Induction, as a fact about a set of numbers.                            *)
LEMMA AllNumbers ==
    ASSUME NEW T \in SUBSET Nat, 0 \in T, \A n \in T : n + 1 \in T
    PROVE  T = Nat
<1> SUFFICES ASSUME Nat \ T # {}
             PROVE  FALSE
  OBVIOUS
<1>1. PICK t \in Nat \ T : \A u \in Nat \ T : t <= u
  BY LeastOf
<1>2. t - 1 \in Nat /\ t - 1 \in T
  BY <1>1
<1>3. QED
  BY <1>1, <1>2

-----------------------------------------------------------------------------
(* The field.                                                              *)

(* The order of the groups is at least two.                                *)
LEMMA PrimeIsLarge == Prime \in Nat /\ Prime >= 2
BY CryptoAssumption

(* Division with a remainder.                                              *)
LEMMA Remainder ==
    ASSUME NEW a \in Nat, NEW m \in Nat \ {0}
    PROVE  a % m \in 0..(m - 1) /\ \E k \in Nat : a = m * k + (a % m)
<1>1. a % m \in 0..(m - 1)
  OBVIOUS
<1>2. a \div m \in Nat /\ a = m * (a \div m) + (a % m)
  OBVIOUS
<1>3. QED
  BY <1>1, <1>2

(* The remainder is the one of that form.                                  *)
LEMMA RemainderIs ==
    ASSUME NEW m \in Nat \ {0}, NEW k \in Nat, NEW r \in 0..(m - 1)
    PROVE  (m * k + r) % m = r
OBVIOUS

(* An element of the field is its own remainder.                           *)
LEMMA SmallStays ==
    ASSUME NEW a \in Fr
    PROVE  a % Prime = a
BY PrimeIsLarge DEF Fr

(* Euclid's lemma: of two elements that are not zero, the product is not.  *)
LEMMA NoZeroDivisors ==
    ASSUME NEW x \in Fr \ {0}, NEW y \in Fr \ {0}
    PROVE  (x * y) % Prime # 0
<1> DEFINE T == {r \in Fr \ {0} : (r * y) % Prime = 0}
<1>1. Prime \in Nat \ {0} /\ Fr \subseteq Nat
  BY PrimeIsLarge DEF Fr
<1> SUFFICES ASSUME T # {}
             PROVE  FALSE
  OBVIOUS
<1>2. PICK r \in T : \A u \in T : r <= u
  BY <1>1, LeastOf
<1>3. r # 1
  <2>1. 1 * y = y
    BY <1>1
  <2>2. QED
    BY <2>1, SmallStays
<1>4. r \in 2..(Prime - 1)
  BY <1>1, <1>2, <1>3 DEF Fr
<1>5. Prime % r # 0
  BY <1>4, CryptoAssumption
<1> DEFINE s == Prime % r
<1>6. PICK q \in Nat : s \in 0..(r - 1) /\ Prime = r * q + s
  BY <1>1, <1>4, Remainder
<1> HIDE DEF s
<1>7. PICK k \in Nat : r * y = Prime * k
  <2>1. r * y \in Nat /\ (r * y) % Prime = 0
    BY <1>1, <1>2
  <2>2. PICK k \in Nat : r * y = Prime * k + ((r * y) % Prime)
    BY <1>1, <2>1, Remainder
  <2>3. QED
    BY <1>1, <2>1, <2>2
<1>8. s * y = Prime * (y - q * k)
  <2>1. Prime * y = (r * q + s) * y
    BY <1>6
  <2>2. (r * q + s) * y = q * (r * y) + s * y
    BY <1>1, <1>4, <1>6
  <2>3. q * (r * y) = q * (Prime * k)
    BY <1>7
  <2>4. q * (Prime * k) = Prime * (q * k)
    BY <1>1
  <2>5. s * y = Prime * y - Prime * (q * k)
    BY <1>1, <1>6, <2>1, <2>2, <2>3, <2>4
  <2>6. QED
    BY <1>1, <2>5
<1>9. y - q * k \in Nat
  <2>1. s * y >= 0
    BY <1>1, <1>4, <1>6
  <2>2. QED
    BY <1>1, <1>8, <2>1
<1>10. (s * y) % Prime = 0
  <2> DEFINE j == y - q * k
  <2>1. j \in Nat /\ s * y = Prime * j + 0
    BY <1>1, <1>8, <1>9
  <2> HIDE DEF j
  <2>2. QED
    BY <1>1, <2>1, RemainderIs
<1>11. s \in T /\ s < r
  BY <1>1, <1>4, <1>5, <1>6, <1>10 DEF s, Fr
<1>12. QED
  BY <1>1, <1>2, <1>11

(* A factor that is not zero can be cancelled.                             *)
LEMMA Cancel ==
    ASSUME NEW x \in Fr, NEW z \in Fr, NEW r \in Fr \ {0},
           (x * r) % Prime = (z * r) % Prime
    PROVE  x = z
<1>1. Prime \in Nat \ {0} /\ Fr \subseteq Nat
  BY PrimeIsLarge DEF Fr
<1>2. ASSUME NEW a \in Fr, NEW b \in Fr, a > b, (a * r) % Prime = (b * r) % Prime
      PROVE  FALSE
  <2> DEFINE e == (b * r) % Prime
  <2>1. a * r \in Nat /\ b * r \in Nat
    BY <1>1
  <2>2. PICK k \in Nat : a * r = Prime * k + e
    BY <1>1, <1>2, <2>1, Remainder
  <2>3. PICK l \in Nat : b * r = Prime * l + e
    BY <1>1, <2>1, Remainder
  <2>4. e \in Nat
    BY <1>1, <2>1, Remainder
  <2> HIDE DEF e
  <2>5. (a - b) * r = Prime * (k - l)
    <3>1. (a - b) * r = a * r - b * r
      BY <1>1
    <3>2. a * r - b * r = Prime * k - Prime * l
      BY <1>1, <2>2, <2>3, <2>4
    <3>3. QED
      BY <1>1, <3>1, <3>2
  <2>6. a - b \in Fr \ {0}
    BY <1>1, <1>2 DEF Fr
  <2>7. (a - b) * r >= 0
    BY <1>1, <2>6
  <2>8. k - l \in Nat
    BY <1>1, <2>5, <2>7
  <2>9. ((a - b) * r) % Prime = 0
    <3> DEFINE j == k - l
    <3>1. j \in Nat /\ (a - b) * r = Prime * j + 0
      BY <1>1, <2>5, <2>8
    <3> HIDE DEF j
    <3>2. QED
      BY <1>1, <3>1, RemainderIs
  <2>10. QED
    BY <2>6, <2>9, NoZeroDivisors
<1>3. x <= z /\ z <= x
  BY <1>1, <1>2
<1>4. QED
  BY <1>1, <1>3

-----------------------------------------------------------------------------
(* Folds. A fold over a finite set S is the value at S of a function that  *)
(* is defined by recursion on the subsets of S. The function exists, as it *)
(* can be built for the subsets of at most n elements for every n, and its *)
(* values are in every set that the fold's step does not leave.            *)

FoldStep(g, base, step, pick, s) ==
    IF s = {} THEN base ELSE step[<<pick[s], g[s \ {pick[s]}]>>]

(* A set is one smaller without the element that is picked from it.        *)
LEMMA OneFewer ==
    ASSUME NEW S, IsFiniteSet(S), NEW pick, NEW n \in Nat,
           \A s \in SUBSET S : s # {} => pick[s] \in s,
           NEW s \in SUBSET S, s # {}, Cardinality(s) <= n + 1
    PROVE  /\ pick[s] \in S /\ s \ {pick[s]} \in SUBSET S
           /\ Cardinality(s \ {pick[s]}) <= n
<1>1. IsFiniteSet(s) /\ pick[s] \in s
  BY FS_Subset
<1>2. Cardinality(s \ {pick[s]}) = Cardinality(s) - 1
  BY <1>1, FS_RemoveElement
<1>3. Cardinality(s) \in Nat
  BY <1>1, FS_CardinalityType
<1>4. QED
  BY <1>1, <1>2, <1>3

Foldable(S, V, base, step, pick) ==
    /\ IsFiniteSet(S) /\ base \in V /\ step \in [S \X V -> V]
    /\ \A s \in SUBSET S : s # {} => pick[s] \in s

IsFold(g, S, V, base, step, pick) ==
    /\ g \in [SUBSET S -> V]
    /\ \A s \in SUBSET S : g[s] = FoldStep(g, base, step, pick, s)

(* The function that a fold chooses exists.                                *)
LEMMA FoldExists ==
    ASSUME NEW S, NEW V, NEW base, NEW step, NEW pick, Foldable(S, V, base, step, pick)
    PROVE  \E g : IsFold(g, S, V, base, step, pick)
<1> USE DEF Foldable
<1> DEFINE Upto(g, n) == \A s \in SUBSET S :
                            Cardinality(s) <= n => g[s] = FoldStep(g, base, step, pick, s)
           T == {n \in Nat : \E g \in [SUBSET S -> V] : Upto(g, n)}
<1>1. \A s \in SUBSET S :
         /\ IsFiniteSet(s)
         /\ Cardinality(s) \in Nat /\ Cardinality(s) <= Cardinality(S)
  BY FS_Subset, FS_CardinalityType
<1>2. 0 \in T
  <2> DEFINE g == [s \in SUBSET S |-> base]
  <2>1. g \in [SUBSET S -> V]
    OBVIOUS
  <2>2. ASSUME NEW s \in SUBSET S, Cardinality(s) <= 0
        PROVE  g[s] = FoldStep(g, base, step, pick, s)
    <3>1. s = {}
      BY <1>1, <2>2, FS_EmptySet
    <3>2. QED
      BY <3>1 DEF FoldStep
  <2>3. QED
    BY <2>1, <2>2
<1>3. ASSUME NEW n \in T
      PROVE  n + 1 \in T
  <2>1. PICK g \in [SUBSET S -> V] : Upto(g, n)
    BY <1>3
  <2> DEFINE h == [s \in SUBSET S |-> IF Cardinality(s) <= n THEN g[s]
                                      ELSE FoldStep(g, base, step, pick, s)]
  <2>2. ASSUME NEW s \in SUBSET S
        PROVE  FoldStep(g, base, step, pick, s) \in V
    <3>1. CASE s = {}
      BY <3>1 DEF FoldStep
    <3>2. CASE s # {}
      <4>1. pick[s] \in S /\ s \ {pick[s]} \in SUBSET S
        BY <2>2, <3>2
      <4>2. <<pick[s], g[s \ {pick[s]}]>> \in S \X V
        BY <4>1
      <4>3. QED
        BY <3>2, <4>2 DEF FoldStep
    <3>3. QED
      BY <3>1, <3>2
  <2>3. h \in [SUBSET S -> V]
    BY <2>2
  <2>4. ASSUME NEW s \in SUBSET S, Cardinality(s) <= n + 1
        PROVE  h[s] = FoldStep(h, base, step, pick, s)
    <3>1. h[s] = FoldStep(g, base, step, pick, s)
      BY <2>1
    <3>2. CASE s = {}
      BY <3>1, <3>2 DEF FoldStep
    <3>3. CASE s # {}
      <4>1. s \ {pick[s]} \in SUBSET S /\ Cardinality(s \ {pick[s]}) <= n
        BY <1>3, <2>4, <3>3, OneFewer
      <4>2. h[s \ {pick[s]}] = g[s \ {pick[s]}]
        BY <4>1
      <4> HIDE DEF h
      <4>3. QED
        BY <3>1, <3>3, <4>2 DEF FoldStep
    <3>4. QED
      BY <3>2, <3>3
  <2> HIDE DEF h
  <2>5. QED
    BY <2>3, <2>4
<1> HIDE DEF T
<1>4. Cardinality(S) \in T
  <2>1. T \in SUBSET Nat
    BY DEF T
  <2>2. T = Nat
    BY <1>2, <1>3, <2>1, AllNumbers
  <2>3. QED
    BY <2>2, FS_CardinalityType
<1>5. PICK g \in [SUBSET S -> V] : Upto(g, Cardinality(S))
  BY <1>4 DEF T
<1>6. QED
  BY <1>1, <1>5 DEF IsFold

(* The value of a fold is in every set that its steps stay in.             *)
LEMMA FoldValues ==
    ASSUME NEW S, IsFiniteSet(S), NEW V, NEW g, g[{}] \in V, NEW pick,
           \A s \in SUBSET S : s # {} => pick[s] \in s,
           \A s \in SUBSET S : s # {} /\ g[s \ {pick[s]}] \in V => g[s] \in V
    PROVE  g[S] \in V
<1> DEFINE T == {n \in Nat : \A s \in SUBSET S : Cardinality(s) <= n => g[s] \in V}
<1>1. \A s \in SUBSET S : IsFiniteSet(s) /\ Cardinality(s) \in Nat
  BY FS_Subset, FS_CardinalityType
<1>2. 0 \in T
  <2>1. ASSUME NEW s \in SUBSET S, Cardinality(s) <= 0
        PROVE  s = {}
    BY <1>1, <2>1, FS_EmptySet
  <2>2. QED
    BY <2>1
<1>3. ASSUME NEW n \in T
      PROVE  n + 1 \in T
  <2>1. ASSUME NEW s \in SUBSET S, Cardinality(s) <= n + 1, s # {}
        PROVE  g[s] \in V
    <3>1. s \ {pick[s]} \in SUBSET S /\ Cardinality(s \ {pick[s]}) <= n
      BY <1>3, <2>1, OneFewer
    <3>2. QED
      BY <1>3, <2>1, <3>1
  <2>2. QED
    BY <1>3, <2>1
<1>4. T \in SUBSET Nat
  OBVIOUS
<1> HIDE DEF T
<1>5. T = Nat
  BY <1>2, <1>3, <1>4, AllNumbers
<1>6. Cardinality(S) \in T /\ S \in SUBSET S
  BY <1>5, FS_CardinalityType
<1>7. QED
  BY <1>1, <1>6 DEF T

(* Induction over the subsets of a finite set, as a fact about a set of them.*)
LEMMA AllSubsets ==
    ASSUME NEW S, IsFiniteSet(S), NEW C,
           \A s \in SUBSET S : (\A x \in s : s \ {x} \in C) => s \in C
    PROVE  \A s \in SUBSET S : s \in C
<1> DEFINE T == {n \in Nat : \A s \in SUBSET S : Cardinality(s) <= n => s \in C}
<1>1. \A s \in SUBSET S : IsFiniteSet(s) /\ Cardinality(s) \in Nat
  BY FS_Subset, FS_CardinalityType
<1>2. 0 \in T
  <2>1. ASSUME NEW s \in SUBSET S, Cardinality(s) <= 0
        PROVE  s \in C
    <3>1. s = {}
      BY <1>1, <2>1, FS_EmptySet
    <3>2. QED
      BY <3>1
  <2>2. QED
    BY <2>1
<1>3. ASSUME NEW n \in T
      PROVE  n + 1 \in T
  <2>1. ASSUME NEW s \in SUBSET S, Cardinality(s) <= n + 1
        PROVE  s \in C
    <3>1. ASSUME NEW x \in s
          PROVE  s \ {x} \in C
      <4>1. Cardinality(s \ {x}) = Cardinality(s) - 1
        BY <1>1, FS_RemoveElement
      <4>2. s \ {x} \in SUBSET S /\ Cardinality(s \ {x}) <= n
        BY <1>1, <1>3, <2>1, <4>1
      <4>3. QED
        BY <1>3, <4>2
    <3>2. QED
      BY <3>1
  <2>2. QED
    BY <1>3, <2>1
<1>4. T \in SUBSET Nat
  OBVIOUS
<1> HIDE DEF T
<1>5. T = Nat
  BY <1>2, <1>3, <1>4, AllNumbers
<1>6. ASSUME NEW s \in SUBSET S
      PROVE  s \in C
  <2>1. Cardinality(s) \in T
    BY <1>1, <1>5
  <2>2. QED
    BY <1>1, <2>1 DEF T
<1>7. QED
  BY <1>6

-----------------------------------------------------------------------------
(* Sums, products and values of polynomials are elements of the field.     *)

(* Sums and products of elements are elements, and products of units are   *)
(* units.                                                                  *)
LEMMA FieldOperations ==
    /\ Fr \subseteq Nat /\ 0 \in Fr /\ 1 \in Fr \ {0}
    /\ \A a, b \in Fr : AddPoints(a, b) \in Fr /\ ScalarMul(a, b) \in Fr
    /\ \A a, b \in Fr \ {0} : ScalarMul(a, b) \in Fr \ {0}
<1>1. Fr \subseteq Nat /\ 0 \in Fr /\ 1 \in Fr \ {0} /\ Prime \in Nat \ {0}
  BY PrimeIsLarge DEF Fr
<1>2. \A a \in Nat : a % Prime \in Fr
  BY <1>1, Remainder DEF Fr
<1>3. \A a, b \in Fr : a + b \in Nat /\ a * b \in Nat
  BY <1>1
<1>4. \A a, b \in Fr : AddPoints(a, b) \in Fr /\ ScalarMul(a, b) \in Fr
  BY <1>2, <1>3 DEF AddPoints, ScalarMul
<1>5. \A a, b \in Fr \ {0} : ScalarMul(a, b) # 0
  BY NoZeroDivisors DEF ScalarMul
<1>6. QED
  BY <1>1, <1>4, <1>5

Some(s) == CHOOSE x \in s : TRUE

(* What is chosen of a set is in it.                                       *)
LEMMA SomeIsIn == \A s : s # {} => Some(s) \in s
BY DEF Some

SumStep(g, f, s) ==
    IF s = {} THEN 0 ELSE AddPoints(f[Some(s)], g[s \ {Some(s)}])
IsSum(g, f, S) == g = [s \in SUBSET S |-> SumStep(g, f, s)]

SumFn(S, f) == CHOOSE g : IsSum(g, f, S)

(* The function by which a sum is defined.                                 *)
LEMMA SumIsFold ==
    ASSUME NEW S, IsFiniteSet(S), NEW f, \A x \in S : f[x] \in Fr
    PROVE  /\ SumOver(S, f) = SumFn(S, f)[S]
           /\ \A s \in SUBSET S : SumFn(S, f)[s] \in Fr
           /\ \A s \in SUBSET S : SumFn(S, f)[s] = SumStep(SumFn(S, f), f, s)
<1> DEFINE sum == SumFn(S, f)
           pick == [s \in SUBSET S |-> Some(s)]
           step == [p \in S \X Fr |-> AddPoints(f[p[1]], p[2])]
           start == 0
<1>1. SumOver(S, f) = sum[S]
  BY DEF SumFn, SumOver, FoldSet, MapThenFoldSet, IsSum, SumStep, Some
<1>2. \A s \in SUBSET S : pick[s] = Some(s)
  OBVIOUS
<1>3. \A s \in SUBSET S : s # {} => pick[s] \in s
  BY <1>2, SomeIsIn
<1>4. step \in [S \X Fr -> Fr]
  BY FieldOperations
<1>5. \A x \in S, v \in Fr : step[<<x, v>>] = AddPoints(f[x], v)
  OBVIOUS
<1>6. start \in Fr
  BY FieldOperations
<1> HIDE DEF pick, step, start
<1>7. \E g : IsSum(g, f, S)
  <2>1. Foldable(S, Fr, start, step, pick)
    BY <1>3, <1>4, <1>6 DEF Foldable
  <2>2. PICK g : IsFold(g, S, Fr, start, step, pick)
    BY <2>1, FoldExists, Zenon
  <2>3. /\ g \in [SUBSET S -> Fr]
        /\ \A s \in SUBSET S : g[s] = FoldStep(g, start, step, pick, s)
    BY <2>2 DEF IsFold
  <2>4. ASSUME NEW s \in SUBSET S
        PROVE  g[s] = SumStep(g, f, s)
    <3>1. CASE s = {}
      BY <2>3, <3>1 DEF FoldStep, SumStep, start
    <3>2. CASE s # {}
      <4>1. Some(s) \in S /\ s \ {Some(s)} \in SUBSET S /\ pick[s] = Some(s)
        BY <1>2, <1>3, <3>2
      <4>2. g[s] = step[<<Some(s), g[s \ {Some(s)}]>>]
        BY <2>3, <3>2, <4>1 DEF FoldStep
      <4>3. g[s \ {Some(s)}] \in Fr
        BY <2>3, <4>1
      <4>4. QED
        BY <1>5, <3>2, <4>1, <4>2, <4>3, Zenon DEF SumStep
    <3>3. QED
      BY <3>1, <3>2
  <2>5. QED
    BY <2>3, <2>4 DEF IsSum
<1>8. IsSum(sum, f, S)
  BY <1>7, Zenon DEF SumFn
<1> HIDE DEF sum
<1>9. \A s \in SUBSET S : sum[s] = SumStep(sum, f, s)
  BY <1>8 DEF IsSum
<1>10. sum[{}] \in Fr
  <2>1. SumStep(sum, f, {}) = start /\ {} \in SUBSET S
    BY DEF SumStep, start
  <2>2. QED
    BY <1>6, <1>9, <2>1, Zenon
<1>11. \A s \in SUBSET S : s # {} /\ sum[s \ {pick[s]}] \in Fr => sum[s] \in Fr
  <2> SUFFICES ASSUME NEW s \in SUBSET S, s # {}, sum[s \ {pick[s]}] \in Fr
               PROVE  sum[s] \in Fr
    OBVIOUS
  <2> DEFINE x == Some(s)  rest == sum[s \ {x}]
  <2>1. pick[s] = x /\ x \in S /\ rest \in Fr
    BY <1>2, <1>3
  <2>2. sum[s] = AddPoints(f[x], rest)
    BY <1>9, Zenon DEF SumStep
  <2> HIDE DEF x, rest
  <2>3. <<x, rest>> \in S \X Fr /\ sum[s] = step[<<x, rest>>]
    BY <1>5, <2>1, <2>2
  <2>4. QED
    BY <1>4, <2>3
<1>12. ASSUME NEW t \in SUBSET S
       PROVE  sum[t] \in Fr
  <2>1. IsFiniteSet(t)
    BY FS_Subset
  <2>2. \A s \in SUBSET t : s \in SUBSET S
    OBVIOUS
  <2>3. \A s \in SUBSET t : s # {} => pick[s] \in s
    BY <1>3, <2>2, Zenon
  <2>4. \A s \in SUBSET t : s # {} /\ sum[s \ {pick[s]}] \in Fr => sum[s] \in Fr
    BY <1>11, <2>2, Zenon
  <2>5. QED
    BY <1>10, <2>1, <2>3, <2>4, FoldValues, Zenon
<1>13. QED
  BY <1>1, <1>9, <1>12 DEF sum

(* A sum of elements of the field.                                         *)
LEMMA SumInField ==
    ASSUME NEW S, IsFiniteSet(S), NEW f, \A x \in S : f[x] \in Fr
    PROVE  SumOver(S, f) \in Fr
<1>1. S \in SUBSET S
  OBVIOUS
<1>2. SumOver(S, f) = SumFn(S, f)[S] /\ \A s \in SUBSET S : SumFn(S, f)[s] \in Fr
  BY SumIsFold
<1>3. QED
  BY <1>1, <1>2

Units == Fr \ {0}

ProductStep(g, f, s) ==
    IF s = {} THEN 1 ELSE ScalarMul(f[Some(s)], g[s \ {Some(s)}])
IsProduct(g, f, S) == g = [s \in SUBSET S |-> ProductStep(g, f, s)]

ProductFn(S, f) == CHOOSE g : IsProduct(g, f, S)

(* The function by which a product is defined.                             *)
LEMMA ProductIsFold ==
    ASSUME NEW S, IsFiniteSet(S), NEW f, \A x \in S : f[x] \in Units
    PROVE  /\ ProductOver(S, f) = ProductFn(S, f)[S]
           /\ \A s \in SUBSET S : ProductFn(S, f)[s] \in Units
           /\ \A s \in SUBSET S : ProductFn(S, f)[s] = ProductStep(ProductFn(S, f), f, s)
<1> DEFINE product == ProductFn(S, f)
           pick == [s \in SUBSET S |-> Some(s)]
           step == [p \in S \X Units |-> ScalarMul(f[p[1]], p[2])]
           start == 1
<1>1. ProductOver(S, f) = product[S]
  BY DEF ProductFn, ProductOver, FoldSet, MapThenFoldSet, IsProduct, ProductStep, Some
<1>2. \A s \in SUBSET S : pick[s] = Some(s)
  OBVIOUS
<1>3. \A s \in SUBSET S : s # {} => pick[s] \in s
  BY <1>2, SomeIsIn
<1>4. step \in [S \X Units -> Units]
  BY FieldOperations DEF Units
<1>5. \A x \in S, v \in Units : step[<<x, v>>] = ScalarMul(f[x], v)
  OBVIOUS
<1>6. start \in Units
  BY FieldOperations DEF Units
<1> HIDE DEF pick, step, start
<1>7. \E g : IsProduct(g, f, S)
  <2>1. Foldable(S, Units, start, step, pick)
    BY <1>3, <1>4, <1>6 DEF Foldable
  <2>2. PICK g : IsFold(g, S, Units, start, step, pick)
    BY <2>1, FoldExists, Zenon
  <2>3. /\ g \in [SUBSET S -> Units]
        /\ \A s \in SUBSET S : g[s] = FoldStep(g, start, step, pick, s)
    BY <2>2 DEF IsFold
  <2>4. ASSUME NEW s \in SUBSET S
        PROVE  g[s] = ProductStep(g, f, s)
    <3>1. CASE s = {}
      BY <2>3, <3>1 DEF FoldStep, ProductStep, start
    <3>2. CASE s # {}
      <4>1. Some(s) \in S /\ s \ {Some(s)} \in SUBSET S /\ pick[s] = Some(s)
        BY <1>2, <1>3, <3>2
      <4>2. g[s] = step[<<Some(s), g[s \ {Some(s)}]>>]
        BY <2>3, <3>2, <4>1 DEF FoldStep
      <4>3. g[s \ {Some(s)}] \in Units
        BY <2>3, <4>1
      <4>4. QED
        BY <1>5, <3>2, <4>1, <4>2, <4>3, Zenon DEF ProductStep
    <3>3. QED
      BY <3>1, <3>2
  <2>5. QED
    BY <2>3, <2>4 DEF IsProduct
<1>8. IsProduct(product, f, S)
  BY <1>7, Zenon DEF ProductFn
<1> HIDE DEF product
<1>9. \A s \in SUBSET S : product[s] = ProductStep(product, f, s)
  BY <1>8 DEF IsProduct
<1>10. product[{}] \in Units
  <2>1. ProductStep(product, f, {}) = start /\ {} \in SUBSET S
    BY DEF ProductStep, start
  <2>2. QED
    BY <1>6, <1>9, <2>1, Zenon
<1>11. \A s \in SUBSET S : s # {} /\ product[s \ {pick[s]}] \in Units => product[s] \in Units
  <2> SUFFICES ASSUME NEW s \in SUBSET S, s # {}, product[s \ {pick[s]}] \in Units
               PROVE  product[s] \in Units
    OBVIOUS
  <2> DEFINE x == Some(s)  rest == product[s \ {x}]
  <2>1. pick[s] = x /\ x \in S /\ rest \in Units
    BY <1>2, <1>3
  <2>2. product[s] = ScalarMul(f[x], rest)
    BY <1>9, Zenon DEF ProductStep
  <2> HIDE DEF x, rest
  <2>3. <<x, rest>> \in S \X Units /\ product[s] = step[<<x, rest>>]
    BY <1>5, <2>1, <2>2
  <2>4. QED
    BY <1>4, <2>3
<1>12. ASSUME NEW t \in SUBSET S
       PROVE  product[t] \in Units
  <2>1. IsFiniteSet(t)
    BY FS_Subset
  <2>2. \A s \in SUBSET t : s \in SUBSET S
    OBVIOUS
  <2>3. \A s \in SUBSET t : s # {} => pick[s] \in s
    BY <1>3, <2>2, Zenon
  <2>4. \A s \in SUBSET t : s # {} /\ product[s \ {pick[s]}] \in Units => product[s] \in Units
    BY <1>11, <2>2, Zenon
  <2>5. QED
    BY <1>10, <2>1, <2>3, <2>4, FoldValues, Zenon
<1>13. QED
  BY <1>1, <1>9, <1>12 DEF product

(* A product of elements that are not zero is not zero.                    *)
LEMMA ProductInField ==
    ASSUME NEW S, IsFiniteSet(S), NEW f, \A x \in S : f[x] \in Units
    PROVE  ProductOver(S, f) \in Units
<1>1. S \in SUBSET S
  OBVIOUS
<1>2. ProductOver(S, f) = ProductFn(S, f)[S] /\ \A s \in SUBSET S : ProductFn(S, f)[s] \in Units
  BY ProductIsFold
<1>3. QED
  BY <1>1, <1>2

(* Min of a nonempty set of numbers is in it.                              *)
LEMMA LeastIsIn ==
    ASSUME NEW T \in SUBSET Nat, T # {}
    PROVE  Min(T) \in T
<1>1. \E t \in T : \A u \in T : t <= u
  BY LeastOf
<1>2. QED
  BY <1>1, Zenon DEF Min

(* An operator's place is an element that is not zero.                     *)
LEMMA AddressInField ==
    ASSUME NEW op \in Operators
    PROVE  AddressToFr(op) = op /\ op \in Fr \ {0}
<1>1. op \in Fr \ {0}
  BY CryptoAssumption DEF Operators, Fr
<1>2. QED
  BY <1>1, SmallStays DEF AddressToFr

ValueStep(g, poly, op, s) ==
    IF s = {} THEN 0 ELSE AddPoints(poly[Min(s)],
                                       ScalarMul(g[s \ {Min(s)}], AddressToFr(op)))
IsValue(g, poly, op, S) == g = [s \in SUBSET S |-> ValueStep(g, poly, op, s)]

ValueFn(poly, op) == CHOOSE g : IsValue(g, poly, op, DOMAIN poly)

(* The places of the operators, and of the secret.                         *)
Places == 0..NumOperators

(* A place is an element of the field.                                     *)
LEMMA PlaceInField ==
    ASSUME NEW op \in Places
    PROVE  AddressToFr(op) = op /\ op \in Fr
<1>1. op \in Fr
  BY CryptoAssumption DEF Places, Fr
<1>2. QED
  BY <1>1, SmallStays DEF AddressToFr

(* The function by which the value of a polynomial is defined.             *)
LEMMA ValueIsFold ==
    ASSUME NEW poly \in Seq(Fr), NEW op \in Places, NEW S, S = DOMAIN poly
    PROVE  /\ EvaluatePolynomial(poly, op) = ValueFn(poly, op)[S]
           /\ \A s \in SUBSET S : ValueFn(poly, op)[s] \in Fr
           /\ \A s \in SUBSET S :
                 ValueFn(poly, op)[s] = ValueStep(ValueFn(poly, op), poly, op, s)
<1> DEFINE value == ValueFn(poly, op)
           pick == [s \in SUBSET S |-> Min(s)]
           step == [p \in S \X Fr |-> AddPoints(poly[p[1]], ScalarMul(p[2], AddressToFr(op)))]
           start == 0
<1>0. IsFiniteSet(S) /\ S \subseteq Nat /\ \A x \in S : poly[x] \in Fr
  <2>1. S = 1..Len(poly) /\ Len(poly) \in Nat
    OBVIOUS
  <2>2. IsFiniteSet(1..Len(poly))
    BY <2>1, FS_Interval
  <2>3. QED
    BY <2>1, <2>2
<1>1. EvaluatePolynomial(poly, op) = value[S]
  BY DEF ValueFn, EvaluatePolynomial, FoldRight, MapThenFoldSet, IsValue, ValueStep
<1>2. \A s \in SUBSET S : pick[s] = Min(s)
  OBVIOUS
<1>3. \A s \in SUBSET S : s # {} => pick[s] \in s
  BY <1>2, <1>0, LeastIsIn
<1>4. step \in [S \X Fr -> Fr]
  BY FieldOperations, <1>0, PlaceInField
<1>5. \A x \in S, v \in Fr : step[<<x, v>>] = AddPoints(poly[x], ScalarMul(v, AddressToFr(op)))
  OBVIOUS
<1>6. start \in Fr
  BY FieldOperations
<1> HIDE DEF pick, step, start
<1>7. \E g : IsValue(g, poly, op, S)
  <2>1. Foldable(S, Fr, start, step, pick)
    BY <1>3, <1>4, <1>6, <1>0 DEF Foldable
  <2>2. PICK g : IsFold(g, S, Fr, start, step, pick)
    BY <2>1, FoldExists, Zenon
  <2>3. /\ g \in [SUBSET S -> Fr]
        /\ \A s \in SUBSET S : g[s] = FoldStep(g, start, step, pick, s)
    BY <2>2 DEF IsFold
  <2>4. ASSUME NEW s \in SUBSET S
        PROVE  g[s] = ValueStep(g, poly, op, s)
    <3>1. CASE s = {}
      BY <2>3, <3>1 DEF FoldStep, ValueStep, start
    <3>2. CASE s # {}
      <4>1. Min(s) \in S /\ s \ {Min(s)} \in SUBSET S /\ pick[s] = Min(s)
        BY <1>2, <1>3, <3>2
      <4>2. g[s] = step[<<Min(s), g[s \ {Min(s)}]>>]
        BY <2>3, <3>2, <4>1 DEF FoldStep
      <4>3. g[s \ {Min(s)}] \in Fr
        BY <2>3, <4>1
      <4>4. QED
        BY <1>5, <3>2, <4>1, <4>2, <4>3, Zenon DEF ValueStep
    <3>3. QED
      BY <3>1, <3>2
  <2>5. QED
    BY <2>3, <2>4 DEF IsValue
<1>8. IsValue(value, poly, op, S)
  BY <1>7, Zenon DEF ValueFn
<1> HIDE DEF value
<1>9. \A s \in SUBSET S : value[s] = ValueStep(value, poly, op, s)
  BY <1>8 DEF IsValue
<1>10. value[{}] \in Fr
  <2>1. ValueStep(value, poly, op, {}) = start /\ {} \in SUBSET S
    BY DEF ValueStep, start
  <2>2. QED
    BY <1>6, <1>9, <2>1, Zenon
<1>11. \A s \in SUBSET S : s # {} /\ value[s \ {pick[s]}] \in Fr => value[s] \in Fr
  <2> SUFFICES ASSUME NEW s \in SUBSET S, s # {}, value[s \ {pick[s]}] \in Fr
               PROVE  value[s] \in Fr
    OBVIOUS
  <2> DEFINE x == Min(s)  rest == value[s \ {x}]
  <2>1. pick[s] = x /\ x \in S /\ rest \in Fr
    BY <1>2, <1>3
  <2>2. value[s] = AddPoints(poly[x], ScalarMul(rest, AddressToFr(op)))
    BY <1>9, Zenon DEF ValueStep
  <2> HIDE DEF x, rest
  <2>3. <<x, rest>> \in S \X Fr /\ value[s] = step[<<x, rest>>]
    BY <1>5, <2>1, <2>2
  <2>4. QED
    BY <1>4, <2>3
<1>12. ASSUME NEW t \in SUBSET S
       PROVE  value[t] \in Fr
  <2>1. IsFiniteSet(t)
    BY <1>0, FS_Subset
  <2>2. \A s \in SUBSET t : s \in SUBSET S
    OBVIOUS
  <2>3. \A s \in SUBSET t : s # {} => pick[s] \in s
    BY <1>3, <2>2, Zenon
  <2>4. \A s \in SUBSET t : s # {} /\ value[s \ {pick[s]}] \in Fr => value[s] \in Fr
    BY <1>11, <2>2, Zenon
  <2>5. QED
    BY <1>10, <2>1, <2>3, <2>4, FoldValues, Zenon
<1>13. QED
  BY <1>1, <1>9, <1>12 DEF value

(* The value of a polynomial at a place.                                   *)
LEMMA ValueInField ==
    ASSUME NEW poly \in Seq(Fr), NEW op \in Places
    PROVE  EvaluatePolynomial(poly, op) \in Fr
<1> DEFINE S == DOMAIN poly
<1>1. /\ EvaluatePolynomial(poly, op) = ValueFn(poly, op)[S]
      /\ \A s \in SUBSET S : ValueFn(poly, op)[s] \in Fr
  BY ValueIsFold
<1>2. S \in SUBSET S
  OBVIOUS
<1>3. QED
  BY <1>1, <1>2


-----------------------------------------------------------------------------
(* Every element but zero has an inverse: the least multiple of x, modulo  *)
(* the prime, that is not zero divides the prime.                          *)
LEMMA HasInverse ==
    ASSUME NEW x \in Fr \ {0}
    PROVE  \E b \in Fr : (x * b) % Prime = 1
<1> DEFINE T == {r \in Fr \ {0} : \E b \in Nat : (x * b) % Prime = r}
<1>1. Prime \in Nat \ {0} /\ Prime >= 2 /\ Fr \subseteq Nat
  BY PrimeIsLarge DEF Fr
<1>2. x \in T
  <2>1. (x * 1) % Prime = x
    BY <1>1, SmallStays
  <2>2. QED
    BY <2>1
<1>3. PICK r \in T : \A u \in T : r <= u
  BY <1>1, <1>2, LeastOf
<1>4. PICK b \in Nat : (x * b) % Prime = r
  BY <1>3
<1>5. PICK k \in Nat : x * b = Prime * k + r
  <2>1. x * b \in Nat
    BY <1>1
  <2>2. QED
    BY <1>1, <1>4, <2>1, Remainder
<1>6. r = 1
  <2> SUFFICES ASSUME r # 1
               PROVE  FALSE
    OBVIOUS
  <2>1. r \in 2..(Prime - 1)
    BY <1>1, <1>3 DEF Fr
  <2> DEFINE s == Prime % r
  <2>2. s # 0
    BY <2>1, CryptoAssumption
  <2>3. PICK q \in Nat : s \in 0..(r - 1) /\ Prime = r * q + s
    BY <1>1, <2>1, Remainder
  <2> HIDE DEF s
  <2> DEFINE c == q * ((Prime - 1) * b)
             j == q * ((Prime - 1) * k) + q * r - 1
  <2>4. x * c = Prime * j + s
    <3> DEFINE w == q * (Prime - 1)
    <3>1. w \in Nat
      BY <1>1, <2>3
    <3>2. c = w * b /\ q * ((Prime - 1) * k) = w * k
      BY <1>1, <2>3
    <3>3. x * (w * b) = w * (x * b)
      BY <1>1, <3>1
    <3>4. w * (x * b) = w * (Prime * k + r)
      BY <1>5
    <3>5. w * (Prime * k + r) = Prime * (w * k) + w * r
      BY <1>1, <2>1, <3>1
    <3>6. w * r = Prime * (q * r) - q * r
      BY <1>1, <2>1, <2>3
    <3>7. q * r = Prime - s
      BY <1>1, <2>1, <2>3
    <3> HIDE DEF w
    <3>8. x * c = Prime * (w * k) + Prime * (q * r) - Prime + s
      BY <1>1, <2>1, <2>3, <3>1, <3>2, <3>3, <3>4, <3>5, <3>6, <3>7
    <3>9. Prime * j = Prime * (w * k) + Prime * (q * r) - Prime
      BY <1>1, <2>1, <2>3, <3>1, <3>2
    <3>10. QED
      BY <1>1, <2>3, <3>8, <3>9
  <2>5. c \in Nat /\ j \in Nat
    <3>1. q * r >= 1
      BY <1>1, <2>1, <2>3
    <3>2. (Prime - 1) * b \in Nat /\ (Prime - 1) * k \in Nat
      BY <1>1
    <3>3. QED
      BY <2>1, <2>3, <3>1, <3>2
  <2> HIDE DEF c, j
  <2>6. s \in 0..(Prime - 1) /\ s \in Fr \ {0} /\ s < r
    BY <1>1, <2>1, <2>2, <2>3 DEF Fr, s
  <2>7. (x * c) % Prime = s
    BY <1>1, <2>4, <2>5, <2>6, RemainderIs
  <2>8. s \in T
    BY <2>5, <2>6, <2>7
  <2> HIDE DEF T
  <2>9. r <= s
    BY <1>3, <2>8
  <2>10. QED
    BY <2>1, <2>3, <2>6, <2>9
<1>7. PICK l \in Nat : b = Prime * l + (b % Prime)
  BY <1>1, Remainder
<1> DEFINE d == b % Prime
<1>8. d \in Fr
  BY <1>1, Remainder DEF Fr
<1>9. x * d = Prime * (k - x * l) + 1
  <2>1. x * b = x * (Prime * l + d)
    BY <1>7
  <2> HIDE DEF d
  <2>2. x * (Prime * l + d) = Prime * (x * l) + x * d
    BY <1>1, <1>8
  <2>3. QED
    BY <1>1, <1>5, <1>6, <1>8, <2>1, <2>2
<1> HIDE DEF d
<1>10. k - x * l \in Nat
  <2> DEFINE j == k - x * l
  <2>1. x * d >= 0 /\ x * l \in Int
    BY <1>1, <1>8
  <2>2. j \in Int /\ Prime * j + 1 >= 0
    BY <1>1, <1>9, <2>1
  <2> HIDE DEF j
  <2>3. j >= 0
    BY <1>1, <2>2
  <2>4. QED
    BY <2>2, <2>3 DEF j
<1>11. (x * d) % Prime = 1
  <2> DEFINE j == k - x * l  one == 1
  <2>1. j \in Nat /\ x * d = Prime * j + one /\ one \in 0..(Prime - 1)
    BY <1>1, <1>9, <1>10
  <2> HIDE DEF j, one
  <2>2. (x * d) % Prime = one
    BY <1>1, <2>1, RemainderIs
  <2>3. QED
    BY <2>2 DEF one
<1>12. QED
  BY <1>8, <1>11

(* Lagrange coefficients: no two operators have the same place, so their   *)
(* differences are not zero and have inverses.                             *)
LEMMA DifferencesAreUnits ==
    ASSUME NEW i \in Operators, NEW j \in Operators, i # j
    PROVE  /\ Neg(AddressToFr(j)) \in Units
           /\ AddPoints(AddressToFr(i), Neg(AddressToFr(j))) \in Units
<1>1. /\ Prime \in Nat \ {0} /\ i \in 1..(Prime - 1) /\ j \in 1..(Prime - 1)
      /\ AddressToFr(i) = i /\ AddressToFr(j) = j
  BY AddressInField, PrimeIsLarge DEF Fr
<1>2. Neg(j) = Prime - j
  <2>1. Prime - j \in Fr
    BY <1>1 DEF Fr
  <2>2. QED
    BY <2>1, SmallStays DEF Neg
<1>3. AddPoints(i, Prime - j) \in Fr \ {0}
  <2>1. CASE i < j
    <3>1. i + (Prime - j) \in Fr \ {0}
      BY <1>1, <2>1 DEF Fr
    <3>2. QED
      BY <3>1, SmallStays DEF AddPoints
  <2>2. CASE i > j
    <3> DEFINE d == i - j  one == 1
    <3>1. d \in 0..(Prime - 1) /\ d \in Fr \ {0} /\ one \in Nat /\ i + (Prime - j) = Prime * one + d
      BY <1>1, <2>2 DEF Fr
    <3> HIDE DEF d, one
    <3>2. (Prime * one + d) % Prime = d
      BY <1>1, <3>1, RemainderIs
    <3>3. QED
      BY <3>1, <3>2 DEF AddPoints
  <2>3. QED
    BY <1>1, <2>1, <2>2
<1>4. Prime - j \in Fr \ {0}
  BY <1>1 DEF Fr
<1>5. QED
  BY <1>1, <1>2, <1>3, <1>4 DEF Units

(* A Lagrange coefficient is an element of the field.                      *)
LEMMA CoefficientInField ==
    ASSUME NEW participants \in SUBSET Operators, NEW i \in Operators
    PROVE  ComputeLagrangeCoefficient(i, participants) \in Fr
<1> DEFINE others == participants \ {i}
           numerator == ProductOver(others, [j \in others |-> Neg(AddressToFr(j))])
           denominator == ProductOver(others,
               [j \in others |-> AddPoints(AddressToFr(i), Neg(AddressToFr(j)))])
<1>1. IsFiniteSet(others)
  <2>1. IsFiniteSet(Operators)
    BY CryptoAssumption, FS_Interval DEF Operators
  <2>2. others \subseteq Operators
    OBVIOUS
  <2>3. QED
    BY <2>1, <2>2, FS_Subset
<1>2. numerator \in Units
  <2> DEFINE f == [j \in others |-> Neg(AddressToFr(j))]
  <2>1. \A j \in others : f[j] \in Units
    BY DifferencesAreUnits
  <2> HIDE DEF f, others
  <2>2. ProductOver(others, f) \in Units
    BY <1>1, <2>1, ProductInField
  <2>3. QED
    BY <2>2 DEF f
<1>3. denominator \in Units
  <2> DEFINE f == [j \in others |-> AddPoints(AddressToFr(i), Neg(AddressToFr(j)))]
  <2>1. \A j \in others : f[j] \in Units
    BY DifferencesAreUnits
  <2> HIDE DEF f, others
  <2>2. ProductOver(others, f) \in Units
    BY <1>1, <2>1, ProductInField
  <2>3. QED
    BY <2>2 DEF f
<1> HIDE DEF numerator, denominator
<1>4. FieldInverse(denominator) \in Fr
  <2>1. \E b \in Fr : (denominator * b) % Prime = 1
    BY <1>3, HasInverse DEF Units
  <2>2. QED
    BY <2>1, Zenon DEF FieldInverse
<1>5. ScalarMul(FieldInverse(denominator), numerator) \in Fr
  BY <1>2, <1>4, FieldOperations DEF Units
<1>6. QED
  BY <1>5 DEF ComputeLagrangeCoefficient, numerator, denominator

(* So is the value at zero of what interpolates elements of the field.     *)
LEMMA InterpolationInField ==
    ASSUME NEW values, DOMAIN values \in SUBSET Operators,
           \A i \in DOMAIN values : values[i] \in Fr
    PROVE  Interpolate(values) \in Fr
<1> DEFINE S == DOMAIN values
           f == [i \in S |-> ScalarMul(LagrangeCoefficients[S][i], values[i])]
<1>1. IsFiniteSet(S)
  <2>1. IsFiniteSet(Operators)
    BY CryptoAssumption, FS_Interval DEF Operators
  <2>2. QED
    BY <2>1, FS_Subset
<1>2. \A i \in S : LagrangeCoefficients[S][i] = ComputeLagrangeCoefficient(i, S)
  BY DEF LagrangeCoefficients
<1>3. \A i \in S : f[i] \in Fr
  BY <1>2, CoefficientInField, FieldOperations
<1> HIDE DEF f
<1>4. SumOver(S, f) \in Fr
  BY <1>1, <1>3, SumInField
<1>5. QED
  BY <1>4 DEF Interpolate, f

(* There are NumOperators operators.                                       *)
LEMMA FiniteOperators == IsFiniteSet(Operators) /\ Cardinality(Operators) = NumOperators
BY CryptoAssumption, FS_Interval DEF Operators

-----------------------------------------------------------------------------
(* The laws of the field.                                                  *)

(* Numbers that differ by a multiple of the prime have the same remainder. *)
LEMMA SameRemainder ==
    ASSUME NEW a \in Nat, NEW b \in Nat, NEW k \in Int, a = b + Prime * k
    PROVE  a % Prime = b % Prime
<1>1. Prime \in Nat \ {0}
  BY PrimeIsLarge
<1> DEFINE r == a % Prime  s == b % Prime
<1>2. PICK q \in Nat : r \in 0..(Prime - 1) /\ a = Prime * q + r
  BY <1>1, Remainder
<1>3. PICK l \in Nat : s \in 0..(Prime - 1) /\ b = Prime * l + s
  BY <1>1, Remainder
<1> HIDE DEF r, s
<1> DEFINE j == l + k - q
<1>4. r - s = Prime * j
  BY <1>1, <1>2, <1>3
<1>5. j \in Int
  OBVIOUS
<1> HIDE DEF j
<1>6. ~(j >= 1) /\ ~(j <= -1)
  <2>1. ASSUME j >= 1 PROVE FALSE
    <3>1. Prime * j >= Prime
      BY <1>1, <1>5, <2>1
    <3>2. QED
      BY <1>1, <1>2, <1>3, <1>4, <3>1
  <2>2. ASSUME j <= -1 PROVE FALSE
    <3>1. Prime * j <= -Prime
      BY <1>1, <1>5, <2>2
    <3>2. QED
      BY <1>1, <1>2, <1>3, <1>4, <3>1
  <2>3. QED
    BY <2>1, <2>2
<1>7. r = s
  <2>1. j = 0
    BY <1>5, <1>6
  <2>2. QED
    BY <1>1, <1>2, <1>3, <1>4, <2>1
<1>8. QED
  BY <1>7 DEF r, s

(* A sum or a product may be reduced before or after.                      *)
LEMMA Reduced ==
    ASSUME NEW a \in Nat, NEW b \in Nat
    PROVE  /\ a % Prime \in Fr
           /\ ((a % Prime) + b) % Prime = (a + b) % Prime
           /\ ((a % Prime) * b) % Prime = (a * b) % Prime
<1>1. Prime \in Nat \ {0}
  BY PrimeIsLarge
<1> DEFINE r == a % Prime
<1>2. PICK q \in Nat : r \in 0..(Prime - 1) /\ a = Prime * q + r
  BY <1>1, Remainder
<1> HIDE DEF r
<1>3. (r + b) % Prime = (a + b) % Prime
  <2> DEFINE k == q
  <2>1. a + b = (r + b) + Prime * k /\ k \in Int /\ a + b \in Nat /\ r + b \in Nat
    BY <1>1, <1>2
  <2>2. QED
    BY <2>1, SameRemainder
<1>4. (r * b) % Prime = (a * b) % Prime
  <2> DEFINE k == q * b
  <2>1. k \in Int /\ a * b \in Nat /\ r * b \in Nat
    BY <1>1, <1>2
  <2>2. a * b = (r * b) + Prime * k
    <3>1. a * b = (Prime * q + r) * b
      BY <1>2
    <3>2. (Prime * q + r) * b = Prime * (q * b) + r * b
      BY <1>1, <1>2
    <3>3. Prime * (q * b) \in Nat
      BY <1>1, <1>2
    <3>4. QED
      BY <2>1, <3>1, <3>2, <3>3
  <2> HIDE DEF k
  <2>3. QED
    BY <2>1, <2>2, SameRemainder
<1>5. r \in Fr
  BY <1>2 DEF Fr
<1>6. QED
  BY <1>3, <1>4, <1>5 DEF r

(* The field laws.                                                         *)
LEMMA AddLaws ==
    /\ \A a \in Fr : AddPoints(a, 0) = a /\ AddPoints(0, a) = a
    /\ \A a, b \in Fr : AddPoints(a, b) = AddPoints(b, a)
    /\ \A a, b, c \in Fr : AddPoints(AddPoints(a, b), c) = AddPoints(a, AddPoints(b, c))
    /\ \A a \in Fr : Neg(a) \in Fr /\ AddPoints(a, Neg(a)) = 0
<1>1. Fr \subseteq Nat /\ Prime \in Nat \ {0}
  BY FieldOperations, PrimeIsLarge
<1>2. \A a \in Fr : AddPoints(a, 0) = a /\ AddPoints(0, a) = a
  BY <1>1, SmallStays DEF AddPoints
<1>3. \A a, b \in Fr : AddPoints(a, b) = AddPoints(b, a)
  BY <1>1 DEF AddPoints
<1>4. ASSUME NEW a \in Fr, NEW b \in Fr, NEW c \in Fr
      PROVE  AddPoints(AddPoints(a, b), c) = AddPoints(a, AddPoints(b, c))
  <2>1. a \in Nat /\ b \in Nat /\ c \in Nat /\ a + b \in Nat /\ b + c \in Nat
    BY <1>1
  <2>2. (((a + b) % Prime) + c) % Prime = (a + b + c) % Prime
    BY <2>1, Reduced
  <2>3. (((b + c) % Prime) + a) % Prime = (b + c + a) % Prime
    BY <2>1, Reduced
  <2>4. (b + c) % Prime \in Nat
    BY <1>1, <2>1, Reduced
  <2>5. ((b + c) % Prime) + a = a + ((b + c) % Prime) /\ b + c + a = a + b + c
    BY <2>1, <2>4
  <2>6. QED
    BY <2>2, <2>3, <2>5 DEF AddPoints
<1>5. ASSUME NEW a \in Fr
      PROVE  Neg(a) \in Fr /\ AddPoints(a, Neg(a)) = 0
  <2>1. a \in Nat /\ Prime - a \in Nat /\ a <= Prime - 1
    BY <1>1 DEF Fr
  <2>2. (((Prime - a) % Prime) + a) % Prime = (Prime - a + a) % Prime
    BY <2>1, Reduced
  <2>3. (Prime - a) % Prime \in Nat /\ Neg(a) \in Fr
    BY <1>1, <2>1, Reduced DEF Neg
  <2>4. Prime - a + a = Prime /\ ((Prime - a) % Prime) + a = a + ((Prime - a) % Prime)
    BY <1>1, <2>1, <2>3
  <2>5. Prime % Prime = 0
    BY <1>1
  <2>6. QED
    BY <2>2, <2>3, <2>4, <2>5 DEF AddPoints, Neg
<1>6. QED
  BY <1>2, <1>3, <1>4, <1>5

(* Multiplication is commutative and associative, with one as its unit.    *)
LEMMA MulLaws ==
    /\ \A a \in Fr : ScalarMul(a, 1) = a /\ ScalarMul(1, a) = a
    /\ \A a \in Fr : ScalarMul(a, 0) = 0 /\ ScalarMul(0, a) = 0
    /\ \A a, b \in Fr : ScalarMul(a, b) = ScalarMul(b, a)
    /\ \A a, b, c \in Fr : ScalarMul(ScalarMul(a, b), c) = ScalarMul(a, ScalarMul(b, c))
<1>1. Fr \subseteq Nat /\ Prime \in Nat \ {0} /\ 0 \in Fr
  BY FieldOperations, PrimeIsLarge
<1>2. \A a \in Fr : ScalarMul(a, 1) = a /\ ScalarMul(1, a) = a
  BY <1>1, SmallStays DEF ScalarMul
<1>3. \A a, b \in Fr : ScalarMul(a, b) = ScalarMul(b, a)
  BY <1>1 DEF ScalarMul
<1>4. ASSUME NEW a \in Fr, NEW b \in Fr, NEW c \in Fr
      PROVE  ScalarMul(ScalarMul(a, b), c) = ScalarMul(a, ScalarMul(b, c))
  <2>1. a \in Nat /\ b \in Nat /\ c \in Nat /\ a * b \in Nat /\ b * c \in Nat
    BY <1>1
  <2>2. (((a * b) % Prime) * c) % Prime = ((a * b) * c) % Prime
    BY <2>1, Reduced
  <2>3. (((b * c) % Prime) * a) % Prime = ((b * c) * a) % Prime
    BY <2>1, Reduced
  <2>4. (b * c) % Prime \in Nat
    BY <1>1, <2>1, Reduced
  <2>5. ((b * c) % Prime) * a = a * ((b * c) % Prime)
    BY <2>1, <2>4
  <2>6. (b * c) * a = (a * b) * c
    BY <2>1
  <2>7. QED
    BY <2>2, <2>3, <2>5, <2>6 DEF ScalarMul
<1>5. \A a \in Fr : ScalarMul(a, 0) = 0 /\ ScalarMul(0, a) = 0
  <2>1. \A a \in Fr : a * 0 = 0 /\ 0 * a = 0
    BY <1>1
  <2>2. QED
    BY <1>1, <2>1, SmallStays DEF ScalarMul
<1>6. QED
  BY <1>2, <1>3, <1>4, <1>5

(* It distributes over addition.                                           *)
LEMMA Distributive ==
    ASSUME NEW a \in Fr, NEW b \in Fr, NEW c \in Fr
    PROVE  /\ ScalarMul(a, AddPoints(b, c)) = AddPoints(ScalarMul(a, b), ScalarMul(a, c))
           /\ ScalarMul(AddPoints(b, c), a) = AddPoints(ScalarMul(b, a), ScalarMul(c, a))
<1>1. Fr \subseteq Nat /\ Prime \in Nat \ {0}
  BY FieldOperations, PrimeIsLarge
<1>2. a \in Nat /\ b \in Nat /\ c \in Nat /\ b + c \in Nat /\ b * a \in Nat /\ c * a \in Nat
  BY <1>1
<1>3. (((b + c) % Prime) * a) % Prime = ((b + c) * a) % Prime
  BY <1>2, Reduced
<1>4. (b + c) * a = b * a + c * a
  BY <1>2
<1>5. (((b * a) % Prime) + (c * a)) % Prime = (b * a + c * a) % Prime
  BY <1>2, Reduced
<1>6. (b * a) % Prime \in Nat /\ (c * a) % Prime \in Nat
  BY <1>1, <1>2, Reduced
<1>7. (((c * a) % Prime) + ((b * a) % Prime)) % Prime = (c * a + ((b * a) % Prime)) % Prime
  BY <1>2, <1>6, Reduced
<1>8. /\ ((c * a) % Prime) + ((b * a) % Prime) = ((b * a) % Prime) + ((c * a) % Prime)
      /\ c * a + ((b * a) % Prime) = ((b * a) % Prime) + (c * a)
  BY <1>2, <1>6
<1>9. ScalarMul(AddPoints(b, c), a) = AddPoints(ScalarMul(b, a), ScalarMul(c, a))
  BY <1>3, <1>4, <1>5, <1>7, <1>8 DEF ScalarMul, AddPoints
<1>10. QED
  BY <1>9, MulLaws, FieldOperations

(* The inverse of a unit, the only one.                                    *)
LEMMA InverseLaw ==
    ASSUME NEW x \in Units
    PROVE  /\ FieldInverse(x) \in Units
           /\ ScalarMul(x, FieldInverse(x)) = 1
           /\ \A b \in Fr : ScalarMul(x, b) = 1 => b = FieldInverse(x)
<1>1. \E b \in Fr : (x * b) % Prime = 1
  BY HasInverse DEF Units
<1>2. FieldInverse(x) \in Fr /\ (x * FieldInverse(x)) % Prime = 1
  BY <1>1, Zenon DEF FieldInverse
<1>3. ScalarMul(x, FieldInverse(x)) = 1
  BY <1>2 DEF ScalarMul
<1>4. x \in Fr /\ x \in Fr \ {0}
  BY DEF Units
<1>5. FieldInverse(x) # 0
  BY <1>3, <1>4, MulLaws
<1>6. ASSUME NEW b \in Fr, ScalarMul(x, b) = 1
      PROVE  b = FieldInverse(x)
  <2>1. ScalarMul(b, x) = ScalarMul(FieldInverse(x), x)
    BY <1>2, <1>3, <1>4, <1>6, MulLaws
  <2>2. QED
    BY <1>2, <1>4, <2>1, Cancel DEF ScalarMul
<1>7. QED
  BY <1>2, <1>3, <1>5, <1>6 DEF Units

-----------------------------------------------------------------------------
(* Sums and products over the parts of a set.                              *)

(* The parts of a sum are sums.                                            *)
LEMMA SumPart ==
    ASSUME NEW S, IsFiniteSet(S), NEW f, \A x \in S : f[x] \in Fr, NEW T \in SUBSET S
    PROVE  SumFn(S, f)[T] = SumOver(T, f)
<1> DEFINE g == SumFn(S, f)  h == SumFn(T, f)
           C == {s \in SUBSET T : g[s] = h[s]}
<1>1. IsFiniteSet(T) /\ \A x \in T : f[x] \in Fr
  BY FS_Subset
<1>2. \A s \in SUBSET S : g[s] = SumStep(g, f, s)
  BY SumIsFold
<1>3. SumOver(T, f) = h[T] /\ \A s \in SUBSET T : h[s] = SumStep(h, f, s)
  BY <1>1, SumIsFold
<1> HIDE DEF g, h
<1>4. ASSUME NEW s \in SUBSET T, \A x \in s : s \ {x} \in C
      PROVE  s \in C
  <2>1. g[s] = SumStep(g, f, s) /\ h[s] = SumStep(h, f, s)
    BY <1>2, <1>3
  <2>2. CASE s = {}
    BY <2>1, <2>2 DEF SumStep
  <2>3. CASE s # {}
    <3>1. s \ {Some(s)} \in C
      BY <1>4, <2>3, SomeIsIn
    <3>2. g[s \ {Some(s)}] = h[s \ {Some(s)}]
      BY <3>1
    <3>3. g[s] = h[s]
      BY <2>1, <2>3, <3>2 DEF SumStep
    <3>4. QED
      BY <3>3
  <2>4. QED
    BY <2>2, <2>3
<1> HIDE DEF C
<1>5. \A s \in SUBSET T : s \in C
  BY <1>1, <1>4, AllSubsets
<1>6. T \in C
  BY <1>5
<1>7. QED
  BY <1>3, <1>6 DEF C, g

(* A sum over no element, and over the element that the fold takes first.  *)
LEMMA SumFirst ==
    ASSUME NEW S, IsFiniteSet(S), NEW f, \A x \in S : f[x] \in Fr
    PROVE  /\ S = {} => SumOver(S, f) = 0
           /\ S # {} => SumOver(S, f) =
                 AddPoints(f[Some(S)], SumOver(S \ {Some(S)}, f))
<1> DEFINE g == SumFn(S, f)
<1>1. SumOver(S, f) = g[S] /\ g[S] = SumStep(g, f, S)
  <2>1. S \in SUBSET S
    OBVIOUS
  <2>2. SumOver(S, f) = g[S] /\ \A s \in SUBSET S : g[s] = SumStep(g, f, s)
    BY SumIsFold
  <2>3. QED
    BY <2>1, <2>2
<1>2. ASSUME S # {}
      PROVE  g[S \ {Some(S)}] = SumOver(S \ {Some(S)}, f)
  BY SumPart
<1> HIDE DEF g
<1>3. QED
  BY <1>1, <1>2 DEF SumStep

(* Any element may be taken first.                                         *)
LEMMA SumSplit ==
    ASSUME NEW S, IsFiniteSet(S), NEW f, \A x \in S : f[x] \in Fr, NEW y \in S
    PROVE  SumOver(S, f) = AddPoints(f[y], SumOver(S \ {y}, f))
<1> DEFINE C == {s \in SUBSET S : \A x \in s :
                    SumOver(s, f) = AddPoints(f[x], SumOver(s \ {x}, f))}
<1>1. \A s \in SUBSET S : IsFiniteSet(s) /\ (\A x \in s : f[x] \in Fr)
  BY FS_Subset
<1>2. \A s \in SUBSET S : SumOver(s, f) \in Fr
  BY <1>1, SumInField
<1>3. ASSUME NEW s \in SUBSET S, \A x \in s : s \ {x} \in C
      PROVE  s \in C
  <2> SUFFICES ASSUME NEW x \in s
               PROVE  SumOver(s, f) = AddPoints(f[x], SumOver(s \ {x}, f))
    OBVIOUS
  <2> DEFINE z == Some(s)
             rest == (s \ {x}) \ {z}
  <2>1. z \in s /\ SumOver(s, f) = AddPoints(f[z], SumOver(s \ {z}, f))
    BY <1>1, SumFirst, SomeIsIn
  <2> HIDE DEF z
  <2>2. CASE x = z
    BY <2>1, <2>2
  <2>3. CASE x # z
    <3>1. s \ {z} \in C /\ x \in s \ {z} /\ s \ {x} \in C /\ z \in s \ {x}
      BY <1>3, <2>1, <2>3
    <3>2. (s \ {z}) \ {x} = rest
      OBVIOUS
    <3>3. SumOver(s \ {z}, f) = AddPoints(f[x], SumOver(rest, f))
      BY <3>1, <3>2
    <3>4. SumOver(s \ {x}, f) = AddPoints(f[z], SumOver(rest, f))
      BY <3>1
    <3>5. f[x] \in Fr /\ f[z] \in Fr /\ SumOver(rest, f) \in Fr
      BY <1>2, <2>1
    <3> DEFINE a == f[x]  b == f[z]  c == SumOver(rest, f)
    <3>6. AddPoints(b, AddPoints(a, c)) = AddPoints(a, AddPoints(b, c))
      <4>1. a \in Fr /\ b \in Fr /\ c \in Fr
        BY <3>5
      <4> HIDE DEF a, b, c
      <4>2. AddPoints(b, AddPoints(a, c)) = AddPoints(AddPoints(b, a), c)
        BY <4>1, AddLaws
      <4>3. AddPoints(a, AddPoints(b, c)) = AddPoints(AddPoints(a, b), c)
        BY <4>1, AddLaws
      <4>4. QED
        BY <4>1, <4>2, <4>3, AddLaws
    <3>7. QED
      BY <2>1, <3>3, <3>4, <3>6
  <2>4. QED
    BY <2>2, <2>3
<1> HIDE DEF C
<1>4. \A s \in SUBSET S : s \in C
  BY <1>3, AllSubsets
<1>5. S \in C
  BY <1>4
<1>6. QED
  BY <1>5 DEF C

(* The parts of a product are products.                                    *)
LEMMA ProductPart ==
    ASSUME NEW S, IsFiniteSet(S), NEW f, \A x \in S : f[x] \in Units, NEW T \in SUBSET S
    PROVE  ProductFn(S, f)[T] = ProductOver(T, f)
<1> DEFINE g == ProductFn(S, f)  h == ProductFn(T, f)
           C == {s \in SUBSET T : g[s] = h[s]}
<1>1. IsFiniteSet(T) /\ \A x \in T : f[x] \in Units
  BY FS_Subset
<1>2. \A s \in SUBSET S : g[s] = ProductStep(g, f, s)
  BY ProductIsFold
<1>3. ProductOver(T, f) = h[T] /\ \A s \in SUBSET T : h[s] = ProductStep(h, f, s)
  BY <1>1, ProductIsFold
<1> HIDE DEF g, h
<1>4. ASSUME NEW s \in SUBSET T, \A x \in s : s \ {x} \in C
      PROVE  s \in C
  <2>1. g[s] = ProductStep(g, f, s) /\ h[s] = ProductStep(h, f, s)
    BY <1>2, <1>3
  <2>2. CASE s = {}
    BY <2>1, <2>2 DEF ProductStep
  <2>3. CASE s # {}
    <3>1. s \ {Some(s)} \in C
      BY <1>4, <2>3, SomeIsIn
    <3>2. g[s \ {Some(s)}] = h[s \ {Some(s)}]
      BY <3>1
    <3>3. g[s] = h[s]
      BY <2>1, <2>3, <3>2 DEF ProductStep
    <3>4. QED
      BY <3>3
  <2>4. QED
    BY <2>2, <2>3
<1> HIDE DEF C
<1>5. \A s \in SUBSET T : s \in C
  BY <1>1, <1>4, AllSubsets
<1>6. T \in C
  BY <1>5
<1>7. QED
  BY <1>3, <1>6 DEF C, g

(* A product over no element, and over the element that the fold takes first.*)
LEMMA ProductFirst ==
    ASSUME NEW S, IsFiniteSet(S), NEW f, \A x \in S : f[x] \in Units
    PROVE  /\ S = {} => ProductOver(S, f) = 1
           /\ S # {} => ProductOver(S, f) =
                 ScalarMul(f[Some(S)], ProductOver(S \ {Some(S)}, f))
<1> DEFINE g == ProductFn(S, f)
<1>1. ProductOver(S, f) = g[S] /\ g[S] = ProductStep(g, f, S)
  <2>1. S \in SUBSET S
    OBVIOUS
  <2>2. ProductOver(S, f) = g[S] /\ \A s \in SUBSET S : g[s] = ProductStep(g, f, s)
    BY ProductIsFold
  <2>3. QED
    BY <2>1, <2>2
<1>2. ASSUME S # {}
      PROVE  g[S \ {Some(S)}] = ProductOver(S \ {Some(S)}, f)
  BY ProductPart
<1> HIDE DEF g
<1>3. QED
  BY <1>1, <1>2 DEF ProductStep

(* Any element may be taken first.                                         *)
LEMMA ProductSplit ==
    ASSUME NEW S, IsFiniteSet(S), NEW f, \A x \in S : f[x] \in Units, NEW y \in S
    PROVE  ProductOver(S, f) = ScalarMul(f[y], ProductOver(S \ {y}, f))
<1> DEFINE C == {s \in SUBSET S : \A x \in s :
                    ProductOver(s, f) = ScalarMul(f[x], ProductOver(s \ {x}, f))}
<1>1. \A s \in SUBSET S : IsFiniteSet(s) /\ (\A x \in s : f[x] \in Units)
  BY FS_Subset
<1>2. \A s \in SUBSET S : ProductOver(s, f) \in Units
  BY <1>1, ProductInField
<1>3. ASSUME NEW s \in SUBSET S, \A x \in s : s \ {x} \in C
      PROVE  s \in C
  <2> SUFFICES ASSUME NEW x \in s
               PROVE  ProductOver(s, f) = ScalarMul(f[x], ProductOver(s \ {x}, f))
    OBVIOUS
  <2> DEFINE z == Some(s)
             rest == (s \ {x}) \ {z}
  <2>1. z \in s /\ ProductOver(s, f) = ScalarMul(f[z], ProductOver(s \ {z}, f))
    BY <1>1, ProductFirst, SomeIsIn
  <2> HIDE DEF z
  <2>2. CASE x = z
    BY <2>1, <2>2
  <2>3. CASE x # z
    <3>1. s \ {z} \in C /\ x \in s \ {z} /\ s \ {x} \in C /\ z \in s \ {x}
      BY <1>3, <2>1, <2>3
    <3>2. (s \ {z}) \ {x} = rest
      OBVIOUS
    <3>3. ProductOver(s \ {z}, f) = ScalarMul(f[x], ProductOver(rest, f))
      BY <3>1, <3>2
    <3>4. ProductOver(s \ {x}, f) = ScalarMul(f[z], ProductOver(rest, f))
      BY <3>1
    <3>5. f[x] \in Units /\ f[z] \in Units /\ ProductOver(rest, f) \in Units
      BY <1>2, <2>1
    <3> DEFINE a == f[x]  b == f[z]  c == ProductOver(rest, f)
    <3>6. ScalarMul(b, ScalarMul(a, c)) = ScalarMul(a, ScalarMul(b, c))
      <4>1. a \in Units /\ b \in Units /\ c \in Units
        BY <3>5
      <4> HIDE DEF a, b, c
      <4>2. ScalarMul(b, ScalarMul(a, c)) = ScalarMul(ScalarMul(b, a), c)
        BY <4>1, MulLaws DEF Units
      <4>3. ScalarMul(a, ScalarMul(b, c)) = ScalarMul(ScalarMul(a, b), c)
        BY <4>1, MulLaws DEF Units
      <4>4. QED
        BY <4>1, <4>2, <4>3, MulLaws DEF Units
    <3>7. QED
      BY <2>1, <3>3, <3>4, <3>6
  <2>4. QED
    BY <2>2, <2>3
<1> HIDE DEF C
<1>4. \A s \in SUBSET S : s \in C
  BY <1>3, AllSubsets
<1>5. S \in C
  BY <1>4
<1>6. QED
  BY <1>5 DEF C

(* Functions that agree on a set have the same sum over it.                *)
LEMMA SumSame ==
    ASSUME NEW S, IsFiniteSet(S), NEW f, NEW g, \A x \in S : f[x] \in Fr /\ g[x] = f[x]
    PROVE  SumOver(S, g) = SumOver(S, f)
<1> DEFINE C == {s \in SUBSET S : SumOver(s, g) = SumOver(s, f)}
<1>1. \A s \in SUBSET S : IsFiniteSet(s)
  BY FS_Subset
<1>2. ASSUME NEW s \in SUBSET S, \A x \in s : s \ {x} \in C
      PROVE  s \in C
  <2>0. IsFiniteSet(s) /\ \A x \in s : f[x] \in Fr /\ g[x] \in Fr /\ g[x] = f[x]
    BY <1>1
  <2>1. CASE s = {}
    <3>1. SumOver(s, f) = 0 /\ SumOver(s, g) = 0
      BY <2>0, <2>1, SumFirst
    <3>2. QED
      BY <3>1
  <2>2. CASE s # {}
    <3>1. PICK x \in s : TRUE
      BY <2>2
    <3>2. SumOver(s, f) = AddPoints(f[x], SumOver(s \ {x}, f))
      BY <2>0, SumSplit
    <3>3. SumOver(s, g) = AddPoints(g[x], SumOver(s \ {x}, g))
      BY <2>0, SumSplit
    <3>4. SumOver(s \ {x}, g) = SumOver(s \ {x}, f)
      BY <1>2
    <3>5. QED
      BY <2>0, <3>2, <3>3, <3>4
  <2>3. QED
    BY <2>1, <2>2
<1> HIDE DEF C
<1>3. \A s \in SUBSET S : s \in C
  BY <1>2, AllSubsets
<1>4. QED
  BY <1>3 DEF C

(* A common factor.                                                        *)
LEMMA SumScaled ==
    ASSUME NEW S, IsFiniteSet(S), NEW f, NEW g, NEW c \in Fr,
           \A x \in S : f[x] \in Fr /\ g[x] = ScalarMul(c, f[x])
    PROVE  SumOver(S, g) = ScalarMul(c, SumOver(S, f))
<1> DEFINE C == {s \in SUBSET S : SumOver(s, g) = ScalarMul(c, SumOver(s, f))}
<1>1. \A s \in SUBSET S : IsFiniteSet(s)
  BY FS_Subset
<1>2. ASSUME NEW s \in SUBSET S, \A x \in s : s \ {x} \in C
      PROVE  s \in C
  <2>0. IsFiniteSet(s) /\ \A x \in s : f[x] \in Fr /\ g[x] \in Fr /\ g[x] = ScalarMul(c, f[x])
    BY <1>1, FieldOperations
  <2>1. CASE s = {}
    <3>1. SumOver(s, f) = 0 /\ SumOver(s, g) = 0
      BY <2>0, <2>1, SumFirst
    <3>2. QED
      BY <3>1, MulLaws
  <2>2. CASE s # {}
    <3>1. PICK x \in s : TRUE
      BY <2>2
    <3>2. SumOver(s, f) = AddPoints(f[x], SumOver(s \ {x}, f))
      BY <2>0, SumSplit
    <3>3. SumOver(s, g) = AddPoints(g[x], SumOver(s \ {x}, g))
      BY <2>0, SumSplit
    <3>4. SumOver(s \ {x}, g) = ScalarMul(c, SumOver(s \ {x}, f))
      BY <1>2
    <3>5. SumOver(s \ {x}, f) \in Fr
      BY <1>1, <2>0, SumInField
    <3>6. QED
      BY <2>0, <3>2, <3>3, <3>4, <3>5, Distributive
  <2>3. QED
    BY <2>1, <2>2
<1> HIDE DEF C
<1>3. \A s \in SUBSET S : s \in C
  BY <1>2, AllSubsets
<1>4. QED
  BY <1>3 DEF C

(* Two pairs added crosswise.                                              *)
LEMMA AddFour ==
    ASSUME NEW a \in Fr, NEW b \in Fr, NEW c \in Fr, NEW d \in Fr
    PROVE  AddPoints(AddPoints(a, b), AddPoints(c, d)) =
           AddPoints(AddPoints(a, c), AddPoints(b, d))
<1> DEFINE cd == AddPoints(c, d)  bd == AddPoints(b, d)
<1>1. cd \in Fr /\ bd \in Fr
  BY FieldOperations
<1>2. AddPoints(AddPoints(a, b), cd) = AddPoints(a, AddPoints(b, cd))
  BY <1>1, AddLaws
<1>3. AddPoints(AddPoints(a, c), bd) = AddPoints(a, AddPoints(c, bd))
  BY <1>1, AddLaws
<1>4. AddPoints(b, cd) = AddPoints(AddPoints(b, c), d)
  BY AddLaws
<1>5. AddPoints(c, bd) = AddPoints(AddPoints(c, b), d)
  BY AddLaws
<1>6. QED
  BY <1>2, <1>3, <1>4, <1>5, AddLaws

(* A sum of sums.                                                          *)
LEMMA SumAdded ==
    ASSUME NEW S, IsFiniteSet(S), NEW e, NEW f, NEW g,
           \A x \in S : e[x] \in Fr /\ f[x] \in Fr /\ g[x] = AddPoints(e[x], f[x])
    PROVE  SumOver(S, g) = AddPoints(SumOver(S, e), SumOver(S, f))
<1> DEFINE C == {s \in SUBSET S : SumOver(s, g) = AddPoints(SumOver(s, e), SumOver(s, f))}
<1>1. \A s \in SUBSET S : IsFiniteSet(s)
  BY FS_Subset
<1>2. ASSUME NEW s \in SUBSET S, \A x \in s : s \ {x} \in C
      PROVE  s \in C
  <2>0. /\ IsFiniteSet(s)
        /\ \A x \in s : e[x] \in Fr /\ f[x] \in Fr /\ g[x] \in Fr /\ g[x] = AddPoints(e[x], f[x])
    BY <1>1, FieldOperations
  <2>1. CASE s = {}
    <3>1. SumOver(s, f) = 0 /\ SumOver(s, g) = 0 /\ SumOver(s, e) = 0
      BY <2>0, <2>1, SumFirst
    <3>2. QED
      BY <3>1, AddLaws, FieldOperations
  <2>2. CASE s # {}
    <3>1. PICK x \in s : TRUE
      BY <2>2
    <3> DEFINE rest == s \ {x}
    <3>2. SumOver(s, f) = AddPoints(f[x], SumOver(rest, f))
      BY <2>0, SumSplit
    <3>3. SumOver(s, g) = AddPoints(g[x], SumOver(rest, g))
      BY <2>0, SumSplit
    <3>4. SumOver(s, e) = AddPoints(e[x], SumOver(rest, e))
      BY <2>0, SumSplit
    <3>5. SumOver(rest, g) = AddPoints(SumOver(rest, e), SumOver(rest, f))
      BY <1>2
    <3>6. SumOver(rest, f) \in Fr /\ SumOver(rest, e) \in Fr
      BY <1>1, <2>0, SumInField
    <3> HIDE DEF rest
    <3>7. AddPoints(AddPoints(e[x], f[x]), AddPoints(SumOver(rest, e), SumOver(rest, f))) =
          AddPoints(AddPoints(e[x], SumOver(rest, e)), AddPoints(f[x], SumOver(rest, f)))
      BY <2>0, <3>6, AddFour
    <3>8. QED
      BY <2>0, <3>2, <3>3, <3>4, <3>5, <3>7
  <2>3. QED
    BY <2>1, <2>2
<1> HIDE DEF C
<1>3. \A s \in SUBSET S : s \in C
  BY <1>2, AllSubsets
<1>4. QED
  BY <1>3 DEF C

(* Functions that agree on a set have the same product over it.            *)
LEMMA ProductSame ==
    ASSUME NEW S, IsFiniteSet(S), NEW f, NEW g, \A x \in S : f[x] \in Units /\ g[x] = f[x]
    PROVE  ProductOver(S, g) = ProductOver(S, f)
<1> DEFINE C == {s \in SUBSET S : ProductOver(s, g) = ProductOver(s, f)}
<1>1. \A s \in SUBSET S : IsFiniteSet(s)
  BY FS_Subset
<1>2. ASSUME NEW s \in SUBSET S, \A x \in s : s \ {x} \in C
      PROVE  s \in C
  <2>0. IsFiniteSet(s) /\ \A x \in s : f[x] \in Units /\ g[x] \in Units /\ g[x] = f[x]
    BY <1>1
  <2>1. CASE s = {}
    <3>1. ProductOver(s, f) = 1 /\ ProductOver(s, g) = 1
      BY <2>0, <2>1, ProductFirst
    <3>2. QED
      BY <3>1
  <2>2. CASE s # {}
    <3>1. PICK x \in s : TRUE
      BY <2>2
    <3>2. ProductOver(s, f) = ScalarMul(f[x], ProductOver(s \ {x}, f))
      BY <2>0, ProductSplit
    <3>3. ProductOver(s, g) = ScalarMul(g[x], ProductOver(s \ {x}, g))
      BY <2>0, ProductSplit
    <3>4. ProductOver(s \ {x}, g) = ProductOver(s \ {x}, f)
      BY <1>2
    <3>5. QED
      BY <2>0, <3>2, <3>3, <3>4
  <2>3. QED
    BY <2>1, <2>2
<1> HIDE DEF C
<1>3. \A s \in SUBSET S : s \in C
  BY <1>2, AllSubsets
<1>4. QED
  BY <1>3 DEF C

-----------------------------------------------------------------------------
(* Lagrange coefficients: what leaving one participant out changes.        *)

(* The parts of ComputeLagrangeCoefficient.                                *)
Difference(i, j) == AddPoints(AddressToFr(i), Neg(AddressToFr(j)))
Numerator(S) == ProductOver(S, [j \in S |-> Neg(AddressToFr(j))])
Denominator(i, S) == ProductOver(S, [j \in S |-> Difference(i, j)])
L(i, P) == ComputeLagrangeCoefficient(i, P)

(* Sets of operators are finite.                                           *)
LEMMA FiniteParts == \A P \in SUBSET Operators : IsFiniteSet(P)
BY FiniteOperators, FS_Subset

(* The products of a Lagrange coefficient lose a factor with a participant.*)
LEMMA NumeratorSplit ==
    ASSUME NEW S \in SUBSET Operators, NEW a \in S
    PROVE  /\ Numerator(S) \in Units /\ Numerator(S \ {a}) \in Units
           /\ Numerator(S) = ScalarMul(Neg(AddressToFr(a)), Numerator(S \ {a}))
<1> DEFINE f == [j \in S |-> Neg(AddressToFr(j))]
           T == S \ {a}
           g == [j \in T |-> Neg(AddressToFr(j))]
<1>1. IsFiniteSet(S) /\ IsFiniteSet(T)
  BY FiniteParts
<1>2. \A j \in Operators : Neg(AddressToFr(j)) \in Units
  <2> SUFFICES ASSUME NEW j \in Operators
               PROVE  Neg(AddressToFr(j)) \in Units
    OBVIOUS
  <2>1. AddressToFr(j) = j /\ j \in Fr \ {0} /\ Prime \in Nat
    BY AddressInField, PrimeIsLarge
  <2>2. Prime - j \in Fr \ {0}
    BY <2>1 DEF Fr
  <2>3. QED
    BY <2>1, <2>2, SmallStays DEF Neg, Units
<1>3. /\ \A j \in S : f[j] \in Units
      /\ \A j \in T : g[j] \in Units /\ f[j] \in Units /\ f[j] = g[j]
      /\ f[a] = Neg(AddressToFr(a))
  BY <1>2
<1>4. Numerator(S) = ProductOver(S, f) /\ Numerator(T) = ProductOver(T, g)
  BY DEF Numerator
<1> HIDE DEF f, g
<1>5. ProductOver(S, f) = ScalarMul(f[a], ProductOver(T, f))
  BY <1>1, <1>3, ProductSplit
<1>6. ProductOver(T, f) = ProductOver(T, g)
  BY <1>1, <1>3, ProductSame
<1>7. ProductOver(S, f) \in Units /\ ProductOver(T, g) \in Units
  BY <1>1, <1>3, ProductInField
<1>8. QED
  BY <1>3, <1>4, <1>5, <1>6, <1>7

(* The same of the denominator.                                            *)
LEMMA DenominatorSplit ==
    ASSUME NEW i \in Operators, NEW S \in SUBSET Operators, i \notin S, NEW a \in S
    PROVE  /\ Denominator(i, S) \in Units /\ Denominator(i, S \ {a}) \in Units
           /\ Difference(i, a) \in Units
           /\ Denominator(i, S) = ScalarMul(Difference(i, a), Denominator(i, S \ {a}))
<1> DEFINE f == [j \in S |-> Difference(i, j)]
           T == S \ {a}
           g == [j \in T |-> Difference(i, j)]
<1>1. IsFiniteSet(S) /\ IsFiniteSet(T)
  BY FiniteParts
<1>2. \A j \in S : Difference(i, j) \in Units
  BY DifferencesAreUnits DEF Difference
<1>3. /\ \A j \in S : f[j] \in Units
      /\ \A j \in T : g[j] \in Units /\ f[j] \in Units /\ f[j] = g[j]
      /\ f[a] = Difference(i, a)
  BY <1>2
<1>4. Denominator(i, S) = ProductOver(S, f) /\ Denominator(i, T) = ProductOver(T, g)
  BY DEF Denominator
<1> HIDE DEF f, g
<1>5. ProductOver(S, f) = ScalarMul(f[a], ProductOver(T, f))
  BY <1>1, <1>3, ProductSplit
<1>6. ProductOver(T, f) = ProductOver(T, g)
  BY <1>1, <1>3, ProductSame
<1>7. ProductOver(S, f) \in Units /\ ProductOver(T, g) \in Units
  BY <1>1, <1>3, ProductInField
<1>8. QED
  BY <1>2, <1>3, <1>4, <1>5, <1>6, <1>7

(* The coefficient in terms of its products.                               *)
LEMMA CoefficientIs ==
    ASSUME NEW i, NEW P
    PROVE  L(i, P) = ScalarMul(FieldInverse(Denominator(i, P \ {i})), Numerator(P \ {i}))
BY DEF L, ComputeLagrangeCoefficient, Denominator, Numerator, Difference

(* Taking a participant away from a Lagrange coefficient.                  *)
LEMMA CoefficientSplit ==
    ASSUME NEW P \in SUBSET Operators, NEW i \in P, NEW a \in P, a # i
    PROVE  ScalarMul(L(i, P), Difference(i, a)) =
           ScalarMul(Neg(AddressToFr(a)), L(i, P \ {a}))
<1> DEFINE S == P \ {i}  T == S \ {a}
           n == Numerator(T)  d == Denominator(i, T)  x == Difference(i, a)
           m == Neg(AddressToFr(a))
<1>1. S \in SUBSET Operators /\ i \notin S /\ a \in S /\ T = (P \ {a}) \ {i} /\ i \in Operators
  OBVIOUS
<1>2. Numerator(S) = ScalarMul(m, n) /\ n \in Units
  BY <1>1, NumeratorSplit
<1>3. Denominator(i, S) = ScalarMul(x, d) /\ d \in Units /\ x \in Units
      /\ Denominator(i, S) \in Units
  BY <1>1, DenominatorSplit
<1>4. m \in Fr
  <2>1. AddressToFr(a) \in Fr
    BY AddressInField
  <2>2. QED
    BY <2>1, AddLaws
<1>5. L(i, P) = ScalarMul(FieldInverse(ScalarMul(x, d)), ScalarMul(m, n))
  BY <1>2, <1>3, CoefficientIs
<1>6. L(i, P \ {a}) = ScalarMul(FieldInverse(d), n)
  BY <1>1, CoefficientIs
<1> HIDE DEF n, d, x, m, S, T
<1> DEFINE e == FieldInverse(ScalarMul(x, d))  mn == ScalarMul(m, n)
<1>7. /\ x \in Fr /\ d \in Fr /\ n \in Fr /\ ScalarMul(x, d) \in Units
      /\ FieldInverse(d) \in Fr
      /\ \A b \in Fr : ScalarMul(d, b) = 1 => b = FieldInverse(d)
  BY <1>2, <1>3, InverseLaw DEF Units
<1>8. e \in Fr /\ ScalarMul(ScalarMul(x, d), e) = 1
  BY <1>7, InverseLaw DEF Units
<1>9. mn \in Fr
  BY <1>4, <1>7, FieldOperations
<1> HIDE DEF e
<1>10. ScalarMul(d, ScalarMul(x, e)) = 1
  <2>1. ScalarMul(ScalarMul(d, x), e) = ScalarMul(d, ScalarMul(x, e))
    BY <1>7, <1>8, MulLaws
  <2>2. ScalarMul(d, x) = ScalarMul(x, d)
    BY <1>7, MulLaws
  <2>3. QED
    BY <1>8, <2>1, <2>2
<1>11. ScalarMul(x, e) = FieldInverse(d)
  <2>1. ScalarMul(x, e) \in Fr
    BY <1>7, <1>8, FieldOperations
  <2>2. QED
    BY <1>7, <1>10, <2>1
<1>12. ScalarMul(ScalarMul(e, mn), x) = ScalarMul(FieldInverse(d), mn)
  <2> HIDE DEF mn
  <2>1. ScalarMul(e, mn) = ScalarMul(mn, e)
    BY <1>8, <1>9, MulLaws
  <2>2. ScalarMul(ScalarMul(mn, e), x) = ScalarMul(mn, ScalarMul(e, x))
    BY <1>7, <1>8, <1>9, MulLaws
  <2>3. ScalarMul(e, x) = ScalarMul(x, e)
    BY <1>7, <1>8, MulLaws
  <2>4. ScalarMul(mn, FieldInverse(d)) = ScalarMul(FieldInverse(d), mn)
    BY <1>7, <1>9, MulLaws
  <2>5. QED
    BY <1>11, <2>1, <2>2, <2>3, <2>4
<1>13. ScalarMul(FieldInverse(d), mn) = ScalarMul(m, ScalarMul(FieldInverse(d), n))
  <2> DEFINE v == FieldInverse(d)
  <2>1. v \in Fr
    BY <1>7
  <2> HIDE DEF v
  <2>2. ScalarMul(v, ScalarMul(m, n)) = ScalarMul(ScalarMul(v, m), n)
    BY <1>4, <1>7, <2>1, MulLaws
  <2>3. ScalarMul(m, ScalarMul(v, n)) = ScalarMul(ScalarMul(m, v), n)
    BY <1>4, <1>7, <2>1, MulLaws
  <2>4. ScalarMul(m, v) = ScalarMul(v, m)
    BY <1>4, <2>1, MulLaws
  <2>5. QED
    BY <2>2, <2>3, <2>4 DEF v
<1>14. QED
  BY <1>5, <1>6, <1>12, <1>13 DEF e, m, x

(* A single participant has coefficient 1.                                 *)
LEMMA CoefficientAlone ==
    ASSUME NEW i \in Operators
    PROVE  L(i, {i}) = 1
<1>1. {i} \ {i} = {} /\ IsFiniteSet({})
  BY FS_EmptySet
<1>2. Numerator({}) = 1 /\ Denominator(i, {}) = 1
  <2> DEFINE f == [j \in {} |-> Neg(AddressToFr(j))]  g == [j \in {} |-> Difference(i, j)]
  <2>1. ProductOver({}, f) = 1
    BY <1>1, ProductFirst
  <2>2. ProductOver({}, g) = 1
    BY <1>1, ProductFirst
  <2>3. QED
    BY <2>1, <2>2 DEF Numerator, Denominator
<1>3. 1 \in Units /\ 1 \in Fr
  BY FieldOperations DEF Units
<1>4. FieldInverse(1) = 1
  <2>1. ScalarMul(1, 1) = 1
    BY <1>3, MulLaws
  <2>2. QED
    BY <1>3, <2>1, InverseLaw
<1>5. L(i, {i}) = ScalarMul(FieldInverse(Denominator(i, {})), Numerator({}))
  BY <1>1, CoefficientIs
<1>6. QED
  BY <1>2, <1>3, <1>4, <1>5, MulLaws

-----------------------------------------------------------------------------
(* Interpolation at zero, as computed from Lagrange coefficients.          *)

(* The value at zero of what interpolates G at the places P.               *)
AtZero(P, G) == SumOver(P, [i \in P |-> ScalarMul(L(i, P), G[i])])

(* The coefficients are elements, and so is the value.                     *)
LEMMA AtZeroInField ==
    ASSUME NEW P \in SUBSET Operators, NEW G, \A i \in P : G[i] \in Fr
    PROVE  /\ \A i \in P : L(i, P) \in Fr
           /\ AtZero(P, G) \in Fr
<1> DEFINE f == [i \in P |-> ScalarMul(L(i, P), G[i])]
<1>1. \A i \in P : L(i, P) \in Fr
  BY CoefficientInField DEF L
<1>2. \A i \in P : f[i] \in Fr
  BY <1>1, FieldOperations
<1>3. IsFiniteSet(P)
  BY FiniteParts
<1> HIDE DEF f
<1>4. SumOver(P, f) \in Fr
  BY <1>2, <1>3, SumInField
<1>5. QED
  BY <1>1, <1>4 DEF AtZero, f

(* Interpolate is this value.                                              *)
LEMMA InterpolateIs ==
    ASSUME NEW values, DOMAIN values \in SUBSET Operators
    PROVE  Interpolate(values) = AtZero(DOMAIN values, values)
<1> DEFINE P == DOMAIN values
<1>1. \A i \in P : LagrangeCoefficients[P][i] = L(i, P)
  BY DEF LagrangeCoefficients, L
<1>2. [i \in P |-> ScalarMul(LagrangeCoefficients[P][i], values[i])] =
      [i \in P |-> ScalarMul(L(i, P), values[i])]
  BY <1>1
<1>3. QED
  BY <1>2 DEF Interpolate, AtZero

(* It depends on the values at the places only, and is linear.             *)
LEMMA AtZeroSame ==
    ASSUME NEW P \in SUBSET Operators, NEW G, NEW H, \A i \in P : G[i] \in Fr /\ H[i] = G[i]
    PROVE  AtZero(P, H) = AtZero(P, G)
<1>1. [i \in P |-> ScalarMul(L(i, P), G[i])] = [i \in P |-> ScalarMul(L(i, P), H[i])]
  OBVIOUS
<1>2. QED
  BY <1>1 DEF AtZero

(* Scaling the values scales the result.                                   *)
LEMMA AtZeroScaled ==
    ASSUME NEW P \in SUBSET Operators, NEW G, NEW H, NEW c \in Fr,
           \A i \in P : G[i] \in Fr /\ H[i] = ScalarMul(c, G[i])
    PROVE  AtZero(P, H) = ScalarMul(c, AtZero(P, G))
<1> DEFINE f == [i \in P |-> ScalarMul(L(i, P), G[i])]
           h == [i \in P |-> ScalarMul(L(i, P), H[i])]
<1>1. IsFiniteSet(P)
  BY FiniteParts
<1>2. ASSUME NEW i \in P
      PROVE  f[i] \in Fr /\ h[i] = ScalarMul(c, f[i])
  <2> DEFINE l == L(i, P)  v == G[i]
  <2>1. l \in Fr /\ v \in Fr
    BY AtZeroInField
  <2>2. f[i] = ScalarMul(l, v) /\ h[i] = ScalarMul(l, ScalarMul(c, v))
    OBVIOUS
  <2> HIDE DEF l, v, f, h
  <2>3. ScalarMul(l, ScalarMul(c, v)) = ScalarMul(ScalarMul(l, c), v)
    BY <2>1, MulLaws
  <2>4. ScalarMul(c, ScalarMul(l, v)) = ScalarMul(ScalarMul(c, l), v)
    BY <2>1, MulLaws
  <2>5. ScalarMul(c, l) = ScalarMul(l, c) /\ ScalarMul(l, v) \in Fr
    BY <2>1, MulLaws, FieldOperations
  <2>6. QED
    BY <2>2, <2>3, <2>4, <2>5
<1> HIDE DEF f, h
<1>3. SumOver(P, h) = ScalarMul(c, SumOver(P, f))
  BY <1>1, <1>2, SumScaled
<1>4. QED
  BY <1>3 DEF AtZero, f, h

(* Adding the values adds the results.                                     *)
LEMMA AtZeroAdded ==
    ASSUME NEW P \in SUBSET Operators, NEW G, NEW H, NEW K,
           \A i \in P : G[i] \in Fr /\ H[i] \in Fr /\ K[i] = AddPoints(G[i], H[i])
    PROVE  AtZero(P, K) = AddPoints(AtZero(P, G), AtZero(P, H))
<1> DEFINE f == [i \in P |-> ScalarMul(L(i, P), G[i])]
           h == [i \in P |-> ScalarMul(L(i, P), H[i])]
           k == [i \in P |-> ScalarMul(L(i, P), K[i])]
<1>1. IsFiniteSet(P)
  BY FiniteParts
<1>2. ASSUME NEW i \in P
      PROVE  f[i] \in Fr /\ h[i] \in Fr /\ k[i] = AddPoints(f[i], h[i])
  <2> DEFINE l == L(i, P)  v == G[i]  w == H[i]
  <2>1. l \in Fr /\ v \in Fr /\ w \in Fr
    BY AtZeroInField
  <2>2. f[i] = ScalarMul(l, v) /\ h[i] = ScalarMul(l, w) /\ k[i] = ScalarMul(l, AddPoints(v, w))
    OBVIOUS
  <2> HIDE DEF l, v, w, f, h, k
  <2>3. ScalarMul(l, AddPoints(v, w)) = AddPoints(ScalarMul(l, v), ScalarMul(l, w))
    BY <2>1, Distributive
  <2>4. QED
    BY <2>1, <2>2, <2>3, FieldOperations
<1> HIDE DEF f, h, k
<1>3. SumOver(P, k) = AddPoints(SumOver(P, f), SumOver(P, h))
  BY <1>1, <1>2, SumAdded
<1>4. QED
  BY <1>3 DEF AtZero, f, h, k

(* A factor that vanishes at one of the places leaves the interpolation    *)
(* over the others.                                                        *)
LEMMA Shift ==
    ASSUME NEW P \in SUBSET Operators, NEW a \in P, NEW G, NEW H,
           \A i \in P : G[i] \in Fr /\ H[i] = ScalarMul(Difference(i, a), G[i])
    PROVE  AtZero(P, H) = ScalarMul(Neg(AddressToFr(a)), AtZero(P \ {a}, G))
<1> DEFINE Q == P \ {a}
           h == [i \in P |-> ScalarMul(L(i, P), H[i])]
           g == [i \in Q |-> ScalarMul(L(i, Q), G[i])]
           m == Neg(AddressToFr(a))
<1>1. IsFiniteSet(P) /\ IsFiniteSet(Q) /\ Q \in SUBSET Operators
  BY FiniteParts
<1>2. \A i \in Operators : Neg(AddressToFr(i)) \in Fr /\ AddressToFr(i) \in Fr
  BY AddressInField, AddLaws
<1>3. \A i \in P : Difference(i, a) \in Fr
  BY <1>2, FieldOperations DEF Difference
<1>4. Difference(a, a) = 0
  BY <1>2, AddLaws DEF Difference
<1>5. \A i \in P : L(i, P) \in Fr
  BY AtZeroInField
<1>6. \A i \in Q : L(i, Q) \in Fr
  BY <1>1, AtZeroInField
<1>7. \A i \in P : h[i] \in Fr
  BY <1>3, <1>5, FieldOperations
<1>8. h[a] = 0
  BY <1>4, <1>5, MulLaws, FieldOperations
<1>9. ASSUME NEW i \in Q
      PROVE  g[i] \in Fr /\ h[i] = ScalarMul(m, g[i])
  <2> DEFINE l == L(i, P)  d == Difference(i, a)  v == G[i]  e == L(i, Q)
  <2>1. l \in Fr /\ d \in Fr /\ v \in Fr /\ e \in Fr /\ m \in Fr
    BY <1>2, <1>3, <1>5, <1>6
  <2>2. h[i] = ScalarMul(l, ScalarMul(d, v)) /\ g[i] = ScalarMul(e, v)
    OBVIOUS
  <2>3. ScalarMul(l, d) = ScalarMul(m, e)
    BY CoefficientSplit
  <2> HIDE DEF l, d, v, e, m, g, h
  <2>4. ScalarMul(l, ScalarMul(d, v)) = ScalarMul(ScalarMul(l, d), v)
    BY <2>1, MulLaws
  <2>5. ScalarMul(m, ScalarMul(e, v)) = ScalarMul(ScalarMul(m, e), v)
    BY <2>1, MulLaws
  <2>6. QED
    BY <2>1, <2>2, <2>3, <2>4, <2>5, FieldOperations
<1>10. m \in Fr
  BY <1>2
<1> HIDE DEF g, h, m
<1>11. SumOver(P, h) = AddPoints(h[a], SumOver(Q, h))
  BY <1>1, <1>7, SumSplit
<1>12. SumOver(Q, h) = ScalarMul(m, SumOver(Q, g))
  BY <1>1, <1>9, <1>10, SumScaled
<1>13. SumOver(Q, g) \in Fr
  BY <1>1, <1>9, SumInField
<1>14. SumOver(P, h) = ScalarMul(m, SumOver(Q, g))
  BY <1>8, <1>10, <1>11, <1>12, <1>13, AddLaws, FieldOperations
<1>15. QED
  BY <1>14 DEF AtZero, g, h, m

(* The difference of two places through a third one.                       *)
LEMMA DifferenceVia ==
    ASSUME NEW i \in Operators, NEW a \in Operators, NEW b \in Operators
    PROVE  /\ Difference(i, a) \in Fr
           /\ Difference(i, a) = AddPoints(Difference(i, b), Difference(b, a))
<1> DEFINE x == AddressToFr(i)  y == AddressToFr(b)  n == Neg(y)  m == Neg(AddressToFr(a))
<1>1. x \in Fr /\ y \in Fr /\ n \in Fr /\ m \in Fr /\ AddPoints(y, n) = 0
  BY AddressInField, AddLaws
<1> HIDE DEF x, y, n, m
<1>2. AddPoints(x, n) \in Fr /\ AddPoints(y, m) \in Fr /\ AddPoints(x, m) \in Fr
  BY <1>1, FieldOperations
<1>3. AddPoints(AddPoints(x, n), AddPoints(y, m)) = AddPoints(AddPoints(x, m), AddPoints(n, y))
  <2>1. AddPoints(y, m) = AddPoints(m, y)
    BY <1>1, AddLaws
  <2>2. AddPoints(AddPoints(x, n), AddPoints(m, y)) = AddPoints(AddPoints(x, m), AddPoints(n, y))
    BY <1>1, AddFour
  <2>3. QED
    BY <2>1, <2>2
<1>4. AddPoints(n, y) = 0
  BY <1>1, AddLaws
<1>5. AddPoints(x, m) = AddPoints(AddPoints(x, n), AddPoints(y, m))
  BY <1>2, <1>3, <1>4, AddLaws
<1>6. QED
  BY <1>2, <1>5 DEF Difference, x, y, n, m

(* The coefficients of every nonempty set of places add up to one.         *)
LEMMA AtZeroOfOne ==
    ASSUME NEW P \in SUBSET Operators, P # {}, NEW G, \A i \in P : G[i] = 1
    PROVE  AtZero(P, G) = 1
<1> DEFINE One == [i \in Operators |-> 1]
           C == {s \in SUBSET Operators : s # {} => AtZero(s, One) = 1}
<1>0. 1 \in Fr /\ 0 \in Fr
  BY FieldOperations
<1>1. ASSUME NEW s \in SUBSET Operators, \A x \in s : s \ {x} \in C, s # {}
      PROVE  AtZero(s, One) = 1
  <2>1. PICK a \in s : TRUE
    BY <1>1
  <2>2. CASE s = {a}
    <3> DEFINE f == [i \in s |-> ScalarMul(L(i, s), One[i])]
    <3>1. f[a] = 1 /\ \A x \in s : f[x] = f[a]
      BY <1>0, <2>2, CoefficientAlone, MulLaws
    <3> HIDE DEF f
    <3>2. SumOver(s, f) = AddPoints(f[a], SumOver(s \ {a}, f))
      BY <1>0, <3>1, FiniteParts, SumSplit
    <3>3. s \ {a} = {} /\ IsFiniteSet(s \ {a})
      BY <2>2, FiniteParts
    <3>4. SumOver(s \ {a}, f) = 0
      BY <3>3, SumFirst
    <3>5. SumOver(s, f) = 1
      BY <1>0, <3>1, <3>2, <3>4, AddLaws
    <3>6. QED
      BY <3>5 DEF AtZero, f
  <2>3. CASE s # {a}
    <3>1. PICK b \in s : b # a
      BY <2>1, <2>3
    <3> DEFINE G_a == [i \in s |-> Difference(i, a)]
               G_b == [i \in s |-> Difference(i, b)]
               d == Difference(b, a)
               D == [i \in s |-> d]
               w == AtZero(s, One)
               ma == Neg(AddressToFr(a))
               mb == Neg(AddressToFr(b))
    <3>2. /\ \A i \in s : Difference(i, a) \in Fr /\ Difference(i, b) \in Fr
          /\ \A i \in s : Difference(i, a) = AddPoints(Difference(i, b), d)
          /\ d \in Fr
      BY DifferenceVia
    <3>3. d \in Fr \ {0}
      BY <3>1, DifferencesAreUnits DEF Difference, Units
    <3>4. AtZero(s \ {a}, One) = 1 /\ AtZero(s \ {b}, One) = 1
      BY <1>1, <2>1, <3>1
    <3>5. \A i \in s : One[i] = 1
      OBVIOUS
    <3>6. ma \in Fr /\ mb \in Fr /\ AddressToFr(b) \in Fr /\ AddPoints(AddressToFr(b), mb) = 0
      BY AddressInField, AddLaws
    <3> HIDE DEF One, d
    <3>7. AtZero(s, G_a) = ma
      <4>1. \A i \in s : One[i] \in Fr /\ G_a[i] = ScalarMul(Difference(i, a), One[i])
        BY <1>0, <3>2, <3>5, MulLaws
      <4>2. AtZero(s, G_a) = ScalarMul(ma, AtZero(s \ {a}, One))
        BY <4>1, Shift
      <4>3. QED
        BY <3>4, <3>6, <4>2, MulLaws
    <3>8. AtZero(s, G_b) = mb
      <4>1. \A i \in s : One[i] \in Fr /\ G_b[i] = ScalarMul(Difference(i, b), One[i])
        BY <1>0, <3>2, <3>5, MulLaws
      <4>2. AtZero(s, G_b) = ScalarMul(mb, AtZero(s \ {b}, One))
        BY <4>1, Shift
      <4>3. QED
        BY <3>4, <3>6, <4>2, MulLaws
    <3>9. AtZero(s, D) = ScalarMul(d, w)
      <4>1. \A i \in s : One[i] \in Fr /\ D[i] = ScalarMul(d, One[i])
        BY <1>0, <3>2, <3>5, MulLaws
      <4>2. QED
        BY <3>2, <4>1, AtZeroScaled
    <3>10. AtZero(s, G_a) = AddPoints(AtZero(s, G_b), AtZero(s, D))
      <4>1. \A i \in s : G_b[i] \in Fr /\ D[i] \in Fr /\ G_a[i] = AddPoints(G_b[i], D[i])
        BY <3>2
      <4> HIDE DEF G_a, G_b, D
      <4>2. QED
        BY <4>1, AtZeroAdded
    <3>11. w \in Fr
      <4>1. \A i \in s : One[i] \in Fr
        BY <1>0, <3>5
      <4>2. QED
        BY <4>1, AtZeroInField
    <3> HIDE DEF w, ma, mb, G_a, G_b, D
    <3>12. ma = AddPoints(mb, ScalarMul(d, w))
      BY <3>7, <3>8, <3>9, <3>10
    <3>13. ScalarMul(d, w) = d
      <4> DEFINE y == AddressToFr(b)  dw == ScalarMul(d, w)
      <4>1. y \in Fr /\ dw \in Fr /\ AddPoints(y, mb) = 0
        BY <3>2, <3>6, <3>11, FieldOperations
      <4>2. AddPoints(y, AddPoints(mb, dw)) = AddPoints(AddPoints(y, mb), dw)
        BY <3>6, <4>1, AddLaws
      <4>3. d = AddPoints(y, ma)
        BY DEF d, ma, Difference
      <4>4. AddPoints(0, dw) = dw
        BY <4>1, AddLaws
      <4>5. QED
        BY <3>12, <4>1, <4>2, <4>3, <4>4
    <3>14. w = 1
      <4>1. ScalarMul(w, d) = ScalarMul(1, d)
        BY <1>0, <3>2, <3>11, <3>13, MulLaws
      <4>2. QED
        BY <1>0, <3>3, <3>11, <4>1, Cancel DEF ScalarMul
    <3>15. QED
      BY <3>14 DEF w
  <2>4. QED
    BY <2>2, <2>3
<1>2. \A s \in SUBSET Operators : (\A x \in s : s \ {x} \in C) => s \in C
  BY <1>1
<1> HIDE DEF C
<1>3. \A s \in SUBSET Operators : s \in C
  BY <1>2, FiniteOperators, AllSubsets
<1>4. AtZero(P, One) = 1
  BY <1>3 DEF C
<1>5. AtZero(P, G) = AtZero(P, One)
  <2>1. \A i \in P : One[i] \in Fr /\ G[i] = One[i]
    BY <1>0
  <2> HIDE DEF One
  <2>2. QED
    BY <2>1, AtZeroSame
<1>6. QED
  BY <1>4, <1>5

-----------------------------------------------------------------------------
(* What a threshold of values determines.                                  *)

(* The functions of the places that any t values determine at zero: the    *)
(* ones that the polynomials of degree below t compute.                    *)
Determined(t) ==
    {F \in [Places -> Fr] : \A P \in SUBSET Operators :
        Cardinality(P) >= t => AtZero(P, F) = F[0]}

(* An operator's place, and that of the secret.                            *)
LEMMA PlacesOfOperators == Operators \subseteq Places /\ 0 \in Places
BY CryptoAssumption DEF Operators, Places

(* Functions that more values determine.                                   *)
LEMMA DeterminedMore ==
    ASSUME NEW t \in Nat, NEW u \in Nat, t <= u
    PROVE  Determined(t) \subseteq Determined(u)
<1>1. \A P \in SUBSET Operators : Cardinality(P) \in Nat
  BY FiniteParts, FS_CardinalityType
<1>2. QED
  BY <1>1 DEF Determined

(* Zero is determined by nothing, a constant by one value.                 *)
LEMMA DeterminedZero == [x \in Places |-> 0] \in Determined(0)
<1> DEFINE F == [x \in Places |-> 0]
<1>1. F \in [Places -> Fr] /\ 0 \in Fr
  BY FieldOperations
<1>2. ASSUME NEW P \in SUBSET Operators
      PROVE  AtZero(P, F) = F[0]
  <2>1. \A i \in P : F[i] \in Fr /\ F[i] = ScalarMul(0, F[i])
    BY <1>1, PlacesOfOperators, MulLaws
  <2>2. F[0] = 0
    BY PlacesOfOperators
  <2> HIDE DEF F
  <2>3. AtZero(P, F) = ScalarMul(0, AtZero(P, F))
    BY <1>1, <2>1, AtZeroScaled
  <2>4. AtZero(P, F) \in Fr
    BY <2>1, AtZeroInField
  <2>5. QED
    BY <2>2, <2>3, <2>4, MulLaws
<1>3. QED
  BY <1>1, <1>2 DEF Determined

(* A constant function is determined by one value.                         *)
LEMMA DeterminedConstant ==
    ASSUME NEW c \in Fr
    PROVE  [x \in Places |-> c] \in Determined(1)
<1> DEFINE F == [x \in Places |-> c]
<1>1. F \in [Places -> Fr] /\ 1 \in Fr
  BY FieldOperations
<1>2. ASSUME NEW P \in SUBSET Operators, Cardinality(P) >= 1
      PROVE  AtZero(P, F) = F[0]
  <2> DEFINE One == [i \in P |-> 1]
  <2>1. \A i \in P : F[i] = ScalarMul(c, 1) /\ F[i] = c
    BY <1>1, PlacesOfOperators, MulLaws
  <2>2. F[0] = c
    BY PlacesOfOperators
  <2>3. P # {}
    BY <1>2, FS_EmptySet
  <2>4. \A i \in P : One[i] = 1 /\ One[i] \in Fr /\ F[i] = ScalarMul(c, One[i])
    BY <1>1, <2>1
  <2> HIDE DEF F, One
  <2>5. AtZero(P, One) = 1
    BY <2>3, <2>4, AtZeroOfOne
  <2>6. AtZero(P, F) = ScalarMul(c, AtZero(P, One))
    BY <2>4, AtZeroScaled
  <2>7. QED
    BY <2>2, <2>5, <2>6, MulLaws
<1>3. QED
  BY <1>1, <1>2 DEF Determined

(* Sums, multiples, and multiples by the place.                            *)
LEMMA DeterminedAdded ==
    ASSUME NEW t, NEW F \in Determined(t), NEW G \in Determined(t)
    PROVE  [x \in Places |-> AddPoints(F[x], G[x])] \in Determined(t)
<1> DEFINE H == [x \in Places |-> AddPoints(F[x], G[x])]
<1>1. F \in [Places -> Fr] /\ G \in [Places -> Fr]
  BY DEF Determined
<1>2. H \in [Places -> Fr]
  BY <1>1, FieldOperations
<1>3. ASSUME NEW P \in SUBSET Operators, Cardinality(P) >= t
      PROVE  AtZero(P, H) = H[0]
  <2>1. /\ H[0] = AddPoints(F[0], G[0])
        /\ \A i \in P : F[i] \in Fr /\ G[i] \in Fr /\ H[i] = AddPoints(F[i], G[i])
    BY <1>1, PlacesOfOperators
  <2> HIDE DEF H
  <2>2. AtZero(P, H) = AddPoints(AtZero(P, F), AtZero(P, G))
    BY <2>1, AtZeroAdded
  <2>3. AtZero(P, F) = F[0] /\ AtZero(P, G) = G[0]
    BY <1>3 DEF Determined
  <2>4. QED
    BY <2>1, <2>2, <2>3
<1>4. QED
  BY <1>2, <1>3 DEF Determined

(* A multiple of a determined function is determined.                      *)
LEMMA DeterminedScaled ==
    ASSUME NEW t, NEW F \in Determined(t), NEW c \in Fr
    PROVE  [x \in Places |-> ScalarMul(c, F[x])] \in Determined(t)
<1> DEFINE H == [x \in Places |-> ScalarMul(c, F[x])]
<1>1. F \in [Places -> Fr]
  BY DEF Determined
<1>2. H \in [Places -> Fr]
  BY <1>1, FieldOperations
<1>3. ASSUME NEW P \in SUBSET Operators, Cardinality(P) >= t
      PROVE  AtZero(P, H) = H[0]
  <2>1. /\ H[0] = ScalarMul(c, F[0])
        /\ \A i \in P : F[i] \in Fr /\ H[i] = ScalarMul(c, F[i])
    BY <1>1, PlacesOfOperators
  <2> HIDE DEF H
  <2>2. AtZero(P, H) = ScalarMul(c, AtZero(P, F))
    BY <2>1, AtZeroScaled
  <2>3. AtZero(P, F) = F[0]
    BY <1>3 DEF Determined
  <2>4. QED
    BY <2>1, <2>2, <2>3
<1>4. QED
  BY <1>2, <1>3 DEF Determined

(* A determined function times the place needs one value more.             *)
LEMMA DeterminedShifted ==
    ASSUME NEW t \in Nat, NEW F \in Determined(t)
    PROVE  [x \in Places |-> ScalarMul(F[x], AddressToFr(x))] \in Determined(t + 1)
<1> DEFINE H == [x \in Places |-> ScalarMul(F[x], AddressToFr(x))]
<1>1. F \in [Places -> Fr] /\ \A x \in Places : AddressToFr(x) = x /\ x \in Fr
  BY PlaceInField DEF Determined
<1>2. H \in [Places -> Fr]
  BY <1>1, FieldOperations
<1>3. ASSUME NEW P \in SUBSET Operators, Cardinality(P) >= t + 1
      PROVE  AtZero(P, H) = H[0]
  <2>1. H[0] = 0
    BY <1>1, PlacesOfOperators, MulLaws
  <2>2. IsFiniteSet(P) /\ Cardinality(P) \in Nat
    BY FiniteParts, FS_CardinalityType
  <2>3. PICK a \in P : TRUE
    BY <1>3, <2>2, FS_EmptySet
  <2> DEFINE x == AddressToFr(a)
             m == Neg(x)
             S == [i \in P |-> ScalarMul(Difference(i, a), F[i])]
             R == [i \in P |-> ScalarMul(x, F[i])]
  <2>4. x \in Fr /\ m \in Fr /\ AddPoints(x, m) = 0
    BY AddressInField, AddLaws
  <2>5. \A i \in P : F[i] \in Fr
    BY <1>1, PlacesOfOperators
  <2>6. F[0] \in Fr
    BY <1>1, PlacesOfOperators
  <2>7. AtZero(P, S) = ScalarMul(m, F[0])
    <3>0. \A i \in P : F[i] \in Fr /\ S[i] = ScalarMul(Difference(i, a), F[i])
      BY <2>5
    <3> HIDE DEF S
    <3>1. AtZero(P, S) = ScalarMul(m, AtZero(P \ {a}, F))
      BY <3>0, Shift
    <3>2. Cardinality(P \ {a}) >= t
      <4>1. Cardinality(P \ {a}) = Cardinality(P) - 1
        BY <2>2, FS_RemoveElement
      <4>2. QED
        BY <1>3, <2>2, <4>1
    <3>3. AtZero(P \ {a}, F) = F[0]
      BY <3>2 DEF Determined
    <3>4. QED
      BY <3>1, <3>3
  <2>8. AtZero(P, R) = ScalarMul(x, F[0])
    <3>1. AtZero(P, R) = ScalarMul(x, AtZero(P, F))
      BY <2>4, <2>5, AtZeroScaled
    <3>2. AtZero(P, F) = F[0]
      BY <1>3, <2>2 DEF Determined
    <3>3. QED
      BY <3>1, <3>2
  <2>9. ASSUME NEW i \in P
        PROVE  S[i] \in Fr /\ R[i] \in Fr /\ H[i] = AddPoints(S[i], R[i])
    <3> DEFINE y == AddressToFr(i)  d == Difference(i, a)  v == F[i]
    <3>1. y \in Fr /\ d \in Fr /\ v \in Fr
      BY <2>5, AddressInField, DifferenceVia
    <3>2. S[i] = ScalarMul(d, v) /\ R[i] = ScalarMul(x, v) /\ H[i] = ScalarMul(v, y)
      BY PlacesOfOperators
    <3>3. d = AddPoints(y, m)
      BY DEF Difference
    <3> HIDE DEF S, R, H, y, d, v, x, m
    <3>4. AddPoints(d, x) = y
      <4>1. AddPoints(AddPoints(y, m), x) = AddPoints(y, AddPoints(m, x))
        BY <2>4, <3>1, AddLaws
      <4>2. AddPoints(m, x) = 0
        BY <2>4, AddLaws
      <4>3. QED
        BY <3>1, <3>3, <4>1, <4>2, AddLaws
    <3>5. ScalarMul(AddPoints(d, x), v) = AddPoints(ScalarMul(d, v), ScalarMul(x, v))
      BY <2>4, <3>1, Distributive
    <3>6. QED
      BY <2>4, <3>1, <3>2, <3>4, <3>5, MulLaws, FieldOperations
  <2> HIDE DEF S, R, H, x, m
  <2>10. AtZero(P, H) = AddPoints(AtZero(P, S), AtZero(P, R))
    BY <2>9, AtZeroAdded
  <2>11. AddPoints(ScalarMul(m, F[0]), ScalarMul(x, F[0])) = 0
    <3>1. ScalarMul(AddPoints(m, x), F[0]) = AddPoints(ScalarMul(m, F[0]), ScalarMul(x, F[0]))
      BY <2>4, <2>6, Distributive
    <3>2. AddPoints(m, x) = 0
      BY <2>4, AddLaws
    <3>3. QED
      BY <2>6, <3>1, <3>2, MulLaws
  <2>12. QED
    BY <2>1, <2>7, <2>8, <2>10, <2>11
<1>4. QED
  BY <1>2, <1>3 DEF Determined

(* A sum of determined functions.                                          *)
LEMMA DeterminedSum ==
    ASSUME NEW t \in Nat, NEW D, IsFiniteSet(D), NEW fam, \A d \in D : fam[d] \in Determined(t)
    PROVE  [x \in Places |-> SumOver(D, [d \in D |-> fam[d][x]])] \in Determined(t)
<1> DEFINE Sum_(s) == [x \in Places |-> SumOver(s, [d \in s |-> fam[d][x]])]
           C == {s \in SUBSET D : Sum_(s) \in Determined(t)}
<1>1. \A s \in SUBSET D : IsFiniteSet(s)
  BY FS_Subset
<1>2. \A d \in D : fam[d] \in [Places -> Fr]
  BY DEF Determined
<1>3. ASSUME NEW s \in SUBSET D, \A y \in s : s \ {y} \in C
      PROVE  Sum_(s) \in Determined(t)
  <2>1. CASE s = {}
    <3>1. ASSUME NEW x \in Places
          PROVE  SumOver(s, [d \in s |-> fam[d][x]]) = 0
      <4> DEFINE f == [d \in s |-> fam[d][x]]
      <4>1. \A d \in s : f[d] \in Fr
        BY <2>1
      <4>2. QED
        BY <1>1, <2>1, <4>1, SumFirst
    <3>2. Sum_(s) = [x \in Places |-> 0]
      BY <3>1
    <3>3. Determined(0) \subseteq Determined(t)
      <4> DEFINE none == 0
      <4>1. none \in Nat /\ none <= t
        OBVIOUS
      <4> HIDE DEF none
      <4>2. Determined(none) \subseteq Determined(t)
        BY <4>1, DeterminedMore
      <4>3. QED
        BY <4>2 DEF none
    <3>4. QED
      BY <3>2, <3>3, DeterminedZero
  <2>2. CASE s # {}
    <3>1. PICK y \in s : TRUE
      BY <2>2
    <3> DEFINE r == s \ {y}
               F == Sum_(r)
               G == fam[y]
    <3>2. F \in Determined(t) /\ G \in Determined(t)
      BY <1>3, <3>1
    <3>3. ASSUME NEW x \in Places
          PROVE  SumOver(s, [d \in s |-> fam[d][x]]) = AddPoints(G[x], F[x])
      <4> DEFINE f == [d \in s |-> fam[d][x]]  g == [d \in r |-> fam[d][x]]
      <4>1. \A d \in s : f[d] \in Fr
        BY <1>2
      <4>2. \A d \in r : g[d] \in Fr /\ f[d] = g[d]
        BY <1>2
      <4>3. f[y] = G[x] /\ F[x] = SumOver(r, g)
        BY <3>1
      <4>4. IsFiniteSet(s) /\ IsFiniteSet(r)
        BY <1>1
      <4> HIDE DEF f, g, r, F, G
      <4>5. SumOver(s, f) = AddPoints(f[y], SumOver(s \ {y}, f))
        BY <4>1, <4>4, SumSplit
      <4>6. SumOver(r, f) = SumOver(r, g)
        BY <4>2, <4>4, SumSame
      <4>7. SumOver(s, f) = AddPoints(G[x], F[x])
        BY <4>3, <4>5, <4>6 DEF r
      <4>8. QED
        BY <4>7 DEF f
    <3>4. Sum_(s) = [x \in Places |-> AddPoints(G[x], F[x])]
      <4> HIDE DEF F, G
      <4>1. QED
        BY <3>3
    <3> HIDE DEF F, G
    <3>5. QED
      BY <3>2, <3>4, DeterminedAdded
  <2>3. QED
    BY <2>1, <2>2
<1>4. \A s \in SUBSET D : (\A y \in s : s \ {y} \in C) => s \in C
  BY <1>3
<1> HIDE DEF C
<1>5. \A s \in SUBSET D : s \in C
  BY <1>4, AllSubsets
<1>6. D \in C
  BY <1>5
<1>7. QED
  BY <1>6 DEF C

-----------------------------------------------------------------------------
(* Polynomials are determined by as many values as they have coefficients. *)

(* The least number of an interval, and what is left without it.           *)
LEMMA IntervalMin ==
    ASSUME NEW k \in Nat, NEW n \in Nat, k <= n
    PROVE  Min(k..n) = k /\ (k..n) \ {k} = (k + 1)..n
<1> DEFINE S == k..n
<1>1. S \in SUBSET Nat /\ k \in S /\ \A y \in S : k <= y
  OBVIOUS
<1>2. Min(S) \in S /\ \A y \in S : Min(S) <= y
  <2>1. \E x \in S : \A y \in S : x <= y
    BY <1>1
  <2>2. QED
    BY <2>1, Zenon DEF Min
<1>3. Min(S) = k
  BY <1>1, <1>2
<1>4. QED
  BY <1>3

(* What a polynomial computes is determined by as many values as it has    *)
(* coefficients; at zero it is its constant term.                          *)
LEMMA PolynomialDetermined ==
    ASSUME NEW poly \in Seq(Fr), NEW t \in Nat, Len(poly) <= t
    PROVE  [x \in Places |-> EvaluatePolynomial(poly, x)] \in Determined(t)
<1> DEFINE n == Len(poly)
           S == 1..n
           Suffix(j) == (n - j + 1)..n
           V(j) == [x \in Places |-> ValueFn(poly, x)[Suffix(j)]]
           T == {j \in Nat : j <= n => V(j) \in Determined(j)}
<1>1. n \in Nat /\ DOMAIN poly = S /\ \A k \in S : poly[k] \in Fr
  OBVIOUS
<1>2. ASSUME NEW x \in Places
      PROVE  /\ EvaluatePolynomial(poly, x) = ValueFn(poly, x)[S]
             /\ \A s \in SUBSET S : ValueFn(poly, x)[s] \in Fr
             /\ \A s \in SUBSET S : ValueFn(poly, x)[s] = ValueStep(ValueFn(poly, x), poly, x, s)
  BY <1>1, ValueIsFold
<1> HIDE DEF n
<1>3. 0 \in T
  <2>1. Suffix(0) = {} /\ {} \in SUBSET S
    BY <1>1
  <2>2. ASSUME NEW x \in Places
        PROVE  ValueFn(poly, x)[Suffix(0)] = 0
    <3>1. ValueFn(poly, x)[{}] = ValueStep(ValueFn(poly, x), poly, x, {})
      BY <1>2, <2>1
    <3>2. QED
      BY <2>1, <3>1 DEF ValueStep
  <2>3. V(0) = [x \in Places |-> 0]
    BY <2>2
  <2>4. QED
    BY <2>3, DeterminedZero
<1>4. ASSUME NEW j \in T
      PROVE  j + 1 \in T
  <2> SUFFICES ASSUME j + 1 <= n
               PROVE  V(j + 1) \in Determined(j + 1)
    BY <1>4
  <2> DEFINE k == n - j
             c == poly[k]
             F == V(j)
             G == [x \in Places |-> ScalarMul(F[x], AddressToFr(x))]
             K == [x \in Places |-> c]
  <2>1. j \in Nat /\ k \in S /\ k \in Nat /\ k <= n /\ n - (j + 1) + 1 = k /\ n - j + 1 = k + 1
    BY <1>1, <1>4
  <2>2. c \in Fr
    BY <1>1, <2>1
  <2>3. F \in Determined(j)
    BY <1>1, <1>4
  <2>4. Suffix(j + 1) = k..n /\ Suffix(j) = (k + 1)..n
    BY <2>1
  <2>5. Min(k..n) = k /\ (k..n) \ {k} = (k + 1)..n
    <3> HIDE DEF k
    <3>1. QED
      BY <1>1, <2>1, IntervalMin
  <2>6. k..n \in SUBSET S /\ k..n # {}
    <3> HIDE DEF k, T
    <3>1. k \in k..n
      BY <1>1, <2>1
    <3>2. \A i \in k..n : i \in S
      BY <1>1, <2>1
    <3>3. QED
      BY <3>1, <3>2
  <2>7. ASSUME NEW x \in Places
        PROVE  ValueFn(poly, x)[Suffix(j + 1)] = AddPoints(c, ScalarMul(F[x], AddressToFr(x)))
    <3>1. F[x] = ValueFn(poly, x)[(k + 1)..n]
      BY <2>4
    <3> HIDE DEF k, F
    <3>2. ValueFn(poly, x)[k..n] = ValueStep(ValueFn(poly, x), poly, x, k..n)
      BY <1>2, <2>6
    <3>3. ValueStep(ValueFn(poly, x), poly, x, k..n) =
          AddPoints(poly[Min(k..n)], ScalarMul(ValueFn(poly, x)[(k..n) \ {Min(k..n)}], AddressToFr(x)))
      BY <2>6 DEF ValueStep
    <3>4. QED
      BY <2>4, <2>5, <3>1, <3>2, <3>3
  <2> HIDE DEF F, k, c
  <2>8. G \in Determined(j + 1)
    BY <2>1, <2>3, DeterminedShifted
  <2>9. K \in Determined(j + 1)
    <3> DEFINE one == 1  up == j + 1
    <3>1. one \in Nat /\ up \in Nat /\ one <= up
      BY <2>1
    <3>2. K \in Determined(one)
      BY <2>2, DeterminedConstant
    <3> HIDE DEF one, up, K
    <3>3. K \in Determined(up)
      BY <3>1, <3>2, DeterminedMore
    <3>4. QED
      BY <3>3 DEF up
  <2>10. V(j + 1) = [x \in Places |-> AddPoints(K[x], G[x])]
    BY <2>7
  <2> HIDE DEF G, K
  <2>11. [x \in Places |-> AddPoints(K[x], G[x])] \in Determined(j + 1)
    BY <2>8, <2>9, DeterminedAdded
  <2>12. QED
    BY <2>10, <2>11
<1>5. T \in SUBSET Nat
  OBVIOUS
<1>6. V(n) = [x \in Places |-> EvaluatePolynomial(poly, x)]
  <2>1. Suffix(n) = S
    BY <1>1
  <2>2. QED
    BY <1>2, <2>1
<1> HIDE DEF T
<1>7. T = Nat
  BY <1>3, <1>4, <1>5, AllNumbers
<1> HIDE DEF V
<1>8. V(n) \in Determined(n)
  BY <1>1, <1>7 DEF T
<1>9. n <= t
  BY DEF n
<1>10. Determined(n) \subseteq Determined(t)
  BY <1>1, <1>9, DeterminedMore
<1>11. QED
  BY <1>6, <1>8, <1>10

(* The constant term.                                                      *)
LEMMA PolynomialAtZero ==
    ASSUME NEW poly \in Seq(Fr), Len(poly) >= 1
    PROVE  EvaluatePolynomial(poly, 0) = poly[1]
<1> DEFINE n == Len(poly)
           S == 1..n
           g == ValueFn(poly, 0)
<1>1. n \in Nat /\ 1 <= n /\ DOMAIN poly = S /\ poly[1] \in Fr /\ S # {}
  OBVIOUS
<1>2. /\ EvaluatePolynomial(poly, 0) = g[S]
      /\ \A s \in SUBSET S : g[s] \in Fr
      /\ \A s \in SUBSET S : g[s] = ValueStep(g, poly, 0, s)
  BY <1>1, PlacesOfOperators, ValueIsFold
<1>3. Min(S) = 1
  BY <1>1, IntervalMin
<1>4. AddressToFr(0) = 0
  BY PlacesOfOperators, PlaceInField
<1> HIDE DEF g, n
<1>5. g[S] = AddPoints(poly[1], ScalarMul(g[S \ {1}], 0))
  <2>1. g[S] = ValueStep(g, poly, 0, S)
    BY <1>2
  <2>2. QED
    BY <1>1, <1>3, <1>4, <2>1 DEF ValueStep
<1>6. g[S \ {1}] \in Fr
  BY <1>2
<1>7. QED
  BY <1>1, <1>2, <1>5, <1>6, MulLaws, AddLaws

(* Commitments to a polynomial, and the share that they verify.            *)
LEMMA CommitmentsAre ==
    ASSUME NEW poly \in Seq(Fr)
    PROVE  CreateCommitments(poly) = poly
<1>1. \A k \in 1..Len(poly) : poly[k] \in Fr
  OBVIOUS
<1>2. \A k \in 1..Len(poly) : ScalarMul(1, poly[k]) = poly[k]
  BY <1>1, MulLaws
<1>3. QED
  BY <1>2 DEF CreateCommitments

(* The check against the commitments accepts the dealt value only.         *)
LEMMA VerifiedShareIs ==
    ASSUME NEW poly \in Seq(Fr), NEW op \in Operators, NEW share \in Fr,
           VerifyShare(op, share, CreateCommitments(poly))
    PROVE  share = EvaluatePolynomial(poly, op) /\ Len(poly) >= 1
<1>1. CreateCommitments(poly) = poly
  BY CommitmentsAre
<1>2. ScalarMul(1, share) = share
  BY MulLaws
<1>3. poly # <<>> /\ share = EvaluatePolynomial(poly, op)
  BY <1>1, <1>2 DEF VerifyShare
<1>4. QED
  BY <1>3

-----------------------------------------------------------------------------
(* Shamir's scheme, and the rounds of SecretSharing.                       *)

(* Shamir's scheme as pkg/crypto computes it: any threshold or more of the *)
(* shares GenerateShares hands out reconstruct the constant term with      *)
(* RecoverSecret, whichever operators hold them.                           *)
THEOREM SharesReconstruct ==
    ASSUME NEW poly \in Seq(Fr), Len(poly) >= 1, NEW P \in SUBSET Operators,
           Cardinality(P) >= Len(poly)
    PROVE  RecoverSecret([op \in P |-> GenerateShares(poly)[op]]) = poly[1]
<1> DEFINE F == [x \in Places |-> EvaluatePolynomial(poly, x)]
           shares == [op \in P |-> GenerateShares(poly)[op]]
<1>1. F \in Determined(Len(poly)) /\ Len(poly) \in Nat
  BY PolynomialDetermined
<1>2. F[0] = poly[1]
  BY PlacesOfOperators, PolynomialAtZero
<1>3. AtZero(P, F) = F[0]
  BY <1>1 DEF Determined
<1>4. \A op \in P : shares[op] = F[op] /\ F[op] \in Fr
  BY PlacesOfOperators, ValueInField DEF GenerateShares
<1>5. DOMAIN shares = P
  OBVIOUS
<1> HIDE DEF F, shares
<1>6. Interpolate(shares) = AtZero(P, shares)
  BY <1>5, InterpolateIs
<1>7. AtZero(P, shares) = AtZero(P, F)
  BY <1>4, AtZeroSame
<1>8. QED
  BY <1>2, <1>3, <1>6, <1>7 DEF RecoverSecret, shares

-----------------------------------------------------------------------------
(* What dealers with polynomials agree on: the sum of a DKG, and the       *)
(* interpolation of a reshare.                                             *)
Added(D, polys) ==
    [x \in Places |-> SumOver(D, [d \in D |-> EvaluatePolynomial(polys[d], x)])]
Interpolated(D, polys) ==
    [x \in Places |-> AtZero(D, [d \in D |-> EvaluatePolynomial(polys[d], x)])]

(* Every dealer has a polynomial of t coefficients.                        *)
Dealing(D, polys, t) ==
    /\ t \in Nat \ {0} /\ D \in SUBSET Operators
    /\ \A d \in D : polys[d] \in Seq(Fr) /\ Len(polys[d]) = t

(* A dealer's polynomial as a function of the place.                       *)
LEMMA DealtPolynomial ==
    ASSUME NEW D, NEW polys, NEW t, Dealing(D, polys, t), NEW d \in D,
           NEW F, F = [x \in Places |-> EvaluatePolynomial(polys[d], x)]
    PROVE  F \in Determined(t) /\ F[0] = polys[d][1] /\ polys[d][1] \in Fr
<1>1. t \in Nat \ {0} /\ polys[d] \in Seq(Fr) /\ Len(polys[d]) = t
  BY DEF Dealing
<1>2. F \in Determined(t)
  BY <1>1, PolynomialDetermined
<1>3. EvaluatePolynomial(polys[d], 0) = polys[d][1] /\ polys[d][1] \in Fr
  BY <1>1, PolynomialAtZero
<1>4. QED
  BY <1>2, <1>3, PlacesOfOperators

(* The sum is a sharing of the sum of the constant terms.                  *)
LEMMA AddedDetermined ==
    ASSUME NEW D, NEW polys, NEW t, Dealing(D, polys, t)
    PROVE  /\ Added(D, polys) \in Determined(t)
           /\ Added(D, polys)[0] = SumOver(D, [d \in D |-> polys[d][1]])
<1> DEFINE fam == [d \in D |-> [x \in Places |-> EvaluatePolynomial(polys[d], x)]]
           G == [x \in Places |-> SumOver(D, [d \in D |-> fam[d][x]])]
<1>1. t \in Nat /\ IsFiniteSet(D)
  BY FiniteParts DEF Dealing
<1>2. ASSUME NEW d \in D
      PROVE  fam[d] \in Determined(t) /\ fam[d][0] = polys[d][1]
  <2> DEFINE F == [x \in Places |-> EvaluatePolynomial(polys[d], x)]
  <2>1. F \in Determined(t) /\ F[0] = polys[d][1]
    BY DealtPolynomial
  <2>2. fam[d] = F
    OBVIOUS
  <2> HIDE DEF fam, F
  <2>3. QED
    BY <2>1, <2>2
<1>3. Added(D, polys) = G
  BY DEF Added
<1>4. G[0] = SumOver(D, [d \in D |-> fam[d][0]])
  BY PlacesOfOperators
<1> HIDE DEF fam
<1>5. G \in Determined(t)
  BY <1>1, <1>2, DeterminedSum
<1>6. [d \in D |-> fam[d][0]] = [d \in D |-> polys[d][1]]
  BY <1>2
<1> HIDE DEF G
<1>7. QED
  BY <1>3, <1>4, <1>5, <1>6

(* The interpolation is a sharing of what the constant terms interpolate to.*)
LEMMA InterpolatedDetermined ==
    ASSUME NEW D, NEW polys, NEW t, Dealing(D, polys, t)
    PROVE  /\ Interpolated(D, polys) \in Determined(t)
           /\ Interpolated(D, polys)[0] = AtZero(D, [d \in D |-> polys[d][1]])
<1> DEFINE dealt == [d \in D |-> [x \in Places |-> EvaluatePolynomial(polys[d], x)]]
           fam == [d \in D |-> [x \in Places |-> ScalarMul(L(d, D), dealt[d][x])]]
           G == [x \in Places |-> SumOver(D, [d \in D |-> fam[d][x]])]
<1>1. t \in Nat /\ D \in SUBSET Operators /\ IsFiniteSet(D)
  BY FiniteParts DEF Dealing
<1>2. ASSUME NEW d \in D
      PROVE  fam[d] \in Determined(t) /\ dealt[d][0] = polys[d][1]
  <2> DEFINE F == [x \in Places |-> EvaluatePolynomial(polys[d], x)]
             l == L(d, D)
  <2>1. F \in Determined(t) /\ F[0] = polys[d][1]
    BY DealtPolynomial
  <2>2. dealt[d] = F /\ fam[d] = [x \in Places |-> ScalarMul(l, F[x])]
    OBVIOUS
  <2>3. l \in Fr
    BY <1>1, CoefficientInField DEF L
  <2> HIDE DEF dealt, fam, F, l
  <2>4. [x \in Places |-> ScalarMul(l, F[x])] \in Determined(t)
    BY <2>1, <2>3, DeterminedScaled
  <2>5. QED
    BY <2>1, <2>2, <2>4
<1>3. ASSUME NEW x \in Places
      PROVE  AtZero(D, [d \in D |-> EvaluatePolynomial(polys[d], x)]) =
             SumOver(D, [d \in D |-> fam[d][x]])
  <2> DEFINE values == [d \in D |-> EvaluatePolynomial(polys[d], x)]
  <2>1. [d \in D |-> ScalarMul(L(d, D), values[d])] = [d \in D |-> fam[d][x]]
    OBVIOUS
  <2> HIDE DEF fam, values
  <2>2. AtZero(D, values) = SumOver(D, [d \in D |-> fam[d][x]])
    BY <2>1 DEF AtZero
  <2>3. QED
    BY <2>2 DEF values
<1>4. Interpolated(D, polys) = G
  <2> HIDE DEF fam
  <2>1. QED
    BY <1>3 DEF Interpolated
<1>5. Interpolated(D, polys)[0] = AtZero(D, [d \in D |-> dealt[d][0]])
  BY PlacesOfOperators DEF Interpolated
<1> HIDE DEF fam, dealt
<1>6. G \in Determined(t)
  BY <1>1, <1>2, DeterminedSum
<1>7. [d \in D |-> dealt[d][0]] = [d \in D |-> polys[d][1]]
  BY <1>2
<1> HIDE DEF G
<1>8. QED
  BY <1>4, <1>5, <1>6, <1>7

-----------------------------------------------------------------------------
(* The invariant of the rounds. Operators may finalize on different dealer *)
(* sets, so there is not one sharing per version but one per version and   *)
(* dealer set: the active keys that name both are values of one function F *)
(* that a threshold of values determines, and a key that was carried       *)
(* forward or summed up, rather than fetched by a joining operator, is its *)
(* value at zero. c are the parts of it that the dealers publish. For the  *)
(* current version F is computed from the deals of the round; for earlier  *)
(* versions, whose deals are gone, it exists.                              *)
Keys == [version : Nat, dealers : SUBSET Operators, joined : BOOLEAN, share : Fr,
         commitments : Seq(Fr), mpk : Fr \cup {NoKey}]

SharingTyped ==
    /\ version \in Nat /\ pending \in SUBSET Operators
    /\ active \in [Operators -> Keys \cup {NoKey}]
    /\ DOMAIN deals \in SUBSET Operators
    /\ \A d \in DOMAIN deals : deals[d] \in Seq(Fr) /\ Len(deals[d]) = ThresholdOf(version)
    /\ \A op \in Operators : active[op] # NoKey => active[op].version \in 1..version

(* The sharing that the dealers D of the current round agree on, and the   *)
(* parts of its secret that they publish.                                  *)
Sharing(D) == IF version = 1 THEN Added(D, deals) ELSE Interpolated(D, deals)
Parts(D) ==
    [d \in D |-> IF version = 1 THEN deals[d][1]
                 ELSE ScalarMul(Sharing(D)[d], L(d, D))]

(* An operator's key is its value of the sharing F with the parts c.       *)
Agrees(op, key, F, c) ==
    /\ key.share = F[op]
    /\ op \in key.dealers => key.commitments[1] = c[op]
    /\ ~key.joined => key.mpk = F[0]

(* A key of the current version, from the dealers it names.                *)
Fits(op, key) ==
    /\ key.dealers \in SUBSET DOMAIN deals
    /\ Cardinality(key.dealers) >= ThresholdOf(version)
    /\ Agrees(op, key, Sharing(key.dealers), Parts(key.dealers))

(* The keys of version v from the dealers D share F.                       *)
OneSharing(keys, v, D, F, c) ==
    /\ F \in Determined(ThresholdOf(v)) /\ c \in [D -> Fr] /\ SumOver(D, c) = F[0]
    /\ \A p \in Operators :
          keys[p] # NoKey /\ keys[p].version = v /\ keys[p].dealers = D =>
              Agrees(p, keys[p], F, c)

CurrentKeys ==
    \A op \in Operators :
        active[op] # NoKey /\ active[op].version = version => Fits(op, active[op])

EarlierKeys ==
    \A op \in Operators :
        active[op] # NoKey /\ active[op].version # version =>
            \E F, c : OneSharing(active, active[op].version, active[op].dealers, F, c)

SharingInv == SharingTyped /\ CurrentKeys /\ EarlierKeys

(* Thresholds are positive, and no larger for fewer operators.             *)
LEMMA Thresholds ==
    ASSUME NEW v
    PROVE  /\ ThresholdOf(v) \in Nat \ {0}
           /\ ThresholdOf(v) <= CalculateThreshold(NumOperators)
<1>1. Members(v) \in SUBSET Operators /\ Members(v) # {}
  BY SharingAssumption, CryptoAssumption DEF Members, Operators
<1>2. IsFiniteSet(Members(v)) /\ Cardinality(Members(v)) <= NumOperators
  BY <1>1, FiniteOperators, FS_Subset
<1>3. Cardinality(Members(v)) \in Nat \ {0}
  BY <1>1, <1>2, FS_CardinalityType, FS_EmptySet
<1>4. NumOperators \in Nat
  BY CryptoAssumption
<1>5. QED
  BY <1>2, <1>3, <1>4 DEF ThresholdOf, CalculateThreshold

(* What the dealers of a round agree on is a sharing whose secret is the   *)
(* sum of the parts they publish; of a reshare its secret is what the      *)
(* dealers' commitments interpolate to.                                    *)
LEMMA SharingDetermined ==
    ASSUME SharingTyped, NEW D \in SUBSET DOMAIN deals, Cardinality(D) >= ThresholdOf(version)
    PROVE  /\ Sharing(D) \in Determined(ThresholdOf(version))
           /\ Parts(D) \in [D -> Fr]
           /\ SumOver(D, Parts(D)) = Sharing(D)[0]
           /\ Sharing(D)[0] = IF version = 1 THEN SumOver(D, [d \in D |-> deals[d][1]])
                              ELSE AtZero(D, [d \in D |-> deals[d][1]])
<1> DEFINE t == ThresholdOf(version)
           F == Sharing(D)
           first == [d \in D |-> deals[d][1]]
<1>1. t \in Nat \ {0} /\ D \in SUBSET Operators /\ IsFiniteSet(D)
  BY Thresholds, FiniteParts DEF SharingTyped
<1>2. Dealing(D, deals, t)
  BY <1>1 DEF Dealing, SharingTyped
<1>3. \A d \in D : first[d] \in Fr
  BY <1>2 DEF Dealing
<1>5. F[0] = IF version = 1 THEN SumOver(D, first) ELSE AtZero(D, first)
  BY <1>2, AddedDetermined, InterpolatedDetermined DEF Sharing
<1>6. \A d \in D : L(d, D) \in Fr
  BY <1>1, CoefficientInField DEF L
<1>7. F \in Determined(t)
  BY <1>2, AddedDetermined, InterpolatedDetermined DEF Sharing
<1> HIDE DEF t
<1>8. F \in [Places -> Fr] /\ \A d \in D : F[d] \in Fr
  BY <1>1, <1>7, PlacesOfOperators DEF Determined
<1>9. Parts(D) \in [D -> Fr]
  BY <1>3, <1>6, <1>8, FieldOperations DEF Parts
<1>10. SumOver(D, Parts(D)) = F[0]
  <2>1. CASE version = 1
    <3>1. Parts(D) = first
      BY <2>1 DEF Parts
    <3>2. QED
      BY <1>5, <2>1, <3>1
  <2>2. CASE version # 1
    <3>1. \A d \in D : ScalarMul(F[d], L(d, D)) = ScalarMul(L(d, D), F[d])
      BY <1>6, <1>8, MulLaws
    <3>2. Parts(D) = [d \in D |-> ScalarMul(L(d, D), F[d])]
      BY <2>2, <3>1 DEF Parts
    <3>3. SumOver(D, Parts(D)) = AtZero(D, F)
      BY <3>2 DEF AtZero
    <3>4. AtZero(D, F) = F[0]
      BY <1>1, <1>7 DEF Determined, t
    <3>5. QED
      BY <3>3, <3>4
  <2>3. QED
    BY <2>1, <2>2
<1>11. QED
  BY <1>5, <1>7, <1>9, <1>10 DEF t

(* The shares that an operator accepts are the dealers' values at its place.*)
LEMMA AcceptedAreDealt ==
    ASSUME SharingTyped, NEW op \in Operators, NEW D \in SUBSET DOMAIN deals,
           NEW shares \in AcceptedShares(op, D)
    PROVE  /\ shares = [d \in D |-> EvaluatePolynomial(deals[d], op)]
           /\ \A d \in D : CommitmentsOf(D)[d] = deals[d]
           /\ \A d \in D : EvaluatePolynomial(deals[d], op) \in Fr
<1>1. shares \in [D -> Fr] /\ \A d \in D : VerifyShare(op, shares[d], CommitmentsOf(D)[d])
  BY DEF AcceptedShares
<1>2. ASSUME NEW d \in D
      PROVE  /\ shares[d] = EvaluatePolynomial(deals[d], op)
             /\ EvaluatePolynomial(deals[d], op) \in Fr
             /\ CommitmentsOf(D)[d] = deals[d]
  <2>1. deals[d] \in Seq(Fr) /\ CommitmentsOf(D)[d] = CreateCommitments(deals[d])
    BY DEF SharingTyped, CommitmentsOf
  <2>2. CreateCommitments(deals[d]) = deals[d]
    BY <2>1, CommitmentsAre
  <2>3. shares[d] \in Fr /\ VerifyShare(op, shares[d], CreateCommitments(deals[d]))
    BY <1>1, <2>1
  <2>4. shares[d] = EvaluatePolynomial(deals[d], op)
    BY <2>1, <2>3, VerifiedShareIs
  <2>5. QED
    BY <2>1, <2>2, <2>3, <2>4, PlacesOfOperators
<1>3. QED
  BY <1>1, <1>2

(* What a finalization stores is a key.                                    *)
LEMMA KeyTyped ==
    ASSUME NEW v \in Nat, NEW D \in SUBSET Operators, NEW joined \in BOOLEAN, NEW share \in Fr,
           NEW commitments \in Seq(Fr), NEW mpk \in Fr \cup {NoKey}
    PROVE  Key(v, D, joined, share, commitments, mpk) \in Keys
BY DEF Key, Keys

(* The commitments of the dealers, as functions.                           *)
LEMMA FirstCommitments ==
    ASSUME NEW D \in SUBSET DOMAIN deals, \A d \in D : CommitmentsOf(D)[d] = deals[d]
    PROVE  /\ DOMAIN CommitmentsOf(D) = D
           /\ [d \in D |-> CommitmentsOf(D)[d][1]] = [d \in D |-> deals[d][1]]
BY DEF CommitmentsOf

(* FinalizeKeyShare computes the operator's value of the sharing, and its  *)
(* secret.                                                                 *)
LEMMA FinalizeDKGFits ==
    ASSUME SharingTyped, NEW op \in Operators, NEW D \in SUBSET DOMAIN deals, FinalizeDKG(op, D)
    PROVE  \E key \in Keys : /\ active' = [active EXCEPT ![op] = key]
                             /\ key.version = version /\ Fits(op, key)
<1>1. PICK shares \in AcceptedShares(op, D) :
         LET key == FinalizeKeyShare(shares, CommitmentsOf(D), ThresholdOf(1))
         IN  active' = [active EXCEPT ![op] =
                Key(1, D, FALSE, key.share, CreateCommitments(deals[op]), key.commitments[1])]
  BY DEF FinalizeDKG
<1> DEFINE t == ThresholdOf(1)
           final == FinalizeKeyShare(shares, CommitmentsOf(D), t)
           key == Key(1, D, FALSE, final.share, CreateCommitments(deals[op]), final.commitments[1])
           first == [d \in D |-> deals[d][1]]
<1>2. version = 1 /\ op \in D /\ Cardinality(D) >= t /\ op \in DOMAIN deals
  BY DEF FinalizeDKG
<1>3. /\ shares = [d \in D |-> EvaluatePolynomial(deals[d], op)]
      /\ \A d \in D : CommitmentsOf(D)[d] = deals[d]
  BY AcceptedAreDealt
<1>4. deals[op] \in Seq(Fr) /\ CreateCommitments(deals[op]) = deals[op]
      /\ \A d \in D : Len(CommitmentsOf(D)[d]) = t
  BY <1>2, <1>3, CommitmentsAre DEF SharingTyped
<1>5. DOMAIN CommitmentsOf(D) = D /\ [d \in D |-> CommitmentsOf(D)[d][1]] = first
  BY <1>3, FirstCommitments
<1>6. t \in Nat \ {0}
  BY Thresholds
<1>7. final.share = SumOver(D, shares)
  BY <1>3 DEF FinalizeKeyShare
<1>8. final.commitments[1] = SumOver(D, first)
  <2> DEFINE counted == {d \in DOMAIN CommitmentsOf(D) : Len(CommitmentsOf(D)[d]) = t}
  <2>1. counted = D
    BY <1>4, <1>5
  <2>2. final.commitments[1] = SumOver(counted, [d \in counted |-> CommitmentsOf(D)[d][1]])
    BY <1>6 DEF FinalizeKeyShare
  <2>3. QED
    BY <1>5, <2>1, <2>2
<1>9. /\ Sharing(D)[0] = SumOver(D, first) /\ Sharing(D) \in [Places -> Fr]
  BY <1>2, SharingDetermined DEF Determined
<1>10. Sharing(D)[op] = SumOver(D, shares)
  BY <1>2, <1>3, PlacesOfOperators DEF Sharing, Added
<1>11. Parts(D)[op] = deals[op][1]
  BY <1>2 DEF Parts
<1>12. D \in SUBSET Operators /\ Sharing(D)[op] \in Fr /\ Sharing(D)[0] \in Fr
  BY <1>9, PlacesOfOperators DEF SharingTyped
<1> HIDE DEF final
<1>13. key \in Keys
  BY <1>4, <1>7, <1>8, <1>9, <1>10, <1>12 DEF Key, Keys
<1>14. Fits(op, key) /\ key.version = version
  BY <1>2, <1>4, <1>7, <1>8, <1>9, <1>10, <1>11 DEF Fits, Agrees, Key
<1>15. active' = [active EXCEPT ![op] = key]
  BY <1>1 DEF final
<1>16. QED
  BY <1>13, <1>14, <1>15

(* So does ComputeNewKeyShare.                                             *)
LEMMA NewKeyShareFits ==
    ASSUME SharingTyped, version # 1, NEW op \in Operators,
           NEW D \in SUBSET DOMAIN deals, Cardinality(D) >= ThresholdOf(version),
           NEW shares \in AcceptedShares(op, D), NEW joined \in BOOLEAN,
           NEW mpk \in Fr \cup {NoKey}, ~joined => mpk = Sharing(D)[0],
           NEW key, key = Key(version, D, joined, ComputeNewKeyShare(op, shares).share,
                              ComputeNewKeyShare(op, shares).commitments, mpk)
    PROVE  key \in Keys /\ key.version = version /\ Fits(op, key)
<1> DEFINE new == ComputeNewKeyShare(op, shares)
<1>1. shares = [d \in D |-> EvaluatePolynomial(deals[d], op)] /\ DOMAIN shares = D
  BY AcceptedAreDealt
<1>2. D \in SUBSET Operators /\ version \in Nat
  BY DEF SharingTyped
<1>3. Interpolate(shares) = Sharing(D)[op]
  <2>1. Interpolate(shares) = AtZero(D, shares)
    BY <1>1, <1>2, InterpolateIs
  <2>2. QED
    BY <1>1, <2>1, PlacesOfOperators DEF Sharing, Interpolated
<1>4. Sharing(D)[op] \in Fr
  BY SharingDetermined, PlacesOfOperators DEF Determined
<1>5. new.share = Sharing(D)[op] /\ new.commitments = <<ScalarMul(Sharing(D)[op], L(op, D))>>
  BY <1>1, <1>3 DEF ComputeNewKeyShare, L
<1>6. ScalarMul(Sharing(D)[op], L(op, D)) \in Fr
  <2>1. L(op, D) \in Fr
    BY <1>2, CoefficientInField DEF L
  <2>2. QED
    BY <1>4, <2>1, FieldOperations
<1>7. op \in D => Parts(D)[op] = ScalarMul(Sharing(D)[op], L(op, D))
  BY DEF Parts
<1>8. key = Key(version, D, joined, Sharing(D)[op], <<ScalarMul(Sharing(D)[op], L(op, D))>>, mpk)
  BY <1>5
<1>9. key \in Keys
  <2> DEFINE x == ScalarMul(Sharing(D)[op], L(op, D))  y == Sharing(D)[op]
  <2>1. x \in Fr /\ y \in Fr /\ key = Key(version, D, joined, y, <<x>>, mpk)
    BY <1>4, <1>6, <1>8
  <2> HIDE DEF x, y
  <2>2. <<x>> \in Seq(Fr)
    BY <2>1
  <2>3. QED
    BY <1>2, <2>1, <2>2, KeyTyped, Zenon
<1>10. key.version = version /\ Fits(op, key)
  BY <1>7, <1>8 DEF Fits, Agrees, Key
<1>11. QED
  BY <1>9, <1>10

(* An operator that validated the commitments carries the secret forward.  *)
LEMMA FinalizeReshareFits ==
    ASSUME SharingTyped, NEW op \in Operators, NEW D \in SUBSET DOMAIN deals,
           FinalizeReshare(op, D)
    PROVE  \E key \in Keys : /\ active' = [active EXCEPT ![op] = key]
                             /\ key.version = version /\ Fits(op, key)
<1>1. PICK shares \in AcceptedShares(op, D) :
         LET key == ComputeNewKeyShare(op, shares)
         IN  active' = [active EXCEPT ![op] =
                Key(version, D, FALSE, key.share, key.commitments, active[op].mpk)]
  BY DEF FinalizeReshare
<1> DEFINE mpk == active[op].mpk
           key == Key(version, D, FALSE, ComputeNewKeyShare(op, shares).share,
                      ComputeNewKeyShare(op, shares).commitments, mpk)
           first == [d \in D |-> deals[d][1]]
<1>2. /\ version # 1 /\ active[op] # NoKey /\ Cardinality(D) >= ThresholdOf(version)
      /\ ValidatedKey(D, mpk)
  BY DEF FinalizeReshare, AgreedDealers, SharingTyped
<1>3. active[op] \in Keys
  BY <1>2 DEF SharingTyped
<1>4. mpk \in Fr \cup {NoKey}
  BY <1>3 DEF Keys
<1>5. \A d \in D : CommitmentsOf(D)[d] = deals[d]
  BY AcceptedAreDealt
<1>6. DOMAIN CommitmentsOf(D) = D /\ [d \in D |-> CommitmentsOf(D)[d][1]] = first
  BY <1>5, FirstCommitments
<1>7. Interpolate(first) = mpk
  BY <1>2, <1>6 DEF ValidatedKey, ValidateReshareMasterPublicKey
<1>8. Sharing(D)[0] = AtZero(D, first)
  BY <1>2, SharingDetermined
<1>9. Interpolate(first) = AtZero(D, first)
  <2>1. DOMAIN first = D /\ D \in SUBSET Operators
    BY DEF SharingTyped
  <2> HIDE DEF first
  <2>2. QED
    BY <2>1, InterpolateIs
<1>10. mpk = Sharing(D)[0]
  BY <1>7, <1>8, <1>9
<1>11. FALSE \in BOOLEAN
  OBVIOUS
<1> HIDE DEF mpk
<1>12. key \in Keys /\ key.version = version /\ Fits(op, key)
  BY <1>2, <1>4, <1>10, <1>11, NewKeyShareFits
<1>13. active' = [active EXCEPT ![op] = key]
  BY <1>1 DEF mpk
<1> HIDE DEF key
<1>14. QED
  BY <1>12, <1>13

(* A joining operator holds a value of the sharing, and no key to check.   *)
LEMMA JoinReshareFits ==
    ASSUME SharingTyped, NEW op \in Operators, NEW D \in SUBSET DOMAIN deals,
           NEW answering, JoinReshare(op, D, answering)
    PROVE  \E key \in Keys : /\ active' = [active EXCEPT ![op] = key]
                             /\ key.version = version /\ Fits(op, key)
<1>1. PICK shares \in AcceptedShares(op, D) :
         LET key == ComputeNewKeyShare(op, shares)
         IN  active' = [active EXCEPT ![op] =
                Key(version, D, TRUE, key.share, key.commitments, fetchMPKFromPeers(op, answering))]
  BY DEF JoinReshare
<1> DEFINE mpk == fetchMPKFromPeers(op, answering)
           key == Key(version, D, TRUE, ComputeNewKeyShare(op, shares).share,
                      ComputeNewKeyShare(op, shares).commitments, mpk)
<1>2. version # 1 /\ Cardinality(D) >= ThresholdOf(version)
  BY DEF JoinReshare, AgreedDealers, SharingTyped
<1>3. mpk \in Fr \cup {NoKey}
  <2> DEFINE served(m) == {p \in answering \ {op} : active[p] # NoKey /\ active[p].mpk = m}
             agreed == {m \in Fr : Cardinality(served(m)) >= ThresholdOf(version)}
  <2>1. mpk = IF agreed = {} THEN NoKey ELSE CHOOSE m \in agreed : TRUE
    BY DEF fetchMPKFromPeers
  <2>2. agreed \subseteq Fr
    OBVIOUS
  <2> HIDE DEF agreed
  <2>3. QED
    BY <2>1, <2>2
<1>4. TRUE \in BOOLEAN
  OBVIOUS
<1> HIDE DEF mpk
<1>5. key \in Keys /\ key.version = version /\ Fits(op, key)
  BY <1>2, <1>3, <1>4, NewKeyShareFits
<1>6. active' = [active EXCEPT ![op] = key]
  BY <1>1 DEF mpk
<1> HIDE DEF key
<1>7. QED
  BY <1>5, <1>6

(* A key that fits the round may become an operator's active one.          *)
LEMMA StoreKeeps ==
    ASSUME SharingInv, NEW op \in Operators, NEW key \in Keys, key.version = version,
           version # 0, Fits(op, key), active' = [active EXCEPT ![op] = key],
           pending' \in SUBSET Operators, UNCHANGED <<version, deals>>
    PROVE  SharingInv'
<1> USE DEF SharingInv
<1>1. /\ active \in [Operators -> Keys \cup {NoKey}] /\ version \in Nat
      /\ active'[op] = key /\ \A p \in Operators : p # op => active'[p] = active[p]
  BY DEF SharingTyped
<1>2. active' \in [Operators -> Keys \cup {NoKey}]
  BY <1>1
<1>3. SharingTyped'
  <2>1. ASSUME NEW p \in Operators, active'[p] # NoKey
        PROVE  active'[p].version \in 1..version
    <3>1. CASE p = op
      BY <1>1, <3>1
    <3>2. CASE p # op
      BY <1>1, <2>1, <3>2 DEF SharingTyped
    <3>3. QED
      BY <3>1, <3>2
  <2>2. QED
    BY <1>2, <2>1 DEF SharingTyped, ThresholdOf, Members
<1>4. \A p, k : Fits(p, k)' <=> Fits(p, k)
  <2>1. \A D : Sharing(D)' = Sharing(D) /\ Parts(D)' = Parts(D)
    BY DEF Sharing, Parts, Added, Interpolated
  <2>2. ThresholdOf(version)' = ThresholdOf(version)
    BY DEF ThresholdOf, Members
  <2>3. QED
    BY <2>1, <2>2 DEF Fits, Agrees
<1>5. CurrentKeys'
  <2> SUFFICES ASSUME NEW p \in Operators, active'[p] # NoKey, active'[p].version = version
               PROVE  Fits(p, active'[p])
    BY <1>4 DEF CurrentKeys
  <2>1. CASE p = op
    BY <1>1, <2>1
  <2>2. CASE p # op
    BY <1>1, <2>2 DEF CurrentKeys
  <2>3. QED
    BY <2>1, <2>2
<1>6. EarlierKeys'
  <2> SUFFICES ASSUME NEW p \in Operators, active'[p] # NoKey, active'[p].version # version
               PROVE  \E F, c :
                         OneSharing(active', active'[p].version, active'[p].dealers, F, c)
    BY DEF EarlierKeys
  <2>1. p # op /\ active'[p] = active[p]
    BY <1>1
  <2> DEFINE v == active[p].version  D == active[p].dealers
  <2>2. PICK F, c : OneSharing(active, v, D, F, c)
    BY <2>1 DEF EarlierKeys
  <2>3. v # version
    BY <2>1
  <2> HIDE DEF v, D
  <2>4. ASSUME NEW q \in Operators, active'[q] # NoKey, active'[q].version = v,
               active'[q].dealers = D
        PROVE  Agrees(q, active'[q], F, c)
    <3>1. q # op /\ active'[q] = active[q]
      BY <1>1, <2>3, <2>4
    <3>2. QED
      BY <2>2, <2>4, <3>1 DEF OneSharing
  <2>5. OneSharing(active', v, D, F, c)
    BY <2>2, <2>4 DEF OneSharing
  <2>6. QED
    BY <2>1, <2>5 DEF v, D
<1>7. QED
  BY <1>3, <1>5, <1>6

(* The round goes on without the operator.                                 *)
LEMMA IdleKeeps ==
    ASSUME SharingInv, pending' \in SUBSET Operators, UNCHANGED <<version, deals, active>>
    PROVE  SharingInv'
<1> USE DEF SharingInv
<1>1. SharingTyped'
  BY DEF SharingTyped, ThresholdOf, Members
<1>2. CurrentKeys'
  BY DEF CurrentKeys, Fits, Agrees, Sharing, Parts, Added, Interpolated, ThresholdOf, Members
<1>3. EarlierKeys'
  BY DEF EarlierKeys, OneSharing, Agrees, ThresholdOf, Members
<1>4. QED
  BY <1>1, <1>2, <1>3

(* The keys of one version and dealer set are values of one sharing.       *)
LEMMA GroupSharing ==
    ASSUME SharingInv, NEW op \in Operators, active[op] # NoKey
    PROVE  \E F, c : OneSharing(active, active[op].version, active[op].dealers, F, c)
<1> USE DEF SharingInv
<1>1. CASE active[op].version # version
  BY <1>1 DEF EarlierKeys
<1>2. CASE active[op].version = version
  <2> DEFINE D == active[op].dealers
  <2>1. D \in SUBSET DOMAIN deals /\ Cardinality(D) >= ThresholdOf(version)
    BY <1>2 DEF CurrentKeys, Fits
  <2>2. /\ Sharing(D) \in Determined(ThresholdOf(version))
        /\ Parts(D) \in [D -> Fr]
        /\ SumOver(D, Parts(D)) = Sharing(D)[0]
    BY <2>1, SharingDetermined
  <2>3. ASSUME NEW p \in Operators, active[p] # NoKey, active[p].version = version,
               active[p].dealers = D
        PROVE  Agrees(p, active[p], Sharing(D), Parts(D))
    BY <2>3 DEF CurrentKeys, Fits
  <2>4. OneSharing(active, version, D, Sharing(D), Parts(D))
    BY <2>2, <2>3 DEF OneSharing
  <2>5. QED
    BY <1>2, <2>4
<1>3. QED
  BY <1>1, <1>2

(* One sequence after another.                                             *)
LEMMA Concatenated ==
    ASSUME NEW T, NEW a \in Seq(T), NEW b \in Seq(T)
    PROVE  /\ a \o b \in Seq(T) /\ Len(a \o b) = Len(a) + Len(b)
           /\ Len(a) >= 1 => (a \o b)[1] = a[1]
OBVIOUS

(* A polynomial with a constant term and as many random coefficients as    *)
(* the threshold asks for.                                                 *)
LEMMA FreshPolynomial ==
    ASSUME NEW constant \in Fr, NEW s \in Seq(Fr), NEW t \in Nat \ {0}, Len(s) >= t - 1,
           NEW poly, poly = GeneratePolynomial(constant, SubSeq(s, 1, t - 1))
    PROVE  poly \in Seq(Fr) /\ Len(poly) = t
<1> DEFINE n == t - 1  r == SubSeq(s, 1, n)
<1>1. n \in Nat /\ n <= Len(s) /\ t = n + 1
  OBVIOUS
<1> HIDE DEF n
<1>2. r \in Seq(Fr) /\ Len(r) = n
  BY <1>1
<1>3. poly = <<constant>> \o r
  BY DEF GeneratePolynomial, n
<1> HIDE DEF r
<1> DEFINE head == <<constant>>
<1>4. head \in Seq(Fr) /\ Len(head) = 1
  OBVIOUS
<1> HIDE DEF head
<1>5. head \o r \in Seq(Fr) /\ Len(head \o r) = Len(head) + Len(r)
  BY <1>2, <1>4, Concatenated
<1>6. QED
  BY <1>1, <1>2, <1>3, <1>4, <1>5 DEF head

(* A new round deals polynomials of its threshold's length, and leaves the *)
(* keys of the versions before it as they are.                             *)
LEMMA StartKeeps ==
    ASSUME SharingInv, version' = version + 1, UNCHANGED active, pending' \in SUBSET Operators,
           DOMAIN deals' \in SUBSET Operators,
           \A d \in DOMAIN deals' :
               deals'[d] \in Seq(Fr) /\ Len(deals'[d]) = ThresholdOf(version + 1)
    PROVE  SharingInv'
<1> USE DEF SharingInv
<1>1. SharingTyped'
  BY DEF SharingTyped, ThresholdOf, Members
<1>2. \A op \in Operators : active[op] # NoKey => active[op].version # version + 1
  BY DEF SharingTyped
<1>3. CurrentKeys'
  BY <1>2 DEF CurrentKeys
<1>4. \A op \in Operators : active[op] # NoKey =>
         \E F, c : OneSharing(active, active[op].version, active[op].dealers, F, c)
  BY GroupSharing
<1>5. EarlierKeys'
  BY <1>4 DEF EarlierKeys
<1>6. QED
  BY <1>1, <1>3, <1>5

(* The DKG starts.                                                         *)
LEMMA StartDKGKeeps == SharingInv /\ StartDKG => SharingInv'
<1> SUFFICES ASSUME SharingInv, StartDKG
             PROVE  SharingInv'
  OBVIOUS
<1>1. PICK constants \in [Founders -> Constants], b \in Coefficients :
         deals' = [d \in Founders |->
            GeneratePolynomial(constants[d], SubSeq(b[d], 1, ThresholdOf(1) - 1))]
  BY DEF StartDKG
<1>2. version = 0 /\ version' = 1 /\ pending' = Founders /\ UNCHANGED active
  BY DEF StartDKG
<1>3. ThresholdOf(1) \in Nat \ {0} /\ ThresholdOf(1) <= CalculateThreshold(NumOperators)
  BY Thresholds
<1>4. CalculateThreshold(NumOperators) \in Nat
  BY CryptoAssumption DEF CalculateThreshold
<1>5. ASSUME NEW d \in Founders
      PROVE  deals'[d] \in Seq(Fr) /\ Len(deals'[d]) = ThresholdOf(1)
  <2>1. d \in Operators /\ constants[d] \in Fr /\ b[d] \in Seq(Fr)
        /\ Len(b[d]) >= CalculateThreshold(NumOperators) - 1
    BY SharingAssumption
  <2> DEFINE t == ThresholdOf(1)  s == b[d]  constant == constants[d]
  <2>2. t \in Nat \ {0} /\ s \in Seq(Fr) /\ constant \in Fr /\ Len(s) >= t - 1
    BY <1>3, <1>4, <2>1
  <2>3. deals'[d] = GeneratePolynomial(constant, SubSeq(s, 1, t - 1))
    BY <1>1
  <2> HIDE DEF t, s, constant
  <2>4. deals'[d] \in Seq(Fr) /\ Len(deals'[d]) = t
    BY <2>2, <2>3, FreshPolynomial
  <2>5. QED
    BY <2>4 DEF t
<1>6. DOMAIN deals' = Founders /\ Founders \in SUBSET Operators
  BY <1>1, SharingAssumption
<1>7. version' = version + 1 /\ ThresholdOf(version + 1) = ThresholdOf(1)
  BY <1>2
<1>8. QED
  BY <1>2, <1>5, <1>6, <1>7, StartKeeps

(* A reshare starts.                                                       *)
LEMMA StartReshareKeeps == SharingInv /\ StartReshare => SharingInv'
<1> SUFFICES ASSUME SharingInv, StartReshare
             PROVE  SharingInv'
  OBVIOUS
<1> DEFINE dealers == {op \in Operators : active[op] # NoKey}
           t == ThresholdOf(version + 1)
           constant(chosen, d) == IF d \in FaultyDealers THEN chosen[d] ELSE active[d].share
<1>1. PICK b \in Coefficients, chosen \in [dealers \cap FaultyDealers -> Constants] :
         deals' = [d \in dealers |->
                      GenerateNewShares(constant(chosen, d), SubSeq(b[d], 1, t - 1))]
  BY DEF StartReshare
<1>2. version' = version + 1 /\ pending' = Operators /\ UNCHANGED active
  BY DEF StartReshare
<1>3. t \in Nat \ {0} /\ t <= CalculateThreshold(NumOperators)
  BY Thresholds
<1>4. CalculateThreshold(NumOperators) \in Nat
  BY CryptoAssumption DEF CalculateThreshold
<1>5. ASSUME NEW d \in dealers
      PROVE  deals'[d] \in Seq(Fr) /\ Len(deals'[d]) = t
  <2>1. d \in Operators /\ b[d] \in Seq(Fr)
        /\ Len(b[d]) >= CalculateThreshold(NumOperators) - 1
    BY SharingAssumption
  <2>2. active[d] \in Keys
    BY <2>1 DEF SharingInv, SharingTyped
  <2>3. constant(chosen, d) \in Fr
    BY <2>2, SharingAssumption DEF Keys
  <2> DEFINE s == b[d]  k == constant(chosen, d)
  <2>4. s \in Seq(Fr) /\ k \in Fr /\ Len(s) >= t - 1
    BY <1>3, <1>4, <2>1, <2>3
  <2>5. deals'[d] = GeneratePolynomial(k, SubSeq(s, 1, t - 1))
    BY <1>1 DEF GenerateNewShares
  <2> HIDE DEF t, s, k
  <2>6. QED
    BY <1>3, <2>4, <2>5, FreshPolynomial
<1>6. DOMAIN deals' = dealers /\ dealers \in SUBSET Operators
  BY <1>1
<1> HIDE DEF dealers
<1>7. QED
  BY <1>2, <1>5, <1>6, StartKeeps

(* An operator finishes its round, with a key or without.                  *)
LEMMA FinishKeeps == SharingInv /\ FinishRound => SharingInv'
<1> SUFFICES ASSUME SharingInv, FinishRound
             PROVE  SharingInv'
  OBVIOUS
<1> DEFINE op == Min(pending)
<1>1. SharingTyped
  BY DEF SharingInv
<1>2. op \in pending
  <2>1. pending \in SUBSET Nat /\ pending # {}
    BY <1>1 DEF SharingTyped, Operators, FinishRound
  <2>2. QED
    BY <2>1, LeastIsIn
<1>3. op \in Operators /\ pending' \in SUBSET Operators /\ UNCHANGED <<version, deals>>
  BY <1>1, <1>2 DEF SharingTyped, FinishRound
<1>4. \/ \E D \in SUBSET DOMAIN deals : FinalizeDKG(op, D) \/ FinalizeReshare(op, D)
      \/ \E D \in SUBSET DOMAIN deals, answering \in SUBSET Operators :
            JoinReshare(op, D, answering)
      \/ UNCHANGED active
  BY DEF FinishRound, Abort
<1> HIDE DEF op
<1>5. ASSUME NEW key \in Keys, active' = [active EXCEPT ![op] = key], key.version = version,
             Fits(op, key), version # 0
      PROVE  SharingInv'
  BY <1>3, <1>5, StoreKeeps
<1>6. ASSUME NEW D \in SUBSET DOMAIN deals, FinalizeDKG(op, D)
      PROVE  SharingInv'
  <2>1. version # 0
    BY <1>6 DEF FinalizeDKG
  <2>2. QED
    BY <1>1, <1>3, <1>5, <1>6, <2>1, FinalizeDKGFits
<1>7. ASSUME NEW D \in SUBSET DOMAIN deals, FinalizeReshare(op, D)
      PROVE  SharingInv'
  <2>1. version # 0
    BY <1>1, <1>7 DEF FinalizeReshare, SharingTyped
  <2>2. QED
    BY <1>1, <1>3, <1>5, <1>7, <2>1, FinalizeReshareFits
<1>8. ASSUME NEW D \in SUBSET DOMAIN deals, NEW answering, JoinReshare(op, D, answering)
      PROVE  SharingInv'
  <2>1. version # 0
    BY <1>1, <1>8 DEF JoinReshare, SharingTyped
  <2>2. QED
    BY <1>1, <1>3, <1>5, <1>8, <2>1, JoinReshareFits
<1>9. CASE UNCHANGED active
  BY <1>3, <1>9, IdleKeeps
<1>10. QED
  BY <1>4, <1>6, <1>7, <1>8, <1>9

(* SharingInv holds throughout: finalizeShares, the reshare of an existing *)
(* operator and that of a joining one keep it whatever dealer set each of  *)
(* them finalizes on, with faulty dealers that deal any constant term.     *)
THEOREM SharingInvariant == SharingSpec => []SharingInv
<1>1. SharingInit => SharingInv
  <2> SUFFICES ASSUME SharingInit
               PROVE  SharingInv
    OBVIOUS
  <2>1. /\ version = 0 /\ pending = {} /\ DOMAIN deals = {}
        /\ active = [op \in Operators |-> NoKey] /\ \A op \in Operators : active[op] = NoKey
    BY DEF SharingInit
  <2>2. SharingTyped
    BY <2>1 DEF SharingTyped
  <2>3. CurrentKeys /\ EarlierKeys
    BY <2>1 DEF CurrentKeys, EarlierKeys
  <2>4. QED
    BY <2>2, <2>3 DEF SharingInv
<1>2. SharingInv /\ [SharingNext]_sharingVars => SharingInv'
  <2> SUFFICES ASSUME SharingInv, [SharingNext]_sharingVars
               PROVE  SharingInv'
    OBVIOUS
  <2>1. CASE StartDKG
    BY <2>1, StartDKGKeeps
  <2>2. CASE StartReshare
    BY <2>2, StartReshareKeeps
  <2>3. CASE FinishRound
    BY <2>3, FinishKeeps
  <2>4. CASE UNCHANGED sharingVars
    <3>1. pending' \in SUBSET Operators /\ UNCHANGED <<version, deals, active>>
      BY <2>4 DEF sharingVars, SharingInv, SharingTyped
    <3>2. QED
      BY <3>1, IdleKeeps
  <2>5. QED
    BY <2>1, <2>2, <2>3, <2>4 DEF SharingNext
<1>3. QED
  BY <1>1, <1>2, PTL DEF SharingSpec

(* Any threshold of the holders of one version and dealer set reconstruct  *)
(* the master public key that each of them which did not join carries      *)
(* (RecoverSecret against the key of ValidateReshareMasterPublicKey), over *)
(* any number of rounds.                                                   *)
THEOREM GroupsReconstruct == SharingSpec => []GroupsReconstructTheKey
<1>1. SharingInv => GroupsReconstructTheKey
  <2> SUFFICES ASSUME SharingInv, NEW g \in Groups,
                      NEW G \in kSubset(ThresholdOf(g[1]), Holders(g[1], g[2])),
                      NEW op \in G, ~active[op].joined
               PROVE  RecoverSecret([p \in G |-> active[p].share]) = active[op].mpk
    BY DEF GroupsReconstructTheKey
  <2> DEFINE v == g[1]  D == g[2]
             shares == [p \in G |-> active[p].share]
  <2>1. G \in SUBSET Holders(v, D) /\ Cardinality(G) = ThresholdOf(v)
    BY DEF kSubset
  <2>2. \A p \in G : p \in Operators /\ active[p] # NoKey /\ active[p].version = v
                     /\ active[p].dealers = D
    BY <2>1 DEF Holders
  <2> HIDE DEF v, D
  <2>3. PICK F, c : OneSharing(active, v, D, F, c)
    BY <2>2, GroupSharing
  <2>4. F \in Determined(ThresholdOf(v)) /\ \A p \in G : Agrees(p, active[p], F, c)
    BY <2>2, <2>3 DEF OneSharing
  <2>5. G \in SUBSET Operators /\ Cardinality(G) >= ThresholdOf(v)
    BY <2>1, <2>2, Thresholds
  <2>6. AtZero(G, F) = F[0] /\ \A p \in G : F[p] \in Fr
    BY <2>4, <2>5, PlacesOfOperators DEF Determined
  <2>7. \A p \in G : shares[p] = F[p]
    BY <2>4 DEF Agrees
  <2>8. active[op].mpk = F[0]
    BY <2>4 DEF Agrees
  <2>9. DOMAIN shares = G
    OBVIOUS
  <2> HIDE DEF shares
  <2>10. Interpolate(shares) = AtZero(G, shares)
    BY <2>5, <2>9, InterpolateIs
  <2>11. AtZero(G, shares) = AtZero(G, F)
    BY <2>5, <2>6, <2>7, AtZeroSame
  <2>12. QED
    BY <2>6, <2>8, <2>10, <2>11 DEF RecoverSecret, shares
<1>2. QED
  BY <1>1, SharingInvariant, PTL

(* What ComputeMasterPublicKey sums up, the first commitments of all the   *)
(* dealers of a version, is that master public key too, after a DKG and    *)
(* after any reshare.                                                      *)
THEOREM PublishedSum == SharingSpec => []PublishedSumIsTheKey
<1>1. SharingInv => PublishedSumIsTheKey
  <2> SUFFICES ASSUME SharingInv, NEW g \in Groups, g[2] \subseteq Holders(g[1], g[2]),
                      NEW op \in g[2], ~active[op].joined
               PROVE  ComputeMasterPublicKey([d \in g[2] |-> active[d].commitments]) =
                      active[op].mpk
    BY DEF PublishedSumIsTheKey
  <2> DEFINE v == g[1]  D == g[2]
             published == [d \in D |-> active[d].commitments]
             first == [d \in D |-> published[d][1]]
  <2>1. \A p \in D : p \in Operators /\ active[p] # NoKey /\ active[p].version = v
                     /\ active[p].dealers = D
    BY DEF Holders
  <2>2. PICK F, c : OneSharing(active, v, D, F, c)
    <3> HIDE DEF v, D
    <3>1. op \in D
      BY DEF D
    <3>2. QED
      BY <2>1, <3>1, GroupSharing
  <2>3. /\ c \in [D -> Fr] /\ SumOver(D, c) = F[0]
        /\ \A p \in D : Agrees(p, active[p], F, c)
    BY <2>1, <2>2 DEF OneSharing
  <2>4. \A p \in D : active[p].commitments[1] = c[p]
    BY <2>1, <2>3 DEF Agrees
  <2>5. active[op].mpk = F[0]
    BY <2>3 DEF Agrees
  <2>6. first = c
    BY <2>3, <2>4
  <2>7. ComputeMasterPublicKey(published) = SumOver(D, first)
    BY DEF ComputeMasterPublicKey
  <2>8. QED
    BY <2>3, <2>5, <2>6, <2>7
<1>2. QED
  BY <1>1, SharingInvariant, PTL

-----------------------------------------------------------------------------
(* The operators' keys.                                                    *)

(* The threshold is a positive number.                                     *)
LEMMA ThresholdIsNumber == threshold \in Nat \ {0}
BY CryptoAssumption DEF threshold, CalculateThreshold

(* The DKG is a sharing of the master public key.                          *)
LEMMA DKGSharing ==
    ASSUME NEW F, F = Added(Operators, Polynomials)
    PROVE  /\ F \in Determined(threshold) /\ F[0] = MasterPublicKey
           /\ \A op \in Operators : F[op] = DKGShare(op)
<1> DEFINE all == [d \in Operators |-> CreateCommitments(Polynomials[d])]
           counted == {d \in DOMAIN all : Len(all[d]) = threshold}
           first == [d \in Operators |-> Polynomials[d][1]]
<1>1. Dealing(Operators, Polynomials, threshold)
  BY ClientAssumption, ThresholdIsNumber DEF Dealing, threshold
<1>2. F \in Determined(threshold) /\ F[0] = SumOver(Operators, first)
  BY <1>1, AddedDetermined
<1>3. ASSUME NEW d \in Operators
      PROVE  all[d] = Polynomials[d] /\ Len(all[d]) = threshold
  <2>1. Polynomials[d] \in Seq(Fr) /\ Len(Polynomials[d]) = threshold
    BY <1>1 DEF Dealing
  <2>2. QED
    BY <2>1, CommitmentsAre
<1>4. DOMAIN all = Operators
  OBVIOUS
<1> HIDE DEF all
<1>5. counted = Operators
  BY <1>3, <1>4
<1>6. ASSUME NEW op \in Operators, NEW shares,
             shares = [d \in Operators |-> EvaluatePolynomial(Polynomials[d], op)]
      PROVE  /\ FinalizeKeyShare(shares, all, threshold).share = F[op]
             /\ FinalizeKeyShare(shares, all, threshold).commitments[1] = F[0]
  <2>1. FinalizeKeyShare(shares, all, threshold).share = SumOver(DOMAIN shares, shares)
    BY DEF FinalizeKeyShare
  <2>2. DOMAIN shares = Operators /\ F[op] = SumOver(Operators, shares)
    BY <1>6, PlacesOfOperators DEF Added
  <2>3. 1 \in 1..threshold
    BY ThresholdIsNumber
  <2>4. FinalizeKeyShare(shares, all, threshold).commitments
          = [k \in 1..threshold |-> SumOver(counted, [d \in counted |-> all[d][k]])]
    BY DEF FinalizeKeyShare
  <2>5. FinalizeKeyShare(shares, all, threshold).commitments[1]
          = SumOver(counted, [d \in counted |-> all[d][1]])
    BY <2>3, <2>4, Zenon
  <2>6. [d \in Operators |-> all[d][1]] = first
    BY <1>3
  <2>7. QED
    BY <1>2, <1>5, <2>1, <2>2, <2>5, <2>6
<1>7. \A op \in Operators : F[op] = DKGShare(op)
  BY <1>6 DEF DKGShare, all
<1>8. F[0] = MasterPublicKey
  <2>1. 1 \in Operators
    BY CryptoAssumption DEF Operators
  <2>2. QED
    BY <1>6, <2>1 DEF MasterPublicKey, all
<1>9. QED
  BY <1>2, <1>7, <1>8

(* The reshare is another sharing of the same key: its dealers deal their  *)
(* shares of the DKG.                                                      *)
LEMMA ReshareSharing ==
    \E F \in Determined(threshold) :
        F[0] = MasterPublicKey /\ \A op \in Operators : F[op] = KeyShares[op][2].share
<1> DEFINE E == Added(Operators, Polynomials)
           polys == [d \in Dealers |-> GenerateNewShares(DKGShare(d), Blindings[d])]
           F == Interpolated(Dealers, polys)
           first == [d \in Dealers |-> polys[d][1]]
<1>1. /\ E \in Determined(threshold) /\ E[0] = MasterPublicKey
      /\ \A op \in Operators : E[op] = DKGShare(op)
  BY DKGSharing
<1> HIDE DEF E
<1>2. Dealers \in SUBSET Operators /\ Cardinality(Dealers) >= threshold
  BY ClientAssumption DEF threshold
<1>3. \A op \in Operators : DKGShare(op) \in Fr /\ E[op] \in Fr
  BY <1>1, PlacesOfOperators DEF Determined
<1>4. ASSUME NEW d \in Dealers
      PROVE  polys[d] \in Seq(Fr) /\ Len(polys[d]) = threshold /\ polys[d][1] = E[d]
  <2> DEFINE head == <<DKGShare(d)>>  tail == Blindings[d]
  <2>1. /\ head \in Seq(Fr) /\ Len(head) = 1 /\ head[1] = E[d]
        /\ tail \in Seq(Fr) /\ Len(tail) = threshold - 1
    BY <1>1, <1>2, <1>3, ClientAssumption DEF threshold
  <2>2. polys[d] = head \o tail
    BY DEF GenerateNewShares, GeneratePolynomial
  <2> HIDE DEF polys, head, tail
  <2>3. /\ head \o tail \in Seq(Fr) /\ Len(head \o tail) = Len(head) + Len(tail)
        /\ Len(head) >= 1 => (head \o tail)[1] = head[1]
    BY <2>1, Concatenated
  <2>4. (head \o tail)[1] = head[1]
    BY <2>1, <2>3
  <2>5. QED
    BY <2>1, <2>2, <2>3, <2>4, ThresholdIsNumber
<1> HIDE DEF polys
<1>5. Dealing(Dealers, polys, threshold)
  BY <1>2, <1>4, ThresholdIsNumber DEF Dealing
<1>6. F \in Determined(threshold) /\ F[0] = AtZero(Dealers, first)
  BY <1>5, InterpolatedDetermined
<1>7. AtZero(Dealers, first) = MasterPublicKey
  <2>1. \A d \in Dealers : first[d] = E[d] /\ E[d] \in Fr
    BY <1>2, <1>3, <1>4
  <2> HIDE DEF first
  <2>2. AtZero(Dealers, first) = AtZero(Dealers, E)
    BY <1>2, <2>1, AtZeroSame
  <2>3. AtZero(Dealers, E) = E[0]
    BY <1>1, <1>2 DEF Determined
  <2>4. QED
    BY <1>1, <2>2, <2>3
<1>8. ASSUME NEW op \in Operators
      PROVE  F[op] = KeyShares[op][2].share
  <2> DEFINE shares == [d \in Dealers |-> EvaluatePolynomial(polys[d], op)]
  <2>1. KeyShares[op][2].share = ComputeNewKeyShare(op, shares).share
    BY DEF KeyShares, polys
  <2>2. F[op] = AtZero(Dealers, shares)
    BY PlacesOfOperators DEF Interpolated
  <2>3. DOMAIN shares = Dealers
    OBVIOUS
  <2> HIDE DEF shares, F
  <2>4. Interpolate(shares) = AtZero(Dealers, shares)
    BY <1>2, <2>3, InterpolateIs
  <2>5. QED
    BY <2>1, <2>2, <2>4 DEF ComputeNewKeyShare
<1> HIDE DEF F
<1>9. QED
  BY <1>6, <1>7, <1>8

(* So the shares of either version are a sharing of the master public key. *)
LEMMA VersionSharing ==
    ASSUME NEW v \in 1..2
    PROVE  \E F \in Determined(threshold) :
               F[0] = MasterPublicKey /\ \A op \in Operators : F[op] = KeyShares[op][v].share
<1>1. CASE v = 1
  <2>1. \A op \in Operators : KeyShares[op][1].share = DKGShare(op)
    BY DEF KeyShares
  <2>2. QED
    BY <1>1, <2>1, DKGSharing
<1>2. CASE v = 2
  BY <1>2, ReshareSharing
<1>3. QED
  BY <1>1, <1>2

(* The shares of both versions.                                            *)
LEMMA SharesInField ==
    ASSUME NEW op \in Operators, NEW v \in 1..2
    PROVE  KeyShares[op][v].share \in Fr
BY VersionSharing, PlacesOfOperators DEF Determined

(* The master public key is a point of the group.                          *)
LEMMA MasterKeyInField == MasterPublicKey \in Fr
BY DKGSharing, PlacesOfOperators DEF Determined

-----------------------------------------------------------------------------
(* What the client's checks establish.                                     *)

(* And so is the application's private key.                                *)
LEMMA AppKeyInField == AppPrivateKey \in Fr
<1>1. AppHash \in Fr
  BY CryptoAssumption DEF Fr
<1>2. QED
  BY <1>1, MasterKeyInField, FieldOperations DEF AppPrivateKey, signAppIDWithVersion

(* It is no zero point unless the master public key is.                    *)
LEMMA AppKeyIsUnit ==
    ASSUME MasterPublicKey # 0
    PROVE  AppPrivateKey # 0
<1>1. AppHash \in Fr \ {0} /\ MasterPublicKey \in Fr \ {0}
  BY CryptoAssumption, MasterKeyInField DEF Fr
<1>2. QED
  BY <1>1, FieldOperations DEF AppPrivateKey, signAppIDWithVersion

(* The ciphertext opens under one key only.                                *)
LEMMA OpensOnlyForTheApp ==
    ASSUME NEW key \in Fr, DecryptForApp(key, Ciphertext)
    PROVE  key = AppPrivateKey
<1> DEFINE c1 == ScalarMul(1, Randomness)
<1>1. c1 = Randomness /\ Randomness \in Fr \ {0}
  <2>1. Randomness \in Fr \ {0} /\ 1 * Randomness = Randomness
    BY ClientAssumption, FieldOperations
  <2>2. QED
    BY <2>1, SmallStays DEF ScalarMul
<1>2. Ciphertext.c1 = c1
  BY DEF Ciphertext, EncryptForApp
<1>3. Ciphertext.key = deriveKeyMaterial(ScalarMul(AppPrivateKey, Randomness))
  BY DEF Ciphertext, EncryptForApp, AppPrivateKey, signAppIDWithVersion
<1>4. deriveKeyMaterial(ScalarMul(key, c1))
        = deriveKeyMaterial(ScalarMul(AppPrivateKey, Randomness))
  BY <1>2, <1>3, Zenon DEF DecryptForApp
<1> HIDE DEF c1
<1>5. ScalarMul(key, Randomness) = ScalarMul(AppPrivateKey, Randomness)
  BY <1>1, <1>4 DEF deriveKeyMaterial
<1>6. QED
  BY <1>1, <1>5, AppKeyInField, Cancel DEF ScalarMul

(* The pairing check against the master public key accepts one key only.   *)
LEMMA VerifiedIsTheAppKey ==
    ASSUME NEW key \in Fr, VerifyAppPrivateKey(key, MasterPublicKey)
    PROVE  key = AppPrivateKey
<1>1. key * 1 = key
  BY FieldOperations
<1>2. ScalarMul(key, 1) = key
  BY <1>1, SmallStays DEF ScalarMul
<1>3. QED
  BY <1>2 DEF VerifyAppPrivateKey, AppPrivateKey, signAppIDWithVersion

(* What is encrypted under the master public key opens for the app.        *)
LEMMA AppOpens ==
    ASSUME MasterPublicKey # 0
    PROVE  DecryptForApp(AppPrivateKey, EncryptForApp(MasterPublicKey, "data", Randomness))
<1> DEFINE c1 == ScalarMul(1, Randomness)
           c == EncryptForApp(MasterPublicKey, "data", Randomness)
<1>1. c1 = Randomness /\ Randomness \in Fr \ {0}
  <2>1. Randomness \in Fr \ {0} /\ 1 * Randomness = Randomness
    BY ClientAssumption, FieldOperations
  <2>2. QED
    BY <2>1, SmallStays DEF ScalarMul
<1>2. AppPrivateKey # 0
  BY AppKeyIsUnit
<1>3. /\ DOMAIN c = {"c1", "aad", "plaintext", "key"}
      /\ c.c1 = c1 /\ c.aad = buildAAD(c1)
      /\ c.key = deriveKeyMaterial(ScalarMul(AppPrivateKey, Randomness))
  BY DEF EncryptForApp, AppPrivateKey, signAppIDWithVersion
<1> HIDE DEF c, c1
<1>4. DecryptForApp(AppPrivateKey, c)
  BY <1>1, <1>2, <1>3, Zenon DEF DecryptForApp, ValidateCiphertextFormat
<1>5. QED
  BY <1>4 DEF c

(* Whatever signatures are combined, what comes out is a field element.    *)
SigsInv ==
    /\ DOMAIN sigs \subseteq Operators
    /\ \A op \in DOMAIN sigs : sigs[op] \in Fr

(* What is recovered from points of the group is one.                      *)
LEMMA RecoveredInField ==
    ASSUME NEW some, DOMAIN some \subseteq Operators, \A op \in DOMAIN some : some[op] \in Fr
    PROVE  RecoverAppPrivateKey(some, threshold) \in Fr
<1> DEFINE first == [op \in FirstOf(threshold, DOMAIN some) |-> some[op]]
<1>1. DOMAIN first \in SUBSET Operators /\ \A op \in DOMAIN first : first[op] \in Fr
  BY DEF FirstOf
<1> HIDE DEF first
<1>2. Interpolate(first) \in Fr
  BY <1>1, InterpolationInField
<1>3. RecoverAppPrivateKey(some, threshold) \in {0, Interpolate(first)}
  BY Zenon DEF RecoverAppPrivateKey, first
<1>4. QED
  BY <1>2, <1>3, FieldOperations

(* And so is every candidate of the search.                                *)
LEMMA RetriedInField ==
    ASSUME SigsInv
    PROVE  RecoverAppPrivateKeyWithRetry(sigs, threshold) \subseteq Fr
<1> SUFFICES ASSUME NEW c \in Attempted(sigs, threshold)
             PROVE  RecoverAppPrivateKey([op \in c |-> sigs[op]], threshold) \in Fr
  BY DEF RecoverAppPrivateKeyWithRetry
<1> DEFINE some == [op \in c |-> sigs[op]]
<1>1. c \in SUBSET DOMAIN sigs
  BY DEF Attempted, kSubset
<1>2. DOMAIN some \subseteq Operators /\ \A op \in DOMAIN some : some[op] \in Fr
  BY <1>1 DEF SigsInv
<1> HIDE DEF some
<1>3. RecoverAppPrivateKey(some, threshold) \in Fr
  BY <1>2, RecoveredInField
<1>4. QED
  BY <1>3 DEF some

(* Honest operators serve the master public key or, before an upgrade,     *)
(* none; so what a threshold of answers agree on is the true one, when     *)
(* fewer than a threshold of operators are faulty.                         *)
AnswersInv ==
    /\ DOMAIN answers \subseteq Operators
    /\ \A op \in DOMAIN answers \ Faulty : answers[op].mpk \in {None, MasterPublicKey}

(* A threshold of answers holds an honest one, which serves the true key   *)
(* or none.                                                                *)
LEMMA VotedIsTrue ==
    ASSUME FewFaulty, AnswersInv, NEW mpk \in VotedKeys
    PROVE  mpk = MasterPublicKey
<1>1. mpk \in Fr /\ Cardinality(votes(mpk)) >= threshold
  BY DEF VotedKeys
<1>2. IsFiniteSet(Faulty) /\ Cardinality(Faulty) \in Nat
  BY ClientAssumption, FiniteOperators, FS_Subset, FS_CardinalityType
<1>3. PICK op \in votes(mpk) : op \notin Faulty
  <2> SUFFICES ASSUME votes(mpk) \subseteq Faulty
               PROVE  FALSE
    OBVIOUS
  <2>1. Cardinality(votes(mpk)) <= Cardinality(Faulty) /\ Cardinality(votes(mpk)) \in Nat
    BY <1>2, FS_Subset, FS_CardinalityType
  <2>2. QED
    BY <1>1, <1>2, <2>1, ThresholdIsNumber DEF FewFaulty
<1>4. op \in DOMAIN answers \ Faulty /\ answers[op].mpk = mpk
  BY <1>3 DEF votes
<1>5. QED
  BY <1>1, <1>4, ClientAssumption DEF AnswersInv

(* GetMasterPublicKey fails, aggregates commitments, or returns a key that *)
(* won the vote.                                                           *)
LEMMA KeyIsOneOfThree ==
    \/ GetMasterPublicKey = NoMasterKey
    \/ GetMasterPublicKey =
          [mpk |-> ComputeMasterPublicKey([op \in DOMAIN answers |-> <<answers[op].commitment>>]),
           via |-> "sum"]
    \/ /\ VotedKeys # {}
       /\ GetMasterPublicKey = [mpk |-> CHOOSE mpk \in VotedKeys : TRUE, via |-> "vote"]
<1> DEFINE summed == ComputeMasterPublicKey([op \in DOMAIN answers |-> <<answers[op].commitment>>])
           byVote == [mpk |-> CHOOSE mpk \in VotedKeys : TRUE, via |-> "vote"]
           bySum == [mpk |-> summed, via |-> "sum"]
           many == Cardinality(respondents) >= threshold
<1>1. CASE DOMAIN answers = {}
  <2>1. respondents = {}
    BY <1>1 DEF respondents
  <2>2. ~many
    BY <2>1, FS_EmptySet, ThresholdIsNumber
  <2> HIDE DEF many
  <2>3. QED
    BY <1>1, <2>2 DEF GetMasterPublicKey, many
<1> HIDE DEF byVote, bySum
<1>2. CASE DOMAIN answers # {} /\ many
  <2>1. GetMasterPublicKey = IF VotedKeys = {} THEN NoMasterKey ELSE byVote
    BY <1>2 DEF GetMasterPublicKey, byVote
  <2>2. QED
    BY <2>1 DEF byVote
<1>3. CASE DOMAIN answers # {} /\ ~many
  <2>1. GetMasterPublicKey = IF summed = 0 THEN NoMasterKey ELSE bySum
    BY <1>3 DEF GetMasterPublicKey, bySum
  <2>2. QED
    BY <2>1, Zenon DEF bySum
<1>4. QED
  BY <1>1, <1>2, <1>3

(* A key that won the vote is the master public key.                       *)
LEMMA AgreedIsTrue ==
    ASSUME FewFaulty, AnswersInv, GetMasterPublicKey.via = "vote"
    PROVE  GetMasterPublicKey.mpk = MasterPublicKey
<1> DEFINE voted == CHOOSE mpk \in VotedKeys : TRUE
           summed == ComputeMasterPublicKey([op \in DOMAIN answers |-> <<answers[op].commitment>>])
           byVote == [mpk |-> voted, via |-> "vote"]
           bySum == [mpk |-> summed, via |-> "sum"]
<1>1. \/ GetMasterPublicKey = NoMasterKey
      \/ GetMasterPublicKey = bySum
      \/ VotedKeys # {} /\ GetMasterPublicKey = byVote
  BY KeyIsOneOfThree, Zenon
<1>2. NoMasterKey.via = "error" /\ bySum.via = "sum" /\ byVote.mpk = voted
  BY DEF NoMasterKey
<1>3. VotedKeys # {} /\ GetMasterPublicKey = byVote
  <2> HIDE DEF bySum, byVote
  <2>1. QED
    BY <1>1, <1>2
<1>4. voted \in VotedKeys
  BY <1>3, Zenon
<1>5. voted = MasterPublicKey
  BY <1>4, VotedIsTrue
<1>6. QED
  BY <1>2, <1>3, <1>5

-----------------------------------------------------------------------------
(* The invariant: the state's types, and in a retrieval, that every honest *)
(* signature came with an environment and that the environments agree once *)
(* they have been accepted.                                                *)
Typed ==
    /\ serving \in [Operators -> 1..2] /\ asOf \in 0..2
    /\ kind \in {"encrypt", "decrypt", "retrieve"} /\ phase \in {"signatures", "key", "done"}

EnvInv ==
    kind = "retrieve" =>
        /\ DOMAIN signedWith \subseteq DOMAIN envs
        /\ phase = "key" => SameEnv

Inv == Typed /\ SigsInv /\ AnswersInv /\ EnvInv

(* The initial states satisfy Inv.                                         *)
LEMMA InitInv == Init => Inv
<1> SUFFICES ASSUME Init
             PROVE  Inv
  OBVIOUS
<1>1. Typed
  BY DEF Init, Typed
<1>2. DOMAIN sigs = {} /\ DOMAIN answers = {} /\ DOMAIN signedWith = {} /\ DOMAIN envs = {}
  BY DEF Init
<1>3. SigsInv /\ AnswersInv /\ EnvInv
  BY <1>2 DEF SigsInv, AnswersInv, EnvInv, SameEnv
<1>4. QED
  BY <1>1, <1>3 DEF Inv

(* A step that collects a signature.                                       *)
LEMMA CollectInv ==
    ASSUME Inv, phase = "signatures", NEW op \in Operators, NEW sig \in Fr, NEW env,
           record(op, sig, env), UNCHANGED <<cluster, call, phase, answers>>,
           \/ signedWith' = signedWith
           \/ \E v : signedWith' = With(signedWith, op, v)
    PROVE  Inv'
<1>1. /\ Typed' /\ AnswersInv' /\ kind' = kind /\ phase' # "key"
  BY DEF Inv, Typed, AnswersInv, cluster, call
<1>2. SigsInv'
  <2>1. CASE sigs' = With(sigs, op, sig)
    <3>1. /\ DOMAIN sigs' = DOMAIN sigs \cup {op}
          /\ \A k \in DOMAIN sigs' : sigs'[k] = IF k = op THEN sig ELSE sigs[k]
      BY <2>1 DEF With
    <3>2. QED
      BY <3>1 DEF Inv, SigsInv
  <2>2. CASE sigs' = sigs
    BY <2>2 DEF Inv, SigsInv
  <2>3. QED
    BY <2>1, <2>2 DEF record
<1>3. EnvInv'
  <2> SUFFICES ASSUME kind = "retrieve"
               PROVE  DOMAIN signedWith' \subseteq DOMAIN envs'
    BY <1>1 DEF EnvInv
  <2>1. envs' = With(envs, op, env)
    BY DEF record, collects
  <2>2. DOMAIN envs' = DOMAIN envs \cup {op}
    BY <2>1 DEF With
  <2>3. DOMAIN signedWith' \subseteq DOMAIN signedWith \cup {op}
    BY DEF With
  <2>4. QED
    BY <2>2, <2>3 DEF Inv, EnvInv
<1>4. QED
  BY <1>1, <1>2, <1>3 DEF Inv

(* A step that collects an answer of /pubkey.                              *)
LEMMA AnswerInv ==
    ASSUME Inv, NEW op \in Operators, NEW commitment, NEW mpk,
           answers' = With(answers, op, [commitment |-> commitment, mpk |-> mpk]),
           op \notin Faulty => mpk \in {None, MasterPublicKey},
           UNCHANGED <<cluster, call, phase, sigs, envs, signedWith>>
    PROVE  Inv'
<1>1. Typed' /\ SigsInv' /\ EnvInv'
  BY DEF Inv, Typed, SigsInv, EnvInv, SameEnv, cluster, call
<1> DEFINE answer == [commitment |-> commitment, mpk |-> mpk]
<1>2. answer.mpk = mpk
  OBVIOUS
<1> HIDE DEF answer
<1>3. /\ DOMAIN answers' = DOMAIN answers \cup {op}
      /\ \A k \in DOMAIN answers' : answers'[k] = IF k = op THEN answer ELSE answers[k]
  BY DEF With, answer
<1>4. AnswersInv'
  BY <1>2, <1>3 DEF Inv, AnswersInv
<1>5. QED
  BY <1>1, <1>4 DEF Inv

(* Every step preserves Inv.                                               *)
LEMMA NextInv == Inv /\ [Next]_vars => Inv'
<1> SUFFICES ASSUME Inv, [Next]_vars
             PROVE  Inv'
  OBVIOUS
<1>1. ASSUME NEW op \in Operators, Rotate(op)
      PROVE  Inv'
  <2>1. serving' \in [Operators -> 1..2]
    BY <1>1 DEF Rotate, Inv, Typed
  <2>2. QED
    BY <1>1, <2>1 DEF Rotate, call, Inv, Typed, SigsInv, AnswersInv, EnvInv, SameEnv
<1>2. ASSUME NEW op \in Operators, NoAnswer(op)
      PROVE  Inv'
  BY <1>2 DEF NoAnswer, cluster, call, Inv, Typed, SigsInv, AnswersInv, EnvInv, SameEnv
<1>3. ASSUME NEW op \in Operators, handleAppSign(op)
      PROVE  Inv'
  <2> DEFINE v == GetKeyVersionAtTime(op, asOf)
             sig == signAppIDWithVersion(KeyShares[op][v].share)
             env == IF stack THEN NoEnvironment ELSE release
  <2>1. v \in 1..2
    BY DEF Inv, Typed, GetKeyVersionAtTime, Smaller
  <2>2. sig \in Fr
    <3>1. AppHash \in Fr
      BY CryptoAssumption DEF Fr
    <3>2. QED
      BY <2>1, <3>1, SharesInField, FieldOperations DEF signAppIDWithVersion
  <2>3. /\ phase = "signatures" /\ record(op, sig, env) /\ signedWith' = With(signedWith, op, v)
        /\ UNCHANGED <<cluster, call, phase, answers>>
    BY <1>3 DEF handleAppSign
  <2> HIDE DEF v, sig, env
  <2>4. QED
    BY <2>2, <2>3, CollectInv
<1>4. ASSUME NEW op \in Operators, FaultySignature(op)
      PROVE  Inv'
  <2>1. PICK sig \in BogusSigs, env \in FaultyEnvironments : record(op, sig, env)
    BY <1>4 DEF FaultySignature
  <2>2. sig \in Fr
    BY ClientAssumption
  <2>3. phase = "signatures" /\ UNCHANGED <<cluster, call, phase, answers, signedWith>>
    BY <1>4 DEF FaultySignature
  <2>4. QED
    BY <2>1, <2>2, <2>3, CollectInv
<1>5. ASSUME NEW op \in Operators, handleGetCommitments(op)
      PROVE  Inv'
  <2> DEFINE commitment == KeyShares[op][serving[op]].commitment
             mpk == IF op \in legacy THEN None ELSE MasterPublicKey
  <2>1. /\ answers' = With(answers, op, [commitment |-> commitment, mpk |-> mpk])
        /\ UNCHANGED <<cluster, call, phase, sigs, envs, signedWith>>
    BY <1>5 DEF handleGetCommitments
  <2>2. mpk \in {None, MasterPublicKey}
    OBVIOUS
  <2> HIDE DEF commitment, mpk
  <2>3. QED
    BY <2>1, <2>2, AnswerInv
<1>6. ASSUME NEW op \in Operators, FaultyKey(op)
      PROVE  Inv'
  <2>1. /\ op \in Faulty /\ UNCHANGED <<cluster, call, phase, sigs, envs, signedWith>>
        /\ \E commitment, mpk :
              answers' = With(answers, op, [commitment |-> commitment, mpk |-> mpk])
    BY <1>6 DEF FaultyKey
  <2>2. QED
    BY <2>1, AnswerInv
<1>7. CASE Upgrade
  BY <1>7 DEF Upgrade, call, Inv, Typed, SigsInv, AnswersInv, EnvInv, SameEnv
<1>8. CASE Encrypt \/ Decrypt \/ RefuseResponses \/ RetrieveSecrets
  <2>1. phase' = "done" /\ UNCHANGED <<cluster, call, sigs, envs, answers, signedWith>>
    BY <1>8 DEF Encrypt, Decrypt, RefuseResponses, RetrieveSecrets, Finish
  <2>2. QED
    BY <2>1 DEF cluster, call, Inv, Typed, SigsInv, AnswersInv, EnvInv
<1>9. CASE AcceptResponses
  BY <1>9 DEF AcceptResponses, cluster, call, Inv, Typed, SigsInv, AnswersInv, EnvInv, SameEnv
<1>10. CASE UNCHANGED vars
  BY <1>10 DEF vars, Inv, Typed, SigsInv, AnswersInv, EnvInv, SameEnv
<1>11. QED
  BY <1>1, <1>2, <1>3, <1>4, <1>5, <1>6, <1>7, <1>8, <1>9, <1>10, Zenon DEF Next

(* Inv holds throughout.                                                   *)
LEMMA InvHolds == Spec => []Inv
BY InitInv, NextInv, PTL DEF Spec

(* A call ends in one of four ways, and its result stays.                  *)
LEMMA Endings ==
    ASSUME [Next]_vars, phase' = "done"
    PROVE  \/ phase = "done" /\ UNCHANGED vars
           \/ Encrypt \/ Decrypt \/ RefuseResponses \/ RetrieveSecrets
<1>1. ASSUME NEW op \in Operators,
             \/ Rotate(op) \/ NoAnswer(op) \/ handleAppSign(op) \/ FaultySignature(op)
             \/ handleGetCommitments(op) \/ FaultyKey(op)
      PROVE  FALSE
  BY <1>1 DEF Rotate, NoAnswer, handleAppSign, FaultySignature, handleGetCommitments, FaultyKey
<1>2. ~Upgrade /\ ~AcceptResponses
  BY DEF Upgrade, AcceptResponses
<1>3. UNCHANGED vars => phase = "done"
  BY DEF vars
<1>4. QED
  BY <1>1, <1>2, <1>3, Zenon DEF Next

-----------------------------------------------------------------------------
(* A private key that decryptWithRetry or the check against the agreed     *)
(* public key accepts is the application's, for every prime, number of     *)
(* operators, keys and version each operator signed with, when fewer than  *)
(* a threshold of operators are faulty: a product that is equal modulo the *)
(* prime has equal factors, and what a threshold voted for is the key.     *)
THEOREM CheckedKeysAreTrue ==
    ASSUME FewFaulty
    PROVE  Spec => []CheckedKeyIsTrue
<1>1. Init => CheckedKeyIsTrue
  BY DEF Init, CheckedKeyIsTrue, Done
<1>2. ASSUME Inv, CheckedKeyIsTrue, [Next]_vars
      PROVE  CheckedKeyIsTrue'
  <2> SUFFICES ASSUME phase' = "done", kind' \in {"decrypt", "retrieve"}, result'.ok,
                      result'.via \in {"ciphertext", "vote"}
               PROVE  result'.key = AppPrivateKey
    BY DEF CheckedKeyIsTrue, Done
  <2>1. CASE phase = "done" /\ UNCHANGED vars
    BY <1>2, <2>1 DEF CheckedKeyIsTrue, Done, vars
  <2>2. CASE Encrypt
    BY <2>2 DEF Encrypt, call
  <2>3. CASE Decrypt
    <3>1. result' # Failed
      BY DEF Failed
    <3>2. PICK key \in decryptWithRetry : result' = [ok |-> TRUE, via |-> "ciphertext", key |-> key]
      BY <2>3, <3>1, Zenon DEF Decrypt, Finish
    <3>3. key \in Fr /\ DecryptForApp(key, Ciphertext)
      BY <1>2, <3>2, RetriedInField DEF decryptWithRetry, Inv
    <3>4. key = AppPrivateKey
      BY <3>3, OpensOnlyForTheApp
    <3>5. QED
      BY <3>2, <3>4
  <2>4. CASE RefuseResponses
    BY <2>4 DEF RefuseResponses, Finish, Failed
  <2>5. CASE RetrieveSecrets
    <3> DEFINE via == GetMasterPublicKey.via  mpk == GetMasterPublicKey.mpk
               verified == {k \in RecoverAppPrivateKeyWithRetry(sigs, threshold) :
                               VerifyAppPrivateKey(k, mpk)}
               found == IF via = "error" THEN {RecoverAppPrivateKey(sigs, threshold)} \ {0}
                        ELSE verified
               checked == via # "error"
    <3>1. \/ result' = [ok |-> FALSE, via |-> via]
          \/ \E k \in found, op \in DOMAIN envs :
                result' = [ok |-> TRUE, via |-> via, verified |-> checked, key |-> k, env |-> envs[op]]
      BY <2>5, Zenon DEF RetrieveSecrets, Finish
    <3> HIDE DEF via, mpk, found, checked
    <3>2. PICK k \in found, op \in DOMAIN envs :
             result' = [ok |-> TRUE, via |-> via, verified |-> checked, key |-> k, env |-> envs[op]]
      BY <3>1
    <3>3. result'.via = via /\ result'.key = k
      BY <3>2
    <3>4. via = "vote"
      <4>1. via # "ciphertext"
        <5> DEFINE voted == CHOOSE m \in VotedKeys : TRUE
                   summed == ComputeMasterPublicKey(
                                [o \in DOMAIN answers |-> <<answers[o].commitment>>])
        <5>1. /\ [mpk |-> voted, via |-> "vote"].via # "ciphertext"
              /\ [mpk |-> summed, via |-> "sum"].via # "ciphertext"
              /\ NoMasterKey.via # "ciphertext"
          BY DEF NoMasterKey
        <5>2. QED
          BY <5>1, KeyIsOneOfThree, Zenon DEF via
      <4>2. QED
        BY <3>3, <4>1
    <3>5. mpk = MasterPublicKey
      BY <1>2, <3>4, AgreedIsTrue DEF via, mpk, Inv
    <3>6. k \in verified
      BY <3>2, <3>4 DEF found
    <3>7. k \in Fr /\ VerifyAppPrivateKey(k, MasterPublicKey)
      BY <1>2, <3>5, <3>6, RetriedInField DEF Inv
    <3>8. QED
      BY <3>3, <3>7, VerifiedIsTheAppKey
  <2>6. QED
    BY <1>2, <2>1, <2>2, <2>3, <2>4, <2>5, Endings
<1>3. Inv /\ CheckedKeyIsTrue /\ [Next]_vars => CheckedKeyIsTrue'
  BY <1>2
<1>4. QED
  BY <1>1, <1>3, InvHolds, PTL DEF Spec

(* What Encrypt makes with an agreed key opens with the application's      *)
(* private key, whatever faulty operators served and whichever versions    *)
(* the others were on, when fewer than a threshold are faulty and the key  *)
(* is not the zero point, which EncryptForApp refuses.                     *)
THEOREM AgreedKeysEncryptForTheApp ==
    ASSUME FewFaulty, MasterPublicKey # 0
    PROVE  Spec => []EncryptedForTheApp
<1>1. Init => EncryptedForTheApp
  BY DEF Init, EncryptedForTheApp, Done
<1>2. ASSUME Inv, EncryptedForTheApp, [Next]_vars
      PROVE  EncryptedForTheApp'
  <2> SUFFICES ASSUME phase' = "done", kind' = "encrypt", result'.ok, result'.via = "vote"
               PROVE  DecryptForApp(AppPrivateKey, result'.ciphertext)
    BY DEF EncryptedForTheApp, Done
  <2>1. CASE phase = "done" /\ UNCHANGED vars
    BY <1>2, <2>1 DEF EncryptedForTheApp, Done, vars
  <2>2. CASE Encrypt
    <3> DEFINE via == GetMasterPublicKey.via  mpk == GetMasterPublicKey.mpk
               ciphertext == EncryptForApp(mpk, "data", Randomness)
    <3>1. result' = Failed \/ result' = [ok |-> TRUE, via |-> via, ciphertext |-> ciphertext]
      BY <2>2, Zenon DEF Encrypt, Finish
    <3>2. result' # Failed
      BY DEF Failed
    <3> HIDE DEF via, ciphertext
    <3>3. via = "vote" /\ result'.ciphertext = ciphertext
      BY <3>1, <3>2
    <3>4. mpk = MasterPublicKey
      BY <1>2, <3>3, AgreedIsTrue DEF via, Inv
    <3>5. ciphertext = EncryptForApp(MasterPublicKey, "data", Randomness)
      BY <3>4, Zenon DEF ciphertext
    <3>6. QED
      BY <3>3, <3>5, AppOpens, Zenon
  <2>3. CASE Decrypt \/ RefuseResponses \/ RetrieveSecrets
    BY <2>3 DEF Decrypt, RefuseResponses, RetrieveSecrets, call
  <2>4. QED
    BY <1>2, <2>1, <2>2, <2>3, Endings
<1>3. Inv /\ EncryptedForTheApp /\ [Next]_vars => EncryptedForTheApp'
  BY <1>2
<1>4. QED
  BY <1>1, <1>3, InvHolds, PTL DEF Spec

(* The encrypted environment a retrieval returns is the one every honest   *)
(* operator that answered read from the chain, whoever is faulty and       *)
(* however the release changes while the operators are asked. Each         *)
(* response carries its public environment as well, of which this says     *)
(* nothing.                                                                *)
THEOREM EncryptedEnvsAgree == Spec => []EncryptedEnvAgreed
<1>1. Init => EncryptedEnvAgreed
  BY DEF Init, EncryptedEnvAgreed, Done
<1>2. ASSUME Inv, EncryptedEnvAgreed, [Next]_vars
      PROVE  EncryptedEnvAgreed'
  <2> SUFFICES ASSUME phase' = "done", kind' = "retrieve", result'.ok, ~stack',
                      NEW op \in DOMAIN signedWith'
               PROVE  envs'[op].encrypted = result'.env.encrypted
    BY DEF EncryptedEnvAgreed, Done
  <2>1. CASE phase = "done" /\ UNCHANGED vars
    BY <1>2, <2>1 DEF EncryptedEnvAgreed, Done, vars
  <2>2. CASE Encrypt \/ Decrypt
    BY <2>2 DEF Encrypt, Decrypt, call
  <2>3. CASE RefuseResponses
    BY <2>3 DEF RefuseResponses, Finish, Failed
  <2>4. CASE RetrieveSecrets
    <3> DEFINE via == GetMasterPublicKey.via  checked == via # "error"
    <3>1. \/ result' = [ok |-> FALSE, via |-> via]
          \/ \E k, o : /\ o \in DOMAIN envs
                       /\ result' = [ok |-> TRUE, via |-> via, verified |-> checked,
                                   key |-> k, env |-> envs[o]]
      BY <2>4, Zenon DEF RetrieveSecrets, Finish
    <3> HIDE DEF via, checked
    <3>2. PICK k, o : /\ o \in DOMAIN envs
                      /\ result' = [ok |-> TRUE, via |-> via, verified |-> checked,
                                   key |-> k, env |-> envs[o]]
      BY <3>1
    <3>3. result'.env = envs[o]
      BY <3>2
    <3>4. /\ kind = "retrieve" /\ phase = "key" /\ ~stack
          /\ envs' = envs /\ signedWith' = signedWith
      BY <2>4 DEF RetrieveSecrets, call
    <3>5. op \in DOMAIN envs /\ SameEnv
      BY <1>2, <3>4 DEF Inv, EnvInv
    <3>6. QED
      BY <3>2, <3>3, <3>4, <3>5 DEF SameEnv
  <2>5. QED
    BY <1>2, <2>1, <2>2, <2>3, <2>4, Endings
<1>3. Inv /\ EncryptedEnvAgreed /\ [Next]_vars => EncryptedEnvAgreed'
  BY <1>2
<1>4. QED
  BY <1>1, <1>3, InvHolds, PTL DEF Spec

-----------------------------------------------------------------------------
(* That the search finds the key.                                          *)

(* A set has parts of every smaller size.                                  *)
LEMMA PartOfSize ==
    ASSUME NEW S, IsFiniteSet(S), NEW k \in Nat, Cardinality(S) >= k
    PROVE  \E c \in SUBSET S : Cardinality(c) = k
<1> DEFINE C == {s \in SUBSET S : Cardinality(s) >= k => \E c \in SUBSET s : Cardinality(c) = k}
<1>1. ASSUME NEW s \in SUBSET S, \A x \in s : s \ {x} \in C
      PROVE  s \in C
  <2> SUFFICES ASSUME Cardinality(s) >= k
               PROVE  \E c \in SUBSET s : Cardinality(c) = k
    OBVIOUS
  <2>1. IsFiniteSet(s) /\ Cardinality(s) \in Nat
    BY FS_Subset, FS_CardinalityType
  <2>2. CASE Cardinality(s) = k
    BY <2>2
  <2>3. CASE Cardinality(s) > k
    <3>1. PICK x \in s : TRUE
      BY <2>1, <2>3, FS_EmptySet
    <3>2. Cardinality(s \ {x}) = Cardinality(s) - 1
      BY <2>1, <3>1, FS_RemoveElement
    <3>3. s \ {x} \in C
      BY <1>1, <3>1
    <3>4. Cardinality(s \ {x}) >= k
      BY <2>1, <2>3, <3>2
    <3>5. QED
      BY <3>3, <3>4
  <2>4. QED
    BY <2>1, <2>2, <2>3
<1> HIDE DEF C
<1>2. S \in C
  <2>1. \A s \in SUBSET S : (\A x \in s : s \ {x} \in C) => s \in C
    BY <1>1
  <2>2. \A s \in SUBSET S : s \in C
    BY <2>1, AllSubsets
  <2>3. QED
    BY <2>2
<1>3. QED
  BY <1>2 DEF C

(* A set without one of its elements is smaller.                           *)
LEMMA OneLess ==
    ASSUME NEW S, IsFiniteSet(S), NEW x \in S, NEW T \in SUBSET (S \ {x})
    PROVE  Cardinality(T) < Cardinality(S)
<1>1. /\ IsFiniteSet(S \ {x}) /\ Cardinality(S \ {x}) = Cardinality(S) - 1
      /\ Cardinality(S) \in Nat
  BY FS_RemoveElement, FS_CardinalityType
<1>2. Cardinality(T) <= Cardinality(S \ {x}) /\ Cardinality(T) \in Nat
  BY <1>1, FS_Subset, FS_CardinalityType
<1>3. QED
  BY <1>1, <1>2

(* Of a threshold of signatures, all are the first threshold ones.         *)
LEMMA AllAreFirst ==
    ASSUME NEW c \in SUBSET Operators, Cardinality(c) = threshold
    PROVE  FirstOf(threshold, c) = c
<1> SUFFICES ASSUME NEW op \in c
             PROVE  Cardinality({p \in c : p < op}) < threshold
  BY DEF FirstOf
<1>1. ~(op < op)
  BY DEF Operators
<1>2. {p \in c : p < op} \in SUBSET (c \ {op})
  BY <1>1
<1>3. IsFiniteSet(c)
  BY FiniteParts
<1>4. QED
  BY <1>2, <1>3, OneLess

(* A threshold of partial signatures with the shares of one version        *)
(* interpolates to the application's private key.                          *)
LEMMA ThresholdRecovers ==
    ASSUME NEW v \in 1..2, NEW c \in SUBSET Operators, Cardinality(c) = threshold,
           NEW some, DOMAIN some = c,
           \A op \in c : some[op] = signAppIDWithVersion(KeyShares[op][v].share)
    PROVE  RecoverAppPrivateKey(some, threshold) = AppPrivateKey
<1> DEFINE first == [op \in c |-> some[op]]
<1>1. PICK F \in Determined(threshold) :
         F[0] = MasterPublicKey /\ \A op \in Operators : F[op] = KeyShares[op][v].share
  BY VersionSharing
<1>2. \A op \in c : F[op] \in Fr /\ first[op] = ScalarMul(AppHash, F[op])
  BY <1>1, PlacesOfOperators DEF Determined, signAppIDWithVersion
<1>3. AppHash \in Fr
  BY CryptoAssumption DEF Fr
<1>4. DOMAIN first = c
  OBVIOUS
<1>5. RecoverAppPrivateKey(some, threshold) = Interpolate(first)
  <2>1. ~(Cardinality(DOMAIN some) < threshold)
    BY ThresholdIsNumber
  <2>2. FirstOf(threshold, DOMAIN some) = c
    BY AllAreFirst
  <2>3. QED
    BY <2>1, <2>2, Zenon DEF RecoverAppPrivateKey, first
<1> HIDE DEF first
<1>6. Interpolate(first) = AtZero(c, first)
  BY <1>4, InterpolateIs
<1>7. AtZero(c, first) = ScalarMul(AppHash, AtZero(c, F))
  BY <1>2, <1>3, AtZeroScaled
<1>8. AtZero(c, F) = F[0]
  BY <1>1, ThresholdIsNumber DEF Determined
<1>9. QED
  BY <1>1, <1>5, <1>6, <1>7, <1>8 DEF AppPrivateKey, signAppIDWithVersion

(* Every combination of the collected signatures is attempted.             *)
LEMMA EveryCombination ==
    ASSUME SigsInv, AllAttempted, NEW c \in kSubset(threshold, DOMAIN sigs)
    PROVE  c \in Attempted(sigs, threshold)
<1> DEFINE combinations == kSubset(threshold, DOMAIN sigs)
           all == kSubset(threshold, Operators)
           earlier == {d \in combinations : Before(d, c)}
<1>1. IsFiniteSet(all)
  <2>1. IsFiniteSet(SUBSET Operators) /\ all \in SUBSET SUBSET Operators
    BY FiniteOperators, FS_SUBSET DEF kSubset
  <2> HIDE DEF all
  <2>2. QED
    BY <2>1, FS_Subset
<1>2. combinations \in SUBSET all /\ c \in all
  BY DEF SigsInv, kSubset
<1>3. earlier \in SUBSET (all \ {c})
  <2>1. ~Before(c, c)
    BY DEF Before
  <2>2. QED
    BY <1>2, <2>1
<1>4. Cardinality(earlier) < Cardinality(all)
  <2> HIDE DEF earlier, all
  <2>1. QED
    BY <1>1, <1>2, <1>3, OneLess
<1>5. Cardinality(all) \in Nat /\ Cardinality(earlier) \in Nat
      /\ Cardinality(all) <= DefaultMaxRecoveryAttempts
  <2>1. earlier \in SUBSET all
    BY <1>3
  <2> HIDE DEF earlier
  <2>2. QED
    BY <1>1, <2>1, FS_Subset, FS_CardinalityType DEF AllAttempted
<1>6. Cardinality(earlier) < DefaultMaxRecoveryAttempts
  <2> HIDE DEF earlier, all
  <2>1. QED
    BY <1>4, <1>5 DEF DefaultMaxRecoveryAttempts
<1>7. QED
  BY <1>6 DEF Attempted

(* What honest operators signed with, and that the client has it.          *)
HonestSigs ==
    /\ DOMAIN signedWith \subseteq Operators \ Faulty
    /\ \A op \in DOMAIN signedWith :
          /\ signedWith[op] \in 1..2
          /\ op \in DOMAIN sigs
          /\ sigs[op] = signAppIDWithVersion(KeyShares[op][signedWith[op]].share)
          /\ asOf = 1 => signedWith[op] = 1

(* Signatures of a threshold of honest operators with one version are      *)
(* among those the search combines, whatever else was collected.           *)
LEMMA HonestRecover ==
    ASSUME SigsInv, HonestSigs, AllAttempted, MasterPublicKey # 0,
           NEW v \in 1..2, Cardinality(HonestWith(v)) >= threshold
    PROVE  /\ AppPrivateKey \in RecoverAppPrivateKeyWithRetry(sigs, threshold)
           /\ ~(Cardinality(DOMAIN sigs) < threshold)
<1>1. /\ HonestWith(v) \in SUBSET DOMAIN sigs /\ DOMAIN sigs \in SUBSET Operators
      /\ \A op \in HonestWith(v) :
            sigs[op] = signAppIDWithVersion(KeyShares[op][v].share)
  BY DEF HonestWith, HonestSigs, SigsInv
<1>2. IsFiniteSet(DOMAIN sigs) /\ IsFiniteSet(HonestWith(v))
  BY <1>1, FiniteParts
<1>3. PICK c \in SUBSET HonestWith(v) : Cardinality(c) = threshold
  BY <1>2, PartOfSize, ThresholdIsNumber
<1>4. c \in Attempted(sigs, threshold)
  BY <1>1, <1>3, EveryCombination DEF kSubset
<1> DEFINE some == [op \in c |-> sigs[op]]
<1>5. DOMAIN some = c /\ c \in SUBSET Operators
      /\ \A op \in c : some[op] = signAppIDWithVersion(KeyShares[op][v].share)
  BY <1>1
<1> HIDE DEF some
<1>6. RecoverAppPrivateKey(some, threshold) = AppPrivateKey
  BY <1>3, <1>5, ThresholdRecovers
<1>7. AppPrivateKey # 0
  BY AppKeyIsUnit
<1>8. AppPrivateKey \in RecoverAppPrivateKeyWithRetry(sigs, threshold)
  BY <1>4, <1>6, <1>7, Zenon DEF RecoverAppPrivateKeyWithRetry, some
<1>9. Cardinality(HonestWith(v)) <= Cardinality(DOMAIN sigs)
      /\ Cardinality(HonestWith(v)) \in Nat /\ Cardinality(DOMAIN sigs) \in Nat
  BY <1>1, <1>2, FS_Subset, FS_CardinalityType
<1>10. QED
  BY <1>8, <1>9, ThresholdIsNumber

(* HonestSigs is invariant: no honest signature is the zero point that a   *)
(* decryption drops.                                                       *)
LEMMA HonestSigsHold ==
    ASSUME NoZeroShare
    PROVE  Spec => []HonestSigs
<1>1. Init => HonestSigs
  <2> SUFFICES ASSUME Init
               PROVE  HonestSigs
    OBVIOUS
  <2>1. DOMAIN signedWith = {}
    BY DEF Init
  <2>2. QED
    BY <2>1 DEF HonestSigs
<1>2. ASSUME Inv, HonestSigs, [Next]_vars
      PROVE  HonestSigs'
  <2>1. ASSUME NEW op \in Operators, handleAppSign(op)
        PROVE  HonestSigs'
    <3> DEFINE v == GetKeyVersionAtTime(op, asOf)
               sig == signAppIDWithVersion(KeyShares[op][v].share)
               env == IF stack THEN NoEnvironment ELSE release
    <3>1. v \in 1..2 /\ (asOf = 1 => v = 1)
      BY <1>2 DEF Inv, Typed, GetKeyVersionAtTime, Smaller
    <3>2. sig # 0
      <4>1. AppHash \in Fr \ {0}
        BY CryptoAssumption DEF Fr
      <4>2. KeyShares[op][v].share \in Fr \ {0}
        BY <3>1, SharesInField DEF NoZeroShare
      <4>3. QED
        BY <4>1, <4>2, FieldOperations DEF signAppIDWithVersion
    <3>3. /\ record(op, sig, env) /\ signedWith' = With(signedWith, op, v)
          /\ op \notin Faulty /\ asOf' = asOf
      BY <2>1 DEF handleAppSign, call
    <3>4. sigs' = With(sigs, op, sig)
      BY <3>2, <3>3 DEF record, collects
    <3>5. sig = signAppIDWithVersion(KeyShares[op][v].share)
      OBVIOUS
    <3> HIDE DEF v, sig, env
    <3>6. /\ DOMAIN sigs' = DOMAIN sigs \cup {op}
          /\ DOMAIN signedWith' = DOMAIN signedWith \cup {op}
          /\ \A p \in DOMAIN sigs' : sigs'[p] = IF p = op THEN sig ELSE sigs[p]
          /\ \A p \in DOMAIN signedWith' :
                signedWith'[p] = IF p = op THEN v ELSE signedWith[p]
      BY <3>3, <3>4 DEF With
    <3>7. DOMAIN signedWith' \subseteq Operators \ Faulty
      BY <1>2, <3>3, <3>6 DEF HonestSigs
    <3>8. ASSUME NEW p \in DOMAIN signedWith'
          PROVE  /\ signedWith'[p] \in 1..2 /\ p \in DOMAIN sigs'
                 /\ sigs'[p] = signAppIDWithVersion(KeyShares[p][signedWith'[p]].share)
                 /\ asOf' = 1 => signedWith'[p] = 1
      <4>1. CASE p = op
        BY <3>1, <3>3, <3>5, <3>6, <4>1
      <4>2. CASE p # op
        BY <1>2, <3>3, <3>6, <4>2 DEF HonestSigs
      <4>3. QED
        BY <4>1, <4>2
    <3>9. QED
      BY <3>7, <3>8 DEF HonestSigs
  <2>2. ASSUME NEW op \in Operators, FaultySignature(op)
        PROVE  HonestSigs'
    <3>1. PICK sig \in BogusSigs : sigs' = sigs \/ sigs' = With(sigs, op, sig)
      BY <2>2 DEF FaultySignature, record
    <3>2. op \in Faulty /\ UNCHANGED <<signedWith, asOf>>
      BY <2>2 DEF FaultySignature, call
    <3>3. \A p \in DOMAIN sigs : p # op => p \in DOMAIN sigs' /\ sigs'[p] = sigs[p]
      BY <3>1 DEF With
    <3>4. \A p \in DOMAIN signedWith : p # op
      BY <1>2, <3>2 DEF HonestSigs
    <3>5. QED
      BY <1>2, <3>2, <3>3, <3>4 DEF HonestSigs
  <2>3. CASE UNCHANGED <<sigs, signedWith, asOf>>
    BY <1>2, <2>3 DEF HonestSigs
  <2>4. ASSUME NEW op \in Operators,
               Rotate(op) \/ NoAnswer(op) \/ handleGetCommitments(op) \/ FaultyKey(op)
        PROVE  UNCHANGED <<sigs, signedWith, asOf>>
    BY <2>4 DEF Rotate, NoAnswer, handleGetCommitments, FaultyKey, call
  <2>5. Upgrade \/ Encrypt \/ Decrypt \/ RefuseResponses \/ AcceptResponses \/ RetrieveSecrets
           => UNCHANGED <<sigs, signedWith, asOf>>
    BY DEF Upgrade, Encrypt, Decrypt, RefuseResponses, AcceptResponses, RetrieveSecrets, call
  <2>6. UNCHANGED vars => UNCHANGED <<sigs, signedWith, asOf>>
    BY DEF vars
  <2>7. QED
    BY <1>2, <2>1, <2>2, <2>3, <2>4, <2>5, <2>6, Zenon DEF Next
<1>3. Inv /\ HonestSigs /\ [Next]_vars => HonestSigs'
  BY <1>2
<1>4. QED
  BY <1>1, <1>3, InvHolds, PTL DEF Spec

(* A decryption ends in success when an attempted combination yields the   *)
(* application's key.                                                      *)
LEMMA DecryptSucceeds ==
    ASSUME Decrypt, MasterPublicKey # 0,
           AppPrivateKey \in RecoverAppPrivateKeyWithRetry(sigs, threshold),
           ~(Cardinality(DOMAIN sigs) < threshold)
    PROVE  result'.ok
<1>1. DecryptForApp(AppPrivateKey, Ciphertext)
  BY AppOpens, Zenon DEF Ciphertext
<1>2. AppPrivateKey \in decryptWithRetry
  BY <1>1 DEF decryptWithRetry
<1>3. ~(Cardinality(DOMAIN sigs) < threshold \/ decryptWithRetry = {})
  BY <1>2
<1>4. PICK key \in decryptWithRetry : result' = [ok |-> TRUE, via |-> "ciphertext", key |-> key]
  BY <1>3, Zenon DEF Decrypt, Finish
<1>5. QED
  BY <1>4

(* So does a retrieval whose public key was agreed on.                     *)
LEMMA RetrieveSucceeds ==
    ASSUME FewFaulty, AnswersInv, RetrieveSecrets, result'.via = "vote",
           AppPrivateKey \in RecoverAppPrivateKeyWithRetry(sigs, threshold)
    PROVE  result'.ok
<1> DEFINE via == GetMasterPublicKey.via  mpk == GetMasterPublicKey.mpk
           verified == {k \in RecoverAppPrivateKeyWithRetry(sigs, threshold) :
                           VerifyAppPrivateKey(k, mpk)}
           found == IF via = "error" THEN {RecoverAppPrivateKey(sigs, threshold)} \ {0}
                    ELSE verified
           checked == via # "error"
<1>1. \/ found = {} /\ result' = [ok |-> FALSE, via |-> via]
      \/ \E k \in found, op \in DOMAIN envs :
            result' = [ok |-> TRUE, via |-> via, verified |-> checked, key |-> k, env |-> envs[op]]
  BY Zenon DEF RetrieveSecrets, Finish
<1> HIDE DEF via, mpk, found, checked
<1>2. via = "vote"
  BY <1>1
<1>3. mpk = MasterPublicKey
  BY <1>2, AgreedIsTrue DEF via, mpk
<1>4. VerifyAppPrivateKey(AppPrivateKey, MasterPublicKey)
  <2>1. AppPrivateKey * 1 = AppPrivateKey
    BY AppKeyInField, FieldOperations
  <2>2. ScalarMul(AppPrivateKey, 1) = AppPrivateKey
    BY <2>1, AppKeyInField, SmallStays DEF ScalarMul
  <2>3. QED
    BY <2>2 DEF VerifyAppPrivateKey, AppPrivateKey, signAppIDWithVersion
<1>5. AppPrivateKey \in verified
  BY <1>3, <1>4
<1>6. found # {}
  BY <1>2, <1>5 DEF found
<1>7. QED
  BY <1>1, <1>6

(* Once a threshold of honest operators signed with one version the client *)
(* recovers the key, with signatures of the other version and of faulty    *)
(* operators among those RecoverAppPrivateKeyWithRetry combines: for every *)
(* cluster in which fewer than a threshold of operators are faulty, no key *)
(* or share is zero and the limit of attempts excludes no combination.     *)
THEOREM RecoveryIsComplete ==
    ASSUME FewFaulty, MasterPublicKey # 0, NoZeroShare, AllAttempted
    PROVE  Spec => []RecoveryComplete
<1>1. Init => RecoveryComplete
  BY DEF Init, RecoveryComplete, Done
<1>2. ASSUME Inv, HonestSigs, RecoveryComplete, [Next]_vars
      PROVE  RecoveryComplete'
  <2> SUFFICES ASSUME NEW v \in 1..2, Cardinality(HonestWith(v)') >= threshold, phase' = "done",
                      \/ kind' = "decrypt"
                      \/ kind' = "retrieve" /\ "via" \in DOMAIN result' /\ result'.via = "vote"
               PROVE  result'.ok
    BY DEF RecoveryComplete, Done
  <2>1. CASE phase = "done" /\ UNCHANGED vars
    <3>1. HonestWith(v)' = HonestWith(v)
      BY <2>1 DEF HonestWith, vars
    <3>2. kind' = kind /\ result' = result
      BY <2>1 DEF vars
    <3>3. QED
      BY <1>2, <2>1, <3>1, <3>2 DEF RecoveryComplete, Done
  <2>2. CASE Encrypt
    BY <2>2 DEF Encrypt, call
  <2>3. CASE RefuseResponses
    BY <2>3 DEF RefuseResponses, Finish, Failed, call
  <2>4. ASSUME Decrypt \/ RetrieveSecrets
        PROVE  /\ AppPrivateKey \in RecoverAppPrivateKeyWithRetry(sigs, threshold)
               /\ ~(Cardinality(DOMAIN sigs) < threshold)
    <3>1. signedWith' = signedWith
      BY <2>4 DEF Decrypt, RetrieveSecrets
    <3>2. HonestWith(v)' = HonestWith(v)
      BY <3>1 DEF HonestWith
    <3>3. QED
      BY <1>2, <3>2, HonestRecover DEF Inv
  <2>5. CASE Decrypt
    BY <2>4, <2>5, DecryptSucceeds
  <2>6. CASE RetrieveSecrets
    <3>1. kind' = "retrieve"
      BY <2>6 DEF RetrieveSecrets, call
    <3>2. QED
      BY <1>2, <2>4, <2>6, <3>1, RetrieveSucceeds DEF Inv
  <2>7. QED
    BY <1>2, <2>1, <2>2, <2>3, <2>5, <2>6, Endings
<1>3. Inv /\ HonestSigs /\ RecoveryComplete /\ [Next]_vars => RecoveryComplete'
  BY <1>2
<1>4. QED
  BY <1>1, <1>3, InvHolds, HonestSigsHold, PTL DEF Spec

(* A decryption pinned to a time before the rotation needs a threshold of  *)
(* honest answers and no more: GetKeyVersionAtTime makes all of them sign  *)
(* with version 1, however the operators rotate while they are asked and   *)
(* however many operators are faulty.                                      *)
THEOREM PinnedRecovery ==
    ASSUME MasterPublicKey # 0, NoZeroShare, AllAttempted
    PROVE  Spec => []PinnedSurvivesRotation
<1>1. Init => PinnedSurvivesRotation
  BY DEF Init, PinnedSurvivesRotation, Done
<1>2. ASSUME Inv, HonestSigs, PinnedSurvivesRotation, [Next]_vars
      PROVE  PinnedSurvivesRotation'
  <2> SUFFICES ASSUME phase' = "done", kind' = "decrypt", asOf' = 1,
                      Cardinality(DOMAIN signedWith') >= threshold
               PROVE  result'.ok
    BY DEF PinnedSurvivesRotation, Done
  <2>1. CASE phase = "done" /\ UNCHANGED vars
    BY <1>2, <2>1 DEF PinnedSurvivesRotation, Done, vars
  <2>2. CASE Encrypt \/ RefuseResponses \/ RetrieveSecrets
    BY <2>2 DEF Encrypt, RefuseResponses, RetrieveSecrets, call
  <2>3. CASE Decrypt
    <3>1. signedWith' = signedWith /\ asOf = 1
      BY <2>3 DEF Decrypt, call
    <3>2. HonestWith(1) = DOMAIN signedWith
      BY <1>2, <3>1 DEF HonestWith, HonestSigs
    <3>3. 1 \in 1..2 /\ Cardinality(HonestWith(1)) >= threshold
      BY <3>1, <3>2
    <3>4. /\ AppPrivateKey \in RecoverAppPrivateKeyWithRetry(sigs, threshold)
          /\ ~(Cardinality(DOMAIN sigs) < threshold)
      BY <1>2, <3>3, HonestRecover DEF Inv
    <3>5. QED
      BY <2>3, <3>4, DecryptSucceeds
  <2>4. QED
    BY <1>2, <2>1, <2>2, <2>3, Endings
<1>3. Inv /\ HonestSigs /\ PinnedSurvivesRotation /\ [Next]_vars => PinnedSurvivesRotation'
  BY <1>2
<1>4. QED
  BY <1>1, <1>3, InvHolds, HonestSigsHold, PTL DEF Spec
=============================================================================
