------------------------- MODULE EtcdOperatorProofs -------------------------
(***************************************************************************)
(* Proofs about EtcdOperator, for any number of ordinals, edits and faults. *)
(***************************************************************************)
EXTENDS EtcdOperator, FiniteSetTheorems, WellFoundedInduction, TLAPS

\* Every set of ordinals is finite, so what len counts in the code is a number.
LEMMA OrdinalsFinite ==
  ASSUME NEW S \in SUBSET Ordinals
  PROVE  IsFiniteSet(S) /\ Cardinality(S) \in Nat
<1>1. IsFiniteSet(Ordinals)
  BY ConstantsAssumption, FS_Interval DEF Ordinals
<1> QED
  BY <1>1, FS_Subset, FS_CardinalityType

\* A set of numbers has a least one.
LEMMA LeastNumber ==
  ASSUME NEW T, T \subseteq Nat, T # {}
  PROVE  \E i \in T : \A j \in T : i <= j
<1> DEFINE R == OpToRel(<, Nat)
<1>1. PICK i \in T : \A j \in T : <<j, i>> \notin R
  BY NatLessThanWellFounded, WFMin
<1>2. \A j \in T : ~(j < i)
  BY <1>1 DEF OpToRel
<1> QED
  BY <1>2

\* nextAvailablePeerName finds a name that no peer of the list has.
LEMMA NextNameIsFree ==
  ASSUME NEW S \in SUBSET Ordinals
  PROVE  nextAvailablePeerName(S) \in 0..Cardinality(S) /\ nextAvailablePeerName(S) \notin S
<1> DEFINE n == Cardinality(S)
           Free == {i \in 0..n : i \notin S}
<1>1. IsFiniteSet(S) /\ n \in Nat
  BY OrdinalsFinite
<1>2. Free # {}
  <2>1. Cardinality(0..n) = n + 1
    BY <1>1, FS_Interval
  <2> SUFFICES ASSUME 0..n \in SUBSET S PROVE FALSE
    OBVIOUS
  <2>2. Cardinality(0..n) <= n
    BY <1>1, FS_Subset
  <2> QED
    BY <1>1, <2>1, <2>2
<1>3. PICK i \in Free : \A j \in Free : i <= j
  <2>1. Free \subseteq Nat
    BY <1>1
  <2> HIDE DEF Free
  <2> QED
    BY <1>2, <2>1, LeastNumber
<1>4. \A j \in 0..(i - 1) : j \in S
  BY <1>1, <1>3
<1>5. \E k \in 0..n : k \notin S /\ \A j \in 0..(k - 1) : j \in S
  BY <1>3, <1>4
<1> QED
  BY <1>5 DEF nextAvailablePeerName
-----------------------------------------------------------------------------
(* The order of names.  Names are sorted as strings, so this is about decimal *)
(* digits, and what the recursive Pow10 computes.                            *)

\* Induction for a set of numbers.
LEMMA AllNumbers ==
  ASSUME NEW T, 0 \in T, \A n \in Nat : n \in T => n + 1 \in T
  PROVE  Nat \subseteq T
<1> SUFFICES ASSUME Nat \ T # {} PROVE FALSE
  OBVIOUS
<1>1. PICK n \in Nat \ T : \A m \in Nat \ T : n <= m
  <2> DEFINE U == Nat \ T
  <2>1. U \subseteq Nat /\ U # {}
    OBVIOUS
  <2> HIDE DEF U
  <2>2. \E i \in U : \A j \in U : i <= j
    BY <2>1, LeastNumber
  <2> QED
    BY <2>2 DEF U
<1>2. n # 0
  OBVIOUS
<1>3. n - 1 \in Nat /\ n - 1 \in T
  BY <1>1, <1>2
<1>4. (n - 1) + 1 \in T
  BY <1>3
<1> QED
  BY <1>4

\* g holds the powers of ten up to the n-th.
powersTo(n, g) ==
  /\ g \in [0..n -> Nat \ {0}] /\ g[0] = 1
  /\ \A m \in 1..n : g[m] = 10 * g[m - 1]

\* The equation that defines the powers of ten has a solution.
LEMMA Pow10Def ==
  /\ Pow10 \in [Nat -> Nat \ {0}]
  /\ Pow10[0] = 1
  /\ \A n \in Nat : Pow10[n + 1] = 10 * Pow10[n]
<1>1. \A n \in Nat : \E g : powersTo(n, g)
  <2> DEFINE T == {n \in Nat : \E g : powersTo(n, g)}
  <2>1. 0 \in T
    <3>1. powersTo(0, [m \in 0..0 |-> 1])
      BY DEF powersTo
    <3> QED
      BY <3>1
  <2>2. ASSUME NEW n \in Nat, n \in T PROVE n + 1 \in T
    <3>1. PICK g : powersTo(n, g)
      BY <2>2
    <3> DEFINE h == [m \in 0..(n + 1) |-> IF m = n + 1 THEN 10 * g[n] ELSE g[m]]
    <3>2. g[n] \in Nat \ {0} /\ 10 * g[n] \in Nat \ {0}
      BY <3>1 DEF powersTo
    <3>3. h \in [0..(n + 1) -> Nat \ {0}] /\ h[0] = 1
      BY <3>1, <3>2 DEF powersTo
    <3>4. ASSUME NEW m \in 1..(n + 1) PROVE h[m] = 10 * h[m - 1]
      <4>1. m - 1 \in 0..n /\ h[m - 1] = g[m - 1]
        OBVIOUS
      <4>2. CASE m = n + 1
        BY <4>1, <4>2
      <4>3. CASE m # n + 1
        BY <3>1, <4>1, <4>3 DEF powersTo
      <4> QED
        BY <4>2, <4>3
    <3>5. powersTo(n + 1, h)
      BY <3>3, <3>4 DEF powersTo
    <3> QED
      BY <3>5
  <2>3. \A n \in Nat : n \in T => n + 1 \in T
    BY <2>2
  <2>4. Nat \subseteq T
    <3> HIDE DEF T
    <3> QED
      BY <2>1, <2>3, AllNumbers
  <2> QED
    BY <2>4
<1>2. ASSUME NEW n \in Nat, NEW g, powersTo(n, g), NEW h, powersTo(n + 1, h)
      PROVE  g[n] = h[n]
  <2> DEFINE T == {k \in Nat : k <= n => g[k] = h[k]}
  <2>1. 0 \in T
    BY <1>2 DEF powersTo
  <2>2. ASSUME NEW k \in Nat, k \in T PROVE k + 1 \in T
    <3> SUFFICES ASSUME k + 1 <= n PROVE g[k + 1] = h[k + 1]
      OBVIOUS
    <3>1. g[k] = h[k]
      BY <2>2
    <3>2. k + 1 \in 1..n /\ k + 1 \in 1..(n + 1) /\ (k + 1) - 1 = k
      OBVIOUS
    <3>3. g[k + 1] = 10 * g[k] /\ h[k + 1] = 10 * h[k]
      BY <1>2, <3>2 DEF powersTo
    <3> QED
      BY <3>1, <3>3
  <2>3. \A k \in Nat : k \in T => k + 1 \in T
    BY <2>2
  <2>4. Nat \subseteq T
    <3> HIDE DEF T
    <3> QED
      BY <2>1, <2>3, AllNumbers
  <2> QED
    BY <2>4
<1> DEFINE up(n) == CHOOSE g : powersTo(n, g)
           f == [n \in Nat |-> up(n)[n]]
<1>3. \A n \in Nat : powersTo(n, up(n))
  BY <1>1
<1> HIDE DEF up
<1>4. ASSUME NEW n \in Nat PROVE f[n] \in Nat \ {0}
  BY <1>3 DEF powersTo
<1>5. f[0] = 1
  BY <1>3 DEF powersTo
<1>6. ASSUME NEW n \in Nat PROVE f[n + 1] = 10 * f[n]
  <2>1. up(n + 1)[n + 1] = 10 * up(n + 1)[n]
    <3>1. n + 1 \in 1..(n + 1) /\ (n + 1) - 1 = n
      OBVIOUS
    <3> QED
      BY <1>3, <3>1 DEF powersTo
  <2>2. up(n)[n] = up(n + 1)[n]
    BY <1>2, <1>3
  <2> QED
    BY <2>1, <2>2
<1>7. f = [n \in Nat |-> IF n = 0 THEN 1 ELSE 10 * f[n - 1]]
  <2>1. ASSUME NEW n \in Nat, n # 0 PROVE f[n] = 10 * f[n - 1]
    <3>1. n - 1 \in Nat /\ (n - 1) + 1 = n
      BY <2>1
    <3> HIDE DEF f
    <3> QED
      BY <1>6, <3>1
  <2>2. \A n \in Nat : f[n] = IF n = 0 THEN 1 ELSE 10 * f[n - 1]
    <3> HIDE DEF f
    <3> QED
      BY <1>5, <2>1
  <2>3. DOMAIN f = Nat /\ f = [n \in Nat |-> f[n]]
    OBVIOUS
  <2> HIDE DEF f
  <2> QED
    BY <2>2, <2>3
<1>8. Pow10 = [n \in Nat |-> IF n = 0 THEN 1 ELSE 10 * Pow10[n - 1]]
  <2> HIDE DEF f
  <2>1. \E g : g = [n \in Nat |-> IF n = 0 THEN 1 ELSE 10 * g[n - 1]]
    BY <1>7
  <2> QED
    BY <2>1 DEF Pow10
<1>9. Pow10[0] = 1
  BY <1>8
<1>10. \A n \in Nat : Pow10[n + 1] = 10 * Pow10[n]
  <2> SUFFICES ASSUME NEW n \in Nat PROVE Pow10[n + 1] = 10 * Pow10[n]
    OBVIOUS
  <2>1. n + 1 \in Nat /\ n + 1 # 0 /\ (n + 1) - 1 = n
    OBVIOUS
  <2> QED
    BY <1>8, <2>1
<1>11. Nat \subseteq {n \in Nat : Pow10[n] \in Nat \ {0}}
  <2> DEFINE T == {n \in Nat : Pow10[n] \in Nat \ {0}}
  <2>1. 0 \in T
    BY <1>9
  <2>2. \A n \in Nat : n \in T => n + 1 \in T
    BY <1>10
  <2> HIDE DEF T
  <2>3. Nat \subseteq T
    BY <2>1, <2>2, AllNumbers
  <2> QED
    BY <2>3 DEF T
<1>12. Pow10 \in [Nat -> Nat \ {0}]
  <2>1. DOMAIN Pow10 = Nat /\ Pow10 = [n \in Nat |-> Pow10[n]]
    BY <1>8
  <2> QED
    BY <1>11, <2>1
<1> QED
  BY <1>9, <1>10, <1>12

\* Powers of ten multiply.
LEMMA Pow10Sum == \A m, n \in Nat : Pow10[m + n] = Pow10[m] * Pow10[n]
<1> SUFFICES ASSUME NEW m \in Nat PROVE \A n \in Nat : Pow10[m + n] = Pow10[m] * Pow10[n]
  OBVIOUS
<1> DEFINE T == {n \in Nat : Pow10[m + n] = Pow10[m] * Pow10[n]}
<1>1. 0 \in T
  BY Pow10Def
<1>2. ASSUME NEW n \in Nat, n \in T PROVE n + 1 \in T
  <2>1. Pow10[m + (n + 1)] = 10 * Pow10[m + n]
    <3>1. m + (n + 1) = (m + n) + 1 /\ m + n \in Nat
      OBVIOUS
    <3> QED
      BY <3>1, Pow10Def
  <2>2. Pow10[m + n] = Pow10[m] * Pow10[n] /\ Pow10[n + 1] = 10 * Pow10[n]
    BY <1>2, Pow10Def
  <2>3. \A a, b \in Nat : 10 * (a * b) = a * (10 * b)
    OBVIOUS
  <2>4. Pow10[m] \in Nat /\ Pow10[n] \in Nat
    BY Pow10Def
  <2>5. Pow10[m + (n + 1)] = Pow10[m] * Pow10[n + 1]
    BY <2>1, <2>2, <2>3, <2>4
  <2> QED
    BY <2>5
<1>3. \A n \in Nat : n \in T => n + 1 \in T
  BY <1>2
<1>4. Nat \subseteq T
  <2> HIDE DEF T
  <2> QED
    BY <1>1, <1>3, AllNumbers
<1> QED
  BY <1>4

\* Every number has a number of digits.
LEMMA DigitsType == \A i \in Nat : Digits(i) \in Nat
<1>1. \A n \in Nat : n < Pow10[n]
  <2> DEFINE T == {n \in Nat : n < Pow10[n]}
  <2>1. 0 \in T
    BY Pow10Def
  <2>2. ASSUME NEW n \in Nat, n \in T PROVE n + 1 \in T
    <3>1. Pow10[n + 1] = 10 * Pow10[n] /\ Pow10[n] \in Nat
      BY Pow10Def
    <3> QED
      BY <2>2, <3>1
  <2>3. \A n \in Nat : n \in T => n + 1 \in T
    BY <2>2
  <2>4. Nat \subseteq T
    <3> HIDE DEF T
    <3> QED
      BY <2>1, <2>3, AllNumbers
  <2> QED
    BY <2>4
<1> SUFFICES ASSUME NEW i \in Nat PROVE Digits(i) \in Nat
  OBVIOUS
<1> DEFINE T == {k \in 1..(i + 1) : i < Pow10[k]}
<1>2. i + 1 \in T
  <2>1. i + 1 < Pow10[i + 1] /\ Pow10[i + 1] \in Nat
    BY <1>1, Pow10Def
  <2> QED
    BY <2>1
<1>3. PICK k \in T : \A l \in T : k <= l
  <2>1. T \subseteq Nat
    OBVIOUS
  <2> HIDE DEF T
  <2> QED
    BY <1>2, <2>1, LeastNumber
<1>4. \A l \in 1..(k - 1) : i >= Pow10[l]
  <2> SUFFICES ASSUME NEW l \in 1..(k - 1) PROVE i >= Pow10[l]
    OBVIOUS
  <2>1. l \in 1..(i + 1) /\ l \notin T
    BY <1>3
  <2>2. Pow10[l] \in Nat
    BY Pow10Def
  <2> QED
    BY <2>1, <2>2
<1>5. \E j \in 1..(i + 1) : i < Pow10[j] /\ \A l \in 1..(j - 1) : i >= Pow10[l]
  BY <1>3, <1>4
<1>6. Digits(i) \in 1..(i + 1)
  BY <1>5 DEF Digits
<1> QED
  BY <1>6

\* Scaling by a positive factor keeps the order of numbers, and undoes a division.
LEMMA Scaled ==
  ASSUME NEW a \in Nat, NEW b \in Nat, NEW k \in Nat \ {0}
  PROVE  /\ (a < b) <=> (a * k < b * k)
         /\ (a <= b) <=> (a * k <= b * k)
         /\ (a \div k < b) <=> (a < b * k)
<1>1. a < b => a * k < b * k
  OBVIOUS
<1>2. b <= a => b * k <= a * k
  OBVIOUS
<1>3. b < a => b * k < a * k
  OBVIOUS
<1>4. a <= b => a * k <= b * k
  OBVIOUS
<1>5. a * k \in Nat /\ b * k \in Nat
  OBVIOUS
<1>6. (a \div k < b) <=> (a < b * k)
  <2>1. a \div k \in Nat /\ a % k \in 0..(k - 1) /\ a = k * (a \div k) + (a % k)
    OBVIOUS
  <2> DEFINE d == a \div k
             r == a % k
  <2> HIDE DEF d, r
  <2>2. d \in Nat /\ r \in 0..(k - 1) /\ a = k * d + r
    BY <2>1 DEF d, r
  <2>3. d < b => a < b * k
    <3> SUFFICES ASSUME d + 1 <= b PROVE a < b * k
      BY <2>2
    <3>1. (d + 1) * k <= b * k
      BY <2>2
    <3>2. (d + 1) * k = k * d + k
      BY <2>2
    <3> QED
      BY <2>2, <3>1, <3>2, <1>5
  <2>4. b <= d => b * k <= a
    <3> SUFFICES ASSUME b <= d PROVE b * k <= a
      OBVIOUS
    <3>1. b * k <= d * k
      BY <2>2
    <3>2. d * k = k * d /\ k * d \in Nat
      BY <2>2
    <3> QED
      BY <2>2, <3>1, <3>2, <1>5
  <2>5. (d < b) <=> (a < b * k)
    BY <2>2, <2>3, <2>4, <1>5
  <2> QED
    BY <2>5 DEF d
<1> QED
  BY <1>1, <1>2, <1>3, <1>4, <1>5, <1>6

\* Names compare as their ordinals do once those are padded to the same length.
LEMMA NameLessPadded ==
  ASSUME NEW i \in Nat, NEW j \in Nat, NEW M \in Nat, Digits(i) <= M, Digits(j) <= M
  PROVE  NameLess(i, j) <=>
           \/ i * Pow10[M - Digits(i)] < j * Pow10[M - Digits(j)]
           \/ i * Pow10[M - Digits(i)] = j * Pow10[M - Digits(j)] /\ Digits(i) < Digits(j)
<1> DEFINE di == Digits(i)
           dj == Digits(j)
           ki == Pow10[M - di]
           kj == Pow10[M - dj]
<1>1. di \in Nat /\ dj \in Nat
  BY DigitsType
<1>2. ki \in Nat \ {0} /\ kj \in Nat \ {0}
  BY <1>1, Pow10Def
<1>3. i * ki \in Nat /\ j * kj \in Nat
  BY <1>2
<1>4. CASE di = dj
  <2>1. (i < j) <=> (i * ki < j * ki)
    BY <1>2, Scaled
  <2> QED
    BY <1>1, <1>4, <2>1 DEF NameLess
<1>5. CASE di < dj
  <2> DEFINE q == Pow10[dj - di]
  <2>1. q \in Nat \ {0} /\ ki = q * kj
    <3>1. dj - di \in Nat /\ M - dj \in Nat /\ M - di = (dj - di) + (M - dj)
      BY <1>1, <1>5
    <3>2. q \in Nat \ {0}
      BY <3>1, Pow10Def
    <3>3. Pow10[(dj - di) + (M - dj)] = q * kj
      BY <3>1, Pow10Sum
    <3> QED
      BY <3>1, <3>2, <3>3
  <2>2. (i * q <= j) <=> ((i * q) * kj <= j * kj)
    <3>1. i * q \in Nat
      BY <2>1
    <3> HIDE DEF q, kj
    <3> QED
      BY <1>2, <3>1, Scaled
  <2>3. (i * q) * kj = i * ki
    <3>1. \A a, b, m \in Nat : (a * b) * m = a * (b * m)
      OBVIOUS
    <3> HIDE DEF q, kj, ki
    <3> QED
      BY <1>2, <2>1, <3>1
  <2>4. NameLess(i, j) <=> (i * q <= j)
    BY <1>1, <1>5 DEF NameLess
  <2> HIDE DEF q, ki, kj, di, dj
  <2>5. NameLess(i, j) <=> (i * ki <= j * kj)
    BY <2>2, <2>3, <2>4
  <2>6. NameLess(i, j) <=> (i * ki < j * kj) \/ (i * ki = j * kj /\ di < dj)
    BY <1>3, <1>5, <2>5
  <2> QED
    BY <2>6 DEF ki, kj, di, dj
<1>6. CASE dj < di
  <2> DEFINE q == Pow10[di - dj]
  <2>1. q \in Nat \ {0} /\ kj = q * ki
    <3>1. di - dj \in Nat /\ M - di \in Nat /\ M - dj = (di - dj) + (M - di)
      BY <1>1, <1>6
    <3>2. q \in Nat \ {0}
      BY <3>1, Pow10Def
    <3>3. Pow10[(di - dj) + (M - di)] = q * ki
      BY <3>1, Pow10Sum
    <3> QED
      BY <3>1, <3>2, <3>3
  <2>2. (i \div q < j) <=> (i < j * q)
    <3> HIDE DEF q
    <3> QED
      BY <2>1, Scaled
  <2>3. (i < j * q) <=> (i * ki < (j * q) * ki)
    <3>1. j * q \in Nat
      BY <2>1
    <3> HIDE DEF q, ki
    <3> QED
      BY <1>2, <3>1, Scaled
  <2>4. (j * q) * ki = j * kj
    <3>1. \A a, b, m \in Nat : (a * b) * m = a * (b * m)
      OBVIOUS
    <3> HIDE DEF q, kj, ki
    <3> QED
      BY <1>2, <2>1, <3>1
  <2>5. NameLess(i, j) <=> (i \div q < j)
    BY <1>1, <1>6 DEF NameLess
  <2> HIDE DEF q, ki, kj, di, dj
  <2>6. NameLess(i, j) <=> (i * ki < j * kj)
    BY <2>2, <2>3, <2>4, <2>5
  <2>7. NameLess(i, j) <=> (i * ki < j * kj) \/ (i * ki = j * kj /\ di < dj)
    BY <1>1, <1>6, <2>6
  <2> QED
    BY <2>7 DEF ki, kj, di, dj
<1> QED
  BY <1>1, <1>4, <1>5, <1>6

\* The controllers sort names by a strict total order.
THEOREM NameOrder ==
  /\ \A i, j \in Nat : NameLess(i, j) => ~NameLess(j, i)
  /\ \A i, j \in Nat : i # j => NameLess(i, j) \/ NameLess(j, i)
  /\ \A i, j, l \in Nat : NameLess(i, j) /\ NameLess(j, l) => NameLess(i, l)
<1> DEFINE key(i, M) == i * Pow10[M - Digits(i)]
           lex(i, j, M) == \/ key(i, M) < key(j, M)
                           \/ key(i, M) = key(j, M) /\ Digits(i) < Digits(j)
<1>1. ASSUME NEW i \in Nat, NEW M \in Nat, Digits(i) <= M PROVE key(i, M) \in Nat
  <2>1. Pow10[M - Digits(i)] \in Nat
    BY <1>1, DigitsType, Pow10Def
  <2> QED
    BY <2>1
<1>2. ASSUME NEW i \in Nat, NEW j \in Nat, NEW M \in Nat, Digits(i) <= M, Digits(j) <= M
      PROVE  NameLess(i, j) <=> lex(i, j, M)
  BY <1>2, NameLessPadded
<1>3. ASSUME NEW i \in Nat, NEW j \in Nat, NEW M \in Nat, Digits(i) <= M, Digits(j) <= M,
             key(i, M) = key(j, M), Digits(i) = Digits(j)
      PROVE  i = j
  <2> DEFINE k == Pow10[M - Digits(i)]
  <2>1. k \in Nat \ {0} /\ i * k = j * k
    BY <1>3, DigitsType, Pow10Def
  <2> HIDE DEF k
  <2>2. ~(i * k < j * k) /\ ~(j * k < i * k)
    BY <2>1
  <2>3. ~(i < j) /\ ~(j < i)
    BY <2>1, <2>2, Scaled
  <2> QED
    BY <2>3
<1> HIDE DEF key
<1>4. \A i, j, l \in Nat : \E M \in Nat : Digits(i) <= M /\ Digits(j) <= M /\ Digits(l) <= M
  <2> SUFFICES ASSUME NEW i \in Nat, NEW j \in Nat, NEW l \in Nat
               PROVE  \E M \in Nat : Digits(i) <= M /\ Digits(j) <= M /\ Digits(l) <= M
    OBVIOUS
  <2>1. Digits(i) \in Nat /\ Digits(j) \in Nat /\ Digits(l) \in Nat
    BY DigitsType
  <2> DEFINE M == Digits(i) + Digits(j) + Digits(l)
  <2>2. M \in Nat /\ Digits(i) <= M /\ Digits(j) <= M /\ Digits(l) <= M
    BY <2>1
  <2> QED
    BY <2>2
<1>5. ASSUME NEW i \in Nat, NEW j \in Nat
      PROVE  /\ NameLess(i, j) => ~NameLess(j, i)
             /\ i # j => NameLess(i, j) \/ NameLess(j, i)
  <2>1. PICK M \in Nat : Digits(i) <= M /\ Digits(j) <= M
    BY <1>4
  <2>2. Digits(i) \in Nat /\ Digits(j) \in Nat /\ key(i, M) \in Nat /\ key(j, M) \in Nat
    BY <1>1, <2>1, DigitsType
  <2>3. (NameLess(i, j) <=> lex(i, j, M)) /\ (NameLess(j, i) <=> lex(j, i, M))
    BY <1>2, <2>1
  <2>4. i # j => key(i, M) # key(j, M) \/ Digits(i) # Digits(j)
    BY <1>3, <2>1
  <2> QED
    BY <2>2, <2>3, <2>4
<1>6. ASSUME NEW i \in Nat, NEW j \in Nat, NEW l \in Nat, NameLess(i, j), NameLess(j, l)
      PROVE  NameLess(i, l)
  <2>1. PICK M \in Nat : Digits(i) <= M /\ Digits(j) <= M /\ Digits(l) <= M
    BY <1>4
  <2>2. /\ Digits(i) \in Nat /\ Digits(j) \in Nat /\ Digits(l) \in Nat
        /\ key(i, M) \in Nat /\ key(j, M) \in Nat /\ key(l, M) \in Nat
    BY <1>1, <2>1, DigitsType
  <2>3. lex(i, j, M) /\ lex(j, l, M) /\ (NameLess(i, l) <=> lex(i, l, M))
    BY <1>2, <1>6, <2>1
  <2> QED
    BY <2>2, <2>3
<1> QED
  BY <1>5, <1>6

\* So the head of the reverse-sorted list is there whenever the list is not empty.
LEMMA LastByNameExists ==
  ASSUME NEW S, S \in SUBSET Nat, IsFiniteSet(S), S # {}
  PROVE  LastByName(S) \in S /\ \A q \in S \ {LastByName(S)} : NameLess(q, LastByName(S))
<1> DEFINE last(U, p) == p \in U /\ \A q \in U \ {p} : NameLess(q, p)
           T == {n \in Nat : \A U \in SUBSET Nat :
                   IsFiniteSet(U) /\ Cardinality(U) = n + 1 => \E p \in U : last(U, p)}
<1>1. 0 \in T
  <2> SUFFICES ASSUME NEW U \in SUBSET Nat, IsFiniteSet(U), Cardinality(U) = 0 + 1
               PROVE  \E p \in U : last(U, p)
    OBVIOUS
  <2>1. Cardinality(U) = 1
    OBVIOUS
  <2>2. PICK p : U = {p}
    BY <2>1, FS_Singleton
  <2> QED
    BY <2>2
<1>2. ASSUME NEW n \in Nat, n \in T PROVE n + 1 \in T
  <2> SUFFICES ASSUME NEW U \in SUBSET Nat, IsFiniteSet(U), Cardinality(U) = (n + 1) + 1
               PROVE  \E p \in U : last(U, p)
    OBVIOUS
  <2>1. PICK r : r \in U
    BY FS_EmptySet
  <2> DEFINE V == U \ {r}
  <2>2. IsFiniteSet(V) /\ Cardinality(V) = n + 1 /\ V \in SUBSET Nat
    BY <2>1, FS_RemoveElement
  <2>3. PICK p \in V : last(V, p)
    BY <1>2, <2>2
  <2>4. p \in Nat /\ r \in Nat /\ p # r
    BY <2>1
  <2>5. CASE NameLess(r, p)
    <3>1. last(U, p)
      BY <2>3, <2>5
    <3> QED
      BY <3>1
  <2>6. CASE NameLess(p, r)
    <3>1. \A q \in U \ {r} : NameLess(q, r)
      <4> SUFFICES ASSUME NEW q \in U \ {r} PROVE NameLess(q, r)
        OBVIOUS
      <4>1. q = p \/ NameLess(q, p)
        BY <2>3
      <4> QED
        BY <2>4, <2>6, <4>1, NameOrder
    <3>2. last(U, r)
      BY <2>1, <3>1
    <3> QED
      BY <2>1, <3>2
  <2> QED
    BY <2>4, <2>5, <2>6, NameOrder
<1>3. Nat \subseteq T
  <2>1. \A n \in Nat : n \in T => n + 1 \in T
    BY <1>2
  <2> HIDE DEF T
  <2> QED
    BY <1>1, <2>1, AllNumbers
<1>4. PICK n \in Nat : Cardinality(S) = n + 1
  <2>1. Cardinality(S) \in Nat /\ Cardinality(S) # 0
    BY FS_CardinalityType, FS_EmptySet
  <2>2. Cardinality(S) - 1 \in Nat /\ Cardinality(S) = (Cardinality(S) - 1) + 1
    BY <2>1
  <2> QED
    BY <2>2
<1>5. \E p \in S : last(S, p)
  <2>1. n \in T
    BY <1>3
  <2> QED
    BY <1>4, <2>1
<1>6. \E p \in S : \A q \in S \ {p} : NameLess(q, p)
  BY <1>5
<1> QED
  BY <1>6 DEF LastByName
-----------------------------------------------------------------------------
(* Type correctness. *)

\* Setting a field of a peer, as the finalizer patch, the deletion and the status
\* patch do, leaves a peer.
LEMMA PeerFields ==
  ASSUME TypeOK, NEW p \in Ordinals, peers[p] # None
  PROVE  /\ [peers[p] EXCEPT !.finalizer = TRUE] \in Peer
         /\ [peers[p] EXCEPT !.deleting = TRUE] \in Peer
         /\ \A v \in Versions \cup {None} : [peers[p] EXCEPT !.serverVersion = v] \in Peer
  BY DEF TypeOK, Peer

\* Setting a field of a ReplicaSet or the state of its pod leaves a ReplicaSet.
LEMMA ReplicaSetFields ==
  ASSUME TypeOK, NEW p \in Ordinals, rs[p] # None
  PROVE  /\ [rs[p] EXCEPT !.orphan = TRUE] \in ReplicaSet
         /\ [rs[p] EXCEPT !.pod = "running"] \in ReplicaSet
         /\ [rs[p] EXCEPT !.pod = "exited"] \in ReplicaSet
  BY DEF TypeOK, ReplicaSet

\* Setting a field of a PVC leaves a PVC.
LEMMA PvcFields ==
  ASSUME TypeOK, NEW p \in Ordinals, pvc[p] # None
  PROVE  /\ [pvc[p] EXCEPT !.deleting = TRUE] \in Pvc
         /\ [pvc[p] EXCEPT !.tombstone = TRUE] \in Pvc
         /\ \A S \in SUBSET Ordinals : [pvc[p] EXCEPT !.data = S] \in Pvc
  BY DEF TypeOK, Pvc

\* The ReplicaSet of a peer that is gone keeps its type.
LEMMA OrphanType ==
  ASSUME TypeOK, NEW p, orphanReplicaSet(p)
  PROVE  rs' \in [Ordinals -> ReplicaSet \cup {None}]
<1>1. p \in Ordinals /\ rs[p] # None => [rs[p] EXCEPT !.orphan = TRUE] \in ReplicaSet
  BY ReplicaSetFields
<1> QED
  BY <1>1 DEF TypeOK, orphanReplicaSet

\* Deleting a peer keeps the types.
LEMMA DeletePeerType ==
  ASSUME TypeOK, NEW p, deletePeer(p)
  PROVE  /\ peers' \in [Ordinals -> Peer \cup {None}]
         /\ rs' \in [Ordinals -> ReplicaSet \cup {None}]
<1>1. p \in Ordinals /\ peers[p] # None => [peers[p] EXCEPT !.deleting = TRUE] \in Peer
  BY PeerFields
<1>2. CASE peers[p] # None /\ peers[p].finalizer
  <2>1. peers' = [peers EXCEPT ![p] = [peers[p] EXCEPT !.deleting = TRUE]] /\ rs' = rs
    BY <1>2 DEF deletePeer
  <2>2. /\ peers \in [Ordinals -> Peer \cup {None}]
        /\ rs \in [Ordinals -> ReplicaSet \cup {None}]
    BY DEF TypeOK
  <2> QED
    BY <1>1, <1>2, <2>1, <2>2
<1>3. CASE ~(peers[p] # None /\ peers[p].finalizer)
  BY <1>3, OrphanType DEF TypeOK, deletePeer
<1> QED
  BY <1>2, <1>3

\* Adding a member keeps the types.
LEMMA MemberAddType ==
  ASSUME TypeOK, NEW c \in ClusterIds, NEW p \in Ordinals, memberAdd(c, p)
  PROVE  etcd' \in [ClusterIds -> Membership]
<1>1. [etcd[c] EXCEPT !.members = @ \cup {p}] \in Membership
  BY DEF TypeOK, Membership
<1> QED
  BY <1>1 DEF TypeOK, memberAdd

\* Removing a member keeps the types.
LEMMA MemberRemoveType ==
  ASSUME TypeOK, NEW c \in ClusterIds, NEW p, memberRemove(c, p)
  PROVE  /\ etcd' \in [ClusterIds -> Membership]
         /\ pvc' \in [Ordinals -> Pvc \cup {None}]
         /\ rs' \in [Ordinals -> ReplicaSet \cup {None}]
<1> USE DEF TypeOK
<1>1. CASE UNCHANGED <<etcd, podVars>>
  BY <1>1 DEF podVars
<1>2. CASE p \in etcd[c].members /\ ~UNCHANGED <<etcd, podVars>>
  <2>1. p \in Ordinals
    BY <1>2 DEF Membership
  <2>2. [members |-> etcd[c].members \ {p}, named |-> etcd[c].named \ {p},
         removed |-> etcd[c].removed \cup {p}] \in Membership
    BY <2>1 DEF Membership
  <2>3. etcd' \in [ClusterIds -> Membership]
    BY <1>2, <2>2 DEF memberRemove
  <2>4. pvc' \in [Ordinals -> Pvc \cup {None}]
    <3>1. pvc' = [pvc EXCEPT ![p] = IF @ # None /\ @.data = c
                                      THEN [@ EXCEPT !.tombstone = TRUE] ELSE @]
      BY <1>2 DEF memberRemove
    <3>2. pvc[p] # None => [pvc[p] EXCEPT !.tombstone = TRUE] \in Pvc
      BY <2>1, PvcFields
    <3> QED
      BY <3>1, <3>2
  <2>5. rs' \in [Ordinals -> ReplicaSet \cup {None}]
    <3>1. rs' = [rs EXCEPT ![p] = IF Runs(p, c) THEN [@ EXCEPT !.pod = "exited"] ELSE @]
      BY <1>2 DEF memberRemove
    <3>2. Runs(p, c) => [rs[p] EXCEPT !.pod = "exited"] \in ReplicaSet
      BY <2>1, ReplicaSetFields DEF Runs
    <3> QED
      BY <3>1, <3>2
  <2> QED
    BY <2>3, <2>4, <2>5
<1> QED
  BY <1>1, <1>2 DEF memberRemove

\* A reconciliation of the cluster keeps the types.
LEMMA ReconcileClusterType ==
  ASSUME TypeOK, ReconcileCluster PROVE TypeOK'
<1> USE ConstantsAssumption DEF TypeOK, clusterVars, cacheVars, podVars
<1>1. PICK c \in SUBSET Ordinals : listMembers(c) /\ updateStatus(c) /\ reconcile(c)
  BY DEF ReconcileCluster
<1>2. /\ spec' \in Spec_ /\ cachedSpec' \in Spec_ /\ edits' \in 0..MaxEdits
      /\ cachedPeers' \in [Ordinals -> Peer \cup {None}]
  BY DEF ReconcileCluster
<1>3. faults' \in 0..MaxFaults
  BY <1>1 DEF listMembers
<1>4. status' \in Status
  <2>1. Cardinality(peersSeen) \in Nat
    BY OrdinalsFinite DEF peersSeen
  <2>2. c # NoContact => members(c) \in SUBSET Ordinals
    BY DEF members, NoContact, ClusterIds, Membership
  <2> QED
    BY <1>1, <2>1, <2>2 DEF updateStatus, Status
<1>5. \A state \in {"New", "Existing"}, S \in SUBSET Ordinals :
        peerForCluster(state, S) \in Peer
  BY DEF peerForCluster, Peer, Spec_
<1>6. CASE createService
  BY <1>2, <1>3, <1>4, <1>6 DEF createService
<1>7. CASE createBootstrapPeer(c)
  <2>1. expectedPeerNamesForCluster(cachedSpec.replicas) \in SUBSET Ordinals
    <3>1. cachedSpec.replicas \in 1..(MaxOrdinal + 1)
      BY DEF Spec_
    <3> QED
      BY <3>1 DEF expectedPeerNamesForCluster, Ordinals
  <2>2. configurePeerBootstrap \in Peer
    BY <1>5, <2>1 DEF configurePeerBootstrap
  <2> QED
    BY <1>2, <1>3, <1>4, <1>7, <2>2 DEF createBootstrapPeer, createPeer
<1>8. CASE createPeerForMember(c)
  <2>1. configureJoinExistingCluster(c) \in Peer
    BY <1>5, <1>8 DEF configureJoinExistingCluster, createPeerForMember, members, NoContact,
                      ClusterIds, Membership
  <2> QED
    <3>1. PICK p : createPeer(p, configureJoinExistingCluster(c))
      BY <1>8 DEF createPeerForMember
    <3>2. peers' \in [Ordinals -> Peer \cup {None}]
      BY <2>1, <3>1 DEF createPeer
    <3> QED
      BY <1>2, <1>3, <1>4, <1>8, <3>2 DEF createPeerForMember
<1>9. CASE addPvcFinalizer(c)
  <2>1. PICK p \in surplusPeers(c) :
          peers' = [peers EXCEPT ![p] = IF @ = None THEN @ ELSE [@ EXCEPT !.finalizer = TRUE]]
    BY <1>9 DEF addPvcFinalizer
  <2>2. peers[p] # None => [peers[p] EXCEPT !.finalizer = TRUE] \in Peer
    BY PeerFields DEF surplusPeers, peersSeen
  <2>3. peers' \in [Ordinals -> Peer \cup {None}]
    BY <2>1, <2>2
  <2> QED
    BY <1>2, <1>3, <1>4, <1>9, <2>3 DEF addPvcFinalizer
<1>11. CASE deleteSurplusPeer(c)
  BY <1>2, <1>3, <1>4, DeletePeerType, <1>11 DEF deleteSurplusPeer
<1>12. CASE deleteOutdatedPeer(c)
  BY <1>2, <1>3, <1>4, DeletePeerType, <1>12 DEF deleteOutdatedPeer
<1>13. CASE addNewMember(c)
  <2>1. PICK d \in Serving : memberAdd(d, nextAvailablePeerName(peersSeen))
    BY <1>13 DEF addNewMember
  <2> QED
    BY <1>2, <1>3, <1>4, <1>13, <2>1, MemberAddType DEF Serving, addNewMember
<1>14. CASE removeMember(c)
  <2>1. PICK d \in Serving : \/ memberRemove(d, LastByName(members(c)))
                            \/ UNCHANGED <<etcd, podVars>>
    BY <1>14 DEF removeMember
  <2> QED
    BY <1>2, <1>3, <1>4, <1>14, <2>1, MemberRemoveType DEF Serving, removeMember
<1>15. CASE nothingToDo(c)
  BY <1>2, <1>3, <1>4, <1>15 DEF nothingToDo
<1> QED
  BY <1>1, <1>6, <1>7, <1>8, <1>9, <1>11, <1>12, <1>13, <1>14, <1>15 DEF reconcile

\* A reconciliation of a peer keeps the types.
LEMMA ReconcilePeerType ==
  ASSUME TypeOK, NEW p \in Ordinals, ReconcilePeer(p) PROVE TypeOK'
<1> USE DEF TypeOK, clusterVars, cacheVars, podVars, boundVars
<1>1. /\ spec' \in Spec_ /\ cachedSpec' \in Spec_
      /\ status' \in Status /\ service' \in BOOLEAN
      /\ cachedPeers' \in [Ordinals -> Peer \cup {None}]
      /\ etcd' \in [ClusterIds -> Membership]
      /\ edits' \in 0..MaxEdits
  BY DEF ReconcilePeer
<1>2. cachedPeers[p] # None /\ cachedPeers[p] \in Peer
  BY DEF ReconcilePeer
<1>3. PICK v \in Versions \cup {None} :
        /\ getVersion(p, v)
        /\ \/ maybeCreatePvc(p, v) \/ createReplicaSet(p, v) \/ hasReplicaSet(p, v)
           \/ deletePvc(p, v) \/ removePvcFinalizer(p, v)
  BY DEF ReconcilePeer
<1>4. faults' \in 0..MaxFaults
  BY <1>3, ConstantsAssumption DEF getVersion
<1>5. updatePeerStatus(p, peers[p], v) \in Peer \cup {None}
  <2>1. peers[p] # None => [peers[p] EXCEPT !.serverVersion = v] \in Peer
    BY PeerFields
  <2> QED
    BY <2>1 DEF updatePeerStatus
<1>6. patchStatusOnly(p, v) => peers' \in [Ordinals -> Peer \cup {None}]
  BY <1>5 DEF patchStatusOnly
<1>7. CASE maybeCreatePvc(p, v)
  <2>1. [deleting |-> FALSE, data |-> {}, tombstone |-> FALSE] \in Pvc
    BY DEF Pvc
  <2>2. pvc' \in [Ordinals -> Pvc \cup {None}]
    BY <1>7, <2>1 DEF maybeCreatePvc
  <2> QED
    BY <1>1, <1>4, <1>6, <1>7, <2>2 DEF maybeCreatePvc
<1>8. CASE createReplicaSet(p, v)
  <2> DEFINE new == [orphan |-> peers[p] = None, version |-> cachedPeers[p].version,
                     state |-> cachedPeers[p].state, initial |-> cachedPeers[p].initial,
                     pod |-> "pending"]
  <2>1. new \in ReplicaSet
    BY <1>2 DEF ReplicaSet, Peer
  <2>2. rs' = [rs EXCEPT ![p] = new]
    BY <1>8 DEF createReplicaSet
  <2>3. rs' \in [Ordinals -> ReplicaSet \cup {None}]
    <3> HIDE DEF new
    <3> QED
      BY <2>1, <2>2
  <2> QED
    BY <1>1, <1>4, <1>6, <1>8, <2>3 DEF createReplicaSet
<1>9. CASE hasReplicaSet(p, v)
  BY <1>1, <1>4, <1>6, <1>9 DEF hasReplicaSet
<1>10. CASE deletePvc(p, v)
  <2>1. [pvc[p] EXCEPT !.deleting = TRUE] \in Pvc
    BY <1>10, PvcFields DEF deletePvc
  <2>2. pvc' \in [Ordinals -> Pvc \cup {None}]
    BY <1>10, <2>1 DEF deletePvc
  <2> QED
    BY <1>1, <1>4, <1>6, <1>10, <2>2 DEF deletePvc
<1>11. CASE removePvcFinalizer(p, v)
  <2> DEFINE patched == updatePeerStatus(p, peers[p], v)
  <2>1. peers[p] # None => [patched EXCEPT !.finalizer = FALSE] \in Peer
    <3>1. peers[p] # None => patched \in Peer
      BY PeerFields DEF updatePeerStatus
    <3> HIDE DEF patched
    <3> QED
      BY <3>1 DEF Peer
  <2>2. removeFinalizer(p, patched)
    BY <1>11 DEF removePvcFinalizer
  <2> HIDE DEF patched
  <2>3. peers' \in [Ordinals -> Peer \cup {None}]
    BY <2>1, <2>2 DEF removeFinalizer
  <2>4. rs' \in [Ordinals -> ReplicaSet \cup {None}]
    BY <2>2, OrphanType DEF removeFinalizer
  <2> QED
    BY <1>1, <1>4, <1>11, <2>3, <2>4 DEF removePvcFinalizer
<1> QED
  BY <1>3, <1>7, <1>8, <1>9, <1>10, <1>11

\* Kubernetes and etcd keep the types.
LEMMA InfrastructureType ==
  ASSUME TypeOK, Infrastructure PROVE TypeOK'
<1> USE DEF TypeOK, clusterVars, cacheVars, podVars, boundVars
<1>1. ASSUME NEW p \in Ordinals, collectGarbage(p) PROVE TypeOK'
  BY <1>1 DEF collectGarbage
<1>2. ASSUME NEW p \in Ordinals, releasePvc(p) PROVE TypeOK'
  BY <1>2 DEF releasePvc
<1>3. ASSUME NEW p \in Ordinals, NEW S \in SUBSET Ordinals, rs[p] # None, pvc[p] # None, startPod(p, S)
      PROVE  TypeOK'
  <2>1. /\ [rs[p] EXCEPT !.pod = "running"] \in ReplicaSet
        /\ [pvc[p] EXCEPT !.data = S] \in Pvc
    BY <1>3, ReplicaSetFields, PvcFields
  <2> QED
    BY <1>3, <2>1 DEF startPod
<1>4. ASSUME NEW p \in Ordinals, startNew(p) PROVE TypeOK'
  BY <1>3, <1>4 DEF startNew, ReplicaSet
<1>5. ASSUME NEW p \in Ordinals, startExisting(p) PROVE TypeOK'
  BY <1>3, <1>5 DEF startExisting, Serving, ClusterIds
<1>6. ASSUME NEW p \in Ordinals, restart(p) PROVE TypeOK'
  BY <1>3, <1>6 DEF restart, Pvc
<1>7. ASSUME NEW c \in ClusterIds, formCluster(c) PROVE TypeOK'
  <2>1. PICK listed \in {c, {p \in c : Runs(p, c)}} :
          etcd' = [etcd EXCEPT ![c] = [members |-> c, named |-> listed, removed |-> {}]]
    BY <1>7 DEF formCluster
  <2>2. [members |-> c, named |-> listed, removed |-> {}] \in Membership
    BY DEF Membership, ClusterIds
  <2> QED
    BY <1>7, <2>1, <2>2 DEF formCluster
<1>8. ASSUME NEW c \in ClusterIds, NEW p \in Ordinals, publish(p, c) PROVE TypeOK'
  <2>1. [etcd[c] EXCEPT !.named = @ \cup {p}] \in Membership
    BY DEF Membership
  <2> QED
    BY <1>8, <2>1 DEF publish
<1> QED
  BY <1>1, <1>2, <1>4, <1>5, <1>6, <1>7, <1>8 DEF Infrastructure

\* TypeOK is inductive.
LEMMA TypeInvariant ==
  ASSUME TypeOK, [Next]_vars PROVE TypeOK'
<1>1. CASE ReconcileCluster
  BY <1>1, ReconcileClusterType
<1>2. CASE ReconcileAnyPeer
  BY <1>2, ReconcilePeerType DEF ReconcileAnyPeer
<1>3. CASE Infrastructure
  BY <1>3, InfrastructureType
<1> USE ConstantsAssumption DEF TypeOK, clusterVars, cacheVars, podVars, boundVars
<1>4. CASE syncSpec
  BY <1>4 DEF syncSpec
<1>5. CASE syncPeers
  BY <1>5 DEF syncPeers
<1>6. CASE ValidateUpdate
  BY <1>6 DEF ValidateUpdate, Spec_
<1>7. CASE \E p \in Ordinals : crash(p)
  <2>1. PICK p \in Ordinals : crash(p)
    BY <1>7
  <2>2. [rs[p] EXCEPT !.pod = "exited"] \in ReplicaSet
    BY <2>1, ReplicaSetFields DEF crash
  <2> QED
    BY <2>1, <2>2 DEF crash
<1>8. CASE UNCHANGED vars
  BY <1>8 DEF vars
<1> QED
  BY <1>1, <1>2, <1>3, <1>4, <1>5, <1>6, <1>7, <1>8 DEF Next

\* The state before the cluster is created is well formed.
LEMMA InitType ==
  ASSUME Init PROVE TypeOK
<1>1. spec \in Spec_ /\ cachedSpec \in Spec_
  BY ConstantsAssumption DEF Init, Spec_
<1>2. status \in Status
  BY DEF Init, Status
<1>3. etcd \in [ClusterIds -> Membership]
  BY DEF Init, Membership
<1>4. /\ peers \in [Ordinals -> Peer \cup {None}]
      /\ cachedPeers \in [Ordinals -> Peer \cup {None}]
      /\ pvc \in [Ordinals -> Pvc \cup {None}]
      /\ rs \in [Ordinals -> ReplicaSet \cup {None}]
  BY DEF Init
<1>5. edits \in 0..MaxEdits /\ faults \in 0..MaxFaults
  BY ConstantsAssumption DEF Init
<1>6. service \in BOOLEAN
  BY DEF Init
<1> QED
  BY <1>1, <1>2, <1>3, <1>4, <1>5, <1>6 DEF TypeOK

\* The objects in the API server, the cache and the etcd clusters are well formed
\* in every state that the controllers, Kubernetes and etcd can reach.
THEOREM TypeCorrect == Spec => []TypeOK
<1>1. Init => TypeOK
  BY InitType
<1>2. TypeOK /\ [Next]_vars => TypeOK'
  BY TypeInvariant
<1> QED
  BY <1>1, <1>2, PTL DEF Spec
=============================================================================
