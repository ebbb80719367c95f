---------------------------- MODULE KzgBatch_proofs ----------------------------
(***************************************************************************)
(* Proofs about KzgBatch, for every field, every secret of the SRS and     *)
(* every number and size of blobs.                                         *)
(***************************************************************************)
EXTENDS KzgBatch, PrimeField_proofs

LEMMA KzgFacts ==
    /\ P \in Nat \ {0} /\ P \in Int /\ P > 2
    /\ Fr \subseteq Int /\ Fr \subseteq Nat /\ 0 \in Fr /\ 1 \in Fr
    /\ Tau \in Fr /\ Tau \in Int /\ SrsSize \in Nat
  BY FieldFacts, KzgAssumption

-----------------------------------------------------------------------------
(***************************************************************************)
(* Powers of two.                                                          *)
(***************************************************************************)

\* The powers of two, each above its exponent.
LEMMA TwoToSteps ==
    ASSUME NEW n \in Nat
    PROVE  /\ \A k \in 0..n : TwoTo(n)[k] \in Nat /\ TwoTo(n)[k] >= k + 1
           /\ TwoTo(n)[0] = 1 /\ \A k \in 1..n : TwoTo(n)[k] = 2 * TwoTo(n)[k - 1]
<1> DEFINE Rec(f) == f = [k \in 0..n |-> IF k = 0 THEN 1 ELSE 2 * f[k - 1]]
           two == TwoTo(n)
           step == [p \in Int \X (1..n) |-> 2 * p[1]]
<1>2. step \in [Int \X (1..n) -> Int]
  OBVIOUS
<1>3. \E f : Rec(f)
  <2> HIDE DEF step
  <2>0. PICK f : Recursive(f, n, 1, step)
    <3>1. 1 \in Int
      OBVIOUS
    <3> QED
      BY <1>2, <3>1, Recursion, Zenon
  <2>1. /\ f \in [0..n -> Int] /\ f[0] = 1
        /\ \A k \in 1..n : f[k] = step[<<f[k - 1], k>>]
    BY <2>0 DEF Recursive
  <2>2. ASSUME NEW k \in 0..n
        PROVE  f[k] = IF k = 0 THEN 1 ELSE 2 * f[k - 1]
    <3>1. CASE k # 0
      <4>1. k \in 1..n /\ k - 1 \in 0..n /\ f[k - 1] \in Int
        BY <2>1, <3>1
      <4>2. step[<<f[k - 1], k>>] = 2 * f[k - 1]
        BY <4>1 DEF step
      <4> QED
        BY <2>1, <3>1, <4>1, <4>2
    <3> QED
      BY <2>1, <3>1
  <2>3. Rec(f)
    BY <2>1, <2>2
  <2> QED
    BY <2>3
<1>4. Rec(two)
  BY <1>3 DEF TwoTo
<1> HIDE DEF two
<1> DEFINE S == {k \in 0..n : two[k] \in Nat /\ two[k] >= k + 1}
<1>6. 0 \in S
  BY <1>4
<1>7. ASSUME NEW k \in 0..(n - 1), k \in S
      PROVE  k + 1 \in S
  <2>1. k + 1 \in 0..n /\ k + 1 # 0 /\ (k + 1) - 1 = k
    OBVIOUS
  <2>2. two[k + 1] = 2 * two[k]
    BY <1>4, <2>1
  <2> QED
    BY <1>7, <2>1, <2>2
<1>8. 0..n \subseteq S
  <2> HIDE DEF S
  <2> QED
    BY <1>6, <1>7, InductionUpTo
<1>9. two[0] = 1 /\ \A k \in 1..n : two[k] = 2 * two[k - 1]
  BY <1>4
<1> QED
  BY <1>8, <1>9 DEF two

\* The table of powers does not depend on its length.
LEMMA TwoToSame ==
    ASSUME NEW m \in Nat, NEW n \in Nat, NEW j \in Nat, j <= m, j <= n
    PROVE  TwoTo(m)[j] = TwoTo(n)[j]
<1> DEFINE f == TwoTo(m)
           g == TwoTo(n)
           S == {k \in 0..j : f[k] = g[k]}
<1>1. /\ f[0] = 1 /\ \A k \in 1..m : f[k] = 2 * f[k - 1]
      /\ g[0] = 1 /\ \A k \in 1..n : g[k] = 2 * g[k - 1]
  BY TwoToSteps
<1> HIDE DEF f, g
<1>2. 0 \in S
  BY <1>1
<1>3. ASSUME NEW k \in 0..(j - 1), k \in S PROVE k + 1 \in S
  <2>1. k + 1 \in 0..j /\ k + 1 \in 1..m /\ k + 1 \in 1..n /\ (k + 1) - 1 = k
    OBVIOUS
  <2>2. f[k + 1] = 2 * f[k] /\ g[k + 1] = 2 * g[k]
    BY <1>1, <2>1
  <2> QED
    BY <1>3, <2>1, <2>2
<1>4. 0..j \subseteq S
  <2> HIDE DEF S
  <2> QED
    BY <1>2, <1>3, InductionUpTo
<1>5. j \in 0..j
  OBVIOUS
<1> QED
  BY <1>4, <1>5 DEF f, g

LEMMA TwoToMonotone ==
    ASSUME NEW n \in Nat, NEW i \in Nat, NEW j \in Nat, i + j <= n
    PROVE  TwoTo(n)[i] <= TwoTo(n)[i + j]
<1> DEFINE f == TwoTo(n)
           S == {k \in 0..j : f[i] <= f[i + k]}
<1>1. /\ \A k \in 0..n : f[k] \in Nat
      /\ \A k \in 1..n : f[k] = 2 * f[k - 1]
  BY TwoToSteps
<1> HIDE DEF f
<1>2. 0 \in S
  BY <1>1
<1>3. ASSUME NEW k \in 0..(j - 1), k \in S PROVE k + 1 \in S
  <2>1. /\ k + 1 \in 0..j /\ i + (k + 1) \in 1..n /\ (i + (k + 1)) - 1 = i + k
        /\ i + k \in 0..n /\ i \in 0..n
    OBVIOUS
  <2>2. f[i + (k + 1)] = 2 * f[i + k] /\ f[i + k] \in Nat /\ f[i] \in Nat
    BY <1>1, <2>1
  <2> QED
    BY <1>3, <2>1, <2>2
<1>4. 0..j \subseteq S
  <2> HIDE DEF S
  <2> QED
    BY <1>2, <1>3, InductionUpTo
<1>5. j \in 0..j
  OBVIOUS
<1> QED
  BY <1>4, <1>5 DEF f

\* P is odd.
LEMMA TwoToNotZero ==
    ASSUME NEW n \in Nat, NEW j \in 0..n
    PROVE  ~Cong(TwoTo(n)[j], 0)
<1> DEFINE f == TwoTo(n)
           S == {k \in 0..n : ~Cong(f[k], 0)}
<1>1. /\ \A k \in 0..n : f[k] \in Nat
      /\ f[0] = 1 /\ \A k \in 1..n : f[k] = 2 * f[k - 1]
  BY TwoToSteps
<1> HIDE DEF f
<1>2. 0 \in S
  <2>1. ~Cong(1, 0)
    BY CongEqual, KzgFacts
  <2> QED
    BY <1>1, <2>1
<1>3. ASSUME NEW k \in 0..(n - 1), k \in S PROVE k + 1 \in S
  <2>1. k + 1 \in 0..n /\ k + 1 \in 1..n /\ k \in 0..n /\ (k + 1) - 1 = k
    OBVIOUS
  <2> DEFINE a == f[k]
  <2>2. f[k + 1] = 2 * a /\ a \in Int /\ ~Cong(a, 0) /\ 2 \in Int
    BY <1>1, <1>3, <2>1
  <2> HIDE DEF a
  <2>3. ~Cong(2, 0)
    <3>1. 2 \in Fr /\ 0 \in Fr /\ 2 # 0
      BY KzgFacts DEF Fr
    <3> QED
      BY <3>1, CongEqual
  <2>4. ~Cong(2 * a, 0)
    BY <2>2, <2>3, NoZeroDivisors, Zenon
  <2> QED
    BY <2>1, <2>2, <2>4
<1>4. 0..n \subseteq S
  <2> HIDE DEF S
  <2> QED
    BY <1>2, <1>3, InductionUpTo
<1> QED
  BY <1>4 DEF f

LEMMA NextPowerType ==
    ASSUME NEW n \in Nat
    PROVE  NextPowerOfTwo(n) \in Nat
<1> DEFINE two == TwoTo(n)
           S == {two[k] : k \in {j \in 0..n : two[j] >= n}}
<1>1. \A k \in 0..n : two[k] \in Nat /\ two[k] >= k + 1
  BY TwoToSteps
<1> HIDE DEF two
<1>2. two[n] \in S
  BY <1>1
<1>3. S \in SUBSET Nat
  BY <1>1
<1> HIDE DEF S
<1>4. Min(S) \in Nat
  BY <1>2, <1>3, MinType
<1> QED
  BY <1>4 DEF NextPowerOfTwo, S, two

\* The next power of two is a power of two, and no more than another that is
\* not below n.
LEMMA NextPowerFacts ==
    ASSUME NEW n \in Nat
    PROVE  /\ \E j \in 0..n : TwoTo(n)[j] = NextPowerOfTwo(n)
           /\ NextPowerOfTwo(n) \in Nat /\ NextPowerOfTwo(n) >= n
           /\ \A j \in 0..n : TwoTo(n)[j] >= n => NextPowerOfTwo(n) <= TwoTo(n)[j]
<1> DEFINE two == TwoTo(n)
           S == {two[k] : k \in {j \in 0..n : two[j] >= n}}
           m == NextPowerOfTwo(n)
<1>1. \A k \in 0..n : two[k] \in Nat /\ two[k] >= k + 1
  BY TwoToSteps
<1>2. m = Min(S)
  BY DEF NextPowerOfTwo
<1> HIDE DEF two, m
<1>3. two[n] \in S /\ S \in SUBSET Nat
  BY <1>1
<1>4. m \in S /\ \A k \in S : m <= k
  <2> HIDE DEF S
  <2>1. \E a \in S : \A b \in S : a <= b
    BY <1>3, LeastNatural
  <2> QED
    BY <1>2, <2>1 DEF Min
<1>5. PICK j \in 0..n : two[j] >= n /\ m = two[j]
  BY <1>4
<1>6. \A k \in 0..n : two[k] >= n => m <= two[k]
  BY <1>4
<1> QED
  BY <1>1, <1>5, <1>6 DEF two, m

\* The size of the domain of a blob, and the root of unity that generates it.
LEMMA DomainSize ==
    ASSUME NEW c \in 1..SrsSize
    PROVE  LET n == NextPowerOfTwo(c)
               k == Log2(n) + 1
           IN  /\ n \in Nat \ {0} /\ n <= SrsSize /\ n >= c /\ ~Cong(n, 0)
               /\ k \in DOMAIN Roots /\ Roots[k] \in Fr
               /\ Power(Roots[k], n) = 1 /\ PrimitiveRoot(Roots[k], n)
<1> DEFINE n == NextPowerOfTwo(c)
           l == Log2(n)
           k == l + 1
<1>1. c \in Nat /\ SrsSize \in Nat /\ c >= 1 /\ c <= SrsSize
  BY KzgFacts
<1>2. /\ n \in Nat /\ n >= c
      /\ \A j \in 0..c : TwoTo(c)[j] >= c => n <= TwoTo(c)[j]
  BY <1>1, NextPowerFacts
<1>3. PICK j \in 0..c : TwoTo(c)[j] = n
  BY <1>1, NextPowerFacts
<1>4. n >= j + 1 /\ j \in Nat /\ j \in 0..n
  BY <1>1, <1>2, <1>3, TwoToSteps
<1> HIDE DEF n
<1>5. l \in 0..n /\ TwoTo(n)[l] = n
  <2>1. TwoTo(n)[j] = n
    BY <1>1, <1>2, <1>3, <1>4, TwoToSame
  <2> QED
    BY <1>4, <2>1 DEF Log2
<1>6. k \in DOMAIN Roots
  BY KzgAssumption DEF n
<1> HIDE DEF l
<1>7. TwoTo(k)[k - 1] = n
  <2>1. k - 1 = l /\ l \in Nat /\ k \in Nat /\ l <= k /\ l <= n
    BY <1>2, <1>5
  <2>2. TwoTo(k)[l] = TwoTo(n)[l]
    BY <1>2, <2>1, TwoToSame
  <2> QED
    BY <1>5, <2>1, <2>2
<1> HIDE DEF k
<1>8. Power(Roots[k], n) = 1 /\ \A m \in 1..(n - 1) : Power(Roots[k], m) # 1
  BY <1>6, <1>7, KzgAssumption
<1>9. Roots[k] \in Fr /\ Roots[k] \in Int
  <2>1. Roots \in Seq(Fr)
    BY KzgAssumption
  <2>2. Roots[k] \in Fr
    BY <1>6, <2>1
  <2> QED
    BY <2>2, KzgFacts
<1> DEFINE w == Roots[k]
<1> HIDE DEF w
<1>10. PrimitiveRoot(w, n)
  <2>1. Cong(Power(w, n), 1)
    <3>1. 1 \in Int
      OBVIOUS
    <3>2. Cong(1, 1)
      BY <3>1, CongReflexive, Zenon
    <3> QED
      BY <1>8, <3>2, Zenon DEF w
  <2>2. ASSUME NEW m \in 1..(n - 1) PROVE ~Cong(Power(w, m), 1)
    <3>1. m \in Nat /\ w \in Int
      BY <1>2, <1>9 DEF w
    <3>2. Power(w, m) \in Fr /\ 1 \in Fr /\ Power(w, m) # 1
      BY <1>8, <3>1, PowerType, KzgFacts, Zenon DEF w
    <3> QED
      BY <3>2, CongEqual, Zenon
  <2> QED
    BY <1>1, <1>2, <1>9, <2>1, <2>2 DEF PrimitiveRoot, w
<1>11. ~Cong(n, 0)
  BY <1>2, <1>5, TwoToNotZero
<1>12. n <= SrsSize
  <2>1. PICK s \in 0..SrsSize : TwoTo(SrsSize)[s] = SrsSize
    BY KzgAssumption
  <2>2. s \in Nat
    BY <1>1
  <2>3. CASE s <= c
    <3>1. s \in 0..c /\ TwoTo(c)[s] = TwoTo(SrsSize)[s]
      BY <1>1, <2>2, <2>3, TwoToSame
    <3>2. TwoTo(c)[s] >= c
      BY <1>1, <2>1, <3>1
    <3> QED
      BY <1>2, <2>1, <3>1, <3>2
  <2>4. CASE s > c
    <3>1. j + (s - j) = s /\ s - j \in Nat /\ j <= SrsSize /\ j <= c /\ s <= SrsSize
      BY <1>1, <1>4, <2>2, <2>4
    <3>2. TwoTo(SrsSize)[j] <= TwoTo(SrsSize)[j + (s - j)]
      BY <1>1, <1>4, <3>1, TwoToMonotone
    <3>3. TwoTo(SrsSize)[j] = TwoTo(c)[j]
      BY <1>1, <1>4, <3>1, TwoToSame
    <3> QED
      BY <1>3, <2>1, <3>1, <3>2, <3>3
  <2> QED
    BY <1>1, <2>2, <2>3, <2>4
<1> QED
  BY <1>1, <1>2, <1>6, <1>8, <1>9, <1>10, <1>11, <1>12 DEF w, k, l, n

\* calculate_roots_of_unity gives the powers of that root.
LEMMA DomainIsPoints ==
    ASSUME NEW c \in 1..SrsSize
    PROVE  LET n == NextPowerOfTwo(c)
           IN  CalculateRootsOfUnity(c) = Points(Roots[Log2(n) + 1], n)
<1> DEFINE n == NextPowerOfTwo(c)
           k == Log2(n) + 1
           w == Roots[k]
           back == {i \in 1..(SrsSize + 1) : Power(w, i) = 1}
           last == IF back = {} THEN SrsSize + 1 ELSE Min(back)
           roots == [i \in 1..(last + 1) |-> Power(w, i - 1)]
<1>1. /\ n \in Nat \ {0} /\ n <= SrsSize /\ k \in DOMAIN Roots /\ w \in Fr /\ w \in Int
      /\ Power(w, n) = 1 /\ PrimitiveRoot(w, n) /\ SrsSize \in Nat
  BY DomainSize, KzgFacts
<1>2. c # 0 /\ ~(c > SrsSize)
  BY <1>1
<1>3. CalculateRootsOfUnity(c) = SubSeq(roots, 1, Len(roots) - 1)
  BY <1>1, <1>2, Zenon DEF CalculateRootsOfUnity, ExpandRootOfUnity
<1> HIDE DEF n, k, w
<1>4. n \in back /\ back \in SUBSET Nat
  BY <1>1
<1>5. \A i \in back : n <= i
  <2> SUFFICES ASSUME NEW i \in back, i < n PROVE FALSE
    BY <1>1
  <2>1. i \in 1..(n - 1) /\ Power(w, i) = 1
    BY <1>1
  <2>2. ~Cong(Power(w, i), 1)
    BY <1>1, <2>1 DEF PrimitiveRoot
  <2>3. 1 \in Int /\ Cong(1, 1)
    BY CongReflexive
  <2> QED
    BY <2>1, <2>2, <2>3
<1>6. last = n
  <2> HIDE DEF back
  <2>1. last = Min(back)
    BY <1>4
  <2>2. \E a \in back : \A b \in back : a <= b
    BY <1>4, <1>5
  <2>3. Min(back) \in back /\ \A b \in back : Min(back) <= b
    BY <2>2 DEF Min
  <2> DEFINE m == Min(back)
  <2> HIDE DEF m
  <2>4. m \in Nat /\ n <= m /\ m <= n
    BY <1>4, <1>5, <2>3 DEF m
  <2>5. m = n
    BY <1>1, <2>4
  <2> QED
    BY <2>1, <2>5 DEF m
<1> HIDE DEF last
<1>7. roots = [i \in 1..(n + 1) |-> Power(w, i - 1)]
  BY <1>6
<1>8. \A i \in 1..(n + 1) : Power(w, i - 1) \in Int
  <2> SUFFICES ASSUME NEW i \in 1..(n + 1) PROVE Power(w, i - 1) \in Int
    OBVIOUS
  <2>1. i - 1 \in Nat
    BY <1>1
  <2> QED
    BY <1>1, <2>1, PowerType
<1> HIDE DEF roots
<1>9. roots \in Seq(Int) /\ Len(roots) = n + 1
  BY <1>1, <1>7, <1>8
<1>10. SubSeq(roots, 1, Len(roots) - 1) = [i \in 1..n |-> roots[i]]
  BY <1>1, <1>9
<1>11. [i \in 1..n |-> roots[i]] = [i \in 1..n |-> Power(w, i - 1)]
  BY <1>1, <1>7
<1> QED
  BY <1>3, <1>10, <1>11 DEF Points, w, k, n

-----------------------------------------------------------------------------
(***************************************************************************)
(* The operators on polynomials return elements of the field.              *)
(***************************************************************************)

Blob == [chunks : Seq(Nat), rest : Nat]

LEMMA RootType ==
    ASSUME NEW k \in DOMAIN Roots
    PROVE  Roots[k] \in Int
<1>1. Roots \in Seq(Fr)
  BY KzgAssumption
<1>2. Roots[k] \in Fr
  BY <1>1
<1> QED
  BY <1>2, KzgFacts

LEMMA PolyType ==
    ASSUME NEW blob \in Blob, Canonical(blob)
    PROVE  LET poly == PolynomialEvalForm(blob.chunks)
               n == NextPowerOfTwo(Len(blob.chunks))
           IN  /\ n \in Nat /\ poly.evaluations \in [1..n -> Fr]
               /\ poly.underlying = Len(blob.chunks) /\ Len(blob.chunks) \in Nat
<1> DEFINE n == NextPowerOfTwo(Len(blob.chunks))
<1>1. Len(blob.chunks) \in Nat /\ n \in Nat /\ 0 \in Fr
  BY NextPowerType, KzgFacts DEF Blob
<1>2. \A i \in 1..Len(blob.chunks) : blob.chunks[i] \in Fr
  BY KzgFacts DEF Blob, Canonical, Fr
<1> HIDE DEF n
<1> QED
  BY <1>1, <1>2 DEF PolynomialEvalForm, n

LEMMA InterpolateType ==
    ASSUME NEW poly, NEW n \in Nat, poly.evaluations \in [1..n -> Fr],
           Log2(n) + 1 \in DOMAIN Roots, NEW x \in Int
    PROVE  Interpolate(poly, x) \in Fr
<1> DEFINE e == poly.evaluations
           point(i) == Power(Roots[Log2(n) + 1], i - 1)
           factors(i, a) == [j \in 1..n |-> IF j = i THEN 1 ELSE (a - point(j)) % P]
           over(i, a) == ProductOf(factors(i, a))
           term(i) == e[i] * over(i, x) * Inv(over(i, point(i)))
           terms == [i \in 1..n |-> term(i)]
<1>1. Len(e) = n /\ \A i \in 1..n : e[i] \in Int
  <2>1. Len(e) = n /\ \A i \in 1..n : e[i] \in Fr
    OBVIOUS
  <2> QED
    BY <2>1, KzgFacts
<1>2. Roots[Log2(n) + 1] \in Int
  BY RootType
<1>3. ASSUME NEW i \in 1..n PROVE point(i) \in Int
  <2>1. i - 1 \in Nat
    OBVIOUS
  <2> QED
    BY <1>2, <2>1, PowerType
<1> HIDE DEF point
<1>4. ASSUME NEW i \in 1..n, NEW a \in Int PROVE over(i, a) \in Int
  <2>1. \A j \in 1..n : (a - point(j)) % P \in Int
    BY <1>3, CongRemainder
  <2>2. factors(i, a) \in [1..n -> Int]
    BY <2>1
  <2> HIDE DEF factors
  <2> QED
    BY <2>2, ProductType
<1> HIDE DEF over
<1>5. ASSUME NEW i \in 1..n PROVE term(i) \in Int
  <2>1. e[i] \in Int /\ over(i, x) \in Int /\ over(i, point(i)) \in Int
    BY <1>1, <1>3, <1>4
  <2>2. Inv(over(i, point(i))) \in Int
    BY <2>1, InvType
  <2> QED
    BY <2>1, <2>2
<1> HIDE DEF term
<1>6. terms \in [1..n -> Int]
  BY <1>5
<1> HIDE DEF terms
<1>7. SumOf(terms) \in Int
  BY <1>6, SumSteps
<1>8. Interpolate(poly, x) = SumOf(terms) % P
  BY <1>1 DEF Interpolate, terms, term, over, point
<1> QED
  BY <1>7, <1>8, DivMod

\* The domain consists of elements of the field.
LEMMA RootsType ==
    ASSUME NEW n \in Nat
    PROVE  CalculateRootsOfUnity(n) \in Seq(Int)
<1> DEFINE k == Log2(NextPowerOfTwo(n)) + 1
           roots == ExpandRootOfUnity(Roots[k])
<1>1. CASE n = 0 \/ n > SrsSize \/ k \notin DOMAIN Roots
  BY <1>1 DEF CalculateRootsOfUnity
<1>2. CASE ~(n = 0 \/ n > SrsSize \/ k \notin DOMAIN Roots)
  <2>1. Roots[k] \in Int
    BY <1>2, RootType
  <2> DEFINE root == Roots[k]
             back == {i \in 1..(SrsSize + 1) : Power(root, i) = 1}
             last == IF back = {} THEN SrsSize + 1 ELSE Min(back)
  <2>2. CalculateRootsOfUnity(n) = SubSeq(roots, 1, Len(roots) - 1)
    BY <1>2 DEF CalculateRootsOfUnity
  <2>3. roots = [i \in 1..(last + 1) |-> Power(root, i - 1)]
    BY Zenon DEF ExpandRootOfUnity
  <2> HIDE DEF roots, root
  <2>4. last \in Nat
    <3>1. back \in SUBSET Nat /\ SrsSize + 1 \in Nat
      BY KzgFacts
    <3> HIDE DEF back
    <3> QED
      BY <3>1, MinType
  <2> HIDE DEF last
  <2>5. ASSUME NEW i \in 1..(last + 1) PROVE Power(root, i - 1) \in Int
    <3>1. i - 1 \in Nat /\ root \in Int
      BY <2>1, <2>4 DEF root
    <3> QED
      BY <3>1, PowerType
  <2>6. roots \in Seq(Int) /\ Len(roots) = last + 1
    BY <2>3, <2>4, <2>5
  <2>7. SubSeq(roots, 1, Len(roots) - 1) \in Seq(Int)
    BY <2>4, <2>6
  <2> QED
    BY <2>2, <2>7
<1> QED
  BY <1>1, <1>2

LEMMA EvaluateType ==
    ASSUME NEW poly, NEW n \in Nat, poly.evaluations \in [1..n -> Fr],
           poly.underlying \in Nat, Evaluable(poly), NEW z \in Int
    PROVE  EvaluatePolynomial(poly, z) \in Fr
<1> DEFINE e == poly.evaluations
           roots == CalculateRootsOfUnity(poly.underlying)
           term(i) == e[i] * roots[i] * Inv((z - roots[i]) % P)
           terms == [i \in 1..n |-> term(i)]
           value == SumOf(terms) * (Power(z, n) - 1) * Inv(n % P)
<1>1. Len(e) = n /\ \A i \in 1..n : e[i] \in Int
  <2>1. Len(e) = n /\ \A i \in 1..n : e[i] \in Fr
    OBVIOUS
  <2> QED
    BY <2>1, KzgFacts
<1>2. roots \in Seq(Int) /\ Len(roots) = n
  BY <1>1, RootsType DEF Evaluable
<1> HIDE DEF roots
<1>3. \A i \in 1..n : roots[i] \in Int
  BY <1>2
<1>4. ASSUME NEW i \in 1..n PROVE term(i) \in Int
  <2>0. z - roots[i] \in Int
    BY <1>3
  <2>1. (z - roots[i]) % P \in Int
    BY <2>0, CongRemainder
  <2>2. Inv((z - roots[i]) % P) \in Int
    BY <2>1, InvType
  <2> QED
    BY <1>1, <1>3, <2>2
<1> HIDE DEF term
<1>5. terms \in [1..n -> Int]
  BY <1>4
<1> HIDE DEF terms
<1>6. SumOf(terms) \in Int
  BY <1>5, SumSteps
<1>7. Power(z, n) \in Int /\ Inv(n % P) \in Int
  <2>1. n % P \in Int
    BY CongRemainder
  <2> QED
    BY <2>1, PowerType, InvType
<1>8. value \in Int
  BY <1>6, <1>7
<1>9. value % P \in Fr
  <2> HIDE DEF value
  <2> QED
    BY <1>8, DivMod
<1>10. \A i \in 1..n : e[i] \in Fr
  OBVIOUS
<1>11. EvaluatePolynomial(poly, z) =
         IF \E i \in 1..n : roots[i] = z
         THEN e[CHOOSE i \in 1..n : roots[i] = z]
         ELSE value % P
  BY <1>1 DEF EvaluatePolynomial, terms, term, roots
<1> HIDE DEF value, e
<1> QED
  BY <1>9, <1>10, <1>11

-----------------------------------------------------------------------------
(***************************************************************************)
(* Evaluation is interpolation.                                            *)
(***************************************************************************)

LEMMA InterpolateIsLagrange ==
    ASSUME NEW poly, NEW n \in Nat, poly.evaluations \in [1..n -> Fr],
           PrimitiveRoot(Roots[Log2(n) + 1], n), NEW x
    PROVE  Interpolate(poly, x)
             = SumOf(Lagrange(Roots[Log2(n) + 1], n, poly.evaluations, x)) % P
<1> DEFINE w == Roots[Log2(n) + 1]
           e == poly.evaluations
           r == Points(w, n)
           point(i) == Power(w, i - 1)
           over(i, a) == ProductOf([j \in 1..n |-> IF j = i THEN 1 ELSE (a - point(j)) % P])
           terms == [i \in 1..n |-> e[i] * over(i, x) * Inv(over(i, point(i)))]
<1>1. Len(e) = n
  OBVIOUS
<1>2. Interpolate(poly, x) = SumOf(terms) % P
  BY <1>1, Zenon DEF Interpolate
<1> HIDE DEF w, e
<1>3. \A i \in 1..n : r[i] = point(i)
  BY DEF Points
<1>4. ASSUME NEW i, NEW a PROVE over(i, a) = Over(w, n, i, a)
  <2>1. [j \in 1..n |-> IF j = i THEN 1 ELSE (a - point(j)) % P] = Factors(n, r, i, a)
    <3> HIDE DEF point, r
    <3> QED
      BY <1>3, Zenon DEF Factors
  <2> QED
    BY <2>1, Zenon DEF Over
<1> HIDE DEF point, over, r
<1>5. terms = Lagrange(w, n, e, x)
  <2>1. ASSUME NEW i \in 1..n
        PROVE  e[i] * over(i, x) * Inv(over(i, point(i)))
                 = e[i] * Over(w, n, i, x) * Inv(Over(w, n, i, r[i]))
    BY <1>3, <1>4, Zenon
  <2> QED
    BY <2>1, Zenon DEF Lagrange, r
<1> QED
  BY <1>2, <1>5, Zenon DEF w, e

\* The barycentric formula, and the case of a point of the domain, give the
\* value of the polynomial through the evaluations.
LEMMA EvaluationExact ==
    ASSUME NEW blob \in Blob, Provable(blob), NEW z \in Fr
    PROVE  LET poly == PolynomialEvalForm(blob.chunks)
           IN  /\ Evaluable(poly)
               /\ EvaluatePolynomial(poly, z) = Interpolate(poly, z)
<1> DEFINE poly == PolynomialEvalForm(blob.chunks)
           c == Len(blob.chunks)
           n == NextPowerOfTwo(c)
           e == poly.evaluations
           w == Roots[Log2(n) + 1]
           roots == CalculateRootsOfUnity(c)
           r == Points(w, n)
<1>1. c \in 1..SrsSize /\ Canonical(blob)
  BY DEF Provable
<1>2. e \in [1..n -> Fr] /\ poly.underlying = c
  BY <1>1, PolyType
<1>3. n \in Nat \ {0} /\ ~Cong(n, 0) /\ PrimitiveRoot(w, n)
  BY <1>1, DomainSize
<1>4. roots = r
  BY <1>1, DomainIsPoints
<1>5. /\ n \in Nat /\ r \in [1..n -> Int]
      /\ \A i \in 1..n : r[i] \in Int /\ r[i] \in Fr
  BY <1>3, PointsType
<1>6. Fr \subseteq Int /\ z \in Int
  BY KzgFacts
<1>20. Interpolate(poly, z) = SumOf(Lagrange(w, n, e, z)) % P
  <2> HIDE DEF poly, n
  <2> QED
    BY <1>2, <1>3, <1>5, InterpolateIsLagrange, Zenon
<1> DEFINE terms == [i \in 1..n |-> e[i] * roots[i] * Inv((z - roots[i]) % P)]
<1>7. Len(e) = n
  <2> HIDE DEF n, e
  <2> QED
    BY <1>2, <1>5
<1>8. EvaluatePolynomial(poly, z) =
        IF \E i \in 1..n : roots[i] = z
        THEN e[CHOOSE i \in 1..n : roots[i] = z]
        ELSE (SumOf(terms) * (Power(z, n) - 1) * Inv(n % P)) % P
  <2> HIDE DEF n, poly
  <2> QED
    BY <1>2, <1>7, Zenon DEF EvaluatePolynomial
<1>9. Evaluable(poly)
  <2> HIDE DEF n, poly, roots, r
  <2>1. Len(r) = n /\ r # << >>
    BY <1>3, <1>5
  <2> QED
    BY <1>2, <1>4, <1>7, <2>1 DEF Evaluable, roots
<1> HIDE DEF poly, n, w, e, roots
<1>10. e \in [1..n -> Int]
  BY <1>2, <1>5, <1>6
<1> DEFINE s == SumOf(Lagrange(w, n, e, z))
<1>11. s \in Int
  BY <1>3, <1>5, <1>6, <1>10, LagrangeType, SumType
<1>12. CASE \E i \in 1..n : roots[i] = z
  <2> DEFINE k == CHOOSE i \in 1..n : roots[i] = z
  <2>1. k \in 1..n /\ roots[k] = z
    BY <1>12
  <2> HIDE DEF k
  <2>2. r[k] = z
    BY <1>4, <2>1
  <2>3. Cong(SumOf(Lagrange(w, n, e, r[k])), e[k])
    BY <1>3, <1>10, <2>1, InterpolationAtPoint, Zenon
  <2>4. Cong(s, e[k]) /\ e[k] \in Int /\ e[k] \in Fr
    BY <1>2, <1>6, <2>1, <2>2, <2>3
  <2> HIDE DEF s
  <2>5. s % P = e[k] % P
    BY <1>11, <2>4, CongIsRemainder
  <2>6. e[k] % P = e[k]
    <3> DEFINE a == e[k]
    <3>1. a \in 0..(P - 1) /\ P \in Nat
      BY <2>4, KzgFacts DEF Fr
    <3> HIDE DEF a
    <3>2. a % P = a
      BY <3>1, KzgFacts
    <3> QED
      BY <3>2 DEF a
  <2>7. EvaluatePolynomial(poly, z) = e[k]
    BY <1>8, <1>12, Zenon DEF k
  <2> QED
    BY <1>9, <1>20, <2>5, <2>6, <2>7 DEF s, poly
<1>13. CASE ~\E i \in 1..n : roots[i] = z
  <2>1. ASSUME NEW i \in 1..n PROVE ~Cong(z, r[i])
    <3>1. r[i] # z /\ r[i] \in Fr
      BY <1>4, <1>5, <1>13
    <3> QED
      BY <3>1, CongEqual
  <2>2. Cong(SumOf(Lagrange(w, n, e, z)),
             SumOf(Barycentric(w, n, e, z)) * (Power(z, n) - 1) * Inv(n % P))
    BY <1>3, <1>6, <1>10, <2>1, BarycentricFormula, Zenon
  <2>3. terms = Barycentric(w, n, e, z)
    BY <1>4, Zenon DEF Barycentric
  <2> DEFINE b == SumOf(terms) * (Power(z, n) - 1) * Inv(n % P)
  <2>4. Cong(s, b)
    BY <2>2, <2>3, Zenon
  <2>5. b \in Int
    <3>1. SumOf(terms) \in Int
      BY <1>3, <1>5, <1>6, <1>10, <2>3, LagrangeType, SumType
    <3>2. n % P \in Int /\ Power(z, n) \in Int
      BY <1>5, <1>6, PowerType, CongRemainder
    <3>3. Inv(n % P) \in Int
      BY <3>2, InvType
    <3> HIDE DEF terms
    <3> QED
      BY <3>1, <3>2, <3>3
  <2> HIDE DEF s
  <2>6. s % P = b % P
    <3> HIDE DEF b
    <3> QED
      BY <1>11, <2>4, <2>5, CongIsRemainder
  <2>7. EvaluatePolynomial(poly, z) = b % P
    BY <1>8, <1>13, Zenon
  <2> HIDE DEF b
  <2> QED
    BY <1>9, <1>20, <2>6, <2>7 DEF s, poly
<1> QED
  BY <1>12, <1>13

-----------------------------------------------------------------------------
(***************************************************************************)
(* The inductive invariant.                                                *)
(***************************************************************************)

Point == Fr \cup {NoPoint}

GivenType ==
    given \in [blobs : Seq(Blob), commitments : Seq(Point), proofs : Seq(Point)]

\* The prover sends a commitment and a proof with every blob; the verifier
\* goes on only with a batch that it could read.
StageInv ==
    /\ pc \in {"prove", "parse"} => zs = << >> /\ ys = << >>
    /\ pc = "prove" => /\ Len(given.commitments) = Len(given.blobs)
                       /\ Len(given.proofs) = Len(given.blobs)
    /\ pc = "challenge" => WellFormed /\ Len(ys) = Len(zs)

KzgInv == TypeOK /\ GivenType /\ StageInv

LEMMA KzgInitInv == Init => KzgInv
  BY DEF Init, KzgInv, TypeOK, GivenType, StageInv, Point, Blob

LEMMA EncodeType ==
    ASSUME NEW a \in Fr
    PROVE  Encode(a) \in Point
  BY DEF Encode, Point

LEMMA HashType ==
    ASSUME NEW message, NEW z \in Fr, HashesTo(message, z),
           \A m \in DOMAIN hash : hash[m] \in Fr
    PROVE  \A m \in DOMAIN hash' : hash'[m] \in Fr
  BY DEF HashesTo

\* What the prover computes is in the field.
LEMMA ProverType ==
    ASSUME NEW blob \in Blob, Provable(blob), NEW z \in Int
    PROVE  LET poly == PolynomialEvalForm(blob.chunks)
           IN  Commit(poly) \in Fr /\ ComputeBlobProof(poly, z) \in Fr
<1> DEFINE poly == PolynomialEvalForm(blob.chunks)
           n == NextPowerOfTwo(Len(blob.chunks))
<1>1. n \in Nat /\ poly.evaluations \in [1..n -> Fr]
  BY PolyType DEF Provable
<1>2. Log2(n) + 1 \in DOMAIN Roots
  BY KzgAssumption DEF Provable
<1>3. Tau \in Int /\ Fr \subseteq Int
  BY KzgFacts
<1> HIDE DEF poly, n
<1>4. Commit(poly) \in Fr /\ Interpolate(poly, z) \in Int
  BY <1>1, <1>2, <1>3, InterpolateType DEF Commit
<1>5. (Tau - z) % P \in Int
  <2>1. Tau - z \in Int
    BY <1>3
  <2> QED
    BY <2>1, CongRemainder
<1>6. Inv((Tau - z) % P) \in Int
  BY <1>5, InvType
<1> DEFINE i == Inv((Tau - z) % P)
           product == (Commit(poly) - Interpolate(poly, z)) * i
<1>7. product \in Int
  <2>1. Commit(poly) \in Int /\ i \in Int
    BY <1>3, <1>4, <1>6
  <2> HIDE DEF i
  <2> QED
    BY <1>4, <2>1
<1>8. product % P \in Fr
  <2> HIDE DEF product
  <2> QED
    BY <1>7, DivMod
<1> QED
  BY <1>4, <1>8 DEF ComputeBlobProof, poly

LEMMA ElementType ==
    ASSUME NEW D, NEW s \in Seq(D), NEW k \in 1..Len(s)
    PROVE  s[k] \in D
  OBVIOUS

LEMMA ProveInv == ASSUME KzgInv, Prove PROVE KzgInv'
<1> DEFINE n == Len(given.blobs)
           item == request.items[n + 1]
           poly == PolynomialEvalForm(item.blob.chunks)
           commitment(z) == IF Provable(item.blob)
                            THEN (Commit(poly) + item.error.commitment) % P
                            ELSE item.error.commitment
           proof(z) == IF Provable(item.blob)
                       THEN (ComputeBlobProof(poly, z) + item.error.proof) % P
                       ELSE item.error.proof
<1>1. PICK z \in Fr \ {Tau} :
        /\ IF Provable(item.blob)
           THEN HashesTo(ChallengeMessage(poly, commitment(z)), z)
           ELSE UNCHANGED hash
        /\ given' = [blobs |-> Append(given.blobs, item.blob),
                     commitments |-> Append(given.commitments, Encode(commitment(z))),
                     proofs |-> Append(given.proofs, Encode(proof(z)))]
  BY DEF Prove
<1>2. /\ pc = "prove" /\ n < Len(request.items)
      /\ UNCHANGED <<request, pc, zs, ys, result>>
  BY DEF Prove
<1>3. /\ given.blobs \in Seq(Blob) /\ given.commitments \in Seq(Point)
      /\ given.proofs \in Seq(Point) /\ n \in Nat
      /\ Len(given.commitments) = n /\ Len(given.proofs) = n
  BY <1>2 DEF KzgInv, GivenType, StageInv
<1>4. request \in RequestRecord
  BY KzgAssumption DEF KzgInv, TypeOK
<1>5. item.blob \in Blob /\ item.error.commitment \in Fr /\ item.error.proof \in Fr
  <2>1. request.items \in Seq([blob : Blob, error : [commitment : Fr, proof : Fr]])
    BY <1>4 DEF RequestRecord, Blob
  <2>2. item \in [blob : Blob, error : [commitment : Fr, proof : Fr]]
    <3>1. n + 1 \in 1..Len(request.items)
      BY <1>2, <1>3, <2>1
    <3> HIDE DEF n
    <3> QED
      BY <2>1, <3>1, ElementType, Zenon
  <2> QED
    BY <2>2
<1>6. commitment(z) \in Fr /\ proof(z) \in Fr
  <2>1. CASE Provable(item.blob)
    <3>1. Commit(poly) \in Fr /\ ComputeBlobProof(poly, z) \in Fr
      BY <1>5, <2>1, ProverType, KzgFacts
    <3> HIDE DEF item, poly
    <3>3. /\ Commit(poly) \in Int /\ item.error.commitment \in Int
          /\ ComputeBlobProof(poly, z) \in Int /\ item.error.proof \in Int
      BY <1>5, <3>1, KzgFacts, Zenon
    <3>2. /\ Commit(poly) + item.error.commitment \in Int
          /\ ComputeBlobProof(poly, z) + item.error.proof \in Int
      BY <3>3
    <3> QED
      BY <2>1, <3>2, DivMod
  <2>2. CASE ~Provable(item.blob)
    BY <1>5, <2>2
  <2> QED
    BY <2>1, <2>2
<1> HIDE DEF item, commitment, proof, poly
<1>7. Encode(commitment(z)) \in Point /\ Encode(proof(z)) \in Point
  BY <1>6, EncodeType
<1>8. /\ GivenType'
      /\ Len(given'.commitments) = Len(given'.blobs)
      /\ Len(given'.proofs) = Len(given'.blobs)
  BY <1>1, <1>3, <1>5, <1>7 DEF GivenType
<1>9. \A m \in DOMAIN hash' : hash'[m] \in Fr
  <2>1. \A m \in DOMAIN hash : hash[m] \in Fr
    BY DEF KzgInv, TypeOK
  <2> QED
    BY <1>1, <2>1, HashType
<1>10. TypeOK'
  BY <1>2, <1>8, <1>9 DEF KzgInv, TypeOK, GivenType, Point
<1> QED
  BY <1>2, <1>8, <1>10 DEF KzgInv, StageInv

LEMMA SubSeqType ==
    ASSUME NEW D, NEW s \in Seq(D), NEW n \in Nat, n <= Len(s)
    PROVE  SubSeq(s, 1, n) \in Seq(D)
  OBVIOUS

LEMMA SendInv == ASSUME KzgInv, Send PROVE KzgInv'
<1> DEFINE cs == SubSeq(given.commitments, 1, request.commitments)
           ps == SubSeq(given.proofs, 1, request.proofs)
<1>1. /\ pc = "prove" /\ pc' = "parse" /\ UNCHANGED <<request, hash, zs, ys, result>>
      /\ Len(given.blobs) = Len(request.items)
      /\ given' = [given EXCEPT !.commitments = SubSeq(@, 1, request.commitments),
                                !.proofs = SubSeq(@, 1, request.proofs)]
  BY DEF Send
<1>2. /\ given \in [blobs : Seq(Blob), commitments : Seq(Point), proofs : Seq(Point)]
      /\ Len(given.commitments) = Len(request.items)
      /\ Len(given.proofs) = Len(request.items)
  BY <1>1 DEF KzgInv, GivenType, StageInv
<1>3. /\ request.commitments \in Nat /\ request.commitments <= Len(request.items)
      /\ request.proofs \in Nat /\ request.proofs <= Len(request.items)
  BY KzgAssumption DEF KzgInv, TypeOK, RequestRecord
<1>4. cs \in Seq(Point) /\ ps \in Seq(Point)
  BY <1>2, <1>3, SubSeqType
<1>5. given' = [blobs |-> given.blobs, commitments |-> cs, proofs |-> ps]
  <2> HIDE DEF cs, ps
  <2> QED
    BY <1>1, <1>2 DEF cs, ps
<1> HIDE DEF cs, ps
<1>6. GivenType'
  BY <1>2, <1>4, <1>5 DEF GivenType
<1> QED
  BY <1>1, <1>6 DEF KzgInv, TypeOK, GivenType, StageInv, Point

LEMMA ParseInv == ASSUME KzgInv, Parse PROVE KzgInv'
<1>1. UNCHANGED <<request, hash, given, zs, ys>> /\ pc = "parse"
  BY DEF Parse
<1>2. \/ pc' = "done" /\ result' \in {"error", "true"}
      \/ WellFormed /\ pc' = "challenge" /\ result' = result
  BY DEF Parse, Return
<1>3. WellFormed =>
        /\ Len(given.commitments) = Len(given.blobs)
        /\ Len(given.proofs) = Len(given.blobs)
        /\ \A i \in DOMAIN given.blobs :
             given.commitments[i] # NoPoint /\ given.proofs[i] # NoPoint
  BY DEF WellFormed, OnCurve, KzgInv, GivenType
<1>4. TypeOK' /\ GivenType'
  BY <1>1, <1>2, <1>3 DEF KzgInv, TypeOK, GivenType
<1> QED
  BY <1>1, <1>2, <1>4 DEF KzgInv, StageInv, WellFormed

\* The polynomial of a blob the verifier could read, and its evaluation.
LEMMA VerifierType ==
    ASSUME KzgInv, pc = "challenge", NEW i \in 1..Len(given.blobs), Evaluable(Poly(i)),
           NEW z \in Fr
    PROVE  EvaluatePolynomial(Poly(i), z) \in Fr
<1> DEFINE blob == given.blobs[i]
           n == NextPowerOfTwo(Len(blob.chunks))
<1>1. given.blobs \in Seq(Blob)
  BY DEF KzgInv, GivenType
<1>2. i \in DOMAIN given.blobs /\ blob \in Blob
  BY <1>1
<1>3. Canonical(blob)
  BY <1>2 DEF KzgInv, StageInv, WellFormed
<1> HIDE DEF blob
<1> DEFINE poly == PolynomialEvalForm(blob.chunks)
<1>4. n \in Nat /\ poly.evaluations \in [1..n -> Fr] /\ poly.underlying \in Nat
  BY <1>2, <1>3, PolyType
<1>5. Poly(i) = poly
  BY DEF Poly, blob
<1>6. Evaluable(poly) /\ z \in Int
  BY <1>5, KzgFacts
<1> HIDE DEF poly, n
<1>7. EvaluatePolynomial(poly, z) \in Fr
  BY <1>4, <1>6, EvaluateType
<1> QED
  BY <1>5, <1>7

LEMMA ChallengeInv == ASSUME KzgInv, ChallengeAndEvaluate PROVE KzgInv'
<1> DEFINE i == Len(zs) + 1
<1>1. PICK z \in Fr \ {Tau} :
        /\ HashesTo(ChallengeMessage(Poly(i), given.commitments[i]), z)
        /\ \/ ~Evaluable(Poly(i)) /\ Return("error") /\ UNCHANGED <<zs, ys>>
           \/ /\ Evaluable(Poly(i))
              /\ zs' = Append(zs, z)
              /\ ys' = Append(ys, EvaluatePolynomial(Poly(i), z))
              /\ UNCHANGED <<pc, result>>
  BY DEF ChallengeAndEvaluate
<1>2. /\ pc = "challenge" /\ UNCHANGED <<request, given>> /\ Len(zs) < Len(given.blobs)
      /\ zs \in Seq(Fr) /\ ys \in Seq(Fr) /\ Len(ys) = Len(zs) /\ given.blobs \in Seq(Blob)
      /\ WellFormed
  BY DEF ChallengeAndEvaluate, KzgInv, TypeOK, GivenType, StageInv
<1>3. i \in 1..Len(given.blobs)
  BY <1>2
<1> HIDE DEF i
<1>4. \A m \in DOMAIN hash' : hash'[m] \in Fr
  <2>1. \A m \in DOMAIN hash : hash[m] \in Fr
    BY DEF KzgInv, TypeOK
  <2> QED
    BY <1>1, <2>1, HashType
<1>5. CASE ~Evaluable(Poly(i))
  <2>1. UNCHANGED <<request, given, zs, ys>> /\ pc' = "done" /\ result' = "error"
    BY <1>1, <1>2, <1>5 DEF Return
  <2> QED
    BY <1>4, <2>1 DEF KzgInv, TypeOK, GivenType, StageInv
<1>6. CASE Evaluable(Poly(i))
  <2> DEFINE y == EvaluatePolynomial(Poly(i), z)
  <2>1. y \in Fr
    BY <1>2, <1>3, <1>6, VerifierType
  <2> HIDE DEF y
  <2>2. zs' = Append(zs, z) /\ ys' = Append(ys, y) /\ UNCHANGED <<pc, result>>
    BY <1>1, <1>6 DEF y
  <2>3. zs' \in Seq(Fr) /\ ys' \in Seq(Fr) /\ Len(ys') = Len(zs')
    BY <1>2, <2>1, <2>2
  <2>4. TypeOK' /\ GivenType'
    BY <1>2, <1>4, <2>2, <2>3 DEF KzgInv, TypeOK, GivenType
  <2> QED
    BY <1>2, <2>2, <2>3, <2>4 DEF KzgInv, StageInv, WellFormed
<1> QED
  BY <1>5, <1>6

LEMMA VerifyInv == ASSUME KzgInv, VerifyBatch PROVE KzgInv'
<1>1. PICK r \in Fr : HashesTo(BatchMessage(Entries), r)
  BY DEF VerifyBatch
<1>2. /\ UNCHANGED <<request, given, zs, ys>> /\ pc' = "done"
      /\ result' \in {"true", "false"}
  BY DEF VerifyBatch, Return
<1>3. \A m \in DOMAIN hash' : hash'[m] \in Fr
  <2>1. \A m \in DOMAIN hash : hash[m] \in Fr
    BY DEF KzgInv, TypeOK
  <2> QED
    BY <1>1, <2>1, HashType
<1> QED
  BY <1>2, <1>3 DEF KzgInv, TypeOK, GivenType, StageInv

LEMMA KzgNextInv == KzgInv /\ [Next]_vars => KzgInv'
<1> SUFFICES ASSUME KzgInv, [Next]_vars
             PROVE  KzgInv'
  OBVIOUS
<1>1. CASE Done \/ UNCHANGED vars
  BY <1>1 DEF Done, vars, KzgInv, TypeOK, GivenType, StageInv, WellFormed
<1> QED
  BY <1>1, ProveInv, SendInv, ParseInv, ChallengeInv, VerifyInv DEF Next

LEMMA KzgInvHolds == Spec => []KzgInv
  BY KzgInitInv, KzgNextInv, PTL DEF Spec

\* Prover and verifier keep their types: what is computed modulo the order of
\* the field is an element of it, for every blob, also one whose size is no
\* power of two, and a batch that is parsed has a commitment and a proof on the
\* curve for each of its blobs (crates/compute-proof, crates/sp1-bn-verifier).
THEOREM KzgTypeCorrect == Spec => []TypeOK
<1>1. KzgInv => TypeOK
  BY DEF KzgInv
<1> QED
  BY <1>1, KzgInvHolds, PTL

-----------------------------------------------------------------------------
(***************************************************************************)
(* The equation of the batch, in terms of the errors of its entries.       *)
(***************************************************************************)

LEMMA CombineTerms ==
    ASSUME NEW n \in Nat, NEW A \in [1..n -> Int], NEW B \in [1..n -> Int],
           NEW C \in [1..n -> Int], NEW E \in [1..n -> Int],
           \A i \in 1..n : Cong(A[i] * Tau, (B[i] + C[i]) + E[i])
    PROVE  Cong(SumOf(A) * Tau, (SumOf(B) + SumOf(C)) + SumOf(E))
<1> DEFINE a == SumUpTo(A)
           b == SumUpTo(B)
           c == SumUpTo(C)
           e == SumUpTo(E)
           S == {k \in 0..n : Cong(a[k] * Tau, (b[k] + c[k]) + e[k])}
<1>1. /\ a \in [0..n -> Int] /\ a[0] = 0 /\ SumOf(A) = a[n]
      /\ b \in [0..n -> Int] /\ b[0] = 0 /\ SumOf(B) = b[n]
      /\ c \in [0..n -> Int] /\ c[0] = 0 /\ SumOf(C) = c[n]
      /\ e \in [0..n -> Int] /\ e[0] = 0 /\ SumOf(E) = e[n]
  BY SumSteps
<1>2. ASSUME NEW k \in 0..(n - 1)
      PROVE  /\ a[k + 1] = a[k] + A[k + 1] /\ b[k + 1] = b[k] + B[k + 1]
             /\ c[k + 1] = c[k] + C[k + 1] /\ e[k + 1] = e[k] + E[k + 1]
  BY SumStep
<1>4. Tau \in Int
  BY KzgFacts
<1> HIDE DEF a, b, c, e
<1>5. 0 \in S
  <2>1. a[0] * Tau = 0 /\ (b[0] + c[0]) + e[0] = 0
    BY <1>1, <1>4
  <2>2. Cong(0, 0)
    BY CongReflexive
  <2> QED
    BY <2>1, <2>2
<1>6. ASSUME NEW k \in 0..(n - 1), k \in S
      PROVE  k + 1 \in S
  <2>1. k + 1 \in 1..n /\ k + 1 \in 0..n /\ k \in 0..n
    OBVIOUS
  <2> DEFINE u == a[k]
             v == b[k]
             w == c[k]
             t == e[k]
             x == A[k + 1]
             y == B[k + 1]
             z == C[k + 1]
             d == E[k + 1]
  <2>2. /\ u \in Int /\ v \in Int /\ w \in Int /\ x \in Int /\ y \in Int /\ z \in Int
        /\ t \in Int /\ d \in Int
    BY <1>1, <2>1
  <2>3. /\ a[k + 1] = u + x /\ b[k + 1] = v + y /\ c[k + 1] = w + z
        /\ e[k + 1] = t + d
    BY <1>2
  <2>4. Cong(u * Tau, (v + w) + t) /\ Cong(x * Tau, (y + z) + d)
    BY <1>6, <2>1
  <2> HIDE DEF u, v, w, x, y, z, t, d
  <2> DEFINE uT == u * Tau
             xT == x * Tau
             vwt == (v + w) + t
             yzd == (y + z) + d
  <2>5. /\ (u + x) * Tau = uT + xT
        /\ ((v + y) + (w + z)) + (t + d) = vwt + yzd
        /\ uT \in Int /\ xT \in Int /\ vwt \in Int /\ yzd \in Int
        /\ Cong(uT, vwt) /\ Cong(xT, yzd)
    BY <1>4, <2>2, <2>4
  <2> HIDE DEF uT, xT, vwt, yzd
  <2>6. Cong(uT + xT, vwt + yzd)
    BY <2>5, CongAdd
  <2>7. Cong((u + x) * Tau, ((v + y) + (w + z)) + (t + d))
    BY <2>5, <2>6
  <2> QED
    BY <2>1, <2>3, <2>7
<1>7. 0..n \subseteq S
  <2> HIDE DEF S
  <2> QED
    BY <1>5, <1>6, InductionUpTo
<1>8. n \in 0..n
  OBVIOUS
<1>9. Cong(a[n] * Tau, (b[n] + c[n]) + e[n])
  BY <1>7, <1>8
<1> QED
  BY <1>1, <1>9

\* One entry, scaled by its power of r.
LEMMA ScaledEntry ==
    ASSUME NEW p \in Int, NEW c \in Int, NEW y \in Int, NEW z \in Int, NEW s \in Int
    PROVE  /\ Cong((p * s) * Tau, (((c - y) % P) * s + p * ((s * z) % P))
                                    + s * (p * (Tau - z) - (c - y)))
           /\ p * s \in Int /\ ((c - y) % P) * s \in Int /\ p * ((s * z) % P) \in Int
           /\ s * (p * (Tau - z) - (c - y)) \in Int
<1> DEFINE d == c - y
           f == s * z
           m == d % P
           q == f % P
           g == s * (p * (Tau - z) - d)
           all == (p * s) * Tau
<1>0. Tau \in Int
  BY KzgFacts
<1>1. d \in Int /\ f \in Int
  OBVIOUS
<1>2. m \in Int /\ Cong(m, d) /\ q \in Int /\ Cong(q, f)
  <2> HIDE DEF d, f
  <2> QED
    BY <1>1, CongRemainder
<1> HIDE DEF d, m, q
<1>8. g \in Int /\ all \in Int /\ (d * s + p * f) + g = all /\ p * s \in Int
  BY <1>0, <1>1
<1> HIDE DEF f, g, all
<1> DEFINE ms == m * s
           pq == p * q
           ds == d * s
           pf == p * f
<1>5. Cong(ms, ds) /\ Cong(pq, pf)
  BY <1>1, <1>2, CongMultiply
<1>6. ms \in Int /\ ds \in Int /\ pq \in Int /\ pf \in Int
  BY <1>1, <1>2
<1>9. (ds + pf) + g = all
  BY <1>8
<1> HIDE DEF ms, pq, ds, pf
<1>7. Cong(ms + pq, ds + pf) /\ ms + pq \in Int /\ ds + pf \in Int
  BY <1>5, <1>6, CongAdd
<1>10. Cong((ms + pq) + g, (ds + pf) + g)
  BY <1>7, <1>8, CongAdd, CongReflexive
<1>11. Cong(all, (ms + pq) + g)
  <2> DEFINE h == (ms + pq) + g
  <2>1. h \in Int /\ Cong(h, all)
    BY <1>7, <1>8, <1>9, <1>10
  <2> HIDE DEF h
  <2>2. Cong(all, h)
    BY <1>8, <2>1, CongSymmetric
  <2> QED
    BY <2>2 DEF h
<1> QED
  BY <1>6, <1>8, <1>11 DEF all, g, ms, pq, m, q, d, f

\* What the verifier works with once it has evaluated every blob.
LEMMA BatchTypes ==
    ASSUME KzgInv, pc = "challenge", Len(zs) = Len(given.blobs)
    PROVE  LET n == Len(given.commitments)
           IN  /\ n \in Nat /\ Len(given.proofs) = n /\ Len(given.blobs) = n
               /\ DOMAIN zs = 1..n /\ DOMAIN given.blobs = 1..n /\ Len(zs) = n
               /\ \A i \in 1..n : /\ given.commitments[i] \in Fr /\ given.proofs[i] \in Fr
                                  /\ zs[i] \in Fr /\ ys[i] \in Fr
<1>1. /\ zs \in Seq(Fr) /\ ys \in Seq(Fr) /\ Len(ys) = Len(zs) /\ WellFormed
      /\ given.commitments \in Seq(Point) /\ given.proofs \in Seq(Point)
      /\ given.blobs \in Seq(Blob)
  BY DEF KzgInv, TypeOK, GivenType, StageInv
<1>2. /\ Len(given.commitments) = Len(given.blobs)
      /\ Len(given.proofs) = Len(given.blobs)
      /\ \A i \in DOMAIN given.commitments : given.commitments[i] # NoPoint
      /\ \A i \in DOMAIN given.proofs : given.proofs[i] # NoPoint
  BY <1>1 DEF WellFormed, OnCurve
<1> QED
  BY <1>1, <1>2 DEF Point

\* By how much the equation of entry i fails.
Error(i) == given.proofs[i] * (Tau - zs[i]) - (given.commitments[i] - ys[i])

\* What the entries contribute to the equation of the batch, for a challenge x.
ErrorTerms(x) == [i \in 1..Len(given.commitments) |-> Power(x, i - 1) * Error(i)]

LEMMA EntryError ==
    ASSUME KzgInv, pc = "challenge", Len(zs) = Len(given.blobs), NEW i \in DOMAIN zs
    PROVE  Error(i) \in Int /\ (EntryHolds(i) <=> Cong(Error(i), 0))
<1> DEFINE p == given.proofs[i]
           c == given.commitments[i]
           z == zs[i]
           y == ys[i]
           u == p * (Tau - z)
           v == c - y
<1>1. p \in Int /\ c \in Int /\ z \in Int /\ y \in Int /\ Tau \in Int
  BY BatchTypes, KzgFacts
<1> HIDE DEF p, c, z, y
<1>2. u \in Int /\ v \in Int
  BY <1>1
<1>3. Error(i) = u - v
  BY DEF Error, p, c, z, y
<1>4. EntryHolds(i) <=> u % P = v % P
  BY DEF EntryHolds, p, c, z, y
<1> HIDE DEF u, v
<1>5. u % P = v % P <=> Cong(u, v)
  BY <1>2, CongIsRemainder
<1>6. Cong(u - v, 0) <=> Cong(u, v)
  BY <1>2, CongDifference, Zenon
<1>7. u - v \in Int
  BY <1>2
<1> QED
  BY <1>3, <1>4, <1>5, <1>6, <1>7, Zenon

\* The equation of the batch holds exactly if the errors of the entries, scaled
\* by the powers of r, add up to zero.
LEMMA BatchEquation ==
    ASSUME KzgInv, pc = "challenge", Len(zs) = Len(given.blobs), NEW r \in Fr
    PROVE  /\ ErrorTerms(r) \in [1..Len(given.commitments) -> Int]
           /\ VerifyKzgProofBatch(r) <=> Cong(SumOf(ErrorTerms(r)), 0)
<1> DEFINE n == Len(given.commitments)
           c == given.commitments
           p == given.proofs
           s == ComputePowers(r, n)
           cy == [i \in 1..n |-> (c[i] - ys[i]) % P]
           sz == [i \in 1..n |-> (s[i] * zs[i]) % P]
           A == [i \in 1..n |-> p[i] * s[i]]
           B == [i \in 1..n |-> cy[i] * s[i]]
           C == [i \in 1..n |-> p[i] * sz[i]]
           E == ErrorTerms(r)
<1>1. /\ n \in Nat /\ Len(p) = n /\ DOMAIN zs = 1..n
      /\ \A i \in 1..n : c[i] \in Fr /\ p[i] \in Fr /\ zs[i] \in Fr /\ ys[i] \in Fr
  BY BatchTypes
<1>2. Fr \subseteq Int /\ Tau \in Int
  BY KzgFacts
<1>3. ASSUME NEW i \in 1..n
      PROVE  /\ A[i] \in Int /\ B[i] \in Int /\ C[i] \in Int /\ E[i] \in Int
             /\ Cong(A[i] * Tau, (B[i] + C[i]) + E[i])
  <2>1. i - 1 \in Nat /\ r \in Int
    BY <1>1, <1>2
  <2>2. s[i] \in Int /\ s[i] = Power(r, i - 1)
    BY <1>1, <2>1, PowerType DEF ComputePowers
  <2>3. c[i] \in Int /\ p[i] \in Int /\ zs[i] \in Int /\ ys[i] \in Int
    BY <1>1, <1>2
  <2>5. /\ A[i] = p[i] * s[i]
        /\ B[i] = ((c[i] - ys[i]) % P) * s[i]
        /\ C[i] = p[i] * ((s[i] * zs[i]) % P)
    BY <1>1
  <2>4. E[i] = s[i] * (p[i] * (Tau - zs[i]) - (c[i] - ys[i]))
    BY <2>2, Zenon DEF ErrorTerms, Error
  <2> DEFINE pi == p[i]
             ci == c[i]
             si == s[i]
             yi == ys[i]
             zi == zs[i]
  <2> HIDE DEF A, B, C, E, c, p, s
  <2>6. pi \in Int /\ ci \in Int /\ si \in Int /\ yi \in Int /\ zi \in Int
    BY <2>2, <2>3
  <2>7. /\ A[i] = pi * si
        /\ B[i] = ((ci - yi) % P) * si
        /\ C[i] = pi * ((si * zi) % P)
        /\ E[i] = si * (pi * (Tau - zi) - (ci - yi))
    BY <2>4, <2>5, Zenon
  <2> HIDE DEF pi, ci, si, yi, zi
  <2>8. /\ Cong((pi * si) * Tau, (((ci - yi) % P) * si + pi * ((si * zi) % P))
                                   + si * (pi * (Tau - zi) - (ci - yi)))
        /\ pi * si \in Int /\ ((ci - yi) % P) * si \in Int
        /\ pi * ((si * zi) % P) \in Int /\ si * (pi * (Tau - zi) - (ci - yi)) \in Int
    BY <2>6, ScaledEntry, Zenon
  <2> QED
    BY <2>7, <2>8, Zenon
<1>4. /\ A \in [1..n -> Int] /\ B \in [1..n -> Int] /\ C \in [1..n -> Int]
      /\ E \in [1..n -> Int]
  <2>1. /\ A = [i \in 1..n |-> A[i]] /\ B = [i \in 1..n |-> B[i]]
        /\ C = [i \in 1..n |-> C[i]] /\ E = [i \in 1..n |-> E[i]]
    BY DEF ErrorTerms
  <2> HIDE DEF A, B, C, E
  <2> QED
    BY <1>3, <2>1
<1>5. VerifyKzgProofBatch(r) <=>
        ((SumOf(A) % P) * Tau) % P = (((SumOf(B) % P) + (SumOf(C) % P)) * 1) % P
  <2>1. Len(cy) = n
    BY <1>1
  <2> QED
    BY <1>1, <2>1 DEF VerifyKzgProofBatch, LinComb, PairingsVerify
<1> HIDE DEF A, B, C, E, n
<1> DEFINE a == SumOf(A)
           b == SumOf(B)
           d == SumOf(C)
           e == SumOf(E)
<1>6. a \in Int /\ b \in Int /\ d \in Int /\ e \in Int
  BY <1>1, <1>4, SumType
<1>7. Cong(a * Tau, (b + d) + e)
  BY <1>1, <1>3, <1>4, CombineTerms, Zenon
<1> HIDE DEF a, b, d, e
<1>8. ((a % P) * Tau) % P = (((b % P) + (d % P)) * 1) % P <=> Cong(a * Tau, b + d)
  <2>1. /\ Cong(a % P, a) /\ a % P \in Int /\ Cong(b % P, b) /\ b % P \in Int
        /\ Cong(d % P, d) /\ d % P \in Int
    BY <1>6, CongRemainder
  <2> DEFINE u == a % P
             v == b % P
             w == d % P
  <2> HIDE DEF u, v, w
  <2>2. Cong(u * Tau, a * Tau) /\ Cong(v + w, b + d)
    BY <1>2, <1>6, <2>1, CongMultiply, CongAdd DEF u, v, w
  <2>3. u * Tau \in Int /\ a * Tau \in Int /\ v + w \in Int /\ b + d \in Int
        /\ (v + w) * 1 = v + w
    BY <1>2, <1>6, <2>1 DEF u, v, w
  <2>4. (u * Tau) % P = (a * Tau) % P /\ (v + w) % P = (b + d) % P
    BY <2>2, <2>3, CongIsRemainder
  <2>5. Cong(a * Tau, b + d) <=> (a * Tau) % P = (b + d) % P
    BY <2>3, CongIsRemainder
  <2> QED
    BY <2>3, <2>4, <2>5 DEF u, v, w
<1> DEFINE x == a * Tau
           y == b + d
<1>9. x \in Int /\ y \in Int /\ Cong(x, y + e)
  BY <1>2, <1>6, <1>7
<1> HIDE DEF x, y
<1>10. Cong(x, y) <=> Cong(e, 0)
  <2>1. y + e \in Int /\ (y + e) - y = e
    BY <1>6, <1>9
  <2>2. ASSUME Cong(x, y) PROVE Cong(e, 0)
    <3>1. Cong(y + e, x)
      BY <1>9, <2>1, CongSymmetric
    <3>2. Cong(y + e, y)
      BY <1>9, <2>1, <2>2, <3>1, CongTrans
    <3>3. Cong((y + e) - y, 0)
      BY <1>9, <2>1, <3>2, CongDifference
    <3> QED
      BY <2>1, <3>3
  <2>3. ASSUME Cong(e, 0) PROVE Cong(x, y)
    <3>1. Cong((y + e) - y, 0)
      BY <2>1, <2>3
    <3>2. Cong(y + e, y)
      BY <1>9, <2>1, <3>1, CongDifference
    <3> QED
      BY <1>9, <2>1, <3>2, CongTrans
  <2> QED
    BY <2>2, <2>3
<1> QED
  BY <1>4, <1>5, <1>8, <1>10 DEF a, b, d, e, x, y, E, n

LEMMA BatchOfRightEntries == KzgInv => RightEntriesPass
<1> SUFFICES ASSUME KzgInv, pc = "challenge", Len(zs) = Len(given.blobs),
                    \A i \in DOMAIN zs : EntryHolds(i), NEW r \in Fr
             PROVE  VerifyKzgProofBatch(r)
  BY DEF RightEntriesPass
<1> DEFINE n == Len(given.commitments)
           E == ErrorTerms(r)
<1>1. n \in Nat /\ DOMAIN zs = 1..n /\ r \in Int
  BY BatchTypes, KzgFacts
<1>2. E \in [1..n -> Int] /\ (VerifyKzgProofBatch(r) <=> Cong(SumOf(E), 0))
  BY BatchEquation
<1>3. ASSUME NEW i \in 1..n PROVE Cong(E[i], 0 * E[i])
  <2> DEFINE e == Error(i)
             s == Power(r, i - 1)
  <2>1. e \in Int /\ Cong(e, 0)
    BY <1>1, EntryError
  <2>2. i - 1 \in Nat
    BY <1>1
  <2>3. s \in Int
    BY <1>1, <2>2, PowerType
  <2>4. E[i] = s * e
    BY DEF ErrorTerms
  <2> HIDE DEF e, s
  <2>5. Cong(s * e, 0)
    BY <2>1, <2>3, CongTimesZero, Zenon
  <2>6. 0 * (s * e) = 0
    BY <2>1, <2>3
  <2> QED
    BY <2>4, <2>5, <2>6
<1> HIDE DEF n, E
<1>4. Cong(SumOf(E), 0 * SumOf(E)) /\ SumOf(E) \in Int
  <2>1. 0 \in Int
    OBVIOUS
  <2> QED
    BY <1>1, <1>2, <1>3, <2>1, SumScaled, SumType, Zenon
<1>5. 0 * SumOf(E) = 0
  BY <1>4
<1> QED
  BY <1>2, <1>4, <1>5

\* A batch in which the equation of every entry holds passes, for every value
\* of the challenge r, every number of entries and every field
\* (verify_kzg_proof_batch).
THEOREM RightEntriesPassTheorem == Spec => []RightEntriesPass
  BY BatchOfRightEntries, KzgInvHolds, PTL

LEMMA BatchOfWrongEntries == KzgInv => WrongEntriesRarelyPass
<1> SUFFICES ASSUME KzgInv, pc = "challenge", Len(zs) = Len(given.blobs),
                    NEW top \in DOMAIN zs, ~EntryHolds(top)
             PROVE  Cardinality({r \in Fr : VerifyKzgProofBatch(r)}) < Len(zs)
  BY DEF WrongEntriesRarelyPass
<1> DEFINE n == Len(given.commitments)
           e == [i \in 1..n |-> Error(i)]
<1>1. n \in Nat /\ DOMAIN zs = 1..n /\ Len(zs) = n /\ Fr \subseteq Int
  BY BatchTypes, KzgFacts
<1>2. e \in [1..n -> Int]
  BY <1>1, EntryError
<1>3. top \in 1..n /\ ~Cong(e[top], 0)
  BY <1>1, EntryError
<1>4. \A x : ErrorTerms(x) = [i \in 1..n |-> Power(x, i - 1) * e[i]]
  BY DEF ErrorTerms
<1> HIDE DEF e
<1>5. PICK d \in 0..(n - 1), l \in Int : \E g \in Polynomial(d, l) :
             /\ ~Cong(l, 0)
             /\ \A x \in Int : Cong(SumOf([i \in 1..n |-> Power(x, i - 1) * e[i]]), g[x])
  <2> HIDE DEF n
  <2> QED
    BY <1>1, <1>2, <1>3, SumIsPolynomial, Zenon
<1>6. PICK g \in Polynomial(d, l) :
             /\ ~Cong(l, 0)
             /\ \A x \in Int : Cong(SumOf([i \in 1..n |-> Power(x, i - 1) * e[i]]), g[x])
  BY <1>5, Zenon
<1>7. ASSUME NEW r \in Fr PROVE VerifyKzgProofBatch(r) <=> Cong(g[r], 0)
  <2> DEFINE E == ErrorTerms(r)
             u == SumOf(E)
             v == g[r]
  <2>1. E \in [1..n -> Int] /\ (VerifyKzgProofBatch(r) <=> Cong(u, 0))
    BY BatchEquation
  <2>2. Cong(u, v) /\ r \in Int
    BY <1>1, <1>4, <1>6, Zenon
  <2>3. d \in Nat
    BY <1>1
  <2> HIDE DEF E
  <2>4. u \in Int /\ v \in Int
    BY <1>1, <2>1, <2>2, <2>3, SumType, PolynomialType
  <2> HIDE DEF u, v
  <2>5. 0 \in Int /\ Cong(v, u)
    BY <2>2, <2>4, CongSymmetric
  <2>6. Cong(u, 0) <=> Cong(v, 0)
    BY <2>2, <2>4, <2>5, CongTrans
  <2> QED
    BY <2>1, <2>6 DEF v
<1>8. {r \in Fr : VerifyKzgProofBatch(r)} = {x \in Fr : Cong(g[x], 0)}
  BY <1>7
<1>9. d \in Nat /\ d <= n - 1
  BY <1>1
<1>10. Cardinality({x \in Fr : Cong(g[x], 0)}) <= d
  BY <1>6, <1>9, RootBound, Zenon
<1> DEFINE R == {x \in Fr : Cong(g[x], 0)}
           c == Cardinality(R)
<1>11. c \in Nat
  <2>1. Fr = 0..(P - 1) /\ P - 1 \in Int /\ 0 \in Int
    BY KzgFacts DEF Fr
  <2>2. IsFiniteSet(0..(P - 1))
    BY <2>1, FS_Interval, Zenon
  <2>3. IsFiniteSet({x \in Fr : Cong(g[x], 0)})
    BY <2>1, <2>2, FS_Subset
  <2> QED
    BY <2>3, FS_CardinalityType
<1> HIDE DEF n
<1>12. c < Len(zs)
  <2> HIDE DEF c, R
  <2> QED
    BY <1>1, <1>9, <1>10, <1>11 DEF c, R
<1> QED
  BY <1>8, <1>12, Zenon

\* A batch with a wrong entry passes for fewer values of the challenge r than
\* it has entries, for every field and every number of entries: the errors, as
\* coefficients of the powers of r, are a polynomial that is not zero, and it
\* has no more roots than its degree (verify_kzg_proof_batch, compute_powers).
THEOREM WrongEntriesRarelyPassTheorem == Spec => []WrongEntriesRarelyPass
  BY BatchOfWrongEntries, KzgInvHolds, PTL

-----------------------------------------------------------------------------
(***************************************************************************)
(* What the prover computes is accepted.                                   *)
(***************************************************************************)

\* Commitment c and proof p of a blob are those of the prover, with the
\* challenge that the hash h has for them.
ProvedWith(blob, c, p, h) ==
    LET poly == PolynomialEvalForm(blob.chunks)
        message == ChallengeMessage(poly, Commit(poly))
    IN  /\ message \in DOMAIN h /\ h[message] \in Fr \ {Tau}
        /\ c = Encode(Commit(poly))
        /\ p = Encode(ComputeBlobProof(poly, h[message]))

\* z is the hash of the blob and its commitment.
ChallengedWith(blob, c, z, h) ==
    LET message == ChallengeMessage(PolynomialEvalForm(blob.chunks), c)
    IN  message \in DOMAIN h /\ z = h[message]

ProverInv ==
    Honest => \A i \in DOMAIN given.blobs :
                 Provable(given.blobs[i]) =>
                    ProvedWith(given.blobs[i], given.commitments[i], given.proofs[i], hash)

ChallengeStageInv ==
    pc = "challenge" =>
        \A i \in DOMAIN zs :
            /\ i \in DOMAIN given.blobs
            /\ ChallengedWith(given.blobs[i], given.commitments[i], zs[i], hash)

HonestInv ==
    /\ ProverInv
    /\ ChallengeStageInv
    /\ EvaluationIsInterpolation
    /\ HonestBatchAccepted

LEMMA InterpolateInField ==
    ASSUME NEW blob \in Blob, Provable(blob), NEW x \in Int
    PROVE  Interpolate(PolynomialEvalForm(blob.chunks), x) \in Fr
<1> DEFINE poly == PolynomialEvalForm(blob.chunks)
           n == NextPowerOfTwo(Len(blob.chunks))
<1>1. n \in Nat /\ poly.evaluations \in [1..n -> Fr]
  BY PolyType DEF Provable
<1>2. Log2(n) + 1 \in DOMAIN Roots
  BY KzgAssumption DEF Provable
<1> HIDE DEF poly, n
<1>3. Interpolate(poly, x) \in Fr
  BY <1>1, <1>2, InterpolateType, Zenon
<1> QED
  BY <1>3 DEF poly

\* The quotient times the divisor is the dividend.
LEMMA ProofEquation ==
    ASSUME NEW v \in Int, NEW z \in Fr \ {Tau}
    PROVE  (((v * Inv((Tau - z) % P)) % P) * (Tau - z)) % P = v % P
<1> DEFINE d == Tau - z
           m == d % P
           j == Inv(m)
           vj == v * j
           q == vj % P
           jd == j * d
<1>1. d \in Int /\ Tau \in Fr /\ z \in Fr /\ Tau \in Int /\ z \in Int
  BY KzgFacts
<1>2. ~Cong(d, 0)
  <2>1. ~Cong(Tau, z)
    BY <1>1, CongEqual
  <2> QED
    BY <1>1, <2>1, CongDifference, Zenon
<1> HIDE DEF d
<1>3. m \in Int /\ Cong(m, d) /\ Cong(d, m)
  BY <1>1, CongRemainder, CongSymmetric
<1> HIDE DEF m
<1>4. ~Cong(m, 0)
  <2>1. 0 \in Int
    OBVIOUS
  <2> QED
    BY <1>1, <1>2, <1>3, <2>1, CongTrans, Zenon
<1>5. j \in Int /\ Cong(j * m, 1)
  BY <1>3, <1>4, FieldInverse, InvType
<1> HIDE DEF j
<1>6. jd \in Int /\ Cong(jd, 1)
  <2> DEFINE jm == j * m
  <2>1. jm \in Int /\ jd \in Int /\ Cong(jd, jm) /\ Cong(jm, 1) /\ 1 \in Int
    BY <1>1, <1>3, <1>5, CongMultiply
  <2> HIDE DEF jm, jd
  <2> QED
    BY <2>1, CongTrans, Zenon
<1>7. vj \in Int /\ vj * d = v * jd
  BY <1>1, <1>5
<1> HIDE DEF vj
<1>8. q \in Int /\ Cong(q, vj)
  BY <1>7, CongRemainder
<1> HIDE DEF jd, q
<1>9. Cong(q * d, vj * d) /\ q * d \in Int /\ vj * d \in Int
  <2>1. Cong(q * d, vj * d)
    BY <1>1, <1>7, <1>8, CongMultiply, Zenon
  <2>2. q * d \in Int /\ vj * d \in Int
    BY <1>1, <1>7, <1>8
  <2> QED
    BY <2>1, <2>2, Zenon
<1>10. Cong(v * jd, v) /\ v * jd \in Int
  BY <1>6, CongUnit
<1> DEFINE a == q * d
           b == v * jd
<1>11. a \in Int /\ b \in Int /\ Cong(a, b) /\ Cong(b, v)
  BY <1>7, <1>9, <1>10
<1> HIDE DEF a, b
<1>12. Cong(a, v)
  BY <1>11, CongTrans, Zenon
<1>13. a % P = v % P
  BY <1>11, <1>12, CongIsRemainder
<1> QED
  BY <1>13 DEF a, q, vj, j, m, d

\* A message keeps its value, and the one that is hashed has the value.
LEMMA HashKept ==
    ASSUME NEW message, NEW z, HashesTo(message, z)
    PROVE  /\ message \in DOMAIN hash' /\ hash'[message] = z
           /\ \A m \in DOMAIN hash : m \in DOMAIN hash' /\ hash'[m] = hash[m]
  BY Zenon DEF HashesTo

LEMMA ProvedStays ==
    ASSUME NEW blob, NEW c, NEW p, ProvedWith(blob, c, p, hash),
           \A m \in DOMAIN hash : m \in DOMAIN hash' /\ hash'[m] = hash[m]
    PROVE  ProvedWith(blob, c, p, hash')
  BY Zenon DEF ProvedWith

LEMMA ChallengedStays ==
    ASSUME NEW blob, NEW c, NEW z, ChallengedWith(blob, c, z, hash),
           \A m \in DOMAIN hash : m \in DOMAIN hash' /\ hash'[m] = hash[m]
    PROVE  ChallengedWith(blob, c, z, hash')
  BY Zenon DEF ChallengedWith

\* The equation of an entry that the prover made and the verifier read.
LEMMA HonestEntryHolds ==
    ASSUME KzgInv, HonestInv, pc = "challenge", Honest, NEW i \in DOMAIN zs,
           Len(zs) = Len(given.blobs), Provable(given.blobs[i])
    PROVE  EntryHolds(i)
<1> DEFINE blob == given.blobs[i]
           poly == PolynomialEvalForm(blob.chunks)
           c == given.commitments[i]
           p == given.proofs[i]
           z == zs[i]
           message == ChallengeMessage(poly, Commit(poly))
           y == Interpolate(poly, z)
           C == Commit(poly)
<1>1. i \in DOMAIN given.blobs /\ ChallengedWith(blob, c, z, hash)
  BY DEF HonestInv, ChallengeStageInv
<1>2. ProvedWith(blob, c, p, hash)
  BY <1>1 DEF HonestInv, ProverInv
<1>3. c \in Fr /\ p \in Fr /\ z \in Fr /\ ys[i] \in Fr /\ i \in DOMAIN ys /\ blob \in Blob
  <2>1. Len(ys) = Len(zs) /\ ys \in Seq(Fr) /\ zs \in Seq(Fr) /\ given.blobs \in Seq(Blob)
    BY DEF KzgInv, StageInv, TypeOK, GivenType
  <2> QED
    BY <1>1, <2>1, BatchTypes
<1>4. NoPoint \notin Fr
  BY KzgFacts DEF NoPoint, Fr
<1>5. c = C /\ p = ComputeBlobProof(poly, hash[message]) /\ hash[message] \in Fr \ {Tau}
  <2>1. c = Encode(Commit(poly)) /\ p = Encode(ComputeBlobProof(poly, hash[message]))
        /\ hash[message] \in Fr \ {Tau}
    BY <1>2, Zenon DEF ProvedWith
  <2> HIDE DEF c, p, poly, message
  <2> QED
    BY <1>3, <1>4, <2>1, Zenon DEF Encode
<1>6. z = hash[message]
  BY <1>1, <1>5, Zenon DEF ChallengedWith
<1>7. ys[i] = y
  BY <1>3, Zenon DEF HonestInv, EvaluationIsInterpolation, Poly
<1>8. p = ((C - y) * Inv((Tau - z) % P)) % P
  BY <1>5, <1>6, Zenon DEF ComputeBlobProof
<1>9. EntryHolds(i) <=> (p * (Tau - z)) % P = (c - y) % P
  BY <1>7, Zenon DEF EntryHolds
<1>10. z \in Fr \ {Tau} /\ C \in Int /\ y \in Int
  BY <1>3, <1>5, <1>6, <1>7, KzgFacts
<1> HIDE DEF C, y, z, p, c
<1> DEFINE v == C - y
<1>11. v \in Int
  BY <1>10
<1> HIDE DEF v
<1>12. (((v * Inv((Tau - z) % P)) % P) * (Tau - z)) % P = v % P
  BY <1>10, <1>11, ProofEquation, Zenon
<1> QED
  BY <1>5, <1>8, <1>9, <1>12, Zenon DEF v

LEMMA HonestInitInv == Init => HonestInv
<1> SUFFICES ASSUME Init PROVE HonestInv
  OBVIOUS
<1>1. given.blobs = << >> /\ pc = "prove" /\ ys = << >>
  BY DEF Init
<1> QED
  BY <1>1 DEF HonestInv, ProverInv, ChallengeStageInv, EvaluationIsInterpolation,
              HonestBatchAccepted

LEMMA ReducedSum ==
    ASSUME NEW a \in Fr
    PROVE  (a + 0) % P = a
<1>1. a \in 0..(P - 1) /\ P \in Nat \ {0}
  BY KzgFacts DEF Fr
<1> QED
  BY <1>1

LEMMA HonestProve == ASSUME KzgInv, HonestInv, Prove PROVE HonestInv'
<1> DEFINE n == Len(given.blobs)
           item == request.items[n + 1]
           poly == PolynomialEvalForm(item.blob.chunks)
           commitment(z) == IF Provable(item.blob)
                            THEN (Commit(poly) + item.error.commitment) % P
                            ELSE item.error.commitment
           proof(z) == IF Provable(item.blob)
                       THEN (ComputeBlobProof(poly, z) + item.error.proof) % P
                       ELSE item.error.proof
<1>1. PICK z \in Fr \ {Tau} :
        /\ IF Provable(item.blob)
           THEN HashesTo(ChallengeMessage(poly, commitment(z)), z)
           ELSE UNCHANGED hash
        /\ given' = [blobs |-> Append(given.blobs, item.blob),
                     commitments |-> Append(given.commitments, Encode(commitment(z))),
                     proofs |-> Append(given.proofs, Encode(proof(z)))]
  BY DEF Prove
<1>2. /\ pc = "prove" /\ n < Len(request.items)
      /\ UNCHANGED <<request, pc, zs, ys, result>>
  BY DEF Prove
<1>3. /\ given.blobs \in Seq(Blob) /\ given.commitments \in Seq(Point)
      /\ given.proofs \in Seq(Point) /\ n \in Nat
      /\ Len(given.commitments) = n /\ Len(given.proofs) = n
      /\ ys = << >> /\ zs = << >>
  BY <1>2 DEF KzgInv, GivenType, StageInv
<1>4. request.items \in Seq([blob : Blob, error : [commitment : Fr, proof : Fr]])
  BY KzgAssumption DEF KzgInv, TypeOK, RequestRecord, Blob
<1>5. n + 1 \in DOMAIN request.items /\ item.blob \in Blob
  <2>1. n + 1 \in 1..Len(request.items) /\ n + 1 \in DOMAIN request.items
    BY <1>2, <1>3, <1>4
  <2> HIDE DEF n
  <2>2. item \in [blob : Blob, error : [commitment : Fr, proof : Fr]]
    BY <1>4, <2>1, ElementType, Zenon
  <2> QED
    BY <2>1, <2>2
<1> HIDE DEF item, poly
<1> DEFINE c == Encode(commitment(z))
           p == Encode(proof(z))
<1>6. /\ given'.blobs = Append(given.blobs, item.blob)
      /\ given'.commitments = Append(given.commitments, c)
      /\ given'.proofs = Append(given.proofs, p)
  BY <1>1
<1>7. \A m \in DOMAIN hash : m \in DOMAIN hash' /\ hash'[m] = hash[m]
  BY <1>1, HashKept, Zenon
<1>8. ProverInv'
  <2> SUFFICES ASSUME Honest', NEW i \in DOMAIN given'.blobs, Provable(given'.blobs[i])
               PROVE  ProvedWith(given'.blobs[i], given'.commitments[i], given'.proofs[i], hash')
    BY DEF ProverInv
  <2>1. Honest
    BY <1>2 DEF Honest
  <2> HIDE DEF c, p
  <2>2. CASE i \in DOMAIN given.blobs
    <3>1. /\ given'.blobs[i] = given.blobs[i]
          /\ given'.commitments[i] = given.commitments[i]
          /\ given'.proofs[i] = given.proofs[i]
      BY <1>3, <1>6, <2>2
    <3>2. ProvedWith(given.blobs[i], given.commitments[i], given.proofs[i], hash)
      BY <2>1, <2>2, <3>1 DEF HonestInv, ProverInv
    <3> QED
      BY <1>7, <3>1, <3>2, ProvedStays, Zenon
  <2>3. CASE i \notin DOMAIN given.blobs
    <3>1. /\ i = n + 1 /\ given'.blobs[i] = item.blob
          /\ given'.commitments[i] = c /\ given'.proofs[i] = p
      BY <1>3, <1>6, <2>3
    <3>2. item.error.commitment = 0 /\ item.error.proof = 0
      BY <1>5, <2>1 DEF Honest, item
    <3>3. Provable(item.blob) /\ z \in Int
      BY <3>1, KzgFacts
    <3>4. Commit(poly) \in Fr /\ ComputeBlobProof(poly, z) \in Fr
      BY <1>5, <3>3, ProverType DEF poly
    <3>5. commitment(z) = Commit(poly) /\ proof(z) = ComputeBlobProof(poly, z)
      BY <3>2, <3>3, <3>4, ReducedSum
    <3>6. HashesTo(ChallengeMessage(poly, Commit(poly)), z)
      BY <1>1, <3>3, <3>5, Zenon
    <3> DEFINE message == ChallengeMessage(poly, Commit(poly))
    <3>7. message \in DOMAIN hash' /\ hash'[message] = z
      BY <3>6, HashKept, Zenon
    <3>8. ProvedWith(item.blob, c, p, hash')
      BY <3>5, <3>7, Zenon DEF ProvedWith, c, p, poly
    <3> QED
      BY <3>1, <3>8, Zenon
  <2> QED
    BY <2>2, <2>3
<1> QED
  BY <1>2, <1>3, <1>8 DEF HonestInv, ChallengeStageInv, EvaluationIsInterpolation,
                          HonestBatchAccepted

LEMMA WholeSubSeq ==
    ASSUME NEW D, NEW s \in Seq(D), NEW n, n = Len(s)
    PROVE  SubSeq(s, 1, n) = s
  OBVIOUS

LEMMA HonestSend == ASSUME KzgInv, HonestInv, Send PROVE HonestInv'
<1> DEFINE cs == SubSeq(given.commitments, 1, request.commitments)
           ps == SubSeq(given.proofs, 1, request.proofs)
<1>1. /\ pc = "prove" /\ pc' = "parse" /\ UNCHANGED <<request, hash, zs, ys, result>>
      /\ Len(given.blobs) = Len(request.items)
      /\ given' = [given EXCEPT !.commitments = SubSeq(@, 1, request.commitments),
                                !.proofs = SubSeq(@, 1, request.proofs)]
  BY DEF Send
<1>2. /\ given \in [blobs : Seq(Blob), commitments : Seq(Point), proofs : Seq(Point)]
      /\ Len(given.commitments) = Len(request.items)
      /\ Len(given.proofs) = Len(request.items) /\ ys = << >>
  BY <1>1 DEF KzgInv, GivenType, StageInv
<1>3. /\ given'.blobs = given.blobs /\ given'.commitments = cs /\ given'.proofs = ps
  <2> HIDE DEF cs, ps
  <2> QED
    BY <1>1, <1>2 DEF cs, ps
<1>4. ProverInv'
  <2> SUFFICES ASSUME Honest', NEW i \in DOMAIN given'.blobs, Provable(given'.blobs[i])
               PROVE  ProvedWith(given'.blobs[i], given'.commitments[i], given'.proofs[i], hash')
    BY DEF ProverInv
  <2>1. Honest
    BY <1>1 DEF Honest
  <2>2. cs = given.commitments /\ ps = given.proofs
    BY <1>2, <2>1, WholeSubSeq DEF Honest
  <2> HIDE DEF cs, ps
  <2> QED
    BY <1>1, <1>3, <2>1, <2>2 DEF HonestInv, ProverInv
<1> QED
  BY <1>1, <1>2, <1>4 DEF HonestInv, ChallengeStageInv, EvaluationIsInterpolation,
                          HonestBatchAccepted

LEMMA HonestParse == ASSUME KzgInv, HonestInv, Parse PROVE HonestInv'
<1>1. /\ UNCHANGED <<request, hash, given, zs, ys>> /\ pc = "parse"
      /\ zs = << >> /\ ys = << >>
  BY DEF Parse, KzgInv, StageInv
<1>2. \/ ~WellFormed
      \/ pc' = "done" /\ result' = "true"
      \/ pc' = "challenge"
  BY DEF Parse, Return
<1>3. ProverInv'
  BY <1>1 DEF HonestInv, ProverInv, Honest
<1>4. HonestBatchAccepted'
  BY <1>1, <1>2 DEF HonestBatchAccepted, BatchVerify, WellFormed
<1> QED
  BY <1>1, <1>3, <1>4 DEF HonestInv, ChallengeStageInv, EvaluationIsInterpolation

\* A blob the verifier could read and can evaluate is one the prover can prove.
LEMMA EvaluableIsProvable ==
    ASSUME NEW blob \in Blob, Canonical(blob), Evaluable(PolynomialEvalForm(blob.chunks))
    PROVE  Provable(blob)
<1> DEFINE c == Len(blob.chunks)
<1>1. c \in Nat /\ SrsSize \in Nat
  BY KzgFacts DEF Blob
<1>2. PolynomialEvalForm(blob.chunks).underlying = c
  BY DEF PolynomialEvalForm
<1>3. CalculateRootsOfUnity(c) # << >>
  BY <1>2, Zenon DEF Evaluable
<1>4. c # 0 /\ ~(c > SrsSize)
  BY <1>3, Zenon DEF CalculateRootsOfUnity
<1> QED
  BY <1>1, <1>4 DEF Provable

LEMMA HonestChallenge == ASSUME KzgInv, HonestInv, ChallengeAndEvaluate PROVE HonestInv'
<1> DEFINE i == Len(zs) + 1
           blob == given.blobs[i]
           c == given.commitments[i]
           poly == PolynomialEvalForm(blob.chunks)
<1>1. PICK z \in Fr \ {Tau} :
        /\ HashesTo(ChallengeMessage(poly, c), z)
        /\ \/ ~Evaluable(poly) /\ Return("error") /\ UNCHANGED <<zs, ys>>
           \/ /\ Evaluable(poly)
              /\ zs' = Append(zs, z)
              /\ ys' = Append(ys, EvaluatePolynomial(poly, z))
              /\ UNCHANGED <<pc, result>>
  BY DEF ChallengeAndEvaluate, Poly
<1>2. /\ pc = "challenge" /\ UNCHANGED <<request, given>> /\ Len(zs) < Len(given.blobs)
      /\ zs \in Seq(Fr) /\ ys \in Seq(Fr) /\ Len(ys) = Len(zs) /\ given.blobs \in Seq(Blob)
      /\ WellFormed
  BY DEF ChallengeAndEvaluate, KzgInv, TypeOK, GivenType, StageInv
<1>3. i \in 1..Len(given.blobs) /\ i \in DOMAIN given.blobs
  BY <1>2
<1>4. blob \in Blob /\ Canonical(blob)
  BY <1>2, <1>3, ElementType DEF WellFormed
<1> HIDE DEF blob, c
<1>5. \A m \in DOMAIN hash : m \in DOMAIN hash' /\ hash'[m] = hash[m]
  BY <1>1, HashKept, Zenon
<1>6. ProverInv'
  <2> SUFFICES ASSUME Honest', NEW k \in DOMAIN given'.blobs, Provable(given'.blobs[k])
               PROVE  ProvedWith(given'.blobs[k], given'.commitments[k], given'.proofs[k], hash')
    BY DEF ProverInv
  <2>1. Honest
    BY <1>2 DEF Honest
  <2>2. ProvedWith(given.blobs[k], given.commitments[k], given.proofs[k], hash)
    BY <1>2, <2>1 DEF HonestInv, ProverInv
  <2> QED
    BY <1>2, <1>5, <2>2, ProvedStays, Zenon
<1>7. CASE ~Evaluable(poly)
  <2>1. UNCHANGED <<request, given, zs, ys>> /\ pc' = "done"
    BY <1>1, <1>2, <1>7 DEF Return
  <2>2. ~Provable(blob)
    <3>1. 0 \in Fr
      BY KzgFacts
    <3> QED
      BY <1>4, <1>7, <3>1, EvaluationExact, Zenon
  <2>3. HonestBatchAccepted'
    BY <1>2, <1>3, <2>1, <2>2 DEF HonestBatchAccepted, blob
  <2>4. EvaluationIsInterpolation'
    BY <2>1 DEF HonestInv, EvaluationIsInterpolation, Poly
  <2> QED
    BY <1>6, <2>1, <2>3, <2>4 DEF HonestInv, ChallengeStageInv
<1>8. CASE Evaluable(poly)
  <2> DEFINE y == EvaluatePolynomial(poly, z)
  <2>1. y = Interpolate(poly, z)
    <3>1. Provable(blob)
      BY <1>4, <1>8, EvaluableIsProvable, Zenon
    <3> QED
      BY <1>4, <3>1, EvaluationExact, Zenon
  <2>2. zs' = Append(zs, z) /\ ys' = Append(ys, y) /\ UNCHANGED <<pc, result>>
    BY <1>1, <1>8
  <2> HIDE DEF y, poly
  <2>3. ASSUME NEW k \in DOMAIN ys'
        PROVE  /\ k \in DOMAIN given.blobs
               /\ \/ k \in DOMAIN ys /\ k \in DOMAIN zs /\ ys'[k] = ys[k] /\ zs'[k] = zs[k]
                  \/ k = i /\ ys'[k] = y /\ zs'[k] = z
    BY <1>2, <2>2
  <2>4. DOMAIN zs' = DOMAIN ys'
    BY <1>2, <2>2
  <2> HIDE DEF i
  <2>5. EvaluationIsInterpolation'
    <3> SUFFICES ASSUME NEW k \in DOMAIN ys'
                 PROVE  ys'[k] = Interpolate(PolynomialEvalForm(given.blobs[k].chunks), zs'[k])
      BY <1>2, Zenon DEF EvaluationIsInterpolation, Poly
    <3>1. CASE k \in DOMAIN ys /\ ys'[k] = ys[k] /\ zs'[k] = zs[k]
      BY <3>1, Zenon DEF HonestInv, EvaluationIsInterpolation, Poly
    <3>2. CASE k = i /\ ys'[k] = y /\ zs'[k] = z
      BY <2>1, <3>2, Zenon DEF poly, blob
    <3> QED
      BY <2>3, <3>1, <3>2, Zenon
  <2>6. ChallengeStageInv'
    <3> SUFFICES ASSUME NEW k \in DOMAIN ys'
                 PROVE  /\ k \in DOMAIN given.blobs
                        /\ ChallengedWith(given.blobs[k], given.commitments[k], zs'[k], hash')
      BY <1>2, <2>4, Zenon DEF ChallengeStageInv
    <3>1. CASE k \in DOMAIN zs /\ zs'[k] = zs[k]
      <4>1. ChallengedWith(given.blobs[k], given.commitments[k], zs[k], hash)
        BY <1>2, <3>1, Zenon DEF HonestInv, ChallengeStageInv
      <4>2. ChallengedWith(given.blobs[k], given.commitments[k], zs[k], hash')
        BY <1>5, <4>1, ChallengedStays, Zenon
      <4> QED
        BY <2>3, <3>1, <4>2, Zenon
    <3>2. CASE k = i /\ zs'[k] = z
      <4> DEFINE message == ChallengeMessage(poly, c)
      <4>1. message \in DOMAIN hash' /\ hash'[message] = z
        BY <1>1, HashKept, Zenon
      <4>2. ChallengedWith(blob, c, z, hash')
        BY <4>1, Zenon DEF ChallengedWith, poly
      <4> QED
        BY <2>3, <3>2, <4>2, Zenon DEF blob, c
    <3> QED
      BY <2>3, <3>1, <3>2, Zenon
  <2>7. HonestBatchAccepted'
    BY <1>2, <2>2 DEF HonestBatchAccepted
  <2> QED
    BY <1>6, <2>5, <2>6, <2>7 DEF HonestInv
<1> QED
  BY <1>7, <1>8

LEMMA HonestVerify == ASSUME KzgInv, HonestInv, VerifyBatch PROVE HonestInv'
<1>1. PICK r \in Fr : /\ HashesTo(BatchMessage(Entries), r)
                      /\ Return(IF VerifyKzgProofBatch(r) THEN "true" ELSE "false")
  BY DEF VerifyBatch
<1>2. /\ pc = "challenge" /\ Len(zs) = Len(given.blobs)
      /\ UNCHANGED <<request, given, zs, ys>> /\ pc' = "done"
  BY <1>1 DEF VerifyBatch, Return
<1>3. \A m \in DOMAIN hash : m \in DOMAIN hash' /\ hash'[m] = hash[m]
  BY <1>1, HashKept, Zenon
<1>4. ProverInv'
  <2> SUFFICES ASSUME Honest', NEW k \in DOMAIN given'.blobs, Provable(given'.blobs[k])
               PROVE  ProvedWith(given'.blobs[k], given'.commitments[k], given'.proofs[k], hash')
    BY DEF ProverInv
  <2>1. Honest
    BY <1>2 DEF Honest
  <2>2. ProvedWith(given.blobs[k], given.commitments[k], given.proofs[k], hash)
    BY <1>2, <2>1 DEF HonestInv, ProverInv
  <2> QED
    BY <1>2, <1>3, <2>2, ProvedStays, Zenon
<1>5. HonestBatchAccepted'
  <2> SUFFICES ASSUME Honest', \A i \in DOMAIN given'.blobs : Provable(given'.blobs[i])
               PROVE  result' = "true"
    BY DEF HonestBatchAccepted, BatchVerify
  <2>1. Honest /\ \A i \in DOMAIN given.blobs : Provable(given.blobs[i])
    BY <1>2 DEF Honest
  <2>2. ASSUME NEW i \in DOMAIN zs PROVE EntryHolds(i)
    <3>1. i \in DOMAIN given.blobs
      BY <1>2, BatchTypes
    <3> QED
      BY <1>2, <2>1, <3>1, HonestEntryHolds
  <2>3. VerifyKzgProofBatch(r)
    BY <1>2, <2>2, BatchOfRightEntries DEF RightEntriesPass
  <2> QED
    BY <1>1, <2>3 DEF Return
<1>6. EvaluationIsInterpolation'
  BY <1>2 DEF HonestInv, EvaluationIsInterpolation, Poly
<1> QED
  BY <1>2, <1>4, <1>5, <1>6 DEF HonestInv, ChallengeStageInv

LEMMA HonestNextInv == KzgInv /\ HonestInv /\ [Next]_vars => HonestInv'
<1> SUFFICES ASSUME KzgInv, HonestInv, [Next]_vars
             PROVE  HonestInv'
  OBVIOUS
<1>1. CASE Done \/ UNCHANGED vars
  <2>1. UNCHANGED vars
    BY <1>1 DEF Done
  <2>2. Honest' = Honest /\ WellFormed' = WellFormed /\ BatchVerify' = BatchVerify
    BY <2>1 DEF vars, Honest, WellFormed, BatchVerify
  <2> QED
    BY <2>1, <2>2 DEF vars, HonestInv, ProverInv, ChallengeStageInv, EvaluationIsInterpolation,
                      HonestBatchAccepted, Poly
<1> QED
  BY <1>1, HonestProve, HonestSend, HonestParse, HonestChallenge, HonestVerify DEF Next

LEMMA HonestInvHolds == Spec => []HonestInv
  BY KzgInvHolds, HonestInitInv, HonestNextInv, PTL DEF Spec

\* The value the verifier computes for a blob is the value, at the challenge, of
\* the polynomial of least degree through its evaluations, for every field,
\* every size of blob and every challenge, also one that is itself a point of
\* the domain (evaluate_polynomial_in_evaluation_form, calculate_roots_of_unity).
THEOREM EvaluationTheorem == Spec => []EvaluationIsInterpolation
<1>1. HonestInv => EvaluationIsInterpolation
  BY DEF HonestInv
<1> QED
  BY <1>1, HonestInvHolds, PTL

\* What the prover computes is accepted, for every list of blobs that can be
\* proved and all values of the hashes: both sides derive the challenge from the
\* same message, and the quotient the prover commits to satisfies the equation
\* of its entry (compute_kzg_proof against verify_blob_kzg_proof_batch).
THEOREM HonestBatchTheorem == Spec => []HonestBatchAccepted
<1>1. HonestInv => HonestBatchAccepted
  BY DEF HonestInv
<1> QED
  BY <1>1, HonestInvHolds, PTL

-----------------------------------------------------------------------------
(***************************************************************************)
(* The message hashed for the challenge r determines the batch.            *)
(***************************************************************************)

BatchEntry == [length : Nat, commitment : Fr, z : Fr, y : Fr, proof : Fr]

\* The x coordinate and the sign of y are those of one point.
LEMMA SerializeInjective ==
    ASSUME NEW a \in Fr, NEW b \in Fr, SerializeG1(a) = SerializeG1(b)
    PROVE  a = b
<1>1. a \in 0..(P - 1) /\ b \in 0..(P - 1) /\ P \in Nat
  BY KzgFacts DEF Fr
<1>2. ASSUME NEW x \in 1..(P - 1)
      PROVE  Min({x, P - x}) = IF x > P - x THEN P - x ELSE x
  <2>1. {x, P - x} \in SUBSET Nat /\ P \in Nat
    BY <1>1
  <2>2. \E m \in {x, P - x} : \A y \in {x, P - x} : m <= y
    BY <2>1, LeastNatural
  <2>3. /\ Min({x, P - x}) \in {x, P - x}
        /\ \A y \in {x, P - x} : Min({x, P - x}) <= y
    BY <2>2 DEF Min
  <2> QED
    BY <2>1, <2>3
<1>3. CASE a = 0 \/ b = 0
  <2>1. ASSUME NEW x, x # 0 PROVE SerializeG1(x) # [infinity |-> TRUE]
    <3>1. DOMAIN SerializeG1(x) # DOMAIN [infinity |-> TRUE]
      BY <2>1 DEF SerializeG1
    <3> QED
      BY <3>1, Zenon
  <2>2. SerializeG1(0) = [infinity |-> TRUE]
    BY DEF SerializeG1
  <2> QED
    BY <1>3, <2>1, <2>2
<1>4. CASE a # 0 /\ b # 0
  <2>1. /\ Min({a, P - a}) = Min({b, P - b})
        /\ (a > P - a) = (b > P - b)
    <3>1. /\ SerializeG1(a).x = Min({a, P - a})
          /\ SerializeG1(b).x = Min({b, P - b})
          /\ SerializeG1(a).negative = (a > P - a)
          /\ SerializeG1(b).negative = (b > P - b)
      BY <1>4 DEF SerializeG1
    <3> QED
      BY <3>1, Zenon
  <2>2. a \in 1..(P - 1) /\ b \in 1..(P - 1)
    BY <1>1, <1>4
  <2>3. (IF a > P - a THEN P - a ELSE a) = (IF b > P - b THEN P - b ELSE b)
    BY <1>2, <2>1, <2>2
  <2> QED
    BY <1>1, <2>1, <2>2, <2>3
<1> QED
  BY <1>3, <1>4

LEMMA EntryEqual ==
    ASSUME NEW x \in BatchEntry, NEW y \in BatchEntry, x.length = y.length,
           x.commitment = y.commitment, x.z = y.z, x.y = y.y, x.proof = y.proof
    PROVE  x = y
  BY DEF BatchEntry

\* No two batches have the same message, although the number of entries is
\* written where the length of the second blob goes, and so is lost in every
\* batch of two or more: the message still has one word per entry
\* (compute_r_powers).
THEOREM BatchMessageInjective ==
    ASSUME NEW a \in Seq(BatchEntry), NEW b \in Seq(BatchEntry),
           BatchMessage(a) = BatchMessage(b)
    PROVE  a = b
<1> DEFINE words(s) == [j \in 0..(Len(s) + 1) |->
                          IF j < Len(s) THEN s[j + 1].length
                          ELSE IF j = 1 THEN Len(s) ELSE 0]
           data(s) == [i \in 1..Len(s) |-> <<SerializeG1(s[i].commitment), s[i].z, s[i].y,
                                             SerializeG1(s[i].proof)>>]
<1>1. words(a) = words(b) /\ data(a) = data(b)
  <2>1. /\ BatchMessage(a).words = words(a) /\ BatchMessage(b).words = words(b)
        /\ BatchMessage(a).data = data(a) /\ BatchMessage(b).data = data(b)
    BY DEF BatchMessage
  <2> HIDE DEF words, data
  <2> QED
    BY <2>1, Zenon
<1>2. Len(a) \in Nat /\ Len(b) \in Nat
  OBVIOUS
<1>3. Len(a) = Len(b)
  <2>1. 0..(Len(a) + 1) = 0..(Len(b) + 1)
    <3>1. DOMAIN words(a) = 0..(Len(a) + 1) /\ DOMAIN words(b) = 0..(Len(b) + 1)
      OBVIOUS
    <3> HIDE DEF words
    <3> QED
      BY <1>1, <3>1, Zenon
  <2>2. Len(a) + 1 \in 0..(Len(a) + 1) /\ Len(b) + 1 \in 0..(Len(b) + 1)
    BY <1>2
  <2>3. Len(a) + 1 \in 0..(Len(b) + 1) /\ Len(b) + 1 \in 0..(Len(a) + 1)
    BY <2>1, <2>2
  <2> QED
    BY <1>2, <2>3
<1>4. ASSUME NEW i \in 1..Len(a) PROVE a[i] = b[i]
  <2>1. i \in 1..Len(b) /\ i - 1 \in 0..(Len(a) + 1) /\ i - 1 < Len(a) /\ (i - 1) + 1 = i
    BY <1>2, <1>3
  <2>2. a[i] \in BatchEntry /\ b[i] \in BatchEntry
    BY <2>1
  <2>3. a[i].length = b[i].length
    <3>1. words(a)[i - 1] = a[i].length /\ words(b)[i - 1] = b[i].length
      BY <1>3, <2>1
    <3> HIDE DEF words
    <3> QED
      BY <1>1, <3>1, Zenon
  <2>4. /\ SerializeG1(a[i].commitment) = SerializeG1(b[i].commitment)
        /\ a[i].z = b[i].z /\ a[i].y = b[i].y
        /\ SerializeG1(a[i].proof) = SerializeG1(b[i].proof)
    <3>1. /\ data(a)[i] = <<SerializeG1(a[i].commitment), a[i].z, a[i].y,
                            SerializeG1(a[i].proof)>>
          /\ data(b)[i] = <<SerializeG1(b[i].commitment), b[i].z, b[i].y,
                            SerializeG1(b[i].proof)>>
      BY <2>1
    <3> HIDE DEF data
    <3>2. data(a)[i] = data(b)[i]
      BY <1>1, Zenon
    <3> QED
      BY <3>1, <3>2
  <2>5. a[i].commitment = b[i].commitment /\ a[i].proof = b[i].proof
    BY <2>2, <2>4, SerializeInjective DEF BatchEntry
  <2> QED
    BY <2>2, <2>3, <2>4, <2>5, EntryEqual, Zenon
<1> QED
  BY <1>2, <1>3, <1>4

LEMMA EntriesType ==
    ASSUME KzgInv, pc = "challenge", Len(zs) = Len(given.blobs)
    PROVE  Entries \in Seq(BatchEntry)
<1> DEFINE n == Len(given.commitments)
<1>1. /\ n \in Nat /\ DOMAIN given.blobs = 1..n
      /\ \A i \in 1..n : /\ given.commitments[i] \in Fr /\ given.proofs[i] \in Fr
                         /\ zs[i] \in Fr /\ ys[i] \in Fr
  BY BatchTypes
<1>2. ASSUME NEW i \in 1..n PROVE Len(Poly(i).evaluations) \in Nat
  <2> DEFINE blob == given.blobs[i]
             m == NextPowerOfTwo(Len(blob.chunks))
             poly == PolynomialEvalForm(blob.chunks)
  <2>1. blob \in Blob
    BY <1>1 DEF KzgInv, GivenType
  <2>2. Canonical(blob)
    BY <1>1 DEF KzgInv, StageInv, WellFormed
  <2> HIDE DEF blob
  <2>3. m \in Nat /\ poly.evaluations \in [1..m -> Fr]
    BY <2>1, <2>2, PolyType
  <2> HIDE DEF poly, m
  <2>4. Len(poly.evaluations) \in Nat
    BY <2>3
  <2> QED
    BY <2>4 DEF Poly, poly, blob
<1> DEFINE e == [i \in 1..n |->
                   [length |-> Len(Poly(i).evaluations), commitment |-> given.commitments[i],
                    z |-> zs[i], y |-> ys[i], proof |-> given.proofs[i]]]
<1>3. Entries = e
  BY <1>1 DEF Entries
<1>4. e \in Seq(BatchEntry)
  <2> HIDE DEF n
  <2> QED
    BY <1>1, <1>2 DEF BatchEntry
<1> QED
  BY <1>3, <1>4

LEMMA NeighboursType ==
    ASSUME NEW e \in Seq(BatchEntry)
    PROVE  Neighbours(e) \subseteq Seq(BatchEntry)
<1> DEFINE n == Len(e)
<1>1. n \in Nat /\ Fr \subseteq Nat
  BY KzgFacts
<1>2. ASSUME NEW i \in 1..n, NEW f \in DOMAIN e[1], NEW v \in Fr
      PROVE  Changed(e, i, f, v) \in Seq(BatchEntry)
  <2>1. e[i] \in BatchEntry /\ e[1] \in BatchEntry /\ v \in Nat
    BY <1>1
  <2>2. f \in {"length", "commitment", "z", "y", "proof"}
    BY <2>1 DEF BatchEntry
  <2> DEFINE x == [e[i] EXCEPT ![f] = v]
  <2>3. x \in BatchEntry
    BY <2>1, <2>2 DEF BatchEntry
  <2> HIDE DEF x
  <2>4. [e EXCEPT ![i] = x] \in Seq(BatchEntry)
    BY <1>1, <2>3
  <2> QED
    BY <2>4 DEF x, Changed
<1>3. SubSeq(e, 1, n - 1) \in Seq(BatchEntry) /\ e \o e \in Seq(BatchEntry)
  BY <1>1
<1> SUFFICES ASSUME NEW other \in Neighbours(e)
             PROVE  other \in Seq(BatchEntry)
  OBVIOUS
<1>4. \/ \E i \in 1..n, f \in DOMAIN e[1], v \in Fr :
             other = Changed(e, i, f, v)
      \/ other = SubSeq(e, 1, n - 1)
      \/ other = e \o e
  BY DEF Neighbours
<1> HIDE DEF n
<1> QED
  BY <1>2, <1>3, <1>4

\* The challenge r is bound to the whole batch, for every batch that the
\* verifier comes to (compute_r_powers).
THEOREM BatchMessageBindsTheorem == Spec => []BatchMessageBinds
<1>1. KzgInv => BatchMessageBinds
  <2> SUFFICES ASSUME KzgInv, pc = "challenge", Len(zs) = Len(given.blobs),
                      NEW other \in Neighbours(Entries),
                      BatchMessage(other) = BatchMessage(Entries)
               PROVE  other = Entries
    BY DEF BatchMessageBinds
  <2>1. Entries \in Seq(BatchEntry)
    BY EntriesType
  <2>2. other \in Seq(BatchEntry)
    BY <2>1, NeighboursType
  <2> QED
    BY <2>1, <2>2, BatchMessageInjective
<1> QED
  BY <1>1, KzgInvHolds, PTL

================================================================================
