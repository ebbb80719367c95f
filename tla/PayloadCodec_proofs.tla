-------------------------- MODULE PayloadCodec_proofs --------------------------
(***************************************************************************)
(* Proofs about PayloadCodec, for every size of a field element, every     *)
(* input and every payload.                                                *)
(***************************************************************************)
EXTENDS PayloadCodec, WellFoundedInduction, TLAPS

\* Every inhabited set of numbers has a least element: what the proofs use in
\* place of an induction over the length of a sequence.
LEMMA LeastNatural ==
    ASSUME NEW T \in SUBSET Nat, T # {}
    PROVE  \E n \in T : \A m \in T : n <= m
<1> DEFINE R == OpToRel(<, Nat)
<1>1. IsWellFoundedOn(R, Nat)
  BY NatLessThanWellFounded
<1>2. \A x, y \in Nat : x < y => <<x, y>> \in R
  BY DEF OpToRel
<1> HIDE DEF R
<1>3. PICK n \in T : \A y \in T : ~ (<<y, n>> \in R)
  BY <1>1, WFMin, Zenon
<1>4. ASSUME NEW m \in T PROVE n <= m
  <2>1. m \in Nat /\ n \in Nat
    OBVIOUS
  <2>2. ~ (m < n)
    BY <1>2, <1>3, <2>1
  <2> QED
    BY <2>1, <2>2
<1> QED
  BY <1>4

\* Induction up to a bound, for a property given as a set of numbers.
LEMMA InductionUpTo ==
    ASSUME NEW N \in Nat, NEW S, 0 \in S,
           \A n \in 0..(N - 1) : n \in S => n + 1 \in S
    PROVE  0..N \subseteq S
<1> DEFINE T == (0..N) \ S
<1> SUFFICES ASSUME T # {} PROVE FALSE
  OBVIOUS
<1>1. T \in SUBSET Nat
  OBVIOUS
<1>2. PICK n \in T : \A m \in T : n <= m
  BY <1>1, LeastNatural
<1>3. n \in 0..N /\ n \notin S /\ n # 0
  OBVIOUS
<1>4. n - 1 \in 0..(N - 1) /\ n - 1 \notin T
  BY <1>2, <1>3
<1> QED
  BY <1>3, <1>4

\* A recursive function of the numbers up to m, the step given as a function.
Recursive(f, m, base, step) ==
    /\ f \in [0..m -> Int]
    /\ f[0] = base
    /\ \A n \in 1..m : f[n] = step[<<f[n - 1], n>>]

LEMMA Recursion ==
    ASSUME NEW N \in Nat, NEW base \in Int, NEW step \in [Int \X (1..N) -> Int]
    PROVE  \E f : Recursive(f, N, base, step)
<1> USE DEF Recursive
<1> DEFINE Rec(f, m) == Recursive(f, m, base, step)
           Good == {m \in Nat : \E f : Rec(f, m)}
<1>1. 0 \in Good
  <2>1. Rec([n \in 0..0 |-> base], 0)
    OBVIOUS
  <2> QED
    BY <2>1
<1>2. ASSUME NEW m \in 0..(N - 1), m \in Good
      PROVE  m + 1 \in Good
  <2>1. PICK f : Rec(f, m)
    BY <1>2
  <2> DEFINE y == step[<<f[m], m + 1>>]
             g == [n \in 0..(m + 1) |-> IF n = m + 1 THEN y ELSE f[n]]
  <2>2. y \in Int /\ m \in Nat
    BY <2>1
  <2>3. \A n \in 0..m : g[n] = f[n]
    BY <2>2
  <2>4. g[m + 1] = y /\ g[m] = f[m] /\ g[0] = f[0]
    BY <2>2, <2>3
  <2>5. g \in [0..(m + 1) -> Int]
    BY <2>1, <2>2
  <2> HIDE DEF g
  <2>6. ASSUME NEW n \in 1..(m + 1) PROVE g[n] = step[<<g[n - 1], n>>]
    <3>1. CASE n = m + 1
      <4>1. n - 1 = m
        BY <2>2, <3>1
      <4> QED
        BY <2>4, <3>1, <4>1
    <3>2. CASE n # m + 1
      <4>1. n \in 1..m /\ n \in 0..m /\ n - 1 \in 0..m
        BY <2>2, <3>2
      <4>2. f[n] = step[<<f[n - 1], n>>]
        BY <2>1, <4>1
      <4> QED
        BY <2>3, <4>1, <4>2
    <3> QED
      BY <3>1, <3>2
  <2>7. Rec(g, m + 1)
    BY <2>1, <2>4, <2>5, <2>6
  <2> HIDE DEF Rec
  <2> QED
    BY <2>2, <2>7
<1>3. N \in Good
  <2> HIDE DEF Good
  <2>1. 0..N \subseteq Good
    BY <1>1, <1>2, InductionUpTo
  <2> QED
    BY <2>1
<1> QED
  BY <1>3

\* The powers of two, each above its exponent.
LEMMA TwoToSteps ==
    ASSUME NEW n \in Nat
    PROVE  /\ \A k \in 0..n : TwoTo(n)[k] \in Nat /\ TwoTo(n)[k] >= k + 1
           /\ TwoTo(n)[0] = 1 /\ \A k \in 1..n : TwoTo(n)[k] = 2 * TwoTo(n)[k - 1]
<1> DEFINE Rec(f) == f = [k \in 0..n |-> IF k = 0 THEN 1 ELSE 2 * f[k - 1]]
           two == TwoTo(n)
           step == [p \in Int \X (1..n) |-> 2 * p[1]]
<1>2. step \in [Int \X (1..n) -> Int]
  OBVIOUS
<1>3. \E f : Rec(f)
  <2> HIDE DEF step
  <2>0. PICK f : Recursive(f, n, 1, step)
    <3>1. 1 \in Int
      OBVIOUS
    <3> QED
      BY <1>2, <3>1, Recursion, Zenon
  <2>1. /\ f \in [0..n -> Int] /\ f[0] = 1
        /\ \A k \in 1..n : f[k] = step[<<f[k - 1], k>>]
    BY <2>0 DEF Recursive
  <2>2. ASSUME NEW k \in 0..n
        PROVE  f[k] = IF k = 0 THEN 1 ELSE 2 * f[k - 1]
    <3>1. CASE k # 0
      <4>1. k \in 1..n /\ k - 1 \in 0..n /\ f[k - 1] \in Int
        BY <2>1, <3>1
      <4>2. step[<<f[k - 1], k>>] = 2 * f[k - 1]
        BY <4>1 DEF step
      <4> QED
        BY <2>1, <3>1, <4>1, <4>2
    <3> QED
      BY <2>1, <3>1
  <2>3. Rec(f)
    BY <2>1, <2>2
  <2> QED
    BY <2>3
<1>4. Rec(two)
  BY <1>3 DEF TwoTo
<1> HIDE DEF two
<1> DEFINE S == {k \in 0..n : two[k] \in Nat /\ two[k] >= k + 1}
<1>6. 0 \in S
  BY <1>4
<1>7. ASSUME NEW k \in 0..(n - 1), k \in S
      PROVE  k + 1 \in S
  <2>1. k + 1 \in 0..n /\ k + 1 # 0 /\ (k + 1) - 1 = k
    OBVIOUS
  <2>2. two[k + 1] = 2 * two[k]
    BY <1>4, <2>1
  <2> QED
    BY <1>7, <2>1, <2>2
<1>8. 0..n \subseteq S
  <2> HIDE DEF S
  <2> QED
    BY <1>6, <1>7, InductionUpTo
<1>9. two[0] = 1 /\ \A k \in 1..n : two[k] = 2 * two[k - 1]
  BY <1>4
<1> QED
  BY <1>8, <1>9 DEF two

\* No power of two in the table is above the last.
LEMMA TwoToLast ==
    ASSUME NEW n \in Nat, NEW j \in 0..n
    PROVE  TwoTo(n)[j] <= TwoTo(n)[n]
<1> DEFINE f == TwoTo(n)
           S == {k \in 0..(n - j) : f[j] <= f[j + k]}
<1>1. /\ \A k \in 0..n : f[k] \in Nat
      /\ \A k \in 1..n : f[k] = 2 * f[k - 1]
  BY TwoToSteps
<1> HIDE DEF f
<1>2. 0 \in S /\ n - j \in Nat
  BY <1>1
<1>3. ASSUME NEW k \in 0..((n - j) - 1), k \in S PROVE k + 1 \in S
  <2>1. /\ k + 1 \in 0..(n - j) /\ j + (k + 1) \in 1..n /\ (j + (k + 1)) - 1 = j + k
        /\ j + k \in 0..n
    OBVIOUS
  <2>2. f[j + (k + 1)] = 2 * f[j + k] /\ f[j + k] \in Nat /\ f[j] \in Nat
    BY <1>1, <2>1
  <2> QED
    BY <1>3, <2>1, <2>2
<1>4. 0..(n - j) \subseteq S
  <2> HIDE DEF S
  <2> QED
    BY <1>2, <1>3, InductionUpTo
<1>5. n - j \in 0..(n - j) /\ j + (n - j) = n
  BY <1>2
<1>6. f[j] <= f[j + (n - j)]
  BY <1>4, <1>5
<1> QED
  BY <1>5, <1>6 DEF f

-----------------------------------------------------------------------------
(***************************************************************************)
(* Shifts, common bits and powers of two.                                  *)
(***************************************************************************)

LEMMA Half ==
    ASSUME NEW a \in Int
    PROVE  /\ a \div 2 \in Int
           /\ a \in Nat => a \div 2 \in Nat /\ a = 2 * (a \div 2) + (a % 2) /\ a % 2 \in 0..1
           /\ (2 * a) \div 2 = a /\ (2 * a + 1) \div 2 = a
           /\ (2 * a) % 2 = 0 /\ (2 * a + 1) % 2 = 1
  OBVIOUS

LEMMA ShiftSteps ==
    ASSUME NEW n \in Nat, NEW width \in Nat
    PROVE  /\ \A k \in 0..width : ShiftRight(n, width)[k] \in Nat
           /\ ShiftRight(n, width)[0] = n
           /\ \A k \in 1..width : ShiftRight(n, width)[k] = ShiftRight(n, width)[k - 1] \div 2
<1> DEFINE Rec(f) == f = [k \in 0..width |-> IF k = 0 THEN n ELSE f[k - 1] \div 2]
           shifted == ShiftRight(n, width)
           step == [p \in Int \X (1..width) |-> p[1] \div 2]
<1>2. step \in [Int \X (1..width) -> Int]
  BY Half
<1>3. \E f : Rec(f)
  <2> HIDE DEF step
  <2>0. PICK f : Recursive(f, width, n, step)
    <3>1. n \in Int
      OBVIOUS
    <3> QED
      BY <1>2, <3>1, Recursion, Zenon
  <2>1. /\ f \in [0..width -> Int] /\ f[0] = n
        /\ \A k \in 1..width : f[k] = step[<<f[k - 1], k>>]
    BY <2>0 DEF Recursive
  <2>2. ASSUME NEW k \in 0..width
        PROVE  f[k] = IF k = 0 THEN n ELSE f[k - 1] \div 2
    <3>1. CASE k # 0
      <4>1. k \in 1..width /\ k - 1 \in 0..width /\ f[k - 1] \in Int
        BY <2>1, <3>1
      <4>2. step[<<f[k - 1], k>>] = f[k - 1] \div 2
        BY <4>1 DEF step
      <4> QED
        BY <2>1, <3>1, <4>1, <4>2
    <3> QED
      BY <2>1, <3>1
  <2>3. Rec(f)
    BY <2>1, <2>2
  <2> QED
    BY <2>3
<1>4. Rec(shifted)
  BY <1>3 DEF ShiftRight
<1> HIDE DEF shifted
<1> DEFINE S == {k \in 0..width : shifted[k] \in Nat}
<1>6. 0 \in S
  BY <1>4
<1>7. ASSUME NEW k \in 0..(width - 1), k \in S
      PROVE  k + 1 \in S
  <2>1. k + 1 \in 0..width /\ k + 1 # 0 /\ (k + 1) - 1 = k
    OBVIOUS
  <2>2. shifted[k + 1] = shifted[k] \div 2
    BY <1>4, <2>1
  <2> QED
    BY <1>7, <2>1, <2>2, Half
<1>8. 0..width \subseteq S
  <2> HIDE DEF S
  <2> QED
    BY <1>6, <1>7, InductionUpTo
<1>9. shifted[0] = n /\ \A k \in 1..width : shifted[k] = shifted[k - 1] \div 2
  BY <1>4
<1> QED
  BY <1>8, <1>9 DEF shifted

\* Bit k + 1 of a number is bit k of its half.
LEMMA ShiftHalf ==
    ASSUME NEW n \in Nat, NEW m \in Nat, m = n \div 2, NEW width \in Nat,
           NEW k \in 0..width
    PROVE  ShiftRight(n, width + 1)[k + 1] = ShiftRight(m, width)[k]
<1> DEFINE f == ShiftRight(n, width + 1)
           g == ShiftRight(m, width)
           S == {j \in 0..width : f[j + 1] = g[j]}
<1>1. /\ f[0] = n /\ \A j \in 1..(width + 1) : f[j] = f[j - 1] \div 2
      /\ g[0] = m /\ \A j \in 1..width : g[j] = g[j - 1] \div 2
  BY ShiftSteps
<1> HIDE DEF f, g
<1>2. 0 \in S
  <2>1. f[1] = n \div 2
    <3>1. 1 \in 1..(width + 1) /\ 1 - 1 = 0
      OBVIOUS
    <3> QED
      BY <1>1, <3>1
  <2> QED
    BY <1>1, <2>1
<1>3. ASSUME NEW j \in 0..(width - 1), j \in S PROVE j + 1 \in S
  <2>1. /\ j + 1 \in 0..width /\ j + 1 \in 1..width /\ (j + 1) - 1 = j
        /\ (j + 1) + 1 \in 1..(width + 1) /\ ((j + 1) + 1) - 1 = j + 1
    OBVIOUS
  <2>2. f[(j + 1) + 1] = f[j + 1] \div 2 /\ g[j + 1] = g[j] \div 2 /\ f[j + 1] = g[j]
    BY <1>1, <1>3, <2>1
  <2> QED
    BY <2>1, <2>2
<1>4. 0..width \subseteq S
  <2> HIDE DEF S
  <2> QED
    BY <1>2, <1>3, InductionUpTo
<1> QED
  BY <1>4 DEF f, g

\* Two numbers have a common bit if both are odd or their halves have one.
LEMMA CommonHalf ==
    ASSUME NEW a \in Nat, NEW b \in Nat, NEW h \in Nat, h = a \div 2,
           NEW l \in Nat, l = b \div 2, NEW width \in Nat
    PROVE  CommonBit(a, b, width + 1) <=> \/ a % 2 = 1 /\ b % 2 = 1
                                          \/ CommonBit(h, l, width)
<1> DEFINE f == ShiftRight(a, width + 1)
           g == ShiftRight(b, width + 1)
           u == ShiftRight(h, width)
           v == ShiftRight(l, width)
<1>0. width + 1 \in Nat
  OBVIOUS
<1>1. f[0] = a /\ g[0] = b
  BY <1>0, ShiftSteps, Zenon
<1>2. \A k \in 0..width : f[k + 1] = u[k] /\ g[k + 1] = v[k]
  <2> SUFFICES ASSUME NEW k \in 0..width PROVE f[k + 1] = u[k] /\ g[k + 1] = v[k]
    BY Zenon
  <2>1. ShiftRight(a, width + 1)[k + 1] = ShiftRight(h, width)[k]
    BY ShiftHalf
  <2>2. ShiftRight(b, width + 1)[k + 1] = ShiftRight(l, width)[k]
    BY ShiftHalf
  <2> QED
    BY <2>1, <2>2
<1>3. CommonBit(a, b, width + 1) <=> \E k \in 0..(width + 1) : f[k] % 2 = 1 /\ g[k] % 2 = 1
  BY Zenon DEF CommonBit
<1>4. CommonBit(h, l, width) <=> \E k \in 0..width : u[k] % 2 = 1 /\ v[k] % 2 = 1
  BY Zenon DEF CommonBit
<1> HIDE DEF f, g, u, v
<1>5. ASSUME CommonBit(a, b, width + 1)
      PROVE  (a % 2 = 1 /\ b % 2 = 1) \/ CommonBit(h, l, width)
  <2>1. PICK k \in 0..(width + 1) : f[k] % 2 = 1 /\ g[k] % 2 = 1
    BY <1>3, <1>5
  <2>2. CASE k = 0
    BY <1>1, <2>1, <2>2
  <2>3. CASE k # 0
    <3>1. k - 1 \in 0..width /\ (k - 1) + 1 = k
      BY <2>3
    <3>2. f[k] = u[k - 1] /\ g[k] = v[k - 1]
      BY <1>2, <3>1
    <3> QED
      BY <1>4, <2>1, <3>1, <3>2
  <2> QED
    BY <2>2, <2>3
<1>6. ASSUME a % 2 = 1, b % 2 = 1 PROVE CommonBit(a, b, width + 1)
  <2>1. 0 \in 0..(width + 1)
    OBVIOUS
  <2> QED
    BY <1>1, <1>3, <1>6, <2>1
<1>7. ASSUME CommonBit(h, l, width) PROVE CommonBit(a, b, width + 1)
  <2>1. PICK k \in 0..width : u[k] % 2 = 1 /\ v[k] % 2 = 1
    BY <1>4, <1>7
  <2>2. k + 1 \in 0..(width + 1) /\ f[k + 1] = u[k] /\ g[k + 1] = v[k]
    BY <1>2
  <2> QED
    BY <1>3, <2>1, <2>2
<1> QED
  BY <1>5, <1>6, <1>7

\* A number that is not zero has a bit, which it shares with itself.
LEMMA HasBit ==
    ASSUME NEW n \in Nat, n # 0, NEW width \in Nat, n <= width
    PROVE  CommonBit(n, n, width)
<1> DEFINE T == {m \in Nat : m # 0 /\ \E w \in Nat : m <= w /\ ~CommonBit(m, m, w)}
<1> SUFFICES ASSUME T # {} PROVE FALSE
  OBVIOUS
<1>1. T \in SUBSET Nat
  OBVIOUS
<1>2. PICK m \in T : \A j \in T : m <= j
  <2> HIDE DEF T
  <2> QED
    BY <1>1, LeastNatural
<1>3. PICK w \in Nat : m <= w /\ ~CommonBit(m, m, w)
  BY <1>2
<1>4. m \in Nat /\ m # 0
  BY <1>2
<1> DEFINE h == m \div 2
           v == w - 1
<1>5. h \in Nat /\ m = 2 * h + (m % 2) /\ m % 2 \in 0..1
  BY <1>4, Half
<1>6. v \in Nat /\ v + 1 = w
  BY <1>3, <1>4
<1>7. CommonBit(m, m, v + 1) <=> (m % 2 = 1 /\ m % 2 = 1) \/ CommonBit(h, h, v)
  BY <1>4, <1>5, <1>6, CommonHalf
<1>8. m % 2 = 0 /\ ~CommonBit(h, h, v)
  BY <1>3, <1>5, <1>6, <1>7
<1> HIDE DEF h, v
<1>9. h # 0 /\ h < m /\ h <= v
  BY <1>3, <1>4, <1>5, <1>6, <1>8
<1>10. h \in T
  BY <1>5, <1>6, <1>8, <1>9
<1> QED
  BY <1>2, <1>4, <1>5, <1>9, <1>10

LEMMA ZeroHasNoBit ==
    ASSUME NEW a \in Nat, NEW width \in Nat
    PROVE  ~CommonBit(a, 0, width)
<1> DEFINE g == ShiftRight(0, width)
           S == {k \in 0..width : g[k] = 0}
<1>1. g[0] = 0 /\ \A k \in 1..width : g[k] = g[k - 1] \div 2
  BY ShiftSteps
<1> HIDE DEF g
<1>2. 0 \in S
  BY <1>1
<1>3. ASSUME NEW k \in 0..(width - 1), k \in S PROVE k + 1 \in S
  <2>1. k + 1 \in 0..width /\ k + 1 \in 1..width /\ (k + 1) - 1 = k
    OBVIOUS
  <2>2. g[k + 1] = g[k] \div 2
    BY <1>1, <2>1
  <2> QED
    BY <1>3, <2>1, <2>2
<1>4. 0..width \subseteq S
  <2> HIDE DEF S
  <2> QED
    BY <1>2, <1>3, InductionUpTo
<1>5. \A k \in 0..width : g[k] % 2 # 1
  BY <1>4
<1> QED
  BY <1>5, Zenon DEF CommonBit, g

\* A power of two has no bit in common with the number before it.
LEMMA PowerHasNoCommonBit ==
    ASSUME NEW N \in Nat, NEW j \in 0..N, NEW width \in Nat, TwoTo(N)[j] <= width
    PROVE  ~CommonBit(TwoTo(N)[j], TwoTo(N)[j] - 1, width)
<1> DEFINE two == TwoTo(N)
           S == {k \in 0..N : \A w \in Nat : two[k] <= w => ~CommonBit(two[k], two[k] - 1, w)}
<1>1. /\ \A k \in 0..N : two[k] \in Nat /\ two[k] >= k + 1
      /\ two[0] = 1 /\ \A k \in 1..N : two[k] = 2 * two[k - 1]
  BY TwoToSteps
<1> HIDE DEF two
<1>2. 0 \in S
  <2>1. \A w \in Nat : ~CommonBit(1, 0, w)
    BY ZeroHasNoBit
  <2> QED
    BY <1>1, <2>1
<1>3. ASSUME NEW k \in 0..(N - 1), k \in S PROVE k + 1 \in S
  <2>1. k + 1 \in 0..N /\ k \in 0..N /\ k + 1 \in 1..N /\ (k + 1) - 1 = k
    OBVIOUS
  <2> DEFINE m == two[k]
             n == two[k + 1]
  <2>2. m \in Nat /\ m >= 1 /\ n = 2 * m
    BY <1>1, <2>1
  <2> SUFFICES ASSUME NEW w \in Nat, n <= w PROVE ~CommonBit(n, n - 1, w)
    BY <2>1
  <2> DEFINE v == w - 1
  <2> HIDE DEF m, n
  <2>3. v \in Nat /\ v + 1 = w /\ m <= v /\ n \in Nat /\ n - 1 \in Nat /\ m - 1 \in Nat
        /\ n - 1 = 2 * (m - 1) + 1
    BY <2>2
  <2>4. n \div 2 = m /\ (n - 1) \div 2 = m - 1 /\ n % 2 = 0
    BY <2>2, <2>3, Half
  <2> HIDE DEF v
  <2> DEFINE n1 == n - 1
             m1 == m - 1
  <2> HIDE DEF n1, m1
  <2>5. CommonBit(n, n1, v + 1) <=> (n % 2 = 1 /\ n1 % 2 = 1) \/ CommonBit(m, m1, v)
    BY <2>2, <2>3, <2>4, CommonHalf DEF n1, m1
  <2>6. ~CommonBit(m, m1, v)
    BY <1>3, <2>3 DEF m, m1
  <2> QED
    BY <2>3, <2>4, <2>5, <2>6 DEF n1
<1>4. 0..N \subseteq S
  <2> HIDE DEF S
  <2> QED
    BY <1>2, <1>3, InductionUpTo
<1> QED
  BY <1>4 DEF two

\* Only powers of two have no bit in common with the number before them.
LEMMA OnlyPowers ==
    ASSUME NEW N \in Nat, NEW n \in Nat, n # 0, n <= TwoTo(N)[N], NEW width \in Nat,
           n <= width, ~CommonBit(n, n - 1, width)
    PROVE  \E j \in 0..N : TwoTo(N)[j] = n
<1> DEFINE two == TwoTo(N)
           Power(m) == \E j \in 0..N : two[j] = m
           T == {m \in Nat : /\ m # 0 /\ m <= two[N] /\ ~Power(m)
                             /\ \E w \in Nat : m <= w /\ ~CommonBit(m, m - 1, w)}
<1>0. /\ \A k \in 0..N : two[k] \in Nat /\ two[k] >= k + 1
      /\ two[0] = 1 /\ \A k \in 1..N : two[k] = 2 * two[k - 1]
  BY TwoToSteps
<1> SUFFICES ASSUME T # {} PROVE FALSE
  OBVIOUS
<1> HIDE DEF two
<1>1. T \in SUBSET Nat
  OBVIOUS
<1>2. PICK m \in T : \A j \in T : m <= j
  <2> HIDE DEF T
  <2> QED
    BY <1>1, LeastNatural
<1>3. PICK w \in Nat : m <= w /\ ~CommonBit(m, m - 1, w)
  BY <1>2
<1>4. m \in Nat /\ m # 0 /\ m <= two[N] /\ ~Power(m)
  BY <1>2
<1>5. m # 1
  BY <1>0, <1>4
<1> DEFINE h == m \div 2
           v == w - 1
           m1 == m - 1
           l == m1 \div 2
<1>6. h \in Nat /\ m = 2 * h + (m % 2) /\ m % 2 \in 0..1
  BY <1>4, Half
<1>7. v \in Nat /\ v + 1 = w /\ m1 \in Nat /\ m1 \in Int
  BY <1>3, <1>4
<1>8. l \in Nat
  BY <1>7, Half
<1>9. CommonBit(m, m1, v + 1) <=> (m % 2 = 1 /\ m1 % 2 = 1) \/ CommonBit(h, l, v)
  <2> HIDE DEF h, m1, l, v
  <2> QED
    BY <1>4, <1>6, <1>7, <1>8, CommonHalf, Zenon DEF h, l
<1>10. ~CommonBit(h, l, v)
  BY <1>3, <1>7, <1>9
<1>11. h # 0 /\ h < m /\ h <= v
  <2> HIDE DEF h
  <2> QED
    BY <1>3, <1>4, <1>5, <1>6
<1>12. CASE m % 2 = 1
  <2>1. m1 = 2 * h /\ h \in Int
    <3> HIDE DEF h
    <3> QED
      BY <1>4, <1>6, <1>12
  <2> HIDE DEF h, m1, v
  <2>2. l = h
    BY <2>1, Half
  <2>3. CommonBit(h, h, v)
    BY <1>6, <1>7, <1>11, HasBit, Zenon
  <2> QED
    BY <1>10, <2>2, <2>3, Zenon
<1>13. CASE m % 2 = 0
  <2>1. m = 2 * h /\ m1 = 2 * (h - 1) + 1 /\ h - 1 \in Int
    <3> HIDE DEF h
    <3> QED
      BY <1>4, <1>6, <1>13
  <2> HIDE DEF h, m1, v
  <2>2. l = h - 1
    BY <2>1, Half
  <2>3. ~CommonBit(h, h - 1, v)
    BY <1>10, <2>2, Zenon
  <2>4. h <= two[N]
    <3>1. two[N] \in Nat
      BY <1>0
    <3> QED
      BY <1>4, <1>6, <1>11, <3>1
  <2>5. Power(h)
    <3>1. h \notin T
      <4> HIDE DEF T
      <4> QED
        BY <1>2, <1>4, <1>6, <1>11
    <3> HIDE DEF Power
    <3> QED
      BY <1>6, <1>7, <1>11, <2>3, <2>4, <3>1
  <2>6. PICK j \in 0..N : two[j] = h
    BY <2>5
  <2>7. j # N
    <3> SUFFICES ASSUME j = N PROVE FALSE
      OBVIOUS
    <3>1. two[N] = h
      BY <2>6
    <3> QED
      BY <1>4, <1>6, <1>11, <2>1, <3>1
  <2>8. j + 1 \in 1..N /\ j + 1 \in 0..N /\ (j + 1) - 1 = j
    BY <2>7
  <2>9. two[j + 1] = m
    BY <1>0, <2>1, <2>6, <2>8
  <2> QED
    BY <1>4, <2>8, <2>9
<1> QED
  BY <1>6, <1>12, <1>13

\* is_power_of_two
LEMMA PowerOfTwo ==
    ASSUME NEW N \in Nat, NEW n \in Nat, n <= TwoTo(N)[N]
    PROVE  IsPowerOfTwo(n) <=> \E j \in 0..N : TwoTo(N)[j] = n
<1>1. ASSUME IsPowerOfTwo(n) PROVE \E j \in 0..N : TwoTo(N)[j] = n
  <2>1. n # 0 /\ ~CommonBit(n, n - 1, n) /\ n <= n
    BY <1>1 DEF IsPowerOfTwo
  <2> QED
    BY <2>1, OnlyPowers, Zenon
<1>2. ASSUME NEW j \in 0..N, TwoTo(N)[j] = n PROVE IsPowerOfTwo(n)
  <2>1. n >= j + 1 /\ n # 0 /\ n <= n
    BY <1>2, TwoToSteps
  <2>2. ~CommonBit(n, n - 1, n)
    BY <1>2, <2>1, PowerHasNoCommonBit, Zenon
  <2> QED
    BY <2>1, <2>2 DEF IsPowerOfTwo
<1> QED
  BY <1>1, <1>2

-----------------------------------------------------------------------------
(***************************************************************************)
(* Division, by the size of an element and by the size of a run.           *)
(***************************************************************************)

LEMMA DivFacts ==
    ASSUME NEW n \in Nat, NEW d \in Nat \ {0}
    PROVE  n \div d \in Nat /\ n % d \in 0..(d - 1) /\ n = (n \div d) * d + (n % d)
  OBVIOUS

LEMMA QuotientBound ==
    ASSUME NEW a \in Nat, NEW b \in Nat, NEW d \in Nat, NEW r \in 0..(d - 1), NEW s \in Nat,
           a * d + s <= b * d + r
    PROVE  a <= b
<1> SUFFICES ASSUME a > b PROVE FALSE
  OBVIOUS
<1> DEFINE e == a - b
<1>1. e \in Nat /\ e >= 1 /\ a = b + e
  OBVIOUS
<1> HIDE DEF e
<1>2. a * d = b * d + e * d
  BY <1>1
<1>3. e * d >= d
  BY <1>1
<1> DEFINE ed == e * d
           bd == b * d
           ad == a * d
<1>4. ed \in Nat /\ bd \in Nat /\ ad \in Nat /\ ad = bd + ed /\ ed >= d /\ ad + s <= bd + r
  BY <1>1, <1>2, <1>3
<1> HIDE DEF ed, bd, ad
<1> QED
  BY <1>4

LEMMA DivUnique ==
    ASSUME NEW q \in Nat, NEW d \in Nat \ {0}, NEW r \in 0..(d - 1), NEW n \in Nat,
           n = q * d + r
    PROVE  n \div d = q /\ n % d = r
<1> DEFINE a == n \div d
           s == n % d
<1>1. a \in Nat /\ s \in 0..(d - 1) /\ n = a * d + s
  BY DivFacts
<1> HIDE DEF a, s
<1>2. a <= q /\ q <= a
  <2>1. a * d + s <= q * d + r /\ q * d + r <= a * d + s /\ r \in Nat /\ s \in Nat
    BY <1>1
  <2> QED
    BY <1>1, <2>1, QuotientBound, Zenon
<1>3. a = q
  BY <1>1, <1>2
<1>4. s = r
  <2> DEFINE ad == a * d
  <2>1. ad \in Int /\ n = ad + s /\ n = ad + r
    BY <1>1, <1>3
  <2> HIDE DEF ad
  <2> QED
    BY <1>1, <2>1
<1> QED
  BY <1>3, <1>4 DEF a, s

\* Position i of m blocks of d is position r + 1 of block q.
LEMMA IndexSplit ==
    ASSUME NEW d \in Nat \ {0}, NEW m \in Nat, NEW i \in 1..(m * d)
    PROVE  LET q == (i - 1) \div d
               r == (i - 1) % d
           IN  q \in 0..(m - 1) /\ r \in 0..(d - 1) /\ i = q * d + (r + 1)
<1> DEFINE n == i - 1
           q == n \div d
           r == n % d
           md == m * d
<1>1. md \in Nat /\ i \in 1..md
  OBVIOUS
<1> HIDE DEF md
<1>2. n \in Nat /\ n + 1 <= md
  BY <1>1
<1> HIDE DEF n
<1>3. q \in Nat /\ r \in 0..(d - 1) /\ n = q * d + r
  BY <1>2, DivFacts
<1> HIDE DEF q, r
<1>4. q + 1 <= m
  <2> SUFFICES ASSUME q >= m PROVE FALSE
    BY <1>3
  <2>1. q * d >= m * d
    <3> DEFINE e == q - m
    <3>1. e \in Nat /\ q = m + e
      BY <1>3
    <3> HIDE DEF e
    <3>2. q * d = m * d + e * d /\ e * d \in Nat /\ m * d \in Nat
      BY <3>1
    <3> QED
      BY <3>2
  <2> DEFINE qd == q * d
  <2>2. qd \in Nat /\ qd >= md /\ n = qd + r
    BY <1>3, <2>1 DEF md
  <2> HIDE DEF qd
  <2> QED
    BY <1>1, <1>2, <1>3, <2>2
<1>5. i = q * d + (r + 1)
  <2> DEFINE qd == q * d
  <2>1. qd \in Nat /\ n = qd + r
    BY <1>3
  <2> HIDE DEF qd
  <2>2. i = qd + (r + 1)
    BY <1>1, <1>3, <2>1 DEF n
  <2> QED
    BY <2>2 DEF qd
<1> QED
  BY <1>3, <1>4, <1>5 DEF q, r, n

LEMMA IndexJoin ==
    ASSUME NEW d \in Nat \ {0}, NEW m \in Nat, NEW q \in 0..(m - 1), NEW r \in 0..(d - 1)
    PROVE  LET i == q * d + (r + 1)
           IN  i \in 1..(m * d) /\ (i - 1) \div d = q /\ (i - 1) % d = r
<1> DEFINE i == q * d + (r + 1)
           n == q * d + r
           e == m - (q + 1)
           qd == q * d
           md == m * d
           ed == e * d
<1>1. e \in Nat /\ m = q + (1 + e) /\ q \in Nat /\ r \in Nat
  OBVIOUS
<1> HIDE DEF e
<1>2. md = qd + (d + ed) /\ qd \in Nat /\ md \in Nat /\ ed \in Nat
  BY <1>1
<1>3. i = qd + (r + 1) /\ n = qd + r /\ n = q * d + r
  OBVIOUS
<1> HIDE DEF qd, md, ed, i, n
<1>4. i \in 1..md /\ n = i - 1 /\ n \in Nat
  BY <1>1, <1>2, <1>3
<1>5. n \div d = q /\ n % d = r
  <2>1. n = q * d + r /\ q \in Nat /\ n \in Nat
    BY <1>1, <1>3, <1>4
  <2> QED
    BY <2>1, DivUnique
<1> QED
  BY <1>4, <1>5 DEF i, md

Run == BytesPerElement - 1

LEMMA SizeFacts ==
    /\ BytesPerElement \in Nat \ {0} /\ BytesPerElement > 6
    /\ Run \in Nat \ {0} /\ BytesPerElement = Run + 1 /\ Run > 5
    /\ HeaderLen = BytesPerElement
  BY CodecAssumption DEF Run, HeaderLen

\* The least number of runs that hold n bytes.
LEMMA CeilFacts ==
    ASSUME NEW n \in Nat
    PROVE  /\ Ceil(n, Run) \in Nat /\ n <= Ceil(n, Run) * Run
           /\ \A m \in Nat : n <= m * Run => Ceil(n, Run) <= m
<1> DEFINE a == n + Run - 1
           c == a \div Run
           s == a % Run
           cR == c * Run
<1>1. a \in Nat /\ Run \in Nat \ {0}
  BY SizeFacts
<1>2. c \in Nat /\ s \in 0..(Run - 1) /\ a = c * Run + s /\ s \in Nat
  <2> HIDE DEF a
  <2>1. c \in Nat /\ s \in 0..(Run - 1) /\ a = c * Run + s
    BY <1>1, DivFacts, Zenon
  <2> HIDE DEF s
  <2> QED
    BY <1>1, <2>1
<1>3. c = Ceil(n, Run)
  BY DEF Ceil
<1> HIDE DEF c, s
<1>4. n <= c * Run
  <2>1. cR \in Nat /\ a = cR + s
    BY <1>1, <1>2
  <2> HIDE DEF cR
  <2>2. n <= cR
    BY <1>1, <1>2, <2>1
  <2> QED
    BY <2>2 DEF cR
<1>5. ASSUME NEW m \in Nat, n <= m * Run PROVE c <= m
  <2> DEFINE mR == m * Run
  <2>1. mR \in Nat /\ n <= mR
    BY <1>1, <1>5
  <2> HIDE DEF mR
  <2>2. a <= mR + (Run - 1) /\ Run - 1 \in 0..(Run - 1)
    BY <1>1, <2>1
  <2>3. c * Run + s <= m * Run + (Run - 1)
    BY <1>2, <2>2 DEF mR
  <2> QED
    BY <1>1, <1>2, <2>2, <2>3, QuotientBound, Zenon
<1> QED
  BY <1>2, <1>3, <1>4, <1>5

-----------------------------------------------------------------------------
(***************************************************************************)
(* The length in the header, as u32.                                       *)
(***************************************************************************)

LEMMA ToFromBytes ==
    ASSUME NEW n \in Nat, FitsU32(n)
    PROVE  /\ FromBeBytes(ToBeBytes(n)) = n
           /\ \A i \in 1..4 : ToBeBytes(n)[i] \in Byte
<1> DEFINE a == n \div 256
           b == a \div 256
           c == b \div 256
           s == n % 256
           t == a % 256
           u == b % 256
<1>1. /\ a \in Nat /\ s \in 0..255 /\ n = a * 256 + s
  OBVIOUS
<1>2. n \div 65536 = b /\ n \div 16777216 = c
  OBVIOUS
<1> HIDE DEF a, s
<1>3. b \in Nat /\ t \in 0..255 /\ a = b * 256 + t
  BY <1>1
<1> HIDE DEF b, t
<1>4. c \in Nat /\ u \in 0..255 /\ b = c * 256 + u /\ c < 256
  BY <1>2, <1>3 DEF FitsU32
<1> HIDE DEF c, u
<1>5. c % 256 = c
  BY <1>4
<1>6. ToBeBytes(n) = <<c, u, t, s>>
  BY <1>2, <1>5 DEF ToBeBytes, u, t, s, a
<1>7. FromBeBytes(<<c, u, t, s>>) = n
  BY <1>1, <1>3, <1>4 DEF FromBeBytes
<1>8. \A i \in 1..4 : <<c, u, t, s>>[i] \in Byte
  BY <1>1, <1>3, <1>4 DEF Byte
<1> QED
  BY <1>6, <1>7, <1>8

LEMMA FromToBytes ==
    ASSUME NEW b, \A i \in 1..4 : b[i] \in Byte
    PROVE  /\ FromBeBytes(b) \in Nat /\ FitsU32(FromBeBytes(b))
           /\ \A i \in 1..4 : ToBeBytes(FromBeBytes(b))[i] = b[i]
<1> DEFINE c == b[1]
           u == b[2]
           t == b[3]
           s == b[4]
           k == c * 256 + u
           a == k * 256 + t
           n == a * 256 + s
<1>1. c \in 0..255 /\ u \in 0..255 /\ t \in 0..255 /\ s \in 0..255
  BY DEF Byte
<1>2. FromBeBytes(b) = n
  BY DEF FromBeBytes
<1> HIDE DEF c, u, t, s
<1>3. k \in Nat /\ a \in Nat /\ n \in Nat
  BY <1>1
<1>4. k \div 256 = c /\ k % 256 = u /\ c % 256 = c
  BY <1>1
<1> HIDE DEF k
<1>5. a \div 256 = k /\ a % 256 = t /\ a \div 65536 = c
  BY <1>1, <1>3, <1>4
<1> HIDE DEF a
<1>6. n \div 256 = a /\ n % 256 = s
  BY <1>1, <1>3
<1>7. n \div 65536 = k
  <2>1. n \div 65536 = (n \div 256) \div 256
    <3> HIDE DEF n
    <3> QED
      BY <1>3
  <2> QED
    BY <1>5, <1>6, <2>1
<1>8. n \div 16777216 = c
  <2>1. n \div 16777216 = (n \div 65536) \div 256
    <3> HIDE DEF n
    <3> QED
      BY <1>3
  <2> QED
    BY <1>4, <1>7, <2>1
<1>11. FitsU32(n)
  BY <1>1, <1>7 DEF FitsU32, k
<1> HIDE DEF n
<1>9. ToBeBytes(n) = <<c, u, t, s>>
  BY <1>4, <1>5, <1>6, <1>7, <1>8 DEF ToBeBytes
<1>10. \A i \in 1..4 : <<c, u, t, s>>[i] = b[i]
  BY DEF c, u, t, s
<1> QED
  BY <1>2, <1>3, <1>9, <1>10, <1>11

-----------------------------------------------------------------------------
(***************************************************************************)
(* The body of an encoded payload of m + 1 elements.  Byte t of element q, *)
(* both counted from zero, is byte q * BytesPerElement + (t + 1).          *)
(***************************************************************************)

Position(q, t) == q * BytesPerElement + (t + 1)

LEMMA PositionFacts ==
    ASSUME NEW m \in Nat, NEW q \in 0..(m - 1), NEW t \in 0..Run
    PROVE  /\ Position(q, t) \in 1..(m * BytesPerElement)
           /\ (Position(q, t) - 1) \div BytesPerElement = q
           /\ (Position(q, t) - 1) % BytesPerElement = t
<1> DEFINE d == BytesPerElement
<1>1. d \in Nat \ {0} /\ t \in 0..(d - 1)
  BY SizeFacts
<1> HIDE DEF d
<1>2. LET i == q * d + (t + 1)
      IN  i \in 1..(m * d) /\ (i - 1) \div d = q /\ (i - 1) % d = t
  BY <1>1, IndexJoin, Zenon
<1> QED
  BY <1>2 DEF Position, d

LEMMA PositionOf ==
    ASSUME NEW m \in Nat, NEW j \in 1..(m * BytesPerElement)
    PROVE  \E q \in 0..(m - 1), t \in 0..Run : j = Position(q, t)
<1> DEFINE d == BytesPerElement
           q == (j - 1) \div d
           t == (j - 1) % d
<1>1. d \in Nat \ {0} /\ d - 1 = Run
  BY SizeFacts
<1>2. q \in 0..(m - 1) /\ t \in 0..(d - 1) /\ j = q * d + (t + 1)
  <2> HIDE DEF d
  <2> QED
    BY <1>1, IndexSplit, Zenon DEF d
<1> HIDE DEF q, t
<1>3. j = Position(q, t) /\ t \in 0..Run
  BY <1>1, <1>2 DEF Position
<1> QED
  BY <1>2, <1>3

\* Byte t >= 1 of element q is byte q * Run + t of the decoded body.
LEMMA RunPosition ==
    ASSUME NEW m \in Nat, NEW q \in 0..(m - 1), NEW t \in 1..Run
    PROVE  /\ q * Run + t \in 1..(m * Run)
           /\ ((q * Run + t) - 1) \div Run = q
           /\ ((q * Run + t) - 1) % Run = t - 1
<1> DEFINE r == t - 1
<1>1. Run \in Nat \ {0} /\ r \in 0..(Run - 1) /\ r + 1 = t
  BY SizeFacts
<1> HIDE DEF r
<1>2. LET i == q * Run + (r + 1)
      IN  i \in 1..(m * Run) /\ (i - 1) \div Run = q /\ (i - 1) % Run = r
  BY <1>1, IndexJoin, Zenon
<1> QED
  BY <1>1, <1>2

LEMMA RunOf ==
    ASSUME NEW m \in Nat, NEW i \in 1..(m * Run)
    PROVE  \E q \in 0..(m - 1), t \in 1..Run : i = q * Run + t
<1> DEFINE q == (i - 1) \div Run
           r == (i - 1) % Run
<1>1. Run \in Nat \ {0}
  BY SizeFacts
<1>2. q \in 0..(m - 1) /\ r \in 0..(Run - 1) /\ i = q * Run + (r + 1)
  BY <1>1, IndexSplit, Zenon
<1> HIDE DEF q, r
<1>3. r + 1 \in 1..Run
  BY <1>1, <1>2
<1> QED
  BY <1>2, <1>3

LEMMA ByteOf ==
    ASSUME NEW s \in Seq(Byte), NEW i \in 1..Len(s)
    PROVE  s[i] \in Byte
  OBVIOUS

Body(p) == SubSeq(p, HeaderLen + 1, Len(p))

LEMMA BodyFacts ==
    ASSUME NEW p \in Seq(Byte), NEW m \in Nat, Len(p) = (m + 1) * BytesPerElement
    PROVE  /\ Body(p) \in Seq(Byte) /\ Len(Body(p)) = m * BytesPerElement
           /\ m * BytesPerElement \in Nat
           /\ Len(p) = BytesPerElement + m * BytesPerElement
           /\ NumElements(p) = m + 1 /\ NumElements(Body(p)) = m
           /\ Len(p) % BytesPerElement = 0
           /\ \A j \in 1..(m * BytesPerElement) : Body(p)[j] = p[BytesPerElement + j]
<1> DEFINE d == BytesPerElement
           md == m * d
<1>1. d \in Nat \ {0} /\ HeaderLen = d /\ d > 6
  BY SizeFacts
<1>2. md \in Nat /\ Len(p) = d + md
  BY <1>1
<1>3. NumElements(p) = m + 1 /\ Len(p) % d = 0
  <2>1. Len(p) = (m + 1) * d + 0 /\ m + 1 \in Nat /\ 0 \in 0..(d - 1) /\ Len(p) \in Nat
    BY <1>1
  <2> HIDE DEF d
  <2> DEFINE l == Len(p)
             k == m + 1
             z == 0
  <2>3. l = k * d + z /\ k \in Nat /\ z \in 0..(d - 1) /\ l \in Nat
    BY <2>1
  <2> HIDE DEF l, k, z
  <2>4. l \div d = k /\ l % d = z
    BY <1>1, <2>3, DivUnique
  <2>2. Len(p) \div d = m + 1 /\ Len(p) % d = 0
    BY <2>4 DEF l, k, z
  <2> QED
    BY <2>2 DEF NumElements, d
<1> HIDE DEF md, d
<1>4. Body(p) \in Seq(Byte) /\ Len(Body(p)) = md /\ \A j \in 1..md : Body(p)[j] = p[d + j]
  <2>1. Body(p) = SubSeq(p, d + 1, d + md)
    BY <1>1, <1>2 DEF Body
  <2> QED
    BY <1>1, <1>2, <2>1
<1>5. NumElements(Body(p)) = m
  <2>1. md = m * d + 0 /\ 0 \in 0..(d - 1)
    BY <1>1, <1>2 DEF md
  <2>2. md \div d = m
    BY <1>1, <1>2, <2>1, DivUnique, Zenon
  <2> QED
    BY <1>4, <2>2 DEF NumElements, d
<1> QED
  BY <1>2, <1>3, <1>4, <1>5 DEF md, d

\* The elements of a body, and the body without their first bytes.
LEMMA ElementFacts ==
    ASSUME NEW body \in Seq(Byte), NEW m \in Nat, Len(body) = m * BytesPerElement,
           NumElements(body) = m
    PROVE  /\ ElementsPadded(body) <=> \A q \in 0..(m - 1) : body[Position(q, 0)] = 0
           /\ RemovePadding(body) \in Seq(Byte)
           /\ Len(RemovePadding(body)) = m * Run
           /\ \A q \in 0..(m - 1), t \in 1..Run :
                RemovePadding(body)[q * Run + t] = body[Position(q, t)]
<1> DEFINE d == BytesPerElement
           mR == m * Run
<1>1. d \in Nat \ {0} /\ Run \in Nat \ {0} /\ d = Run + 1 /\ mR \in Nat
  BY SizeFacts
<1>2. ASSUME NEW q \in 0..(m - 1), NEW t \in 0..Run
      PROVE  Chunk(body, q)[t + 1] = body[Position(q, t)] /\ body[Position(q, t)] \in Byte
  <2> DEFINE qd == q * d
  <2>1. qd \in Nat /\ (q + 1) * d = qd + d /\ Position(q, t) = qd + (t + 1)
    BY <1>1 DEF Position
  <2>2. Position(q, t) \in 1..Len(body) /\ Position(q, Run) \in 1..Len(body)
    <3>1. Run \in 0..Run
      BY <1>1
    <3> QED
      BY <3>1, PositionFacts
  <2>3. qd + d <= Len(body)
    <3>1. Position(q, Run) = qd + (Run + 1)
      BY DEF Position
    <3> HIDE DEF qd
    <3> QED
      BY <1>1, <2>1, <2>2, <3>1
  <2>4. Chunk(body, q) = SubSeq(body, qd + 1, qd + d)
    BY <2>1 DEF Chunk
  <2> HIDE DEF qd, d
  <2>5. SubSeq(body, qd + 1, qd + d)[t + 1] = body[qd + (t + 1)]
    BY <1>1, <2>1, <2>3
  <2>6. body[Position(q, t)] \in Byte
    BY <2>2, ByteOf, Zenon
  <2> QED
    BY <2>1, <2>4, <2>5, <2>6, Zenon
<1>3. ElementsPadded(body) <=> \A q \in 0..(m - 1) : body[Position(q, 0)] = 0
  <2>1. \A q \in 0..(m - 1) : Chunk(body, q)[1] = body[Position(q, 0)]
    <3>1. 0 \in 0..Run /\ 0 + 1 = 1
      BY <1>1
    <3> QED
      BY <1>2, <3>1
  <2> QED
    BY <2>1 DEF ElementsPadded
<1> DEFINE f == RemovePadding(body)
           g(i) == Chunk(body, (i - 1) \div Run)[((i - 1) % Run) + 2]
<1>4. f = [i \in 1..mR |-> g(i)]
  BY Zenon DEF RemovePadding, Run
<1>5. ASSUME NEW q \in 0..(m - 1), NEW t \in 1..Run
      PROVE  q * Run + t \in 1..mR /\ g(q * Run + t) = body[Position(q, t)]
             /\ body[Position(q, t)] \in Byte
  <2>1. /\ q * Run + t \in 1..mR
        /\ ((q * Run + t) - 1) \div Run = q /\ ((q * Run + t) - 1) % Run = t - 1
    BY RunPosition
  <2>2. t \in 0..Run /\ (t - 1) + 2 = t + 1
    BY <1>1
  <2> QED
    BY <1>2, <2>1, <2>2
<1> HIDE DEF f, g, mR
<1>6. \A i \in 1..mR : g(i) \in Byte
  <2> SUFFICES ASSUME NEW i \in 1..mR PROVE g(i) \in Byte
    OBVIOUS
  <2>1. PICK q \in 0..(m - 1), t \in 1..Run : i = q * Run + t
    BY RunOf, Zenon DEF mR
  <2> QED
    BY <1>5, <2>1, Zenon
<1>7. f \in Seq(Byte) /\ Len(f) = mR
  BY <1>1, <1>4, <1>6
<1>8. \A q \in 0..(m - 1), t \in 1..Run : f[q * Run + t] = body[Position(q, t)]
  BY <1>4, <1>5, Zenon
<1> QED
  BY <1>3, <1>7, <1>8 DEF f, mR

-----------------------------------------------------------------------------
(***************************************************************************)
(* The blob of a payload.                                                  *)
(***************************************************************************)

\* Byte t of element q after the header.
Padded(data, q, t) ==
    IF t = 0 THEN 0
    ELSE IF q * Run + t <= Len(data) THEN data[q * Run + t] ELSE 0

LEMMA PadFacts ==
    ASSUME NEW data \in Seq(Byte)
    PROVE  LET c == Ceil(Len(data), Run)
           IN  /\ PadPayload(data) \in Seq(Byte)
               /\ Len(PadPayload(data)) = c * BytesPerElement
               /\ \A q \in 0..(c - 1), t \in 0..Run :
                    PadPayload(data)[Position(q, t)] = Padded(data, q, t)
<1> DEFINE d == BytesPerElement
           c == Ceil(Len(data), Run)
           cd == c * d
           at(i) == IF i <= Len(data) THEN data[i] ELSE 0
           g(j) == IF (j - 1) % d = 0 THEN 0 ELSE at(((j - 1) \div d) * Run + ((j - 1) % d))
           f == PadPayload(data)
<1>1. d \in Nat \ {0} /\ Run \in Nat \ {0} /\ d = Run + 1 /\ Len(data) \in Nat
  BY SizeFacts
<1>2. c \in Nat
  BY <1>1, CeilFacts
<1>3. f = [j \in 1..cd |-> g(j)]
  BY Zenon DEF PadPayload, Run
<1> HIDE DEF c
<1>4. cd \in Nat
  BY <1>1, <1>2
<1>5. ASSUME NEW q \in 0..(c - 1), NEW t \in 0..Run
      PROVE  /\ Position(q, t) \in 1..cd /\ g(Position(q, t)) = Padded(data, q, t)
             /\ Padded(data, q, t) \in Byte
  <2>1. /\ Position(q, t) \in 1..cd
        /\ (Position(q, t) - 1) \div d = q /\ (Position(q, t) - 1) % d = t
    BY <1>2, PositionFacts
  <2>2. g(Position(q, t)) = IF t = 0 THEN 0 ELSE at(q * Run + t)
    BY <2>1, Zenon
  <2>3. t # 0 => q * Run + t \in Nat \ {0}
    BY <1>1, <1>2
  <2>5. 0 \in Byte
    BY DEF Byte
  <2>6. \A i \in Nat \ {0} : i <= Len(data) => i \in 1..Len(data)
    BY <1>1
  <2>4. 0 \in Byte /\ \A i \in Nat \ {0} : i <= Len(data) => data[i] \in Byte
    BY <2>5, <2>6, ByteOf, Zenon
  <2> QED
    BY <2>1, <2>2, <2>3, <2>4, Zenon DEF Padded
<1> HIDE DEF f, g, cd
<1>6. \A j \in 1..cd : g(j) \in Byte
  <2> SUFFICES ASSUME NEW j \in 1..cd PROVE g(j) \in Byte
    OBVIOUS
  <2>1. PICK q \in 0..(c - 1), t \in 0..Run : j = Position(q, t)
    BY <1>2, PositionOf, Zenon DEF cd
  <2> QED
    BY <1>5, <2>1, Zenon
<1>7. f \in Seq(Byte) /\ Len(f) = cd
  BY <1>3, <1>4, <1>6
<1>8. \A q \in 0..(c - 1), t \in 0..Run : f[Position(q, t)] = Padded(data, q, t)
  BY <1>3, <1>5, Zenon
<1> QED
  BY <1>7, <1>8 DEF f, cd, c

LEMMA TimesLess ==
    ASSUME NEW a \in Nat, NEW b \in Nat, NEW d \in Nat, a <= b
    PROVE  a * d <= b * d /\ a * d \in Nat /\ b * d \in Nat
<1> DEFINE e == b - a
<1>1. e \in Nat /\ b = a + e
  OBVIOUS
<1> HIDE DEF e
<1>2. b * d = a * d + e * d /\ e * d \in Nat /\ a * d \in Nat /\ b * d \in Nat
  BY <1>1
<1> DEFINE ad == a * d
           bd == b * d
           ed == e * d
<1>3. bd = ad + ed /\ ed \in Nat /\ ad \in Nat /\ bd \in Nat
  BY <1>2
<1> HIDE DEF ad, bd, ed
<1>4. ad <= bd
  BY <1>3
<1> QED
  BY <1>3, <1>4 DEF ad, bd

LEMMA ConcatFacts ==
    ASSUME NEW a \in Seq(Byte), NEW b \in Seq(Byte)
    PROVE  /\ a \o b \in Seq(Byte) /\ Len(a \o b) = Len(a) + Len(b)
           /\ \A i \in 1..Len(a) : (a \o b)[i] = a[i]
           /\ \A i \in 1..Len(b) : (a \o b)[Len(a) + i] = b[i]
  OBVIOUS

LEMMA HeaderType ==
    ASSUME NEW n \in Nat, FitsU32(n)
    PROVE  Header(n) \in Seq(Byte) /\ Len(Header(n)) = BytesPerElement
<1> DEFINE h(i) == IF i = 2 THEN PAYLOAD_ENCODING_VERSION_0
                   ELSE IF i \in 3..6 THEN ToBeBytes(n)[i - 2]
                   ELSE 0
<1>1. BytesPerElement \in Nat /\ HeaderLen = BytesPerElement
  BY SizeFacts
<1>2. ASSUME NEW i \in 1..BytesPerElement PROVE h(i) \in Byte
  <2>1. i \in 3..6 => ToBeBytes(n)[i - 2] \in Byte
    <3>1. i \in 3..6 => i - 2 \in 1..4
      OBVIOUS
    <3> QED
      BY <3>1, ToFromBytes
  <2>2. 0 \in Byte /\ PAYLOAD_ENCODING_VERSION_0 \in Byte
    BY DEF Byte, PAYLOAD_ENCODING_VERSION_0
  <2> QED
    BY <2>1, <2>2
<1>3. Header(n) = [i \in 1..BytesPerElement |-> h(i)]
  BY <1>1, Zenon DEF Header
<1> HIDE DEF h
<1> QED
  BY <1>1, <1>2, <1>3

\* The blob of a payload that fits into m elements after the header.
LEMMA BlobFacts ==
    ASSUME NEW data \in Seq(Byte), FitsU32(Len(data)), NEW m \in Nat
    PROVE  LET c == Ceil(Len(data), Run)
               n == (m + 1) * BytesPerElement
               b == Blob(data, n)
           IN  /\ n >= Len(Encode(data)) <=> c <= m
               /\ c <= m =>
                    /\ b \in Seq(Byte) /\ Len(b) = n
                    /\ \A i \in 1..BytesPerElement : b[i] = Header(Len(data))[i]
                    /\ \A q \in 0..(m - 1), t \in 0..Run :
                         b[BytesPerElement + Position(q, t)] = Padded(data, q, t)
<1> DEFINE d == BytesPerElement
           c == Ceil(Len(data), Run)
           n == (m + 1) * d
           b == Blob(data, n)
           h == Header(Len(data))
           f == PadPayload(data)
           e == Encode(data)
           cd == c * d
           md == m * d
<1>1. d \in Nat \ {0} /\ Run \in Nat \ {0} /\ d = Run + 1 /\ Len(data) \in Nat
  BY SizeFacts
<1>2. c \in Nat /\ Len(data) <= c * Run
  BY <1>1, CeilFacts
<1>3. h \in Seq(Byte) /\ Len(h) = d
  BY <1>1, HeaderType
<1>4. /\ f \in Seq(Byte) /\ Len(f) = cd
      /\ \A q \in 0..(c - 1), t \in 0..Run : f[Position(q, t)] = Padded(data, q, t)
  BY PadFacts
<1>5. cd \in Nat /\ md \in Nat /\ n = d + md
  BY <1>1, <1>2
<1>6. e = h \o f
  BY DEF Encode
<1>7. b = e \o Zeros(n - Len(e))
  BY DEF Blob
<1> HIDE DEF c, h, f, e, d, n, b
<1>8. /\ e \in Seq(Byte) /\ Len(e) = d + cd
      /\ \A i \in 1..d : e[i] = h[i]
      /\ \A i \in 1..cd : e[d + i] = f[i]
  <2> HIDE DEF cd
  <2>1. /\ h \o f \in Seq(Byte) /\ Len(h \o f) = Len(h) + Len(f)
        /\ \A i \in 1..Len(h) : (h \o f)[i] = h[i]
        /\ \A i \in 1..Len(f) : (h \o f)[Len(h) + i] = f[i]
    BY <1>3, <1>4, ConcatFacts, Zenon
  <2> QED
    BY <1>3, <1>4, <1>6, <2>1, Zenon
<1>9. n >= Len(e) <=> c <= m
  <2>1. n >= Len(e) <=> cd <= md
    <3> HIDE DEF cd, md
    <3> QED
      BY <1>1, <1>5, <1>8
  <2>2. ASSUME cd <= md PROVE c <= m
    <3> DEFINE z == 0
    <3>1. z \in Nat /\ z \in 0..(d - 1) /\ c * d + z <= m * d + z
      BY <1>1, <1>5, <2>2
    <3> HIDE DEF z
    <3> QED
      BY <1>1, <1>2, <3>1, QuotientBound, Zenon
  <2>3. ASSUME c <= m PROVE cd <= md
    BY <1>1, <1>2, <2>3, TimesLess, Zenon
  <2> QED
    BY <2>1, <2>2, <2>3
<1>10. ASSUME c <= m
       PROVE  /\ b \in Seq(Byte) /\ Len(b) = n
              /\ \A i \in 1..d : b[i] = h[i]
              /\ \A q \in 0..(m - 1), t \in 0..Run :
                    b[d + Position(q, t)] = Padded(data, q, t)
  <2> DEFINE k == n - Len(e)
             z == Zeros(k)
  <2>0. n >= Len(e)
    BY <1>9, <1>10
  <2>1. k \in Nat /\ Len(e) + k = n
    <3> HIDE DEF cd, md
    <3> QED
      BY <1>1, <1>5, <1>8, <2>0
  <2> HIDE DEF k
  <2>2. z \in Seq(Byte) /\ Len(z) = k /\ \A i \in 1..k : z[i] = 0
    BY <2>1 DEF Zeros, Byte
  <2>3. b = e \o z
    BY <1>7 DEF k
  <2> HIDE DEF z, cd
  <2>4. /\ b \in Seq(Byte) /\ Len(b) = n
        /\ \A i \in 1..Len(e) : b[i] = e[i]
        /\ \A i \in (Len(e) + 1)..n : b[i] = 0
    <3>1. /\ e \o z \in Seq(Byte) /\ Len(e \o z) = Len(e) + Len(z)
          /\ \A i \in 1..Len(e) : (e \o z)[i] = e[i]
          /\ \A i \in 1..Len(z) : (e \o z)[Len(e) + i] = z[i]
      BY <1>8, <2>2, ConcatFacts, Zenon
    <3>2. ASSUME NEW i \in (Len(e) + 1)..n PROVE b[i] = 0
      <4>1. i - Len(e) \in 1..k /\ Len(e) + (i - Len(e)) = i
        BY <1>1, <1>5, <1>8, <2>1
      <4> DEFINE j == i - Len(e)
      <4> HIDE DEF j
      <4>2. (e \o z)[Len(e) + j] = 0
        BY <2>2, <3>1, <4>1, Zenon DEF j
      <4> QED
        BY <2>3, <4>1, <4>2, Zenon DEF j
    <3>3. Len(b) = n
      BY <2>1, <2>2, <2>3, <3>1, Zenon
    <3> QED
      BY <2>3, <3>1, <3>2, <3>3, Zenon
  <2>5. \A i \in 1..d : b[i] = h[i]
    BY <1>1, <1>5, <1>8, <2>4
  <2>6. ASSUME NEW q \in 0..(m - 1), NEW t \in 0..Run
        PROVE  b[d + Position(q, t)] = Padded(data, q, t)
    <3> DEFINE j == Position(q, t)
    <3>1. j \in 1..md
      BY PositionFacts DEF d
    <3>2. CASE q < c
      <4>1. q \in 0..(c - 1)
        BY <1>2, <3>2
      <4>2. j \in 1..cd /\ f[j] = Padded(data, q, t)
        BY <1>2, <1>4, <4>1, PositionFacts DEF cd, d
      <4> HIDE DEF j, md
      <4>3. d + j \in 1..Len(e) /\ e[d + j] = f[j]
        BY <1>1, <1>5, <1>8, <4>2
      <4> QED
        BY <2>4, <4>2, <4>3 DEF j
    <3>3. CASE q >= c
      <4>0. q \in Nat /\ t \in Nat
        BY <1>1
      <4>1. cd <= q * d /\ q * d \in Nat /\ c * Run <= q * Run /\ q * Run \in Nat
            /\ c * Run \in Nat
        BY <1>1, <1>2, <3>3, <4>0, TimesLess DEF cd
      <4> DEFINE qd == q * d
                 qR == q * Run
                 cR == c * Run
      <4>2. /\ j = qd + (t + 1) /\ cd <= qd /\ qd \in Nat /\ cR <= qR /\ qR \in Nat
            /\ cR \in Nat /\ Len(data) <= cR
        BY <1>2, <4>1 DEF Position, d
      <4> HIDE DEF qd, qR, cR, j, md
      <4>3. d + j \in (Len(e) + 1)..n
        BY <1>1, <1>5, <1>8, <3>1, <4>0, <4>2
      <4>4. t # 0 => ~(qR + t <= Len(data))
        BY <1>1, <4>0, <4>2
      <4>5. Padded(data, q, t) = 0
        BY <4>4 DEF Padded, qR
      <4> QED
        BY <2>4, <4>3, <4>5 DEF j
    <3> QED
      BY <1>2, <3>2, <3>3
  <2> QED
    BY <2>4, <2>5, <2>6
<1> QED
  BY <1>9, <1>10 DEF c, n, b, h, e, d

\* The header of a blob decodes to the length of the payload, and only that
\* header does.
LEMMA HeaderDecodes ==
    ASSUME NEW p \in Seq(Byte), Len(p) >= BytesPerElement, NEW n \in Nat,
           FitsU32(n), \A i \in 1..BytesPerElement : p[i] = Header(n)[i]
    PROVE  HeaderError(p) = "none" /\ ClaimedLen(p) = n
<1> DEFINE d == BytesPerElement
<1>1. d \in Nat /\ d > 6 /\ HeaderLen = d
  BY SizeFacts
<1>2. ASSUME NEW i \in 1..d
      PROVE  p[i] = IF i = 2 THEN PAYLOAD_ENCODING_VERSION_0
                    ELSE IF i \in 3..6 THEN ToBeBytes(n)[i - 2]
                    ELSE 0
  BY <1>1 DEF Header
<1> HIDE DEF d
<1>3. p[1] = 0 /\ p[2] = PAYLOAD_ENCODING_VERSION_0
  BY <1>1, <1>2
<1>4. AllZero(SubSeq(p, 7, d))
  <2>1. \A i \in 7..d : p[i] = 0
    BY <1>1, <1>2
  <2>2. Len(p) >= d
    BY DEF d
  <2> QED
    BY <1>1, <2>1, <2>2 DEF AllZero
<1>5. HeaderError(p) = "none"
  BY <1>1, <1>3, <1>4 DEF HeaderError
<1> DEFINE b == SubSeq(p, 3, 6)
           a == ToBeBytes(n)
<1>6. b[1] = a[1] /\ b[2] = a[2] /\ b[3] = a[3] /\ b[4] = a[4]
  <2>1. p[3] = a[1] /\ p[4] = a[2] /\ p[5] = a[3] /\ p[6] = a[4]
    BY <1>1, <1>2
  <2>2. b[1] = p[3] /\ b[2] = p[4] /\ b[3] = p[5] /\ b[4] = p[6]
    <3>1. Len(p) >= 6
      BY <1>1 DEF d
    <3> QED
      BY <3>1
  <2> HIDE DEF a, b
  <2> QED
    BY <2>1, <2>2
<1>7. FromBeBytes(b) = FromBeBytes(a)
  <2> HIDE DEF a, b
  <2> QED
    BY <1>6, Zenon DEF FromBeBytes
<1> QED
  BY <1>5, <1>7, ToFromBytes DEF ClaimedLen

LEMMA OnlyHeaderDecodes ==
    ASSUME NEW p \in Seq(Byte), Len(p) >= BytesPerElement, HeaderError(p) = "none"
    PROVE  /\ ClaimedLen(p) \in Nat /\ FitsU32(ClaimedLen(p))
           /\ \A i \in 1..BytesPerElement : p[i] = Header(ClaimedLen(p))[i]
<1> DEFINE d == BytesPerElement
           b == SubSeq(p, 3, 6)
           n == FromBeBytes(b)
<1>1. d \in Nat /\ d > 6 /\ HeaderLen = d
  BY SizeFacts
<1>2. p[1] = 0 /\ p[2] = PAYLOAD_ENCODING_VERSION_0 /\ AllZero(SubSeq(p, 7, d))
  BY <1>1 DEF HeaderError
<1>3. \A i \in 7..d : p[i] = 0
  <2> SUFFICES ASSUME NEW i \in 7..d PROVE p[i] = 0
    OBVIOUS
  <2> DEFINE s == SubSeq(p, 7, d)
             k == i - 6
  <2>1. k \in DOMAIN s /\ s[k] = p[i]
    BY <1>1
  <2> HIDE DEF s
  <2> QED
    BY <1>2, <2>1 DEF AllZero, s
<1>4. /\ \A i \in 1..4 : b[i] \in Byte
      /\ \A i \in 3..6 : p[i] = b[i - 2]
  <2>1. Len(p) >= 6
    BY <1>1
  <2>2. Len(b) = 4 /\ b \in Seq(Byte) /\ \A i \in 1..4 : b[i] = p[i + 2]
    BY <2>1
  <2> HIDE DEF b
  <2>3. \A i \in 1..4 : b[i] \in Byte
    BY <2>2, ByteOf
  <2>4. \A i \in 3..6 : i - 2 \in 1..4 /\ (i - 2) + 2 = i
    OBVIOUS
  <2> QED
    BY <2>2, <2>3, <2>4
<1> HIDE DEF b
<1>5. n \in Nat /\ FitsU32(n) /\ \A i \in 1..4 : ToBeBytes(n)[i] = b[i]
  BY <1>4, FromToBytes
<1> HIDE DEF n
<1>7. ASSUME NEW i \in 1..d PROVE p[i] = Header(n)[i]
  <2>1. Header(n)[i] = IF i = 2 THEN PAYLOAD_ENCODING_VERSION_0
                       ELSE IF i \in 3..6 THEN ToBeBytes(n)[i - 2]
                       ELSE 0
    BY <1>1 DEF Header
  <2>2. CASE i \in 3..6
    <3>1. i - 2 \in 1..4 /\ i # 2
      BY <2>2
    <3> QED
      BY <1>4, <1>5, <2>1, <2>2, <3>1
  <2>3. CASE i \notin 3..6
    <3>1. i = 1 \/ i = 2 \/ i \in 7..d
      BY <1>1, <2>3
    <3> QED
      BY <1>2, <1>3, <2>1, <2>3, <3>1 DEF PAYLOAD_ENCODING_VERSION_0
  <2> QED
    BY <2>2, <2>3
<1> QED
  BY <1>5, <1>7 DEF ClaimedLen, n, b, d

-----------------------------------------------------------------------------
(***************************************************************************)
(* Encodings decode, and nothing else does.                                *)
(***************************************************************************)

LEMMA ZeroSuffix ==
    ASSUME NEW s \in Seq(Byte), NEW l \in Nat
    PROVE  AllZero(SubSeq(s, l + 1, Len(s))) <=> \A i \in (l + 1)..Len(s) : s[i] = 0
<1> DEFINE t == SubSeq(s, l + 1, Len(s))
<1>1. Len(s) \in Nat
  OBVIOUS
<1>2. CASE l >= Len(s)
  <2>1. t = << >> /\ (l + 1)..Len(s) = {}
    BY <1>1, <1>2
  <2> QED
    BY <2>1 DEF AllZero
<1>3. CASE l < Len(s)
  <2> DEFINE k == Len(s) - l
  <2>1. k \in Nat /\ DOMAIN t = 1..k /\ \A i \in 1..k : t[i] = s[l + i]
    BY <1>1, <1>3
  <2> HIDE DEF t
  <2>2. ASSUME AllZero(t), NEW i \in (l + 1)..Len(s) PROVE s[i] = 0
    <3>1. i - l \in 1..k /\ l + (i - l) = i
      BY <1>1
    <3> QED
      BY <2>1, <2>2, <3>1 DEF AllZero
  <2>3. ASSUME \A i \in (l + 1)..Len(s) : s[i] = 0 PROVE AllZero(t)
    <3>1. \A i \in 1..k : l + i \in (l + 1)..Len(s)
      BY <1>1
    <3> QED
      BY <2>1, <2>3, <3>1 DEF AllZero
  <2> QED
    BY <2>2, <2>3 DEF t
<1> QED
  BY <1>1, <1>2, <1>3

LEMMA DecodeUnfolds ==
    ASSUME NEW p
    PROVE  DecodeBytes(p) =
             IF LenError(p) # "none" THEN Err(LenError(p))
             ELSE IF HeaderError(p) # "none" THEN Err(HeaderError(p))
             ELSE IF ~ElementsPadded(Body(p)) THEN Err("InvalidFirstByteFieldElementPadding")
             ELSE IF Len(RemovePadding(Body(p))) < ClaimedLen(p)
                  THEN Err("DecodedPayloadBodyTooShort")
             ELSE IF ~AllZero(SubSeq(RemovePadding(Body(p)), ClaimedLen(p) + 1,
                                     Len(RemovePadding(Body(p)))))
                  THEN Err("InvalidEncodedPayloadBodyPadding")
             ELSE Ok(SubSeq(RemovePadding(Body(p)), 1, ClaimedLen(p)))
  BY Zenon DEF DecodeBytes, DecodePayload, Body

\* The decoder gives back what was encoded, for every size of a field element,
\* every payload whose length the header can hold and every blob that it fits
\* into, down to the empty payload and up to the last byte (decode).
THEOREM DecodeInvertsEncode ==
    ASSUME NEW data \in Seq(Byte), FitsU32(Len(data)),
           NEW n \in Nat, IsPowerOfTwo(n), n * BytesPerElement >= Len(Encode(data))
    PROVE  DecodeBytes(Blob(data, n * BytesPerElement)) = Ok(data)
<1> DEFINE d == BytesPerElement
           m == n - 1
           p == Blob(data, n * d)
           l == Len(data)
           c == Ceil(l, Run)
           body == Body(p)
           s == RemovePadding(body)
<1>0. n # 0
  BY DEF IsPowerOfTwo
<1>1. m \in Nat /\ m + 1 = n /\ l \in Nat
  BY <1>0
<1>2. d \in Nat \ {0} /\ Run \in Nat \ {0} /\ HeaderLen = d
  BY SizeFacts
<1> HIDE DEF m, l
<1>4. /\ n * d >= Len(Encode(data)) <=> c <= m
      /\ c <= m =>
           /\ p \in Seq(Byte) /\ Len(p) = n * d
           /\ \A i \in 1..d : p[i] = Header(l)[i]
           /\ \A q \in 0..(m - 1), t \in 0..Run : p[d + Position(q, t)] = Padded(data, q, t)
  BY <1>1, BlobFacts, Zenon DEF l
<1>5. /\ c <= m /\ p \in Seq(Byte) /\ Len(p) = n * d
      /\ \A i \in 1..d : p[i] = Header(l)[i]
      /\ \A q \in 0..(m - 1), t \in 0..Run : p[d + Position(q, t)] = Padded(data, q, t)
  BY <1>4, Zenon
<1> HIDE DEF p, c
<1>6. /\ body \in Seq(Byte) /\ Len(body) = m * d /\ m * d \in Nat
      /\ Len(p) = d + m * d /\ NumElements(p) = n /\ NumElements(body) = m
      /\ Len(p) % d = 0 /\ \A j \in 1..(m * d) : body[j] = p[d + j]
  <2>1. Len(p) = (m + 1) * d
    BY <1>1, <1>5
  <2> QED
    BY <1>1, <1>5, <2>1, BodyFacts, Zenon
<1> HIDE DEF body
<1>7. Len(p) >= d
  <2> DEFINE md == m * d
  <2>1. md \in Nat /\ Len(p) = d + md
    BY <1>6
  <2> HIDE DEF md
  <2> QED
    BY <1>2, <2>1
<1>8. LenError(p) = "none"
  <2>1. ~(Len(p) < HeaderLen)
    BY <1>2, <1>5, <1>7
  <2> QED
    BY <1>6, <2>1 DEF LenError
<1>9. HeaderError(p) = "none" /\ ClaimedLen(p) = l
  BY <1>1, <1>5, <1>7, HeaderDecodes, Zenon DEF l
<1>10. ASSUME NEW q \in 0..(m - 1), NEW t \in 0..Run
       PROVE  body[Position(q, t)] = Padded(data, q, t)
  <2>1. Position(q, t) \in 1..(m * d)
    BY <1>1, PositionFacts
  <2> QED
    BY <1>5, <1>6, <2>1, Zenon
<1>11. /\ ElementsPadded(body) <=> \A q \in 0..(m - 1) : body[Position(q, 0)] = 0
       /\ s \in Seq(Byte) /\ Len(s) = m * Run
       /\ \A q \in 0..(m - 1), t \in 1..Run : s[q * Run + t] = body[Position(q, t)]
  BY <1>1, <1>6, ElementFacts, Zenon
<1> HIDE DEF s
<1>12. ElementsPadded(body)
  <2>1. 0 \in 0..Run
    BY <1>2
  <2>2. \A q \in 0..(m - 1) : body[Position(q, 0)] = 0
    BY <1>10, <2>1 DEF Padded
  <2> QED
    BY <1>11, <2>2
<1>13. l <= m * Run /\ m * Run \in Nat
  <2>1. c \in Nat /\ l <= c * Run
    BY <1>1, CeilFacts DEF c
  <2>2. c * Run <= m * Run /\ c * Run \in Nat /\ m * Run \in Nat
    BY <1>1, <1>2, <1>5, <2>1, TimesLess
  <2> DEFINE cR == c * Run
             mR == m * Run
  <2>3. cR <= mR /\ cR \in Nat /\ mR \in Nat /\ l <= cR
    BY <2>1, <2>2
  <2> HIDE DEF cR, mR
  <2>4. l <= mR
    BY <1>1, <2>3
  <2> QED
    BY <2>3, <2>4 DEF mR
<1> DEFINE mR == m * Run
<1>14. ASSUME NEW i \in 1..mR
       PROVE  s[i] = IF i <= l THEN data[i] ELSE 0
  <2>1. PICK q \in 0..(m - 1), t \in 1..Run : i = q * Run + t
    BY <1>1, RunOf, Zenon
  <2>2. t \in 0..Run /\ t # 0
    BY <1>2
  <2>3. s[q * Run + t] = Padded(data, q, t)
    BY <1>10, <1>11, <2>2, Zenon
  <2> QED
    BY <2>1, <2>2, <2>3, Zenon DEF Padded, l
<1>15. mR \in Nat /\ l <= mR /\ Len(s) = mR
  BY <1>11, <1>13
<1> HIDE DEF mR
<1>16. AllZero(SubSeq(s, l + 1, Len(s)))
  <2>1. \A i \in (l + 1)..Len(s) : i \in 1..mR /\ ~(i <= l)
    BY <1>1, <1>15
  <2>2. \A i \in (l + 1)..Len(s) : s[i] = 0
    BY <1>14, <2>1
  <2> QED
    BY <1>1, <1>11, <2>2, ZeroSuffix
<1>17. SubSeq(s, 1, l) = data
  <2>1. /\ SubSeq(s, 1, l) \in Seq(Byte) /\ Len(SubSeq(s, 1, l)) = l
        /\ \A i \in 1..l : SubSeq(s, 1, l)[i] = s[i]
    BY <1>1, <1>11, <1>15
  <2>2. \A i \in 1..l : s[i] = data[i]
    BY <1>1, <1>14, <1>15
  <2> DEFINE u == SubSeq(s, 1, l)
  <2> HIDE DEF u
  <2> QED
    BY <1>1, <2>1, <2>2 DEF u, l
<1>18. ~(Len(s) < ClaimedLen(p))
  BY <1>1, <1>9, <1>15
<1>19. DecodeBytes(p) = Ok(SubSeq(s, 1, ClaimedLen(p)))
  BY <1>8, <1>9, <1>12, <1>16, <1>18, DecodeUnfolds, Zenon DEF s, body
<1> QED
  BY <1>9, <1>17, <1>19 DEF p

\* An input that decodes is, byte by byte, the blob of the result: of two blobs
\* of one size at most one decodes to a payload, and no byte is ignored
\* (decode).
THEOREM OnlyBlobsDecode ==
    ASSUME NEW p \in Seq(Byte), DecodeBytes(p).err = "none"
    PROVE  LET data == DecodeBytes(p).payload
               n == NumElements(p)
           IN  /\ data \in Seq(Byte) /\ FitsU32(Len(data))
               /\ n \in Nat /\ IsPowerOfTwo(n) /\ Len(p) = n * BytesPerElement
               /\ Len(p) >= Len(Encode(data)) /\ p = Blob(data, Len(p))
<1> DEFINE d == BytesPerElement
           n == NumElements(p)
           m == n - 1
           body == Body(p)
           s == RemovePadding(body)
           l == ClaimedLen(p)
           data == SubSeq(s, 1, l)
           c == Ceil(l, Run)
<1>1. d \in Nat \ {0} /\ Run \in Nat \ {0} /\ HeaderLen = d /\ Len(p) \in Nat
  BY SizeFacts
<1>2. \A e \in {"PayloadTooShortForHeader", "InvalidLength", "InvalidPowerOfTwoLength",
               "InvalidHeaderFirstByte", "UnknownEncodingVersion", "InvalidHeaderPadding",
               "InvalidFirstByteFieldElementPadding", "DecodedPayloadBodyTooShort",
               "InvalidEncodedPayloadBodyPadding"} : Err(e).err # "none"
  BY DEF Err
<1>3. LenError(p) \in {"none", "PayloadTooShortForHeader", "InvalidLength",
                       "InvalidPowerOfTwoLength"}
  BY DEF LenError
<1>4. HeaderError(p) \in {"none", "InvalidHeaderFirstByte", "UnknownEncodingVersion",
                          "InvalidHeaderPadding"}
  BY DEF HeaderError
<1> HIDE DEF body, s, l
<1>5. /\ LenError(p) = "none" /\ HeaderError(p) = "none" /\ ElementsPadded(body)
      /\ ~(Len(s) < l) /\ AllZero(SubSeq(s, l + 1, Len(s)))
      /\ DecodeBytes(p) = Ok(data)
  <2>1. DecodeBytes(p) =
             IF LenError(p) # "none" THEN Err(LenError(p))
             ELSE IF HeaderError(p) # "none" THEN Err(HeaderError(p))
             ELSE IF ~ElementsPadded(body) THEN Err("InvalidFirstByteFieldElementPadding")
             ELSE IF Len(s) < l THEN Err("DecodedPayloadBodyTooShort")
             ELSE IF ~AllZero(SubSeq(s, l + 1, Len(s)))
                  THEN Err("InvalidEncodedPayloadBodyPadding")
             ELSE Ok(data)
    BY DecodeUnfolds, Zenon DEF s, body, l
  <2> HIDE DEF data
  <2>2. LenError(p) = "none"
    BY <1>2, <1>3, <2>1
  <2>3. HeaderError(p) = "none"
    BY <1>2, <1>4, <2>1, <2>2
  <2>4. ElementsPadded(body)
    BY <1>2, <2>1, <2>2, <2>3
  <2>5. ~(Len(s) < l)
    BY <1>2, <2>1, <2>2, <2>3, <2>4
  <2>6. AllZero(SubSeq(s, l + 1, Len(s)))
    BY <1>2, <2>1, <2>2, <2>3, <2>4, <2>5
  <2> QED
    BY <2>1, <2>2, <2>3, <2>4, <2>5, <2>6
<1>6. DecodeBytes(p).payload = data
  <2> HIDE DEF data
  <2>1. Ok(data).payload = data
    BY DEF Ok
  <2> QED
    BY <1>5, <2>1
<1>7. Len(p) >= d /\ Len(p) % d = 0 /\ IsPowerOfTwo(n)
  BY <1>1, <1>5 DEF LenError
<1>8. n \in Nat /\ Len(p) = n * d
  <2>1. n \in Nat /\ Len(p) % d \in 0..(d - 1) /\ Len(p) = n * d + (Len(p) % d)
    BY <1>1, DivFacts, Zenon DEF NumElements
  <2> DEFINE nd == n * d
  <2> HIDE DEF n
  <2>2. nd \in Nat /\ Len(p) = nd + 0
    BY <1>1, <1>7, <2>1
  <2> HIDE DEF nd
  <2>3. Len(p) = nd
    BY <2>2
  <2> QED
    BY <2>1, <2>3 DEF nd
<1>9. n # 0
  BY <1>7 DEF IsPowerOfTwo
<1> HIDE DEF n
<1>10. m \in Nat /\ m + 1 = n
  BY <1>8, <1>9
<1> HIDE DEF m
<1>11. /\ body \in Seq(Byte) /\ Len(body) = m * d /\ m * d \in Nat
       /\ Len(p) = d + m * d /\ NumElements(body) = m
       /\ \A j \in 1..(m * d) : body[j] = p[d + j]
  <2>1. Len(p) = (m + 1) * d
    BY <1>8, <1>10
  <2> QED
    BY <1>10, <2>1, BodyFacts, Zenon DEF body
<1>12. /\ ElementsPadded(body) <=> \A q \in 0..(m - 1) : body[Position(q, 0)] = 0
       /\ s \in Seq(Byte) /\ Len(s) = m * Run
       /\ \A q \in 0..(m - 1), t \in 1..Run : s[q * Run + t] = body[Position(q, t)]
  BY <1>10, <1>11, ElementFacts, Zenon DEF s
<1>13. l \in Nat /\ FitsU32(l) /\ \A i \in 1..d : p[i] = Header(l)[i]
  BY <1>5, <1>7, OnlyHeaderDecodes, Zenon DEF l
<1> DEFINE mR == m * Run
<1>14. mR \in Nat /\ Len(s) = mR
  BY <1>1, <1>10, <1>12
<1> HIDE DEF mR
<1>15. l <= mR
  BY <1>5, <1>13, <1>14
<1>16. /\ data \in Seq(Byte) /\ Len(data) = l /\ \A i \in 1..l : data[i] = s[i]
  BY <1>12, <1>13, <1>14, <1>15
<1> HIDE DEF data
<1>17. \A i \in (l + 1)..Len(s) : s[i] = 0
  BY <1>5, <1>12, <1>13, ZeroSuffix
<1>18. c \in Nat /\ c <= m
  <2>1. l <= m * Run
    BY <1>15 DEF mR
  <2> QED
    BY <1>10, <1>13, <2>1, CeilFacts, Zenon
<1>19. ASSUME NEW q \in 0..(m - 1), NEW t \in 0..Run
       PROVE  p[d + Position(q, t)] = Padded(data, q, t)
  <2>1. Position(q, t) \in 1..(m * d)
    BY <1>10, PositionFacts
  <2>2. p[d + Position(q, t)] = body[Position(q, t)]
    BY <1>11, <2>1, Zenon
  <2>3. CASE t = 0
    <3>1. body[Position(q, 0)] = 0
      BY <1>5, <1>12
    <3> QED
      BY <2>2, <2>3, <3>1, Zenon DEF Padded
  <2>4. CASE t # 0
    <3> DEFINE i == q * Run + t
    <3>0. t \in 1..Run
      BY <1>1, <2>4
    <3>1. i \in 1..mR
      BY <1>10, <3>0, RunPosition DEF mR
    <3>2. s[i] = body[Position(q, t)]
      BY <1>12, <3>0, Zenon
    <3>3. Padded(data, q, t) = IF i <= l THEN data[i] ELSE 0
      BY <1>16, <2>4, Zenon DEF Padded
    <3> HIDE DEF i
    <3>4. s[i] = IF i <= l THEN data[i] ELSE 0
      <4>1. CASE i <= l
        <5>1. i \in 1..l
          BY <1>13, <1>14, <3>1, <4>1
        <5> QED
          BY <1>16, <4>1, <5>1
      <4>2. CASE ~(i <= l)
        <5>1. i \in (l + 1)..Len(s)
          BY <1>13, <1>14, <3>1, <4>2
        <5> QED
          BY <1>17, <4>2, <5>1
      <4> QED
        BY <4>1, <4>2
    <3> QED
      BY <2>2, <3>2, <3>3, <3>4, Zenon
  <2> QED
    BY <2>3, <2>4
<1> DEFINE b == Blob(data, (m + 1) * d)
<1>20. /\ (m + 1) * d >= Len(Encode(data)) <=> c <= m
       /\ c <= m =>
            /\ b \in Seq(Byte) /\ Len(b) = (m + 1) * d
            /\ \A i \in 1..d : b[i] = Header(l)[i]
            /\ \A q \in 0..(m - 1), t \in 0..Run : b[d + Position(q, t)] = Padded(data, q, t)
  <2>1. FitsU32(Len(data))
    BY <1>13, <1>16
  <2>2. LET k == Ceil(Len(data), Run)
        IN  /\ (m + 1) * d >= Len(Encode(data)) <=> k <= m
            /\ k <= m =>
                 /\ b \in Seq(Byte) /\ Len(b) = (m + 1) * d
                 /\ \A i \in 1..d : b[i] = Header(Len(data))[i]
                 /\ \A q \in 0..(m - 1), t \in 0..Run :
                      b[d + Position(q, t)] = Padded(data, q, t)
    BY <1>10, <1>16, <2>1, BlobFacts, Zenon
  <2> QED
    BY <1>16, <2>2, Zenon
<1>21. (m + 1) * d = Len(p)
  BY <1>8, <1>10
<1> HIDE DEF b, c
<1>22. /\ Len(p) >= Len(Encode(data)) /\ b \in Seq(Byte) /\ Len(b) = Len(p)
       /\ \A i \in 1..d : b[i] = Header(l)[i]
       /\ \A q \in 0..(m - 1), t \in 0..Run : b[d + Position(q, t)] = Padded(data, q, t)
  BY <1>18, <1>20, <1>21, Zenon
<1> DEFINE md == m * d
<1>23. md \in Nat /\ Len(p) = d + md
  BY <1>11
<1>24. ASSUME NEW i \in 1..Len(p) PROVE p[i] = b[i]
  <2>1. CASE i <= d
    <3>1. i \in 1..d
      BY <1>1, <2>1
    <3> QED
      BY <1>13, <1>22, <3>1
  <2>2. CASE i > d
    <3> DEFINE j == i - d
    <3>1. j \in 1..md /\ i = d + j
      <4> HIDE DEF md
      <4> QED
        BY <1>1, <1>23, <2>2
    <3> HIDE DEF j
    <3>2. PICK q \in 0..(m - 1), t \in 0..Run : j = Position(q, t)
      BY <1>10, <3>1, PositionOf, Zenon
    <3> QED
      BY <1>19, <1>22, <3>1, <3>2, Zenon
  <2> QED
    BY <1>1, <2>1, <2>2
<1>25. p = b
  BY <1>22, <1>24
<1> QED
  BY <1>6, <1>7, <1>8, <1>13, <1>16, <1>21, <1>22, <1>25, Zenon DEF b, n

-----------------------------------------------------------------------------
(***************************************************************************)
(* One call of decode.                                                     *)
(***************************************************************************)

\* What is decoded is an input or the blob of an encoding, and the result is
\* that of the decoder.
CodecInv ==
    /\ \/ encoded_payload \in Inputs /\ source = {}
       \/ \E d \in RollupData, n \in BlobSizes :
            n >= Len(Encode(d)) /\ encoded_payload = Blob(d, n) /\ source = {d}
    /\ result = Pending \/ result = DecodeBytes(encoded_payload)

LEMMA CodecInvHolds == CodecSpec => []CodecInv
<1>1. CodecInit => CodecInv
  BY DEF CodecInit, CodecInv
<1>2. CodecInv /\ [CodecNext]_codec_vars => CodecInv'
  BY DEF CodecInv, CodecNext, DecodeCall, CodecDone, codec_vars
<1> QED
  BY <1>1, <1>2, PTL DEF CodecSpec

LEMMA BlobSize ==
    ASSUME NEW n \in BlobSizes
    PROVE  \E k \in Nat : /\ n = k * BytesPerElement /\ IsPowerOfTwo(k)
                          /\ k <= TwoTo(MaxExponent)[MaxExponent]
<1> DEFINE two == TwoTo(MaxExponent)
<1>0. MaxExponent \in Nat
  BY CodecAssumption
<1>1. PICK j \in 0..MaxExponent : n = two[j] * BytesPerElement
  BY DEF BlobSizes
<1>2. two[j] \in Nat
  BY <1>0, TwoToSteps
<1>3. two[j] <= two[MaxExponent]
  BY <1>0, TwoToLast
<1>4. IsPowerOfTwo(two[j])
  BY <1>0, <1>2, <1>3, PowerOfTwo
<1> QED
  BY <1>1, <1>2, <1>3, <1>4

\* Every blob of every encoding decodes to what was encoded, for every size of
\* an element and of a blob and every payload (decode).
THEOREM EncodingsDecodeTheorem == CodecSpec => []EncodingsDecode
<1>1. CodecInv => EncodingsDecode
  <2> SUFFICES ASSUME CodecInv, NEW data \in source, result # Pending
               PROVE  result = Ok(data)
    BY DEF EncodingsDecode
  <2>1. PICK d \in RollupData, n \in BlobSizes :
          n >= Len(Encode(d)) /\ encoded_payload = Blob(d, n) /\ source = {d}
    BY DEF CodecInv
  <2>2. PICK k \in Nat : n = k * BytesPerElement /\ IsPowerOfTwo(k)
    BY BlobSize
  <2>3. d \in Seq(Byte) /\ FitsU32(Len(d))
    BY CodecAssumption
  <2>4. DecodeBytes(Blob(d, k * BytesPerElement)) = Ok(d)
    <3>1. k * BytesPerElement >= Len(Encode(d))
      BY <2>1, <2>2
    <3> QED
      BY <2>2, <2>3, <3>1, DecodeInvertsEncode, Zenon
  <2>5. result = DecodeBytes(encoded_payload) /\ data = d
    BY <2>1 DEF CodecInv
  <2> QED
    BY <2>1, <2>2, <2>4, <2>5, Zenon
<1> QED
  BY <1>1, CodecInvHolds, PTL

\* Only encodings decode: an accepted input is the blob of the result, byte by
\* byte, for every input (decode).
THEOREM OnlyEncodingsDecodeTheorem == CodecSpec => []OnlyEncodingsDecode
<1>1. CodecInv => OnlyEncodingsDecode
  <2> SUFFICES ASSUME CodecInv, result.err = "none"
               PROVE  /\ Len(encoded_payload) \in BlobSizes
                      /\ Len(encoded_payload) >= Len(Encode(result.payload))
                      /\ encoded_payload = Blob(result.payload, Len(encoded_payload))
    BY DEF OnlyEncodingsDecode
  <2> DEFINE p == encoded_payload
             two == TwoTo(MaxExponent)
             last == two[MaxExponent]
             N == NumElements(p)
  <2>0. MaxExponent \in Nat /\ BytesPerElement \in Nat \ {0}
    BY CodecAssumption
  <2>1. result = DecodeBytes(p)
    BY DEF CodecInv, Pending, Err
  <2>2. last \in Nat
    BY <2>0, TwoToSteps
  <2>3. p \in Seq(Byte) /\ Len(p) <= last * BytesPerElement
    <3>1. CASE p \in Inputs
      BY <3>1, CodecAssumption
    <3>2. CASE p \notin Inputs
      <4>1. PICK d \in RollupData, n \in BlobSizes : n >= Len(Encode(d)) /\ p = Blob(d, n)
        BY <3>2 DEF CodecInv
      <4>2. PICK k \in Nat : n = k * BytesPerElement /\ IsPowerOfTwo(k) /\ k <= last
        BY BlobSize
      <4>3. d \in Seq(Byte) /\ FitsU32(Len(d)) /\ k # 0
        BY <4>2, CodecAssumption DEF IsPowerOfTwo
      <4>4. PICK m \in Nat : k = m + 1
        <5>1. k - 1 \in Nat /\ k = (k - 1) + 1
          BY <4>3
        <5> QED
          BY <5>1
      <4> DEFINE c == Ceil(Len(d), Run)
                 b == Blob(d, (m + 1) * BytesPerElement)
      <4>5. /\ (m + 1) * BytesPerElement >= Len(Encode(d)) <=> c <= m
            /\ c <= m => b \in Seq(Byte) /\ Len(b) = (m + 1) * BytesPerElement
        BY <4>3, <4>4, BlobFacts, Zenon
      <4> HIDE DEF b, c
      <4>6. p = b /\ n = (m + 1) * BytesPerElement
        BY <4>1, <4>2, <4>4, Zenon DEF b
      <4>7. p \in Seq(Byte) /\ Len(p) = k * BytesPerElement
        BY <4>1, <4>4, <4>5, <4>6, Zenon
      <4>8. k * BytesPerElement <= last * BytesPerElement
        BY <2>0, <2>2, <4>2, TimesLess
      <4> QED
        BY <4>7, <4>8
    <3> QED
      BY <3>1, <3>2
  <2> HIDE DEF p, last
  <2>4. /\ N \in Nat /\ IsPowerOfTwo(N) /\ Len(p) = N * BytesPerElement
        /\ Len(p) >= Len(Encode(result.payload)) /\ p = Blob(result.payload, Len(p))
    <3>1. DecodeBytes(p).err = "none"
      BY <2>1
    <3>2. LET data == DecodeBytes(p).payload
          IN  /\ N \in Nat /\ IsPowerOfTwo(N) /\ Len(p) = N * BytesPerElement
              /\ Len(p) >= Len(Encode(data)) /\ p = Blob(data, Len(p))
      BY <2>3, <3>1, OnlyBlobsDecode, Zenon
    <3> QED
      BY <2>1, <3>2, Zenon
  <2> HIDE DEF N
  <2>5. N <= last
    <3> DEFINE z == 0
    <3>1. z \in Nat /\ z \in 0..(BytesPerElement - 1)
          /\ N * BytesPerElement + z <= last * BytesPerElement + z
      BY <2>0, <2>2, <2>3, <2>4
    <3> HIDE DEF z
    <3> QED
      BY <2>0, <2>2, <2>4, <3>1, QuotientBound, Zenon
  <2>6. PICK j \in 0..MaxExponent : two[j] = N
    BY <2>0, <2>4, <2>5, PowerOfTwo DEF last
  <2>7. Len(p) \in BlobSizes
    BY <2>4, <2>6 DEF BlobSizes
  <2> QED
    BY <2>4, <2>7 DEF p
<1> QED
  BY <1>1, CodecInvHolds, PTL

================================================================================
