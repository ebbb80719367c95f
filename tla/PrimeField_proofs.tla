------------------------- MODULE PrimeField_proofs -------------------------
(***************************************************************************)
(* The algebra of the scalar field, for every prime P: congruences,        *)
(* recursive sums, products and powers, polynomials and their roots, and   *)
(* that Inv inverts.                                                       *)
(***************************************************************************)
EXTENDS PrimeField, FiniteSetTheorems, WellFoundedInduction, TLAPS

LEMMA FieldFacts ==
    /\ P \in Nat \ {0} /\ P - 2 \in Nat /\ P > 2 /\ P \in Int
    /\ Fr \subseteq Int /\ Fr \subseteq Nat
    /\ 0 \in Fr /\ 1 \in Fr
  BY PrimeAssumption DEF Fr

-----------------------------------------------------------------------------
(***************************************************************************)
(* Congruence modulo P.                                                    *)
(***************************************************************************)

LEMMA DivMod ==
    ASSUME NEW a \in Int
    PROVE  a % P \in Fr /\ \E k \in Int : a = k * P + (a % P)
<1>1. P \in Nat \ {0}
  BY FieldFacts
<1>2. a % P \in Fr /\ a \div P \in Int /\ a = (a \div P) * P + (a % P)
  BY <1>1 DEF Fr
<1> QED
  BY <1>2

LEMMA RemainderUnique ==
    ASSUME NEW k \in Int, NEW r \in Fr, NEW m \in Int, NEW s \in Fr,
           k * P + r = m * P + s
    PROVE  r = s
<1>1. P \in Nat \ {0} /\ r \in 0..(P - 1) /\ s \in 0..(P - 1)
  BY FieldFacts DEF Fr
<1>2. (k - m) * P = s - r /\ (m - k) * P = r - s
  BY <1>1
<1>3. CASE k > m
  <2> DEFINE d == k - m
  <2>1. d >= 1 /\ d * P = s - r /\ d \in Int
    BY <1>2, <1>3
  <2> HIDE DEF d
  <2>2. d * P >= P
    BY <1>1, <2>1
  <2> QED
    BY <1>1, <2>1, <2>2
<1>4. CASE k < m
  <2> DEFINE d == m - k
  <2>1. d >= 1 /\ d * P = r - s /\ d \in Int
    BY <1>2, <1>4
  <2> HIDE DEF d
  <2>2. d * P >= P
    BY <1>1, <2>1
  <2> QED
    BY <1>1, <2>1, <2>2
<1>5. CASE k = m
  BY <1>1, <1>2, <1>5
<1> QED
  BY <1>3, <1>4, <1>5

\* The difference is a multiple of P.
Cong(a, b) == \E k \in Int : a = b + k * P

LEMMA CongIsRemainder ==
    ASSUME NEW a \in Int, NEW b \in Int
    PROVE  Cong(a, b) <=> a % P = b % P
<1> DEFINE r == a % P
           s == b % P
<1>0. P \in Int
  BY FieldFacts
<1>1. PICK k \in Int : a = k * P + r
  BY DivMod
<1>2. PICK m \in Int : b = m * P + s
  BY DivMod
<1>3. r \in Fr /\ s \in Fr /\ r \in Int /\ s \in Int
  BY DivMod, FieldFacts
<1> HIDE DEF r, s
<1>4. ASSUME Cong(a, b) PROVE r = s
  <2>1. PICK j \in Int : a = b + j * P
    BY <1>4 DEF Cong
  <2>2. k * P + r = (m + j) * P + s /\ m + j \in Int
    BY <1>0, <1>1, <1>2, <1>3, <2>1
  <2> QED
    BY <1>3, <2>2, RemainderUnique
<1>5. ASSUME r = s PROVE Cong(a, b)
  <2>1. a = b + (k - m) * P /\ k - m \in Int
    BY <1>0, <1>1, <1>2, <1>3, <1>5
  <2> QED
    BY <2>1 DEF Cong
<1> QED
  BY <1>4, <1>5 DEF r, s

LEMMA CongRemainder ==
    ASSUME NEW a \in Int
    PROVE  Cong(a % P, a) /\ a % P \in Int
<1> DEFINE r == a % P
<1>1. r \in Int /\ P \in Int
  BY DivMod, FieldFacts
<1>2. PICK k \in Int : a = k * P + r
  BY DivMod
<1> HIDE DEF r
<1>3. r = a + (-k) * P /\ -k \in Int
  BY <1>1, <1>2
<1>4. Cong(r, a)
  BY <1>3 DEF Cong
<1> QED
  BY <1>1, <1>4 DEF r

LEMMA CongAdd ==
    ASSUME NEW a \in Int, NEW b \in Int, NEW c \in Int, NEW d \in Int,
           Cong(a, b), Cong(c, d)
    PROVE  Cong(a + c, b + d)
<1>0. P \in Int
  BY FieldFacts
<1>1. PICK k \in Int : a = b + k * P
  BY DEF Cong
<1>2. PICK m \in Int : c = d + m * P
  BY DEF Cong
<1>3. a + c = (b + d) + (k + m) * P /\ k + m \in Int
  BY <1>0, <1>1, <1>2
<1> QED
  BY <1>3 DEF Cong

LEMMA CongMultiply ==
    ASSUME NEW a \in Int, NEW b \in Int, NEW c \in Int, Cong(a, b)
    PROVE  Cong(a * c, b * c) /\ Cong(c * a, c * b)
<1>0. P \in Int
  BY FieldFacts
<1>1. PICK k \in Int : a = b + k * P
  BY DEF Cong
<1>2. /\ k * c \in Int
      /\ a * c = b * c + (k * c) * P
      /\ c * a = c * b + (k * c) * P
  BY <1>0, <1>1
<1> QED
  BY <1>2 DEF Cong

LEMMA CongSymmetric ==
    ASSUME NEW a \in Int, NEW b \in Int, Cong(a, b)
    PROVE  Cong(b, a)
  BY CongIsRemainder

LEMMA CongJoin ==
    ASSUME NEW a \in Int, NEW b \in Int, NEW c \in Int, Cong(a, c), Cong(b, c)
    PROVE  Cong(a, b)
<1>1. a % P = c % P /\ b % P = c % P
  BY CongIsRemainder
<1>2. a % P = b % P
  BY <1>1
<1> QED
  BY <1>2, CongIsRemainder

-----------------------------------------------------------------------------
(***************************************************************************)
(* Recursive functions over numbers.                                       *)
(***************************************************************************)

\* Every inhabited set of numbers has a least element: what the proofs use in
\* place of an induction over the length of a sequence.
LEMMA LeastNatural ==
    ASSUME NEW T \in SUBSET Nat, T # {}
    PROVE  \E n \in T : \A m \in T : n <= m
<1> DEFINE R == OpToRel(<, Nat)
<1>1. IsWellFoundedOn(R, Nat)
  BY NatLessThanWellFounded
<1>2. \A x, y \in Nat : x < y => <<x, y>> \in R
  BY DEF OpToRel
<1> HIDE DEF R
<1>3. PICK n \in T : \A y \in T : ~ (<<y, n>> \in R)
  BY <1>1, WFMin, Zenon
<1>4. ASSUME NEW m \in T PROVE n <= m
  <2>1. m \in Nat /\ n \in Nat
    OBVIOUS
  <2>2. ~ (m < n)
    BY <1>2, <1>3, <2>1
  <2> QED
    BY <2>1, <2>2
<1> QED
  BY <1>4

\* Induction up to a bound, for a property given as a set of numbers.
LEMMA InductionUpTo ==
    ASSUME NEW N \in Nat, NEW S, 0 \in S,
           \A n \in 0..(N - 1) : n \in S => n + 1 \in S
    PROVE  0..N \subseteq S
<1> DEFINE T == (0..N) \ S
<1> SUFFICES ASSUME T # {} PROVE FALSE
  OBVIOUS
<1>1. T \in SUBSET Nat
  OBVIOUS
<1>2. PICK n \in T : \A m \in T : n <= m
  BY <1>1, LeastNatural
<1>3. n \in 0..N /\ n \notin S /\ n # 0
  OBVIOUS
<1>4. n - 1 \in 0..(N - 1) /\ n - 1 \notin T
  BY <1>2, <1>3
<1> QED
  BY <1>3, <1>4

\* A recursive function of the numbers up to m, the step given as a function.
Recursive(f, m, base, step) ==
    /\ f \in [0..m -> Int]
    /\ f[0] = base
    /\ \A n \in 1..m : f[n] = step[<<f[n - 1], n>>]

LEMMA Recursion ==
    ASSUME NEW N \in Nat, NEW base \in Int, NEW step \in [Int \X (1..N) -> Int]
    PROVE  \E f : Recursive(f, N, base, step)
<1> USE DEF Recursive
<1> DEFINE Rec(f, m) == Recursive(f, m, base, step)
           Good == {m \in Nat : \E f : Rec(f, m)}
<1>1. 0 \in Good
  <2>1. Rec([n \in 0..0 |-> base], 0)
    OBVIOUS
  <2> QED
    BY <2>1
<1>2. ASSUME NEW m \in 0..(N - 1), m \in Good
      PROVE  m + 1 \in Good
  <2>1. PICK f : Rec(f, m)
    BY <1>2
  <2> DEFINE y == step[<<f[m], m + 1>>]
             g == [n \in 0..(m + 1) |-> IF n = m + 1 THEN y ELSE f[n]]
  <2>2. y \in Int /\ m \in Nat
    BY <2>1
  <2>3. \A n \in 0..m : g[n] = f[n]
    BY <2>2
  <2>4. g[m + 1] = y /\ g[m] = f[m] /\ g[0] = f[0]
    BY <2>2, <2>3
  <2>5. g \in [0..(m + 1) -> Int]
    BY <2>1, <2>2
  <2> HIDE DEF g
  <2>6. ASSUME NEW n \in 1..(m + 1) PROVE g[n] = step[<<g[n - 1], n>>]
    <3>1. CASE n = m + 1
      <4>1. n - 1 = m
        BY <2>2, <3>1
      <4> QED
        BY <2>4, <3>1, <4>1
    <3>2. CASE n # m + 1
      <4>1. n \in 1..m /\ n \in 0..m /\ n - 1 \in 0..m
        BY <2>2, <3>2
      <4>2. f[n] = step[<<f[n - 1], n>>]
        BY <2>1, <4>1
      <4> QED
        BY <2>3, <4>1, <4>2
    <3> QED
      BY <3>1, <3>2
  <2>7. Rec(g, m + 1)
    BY <2>1, <2>4, <2>5, <2>6
  <2> HIDE DEF Rec
  <2> QED
    BY <2>2, <2>7
<1>3. N \in Good
  <2> HIDE DEF Good
  <2>1. 0..N \subseteq Good
    BY <1>1, <1>2, InductionUpTo
  <2> QED
    BY <2>1
<1> QED
  BY <1>3

\* The table of the powers of x.
LEMMA PowerTable ==
    ASSUME NEW x \in Int, NEW n \in Nat
    PROVE  \E pow : /\ pow \in [0..n -> Fr] /\ pow[0] = 1 /\ Power(x, n) = pow[n]
                    /\ \A k \in 1..n : pow[k] = (pow[k - 1] * x) % P
<1> DEFINE Rec(f) == f = [k \in 0..n |-> IF k = 0 THEN 1 ELSE (f[k - 1] * x) % P]
           pow == CHOOSE f : Rec(f)
           step == [p \in Int \X (1..n) |-> (p[1] * x) % P]
<1>1. \A a \in Int : (a * x) % P \in Int
  BY CongRemainder
<1>2. step \in [Int \X (1..n) -> Int]
  BY <1>1
<1>3. \E f : Rec(f)
  <2> HIDE DEF step
  <2>0. PICK f : Recursive(f, n, 1, step)
    BY <1>2, Recursion
  <2>1. /\ f \in [0..n -> Int] /\ f[0] = 1
        /\ \A k \in 1..n : f[k] = step[<<f[k - 1], k>>]
    BY <2>0 DEF Recursive
  <2>2. ASSUME NEW k \in 0..n
        PROVE  f[k] = IF k = 0 THEN 1 ELSE (f[k - 1] * x) % P
    <3>1. CASE k # 0
      <4>1. k \in 1..n /\ k - 1 \in 0..n /\ f[k - 1] \in Int
        BY <2>1, <3>1
      <4>2. step[<<f[k - 1], k>>] = (f[k - 1] * x) % P
        BY <4>1 DEF step
      <4> QED
        BY <2>1, <3>1, <4>1, <4>2
    <3> QED
      BY <2>1, <3>1
  <2>3. Rec(f)
    BY <2>1, <2>2
  <2> QED
    BY <2>3
<1>4. Rec(pow)
  <2> HIDE DEF Rec
  <2> QED
    BY <1>3
<1>5. Power(x, n) = pow[n]
  BY Zenon DEF Power
<1> HIDE DEF pow
<1>6. pow[0] = 1 /\ \A k \in 1..n : pow[k] = (pow[k - 1] * x) % P
  BY <1>4
<1> DEFINE S == {k \in 0..n : pow[k] \in Fr}
<1>7. 0 \in S
  BY <1>6, FieldFacts
<1>8. ASSUME NEW k \in 0..(n - 1), k \in S
      PROVE  k + 1 \in S
  <2>1. k + 1 \in 0..n /\ k + 1 \in 1..n /\ (k + 1) - 1 = k
    OBVIOUS
  <2>2. pow[k + 1] = (pow[k] * x) % P
    BY <1>6, <2>1
  <2>3. pow[k] \in Int
    BY <1>8, FieldFacts
  <2>4. pow[k] * x \in Int
    BY <2>3
  <2> DEFINE a == pow[k] * x
  <2> HIDE DEF a
  <2>5. a % P \in Fr
    BY <2>4, DivMod DEF a
  <2> QED
    BY <2>1, <2>2, <2>5 DEF a
<1>9. 0..n \subseteq S
  <2> HIDE DEF S
  <2> QED
    BY <1>7, <1>8, InductionUpTo
<1>10. pow \in [0..n -> Fr]
  <2>1. pow = [k \in 0..n |-> pow[k]]
    BY <1>4
  <2> HIDE DEF Rec
  <2> QED
    BY <1>9, <2>1
<1> QED
  BY <1>5, <1>6, <1>10

\* Power is the function its recursion says.
LEMMA PowerSteps ==
    ASSUME NEW x \in Int, NEW n \in Nat
    PROVE  /\ Power(x, 0) = 1
           /\ Power(x, n) \in Fr /\ Power(x, n) \in Int
           /\ Power(x, n + 1) = (Power(x, n) * x) % P
<1>0. 0 \in Nat /\ n + 1 \in Nat
  OBVIOUS
<1>1. Power(x, 0) = 1
  BY <1>0, PowerTable
<1>2. PICK f : /\ f \in [0..n -> Fr] /\ f[0] = 1 /\ Power(x, n) = f[n]
               /\ \A k \in 1..n : f[k] = (f[k - 1] * x) % P
  BY PowerTable
<1>3. PICK g : /\ g \in [0..(n + 1) -> Fr] /\ g[0] = 1 /\ Power(x, n + 1) = g[n + 1]
               /\ \A k \in 1..(n + 1) : g[k] = (g[k - 1] * x) % P
  BY <1>0, PowerTable
<1> DEFINE S == {k \in 0..n : f[k] = g[k]}
<1>4. 0 \in S
  BY <1>2, <1>3
<1>5. ASSUME NEW k \in 0..(n - 1), k \in S
      PROVE  k + 1 \in S
  <2>1. k + 1 \in 1..n /\ k + 1 \in 1..(n + 1) /\ k + 1 \in 0..n /\ (k + 1) - 1 = k
    OBVIOUS
  <2>2. f[k + 1] = (f[k] * x) % P /\ g[k + 1] = (g[k] * x) % P
    BY <1>2, <1>3, <2>1
  <2> QED
    BY <1>5, <2>1, <2>2
<1>6. 0..n \subseteq S
  <2> HIDE DEF S
  <2> QED
    BY <1>4, <1>5, InductionUpTo
<1>7. f[n] = g[n]
  BY <1>6
<1>8. g[n + 1] = (g[n] * x) % P
  <2>1. n + 1 \in 1..(n + 1) /\ (n + 1) - 1 = n
    OBVIOUS
  <2> QED
    BY <1>3, <2>1
<1>9. f[n] \in Fr
  BY <1>2
<1> QED
  BY <1>1, <1>2, <1>3, <1>7, <1>8, <1>9, FieldFacts

LEMMA PowerType ==
    ASSUME NEW x \in Int, NEW n \in Nat
    PROVE  Power(x, n) \in Int /\ Power(x, n) \in Fr
  BY PowerSteps

LEMMA InvType ==
    ASSUME NEW x \in Int
    PROVE  Inv(x) \in Int /\ Inv(x) \in Fr
  BY PowerType, FieldFacts DEF Inv

\* The partial sums of a sequence of integers.
LEMMA SumSteps ==
    ASSUME NEW n \in Nat, NEW s \in [1..n -> Int]
    PROVE  /\ SumUpTo(s) \in [0..n -> Int]
           /\ SumUpTo(s)[0] = 0
           /\ \A k \in 1..n : SumUpTo(s)[k] = SumUpTo(s)[k - 1] + s[k]
           /\ SumOf(s) = SumUpTo(s)[n]
<1> DEFINE Rec(f) == f = [k \in 0..Len(s) |-> IF k = 0 THEN 0 ELSE f[k - 1] + s[k]]
           sum == SumUpTo(s)
           step == [p \in Int \X (1..n) |-> p[1] + s[p[2]]]
<1>1. Len(s) = n
  OBVIOUS
<1>2. step \in [Int \X (1..n) -> Int]
  OBVIOUS
<1>3. \E f : Rec(f)
  <2> HIDE DEF step
  <2>0. PICK f : Recursive(f, n, 0, step)
    <3>1. 0 \in Int
      OBVIOUS
    <3> QED
      BY <1>2, <3>1, Recursion, Zenon
  <2>1. /\ f \in [0..n -> Int] /\ f[0] = 0
        /\ \A k \in 1..n : f[k] = step[<<f[k - 1], k>>]
    BY <2>0 DEF Recursive
  <2>2. ASSUME NEW k \in 0..n
        PROVE  f[k] = IF k = 0 THEN 0 ELSE f[k - 1] + s[k]
    <3>1. CASE k # 0
      <4>1. k \in 1..n /\ k - 1 \in 0..n /\ f[k - 1] \in Int
        BY <2>1, <3>1
      <4>2. step[<<f[k - 1], k>>] = f[k - 1] + s[k]
        BY <4>1 DEF step
      <4> QED
        BY <2>1, <3>1, <4>1, <4>2
    <3> QED
      BY <2>1, <3>1
  <2>3. Rec(f)
    BY <1>1, <2>1, <2>2
  <2> QED
    BY <2>3
<1>4. Rec(sum)
  BY <1>3 DEF SumUpTo
<1> HIDE DEF sum
<1> DEFINE S == {k \in 0..n : sum[k] \in Int}
<1>5. /\ sum[0] = 0
      /\ \A k \in 1..n : sum[k] = sum[k - 1] + s[k]
  BY <1>1, <1>4
<1>6. 0 \in S
  BY <1>5
<1>7. ASSUME NEW k \in 0..(n - 1), k \in S
      PROVE  k + 1 \in S
  <2>1. k + 1 \in 1..n /\ k + 1 \in 0..n /\ (k + 1) - 1 = k /\ s[k + 1] \in Int
    OBVIOUS
  <2>2. sum[k + 1] = sum[k] + s[k + 1]
    BY <1>5, <2>1
  <2> QED
    BY <1>7, <2>1, <2>2
<1>8. 0..n \subseteq S
  <2> HIDE DEF S
  <2> QED
    BY <1>6, <1>7, InductionUpTo
<1>9. sum \in [0..n -> Int]
  <2>1. sum = [k \in 0..n |-> sum[k]]
    BY <1>1, <1>4
  <2> HIDE DEF Rec
  <2> QED
    BY <1>8, <2>1
<1>10. SumOf(s) = sum[n]
  BY <1>1 DEF SumOf, sum
<1> QED
  BY <1>5, <1>9, <1>10 DEF sum

LEMMA SumType ==
    ASSUME NEW n \in Nat, NEW s \in [1..n -> Int]
    PROVE  SumOf(s) \in Int
<1>1. SumUpTo(s) \in [0..n -> Int] /\ SumOf(s) = SumUpTo(s)[n]
  BY SumSteps
<1> QED
  BY <1>1

LEMMA ProductSteps ==
    ASSUME NEW n \in Nat, NEW s \in [1..n -> Int]
    PROVE  /\ ProductUpTo(s) \in [0..n -> Fr]
           /\ ProductUpTo(s)[0] = 1
           /\ \A k \in 1..n : ProductUpTo(s)[k] = (ProductUpTo(s)[k - 1] * s[k]) % P
           /\ ProductOf(s) = ProductUpTo(s)[n]
<1> DEFINE Rec(f) == f = [k \in 0..Len(s) |-> IF k = 0 THEN 1 ELSE (f[k - 1] * s[k]) % P]
           product == ProductUpTo(s)
           step == [p \in Int \X (1..n) |-> (p[1] * s[p[2]]) % P]
<1>1. Len(s) = n
  OBVIOUS
<1>0. \A a \in Int, k \in 1..n : (a * s[k]) % P \in Fr
  <2> SUFFICES ASSUME NEW a \in Int, NEW k \in 1..n PROVE (a * s[k]) % P \in Fr
    OBVIOUS
  <2> DEFINE b == a * s[k]
  <2>1. b \in Int
    OBVIOUS
  <2> HIDE DEF b
  <2>2. b % P \in Fr
    BY <2>1, DivMod
  <2> QED
    BY <2>2 DEF b
<1>2. step \in [Int \X (1..n) -> Int]
  BY <1>0, FieldFacts
<1>3. \E f : Rec(f)
  <2> HIDE DEF step
  <2>0. PICK f : Recursive(f, n, 1, step)
    <3>1. 1 \in Int
      OBVIOUS
    <3> QED
      BY <1>2, <3>1, Recursion, Zenon
  <2>1. /\ f \in [0..n -> Int] /\ f[0] = 1
        /\ \A k \in 1..n : f[k] = step[<<f[k - 1], k>>]
    BY <2>0 DEF Recursive
  <2>2. ASSUME NEW k \in 0..n
        PROVE  f[k] = IF k = 0 THEN 1 ELSE (f[k - 1] * s[k]) % P
    <3>1. CASE k # 0
      <4>1. k \in 1..n /\ k - 1 \in 0..n /\ f[k - 1] \in Int
        BY <2>1, <3>1
      <4>2. step[<<f[k - 1], k>>] = (f[k - 1] * s[k]) % P
        BY <4>1 DEF step
      <4> QED
        BY <2>1, <3>1, <4>1, <4>2
    <3> QED
      BY <2>1, <3>1
  <2>3. Rec(f)
    BY <1>1, <2>1, <2>2
  <2> QED
    BY <2>3
<1>4. Rec(product)
  BY <1>3 DEF ProductUpTo
<1> HIDE DEF product
<1> DEFINE S == {k \in 0..n : product[k] \in Fr}
<1>5. /\ product[0] = 1
      /\ \A k \in 1..n : product[k] = (product[k - 1] * s[k]) % P
  BY <1>1, <1>4
<1>6. 0 \in S
  BY <1>5, FieldFacts
<1>7. ASSUME NEW k \in 0..(n - 1), k \in S
      PROVE  k + 1 \in S
  <2>1. k + 1 \in 1..n /\ k + 1 \in 0..n /\ (k + 1) - 1 = k /\ s[k + 1] \in Int
    OBVIOUS
  <2>2. product[k + 1] = (product[k] * s[k + 1]) % P
    BY <1>5, <2>1
  <2>3. product[k] \in Int
    BY <1>7, FieldFacts
  <2> QED
    BY <1>0, <2>1, <2>2, <2>3
<1>8. 0..n \subseteq S
  <2> HIDE DEF S
  <2> QED
    BY <1>6, <1>7, InductionUpTo
<1>9. product \in [0..n -> Fr]
  <2>1. product = [k \in 0..n |-> product[k]]
    BY <1>1, <1>4
  <2> HIDE DEF Rec
  <2> QED
    BY <1>8, <2>1
<1>10. ProductOf(s) = product[n]
  BY <1>1 DEF ProductOf, product
<1> QED
  BY <1>5, <1>9, <1>10 DEF product

LEMMA ProductType ==
    ASSUME NEW n \in Nat, NEW s \in [1..n -> Int]
    PROVE  ProductOf(s) \in Int /\ ProductOf(s) \in Fr
<1>1. ProductUpTo(s) \in [0..n -> Fr] /\ ProductOf(s) = ProductUpTo(s)[n]
  BY ProductSteps
<1>2. ProductUpTo(s)[n] \in Fr
  BY <1>1
<1> QED
  BY <1>1, <1>2, FieldFacts

LEMMA MinType ==
    ASSUME NEW S \in SUBSET Nat, S # {}
    PROVE  Min(S) \in S
<1>1. \E n \in S : \A m \in S : n <= m
  BY LeastNatural
<1> QED
  BY <1>1 DEF Min

-----------------------------------------------------------------------------
(***************************************************************************)
(* The field has no divisors of zero.                                      *)
(***************************************************************************)

LEMMA CongReflexive ==
    ASSUME NEW a \in Int
    PROVE  Cong(a, a)
  BY CongIsRemainder

LEMMA CongTrans ==
    ASSUME NEW a \in Int, NEW b \in Int, NEW c \in Int, Cong(a, b), Cong(b, c)
    PROVE  Cong(a, c)
<1>1. a % P = b % P /\ b % P = c % P
  BY CongIsRemainder
<1>2. a % P = c % P
  BY <1>1
<1> QED
  BY <1>2, CongIsRemainder

LEMMA CongProduct ==
    ASSUME NEW a \in Int, NEW b \in Int, NEW c \in Int, NEW d \in Int,
           Cong(a, b), Cong(c, d)
    PROVE  Cong(a * c, b * d)
<1>1. Cong(a * c, b * c) /\ Cong(b * c, b * d)
  BY CongMultiply
<1>2. a * c \in Int /\ b * c \in Int /\ b * d \in Int
  OBVIOUS
<1> QED
  BY <1>1, <1>2, CongTrans

LEMMA CongSubtract ==
    ASSUME NEW a \in Int, NEW b \in Int, NEW c \in Int, NEW d \in Int,
           Cong(a, b), Cong(c, d)
    PROVE  Cong(a - c, b - d)
<1>0. P \in Int
  BY FieldFacts
<1>1. PICK k \in Int : a = b + k * P
  BY DEF Cong
<1>2. PICK m \in Int : c = d + m * P
  BY DEF Cong
<1>3. a - c = (b - d) + (k - m) * P /\ k - m \in Int
  BY <1>0, <1>1, <1>2
<1> QED
  BY <1>3 DEF Cong

\* Congruent elements of the field are equal.
LEMMA CongEqual ==
    ASSUME NEW a \in Fr, NEW b \in Fr, Cong(a, b)
    PROVE  a = b
<1>1. a \in Int /\ b \in Int /\ P \in Int
  BY FieldFacts
<1>2. PICK k \in Int : a = b + k * P
  BY DEF Cong
<1>3. 0 * P + a = k * P + b /\ 0 \in Int
  BY <1>1, <1>2
<1> QED
  BY <1>3, RemainderUnique

\* A number and its remainder are zero together.
LEMMA CongZero ==
    ASSUME NEW a \in Int
    PROVE  Cong(a, 0) <=> a % P = 0
<1> DEFINE r == a % P
<1>1. r \in Fr /\ r \in Int /\ Cong(r, a) /\ 0 \in Fr
  BY DivMod, CongRemainder, FieldFacts
<1> HIDE DEF r
<1>2. ASSUME Cong(a, 0) PROVE r = 0
  BY <1>1, <1>2, CongTrans, CongEqual
<1>3. ASSUME r = 0 PROVE Cong(a, 0)
  BY <1>1, <1>3, CongSymmetric
<1> QED
  BY <1>2, <1>3 DEF r

LEMMA CongTimesZero ==
    ASSUME NEW a \in Int, NEW c \in Int, Cong(a, 0)
    PROVE  Cong(a * c, 0) /\ Cong(c * a, 0)
<1>0. P \in Int
  BY FieldFacts
<1>1. PICK k \in Int : a = 0 + k * P
  BY DEF Cong
<1>2. a * c = 0 + (k * c) * P /\ c * a = 0 + (k * c) * P /\ k * c \in Int
  BY <1>0, <1>1
<1> QED
  BY <1>2 DEF Cong

LEMMA NoZeroDivisors ==
    ASSUME NEW a \in Int, NEW b \in Int, Cong(a * b, 0), ~Cong(b, 0)
    PROVE  Cong(a, 0)
<1> DEFINE D == {d \in Nat \ {0} : Cong(d * b, 0)}
<1>0. P \in Nat \ {0} /\ P \in Int
  BY FieldFacts
<1>1. P \in D
  <2>1. P * b = 0 + b * P
    BY <1>0
  <2>2. Cong(P * b, 0)
    BY <2>1 DEF Cong
  <2> QED
    BY <1>0, <2>2
<1>2. PICK m \in D : \A d \in D : m <= d
  <2>1. D \in SUBSET Nat /\ D # {}
    BY <1>1
  <2> QED
    BY <2>1, LeastNatural
<1>3. m \in Nat \ {0} /\ Cong(m * b, 0) /\ m <= P
  BY <1>1, <1>2
<1>4. ASSUME NEW c \in Nat, Cong(c * b, 0) PROVE c % m = 0
  <2> DEFINE q == c \div m
             s == c % m
  <2>1. q \in Int /\ s \in 0..(m - 1) /\ c = m * q + s
    BY <1>3
  <2> HIDE DEF q, s
  <2> DEFINE u == m * b
             v == c * b
  <2>2. u \in Int /\ v \in Int /\ b * s = v - u * q
    BY <1>3, <2>1
  <2>3. Cong(u, 0) /\ Cong(v, 0)
    BY <1>3, <1>4
  <2> HIDE DEF u, v
  <2> DEFINE w == u * q
  <2>4. Cong(w, 0) /\ w \in Int
    <3>1. u * q \in Int
      BY <2>1, <2>2
    <3> QED
      BY <2>1, <2>2, <2>3, <3>1, CongTimesZero, Zenon
  <2>5. b * s = v - w
    BY <2>2
  <2> HIDE DEF w
  <2>6. Cong(s * b, 0)
    <3>1. Cong(v - w, 0 - 0)
      BY <2>2, <2>3, <2>4, CongSubtract
    <3>2. s * b = v - w /\ 0 - 0 = 0
      BY <2>1, <2>5
    <3> QED
      BY <3>1, <3>2
  <2>7. s \notin D
    BY <1>2, <1>3, <2>1
  <2>8. s = 0
    BY <1>3, <2>1, <2>6, <2>7
  <2> QED
    BY <2>8 DEF s
<1>5. P % m = 0
  BY <1>0, <1>1, <1>4
<1>6. m # 1
  <2>1. 1 * b = b
    OBVIOUS
  <2> QED
    BY <1>3, <2>1
<1>7. m = P
  <2>1. m \in 2..(P - 1) => P % m # 0
    BY PrimeAssumption
  <2> QED
    BY <1>0, <1>3, <1>5, <1>6, <2>1
<1> DEFINE r == a % P
<1>8. r \in Fr /\ r \in Int /\ Cong(r, a)
  BY DivMod, CongRemainder
<1> HIDE DEF r
<1>9. Cong(r * b, 0)
  <2>1. Cong(r * b, a * b)
    BY <1>8, CongMultiply
  <2>2. r * b \in Int /\ a * b \in Int
    BY <1>8
  <2> QED
    BY <2>1, <2>2, CongTrans
<1>10. r = 0
  <2>1. r \in Nat /\ r < P
    BY <1>0, <1>8 DEF Fr
  <2>2. r \notin D
    BY <1>2, <1>7, <2>1
  <2> QED
    BY <1>9, <2>1, <2>2
<1> QED
  BY <1>10, CongZero DEF r

\* A factor that is not zero cancels.
LEMMA CongCancel ==
    ASSUME NEW a \in Int, NEW b \in Int, NEW c \in Int,
           Cong(a * c, b * c), ~Cong(c, 0)
    PROVE  Cong(a, b)
<1>1. a * c \in Int /\ b * c \in Int /\ a - b \in Int
  OBVIOUS
<1>2. Cong(a * c - b * c, b * c - b * c)
  BY <1>1, CongSubtract, CongReflexive
<1>3. a * c - b * c = (a - b) * c /\ b * c - b * c = 0
  OBVIOUS
<1>4. Cong((a - b) * c, 0)
  BY <1>2, <1>3
<1>5. Cong(a - b, 0)
  BY <1>1, <1>4, NoZeroDivisors
<1>6. Cong((a - b) + b, 0 + b)
  BY <1>1, <1>5, CongAdd, CongReflexive
<1>7. (a - b) + b = a /\ 0 + b = b
  OBVIOUS
<1> QED
  BY <1>6, <1>7

-----------------------------------------------------------------------------
(***************************************************************************)
(* Polynomials with integer coefficients, as functions: those of degree n  *)
(* with leading coefficient l are what Horner's rule makes of the constant *)
(* l in n steps.                                                           *)
(***************************************************************************)

Const(l) == [x \in Int |-> l]
Horner(c, f) == [x \in Int |-> c + x * f[x]]

\* A set of pairs of a degree and a function that Horner's rule does not leave.
Closed(S, l) ==
    /\ <<0, Const(l)>> \in S
    /\ \A n \in Nat, f \in [Int -> Int], c \in Int :
          <<n, f>> \in S => <<n + 1, Horner(c, f)>> \in S

Polynomial(n, l) == {f \in [Int -> Int] : \A S : Closed(S, l) => <<n, f>> \in S}

LEMMA PolyConst ==
    ASSUME NEW l \in Int
    PROVE  Const(l) \in Polynomial(0, l)
<1>1. Const(l) \in [Int -> Int]
  BY DEF Const
<1>2. \A S : Closed(S, l) => <<0, Const(l)>> \in S
  BY Zenon DEF Closed
<1> QED
  BY <1>1, <1>2, Zenon DEF Polynomial

LEMMA HornerType ==
    ASSUME NEW f \in [Int -> Int], NEW c \in Int
    PROVE  Horner(c, f) \in [Int -> Int] /\ \A x \in Int : Horner(c, f)[x] = c + x * f[x]
  BY DEF Horner

LEMMA PolyHorner ==
    ASSUME NEW l \in Int, NEW n \in Nat, NEW f \in Polynomial(n, l), NEW c \in Int
    PROVE  Horner(c, f) \in Polynomial(n + 1, l)
<1>1. f \in [Int -> Int] /\ \A S : Closed(S, l) => <<n, f>> \in S
  BY Zenon DEF Polynomial
<1>2. Horner(c, f) \in [Int -> Int]
  BY <1>1, HornerType
<1>3. \A S : Closed(S, l) => <<n + 1, Horner(c, f)>> \in S
  BY <1>1, Zenon DEF Closed
<1> QED
  BY <1>2, <1>3, Zenon DEF Polynomial

\* A polynomial is divided by x - a.
LEMMA Quotient ==
    ASSUME NEW l \in Int, NEW n \in Nat, NEW f \in Polynomial(n, l)
    PROVE  /\ n = 0 => f = Const(l)
           /\ n > 0 => \A a \in Int : \E q \in Polynomial(n - 1, l) :
                         \A x \in Int : f[x] = (x - a) * q[x] + f[a]
<1> DEFINE Divides(g, q, a) == \A x \in Int : g[x] = (x - a) * q[x] + g[a]
           Good(m, g) ==
             /\ m = 0 => g = Const(l)
             /\ m > 0 => \A a \in Int : \E q \in Polynomial(m - 1, l) : Divides(g, q, a)
           S == {p \in Nat \X [Int -> Int] : p[2] \in Polynomial(p[1], l) /\ Good(p[1], p[2])}
<1>1. <<0, Const(l)>> \in S
  <2>1. Good(0, Const(l))
    OBVIOUS
  <2>2. Const(l) \in [Int -> Int]
    BY DEF Const
  <2> HIDE DEF Good
  <2> QED
    BY <2>1, <2>2, PolyConst
<1>2. ASSUME NEW m \in Nat, NEW g \in [Int -> Int], NEW c \in Int, <<m, g>> \in S
      PROVE  <<m + 1, Horner(c, g)>> \in S
  <2> DEFINE h == Horner(c, g)
  <2>1. g \in Polynomial(m, l) /\ Good(m, g)
    BY <1>2
  <2>2. h \in Polynomial(m + 1, l)
    BY <2>1, PolyHorner
  <2>3. h \in [Int -> Int] /\ \A x \in Int : h[x] = c + x * g[x]
    BY HornerType
  <2> HIDE DEF h
  <2>4. ASSUME NEW a \in Int PROVE \E q \in Polynomial(m, l) : Divides(h, q, a)
    <3>1. CASE m = 0
      <4>1. g = Const(l)
        BY <2>1, <3>1
      <4>2. Const(l) \in Polynomial(m, l)
        BY <3>1, PolyConst
      <4>3. ASSUME NEW x \in Int PROVE h[x] = (x - a) * Const(l)[x] + h[a]
        <5>1. h[x] = c + x * l /\ h[a] = c + a * l /\ Const(l)[x] = l
          BY <2>3, <4>1 DEF Const
        <5> QED
          BY <5>1
      <4> QED
        BY <4>2, <4>3
    <3>2. CASE m > 0
      <4>1. PICK q \in Polynomial(m - 1, l) : Divides(g, q, a)
        BY <2>1, <3>2
      <4>2. q \in [Int -> Int] /\ m - 1 \in Nat /\ (m - 1) + 1 = m /\ g[a] \in Int
        BY <3>2 DEF Polynomial
      <4>3. Horner(g[a], q) \in Polynomial(m, l)
        BY <4>2, PolyHorner
      <4>4. ASSUME NEW x \in Int PROVE h[x] = (x - a) * Horner(g[a], q)[x] + h[a]
        <5> DEFINE ga == g[a]
                   gx == g[x]
                   qx == q[x]
        <5>1. h[x] = c + x * gx /\ h[a] = c + a * ga /\ Horner(ga, q)[x] = ga + x * qx
          BY <2>3, <4>2, HornerType
        <5>2. gx = (x - a) * qx + ga /\ gx \in Int /\ ga \in Int /\ qx \in Int
          BY <4>1, <4>2
        <5> HIDE DEF ga, gx, qx
        <5>3. c + x * gx = (x - a) * (ga + x * qx) + (c + a * ga)
          BY <5>2
        <5> QED
          BY <5>1, <5>3 DEF ga
      <4> QED
        BY <4>3, <4>4
    <3> QED
      BY <3>1, <3>2
  <2> HIDE DEF Divides
  <2>5. Good(m + 1, h)
    BY <2>4
  <2> HIDE DEF Good
  <2> QED
    BY <2>2, <2>3, <2>5 DEF h
<1> HIDE DEF S
<1>3. Closed(S, l)
  BY <1>1, <1>2 DEF Closed
<1>4. <<n, f>> \in S
  BY <1>3, Zenon DEF Polynomial
<1> QED
  BY <1>4 DEF S

LEMMA PolynomialType ==
    ASSUME NEW l \in Int, NEW n \in Nat, NEW f \in Polynomial(n, l)
    PROVE  f \in [Int -> Int] /\ \A x \in Int : f[x] \in Int
  BY DEF Polynomial

\* If x is another root than a, it is a root of the quotient.
LEMMA OtherRoot ==
    ASSUME NEW x \in Int, NEW a \in Int, NEW q \in Int, NEW u \in Int, NEW v \in Int,
           u = (x - a) * q + v, Cong(u, 0), Cong(v, 0), ~Cong(x, a)
    PROVE  Cong(q, 0)
<1> DEFINE d == x - a
           w == d * q
<1>1. d \in Int /\ w \in Int /\ w = u - v
  OBVIOUS
<1>2. ~Cong(d, 0)
  <2> SUFFICES ASSUME Cong(d, 0) PROVE FALSE
    OBVIOUS
  <2>1. Cong(d + a, 0 + a)
    BY <1>1, CongAdd, CongReflexive
  <2>2. d + a = x /\ 0 + a = a
    OBVIOUS
  <2> QED
    BY <2>1, <2>2
<1>3. Cong(w, 0)
  <2> HIDE DEF w, d
  <2>1. Cong(u - v, 0 - 0)
    BY CongSubtract
  <2>2. 0 - 0 = 0
    OBVIOUS
  <2> QED
    BY <1>1, <2>1, <2>2
<1>4. Cong(q * d, 0)
  <2>1. q * d = w
    BY <1>1
  <2> QED
    BY <1>3, <2>1
<1> HIDE DEF d, w
<1> QED
  BY <1>1, <1>2, <1>4, NoZeroDivisors

\* A polynomial of degree n has at most n roots in the field.
LEMMA RootBound ==
    ASSUME NEW l \in Int, ~Cong(l, 0), NEW N \in Nat, NEW f \in Polynomial(N, l)
    PROVE  Cardinality({x \in Fr : Cong(f[x], 0)}) <= N
<1> DEFINE R(g) == {x \in Fr : Cong(g[x], 0)}
           S == {n \in 0..N : \A g \in Polynomial(n, l) :
                                IsFiniteSet(R(g)) /\ Cardinality(R(g)) <= n}
<1>1. 0 \in S
  <2> SUFFICES ASSUME NEW g \in Polynomial(0, l)
               PROVE  IsFiniteSet(R(g)) /\ Cardinality(R(g)) <= 0
    OBVIOUS
  <2>1. g = Const(l)
    BY Quotient
  <2>2. \A x \in Fr : g[x] = l
    BY <2>1, FieldFacts DEF Const
  <2>3. R(g) = {}
    BY <2>2
  <2> HIDE DEF R
  <2> QED
    BY <2>3, FS_EmptySet
<1>2. ASSUME NEW n \in 0..(N - 1), n \in S PROVE n + 1 \in S
  <2>0. n \in Nat /\ n + 1 \in 0..N /\ n + 1 > 0 /\ (n + 1) - 1 = n /\ n + 1 \in Nat
    OBVIOUS
  <2> SUFFICES ASSUME NEW g \in Polynomial(n + 1, l)
               PROVE  IsFiniteSet(R(g)) /\ Cardinality(R(g)) <= n + 1
    BY <2>0
  <2>1. CASE R(g) = {}
    <3> HIDE DEF R
    <3> QED
      BY <2>0, <2>1, FS_EmptySet
  <2>2. CASE R(g) # {}
    <3>1. PICK a \in Fr : Cong(g[a], 0)
      BY <2>2
    <3>2. a \in Int
      BY FieldFacts
    <3>3. PICK q \in Polynomial(n, l) : \A x \in Int : g[x] = (x - a) * q[x] + g[a]
      BY <2>0, <3>2, Quotient
    <3>4. IsFiniteSet(R(q)) /\ Cardinality(R(q)) <= n
      BY <1>2
    <3>5. R(g) \subseteq R(q) \cup {a}
      <4> SUFFICES ASSUME NEW x \in Fr, Cong(g[x], 0), x # a
                   PROVE  Cong(q[x], 0)
        OBVIOUS
      <4>1. x \in Int /\ g[x] = (x - a) * q[x] + g[a]
        BY <3>3, FieldFacts
      <4>2. g[x] \in Int /\ g[a] \in Int /\ q[x] \in Int
        BY <2>0, <3>2, <4>1, PolynomialType
      <4>3. ~Cong(x, a)
        BY CongEqual
      <4> QED
        BY <3>1, <3>2, <4>1, <4>2, <4>3, OtherRoot
    <3> HIDE DEF R
    <3> DEFINE T == R(q) \cup {a}
    <3>6. IsFiniteSet(T) /\ Cardinality(T) <= n + 1 /\ Cardinality(T) \in Nat
      <4>1. Cardinality(R(q)) \in Nat
        BY <3>4, FS_CardinalityType
      <4>2. /\ IsFiniteSet(T)
            /\ Cardinality(T) = Cardinality(R(q)) \/ Cardinality(T) = Cardinality(R(q)) + 1
        BY <3>4, FS_AddElement
      <4> QED
        BY <2>0, <3>4, <4>1, <4>2
    <3> HIDE DEF T
    <3>7. IsFiniteSet(R(g)) /\ Cardinality(R(g)) <= Cardinality(T)
      BY <3>5, <3>6, FS_Subset DEF T
    <3>8. Cardinality(R(g)) \in Nat
      BY <3>7, FS_CardinalityType
    <3> QED
      BY <2>0, <3>6, <3>7, <3>8
  <2> QED
    BY <2>1, <2>2
<1>3. 0..N \subseteq S
  <2> HIDE DEF S
  <2> QED
    BY <1>1, <1>2, InductionUpTo
<1> QED
  BY <1>3

LEMMA PolyAddConst ==
    ASSUME NEW l \in Int, NEW n \in Nat, n > 0, NEW f \in Polynomial(n, l), NEW d \in Int
    PROVE  [x \in Int |-> d + f[x]] \in Polynomial(n, l)
<1> DEFINE Plus(b, g) == [x \in Int |-> b + g[x]]
           Good(m, g) == m > 0 => \A b \in Int : Plus(b, g) \in Polynomial(m, l)
           S == {p \in Nat \X [Int -> Int] : p[2] \in Polynomial(p[1], l) /\ Good(p[1], p[2])}
<1>1. <<0, Const(l)>> \in S
  <2>1. Good(0, Const(l))
    OBVIOUS
  <2>2. Const(l) \in [Int -> Int]
    BY DEF Const
  <2> HIDE DEF Good
  <2> QED
    BY <2>1, <2>2, PolyConst
<1>2. ASSUME NEW m \in Nat, NEW g \in [Int -> Int], NEW c \in Int, <<m, g>> \in S
      PROVE  <<m + 1, Horner(c, g)>> \in S
  <2>1. g \in Polynomial(m, l)
    BY <1>2
  <2>2. /\ Horner(c, g) \in Polynomial(m + 1, l)
        /\ Horner(c, g) \in [Int -> Int]
    BY <2>1, PolyHorner, HornerType
  <2>3. ASSUME NEW b \in Int PROVE Plus(b, Horner(c, g)) \in Polynomial(m + 1, l)
    <3>1. Plus(b, Horner(c, g)) = Horner(b + c, g)
      BY DEF Horner
    <3>2. b + c \in Int
      OBVIOUS
    <3> HIDE DEF Plus
    <3> QED
      BY <2>1, <3>1, <3>2, PolyHorner
  <2> HIDE DEF Plus
  <2>4. Good(m + 1, Horner(c, g))
    BY <2>3
  <2> HIDE DEF Good
  <2> QED
    BY <2>2, <2>4
<1> HIDE DEF S
<1>3. Closed(S, l)
  BY <1>1, <1>2 DEF Closed
<1>4. <<n, f>> \in S
  BY <1>3, Zenon DEF Polynomial
<1>5. Good(n, f)
  <2> HIDE DEF Good
  <2> QED
    BY <1>4 DEF S
<1> QED
  BY <1>5

\* The product of a polynomial with x - a.
LEMMA PolyTimesLinear ==
    ASSUME NEW l \in Int, NEW n \in Nat, NEW f \in Polynomial(n, l), NEW a \in Int
    PROVE  \E g \in Polynomial(n + 1, l) : \A x \in Int : g[x] = (x - a) * f[x]
<1> DEFINE Times(h, g) == \A x \in Int : h[x] = (x - a) * g[x]
           Good(m, g) == \E h \in Polynomial(m + 1, l) : Times(h, g)
           S == {p \in Nat \X [Int -> Int] : p[2] \in Polynomial(p[1], l) /\ Good(p[1], p[2])}
<1>1. <<0, Const(l)>> \in S
  <2> DEFINE c == -(a * l)
             h == Horner(c, Const(l))
  <2>0. c \in Int
    OBVIOUS
  <2>2. Const(l) \in [Int -> Int] /\ \A x \in Int : Const(l)[x] = l
    BY DEF Const
  <2>1. h \in Polynomial(0 + 1, l) /\ \A x \in Int : h[x] = c + x * Const(l)[x]
    <3> HIDE DEF c
    <3> QED
      BY <2>0, <2>2, PolyConst, PolyHorner, HornerType
  <2>3. Times(h, Const(l))
    <3> SUFFICES ASSUME NEW x \in Int PROVE h[x] = (x - a) * Const(l)[x]
      OBVIOUS
    <3>1. h[x] = c + x * l
      BY <2>1, <2>2
    <3> HIDE DEF h
    <3> QED
      BY <2>2, <3>1
  <2> HIDE DEF Times, h
  <2>4. Good(0, Const(l))
    BY <2>1, <2>3
  <2> HIDE DEF Good
  <2> QED
    BY <2>2, <2>4, PolyConst
<1>2. ASSUME NEW m \in Nat, NEW g \in [Int -> Int], NEW c \in Int, <<m, g>> \in S
      PROVE  <<m + 1, Horner(c, g)>> \in S
  <2>1. g \in Polynomial(m, l) /\ Good(m, g)
    BY <1>2
  <2>2. /\ Horner(c, g) \in Polynomial(m + 1, l)
        /\ Horner(c, g) \in [Int -> Int]
        /\ \A x \in Int : Horner(c, g)[x] = c + x * g[x]
    BY <2>1, PolyHorner, HornerType
  <2>3. PICK h \in Polynomial(m + 1, l) : Times(h, g)
    BY <2>1
  <2> DEFINE k == [x \in Int |-> c + h[x]]
             b == -(a * c)
             t == Horner(b, k)
  <2>4. k \in Polynomial(m + 1, l)
    <3>1. m + 1 \in Nat /\ m + 1 > 0
      OBVIOUS
    <3> QED
      BY <3>1, PolyAddConst, Zenon
  <2>5. h \in [Int -> Int] /\ b \in Int /\ m + 1 \in Nat
    BY DEF Polynomial
  <2>6. k \in [Int -> Int] /\ \A x \in Int : k[x] = c + h[x]
    BY <2>5
  <2>7. t \in Polynomial((m + 1) + 1, l) /\ \A x \in Int : t[x] = b + x * k[x]
    <3> HIDE DEF k, b
    <3> QED
      BY <2>4, <2>5, <2>6, PolyHorner, HornerType
  <2> HIDE DEF t, k
  <2>8. Times(t, Horner(c, g))
    <3> SUFFICES ASSUME NEW x \in Int PROVE t[x] = (x - a) * Horner(c, g)[x]
      OBVIOUS
    <3> DEFINE gx == g[x]
               hx == h[x]
    <3>1. /\ t[x] = b + x * (c + hx) /\ Horner(c, g)[x] = c + x * gx
          /\ hx = (x - a) * gx /\ gx \in Int /\ hx \in Int
      BY <2>2, <2>3, <2>5, <2>6, <2>7
    <3> HIDE DEF gx, hx
    <3>2. b + x * (c + hx) = (x - a) * (c + x * gx)
      BY <3>1
    <3> QED
      BY <3>1, <3>2
  <2> HIDE DEF Times
  <2>9. Good(m + 1, Horner(c, g))
    BY <2>7, <2>8
  <2> HIDE DEF Good
  <2> QED
    BY <2>2, <2>9
<1> HIDE DEF S
<1>3. Closed(S, l)
  BY <1>1, <1>2 DEF Closed
<1>4. <<n, f>> \in S
  BY <1>3, Zenon DEF Polynomial
<1>5. Good(n, f)
  <2> HIDE DEF Good
  <2> QED
    BY <1>4 DEF S
<1> QED
  BY <1>5

-----------------------------------------------------------------------------
(***************************************************************************)
(* Products of linear factors, one of which may be left out.               *)
(***************************************************************************)

\* The factors x - r[j] of a product over 1..n, with 1 in the place of factor i.
Factors(n, r, i, x) == [j \in 1..n |-> IF j = i THEN 1 ELSE (x - r[j]) % P]

LEMMA FactorsType ==
    ASSUME NEW n \in Nat, NEW r \in [1..n -> Int], NEW i, NEW x \in Int
    PROVE  /\ Factors(n, r, i, x) \in [1..n -> Int]
           /\ \A j \in 1..n : /\ j = i => Factors(n, r, i, x)[j] = 1
                              /\ j # i => Cong(Factors(n, r, i, x)[j], x - r[j])
<1>1. ASSUME NEW j \in 1..n
      PROVE  (x - r[j]) % P \in Int /\ Cong((x - r[j]) % P, x - r[j])
  <2> DEFINE d == x - r[j]
  <2>1. d \in Int
    OBVIOUS
  <2> HIDE DEF d
  <2>2. d % P \in Int /\ Cong(d % P, d)
    BY <2>1, CongRemainder
  <2> QED
    BY <2>2 DEF d
<1> QED
  BY <1>1 DEF Factors

LEMMA FactorAt ==
    ASSUME NEW n \in Nat, NEW r \in [1..n -> Int], NEW i, NEW x \in Int, NEW j \in 1..n
    PROVE  /\ Factors(n, r, i, x)[j] \in Int
           /\ j = i => Factors(n, r, i, x)[j] = 1
           /\ j # i => Cong(Factors(n, r, i, x)[j], x - r[j])
<1> DEFINE F == Factors(n, r, i, x)
<1>1. /\ F \in [1..n -> Int]
      /\ \A k \in 1..n : /\ k = i => F[k] = 1
                        /\ k # i => Cong(F[k], x - r[k])
  BY FactorsType
<1> HIDE DEF F
<1>2. F[j] \in Int
  BY <1>1
<1>3. ASSUME j = i PROVE F[j] = 1
  BY <1>3 DEF F, Factors
<1>4. ASSUME j # i PROVE Cong(F[j], x - r[j])
  BY <1>1, <1>4, Zenon
<1> QED
  BY <1>2, <1>3, <1>4, Zenon DEF F

\* One more factor.
LEMMA ProductStep ==
    ASSUME NEW n \in Nat, NEW s \in [1..n -> Int], NEW k \in 0..(n - 1)
    PROVE  /\ ProductUpTo(s)[k] \in Int /\ ProductUpTo(s)[k + 1] \in Int
           /\ Cong(ProductUpTo(s)[k + 1], ProductUpTo(s)[k] * s[k + 1])
<1> DEFINE p == ProductUpTo(s)
           u == p[k] * s[k + 1]
<1>1. p \in [0..n -> Fr] /\ \A j \in 1..n : p[j] = (p[j - 1] * s[j]) % P
  BY ProductSteps
<1> HIDE DEF p
<1>2. k \in 0..n /\ k + 1 \in 0..n /\ k + 1 \in 1..n /\ (k + 1) - 1 = k /\ s[k + 1] \in Int
  OBVIOUS
<1>3. p[k] \in Int /\ p[k + 1] \in Int /\ p[k + 1] = u % P
  BY <1>1, <1>2, FieldFacts
<1>4. u \in Int
  BY <1>2, <1>3
<1> HIDE DEF u
<1>5. Cong(u % P, u)
  BY <1>4, CongRemainder
<1>6. Cong(p[k + 1], u)
  BY <1>3, <1>5
<1> QED
  BY <1>3, <1>6 DEF p, u

\* Factors that are congruent have congruent products.
LEMMA ProductCong ==
    ASSUME NEW n \in Nat, NEW s \in [1..n -> Int], NEW t \in [1..n -> Int],
           \A j \in 1..n : Cong(s[j], t[j])
    PROVE  Cong(ProductOf(s), ProductOf(t))
<1> DEFINE p == ProductUpTo(s)
           q == ProductUpTo(t)
           S == {k \in 0..n : Cong(p[k], q[k])}
<1>1. p[0] = 1 /\ q[0] = 1 /\ ProductOf(s) = p[n] /\ ProductOf(t) = q[n]
  BY ProductSteps
<1>2. ASSUME NEW k \in 0..(n - 1)
      PROVE  /\ p[k] \in Int /\ p[k + 1] \in Int /\ q[k] \in Int /\ q[k + 1] \in Int
             /\ Cong(p[k + 1], p[k] * s[k + 1]) /\ Cong(q[k + 1], q[k] * t[k + 1])
  BY ProductStep
<1> HIDE DEF p, q
<1>3. 0 \in S
  BY <1>1, CongReflexive
<1>4. ASSUME NEW k \in 0..(n - 1), k \in S PROVE k + 1 \in S
  <2>1. k + 1 \in 0..n /\ k + 1 \in 1..n
    OBVIOUS
  <2> DEFINE a == p[k]
             b == q[k]
             c == s[k + 1]
             d == t[k + 1]
             u == p[k + 1]
             v == q[k + 1]
  <2>2. /\ a \in Int /\ b \in Int /\ c \in Int /\ d \in Int /\ u \in Int /\ v \in Int
        /\ Cong(u, a * c) /\ Cong(v, b * d) /\ Cong(a, b) /\ Cong(c, d)
    BY <1>2, <1>4, <2>1
  <2> HIDE DEF a, b, c, d, u, v
  <2>3. Cong(a * c, b * d) /\ a * c \in Int /\ b * d \in Int
    BY <2>2, CongProduct
  <2>4. Cong(u, v)
    BY <2>2, <2>3, CongTrans, CongJoin
  <2> QED
    BY <2>1, <2>4 DEF u, v
<1>5. 0..n \subseteq S
  <2> HIDE DEF S
  <2> QED
    BY <1>3, <1>4, InductionUpTo
<1>6. n \in 0..n
  OBVIOUS
<1> QED
  BY <1>1, <1>5, <1>6

\* A product is zero exactly if one of its factors is.
LEMMA ProductZero ==
    ASSUME NEW n \in Nat, NEW s \in [1..n -> Int]
    PROVE  Cong(ProductOf(s), 0) <=> \E j \in 1..n : Cong(s[j], 0)
<1> DEFINE p == ProductUpTo(s)
           Some(k) == \E j \in 1..k : Cong(s[j], 0)
           S == {k \in 0..n : Cong(p[k], 0) <=> Some(k)}
<1>1. p[0] = 1 /\ ProductOf(s) = p[n]
  BY ProductSteps
<1>2. ASSUME NEW k \in 0..(n - 1)
      PROVE  p[k] \in Int /\ p[k + 1] \in Int /\ Cong(p[k + 1], p[k] * s[k + 1])
  BY ProductStep
<1> HIDE DEF p
<1>3. 0 \in S
  <2>1. ~Cong(1, 0)
    BY CongEqual, FieldFacts
  <2>2. ~Some(0)
    OBVIOUS
  <2> HIDE DEF Some
  <2> QED
    BY <1>1, <2>1, <2>2
<1>4. ASSUME NEW k \in 0..(n - 1), k \in S PROVE k + 1 \in S
  <2>1. k + 1 \in 0..n /\ k + 1 \in 1..n /\ 1..(k + 1) = (1..k) \cup {k + 1}
    OBVIOUS
  <2> DEFINE a == p[k]
             c == s[k + 1]
             u == p[k + 1]
             w == a * c
  <2>2. a \in Int /\ c \in Int /\ u \in Int /\ Cong(u, w)
    BY <1>2, <2>1
  <2>3. Some(k + 1) <=> (Some(k) \/ Cong(c, 0))
    BY <2>1
  <2>4. Cong(a, 0) <=> Some(k)
    <3> HIDE DEF Some
    <3> QED
      BY <1>4
  <2> HIDE DEF a, c, u, Some
  <2>5. w \in Int
    BY <2>2
  <2>6. Cong(w, 0) <=> (Cong(a, 0) \/ Cong(c, 0))
    <3>1. ASSUME Cong(w, 0), ~Cong(c, 0) PROVE Cong(a, 0)
      BY <2>2, <3>1, NoZeroDivisors
    <3>2. ASSUME Cong(a, 0) \/ Cong(c, 0) PROVE Cong(w, 0)
      BY <2>2, <3>2, CongTimesZero, Zenon
    <3> QED
      BY <3>1, <3>2
  <2> HIDE DEF w
  <2>7. Cong(u, 0) <=> Cong(w, 0)
    BY <2>2, <2>5, CongTrans, CongSymmetric
  <2>8. Cong(u, 0) <=> Some(k + 1)
    BY <2>3, <2>4, <2>6, <2>7
  <2> QED
    BY <2>1, <2>8 DEF u
<1>5. 0..n \subseteq S
  <2> HIDE DEF S
  <2> QED
    BY <1>3, <1>4, InductionUpTo
<1>6. n \in 0..n
  OBVIOUS
<1>7. Cong(p[n], 0) <=> Some(n)
  <2> HIDE DEF Some
  <2> QED
    BY <1>5, <1>6
<1> QED
  BY <1>1, <1>7

\* A product of linear factors is a polynomial.
LEMMA ProductIsPolynomial ==
    ASSUME NEW n \in Nat, NEW r \in [1..n -> Int]
    PROVE  \E f \in Polynomial(n, 1) :
             \A x \in Int : Cong(f[x], ProductOf(Factors(n, r, 0, x)))
<1> DEFINE p(x) == ProductUpTo(Factors(n, r, 0, x))
           Same(f, k) == \A x \in Int : Cong(f[x], p(x)[k])
           S == {k \in 0..n : \E f \in Polynomial(k, 1) : Same(f, k)}
<1>1. ASSUME NEW x \in Int
      PROVE  /\ p(x)[0] = 1 /\ ProductOf(Factors(n, r, 0, x)) = p(x)[n]
             /\ \A k \in 0..(n - 1) :
                   /\ p(x)[k] \in Int /\ p(x)[k + 1] \in Int
                   /\ Cong(p(x)[k + 1], p(x)[k] * Factors(n, r, 0, x)[k + 1])
  BY FactorsType, ProductSteps, ProductStep
<1> HIDE DEF p
<1>2. 0 \in S
  <2>1. Const(1) \in Polynomial(0, 1)
    BY PolyConst
  <2>2. Same(Const(1), 0)
    BY <1>1, CongReflexive DEF Const
  <2> HIDE DEF Same
  <2> QED
    BY <2>1, <2>2
<1>3. ASSUME NEW k \in 0..(n - 1), k \in S PROVE k + 1 \in S
  <2>0. k \in Nat /\ k + 1 \in 0..n /\ k + 1 \in 1..n /\ k + 1 # 0 /\ r[k + 1] \in Int
        /\ k + 1 \in Nat
    OBVIOUS
  <2>1. PICK f \in Polynomial(k, 1) : Same(f, k)
    BY <1>3
  <2>2. PICK g \in Polynomial(k + 1, 1) : \A x \in Int : g[x] = (x - r[k + 1]) * f[x]
    BY <2>0, PolyTimesLinear
  <2>3. ASSUME NEW x \in Int PROVE Cong(g[x], p(x)[k + 1])
    <3> DEFINE a == f[x]
               b == p(x)[k]
               c == x - r[k + 1]
               d == Factors(n, r, 0, x)[k + 1]
               v == p(x)[k + 1]
    <3>1. /\ a \in Int /\ b \in Int /\ c \in Int /\ d \in Int /\ v \in Int
          /\ Cong(a, b) /\ Cong(d, c) /\ Cong(v, b * d) /\ g[x] = c * a
      <4>1. f[x] \in Int
        BY <2>0, PolynomialType
      <4>2. d \in Int /\ Cong(d, c)
        <5>1. 0 # k + 1 /\ k + 1 \in 1..n
          BY <2>0
        <5> QED
          BY <5>1, FactorAt, Zenon
      <4>3. b \in Int /\ v \in Int /\ Cong(v, b * d)
        BY <1>1
      <4> QED
        BY <2>0, <2>1, <2>2, <4>1, <4>2, <4>3
    <3> HIDE DEF a, b, c, d, v
    <3>2. Cong(b, a)
      BY <3>1, CongSymmetric
    <3>3. Cong(b * d, a * c) /\ b * d \in Int /\ a * c \in Int /\ a * c = c * a
      BY <3>1, <3>2, CongProduct
    <3>4. Cong(v, a * c)
      BY <3>1, <3>3, CongTrans
    <3>5. Cong(a * c, v)
      BY <3>1, <3>3, <3>4, CongSymmetric
    <3> QED
      BY <3>1, <3>3, <3>5 DEF v
  <2>4. Same(g, k + 1)
    BY <2>3
  <2> HIDE DEF Same
  <2> QED
    BY <2>0, <2>4
<1>4. 0..n \subseteq S
  <2> HIDE DEF S
  <2> QED
    BY <1>2, <1>3, InductionUpTo
<1>5. n \in 0..n
  OBVIOUS
<1>6. PICK f \in Polynomial(n, 1) : Same(f, n)
  BY <1>4, <1>5
<1> QED
  BY <1>1, <1>6

LEMMA DivideByRoot ==
    ASSUME NEW m \in Nat, NEW g \in Polynomial(m + 1, 1), NEW a \in Int, Cong(g[a], 0)
    PROVE  \E q \in Polynomial(m, 1) :
             /\ \A x \in Int : q[x] \in Int /\ g[x] \in Int /\ Cong(g[x], (x - a) * q[x])
             /\ \A x \in Int : Cong(g[x], 0) /\ ~Cong(x, a) => Cong(q[x], 0)
<1>0. 1 \in Int /\ m + 1 \in Nat /\ m + 1 > 0 /\ (m + 1) - 1 = m
  OBVIOUS
<1>1. PICK q \in Polynomial(m, 1) : \A x \in Int : g[x] = (x - a) * q[x] + g[a]
  BY <1>0, Quotient
<1>2. ASSUME NEW x \in Int PROVE g[x] \in Int /\ q[x] \in Int /\ g[a] \in Int
  BY <1>0, PolynomialType
<1>3. ASSUME NEW x \in Int PROVE Cong(g[x], (x - a) * q[x])
  <2> DEFINE u == (x - a) * q[x]
             v == g[a]
  <2>1. u \in Int /\ v \in Int /\ g[x] = u + v /\ Cong(v, 0)
    BY <1>1, <1>2
  <2> HIDE DEF u, v
  <2>2. Cong(u + v, u + 0) /\ u + 0 = u
    BY <2>1, CongAdd, CongReflexive
  <2> QED
    BY <2>1, <2>2 DEF u
<1>4. ASSUME NEW x \in Int, Cong(g[x], 0), ~Cong(x, a) PROVE Cong(q[x], 0)
  BY <1>1, <1>2, <1>4, OtherRoot
<1> QED
  BY <1>2, <1>3, <1>4

\* A polynomial whose roots are known is the product of its linear factors.
LEMMA FactorTheorem ==
    ASSUME NEW n \in Nat, NEW r \in [1..n -> Int], NEW i \in Nat,
           \A j, k \in (1..n) \ {i} : j # k => ~Cong(r[j], r[k]),
           NEW f \in Polynomial(IF i \in 1..n THEN n - 1 ELSE n, 1),
           \A j \in (1..n) \ {i} : Cong(f[r[j]], 0)
    PROVE  \A x \in Int : Cong(f[x], ProductOf(Factors(n, r, i, x)))
<1> DEFINE p(x) == ProductUpTo(Factors(n, r, i, x))
           deg(k) == IF i \in 1..k THEN k - 1 ELSE k
           Zero(g, k) == \A j \in (1..k) \ {i} : Cong(g[r[j]], 0)
           Same(g, k) == \A x \in Int : Cong(g[x], p(x)[k])
           S == {k \in 0..n : \A g \in Polynomial(deg(k), 1) : Zero(g, k) => Same(g, k)}
<1>1. ASSUME NEW x \in Int
      PROVE  /\ p(x)[0] = 1 /\ ProductOf(Factors(n, r, i, x)) = p(x)[n]
             /\ \A k \in 0..(n - 1) :
                   /\ p(x)[k] \in Int /\ p(x)[k + 1] \in Int
                   /\ Cong(p(x)[k + 1], p(x)[k] * Factors(n, r, i, x)[k + 1])
  BY FactorsType, ProductSteps, ProductStep
<1> HIDE DEF p
<1>2. 0 \in S
  <2>0. deg(0) = 0
    OBVIOUS
  <2>1. ASSUME NEW g \in Polynomial(0, 1) PROVE Same(g, 0)
    <3>1. g = Const(1)
      BY Quotient
    <3> QED
      BY <1>1, <3>1, CongReflexive DEF Const
  <2> HIDE DEF Same, Zero, deg
  <2> QED
    BY <2>0, <2>1
<1>3. ASSUME NEW k \in 0..(n - 1), k \in S PROVE k + 1 \in S
  <2>0. k \in Nat /\ k + 1 \in 0..n /\ k + 1 \in 1..n /\ r[k + 1] \in Int
    OBVIOUS
  <2> SUFFICES ASSUME NEW g \in Polynomial(deg(k + 1), 1), Zero(g, k + 1)
               PROVE  Same(g, k + 1)
    BY <2>0
  <2>1. \A h \in Polynomial(deg(k), 1) : Zero(h, k) => Same(h, k)
    <3> HIDE DEF Zero, Same, deg
    <3> QED
      BY <1>3
  <2>2. CASE i = k + 1
    <3>1. deg(k + 1) = deg(k) /\ Zero(g, k)
      BY <2>0, <2>2
    <3>2. Same(g, k) /\ deg(k) \in Nat
      BY <2>0, <2>1, <3>1
    <3>3. ASSUME NEW x \in Int PROVE Cong(g[x], p(x)[k + 1])
      <4> DEFINE a == g[x]
                 b == p(x)[k]
                 v == p(x)[k + 1]
                 d == Factors(n, r, i, x)[k + 1]
      <4>1. g[x] \in Int
        BY <3>1, <3>2, PolynomialType
      <4>2. d = 1
        BY <2>0, <2>2, FactorsType
      <4>3. /\ a \in Int /\ b \in Int /\ v \in Int /\ Cong(a, b) /\ Cong(v, b * d)
        BY <1>1, <3>2, <4>1
      <4> HIDE DEF a, b, v, d
      <4>4. b * d = b
        BY <4>2, <4>3
      <4>5. Cong(v, b)
        BY <4>3, <4>4
      <4>6. Cong(a, v)
        BY <4>3, <4>5, CongJoin
      <4> QED
        BY <4>6 DEF a, v
    <3> QED
      BY <3>3
  <2>3. CASE i # k + 1
    <3> DEFINE m == deg(k)
               a == r[k + 1]
    <3>1. m \in Nat /\ deg(k + 1) = m + 1 /\ m + 1 > 0 /\ (m + 1) - 1 = m /\ m + 1 \in Nat
      BY <2>0, <2>3
    <3>2. a \in Int /\ Cong(g[a], 0)
      BY <2>0, <2>3
    <3> HIDE DEF m
    <3>3. g \in Polynomial(m + 1, 1)
      BY <3>1
    <3> HIDE DEF deg
    <3>4. PICK q \in Polynomial(m, 1) :
            /\ \A x \in Int : q[x] \in Int /\ g[x] \in Int /\ Cong(g[x], (x - a) * q[x])
            /\ \A x \in Int : Cong(g[x], 0) /\ ~Cong(x, a) => Cong(q[x], 0)
      <4> HIDE DEF a, Zero, Same
      <4> QED
        BY <3>1, <3>2, <3>3, DivideByRoot
    <3>6. ASSUME NEW j \in (1..k) \ {i} PROVE Cong(q[r[j]], 0)
      <4>1. j \in (1..n) \ {i} /\ k + 1 \in (1..n) \ {i} /\ j # k + 1 /\ r[j] \in Int
            /\ j \in (1..(k + 1)) \ {i}
        BY <2>0, <2>3
      <4>2. ~Cong(r[j], a) /\ Cong(g[r[j]], 0)
        BY <4>1
      <4> QED
        BY <3>4, <4>1, <4>2
    <3>7. Same(q, k)
      <4>1. Zero(q, k)
        BY <3>6
      <4> HIDE DEF Zero, Same
      <4> QED
        BY <2>1, <4>1 DEF m
    <3>8. ASSUME NEW x \in Int PROVE Cong(g[x], p(x)[k + 1])
      <4> DEFINE qx == q[x]
                 b == p(x)[k]
                 c == x - a
                 d == Factors(n, r, i, x)[k + 1]
                 v == p(x)[k + 1]
                 gx == g[x]
      <4>1. /\ qx \in Int /\ c \in Int /\ gx \in Int /\ Cong(qx, b) /\ Cong(gx, c * qx)
        <5>1. q[x] \in Int /\ g[x] \in Int /\ Cong(g[x], (x - a) * q[x])
          BY <3>4, Zenon
        <5>2. Cong(q[x], p(x)[k])
          BY <3>7, Zenon
        <5>3. x - a \in Int
          <6> HIDE DEF a, Zero, Same
          <6> QED
            BY <3>2
        <5> QED
          BY <5>1, <5>2, <5>3, Zenon
      <4>2. b \in Int /\ v \in Int /\ Cong(v, b * d)
        BY <1>1
      <4>3. d \in Int /\ Cong(d, c)
        BY <2>0, <2>3, FactorAt, Zenon
      <4> HIDE DEF qx, b, c, d, v, gx
      <4>4. Cong(c, d)
        BY <4>1, <4>3, CongSymmetric
      <4>5. Cong(c * qx, d * b) /\ c * qx \in Int /\ d * b \in Int /\ b * d = d * b
        BY <4>1, <4>2, <4>3, <4>4, CongProduct
      <4> DEFINE s == c * qx
                 t == d * b
      <4>6. Cong(gx, s) /\ Cong(s, t) /\ Cong(v, t) /\ s \in Int /\ t \in Int
        BY <4>1, <4>2, <4>5
      <4> HIDE DEF s, t
      <4>7. Cong(gx, t)
        BY <4>1, <4>6, CongTrans
      <4>8. Cong(gx, v)
        BY <4>1, <4>2, <4>6, <4>7, CongJoin
      <4> QED
        BY <4>8 DEF gx, v
    <3> QED
      BY <3>8
  <2> QED
    BY <2>2, <2>3
<1>4. 0..n \subseteq S
  <2> HIDE DEF S
  <2> QED
    BY <1>2, <1>3, InductionUpTo
<1>5. n \in 0..n /\ f \in Polynomial(deg(n), 1) /\ Zero(f, n)
  OBVIOUS
<1>6. Same(f, n)
  <2> HIDE DEF Same, Zero, deg
  <2> QED
    BY <1>4, <1>5
<1> QED
  BY <1>1, <1>6

\* A common factor is raised to the number of factors.
LEMMA ProductScaled ==
    ASSUME NEW n \in Nat, NEW s \in [1..n -> Int], NEW t \in [1..n -> Int], NEW c \in Int,
           \A j \in 1..n : Cong(t[j], c * s[j])
    PROVE  Cong(ProductOf(t), Power(c, n) * ProductOf(s))
<1> DEFINE p == ProductUpTo(s)
           q == ProductUpTo(t)
           S == {k \in 0..n : Cong(q[k], Power(c, k) * p[k])}
<1>1. p[0] = 1 /\ q[0] = 1 /\ ProductOf(s) = p[n] /\ ProductOf(t) = q[n]
  BY ProductSteps
<1>2. ASSUME NEW k \in 0..(n - 1)
      PROVE  /\ p[k] \in Int /\ p[k + 1] \in Int /\ q[k] \in Int /\ q[k + 1] \in Int
             /\ Cong(p[k + 1], p[k] * s[k + 1]) /\ Cong(q[k + 1], q[k] * t[k + 1])
  BY ProductStep
<1> HIDE DEF p, q
<1>3. 0 \in S
  <2>1. Power(c, 0) = 1
    BY PowerSteps
  <2>2. Power(c, 0) * p[0] = q[0]
    BY <1>1, <2>1
  <2> QED
    BY <1>1, <2>2, CongReflexive
<1>4. ASSUME NEW k \in 0..(n - 1), k \in S PROVE k + 1 \in S
  <2>1. k + 1 \in 0..n /\ k + 1 \in 1..n /\ k \in Nat
    OBVIOUS
  <2> DEFINE a == p[k]
             b == q[k]
             d == s[k + 1]
             e == t[k + 1]
             u == p[k + 1]
             v == q[k + 1]
             g == Power(c, k)
             h == Power(c, k + 1)
             gc == g * c
  <2>2. /\ a \in Int /\ b \in Int /\ d \in Int /\ e \in Int /\ u \in Int /\ v \in Int
        /\ Cong(u, a * d) /\ Cong(v, b * e) /\ Cong(b, g * a) /\ Cong(e, c * d)
    BY <1>2, <1>4, <2>1
  <2>3. g \in Int /\ h = gc % P
    BY <2>1, PowerSteps
  <2> HIDE DEF a, b, d, e, u, v, g, h
  <2>4. gc \in Int
    BY <2>3
  <2>5. Cong(h, gc) /\ h \in Int
    <3> HIDE DEF gc
    <3> QED
      BY <2>3, <2>4, CongRemainder
  <2> DEFINE ga == g * a
             cd == c * d
             ad == a * d
  <2>6. ga \in Int /\ cd \in Int /\ ad \in Int /\ ga * cd = gc * ad
    BY <2>2, <2>3
  <2> HIDE DEF ga, cd, ad, gc
  <2>7. Cong(b * e, ga * cd)
    BY <2>2, <2>6, CongProduct DEF ga, cd
  <2>8. Cong(h * u, gc * ad)
    BY <2>2, <2>4, <2>5, <2>6, CongProduct DEF ad
  <2>9. b * e \in Int /\ ga * cd \in Int /\ h * u \in Int
    BY <2>2, <2>5, <2>6
  <2> DEFINE w == ga * cd
             be == b * e
             hu == h * u
  <2>10. Cong(v, be) /\ Cong(be, w) /\ Cong(hu, w) /\ be \in Int /\ w \in Int /\ hu \in Int
    BY <2>2, <2>6, <2>7, <2>8, <2>9
  <2> HIDE DEF w, be, hu
  <2>11. Cong(v, hu)
    BY <2>2, <2>10, CongTrans, CongJoin
  <2> QED
    BY <2>1, <2>11 DEF v, hu, h, u
<1>5. 0..n \subseteq S
  <2> HIDE DEF S
  <2> QED
    BY <1>3, <1>4, InductionUpTo
<1>6. n \in 0..n
  OBVIOUS
<1> QED
  BY <1>1, <1>5, <1>6

-----------------------------------------------------------------------------
(***************************************************************************)
(* Sums whose terms have the powers of x as factors.                       *)
(***************************************************************************)

LEMMA SumStep ==
    ASSUME NEW n \in Nat, NEW s \in [1..n -> Int], NEW k \in 0..(n - 1)
    PROVE  /\ SumUpTo(s)[k] \in Int /\ SumUpTo(s)[k + 1] \in Int
           /\ SumUpTo(s)[k + 1] = SumUpTo(s)[k] + s[k + 1]
<1> DEFINE p == SumUpTo(s)
<1>1. p \in [0..n -> Int] /\ \A j \in 1..n : p[j] = p[j - 1] + s[j]
  BY SumSteps
<1> HIDE DEF p
<1>2. k \in 0..n /\ k + 1 \in 0..n /\ k + 1 \in 1..n /\ (k + 1) - 1 = k
  OBVIOUS
<1>3. p[k] \in Int /\ p[k + 1] \in Int /\ p[k + 1] = p[k] + s[k + 1]
  BY <1>1, <1>2
<1> QED
  BY <1>3 DEF p

\* Terms that are congruent up to a factor have sums that are.
LEMMA SumScaled ==
    ASSUME NEW n \in Nat, NEW s \in [1..n -> Int], NEW t \in [1..n -> Int], NEW c \in Int,
           \A j \in 1..n : Cong(t[j], c * s[j])
    PROVE  Cong(SumOf(t), c * SumOf(s))
<1> DEFINE p == SumUpTo(s)
           q == SumUpTo(t)
           S == {k \in 0..n : Cong(q[k], c * p[k])}
<1>1. p[0] = 0 /\ q[0] = 0 /\ SumOf(s) = p[n] /\ SumOf(t) = q[n]
  BY SumSteps
<1>2. ASSUME NEW k \in 0..(n - 1)
      PROVE  /\ p[k] \in Int /\ p[k + 1] \in Int /\ q[k] \in Int /\ q[k + 1] \in Int
             /\ p[k + 1] = p[k] + s[k + 1] /\ q[k + 1] = q[k] + t[k + 1]
  BY SumStep
<1> HIDE DEF p, q
<1>3. 0 \in S
  <2>1. c * p[0] = q[0] /\ q[0] \in Int
    BY <1>1
  <2> QED
    BY <2>1, CongReflexive
<1>4. ASSUME NEW k \in 0..(n - 1), k \in S PROVE k + 1 \in S
  <2>1. k + 1 \in 0..n /\ k + 1 \in 1..n
    OBVIOUS
  <2> DEFINE a == p[k]
             b == q[k]
             d == s[k + 1]
             e == t[k + 1]
  <2>2. /\ a \in Int /\ b \in Int /\ d \in Int /\ e \in Int
        /\ p[k + 1] = a + d /\ q[k + 1] = b + e
        /\ Cong(b, c * a) /\ Cong(e, c * d)
    BY <1>2, <1>4, <2>1
  <2> HIDE DEF a, b, d, e
  <2> DEFINE ca == c * a
             cd == c * d
  <2>3. ca \in Int /\ cd \in Int /\ ca + cd = c * (a + d) /\ Cong(b, ca) /\ Cong(e, cd)
    BY <2>2
  <2> HIDE DEF ca, cd
  <2>4. Cong(b + e, ca + cd)
    BY <2>2, <2>3, CongAdd
  <2>5. Cong(q[k + 1], c * p[k + 1])
    BY <2>2, <2>3, <2>4
  <2> QED
    BY <2>1, <2>5
<1>5. 0..n \subseteq S
  <2> HIDE DEF S
  <2> QED
    BY <1>3, <1>4, InductionUpTo
<1>6. n \in 0..n
  OBVIOUS
<1> QED
  BY <1>1, <1>5, <1>6

LEMMA SumCong ==
    ASSUME NEW n \in Nat, NEW s \in [1..n -> Int], NEW t \in [1..n -> Int],
           \A j \in 1..n : Cong(t[j], s[j])
    PROVE  Cong(SumOf(t), SumOf(s))
<1>1. \A j \in 1..n : Cong(t[j], 1 * s[j])
  <2> SUFFICES ASSUME NEW j \in 1..n PROVE Cong(t[j], 1 * s[j])
    OBVIOUS
  <2>1. s[j] \in Int
    OBVIOUS
  <2>2. 1 * s[j] = s[j]
    BY <2>1
  <2> QED
    BY <2>2
<1>2. 1 \in Int /\ SumOf(s) \in Int
  BY SumType
<1>3. Cong(SumOf(t), 1 * SumOf(s))
  BY <1>1, <1>2, SumScaled, Zenon
<1>4. 1 * SumOf(s) = SumOf(s)
  BY <1>2
<1> QED
  BY <1>3, <1>4

\* Horner's rule, modulo P.
LEMMA HornerStep ==
    ASSUME NEW a \in Int, NEW b \in Int, NEW x \in Int, NEW c \in Int, NEW g \in Int,
           NEW s \in Int, Cong(b, a * x), Cong(s, b * g)
    PROVE  Cong(s + a * c, a * (c + x * g))
<1> DEFINE ax == a * x
           bg == b * g
           u == ax * g
           v == a * c
<1>1. ax \in Int /\ bg \in Int /\ u \in Int /\ v \in Int /\ u + v = a * (c + x * g)
  OBVIOUS
<1>2. Cong(b, ax) /\ Cong(s, bg)
  OBVIOUS
<1> HIDE DEF ax, u, v
<1>3. Cong(bg, u)
  BY <1>1, <1>2, CongMultiply DEF u
<1> HIDE DEF bg
<1>4. Cong(s, u)
  BY <1>1, <1>2, <1>3, CongTrans
<1>5. Cong(s + v, u + v)
  BY <1>1, <1>4, CongAdd, CongReflexive
<1> QED
  BY <1>1, <1>5 DEF v

\* A sum with a coefficient that is not zero is a polynomial of a degree below
\* the number of terms.
LEMMA SumIsPolynomial ==
    ASSUME NEW n \in Nat, NEW e \in [1..n -> Int], NEW top \in 1..n, ~Cong(e[top], 0)
    PROVE  \E d \in 0..(n - 1), l \in Int : \E g \in Polynomial(d, l) :
             /\ ~Cong(l, 0)
             /\ \A x \in Int : Cong(SumOf([i \in 1..n |-> Power(x, i - 1) * e[i]]), g[x])
<1> DEFINE E(x) == [i \in 1..n |-> Power(x, i - 1) * e[i]]
           p(x) == SumUpTo(E(x))
           rest(x, j) == p(x)[n] - p(x)[j]
           Nothing(t) == /\ \A i \in 1..n : i > n - t => Cong(e[i], 0)
                         /\ \A x \in Int : Cong(rest(x, n - t), 0)
           Is(g, t) == \A x \in Int : Cong(rest(x, n - t), Power(x, n - t) * g[x])
           Some(t) == \E d \in 0..(t - 1), l \in Int : \E g \in Polynomial(d, l) :
                        ~Cong(l, 0) /\ Is(g, t)
           S == {t \in 0..n : Nothing(t) \/ Some(t)}
<1>1. ASSUME NEW x \in Int
      PROVE  /\ E(x) \in [1..n -> Int]
             /\ \A i \in 1..n : E(x)[i] = Power(x, i - 1) * e[i] /\ Power(x, i - 1) \in Int
  <2>1. \A i \in 1..n : Power(x, i - 1) \in Int
    <3> SUFFICES ASSUME NEW i \in 1..n PROVE Power(x, i - 1) \in Int
      OBVIOUS
    <3>1. i - 1 \in Nat
      OBVIOUS
    <3> QED
      BY <3>1, PowerType
  <2> QED
    BY <2>1
<1>2. ASSUME NEW x \in Int
      PROVE  p(x)[0] = 0 /\ SumOf(E(x)) = p(x)[n] /\ \A j \in 0..n : p(x)[j] \in Int
  <2> HIDE DEF E
  <2>1. p(x) \in [0..n -> Int] /\ p(x)[0] = 0 /\ SumOf(E(x)) = p(x)[n]
    BY <1>1, SumSteps
  <2> HIDE DEF p
  <2> QED
    BY <2>1
<1>3. ASSUME NEW x \in Int, NEW j \in 0..(n - 1)
      PROVE  p(x)[j + 1] = p(x)[j] + Power(x, j) * e[j + 1]
  <2>1. j + 1 \in 1..n /\ (j + 1) - 1 = j
    OBVIOUS
  <2>2. E(x)[j + 1] = Power(x, j) * e[j + 1]
    BY <2>1
  <2>3. E(x) \in [1..n -> Int]
    BY <1>1
  <2> HIDE DEF E
  <2>4. p(x)[j + 1] = p(x)[j] + E(x)[j + 1]
    BY <2>3, SumStep, Zenon
  <2> QED
    BY <2>2, <2>4
<1> HIDE DEF p, E
<1>4. 0 \in S
  <2>1. Nothing(0)
    <3>1. n - 0 = n /\ n \in 0..n
      OBVIOUS
    <3>2. ASSUME NEW x \in Int PROVE Cong(rest(x, n), 0)
      <4>1. p(x)[n] \in Int
        BY <1>2, <3>1
      <4>2. rest(x, n) = 0
        BY <4>1
      <4> QED
        BY <4>2, CongReflexive
    <3> QED
      BY <3>1, <3>2
  <2> HIDE DEF Nothing, Some
  <2> QED
    BY <2>1
<1>5. ASSUME NEW t \in 0..(n - 1), t \in S PROVE t + 1 \in S
  <2> DEFINE j == n - (t + 1)
  <2>1. /\ t + 1 \in 0..n /\ j \in 0..(n - 1) /\ j + 1 = n - t /\ j + 1 \in 1..n
        /\ j \in 0..n /\ j + 1 \in 0..n /\ j \in Nat /\ t \in Nat
    OBVIOUS
  <2>2. e[j + 1] \in Int
    BY <2>1
  <2> HIDE DEF j
  <2>3. ASSUME NEW x \in Int
        PROVE  /\ rest(x, j) = rest(x, j + 1) + Power(x, j) * e[j + 1]
               /\ rest(x, j) \in Int /\ rest(x, j + 1) \in Int
               /\ Power(x, j) \in Int /\ Power(x, j + 1) \in Int
               /\ Cong(Power(x, j + 1), Power(x, j) * x)
    <3> DEFINE a == Power(x, j)
               b == Power(x, j + 1)
               ax == a * x
    <3>1. a \in Int /\ b = ax % P
      BY <2>1, PowerSteps
    <3> HIDE DEF a, b
    <3>2. ax \in Int
      BY <3>1
    <3>3. Cong(b, ax) /\ b \in Int
      <4> HIDE DEF ax
      <4> QED
        BY <3>1, <3>2, CongRemainder
    <3>4. p(x)[j + 1] = p(x)[j] + a * e[j + 1]
      BY <1>3, <2>1 DEF a
    <3>5. p(x)[n] \in Int /\ p(x)[j] \in Int /\ p(x)[j + 1] \in Int
      BY <1>2, <2>1
    <3> DEFINE ae == a * e[j + 1]
               u == p(x)[j]
               v == p(x)[j + 1]
               w == p(x)[n]
    <3>6. ae \in Int
      BY <2>2, <3>1
    <3>8. u \in Int /\ v \in Int /\ w \in Int /\ v = u + ae
      BY <3>4, <3>5, Zenon
    <3> HIDE DEF ae, u, v, w
    <3>7. w - u = (w - v) + ae /\ w - u \in Int /\ w - v \in Int
      BY <3>6, <3>8
    <3> QED
      BY <3>1, <3>3, <3>7 DEF a, b, ae, u, v, w
  <2>4. ASSUME Nothing(t) PROVE Nothing(t + 1) \/ Some(t + 1)
    <3>1. CASE Cong(e[j + 1], 0)
      <4>1. \A i \in 1..n : i > j => Cong(e[i], 0)
        BY <2>1, <2>4, <3>1
      <4>2. ASSUME NEW x \in Int PROVE Cong(rest(x, j), 0)
        <5> DEFINE u == rest(x, j + 1)
                   v == Power(x, j) * e[j + 1]
        <5>1. u \in Int /\ rest(x, j) = u + v /\ Cong(u, 0)
          BY <2>1, <2>3, <2>4
        <5>2. Power(x, j) \in Int
          BY <2>3
        <5>3. v \in Int /\ Cong(v, 0)
          <6>1. Cong(v, 0)
            BY <2>2, <3>1, <5>2, CongTimesZero, Zenon
          <6> QED
            BY <2>2, <5>2, <6>1
        <5> HIDE DEF u, v
        <5>4. Cong(u + v, 0 + 0) /\ 0 + 0 = 0
          BY <5>1, <5>3, CongAdd
        <5> QED
          BY <5>1, <5>4
      <4>3. Nothing(t + 1)
        BY <4>1, <4>2 DEF j
      <4> QED
        BY <4>3
    <3>2. CASE ~Cong(e[j + 1], 0)
      <4> DEFINE l == e[j + 1]
      <4>1. Const(l) \in Polynomial(0, l) /\ \A x \in Int : Const(l)[x] = l
        BY <2>2, PolyConst DEF Const
      <4>2. ASSUME NEW x \in Int PROVE Cong(rest(x, j), Power(x, j) * Const(l)[x])
        <5> DEFINE u == rest(x, j + 1)
                   v == Power(x, j) * l
        <5>1. u \in Int /\ rest(x, j) = u + v /\ Cong(u, 0) /\ Power(x, j) \in Int
          BY <2>1, <2>3, <2>4
        <5>2. v \in Int /\ v = Power(x, j) * Const(l)[x] /\ 0 + v = v
          BY <2>2, <4>1, <5>1
        <5> HIDE DEF u, v, l
        <5>3. Cong(u + v, 0 + v)
          <6>1. 0 \in Int /\ Cong(v, v)
            BY <5>2, CongReflexive
          <6> QED
            BY <5>1, <5>2, <6>1, CongAdd, Zenon
        <5> QED
          BY <5>1, <5>2, <5>3
      <4>3. Is(Const(l), t + 1)
        BY <4>2 DEF j
      <4>4. 0 \in 0..((t + 1) - 1)
        BY <2>1
      <4> HIDE DEF Is
      <4>5. Some(t + 1)
        BY <2>2, <3>2, <4>1, <4>3, <4>4
      <4> QED
        BY <4>5
    <3> QED
      BY <3>1, <3>2
  <2>5. ASSUME Some(t) PROVE Some(t + 1)
    <3>1. PICK d \in 0..(t - 1), l \in Int : \E g \in Polynomial(d, l) :
                        ~Cong(l, 0) /\ Is(g, t)
      <4> HIDE DEF Is
      <4> QED
        BY <2>5
    <3>2. PICK g \in Polynomial(d, l) : ~Cong(l, 0) /\ Is(g, t)
      BY <3>1
    <3> DEFINE c == e[j + 1]
               h == Horner(c, g)
    <3>3. d \in Nat /\ d + 1 \in 0..((t + 1) - 1)
      BY <2>1
    <3>4. g \in [Int -> Int]
      BY <3>3, PolynomialType
    <3>5. h \in Polynomial(d + 1, l) /\ \A x \in Int : h[x] = c + x * g[x]
      BY <2>2, <3>3, <3>4, PolyHorner, HornerType
    <3> HIDE DEF h
    <3>6. ASSUME NEW x \in Int PROVE Cong(rest(x, j), Power(x, j) * h[x])
      <4> DEFINE a == Power(x, j)
                 b == Power(x, j + 1)
                 s == rest(x, j + 1)
                 gx == g[x]
      <4>1. a \in Int /\ b \in Int /\ s \in Int /\ gx \in Int /\ Cong(b, a * x)
            /\ rest(x, j) = s + a * c
        BY <2>3, <3>4
      <4>2. Cong(s, b * gx)
        BY <2>1, <3>2
      <4>3. h[x] = c + x * gx
        BY <3>5
      <4> HIDE DEF a, b, s, gx, c
      <4>4. c \in Int
        BY <2>2 DEF c
      <4>5. Cong(s + a * c, a * (c + x * gx))
        BY <4>1, <4>2, <4>4, HornerStep, Zenon
      <4> QED
        BY <4>1, <4>3, <4>5 DEF a
    <3>7. Is(h, t + 1)
      BY <3>6 DEF j
    <3> HIDE DEF Is
    <3> QED
      BY <3>2, <3>3, <3>5, <3>7
  <2> HIDE DEF Nothing, Some
  <2> QED
    BY <1>5, <2>1, <2>4, <2>5
<1>6. 0..n \subseteq S
  <2> HIDE DEF S
  <2> QED
    BY <1>4, <1>5, InductionUpTo
<1>7. n \in 0..n /\ n - n = 0 /\ top > 0 /\ top \in 1..n
  OBVIOUS
<1>8. ~Nothing(n)
  BY <1>7
<1>9. Some(n)
  <2> HIDE DEF Nothing, Some
  <2> QED
    BY <1>6, <1>7, <1>8
<1>10. PICK d \in 0..(n - 1), l \in Int : \E g \in Polynomial(d, l) : ~Cong(l, 0) /\ Is(g, n)
  <2> HIDE DEF Is
  <2> QED
    BY <1>9
<1>11. PICK g \in Polynomial(d, l) : ~Cong(l, 0) /\ Is(g, n)
  BY <1>10
<1>12. ASSUME NEW x \in Int PROVE Cong(SumOf(E(x)), g[x])
  <2>1. d \in Nat
    OBVIOUS
  <2>2. g[x] \in Int
    BY <2>1, PolynomialType
  <2>3. Power(x, 0) = 1
    <3>1. 0 \in Nat
      OBVIOUS
    <3> QED
      BY <3>1, PowerSteps
  <2>4. p(x)[n] \in Int /\ p(x)[0] = 0 /\ SumOf(E(x)) = p(x)[n]
    BY <1>2, <1>7
  <2>5. rest(x, 0) = SumOf(E(x)) /\ Power(x, 0) * g[x] = g[x]
    BY <2>2, <2>3, <2>4
  <2> QED
    BY <1>7, <1>11, <2>5
<1> QED
  BY <1>11, <1>12 DEF E

-----------------------------------------------------------------------------
(***************************************************************************)
(* Fermat's theorem: Inv inverts.                                          *)
(***************************************************************************)

LEMMA CongDifference ==
    ASSUME NEW a \in Int, NEW b \in Int
    PROVE  Cong(a - b, 0) <=> Cong(a, b)
<1>1. ASSUME Cong(a, b) PROVE Cong(a - b, 0)
  <2>1. Cong(a - b, b - b)
    BY <1>1, CongSubtract, CongReflexive
  <2>2. b - b = 0
    OBVIOUS
  <2> QED
    BY <2>1, <2>2
<1>2. ASSUME Cong(a - b, 0) PROVE Cong(a, b)
  <2> DEFINE d == a - b
  <2>1. d \in Int /\ d + b = a /\ 0 + b = b /\ 0 \in Int
    OBVIOUS
  <2>2. Cong(d, 0)
    BY <1>2
  <2> HIDE DEF d
  <2>3. Cong(d + b, 0 + b)
    BY <2>1, <2>2, CongAdd, CongReflexive
  <2> QED
    BY <2>1, <2>3
<1> QED
  BY <1>1, <1>2

\* No two of 1..(P - 1) are congruent, and none is zero.
LEMMA Residues ==
    ASSUME NEW j \in 1..(P - 1)
    PROVE  j \in Int /\ j \in Fr /\ ~Cong(j, 0)
           /\ \A k \in 1..(P - 1) : Cong(j, k) => j = k
<1>1. j \in Int /\ j \in Fr /\ j # 0 /\ 0 \in Fr /\ 1..(P - 1) \subseteq Fr
  BY FieldFacts DEF Fr
<1> QED
  BY <1>1, CongEqual

\* The multiples of x run through the numbers that are not zero: each is a root
\* of the product of the factors y - k.
LEMMA MultipleIsRoot ==
    ASSUME NEW n \in Nat, n = P - 1, NEW y \in Int, ~Cong(y, 0),
           NEW r \in [1..n -> Int], \A k \in 1..n : r[k] = k
    PROVE  Cong(ProductOf(Factors(n, r, 0, y)), 0)
<1> DEFINE k == y % P
           F == Factors(n, r, 0, y)
<1>1. k \in Fr /\ Cong(k, y) /\ k \in Int /\ k # 0
  BY DivMod, CongRemainder, CongZero
<1>2. k \in 1..n /\ k # 0 /\ 0 # k
  BY <1>1, FieldFacts DEF Fr
<1> HIDE DEF k
<1>3. Cong(y, k)
  BY <1>1, CongSymmetric
<1>4. Cong(y - k, 0)
  BY <1>1, <1>3, CongDifference
<1>5. F \in [1..n -> Int]
  BY FactorsType
<1>6. F[k] \in Int /\ Cong(F[k], y - r[k])
  BY <1>2, FactorAt, Zenon
<1>7. Cong(F[k], y - k) /\ y - k \in Int /\ 0 \in Int
  BY <1>1, <1>2, <1>6
<1> HIDE DEF F
<1> DEFINE u == y - k
<1>8. Cong(F[k], u) /\ Cong(u, 0) /\ u \in Int /\ 0 \in Int /\ F[k] \in Int
  BY <1>4, <1>6, <1>7
<1> HIDE DEF u
<1>9. Cong(F[k], 0)
  BY <1>8, CongTrans
<1> QED
  BY <1>2, <1>5, <1>9, ProductZero DEF F

\* Fermat's theorem: a number that is not zero in the field has 1 as its power
\* P - 1.  It is what the inverses in the barycentric formula rest on
\* (evaluate_polynomial_in_evaluation_form).
LEMMA Fermat ==
    ASSUME NEW x \in Int, ~Cong(x, 0)
    PROVE  Cong(Power(x, P - 1), 1)
<1> DEFINE n == P - 1
           r == [k \in 1..n |-> k]
           s == [k \in 1..n |-> x * k]
           A == ProductOf(Factors(n, r, 0, 0))
           B == ProductOf(Factors(n, s, 0, 0))
<1>0. n \in Nat /\ 0 \in Int /\ 0 \in Nat /\ 1 \in Int
  BY FieldFacts
<1>1. r \in [1..n -> Int] /\ s \in [1..n -> Int]
      /\ \A k \in 1..n : r[k] = k /\ s[k] = x * k /\ r[k] \in Int /\ s[k] \in Int
  OBVIOUS
<1>2. \A k \in 1..n : ~Cong(s[k], 0)
  <2> SUFFICES ASSUME NEW k \in 1..n, Cong(x * k, 0) PROVE FALSE
    BY <1>1
  <2>1. k \in Int /\ ~Cong(k, 0)
    BY Residues
  <2> QED
    BY <2>1, NoZeroDivisors
<1>3. \A j, k \in 1..n : j # k => ~Cong(s[j], s[k])
  <2> SUFFICES ASSUME NEW j \in 1..n, NEW k \in 1..n, Cong(x * j, x * k) PROVE j = k
    BY <1>1
  <2>1. j \in Int /\ k \in Int /\ x * j = j * x /\ x * k = k * x
    BY Residues
  <2>2. Cong(j, k)
    <3>1. Cong(j * x, k * x)
      BY <2>1
    <3> QED
      BY <2>1, <3>1, CongCancel
  <2> QED
    BY <2>2, Residues
<1> HIDE DEF r, s
<1>4. PICK f \in Polynomial(n, 1) : \A y \in Int : Cong(f[y], ProductOf(Factors(n, r, 0, y)))
  <2> HIDE DEF n
  <2> QED
    BY <1>0, <1>1, ProductIsPolynomial, Zenon
<1>5. ASSUME NEW y \in Int
      PROVE  f[y] \in Int /\ ProductOf(Factors(n, r, 0, y)) \in Int
             /\ ProductOf(Factors(n, s, 0, y)) \in Int
  <2> HIDE DEF n
  <2>1. f[y] \in Int
    BY <1>0, PolynomialType, Zenon
  <2>2. Factors(n, r, 0, y) \in [1..n -> Int] /\ Factors(n, s, 0, y) \in [1..n -> Int]
    BY <1>0, <1>1, FactorsType, Zenon
  <2> QED
    BY <1>0, <2>1, <2>2, ProductType, Zenon
<1>6. ASSUME NEW j \in 1..n PROVE Cong(f[s[j]], 0)
  <2> DEFINE y == s[j]
             u == f[y]
             v == ProductOf(Factors(n, r, 0, y))
  <2>1. y \in Int /\ ~Cong(y, 0)
    BY <1>1, <1>2, Zenon
  <2> HIDE DEF y
  <2>2. u \in Int /\ v \in Int /\ Cong(u, v)
    BY <1>4, <1>5, <2>1, Zenon
  <2>3. Cong(v, 0)
    BY <1>0, <1>1, <2>1, MultipleIsRoot, Zenon
  <2> HIDE DEF u, v
  <2>4. Cong(u, 0)
    BY <1>0, <2>2, <2>3, CongTrans, Zenon
  <2> QED
    BY <2>4 DEF u, y
<1>7. \A y \in Int : Cong(f[y], ProductOf(Factors(n, s, 0, y)))
  <2> HIDE DEF n
  <2>1. (1..n) \ {0} = 1..n /\ (IF 0 \in 1..n THEN n - 1 ELSE n) = n
    BY <1>0
  <2>2. f \in Polynomial(IF 0 \in 1..n THEN n - 1 ELSE n, 1)
    BY <2>1
  <2>3. /\ \A j, k \in (1..n) \ {0} : j # k => ~Cong(s[j], s[k])
        /\ \A j \in (1..n) \ {0} : Cong(f[s[j]], 0)
    BY <1>3, <1>6, <2>1, Zenon
  <2> QED
    BY <1>0, <1>1, <2>2, <2>3, FactorTheorem, Zenon
<1>8. Cong(f[0], A) /\ Cong(f[0], B) /\ f[0] \in Int /\ A \in Int /\ B \in Int
  BY <1>0, <1>4, <1>5, <1>7, Zenon
<1>9. ~Cong(A, 0)
  <2> SUFFICES ASSUME Cong(A, 0) PROVE FALSE
    OBVIOUS
  <2> DEFINE F == Factors(n, r, 0, 0)
  <2>1. F \in [1..n -> Int]
    BY <1>0, <1>1, FactorsType, Zenon
  <2>2. PICK k \in 1..n : Cong(F[k], 0)
    BY <1>0, <2>1, ProductZero, Zenon
  <2>3. k \in Int /\ ~Cong(k, 0) /\ k # 0
    BY Residues
  <2>4. F[k] \in Int /\ Cong(F[k], 0 - r[k])
    BY <1>0, <1>1, <2>3, FactorAt, Zenon
  <2> HIDE DEF F
  <2> DEFINE v == 0 - k
  <2>5. Cong(F[k], v) /\ v \in Int
    BY <1>1, <2>3, <2>4
  <2> HIDE DEF v
  <2>6. Cong(v, 0)
    BY <1>0, <2>2, <2>4, <2>5, CongSymmetric, CongTrans
  <2>7. Cong(0, k)
    BY <1>0, <2>3, <2>6, CongDifference DEF v
  <2> QED
    BY <1>0, <2>3, <2>7, CongSymmetric
<1>10. Cong(B, Power(x, n) * A)
  <2> DEFINE F == Factors(n, r, 0, 0)
             G == Factors(n, s, 0, 0)
  <2>1. F \in [1..n -> Int] /\ G \in [1..n -> Int]
    BY <1>0, <1>1, FactorsType, Zenon
  <2>2. ASSUME NEW j \in 1..n PROVE Cong(G[j], x * F[j])
    <3>1. j \in Int /\ j # 0
      BY Residues
    <3>2. /\ F[j] \in Int /\ Cong(F[j], 0 - r[j]) 
          /\ G[j] \in Int /\ Cong(G[j], 0 - s[j])
      BY <1>0, <1>1, <3>1, FactorAt, Zenon
    <3> DEFINE a == F[j]
               b == G[j]
               v == 0 - j
               w == x * v
    <3>3. v \in Int /\ w \in Int /\ 0 - r[j] = v /\ 0 - s[j] = w
      BY <1>1, <3>1
    <3>4. a \in Int /\ b \in Int /\ Cong(a, v) /\ Cong(b, w)
      BY <3>2, <3>3
    <3> HIDE DEF a, b, v, F, G
    <3>5. x * a \in Int /\ Cong(x * a, x * v)
      <4>1. Cong(x * a, x * v)
        BY <3>3, <3>4, CongMultiply, Zenon
      <4>2. x * a \in Int
        BY <3>4
      <4> QED
        BY <4>1, <4>2
    <3> DEFINE xa == x * a
    <3> HIDE DEF w
    <3>6. xa \in Int /\ Cong(xa, w)
      BY <3>5 DEF w
    <3> HIDE DEF xa
    <3>7. Cong(b, xa)
      BY <3>3, <3>4, <3>6, CongJoin
    <3> QED
      BY <3>7 DEF a, b, xa
  <2> HIDE DEF F, G, n
  <2>3. Cong(ProductOf(G), Power(x, n) * ProductOf(F))
    BY <1>0, <2>1, <2>2, ProductScaled, Zenon
  <2> QED
    BY <2>3 DEF F, G
<1> DEFINE p == Power(x, n)
<1>11. p \in Int
  BY <1>0, PowerType
<1> HIDE DEF p, A, B
<1> DEFINE pA == p * A
<1>12. pA \in Int /\ 1 * A = A /\ A * p = pA /\ Cong(B, pA)
  BY <1>8, <1>10, <1>11 DEF p
<1> HIDE DEF pA
<1>13. Cong(A, f[0]) /\ Cong(f[0], B) /\ Cong(B, pA)
  BY <1>8, <1>12, CongSymmetric
<1>14. Cong(A, B)
  BY <1>8, <1>13, CongTrans
<1>15. Cong(A, pA)
  BY <1>8, <1>12, <1>14, CongTrans
<1>16. Cong(p * A, 1 * A)
  BY <1>8, <1>12, <1>15, CongSymmetric DEF pA
<1>17. Cong(p, 1)
  BY <1>0, <1>8, <1>9, <1>11, <1>16, CongCancel
<1> QED
  BY <1>17 DEF p

\* Inv inverts every number that is not zero in the field, as the division by
\* z - root in the barycentric formula needs (Fr::inverse, in
\* evaluate_polynomial_in_evaluation_form).
THEOREM FieldInverse ==
    ASSUME NEW x \in Int, ~Cong(x, 0)
    PROVE  Cong(x * Inv(x), 1) /\ Cong(Inv(x) * x, 1)
<1> DEFINE i == Inv(x)
           u == i * x
<1>1. i \in Int /\ i = Power(x, P - 2)
  BY InvType DEF Inv
<1>2. P - 2 \in Nat /\ (P - 2) + 1 = P - 1
  BY FieldFacts
<1>3. Power(x, (P - 2) + 1) = (Power(x, P - 2) * x) % P
  BY <1>2, PowerSteps, Zenon
<1>4. Power(x, P - 1) = u % P
  BY <1>1, <1>2, <1>3
<1>5. Cong(Power(x, P - 1), 1)
  BY Fermat
<1> HIDE DEF i
<1>6. u \in Int /\ x * i = u /\ 1 \in Int
  BY <1>1
<1> HIDE DEF u
<1> DEFINE v == u % P
<1>7. v \in Int /\ Cong(v, u) /\ Cong(v, 1)
  BY <1>4, <1>5, <1>6, CongRemainder
<1> HIDE DEF v
<1>8. Cong(u, v)
  BY <1>6, <1>7, CongSymmetric
<1>9. Cong(u, 1)
  BY <1>6, <1>7, <1>8, CongTrans
<1> QED
  BY <1>6, <1>9 DEF u, i

-----------------------------------------------------------------------------
(***************************************************************************)
(* Powers, and the quotient of a difference of powers.                     *)
(***************************************************************************)

LEMMA PowerStep ==
    ASSUME NEW x \in Int, NEW n \in Nat
    PROVE  /\ Power(x, n) \in Int /\ Power(x, n + 1) \in Int
           /\ Cong(Power(x, n + 1), Power(x, n) * x)
<1> DEFINE a == Power(x, n)
           b == Power(x, n + 1)
           ax == a * x
<1>1. a \in Int /\ b = ax % P
  BY PowerSteps
<1> HIDE DEF a, b
<1>2. ax \in Int
  BY <1>1
<1>3. Cong(b, ax) /\ b \in Int
  <2> HIDE DEF ax
  <2> QED
    BY <1>1, <1>2, CongRemainder
<1> QED
  BY <1>1, <1>3 DEF a, b

LEMMA PowerFirst ==
    ASSUME NEW x \in Int
    PROVE  Power(x, 0) = 1 /\ Cong(Power(x, 1), x) /\ Power(x, 1) \in Int
<1>1. 0 \in Nat /\ 0 + 1 = 1 /\ 1 * x = x
  OBVIOUS
<1>2. Power(x, 0) = 1
  BY <1>1, PowerSteps
<1>3. Power(x, 0 + 1) \in Int /\ Cong(Power(x, 0 + 1), Power(x, 0) * x)
  BY <1>1, PowerStep, Zenon
<1> QED
  BY <1>1, <1>2, <1>3

LEMMA MultiplyStep ==
    ASSUME NEW a \in Int, NEW b \in Int, NEW c \in Int, NEW d \in Int, NEW x \in Int,
           NEW u \in Int, Cong(u, a * b), Cong(c, u * x), Cong(d, b * x)
    PROVE  Cong(c, a * d)
<1>0. P \in Int
  BY FieldFacts
<1>1. PICK k \in Int : u = a * b + k * P
  BY DEF Cong
<1>2. PICK l \in Int : c = u * x + l * P
  BY DEF Cong
<1>3. PICK m \in Int : d = b * x + m * P
  BY DEF Cong
<1>4. k * x + l - a * m \in Int
  OBVIOUS
<1>5. c = a * d + (k * x + l - a * m) * P
  BY <1>0, <1>1, <1>2, <1>3
<1> QED
  BY <1>4, <1>5 DEF Cong

LEMMA PowerAdd ==
    ASSUME NEW x \in Int, NEW m \in Nat, NEW n \in Nat
    PROVE  Cong(Power(x, m + n), Power(x, m) * Power(x, n))
<1> DEFINE S == {k \in 0..n : Cong(Power(x, m + k), Power(x, m) * Power(x, k))}
<1>1. 0 \in S
  <2>1. m + 0 = m /\ 0 \in 0..n
    OBVIOUS
  <2>2. Power(x, 0) = 1 /\ Power(x, m) \in Int
    BY PowerFirst, PowerType
  <2>3. Power(x, m) * Power(x, 0) = Power(x, m)
    BY <2>2
  <2> QED
    BY <2>1, <2>2, <2>3, CongReflexive
<1>2. ASSUME NEW k \in 0..(n - 1), k \in S PROVE k + 1 \in S
  <2>1. k \in Nat /\ k + 1 \in 0..n /\ m + k \in Nat /\ m + (k + 1) = (m + k) + 1
    OBVIOUS
  <2> DEFINE a == Power(x, m)
             b == Power(x, k)
             d == Power(x, k + 1)
             u == Power(x, m + k)
             c == Power(x, (m + k) + 1)
  <2>2. a \in Int /\ b \in Int /\ d \in Int /\ u \in Int /\ c \in Int
    BY <2>1, PowerType, PowerStep
  <2>3. Cong(u, a * b) /\ Cong(c, u * x) /\ Cong(d, b * x)
    BY <1>2, <2>1, PowerStep
  <2> HIDE DEF a, b, c, d, u
  <2>4. Cong(c, a * d)
    BY <2>2, <2>3, MultiplyStep, Zenon
  <2>5. Cong(Power(x, m + (k + 1)), Power(x, m) * Power(x, k + 1))
    BY <2>1, <2>4 DEF a, c, d
  <2> QED
    BY <2>1, <2>5
<1>3. 0..n \subseteq S
  <2> HIDE DEF S
  <2> QED
    BY <1>1, <1>2, InductionUpTo
<1>4. n \in 0..n
  OBVIOUS
<1> QED
  BY <1>3, <1>4

\* The power of a product, given up to congruence.
LEMMA PowerProduct ==
    ASSUME NEW x \in Int, NEW y \in Int, NEW z \in Int, Cong(z, x * y), NEW n \in Nat
    PROVE  Cong(Power(z, n), Power(x, n) * Power(y, n))
<1> DEFINE S == {k \in 0..n : Cong(Power(z, k), Power(x, k) * Power(y, k))}
<1>1. 0 \in S
  <2>1. Power(x, 0) = 1 /\ Power(y, 0) = 1 /\ Power(z, 0) = 1
    BY PowerFirst
  <2>2. Power(x, 0) * Power(y, 0) = Power(z, 0) /\ Power(z, 0) \in Int
    BY <2>1
  <2> QED
    BY <2>2, CongReflexive
<1>2. ASSUME NEW k \in 0..(n - 1), k \in S PROVE k + 1 \in S
  <2>1. k \in Nat /\ k + 1 \in 0..n
    OBVIOUS
  <2> DEFINE a == Power(x, k)
             b == Power(y, k)
             c == Power(z, k)
             e == Power(x, k + 1)
             f == Power(y, k + 1)
             d == Power(z, k + 1)
  <2>2. a \in Int /\ b \in Int /\ d \in Int /\ c \in Int /\ e \in Int /\ f \in Int
    BY <2>1, PowerStep
  <2>3. Cong(c, a * b) /\ Cong(d, c * z) /\ Cong(e, a * x) /\ Cong(f, b * y)
    BY <1>2, <2>1, PowerStep
  <2> HIDE DEF a, b, c, d, e, f
  <2>4. Cong(d, e * f)
    <3> DEFINE xy == x * y
               ab == a * b
               cz == c * z
               ax == a * x
               by == b * y
               w == ab * xy
    <3>1. /\ xy \in Int /\ ab \in Int /\ cz \in Int /\ ax \in Int /\ by \in Int /\ w \in Int
          /\ w = ax * by
      BY <2>2
    <3>2. Cong(z, xy) /\ Cong(c, ab) /\ Cong(d, cz) /\ Cong(e, ax) /\ Cong(f, by)
      BY <2>3
    <3> HIDE DEF xy, ab, ax, by, w
    <3>3. Cong(cz, w)
      BY <2>2, <3>1, <3>2, CongProduct DEF w
    <3> DEFINE ef == e * f
    <3>4. ef \in Int /\ Cong(ef, w)
      BY <2>2, <3>1, <3>2, CongProduct
    <3> HIDE DEF cz, ef
    <3>5. Cong(d, w)
      BY <2>2, <3>1, <3>2, <3>3, CongTrans
    <3>6. Cong(d, ef)
      BY <2>2, <3>1, <3>4, <3>5, CongJoin
    <3> QED
      BY <3>6 DEF ef
  <2> QED
    BY <2>1, <2>4 DEF d, e, f
<1>3. 0..n \subseteq S
  <2> HIDE DEF S
  <2> QED
    BY <1>1, <1>2, InductionUpTo
<1>4. n \in 0..n
  OBVIOUS
<1> QED
  BY <1>3, <1>4

LEMMA PowerOfOne ==
    ASSUME NEW n \in Nat
    PROVE  Cong(Power(1, n), 1)
<1> DEFINE S == {k \in 0..n : Cong(Power(1, k), 1)}
<1>0. 1 \in Int
  OBVIOUS
<1>1. 0 \in S
  BY <1>0, PowerFirst, CongReflexive
<1>2. ASSUME NEW k \in 0..(n - 1), k \in S PROVE k + 1 \in S
  <2>1. k \in Nat /\ k + 1 \in 0..n
    OBVIOUS
  <2> DEFINE a == Power(1, k)
             b == Power(1, k + 1)
  <2>2. a \in Int /\ b \in Int /\ Cong(b, a * 1) /\ Cong(a, 1)
    BY <1>0, <1>2, <2>1, PowerStep
  <2> HIDE DEF a, b
  <2>3. a * 1 = a
    BY <2>2
  <2>4. Cong(b, 1)
    BY <1>0, <2>2, <2>3, CongTrans
  <2> QED
    BY <2>1, <2>4 DEF b
<1>3. 0..n \subseteq S
  <2> HIDE DEF S
  <2> QED
    BY <1>1, <1>2, InductionUpTo
<1>4. n \in 0..n
  OBVIOUS
<1> QED
  BY <1>3, <1>4

\* The powers of a root of unity are roots of unity.
LEMMA PowerOfRoot ==
    ASSUME NEW w \in Int, NEW n \in Nat, Cong(Power(w, n), 1), NEW j \in Nat
    PROVE  Cong(Power(Power(w, j), n), 1)
<1> DEFINE S == {k \in 0..j : Cong(Power(Power(w, k), n), 1)}
<1>0. 1 \in Int
  OBVIOUS
<1>1. 0 \in S
  <2>1. Power(w, 0) = 1
    BY PowerFirst
  <2> QED
    BY <2>1, PowerOfOne
<1>2. ASSUME NEW k \in 0..(j - 1), k \in S PROVE k + 1 \in S
  <2>1. k \in Nat /\ k + 1 \in 0..j
    OBVIOUS
  <2> DEFINE x == Power(w, k)
             z == Power(w, k + 1)
             a == Power(x, n)
             b == Power(w, n)
             c == Power(z, n)
  <2>2. x \in Int /\ z \in Int /\ Cong(z, x * w)
    BY <2>1, PowerStep
  <2>3. Cong(a, 1) /\ Cong(b, 1)
    BY <1>2
  <2> HIDE DEF x, z
  <2>4. a \in Int /\ b \in Int /\ c \in Int
    BY <2>2, PowerType
  <2>5. Cong(c, a * b)
    BY <2>2, PowerProduct, Zenon
  <2> HIDE DEF a, b, c
  <2>6. Cong(a * b, 1 * 1) /\ 1 * 1 = 1 /\ a * b \in Int
    BY <1>0, <2>3, <2>4, CongProduct
  <2> DEFINE ab == a * b
  <2>7. ab \in Int /\ Cong(c, ab) /\ Cong(ab, 1)
    BY <2>5, <2>6
  <2> HIDE DEF ab
  <2>8. Cong(c, 1)
    BY <1>0, <2>4, <2>7, CongTrans
  <2> QED
    BY <2>1, <2>8 DEF c, z
<1>3. 0..j \subseteq S
  <2> HIDE DEF S
  <2> QED
    BY <1>1, <1>2, InductionUpTo
<1>4. j \in 0..j
  OBVIOUS
<1> QED
  BY <1>3, <1>4

LEMMA PowerNotZero ==
    ASSUME NEW x \in Int, ~Cong(x, 0), NEW n \in Nat
    PROVE  ~Cong(Power(x, n), 0)
<1> DEFINE S == {k \in 0..n : ~Cong(Power(x, k), 0)}
<1>0. 1 \in Int /\ 0 \in Int
  OBVIOUS
<1>1. 0 \in S
  <2>1. ~Cong(1, 0)
    BY CongEqual, FieldFacts
  <2> QED
    BY <2>1, PowerFirst
<1>2. ASSUME NEW k \in 0..(n - 1), k \in S PROVE k + 1 \in S
  <2>1. k \in Nat /\ k + 1 \in 0..n
    OBVIOUS
  <2> DEFINE a == Power(x, k)
             b == Power(x, k + 1)
             ax == a * x
  <2>2. a \in Int /\ b \in Int /\ Cong(b, ax) /\ ~Cong(a, 0)
    BY <1>2, <2>1, PowerStep
  <2> HIDE DEF a, b
  <2>3. ax \in Int /\ ~Cong(ax, 0)
    <3>1. ~Cong(a * x, 0)
      BY <2>2, NoZeroDivisors, Zenon
    <3> QED
      BY <2>2, <3>1
  <2> HIDE DEF ax
  <2>4. ~Cong(b, 0)
    BY <1>0, <2>2, <2>3, CongTrans, CongSymmetric
  <2> QED
    BY <2>1, <2>4 DEF b
<1>3. 0..n \subseteq S
  <2> HIDE DEF S
  <2> QED
    BY <1>1, <1>2, InductionUpTo
<1>4. n \in 0..n
  OBVIOUS
<1> QED
  BY <1>3, <1>4

LEMMA QuotientStep ==
    ASSUME NEW x \in Int, NEW a \in Int, NEW q \in Int, NEW am \in Int, NEW an \in Int,
           NEW xm \in Int, NEW xn \in Int,
           Cong(an, am * a), Cong(xn, xm * x), Cong((x - a) * q, xm - am)
    PROVE  Cong((x - a) * (am + x * q), xn - an)
<1>0. P \in Int
  BY FieldFacts
<1> DEFINE d == (x - a) * q
<1>1. PICK k \in Int : an = am * a + k * P
  BY DEF Cong
<1>2. PICK l \in Int : xn = xm * x + l * P
  BY DEF Cong
<1>3. PICK j \in Int : d = (xm - am) + j * P
  BY DEF Cong
<1>4. (x - a) * (am + x * q) = (x - a) * am + x * d
  OBVIOUS
<1>5. d \in Int
  OBVIOUS
<1> HIDE DEF d
<1>6. (x - a) * am + x * d = (xn - an) + (x * j - l + k) * P
  BY <1>0, <1>1, <1>2, <1>3, <1>5
<1>7. x * j - l + k \in Int
  OBVIOUS
<1> QED
  BY <1>4, <1>6, <1>7 DEF Cong

LEMMA DerivativeStep ==
    ASSUME NEW a \in Int, NEW q \in Int, NEW am \in Int, NEW an \in Int, NEW m \in Int,
           Cong(an, am * a), Cong(q * a, m * am)
    PROVE  Cong((am + a * q) * a, (m + 1) * an)
<1>0. P \in Int
  BY FieldFacts
<1> DEFINE d == q * a
<1>1. PICK k \in Int : an = am * a + k * P
  BY DEF Cong
<1>2. PICK j \in Int : d = m * am + j * P
  BY DEF Cong
<1>3. (am + a * q) * a = am * a + a * d /\ d \in Int
  OBVIOUS
<1> HIDE DEF d
<1>4. am * a + a * d = (m + 1) * an + (a * j - (m + 1) * k) * P
  BY <1>0, <1>1, <1>2, <1>3
<1>5. a * j - (m + 1) * k \in Int
  OBVIOUS
<1> QED
  BY <1>3, <1>4, <1>5 DEF Cong

\* x^n - a^n is divided by x - a; the quotient at a is n times a^n over a.
LEMMA PowerQuotient ==
    ASSUME NEW a \in Int, NEW N \in Nat
    PROVE  \E q \in Polynomial(N, 1) :
             /\ \A x \in Int : Cong((x - a) * q[x], Power(x, N + 1) - Power(a, N + 1))
             /\ Cong(q[a] * a, (N + 1) * Power(a, N + 1))
<1> DEFINE Divides(q, t) == \A x \in Int : Cong((x - a) * q[x], Power(x, t + 1) - Power(a, t + 1))
           Slope(q, t) == Cong(q[a] * a, (t + 1) * Power(a, t + 1))
           S == {t \in 0..N : \E q \in Polynomial(t, 1) : Divides(q, t) /\ Slope(q, t)}
<1>1. 0 \in S
  <2> DEFINE q == Const(1)
  <2>0. 0 + 1 = 1 /\ 1 \in Int /\ 0 \in 0..N
    OBVIOUS
  <2>1. q \in Polynomial(0, 1) /\ \A x \in Int : q[x] = 1
    BY <2>0, PolyConst DEF Const
  <2> HIDE DEF q
  <2>2. ASSUME NEW x \in Int PROVE Cong((x - a) * q[x], Power(x, 1) - Power(a, 1))
    <3> DEFINE u == Power(x, 1)
               v == Power(a, 1)
    <3>1. u \in Int /\ v \in Int /\ Cong(u, x) /\ Cong(v, a)
      BY PowerFirst
    <3> HIDE DEF u, v
    <3>2. Cong(x, u) /\ Cong(a, v)
      BY <3>1, CongSymmetric
    <3>3. Cong(x - a, u - v)
      BY <3>1, <3>2, CongSubtract
    <3>4. (x - a) * q[x] = x - a
      BY <2>1
    <3> QED
      BY <3>3, <3>4 DEF u, v
  <2>3. Cong(q[a] * a, 1 * Power(a, 1))
    <3> DEFINE v == Power(a, 1)
    <3>1. v \in Int /\ Cong(v, a)
      BY PowerFirst
    <3> HIDE DEF v
    <3>2. Cong(a, v)
      BY <3>1, CongSymmetric
    <3>3. q[a] * a = a /\ 1 * v = v
      BY <2>1, <3>1
    <3> QED
      BY <3>2, <3>3 DEF v
  <2>4. Divides(q, 0) /\ Slope(q, 0)
    BY <2>0, <2>2, <2>3
  <2> HIDE DEF Divides, Slope
  <2> QED
    BY <2>0, <2>1, <2>4
<1>2. ASSUME NEW t \in 0..(N - 1), t \in S PROVE t + 1 \in S
  <2>0. t \in Nat /\ t + 1 \in Nat /\ t + 1 \in 0..N /\ 1 \in Int
    OBVIOUS
  <2>1. PICK q \in Polynomial(t, 1) : Divides(q, t) /\ Slope(q, t)
    <3> HIDE DEF Divides, Slope
    <3> QED
      BY <1>2
  <2> DEFINE am == Power(a, t + 1)
             an == Power(a, (t + 1) + 1)
             h == Horner(am, q)
  <2>2. am \in Int /\ an \in Int /\ Cong(an, am * a)
    BY <2>0, PowerStep, Zenon
  <2>3. q \in [Int -> Int]
    BY <2>0, PolynomialType, Zenon
  <2>4. h \in Polynomial(t + 1, 1) /\ \A x \in Int : h[x] = am + x * q[x]
    <3> HIDE DEF am
    <3> QED
      BY <2>0, <2>2, <2>3, PolyHorner, HornerType
  <2> HIDE DEF h
  <2>5. ASSUME NEW x \in Int PROVE Cong((x - a) * h[x], Power(x, (t + 1) + 1) - an)
    <3> DEFINE xm == Power(x, t + 1)
               xn == Power(x, (t + 1) + 1)
               qx == q[x]
    <3>1. xm \in Int /\ xn \in Int /\ Cong(xn, xm * x)
      BY <2>0, PowerStep, Zenon
    <3>2. qx \in Int
      BY <2>3
    <3>3. Cong((x - a) * qx, xm - am)
      BY <2>1, Zenon
    <3> HIDE DEF xm, xn, qx, am, an
    <3>4. Cong((x - a) * (am + x * qx), xn - an)
      BY <2>2, <3>1, <3>2, <3>3, QuotientStep, Zenon
    <3>5. h[x] = am + x * qx
      BY <2>4 DEF qx
    <3> QED
      BY <3>4, <3>5 DEF xn
  <2>6. Cong(h[a] * a, ((t + 1) + 1) * an)
    <3> DEFINE qa == q[a]
               m == t + 1
    <3>2. qa \in Int /\ m \in Int
      BY <2>3
    <3>3. Cong(qa * a, m * am)
      BY <2>1, Zenon
    <3>5. h[a] = am + a * qa
      BY <2>4
    <3> HIDE DEF qa, am, an, m
    <3>4. Cong((am + a * qa) * a, (m + 1) * an)
      BY <2>2, <3>2, <3>3, DerivativeStep, Zenon
    <3> QED
      BY <3>4, <3>5 DEF m
  <2>7. Divides(h, t + 1) /\ Slope(h, t + 1)
    BY <2>5, <2>6, Zenon
  <2> HIDE DEF Divides, Slope
  <2> QED
    BY <2>0, <2>4, <2>7
<1>3. 0..N \subseteq S
  <2> HIDE DEF S
  <2> QED
    BY <1>1, <1>2, InductionUpTo
<1>4. N \in 0..N
  OBVIOUS
<1>5. \E q \in Polynomial(N, 1) : Divides(q, N) /\ Slope(q, N)
  <2> HIDE DEF Divides, Slope
  <2> QED
    BY <1>3, <1>4
<1> QED
  BY <1>5, Zenon

\* A sum with one term that is not zero.
LEMMA SumSingle ==
    ASSUME NEW n \in Nat, NEW s \in [1..n -> Int], NEW i \in 1..n,
           \A j \in 1..n : j # i => Cong(s[j], 0)
    PROVE  Cong(SumOf(s), s[i])
<1> DEFINE p == SumUpTo(s)
           S == {k \in 0..n : /\ k < i => Cong(p[k], 0)
                              /\ k >= i => Cong(p[k], s[i])}
<1>1. p[0] = 0 /\ SumOf(s) = p[n]
  BY SumSteps
<1>2. ASSUME NEW k \in 0..(n - 1)
      PROVE  p[k] \in Int /\ p[k + 1] = p[k] + s[k + 1]
  BY SumStep
<1>3. s[i] \in Int /\ 0 \in Int
  OBVIOUS
<1> HIDE DEF p
<1>4. 0 \in S
  <2>1. Cong(0, 0)
    BY CongReflexive
  <2> QED
    BY <1>1, <2>1
<1>5. ASSUME NEW k \in 0..(n - 1), k \in S PROVE k + 1 \in S
  <2>1. k + 1 \in 0..n /\ k + 1 \in 1..n
    OBVIOUS
  <2> DEFINE u == p[k]
             v == s[k + 1]
             w == s[i]
  <2>2. u \in Int /\ v \in Int /\ w \in Int /\ p[k + 1] = u + v
    BY <1>2, <2>1
  <2>3. CASE k + 1 < i
    <3>1. Cong(u, 0) /\ Cong(v, 0)
      BY <1>5, <2>1, <2>3
    <3> HIDE DEF u, v
    <3>2. Cong(u + v, 0 + 0) /\ 0 + 0 = 0
      BY <1>3, <2>2, <3>1, CongAdd
    <3> QED
      BY <2>1, <2>2, <2>3, <3>2
  <2>4. CASE k + 1 = i
    <3>1. Cong(u, 0) /\ v = w
      BY <1>5, <2>1, <2>4
    <3> HIDE DEF u, v, w
    <3>2. Cong(w, w)
      BY <2>2, CongReflexive
    <3>3. Cong(u + w, 0 + w)
      BY <1>3, <2>2, <3>1, <3>2, CongAdd, Zenon
    <3>4. 0 + w = w
      BY <2>2
    <3>5. Cong(p[k + 1], w)
      BY <2>2, <3>1, <3>3, <3>4
    <3> QED
      BY <2>1, <2>4, <3>5 DEF w
  <2>5. CASE k + 1 > i
    <3>1. Cong(u, w) /\ Cong(v, 0)
      BY <1>5, <2>1, <2>5
    <3> HIDE DEF u, v, w
    <3>2. Cong(u + v, w + 0)
      BY <1>3, <2>2, <3>1, CongAdd, Zenon
    <3>3. w + 0 = w
      BY <2>2
    <3>5. Cong(p[k + 1], w)
      BY <2>2, <3>2, <3>3
    <3> QED
      BY <2>1, <2>5, <3>5 DEF w
  <2> QED
    BY <2>1, <2>3, <2>4, <2>5
<1>6. 0..n \subseteq S
  <2> HIDE DEF S
  <2> QED
    BY <1>4, <1>5, InductionUpTo
<1>7. n \in 0..n /\ n >= i
  OBVIOUS
<1> QED
  BY <1>1, <1>6, <1>7

-----------------------------------------------------------------------------
(***************************************************************************)
(* Roots of unity, and the polynomials that are zero at all but one.       *)
(***************************************************************************)

PrimitiveRoot(w, n) ==
    /\ w \in Int /\ n \in Nat \ {0}
    /\ Cong(Power(w, n), 1)
    /\ \A m \in 1..(n - 1) : ~Cong(Power(w, m), 1)

Points(w, n) == [j \in 1..n |-> Power(w, j - 1)]

Over(w, n, i, x) == ProductOf(Factors(n, Points(w, n), i, x))

LEMMA PointsType ==
    ASSUME NEW w, NEW n, PrimitiveRoot(w, n)
    PROVE  /\ n \in Nat /\ n - 1 \in Nat /\ (n - 1) + 1 = n
           /\ Points(w, n) \in [1..n -> Int]
           /\ \A i \in 1..n : Points(w, n)[i] = Power(w, i - 1) /\ Points(w, n)[i] \in Int
                              /\ Points(w, n)[i] \in Fr
<1>1. w \in Int /\ n \in Nat /\ n - 1 \in Nat /\ (n - 1) + 1 = n
  BY DEF PrimitiveRoot
<1>2. \A i \in 1..n : Power(w, i - 1) \in Int /\ Power(w, i - 1) \in Fr
  <2> SUFFICES ASSUME NEW i \in 1..n PROVE Power(w, i - 1) \in Int /\ Power(w, i - 1) \in Fr
    OBVIOUS
  <2>1. i - 1 \in Nat
    BY <1>1
  <2> QED
    BY <1>1, <2>1, PowerType
<1> QED
  BY <1>1, <1>2 DEF Points

LEMMA RootNotZero ==
    ASSUME NEW w, NEW n, PrimitiveRoot(w, n)
    PROVE  ~Cong(w, 0)
<1> SUFFICES ASSUME Cong(w, 0) PROVE FALSE
  OBVIOUS
<1>1. w \in Int /\ n - 1 \in Nat /\ (n - 1) + 1 = n /\ Cong(Power(w, n), 1) /\ 1 \in Int
      /\ 0 \in Int
  BY DEF PrimitiveRoot
<1> DEFINE a == Power(w, n - 1)
           b == Power(w, n)
           aw == a * w
<1>2. a \in Int /\ Power(w, (n - 1) + 1) \in Int /\ Cong(Power(w, (n - 1) + 1), a * w)
  BY <1>1, PowerStep, Zenon
<1>3. b \in Int /\ Cong(b, aw) /\ Cong(b, 1)
  BY <1>1, <1>2
<1> HIDE DEF a, b
<1>4. aw \in Int /\ Cong(aw, 0)
  <2>1. Cong(aw, 0)
    BY <1>1, <1>2, CongTimesZero, Zenon
  <2> QED
    BY <1>1, <1>2, <2>1
<1> HIDE DEF aw
<1>5. Cong(b, 0)
  BY <1>1, <1>3, <1>4, CongTrans
<1>6. Cong(1, b)
  BY <1>1, <1>3, CongSymmetric
<1>7. Cong(1, 0)
  BY <1>1, <1>3, <1>5, <1>6, CongTrans
<1> QED
  BY <1>7, CongEqual, FieldFacts

LEMMA PointsDiffer ==
    ASSUME NEW w, NEW n, PrimitiveRoot(w, n), NEW i \in 1..n, NEW j \in 1..n, i < j
    PROVE  ~Cong(Points(w, n)[i], Points(w, n)[j]) /\ ~Cong(Points(w, n)[j], Points(w, n)[i])
<1>1. /\ w \in Int /\ n \in Nat /\ 1 \in Int
      /\ Points(w, n)[i] = Power(w, i - 1) /\ Points(w, n)[j] = Power(w, j - 1)
  BY PointsType DEF PrimitiveRoot
<1> DEFINE m == j - i
           a == Power(w, i - 1)
           b == Power(w, m)
           c == Power(w, j - 1)
<1>2. m \in 1..(n - 1) /\ m \in Nat /\ i - 1 \in Nat /\ j - 1 \in Nat /\ (i - 1) + m = j - 1
  BY <1>1
<1>3. ~Cong(b, 1)
  BY <1>2 DEF PrimitiveRoot
<1> HIDE DEF m
<1>4. Cong(Power(w, (i - 1) + m), Power(w, i - 1) * Power(w, m))
  BY <1>1, <1>2, PowerAdd, Zenon
<1>5. a \in Int /\ b \in Int /\ c \in Int
  BY <1>1, <1>2, PowerType, Zenon
<1>6. Cong(c, a * b)
  BY <1>2, <1>4
<1>7. ~Cong(a, 0)
  BY <1>1, <1>2, RootNotZero, PowerNotZero, Zenon
<1> HIDE DEF a, b, c
<1>8. ASSUME Cong(a, c) PROVE FALSE
  <2> DEFINE ab == a * b
  <2>1. ab \in Int /\ ab = b * a /\ 1 * a = a
    BY <1>5
  <2>2. Cong(c, ab)
    BY <1>6
  <2> HIDE DEF ab
  <2>3. Cong(a, ab)
    BY <1>5, <1>8, <2>1, <2>2, CongTrans
  <2>4. Cong(b * a, 1 * a)
    BY <1>5, <2>1, <2>3, CongSymmetric
  <2>5. Cong(b, 1)
    BY <1>1, <1>5, <1>7, <2>4, CongCancel, Zenon
  <2> QED
    BY <1>3, <2>5
<1>9. ASSUME Cong(c, a) PROVE FALSE
  BY <1>5, <1>8, <1>9, CongSymmetric
<1> QED
  BY <1>1, <1>8, <1>9 DEF a, c

LEMMA PointsDistinct ==
    ASSUME NEW w, NEW n, PrimitiveRoot(w, n), NEW i \in 1..n, NEW j \in 1..n, i # j
    PROVE  ~Cong(Points(w, n)[i], Points(w, n)[j])
<1>1. n \in Nat
  BY DEF PrimitiveRoot
<1>2. i < j \/ j < i
  BY <1>1
<1> QED
  BY <1>2, PointsDiffer

LEMMA CongMinusOne ==
    ASSUME NEW a \in Int, NEW b \in Int, NEW c \in Int, Cong(a, b - c), Cong(c, 1)
    PROVE  Cong(a, b - 1)
<1>0. P \in Int
  BY FieldFacts
<1>1. PICK k \in Int : a = (b - c) + k * P
  BY DEF Cong
<1>2. PICK l \in Int : c = 1 + l * P
  BY DEF Cong
<1>3. a = (b - 1) + (k - l) * P /\ k - l \in Int
  BY <1>0, <1>1, <1>2
<1> QED
  BY <1>3 DEF Cong

LEMMA OverType ==
    ASSUME NEW w, NEW n, PrimitiveRoot(w, n), NEW i, NEW x \in Int
    PROVE  Over(w, n, i, x) \in Int
<1> DEFINE r == Points(w, n)
<1>1. n \in Nat /\ r \in [1..n -> Int]
  BY PointsType
<1> HIDE DEF r
<1>2. Factors(n, r, i, x) \in [1..n -> Int]
  BY <1>1, FactorsType, Zenon
<1>3. ProductOf(Factors(n, r, i, x)) \in Int
  BY <1>1, <1>2, ProductType, Zenon
<1> QED
  BY <1>3 DEF Over, r

\* The product of x - p over the other points p is the quotient of x^n - 1 by
\* x - p_i; at p_i itself it is n over p_i.
LEMMA OverQuotient ==
    ASSUME NEW w, NEW n, PrimitiveRoot(w, n), NEW i \in 1..n
    PROVE  /\ \A x \in Int : Cong((x - Points(w, n)[i]) * Over(w, n, i, x), Power(x, n) - 1)
           /\ Cong(Over(w, n, i, Points(w, n)[i]) * Points(w, n)[i], n)
<1> DEFINE r == Points(w, n)
           a == r[i]
           an == Power(a, n)
<1>1. /\ w \in Int /\ n \in Nat /\ n - 1 \in Nat /\ (n - 1) + 1 = n /\ Cong(Power(w, n), 1)
      /\ r \in [1..n -> Int] /\ \A j \in 1..n : r[j] = Power(w, j - 1) /\ r[j] \in Int
      /\ 1 \in Int /\ i \in Nat /\ n \in Int
  <2>1. w \in Int /\ n \in Nat /\ Cong(Power(w, n), 1)
    BY DEF PrimitiveRoot
  <2>2. 1 \in Int /\ i \in Nat /\ n \in Int
    BY <2>1
  <2> QED
    BY <2>1, <2>2, PointsType, Zenon
<1>2. \A j, k \in 1..n : j # k => ~Cong(r[j], r[k])
  BY PointsDistinct, Zenon
<1>3. ASSUME NEW j \in 1..n PROVE Cong(Power(r[j], n), 1) /\ Power(r[j], n) \in Int
  <2>1. j - 1 \in Nat
    BY <1>1
  <2>2. Cong(Power(Power(w, j - 1), n), 1)
    BY <1>1, <2>1, PowerOfRoot, Zenon
  <2>3. Power(r[j], n) \in Int
    BY <1>1, PowerType, Zenon
  <2> QED
    BY <1>1, <2>2, <2>3, Zenon
<1> HIDE DEF r
<1>4. a \in Int /\ an \in Int /\ Cong(an, 1)
  BY <1>1, <1>3, Zenon
<1> HIDE DEF a
<1>5. PICK q \in Polynomial(n - 1, 1) :
             /\ \A x \in Int : Cong((x - a) * q[x], Power(x, n) - an)
             /\ Cong(q[a] * a, n * an)
  <2>1. \E q \in Polynomial(n - 1, 1) :
             /\ \A x \in Int : Cong((x - a) * q[x], Power(x, (n - 1) + 1) - Power(a, (n - 1) + 1))
             /\ Cong(q[a] * a, ((n - 1) + 1) * Power(a, (n - 1) + 1))
    BY <1>1, <1>4, PowerQuotient, Zenon
  <2> QED
    BY <1>1, <2>1
<1> HIDE DEF an
<1>6. \A x \in Int : q[x] \in Int
  BY <1>1, PolynomialType, Zenon
<1>7. ASSUME NEW x \in Int PROVE Cong((x - a) * q[x], Power(x, n) - 1)
  <2> DEFINE u == (x - a) * q[x]
             v == Power(x, n)
  <2>1. u \in Int
    BY <1>4, <1>6
  <2>2. v \in Int
    BY <1>1, PowerType, Zenon
  <2>3. Cong(u, v - an)
    BY <1>5, Zenon
  <2> HIDE DEF u, v
  <2>4. Cong(u, v - 1)
    BY <1>4, <2>1, <2>2, <2>3, CongMinusOne, Zenon
  <2> QED
    BY <2>4 DEF u, v
<1>8. ASSUME NEW j \in (1..n) \ {i} PROVE Cong(q[r[j]], 0)
  <2> DEFINE x == r[j]
             d == x - a
             y == q[x]
             v == Power(x, n)
  <2>1. x \in Int /\ ~Cong(x, a)
    BY <1>1, <1>2, Zenon DEF a
  <2>2. v \in Int /\ Cong(v, 1)
    BY <1>3, Zenon
  <2>3. y \in Int /\ Cong(d * y, v - 1)
    BY <1>6, <1>7, <2>1, Zenon
  <2> HIDE DEF x, y, v
  <2>4. d \in Int /\ ~Cong(d, 0)
    BY <1>4, <2>1, CongDifference
  <2> HIDE DEF d
  <2>5. Cong(v - 1, 0) /\ v - 1 \in Int /\ 0 \in Int
    BY <1>1, <2>2, CongDifference
  <2> DEFINE dy == d * y
             e == v - 1
  <2>6. dy \in Int /\ dy = y * d /\ Cong(dy, e) /\ Cong(e, 0) /\ e \in Int /\ 0 \in Int
    BY <2>3, <2>4, <2>5
  <2> HIDE DEF dy, e
  <2>7. Cong(dy, 0)
    BY <2>6, CongTrans
  <2>8. Cong(y * d, 0)
    BY <2>6, <2>7
  <2>9. Cong(y, 0)
    BY <2>3, <2>4, <2>8, NoZeroDivisors, Zenon
  <2> QED
    BY <2>9 DEF x, y
<1>9. \A x \in Int : Cong(q[x], ProductOf(Factors(n, r, i, x)))
  <2>1. q \in Polynomial(IF i \in 1..n THEN n - 1 ELSE n, 1)
    BY Zenon
  <2>2. \A j, k \in (1..n) \ {i} : j # k => ~Cong(r[j], r[k])
    BY <1>2, Zenon
  <2> QED
    BY <1>1, <1>8, <2>1, <2>2, FactorTheorem, Zenon
<1>10. ASSUME NEW x \in Int
       PROVE  Over(w, n, i, x) \in Int /\ Cong(Over(w, n, i, x), q[x])
  <2> DEFINE o == Over(w, n, i, x)
             y == q[x]
  <2>1. o \in Int /\ y \in Int /\ Cong(y, o)
    <3>1. Cong(y, o)
      BY <1>9, Zenon DEF Over, r
    <3> QED
      BY <1>6, <3>1, OverType, Zenon
  <2> HIDE DEF o, y
  <2>2. Cong(o, y)
    BY <2>1, CongSymmetric
  <2> QED
    BY <2>1, <2>2 DEF o, y
<1>11. ASSUME NEW x \in Int PROVE Cong((x - a) * Over(w, n, i, x), Power(x, n) - 1)
  <2> DEFINE o == Over(w, n, i, x)
             y == q[x]
             d == x - a
             v == Power(x, n)
  <2>1. o \in Int /\ y \in Int /\ Cong(o, y) /\ Cong(d * y, v - 1)
    BY <1>6, <1>7, <1>10, Zenon
  <2>2. d \in Int
    BY <1>4
  <2>3. v \in Int
    BY <1>1, PowerType, Zenon
  <2> HIDE DEF o, y, d, v
  <2> DEFINE do == d * o
             dy == d * y
             e == v - 1
  <2>4. Cong(do, dy)
    BY <2>1, <2>2, CongMultiply, Zenon
  <2>5. do \in Int /\ dy \in Int /\ e \in Int /\ Cong(dy, e)
    BY <2>1, <2>2, <2>3
  <2> HIDE DEF do, dy, e
  <2>6. Cong(do, e)
    BY <2>4, <2>5, CongTrans
  <2> QED
    BY <2>6 DEF do, e, d, o, v
<1>12. Cong(Over(w, n, i, a) * a, n)
  <2> DEFINE o == Over(w, n, i, a)
             y == q[a]
             oa == o * a
             ya == y * a
             na == n * an
  <2>1. o \in Int /\ y \in Int /\ Cong(o, y) /\ Cong(ya, na)
    BY <1>4, <1>5, <1>6, <1>10, Zenon
  <2> HIDE DEF o, y
  <2>2. Cong(oa, ya)
    BY <1>4, <2>1, CongMultiply, Zenon
  <2>3. oa \in Int /\ ya \in Int /\ na \in Int
    BY <1>1, <1>4, <2>1
  <2>4. Cong(na, n * 1) /\ n * 1 = n
    <3>1. Cong(n * an, n * 1)
      BY <1>1, <1>4, CongMultiply, Zenon
    <3> QED
      BY <1>1, <3>1
  <2> HIDE DEF oa, ya, na
  <2>5. Cong(oa, na)
    BY <2>1, <2>2, <2>3, CongTrans
  <2>6. Cong(oa, n)
    BY <1>1, <2>3, <2>4, <2>5, CongTrans
  <2> QED
    BY <2>6 DEF oa, o
<1> QED
  BY <1>11, <1>12, Zenon DEF a, r

-----------------------------------------------------------------------------
(***************************************************************************)
(* Interpolation at roots of unity, by Lagrange's polynomials and by the   *)
(* barycentric formula.                                                    *)
(***************************************************************************)

LEMMA CongUnit ==
    ASSUME NEW a \in Int, NEW u \in Int, Cong(u, 1)
    PROVE  a * u \in Int /\ Cong(a, a * u) /\ Cong(a * u, a)
<1>1. 1 \in Int /\ a * u \in Int /\ a * 1 = a
  OBVIOUS
<1>2. Cong(a * u, a * 1)
  BY <1>1, CongMultiply, Zenon
<1>3. Cong(a * u, a)
  BY <1>1, <1>2
<1> DEFINE b == a * u
<1>4. b \in Int /\ Cong(b, a)
  BY <1>1, <1>3
<1> HIDE DEF b
<1>5. Cong(a, b)
  BY <1>4, CongSymmetric
<1> QED
  BY <1>1, <1>3, <1>5 DEF b

\* Lagrange's term and the barycentric one.
LEMMA LagrangeAlgebra ==
    ASSUME NEW c \in Int, NEW d \in Int, NEW e \in Int, NEW m \in Int, NEW o \in Int,
           NEW p \in Int, NEW v \in Int, NEW id \in Int, NEW im \in Int, NEW iv \in Int,
           Cong(d * o, c), Cong(v * p, m),
           Cong(d * id, 1), Cong(m * im, 1), Cong(v * iv, 1)
    PROVE  Cong((e * o) * iv, (c * im) * ((e * p) * id))
<1> DEFINE s0 == (e * o) * iv
           s1 == s0 * (d * id)
           f == (e * iv) * id
           s2 == c * f
           s3 == s2 * (m * im)
           g == s2 * im
           s4 == (v * p) * g
           s5 == (c * im) * ((e * p) * id)
           s6 == s5 * (v * iv)
<1>1. /\ d * id \in Int /\ m * im \in Int /\ v * iv \in Int /\ d * o \in Int /\ v * p \in Int
      /\ s0 \in Int /\ s5 \in Int /\ f \in Int
  OBVIOUS
<1>2. s2 \in Int
  <2> HIDE DEF f
  <2> QED
    BY <1>1
<1>3. g \in Int
  <2> HIDE DEF s2
  <2> QED
    BY <1>2
<1>4. s1 \in Int /\ Cong(s0, s1)
  <2> HIDE DEF s0
  <2> QED
    BY <1>1, CongUnit, Zenon
<1>5. Cong(s1, s2)
  <2>1. s1 = (d * o) * f
    OBVIOUS
  <2>2. Cong((d * o) * f, c * f)
    <3> HIDE DEF f
    <3> QED
      BY <1>1, CongMultiply, Zenon
  <2> QED
    BY <2>1, <2>2, Zenon
<1>6. s3 \in Int /\ Cong(s2, s3)
  <2> HIDE DEF s2
  <2> QED
    BY <1>1, <1>2, CongUnit, Zenon
<1>7. s4 \in Int /\ Cong(s4, s3)
  <2>1. s3 = m * g
    <3> HIDE DEF s2
    <3> QED
      BY <1>2
  <2>2. Cong((v * p) * g, m * g)
    <3> HIDE DEF g
    <3> QED
      BY <1>1, <1>3, CongMultiply, Zenon
  <2>3. s4 \in Int
    <3> HIDE DEF g
    <3> QED
      BY <1>3
  <2> QED
    BY <2>1, <2>2, <2>3, Zenon
<1>8. s6 \in Int /\ Cong(s6, s5)
  <2> HIDE DEF s5
  <2> QED
    BY <1>1, CongUnit, Zenon
<1>9. s4 = s6
  OBVIOUS
<1> HIDE DEF s0, s1, s2, s3, s4, s5, s6
<1>10. Cong(s0, s2)
  BY <1>1, <1>2, <1>4, <1>5, CongTrans
<1>11. Cong(s0, s3)
  BY <1>1, <1>2, <1>6, <1>10, CongTrans
<1>12. Cong(s0, s4)
  BY <1>1, <1>6, <1>7, <1>11, CongJoin
<1>13. Cong(s0, s5)
  BY <1>1, <1>7, <1>8, <1>9, <1>12, CongTrans
<1> QED
  BY <1>13 DEF s0, s5

LEMMA OverNotZero ==
    ASSUME NEW w, NEW n, PrimitiveRoot(w, n), ~Cong(n, 0), NEW i \in 1..n
    PROVE  ~Cong(Over(w, n, i, Points(w, n)[i]), 0)
<1> DEFINE p == Points(w, n)[i]
           v == Over(w, n, i, p)
           u == v * p
<1>1. p \in Int /\ n \in Nat
  BY PointsType
<1>2. v \in Int
  BY <1>1, OverType, Zenon
<1>3. Cong(u, n)
  BY OverQuotient, Zenon
<1> HIDE DEF p, v
<1>4. ASSUME Cong(v, 0) PROVE FALSE
  <2>1. Cong(u, 0)
    BY <1>1, <1>2, <1>4, CongTimesZero, Zenon
  <2>2. u \in Int /\ n \in Int /\ 0 \in Int
    BY <1>1, <1>2
  <2> HIDE DEF u
  <2>3. Cong(n, u)
    BY <1>3, <2>2, CongSymmetric
  <2>4. Cong(n, 0)
    BY <2>1, <2>2, <2>3, CongTrans
  <2> QED
    BY <2>4
<1> QED
  BY <1>4 DEF v, p

LEMMA LagrangeTerm ==
    ASSUME NEW w, NEW n, PrimitiveRoot(w, n), ~Cong(n, 0), NEW i \in 1..n, NEW e \in Int,
           NEW z \in Int, ~Cong(z, Points(w, n)[i])
    PROVE  Cong((e * Over(w, n, i, z)) * Inv(Over(w, n, i, Points(w, n)[i])),
                ((Power(z, n) - 1) * Inv(n % P))
                    * ((e * Points(w, n)[i]) * Inv((z - Points(w, n)[i]) % P)))
<1> DEFINE p == Points(w, n)[i]
           o == Over(w, n, i, z)
           v == Over(w, n, i, p)
           y == z - p
           d == y % P
           m == n % P
           c == Power(z, n) - 1
<1>1. p \in Int /\ n \in Nat /\ n \in Int
  BY PointsType
<1>2. o \in Int /\ v \in Int
  BY <1>1, OverType, Zenon
<1>3. Cong(y * o, c) /\ Cong(v * p, n) /\ ~Cong(v, 0) /\ ~Cong(z, p)
  BY OverQuotient, OverNotZero, Zenon
<1>4. c \in Int
  <2>1. Power(z, n) \in Int
    BY <1>1, PowerType, Zenon
  <2> QED
    BY <2>1
<1> HIDE DEF p, o, v, c
<1>5. y \in Int /\ ~Cong(y, 0)
  BY <1>1, <1>3, CongDifference
<1> HIDE DEF y
<1>6. d \in Int /\ Cong(d, y) /\ m \in Int /\ Cong(m, n)
  BY <1>1, <1>5, CongRemainder
<1> HIDE DEF d, m
<1>7. ~Cong(d, 0) /\ ~Cong(m, 0) /\ Cong(n, m)
  <2>1. 0 \in Int /\ Cong(y, d) /\ Cong(n, m)
    BY <1>1, <1>5, <1>6, CongSymmetric
  <2> QED
    BY <1>1, <1>5, <1>6, <2>1, CongTrans
<1>8. Cong(d * o, c)
  <2> DEFINE do == d * o
             yo == y * o
  <2>1. Cong(do, yo)
    BY <1>2, <1>5, <1>6, CongMultiply, Zenon
  <2>2. do \in Int /\ yo \in Int /\ Cong(yo, c)
    BY <1>2, <1>3, <1>5, <1>6
  <2> HIDE DEF do, yo
  <2>3. Cong(do, c)
    BY <1>4, <2>1, <2>2, CongTrans
  <2> QED
    BY <2>3 DEF do
<1>9. Cong(v * p, m)
  <2> DEFINE vp == v * p
  <2>1. vp \in Int /\ Cong(vp, n)
    BY <1>1, <1>2, <1>3
  <2> HIDE DEF vp
  <2>2. Cong(vp, m)
    BY <1>1, <1>6, <1>7, <2>1, CongTrans
  <2> QED
    BY <2>2 DEF vp
<1> DEFINE id == Inv(d)
           im == Inv(m)
           iv == Inv(v)
<1>10. id \in Int /\ im \in Int /\ iv \in Int
  BY <1>2, <1>6, InvType
<1>11. Cong(d * id, 1) /\ Cong(m * im, 1) /\ Cong(v * iv, 1)
  BY <1>2, <1>3, <1>6, <1>7, FieldInverse, Zenon
<1> HIDE DEF id, im, iv
<1>12. Cong((e * o) * iv, (c * im) * ((e * p) * id))
  BY <1>1, <1>2, <1>4, <1>6, <1>8, <1>9, <1>10, <1>11, LagrangeAlgebra, Zenon
<1> QED
  BY <1>12, Zenon DEF p, o, v, y, d, m, c, id, im, iv

\* The terms of the interpolation polynomial at x, and of the barycentric
\* formula.
Lagrange(w, n, e, x) ==
    [i \in 1..n |-> e[i] * Over(w, n, i, x) * Inv(Over(w, n, i, Points(w, n)[i]))]

Barycentric(w, n, e, x) ==
    [i \in 1..n |-> e[i] * Points(w, n)[i] * Inv((x - Points(w, n)[i]) % P)]

LEMMA LagrangeType ==
    ASSUME NEW w, NEW n, PrimitiveRoot(w, n), NEW e \in [1..n -> Int], NEW x \in Int
    PROVE  /\ Lagrange(w, n, e, x) \in [1..n -> Int]
           /\ Barycentric(w, n, e, x) \in [1..n -> Int]
<1> DEFINE r == Points(w, n)
           L(i) == e[i] * Over(w, n, i, x) * Inv(Over(w, n, i, r[i]))
           B(i) == e[i] * r[i] * Inv((x - r[i]) % P)
<1>1. ASSUME NEW i \in 1..n PROVE L(i) \in Int /\ B(i) \in Int
  <2> DEFINE p == r[i]
             a == e[i]
             o == Over(w, n, i, x)
             v == Over(w, n, i, p)
             y == x - p
             d == y % P
  <2>1. p \in Int /\ a \in Int
    BY PointsType
  <2>2. o \in Int /\ v \in Int
    BY <2>1, OverType, Zenon
  <2>3. y \in Int
    BY <2>1
  <2> HIDE DEF p, a, o, v, y
  <2>4. d \in Int
    BY <2>3, CongRemainder
  <2> HIDE DEF d
  <2>5. Inv(v) \in Int /\ Inv(d) \in Int
    BY <2>2, <2>4, InvType
  <2>6. (a * o) * Inv(v) \in Int /\ (a * p) * Inv(d) \in Int
    BY <2>1, <2>2, <2>5
  <2> QED
    BY <2>6, Zenon DEF p, a, o, v, y, d
<1>2. Lagrange(w, n, e, x) = [i \in 1..n |-> L(i)]
  BY DEF Lagrange
<1>3. Barycentric(w, n, e, x) = [i \in 1..n |-> B(i)]
  BY DEF Barycentric
<1> HIDE DEF L, B
<1> QED
  BY <1>1, <1>2, <1>3

\* Away from the points, the barycentric formula is the interpolation.
LEMMA BarycentricFormula ==
    ASSUME NEW w, NEW n, PrimitiveRoot(w, n), ~Cong(n, 0), NEW e \in [1..n -> Int],
           NEW z \in Int, \A i \in 1..n : ~Cong(z, Points(w, n)[i])
    PROVE  Cong(SumOf(Lagrange(w, n, e, z)),
                SumOf(Barycentric(w, n, e, z)) * (Power(z, n) - 1) * Inv(n % P))
<1> DEFINE s == Barycentric(w, n, e, z)
           t == Lagrange(w, n, e, z)
           a == Power(z, n) - 1
           b == Inv(n % P)
           c == a * b
<1>1. s \in [1..n -> Int] /\ t \in [1..n -> Int] /\ n \in Nat
  BY LagrangeType, PointsType, Zenon
<1>2. a \in Int
  <2>1. Power(z, n) \in Int
    BY <1>1, PowerType, Zenon
  <2> QED
    BY <2>1
<1>3. b \in Int
  <2>1. n \in Int
    BY <1>1
  <2>2. n % P \in Int
    BY <2>1, CongRemainder
  <2> QED
    BY <2>2, InvType, Zenon
<1>4. c \in Int
  <2> HIDE DEF a, b
  <2> QED
    BY <1>2, <1>3
<1>5. ASSUME NEW i \in 1..n PROVE Cong(t[i], c * s[i])
  <2> DEFINE x == e[i]
             p == Points(w, n)[i]
  <2>1. x \in Int
    OBVIOUS
  <2>2. /\ t[i] = (x * Over(w, n, i, z)) * Inv(Over(w, n, i, p))
        /\ s[i] = (x * p) * Inv((z - p) % P)
    BY DEF Lagrange, Barycentric
  <2> HIDE DEF x
  <2>3. Cong((x * Over(w, n, i, z)) * Inv(Over(w, n, i, p)), c * ((x * p) * Inv((z - p) % P)))
    BY <2>1, LagrangeTerm, Zenon
  <2> QED
    BY <2>2, <2>3, Zenon
<1> HIDE DEF s, t, c
<1>6. Cong(SumOf(t), c * SumOf(s)) /\ SumOf(s) \in Int
  BY <1>1, <1>4, <1>5, SumScaled, SumType, Zenon
<1>7. c * SumOf(s) = SumOf(s) * a * b
  <2> DEFINE y == SumOf(s)
  <2>1. y \in Int
    BY <1>6
  <2> HIDE DEF a, b, y
  <2>2. (a * b) * y = y * a * b
    BY <1>2, <1>3, <2>1
  <2> QED
    BY <2>2, Zenon DEF c, y
<1> QED
  BY <1>6, <1>7, Zenon DEF s, t

\* At a point the interpolation has the value that it was given there.
LEMMA InterpolationAtPoint ==
    ASSUME NEW w, NEW n, PrimitiveRoot(w, n), ~Cong(n, 0), NEW e \in [1..n -> Int],
           NEW k \in 1..n
    PROVE  Cong(SumOf(Lagrange(w, n, e, Points(w, n)[k])), e[k])
<1> DEFINE r == Points(w, n)
           z == r[k]
           t == Lagrange(w, n, e, z)
<1>1. n \in Nat /\ r \in [1..n -> Int] /\ z \in Int /\ e[k] \in Int
  BY PointsType
<1>2. t \in [1..n -> Int]
  BY <1>1, LagrangeType, Zenon
<1>3. ASSUME NEW i \in 1..n, i # k PROVE Cong(t[i], 0)
  <2> DEFINE F == Factors(n, r, i, z)
             x == e[i]
             o == Over(w, n, i, z)
             v == Over(w, n, i, r[i])
             iv == Inv(v)
  <2>1. x \in Int /\ r[i] \in Int
    BY <1>1
  <2>2. o \in Int /\ v \in Int
    BY <1>1, <2>1, OverType, Zenon
  <2>3. iv \in Int
    BY <2>2, InvType, Zenon
  <2>4. Cong(F[k], 0)
    <3>1. Cong(F[k], z - r[k])
      BY <1>1, <1>3, FactorAt, Zenon
    <3>2. z - r[k] = 0
      BY <1>1
    <3> QED
      BY <3>1, <3>2
  <2>5. F \in [1..n -> Int]
    BY <1>1, FactorsType, Zenon
  <2>6. Cong(o, 0)
    BY <1>1, <2>4, <2>5, ProductZero, Zenon DEF Over
  <2>7. t[i] = (x * o) * iv
    BY DEF Lagrange
  <2> HIDE DEF x, o, iv
  <2>8. Cong(x * o, 0)
    BY <2>1, <2>2, <2>6, CongTimesZero, Zenon
  <2>9. x * o \in Int
    BY <2>1, <2>2
  <2>10. Cong((x * o) * iv, 0)
    BY <2>3, <2>8, <2>9, CongTimesZero, Zenon
  <2> QED
    BY <2>7, <2>10, Zenon
<1>4. Cong(SumOf(t), t[k]) /\ SumOf(t) \in Int
  <2> HIDE DEF t
  <2> QED
    BY <1>1, <1>2, <1>3, SumSingle, SumType, Zenon
<1>5. t[k] \in Int /\ Cong(t[k], e[k])
  <2> DEFINE x == e[k]
             v == Over(w, n, k, z)
             u == v * Inv(v)
  <2>1. x \in Int
    BY <1>1
  <2>2. v \in Int
    BY <1>1, OverType, Zenon
  <2>3. Inv(v) \in Int /\ Cong(u, 1)
    BY <2>2, InvType, OverNotZero, FieldInverse, Zenon
  <2>4. t[k] = (x * v) * Inv(v)
    BY DEF Lagrange
  <2> HIDE DEF x, v
  <2>5. u \in Int /\ (x * v) * Inv(v) = x * u
    BY <2>1, <2>2, <2>3
  <2> HIDE DEF u
  <2>6. x * u \in Int /\ Cong(x * u, x)
    BY <2>1, <2>3, <2>5, CongUnit, Zenon
  <2> QED
    BY <2>4, <2>5, <2>6, Zenon DEF x
<1> DEFINE a == SumOf(t)
           b == t[k]
           c == e[k]
<1> HIDE DEF a, b, c, t
<1>6. a \in Int /\ b \in Int /\ c \in Int /\ Cong(a, b) /\ Cong(b, c)
  BY <1>1, <1>4, <1>5, Zenon DEF a, b, c
<1>7. Cong(a, c)
  BY <1>6, CongTrans
<1> QED
  BY <1>7, Zenon DEF a, c, t

=============================================================================
