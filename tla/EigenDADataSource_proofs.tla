---------------------- MODULE EigenDADataSource_proofs ----------------------
(***************************************************************************)
(* Proofs about EigenDADataSource, for every set of certificates, every    *)
(* inbox of any length and every number of L1 blocks and resets.           *)
(***************************************************************************)
EXTENDS EigenDADataSource, Concatenation, WellFoundedInduction, TLAPS

-----------------------------------------------------------------------------
\* Every inhabited set of numbers has a least element: what the proofs use in
\* place of an induction over the length of a sequence.
LEMMA LeastNatural ==
    ASSUME NEW T \in SUBSET Nat, T # {}
    PROVE  \E n \in T : \A m \in T : n <= m
<1> DEFINE R == OpToRel(<, Nat)
<1>1. IsWellFoundedOn(R, Nat)
  BY NatLessThanWellFounded
<1>2. \A x, y \in Nat : x < y => <<x, y>> \in R
  BY DEF OpToRel
<1> HIDE DEF R
<1>3. PICK n \in T : \A y \in T : ~ (<<y, n>> \in R)
  BY <1>1, WFMin, Zenon
<1>4. ASSUME NEW m \in T PROVE n <= m
  <2>1. m \in Nat /\ n \in Nat
    OBVIOUS
  <2>2. ~ (m < n)
    BY <1>2, <1>3, <2>1
  <2> QED
    BY <2>1, <2>2
<1> QED
  BY <1>4

\* Induction up to a bound, for a property given as a set of numbers.
LEMMA InductionUpTo ==
    ASSUME NEW N \in Nat, NEW S, 0 \in S,
           \A n \in 0..(N - 1) : n \in S => n + 1 \in S
    PROVE  0..N \subseteq S
<1> DEFINE T == (0..N) \ S
<1> SUFFICES ASSUME T # {} PROVE FALSE
  OBVIOUS
<1>1. T \in SUBSET Nat
  OBVIOUS
<1>2. PICK n \in T : \A m \in T : n <= m
  BY <1>1, LeastNatural
<1>3. n \in 0..N /\ n \notin S /\ n # 0
  OBVIOUS
<1>4. n - 1 \in 0..(N - 1) /\ n - 1 \notin T
  BY <1>2, <1>3
<1> QED
  BY <1>3, <1>4

-----------------------------------------------------------------------------
(***************************************************************************)
(* Putting sequences together.                                             *)
(***************************************************************************)

\* The recursive function exists, and its values are sequences.
LEMMA ConcatSteps ==
    ASSUME NEW D, NEW parts \in Seq(Seq(D))
    PROVE  /\ ConcatUpTo(parts)[0] = << >>
           /\ \A n \in 1..Len(parts) :
                ConcatUpTo(parts)[n] = ConcatUpTo(parts)[n - 1] \o parts[n]
           /\ \A n \in 0..Len(parts) : ConcatUpTo(parts)[n] \in Seq(D)
<1> DEFINE N == Len(parts)
           Rec(f, m) == f = [n \in 0..m |->
                               IF n = 0 THEN << >> ELSE f[n - 1] \o parts[n]]
           Good == {m \in Nat : \E f : Rec(f, m)}
<1>1. N \in Nat
  OBVIOUS
<1>2. 0..N \subseteq Good
  <2>1. 0 \in Good
    <3>1. Rec([n \in 0..0 |-> << >>], 0)
      OBVIOUS
    <3> QED
      BY <3>1
  <2>2. ASSUME NEW m \in 0..(N - 1), m \in Good
        PROVE  m + 1 \in Good
    <3>1. PICK f : Rec(f, m)
      BY <2>2
    <3> DEFINE y == f[m] \o parts[m + 1]
               g == [n \in 0..(m + 1) |-> IF n = m + 1 THEN y ELSE f[n]]
    <3>2. ASSUME NEW n \in 0..(m + 1)
          PROVE  g[n] = IF n = 0 THEN << >> ELSE g[n - 1] \o parts[n]
      <4>1. CASE n = m + 1
        <5>0. m \in Nat
          BY <1>1
        <5>1. n - 1 = m /\ n # 0 /\ m # m + 1 /\ m \in 0..(m + 1)
          BY <5>0, <4>1
        <5>2. g[m + 1] = y
          <6> HIDE DEF y
          <6> QED
            BY <5>0
        <5>3. g[m] = f[m]
          BY <5>1
        <5> HIDE DEF g
        <5> QED
          BY <4>1, <5>1, <5>2, <5>3
      <4>2. CASE n # m + 1
        <5>1. n \in 0..m /\ g[n] = f[n] /\ (n # 0 => g[n - 1] = f[n - 1])
          BY <1>1, <4>2
        <5>2. f[n] = IF n = 0 THEN << >> ELSE f[n - 1] \o parts[n]
          BY <3>1, <5>1
        <5> QED
          BY <5>1, <5>2
      <4> QED
        BY <4>1, <4>2
    <3>3. g = [n \in 0..(m + 1) |-> g[n]]
      OBVIOUS
    <3> HIDE DEF g
    <3>4. Rec(g, m + 1)
      BY <3>2, <3>3
    <3>5. m + 1 \in Nat
      BY <1>1
    <3> HIDE DEF Rec
    <3> QED
      BY <3>4, <3>5
  <2> HIDE DEF Good
  <2> QED
    BY <1>1, <2>1, <2>2, InductionUpTo
<1>3. \E f : Rec(f, N)
  <2> HIDE DEF Rec, N
  <2> QED
    BY <1>1, <1>2
<1> DEFINE u == ConcatUpTo(parts)
<1>4. Rec(u, N)
  BY <1>3 DEF ConcatUpTo
<1> HIDE DEF u
<1>5. u[0] = << >> /\ \A n \in 1..N : u[n] = u[n - 1] \o parts[n]
  <2> HIDE DEF N
  <2>1. ASSUME NEW n \in 0..N
        PROVE  u[n] = IF n = 0 THEN << >> ELSE u[n - 1] \o parts[n]
    BY <1>4
  <2> HIDE DEF Rec
  <2>2. 0 \in 0..N /\ \A n \in 1..N : n \in 0..N /\ n # 0
    BY <1>1
  <2>3. u[0] = << >>
    BY <2>1, <2>2
  <2>4. ASSUME NEW n \in 1..N
        PROVE  u[n] = u[n - 1] \o parts[n]
    <3>1. n \in 0..N /\ n # 0
      BY <2>2
    <3>2. u[n] = IF n = 0 THEN << >> ELSE u[n - 1] \o parts[n]
      BY <2>1, <3>1
    <3> QED
      BY <3>1, <3>2
  <2> QED
    BY <2>3, <2>4
<1> HIDE DEF Rec, Good
<1>6. 0..N \subseteq {m \in Nat : u[m] \in Seq(D)}
  <2> DEFINE S == {m \in Nat : u[m] \in Seq(D)}
  <2>1. 0 \in S
    <3>1. u[0] \in Seq(D)
      <4>1. u[0] = << >>
        BY <1>5
      <4> QED
        BY <4>1
    <3> QED
      BY <3>1
  <2>2. ASSUME NEW m \in 0..(N - 1), m \in S
        PROVE  m + 1 \in S
    <3>1. /\ m + 1 \in Nat /\ m + 1 \in 1..N /\ u[m] \in Seq(D)
          /\ parts[m + 1] \in Seq(D) /\ (m + 1) - 1 = m
      BY <1>1, <2>2
    <3>2. u[m + 1] = u[m] \o parts[m + 1]
      BY <1>5, <3>1
    <3>3. u[m + 1] \in Seq(D)
      BY <3>1, <3>2
    <3> QED
      BY <3>1, <3>3
  <2> HIDE DEF S, N
  <2>3. 0..N \subseteq S
    BY <1>1, <2>1, <2>2, InductionUpTo
  <2> QED
    BY <2>3 DEF S
<1> QED
  BY <1>5, <1>6 DEF u

\* s is where t begins.
Begins(s, t) == Len(s) <= Len(t) /\ \A i \in 1..Len(s) : s[i] = t[i]

\* What a beginning stays the beginning of.
LEMMA BeginsConcat ==
    ASSUME NEW D, NEW s \in Seq(D), NEW t \in Seq(D), NEW x \in Seq(D)
    PROVE  /\ Begins(s, t) => Begins(s, t \o x)
           /\ Begins(x, t) => Begins(s \o x, s \o t)
           /\ Begins(s, s)
<1>1. /\ Len(t \o x) = Len(t) + Len(x) /\ \A i \in 1..Len(t) : (t \o x)[i] = t[i]
      /\ Len(s) \in Nat /\ Len(t) \in Nat /\ Len(x) \in Nat
  OBVIOUS
<1>2. Begins(s, t) => Begins(s, t \o x)
  BY <1>1 DEF Begins
<1>3. ASSUME Begins(x, t) PROVE Begins(s \o x, s \o t)
  <2>1. Len(s \o x) = Len(s) + Len(x) /\ Len(s \o t) = Len(s) + Len(t)
    OBVIOUS
  <2>2. ASSUME NEW i \in 1..Len(s \o x)
        PROVE  (s \o x)[i] = (s \o t)[i]
    <3>1. CASE i <= Len(s)
      BY <2>1, <3>1
    <3>2. CASE i > Len(s)
      <4>1. i - Len(s) \in 1..Len(x)
        BY <2>1, <3>2
      <4>2. (s \o x)[i] = x[i - Len(s)] /\ (s \o t)[i] = t[i - Len(s)]
        BY <1>3, <2>1, <3>2, <4>1 DEF Begins
      <4> QED
        BY <1>3, <4>1, <4>2 DEF Begins
    <3>3. i <= Len(s) \/ i > Len(s)
      BY <2>1
    <3> QED
      BY <3>1, <3>2, <3>3, Zenon
  <2> QED
    BY <1>3, <2>1, <2>2 DEF Begins
<1> QED
  BY <1>2, <1>3 DEF Begins

\* The first parts give the beginning of the whole.
LEMMA ConcatBegins ==
    ASSUME NEW D, NEW parts \in Seq(Seq(D)), NEW m \in 0..Len(parts)
    PROVE  Begins(ConcatUpTo(parts)[m], Concat(parts))
<1> DEFINE u == ConcatUpTo(parts)
           N == Len(parts)
           S == {k \in Nat : m + k <= N => Begins(u[m], u[m + k])}
<1>0. N \in Nat /\ m \in Nat /\ m <= N
  OBVIOUS
<1>1. /\ \A n \in 1..N : u[n] = u[n - 1] \o parts[n]
      /\ \A n \in 0..N : u[n] \in Seq(D)
  BY ConcatSteps, Zenon
<1>2. \A n \in 1..N : parts[n] \in Seq(D)
  OBVIOUS
<1> HIDE DEF u, N
<1>3. 0 \in S
  <2>1. m + 0 = m /\ m \in 0..N
    BY <1>0
  <2>2. u[m] \in Seq(D)
    BY <1>1, <2>1
  <2>3. Begins(u[m], u[m])
    BY <2>2, BeginsConcat
  <2> QED
    BY <2>1, <2>3
<1>4. ASSUME NEW k \in 0..((N - m) - 1), k \in S
      PROVE  k + 1 \in S
  <2>1. /\ k + 1 \in Nat /\ m + k \in 0..N /\ m + (k + 1) \in 1..N /\ m \in 0..N
        /\ (m + (k + 1)) - 1 = m + k
    BY <1>0
  <2>2. Begins(u[m], u[m + k])
    BY <1>4, <2>1
  <2>3. u[m + (k + 1)] = u[m + k] \o parts[m + (k + 1)]
    BY <1>1, <2>1
  <2>4. u[m] \in Seq(D) /\ u[m + k] \in Seq(D) /\ parts[m + (k + 1)] \in Seq(D)
    BY <1>1, <1>2, <2>1
  <2>5. Begins(u[m], u[m + (k + 1)])
    BY <2>2, <2>3, <2>4, BeginsConcat
  <2> QED
    BY <2>1, <2>5
<1>5. N - m \in Nat /\ N - m \in 0..(N - m) /\ m + (N - m) = N /\ N <= N
  BY <1>0
<1>6. 0..(N - m) \subseteq S
  <2> HIDE DEF S
  <2> QED
    BY <1>3, <1>4, <1>5, InductionUpTo
<1>7. N - m \in S
  <2> HIDE DEF S
  <2> QED
    BY <1>5, <1>6
<1>8. Begins(u[m], u[N])
  BY <1>5, <1>7
<1> QED
  BY <1>8 DEF Concat, u, N

\* Parts that agree up to one place, begin alike there and are empty beyond.
LEMMA ConcatCompare ==
    ASSUME NEW D, NEW h \in Seq(Seq(D)), NEW t \in Seq(Seq(D)), NEW o \in Nat,
           Len(h) = Len(t),
           \A b \in 1..Len(h) : /\ b < o => h[b] = t[b]
                                /\ b = o => Begins(h[b], t[b])
                                /\ b > o => h[b] = << >>
    PROVE  /\ Begins(Concat(h), Concat(t))
           /\ o > Len(h) => Concat(h) = Concat(t)
<1> DEFINE u == ConcatUpTo(h)
           v == ConcatUpTo(t)
           N == Len(h)
           S == {n \in Nat : n <= N => /\ Begins(u[n], v[n])
                                       /\ n < o => u[n] = v[n]}
<1>0. N \in Nat /\ \A n \in 1..N : h[n] \in Seq(D) /\ t[n] \in Seq(D)
  OBVIOUS
<1>1. /\ u[0] = << >> /\ v[0] = << >>
      /\ \A n \in 1..N : u[n] = u[n - 1] \o h[n]
      /\ \A n \in 1..N : v[n] = v[n - 1] \o t[n]
      /\ \A n \in 0..N : u[n] \in Seq(D)
      /\ \A n \in 0..N : v[n] \in Seq(D)
  BY ConcatSteps, Zenon
<1> HIDE DEF u, v, N
<1>2. 0 \in S
  <2>1. Begins(<< >>, << >>)
    BY DEF Begins
  <2> QED
    BY <1>1, <2>1
<1>3. ASSUME NEW k \in 0..(N - 1), k \in S
      PROVE  k + 1 \in S
  <2> DEFINE n == k + 1
  <2>1. n \in Nat /\ k \in Nat /\ n \in 1..N /\ k \in 0..N /\ n - 1 = k /\ k < n
    BY <1>0
  <2>2. u[n] = u[k] \o h[n] /\ v[n] = v[k] \o t[n]
    BY <1>1, <2>1, Zenon
  <2>3. u[k] \in Seq(D) /\ v[k] \in Seq(D) /\ h[n] \in Seq(D) /\ t[n] \in Seq(D)
    BY <1>0, <1>1, <2>1, Zenon
  <2>4. Begins(u[k], v[k]) /\ (k < o => u[k] = v[k])
    BY <1>0, <1>3
  <2>5. /\ n < o => h[n] = t[n]
        /\ n = o => Begins(h[n], t[n])
        /\ n > o => h[n] = << >>
    BY <2>1 DEF N
  <2> HIDE DEF n
  <2>6. Begins(u[n], v[n]) /\ (n < o => u[n] = v[n])
    <3>1. CASE n < o
      <4>1. k < o
        BY <2>1, <3>1
      <4>2. u[n] = v[n]
        BY <2>2, <2>4, <2>5, <3>1, <4>1, Zenon
      <4>3. u[n] \in Seq(D)
        BY <1>1, <2>1
      <4>4. Begins(u[n], u[n])
        BY <4>3, BeginsConcat
      <4> QED
        BY <4>2, <4>4, Zenon
    <3>2. CASE n = o
      <4>1. k < o /\ ~(n < o)
        BY <2>1, <3>2
      <4>2. Begins(v[k] \o h[n], v[k] \o t[n])
        BY <2>3, <2>5, <3>2, BeginsConcat
      <4> QED
        BY <2>2, <2>4, <4>1, <4>2, Zenon
    <3>3. CASE n > o
      <4>1. ~(n < o)
        BY <2>1, <3>3
      <4>2. u[k] \o << >> = u[k]
        BY <2>3
      <4>3. u[n] = u[k]
        BY <2>2, <2>5, <3>3, <4>2, Zenon
      <4>4. Begins(u[k], v[k] \o t[n])
        BY <2>3, <2>4, BeginsConcat
      <4> QED
        BY <2>2, <4>1, <4>3, <4>4, Zenon
    <3> QED
      BY <2>1, <3>1, <3>2, <3>3
  <2> QED
    BY <2>1, <2>6 DEF n
<1>4. 0..N \subseteq S
  <2> HIDE DEF S
  <2> QED
    BY <1>0, <1>2, <1>3, InductionUpTo
<1>5. Begins(u[N], v[N]) /\ (o > N => u[N] = v[N])
  BY <1>0, <1>4
<1> QED
  BY <1>5 DEF Concat, u, v, N

-----------------------------------------------------------------------------
(***************************************************************************)
(* The meaning of an inbox item.                                           *)
(***************************************************************************)

\* An item that must stop the derivation delivers nothing.
LEMMA HaltIsNotDelivery ==
    ASSUME NEW d, NEW b, MustHalt(d)
    PROVE  ~Delivers(d, b)
  BY DEF MustHalt, Delivers, CertDelivers, IsCommitment, IsRaw

\* No prefix of a block, nothing delivered: where every block starts.
LEMMA DerivedFromNothing ==
    ASSUME NEW items, NEW b
    PROVE  DerivedFrom(items, << >>, 0, b)
  BY DEF DerivedFrom

\* An item that delivers nothing extends the settled prefix.
LEMMA DerivedFromDrop ==
    ASSUME NEW items, NEW entries \in Seq(Entry), NEW n \in Nat, NEW b,
           DerivedFrom(items, entries, n, b),
           ~MustHalt(items[n + 1]),
           ~Delivers(items[n + 1], b)
    PROVE  DerivedFrom(items, entries, n + 1, b)
  BY DEF DerivedFrom

\* An item that delivers extends it too, with one entry at the end.
LEMMA DerivedFromDeliver ==
    ASSUME NEW items, NEW entries \in Seq(Entry), NEW n \in Nat, NEW b,
           NEW e \in Entry,
           DerivedFrom(items, entries, n, b),
           ~MustHalt(items[n + 1]),
           Delivers(items[n + 1], b),
           e.pos = n + 1,
           e.data = DataOf(items[n + 1])
    PROVE  DerivedFrom(items, Append(entries, e), n + 1, b)
<1> DEFINE new == Append(entries, e)
           N == Len(entries)
<1>1. /\ N \in Nat
      /\ DOMAIN entries = 1..N
      /\ DOMAIN new = 1..(N + 1)
      /\ \A i \in 1..N : new[i] = entries[i]
      /\ new[N + 1] = e
  OBVIOUS
<1>2. \A k \in 1..(n + 1) : ~MustHalt(items[k])
  BY DEF DerivedFrom
<1>3. \A i \in 1..N : entries[i].pos \in 1..n
  BY <1>1 DEF DerivedFrom
<1>4. {new[i].pos : i \in DOMAIN new} = {k \in 1..(n + 1) : Delivers(items[k], b)}
  BY <1>1, <1>3 DEF DerivedFrom
<1>5. \A i, j \in DOMAIN new : i < j => new[i].pos < new[j].pos
  BY <1>1, <1>3 DEF DerivedFrom
<1>6. \A i \in DOMAIN new : new[i].data = DataOf(items[new[i].pos])
  BY <1>1, <1>3 DEF DerivedFrom
<1> QED
  BY <1>2, <1>4, <1>5, <1>6 DEF DerivedFrom

\* The entry of an item that delivers.
EntryOf(items, k) == [pos |-> k, data |-> DataOf(items[k])]

\* One entry more than what is derived from n items, for the item after them.
OneMore(items, entries, n, b) ==
    \E before \in Seq(Entry) : /\ DerivedFrom(items, before, n, b)
                               /\ entries = Append(before, EntryOf(items, n + 1))

\* Entries derived from one item more than before: either the same entries, or
\* those and one for the item.
LEMMA DerivedFromBack ==
    ASSUME NEW items, NEW entries \in Seq(Entry), NEW n \in Nat, NEW b,
           DerivedFrom(items, entries, n + 1, b)
    PROVE  /\ ~Delivers(items[n + 1], b) => DerivedFrom(items, entries, n, b)
           /\ Delivers(items[n + 1], b) => OneMore(items, entries, n, b)
<1> DEFINE L == Len(entries)
<1>0. /\ \A k \in 1..(n + 1) : ~MustHalt(items[k])
      /\ {entries[i].pos : i \in DOMAIN entries} = {k \in 1..(n + 1) : Delivers(items[k], b)}
      /\ \A i, j \in DOMAIN entries : i < j => entries[i].pos < entries[j].pos
      /\ \A i \in DOMAIN entries : entries[i].data = DataOf(items[entries[i].pos])
  BY DEF DerivedFrom
<1>1. L \in Nat /\ DOMAIN entries = 1..L
  OBVIOUS
<1>4. ASSUME NEW i \in 1..L
      PROVE  entries[i].pos \in 1..(n + 1) /\ Delivers(items[entries[i].pos], b)
  BY <1>0, <1>1
<1> HIDE DEF L
<1>2. CASE ~Delivers(items[n + 1], b)
  BY <1>2 DEF DerivedFrom
<1>3. CASE Delivers(items[n + 1], b)
  <2> DEFINE before == SubSeq(entries, 1, L - 1)
  <2>0. n + 1 \in 1..(n + 1)
    OBVIOUS
  <2>1. PICK j \in 1..L : entries[j].pos = n + 1
    BY <1>0, <1>1, <1>3, <2>0
  <2>2. j = L
    <3>1. ASSUME j < L PROVE FALSE
      <4>1. L \in 1..L
        BY <1>1
      <4>2. entries[j].pos < entries[L].pos
        BY <1>0, <1>1, <3>1, <4>1
      <4>3. entries[L].pos \in 1..(n + 1)
        BY <1>4, <4>1
      <4> QED
        BY <2>1, <4>2, <4>3
    <3> QED
      BY <1>1, <3>1
  <2>3. /\ before \in Seq(Entry) /\ DOMAIN before = 1..(L - 1)
        /\ \A i \in 1..(L - 1) : before[i] = entries[i]
    BY <1>1, <2>1 DEF L
  <2> HIDE DEF before
  <2>8. \A i \in 1..(L - 1) : i \in 1..L /\ i < L /\ i # L
    BY <1>1
  <2>4. \A i \in 1..(L - 1) : entries[i].pos < n + 1
    BY <1>0, <1>1, <2>1, <2>2, <2>8
  <2>5. DerivedFrom(items, before, n, b)
    <3>1. \A k \in 1..n : ~MustHalt(items[k])
      BY <1>0
    <3>2. ASSUME NEW i \in 1..(L - 1)
          PROVE  before[i].pos \in 1..n /\ Delivers(items[before[i].pos], b)
      <4>1. /\ entries[i].pos \in 1..(n + 1) /\ Delivers(items[entries[i].pos], b)
            /\ entries[i].pos < n + 1
        BY <1>4, <2>8, <2>4
      <4> QED
        BY <2>3, <4>1
    <3>3. ASSUME NEW k \in 1..n, Delivers(items[k], b)
          PROVE  \E i \in 1..(L - 1) : before[i].pos = k
      <4>1. k \in 1..(n + 1) /\ k # n + 1
        OBVIOUS
      <4>2. PICK i \in 1..L : entries[i].pos = k
        BY <1>0, <1>1, <3>3, <4>1
      <4>3. i # L
        BY <2>1, <2>2, <4>1, <4>2
      <4>4. i \in 1..(L - 1)
        BY <1>1, <4>3
      <4> QED
        BY <2>3, <4>2, <4>4
    <3>4. {before[i].pos : i \in 1..(L - 1)} = {k \in 1..n : Delivers(items[k], b)}
      BY <3>2, <3>3
    <3>5. \A i, k \in 1..(L - 1) : i < k => before[i].pos < before[k].pos
      BY <1>0, <1>1, <2>3, <2>8
    <3>6. \A i \in 1..(L - 1) : before[i].data = DataOf(items[before[i].pos])
      BY <1>0, <1>1, <2>3, <2>8
    <3> QED
      BY <2>3, <3>1, <3>4, <3>5, <3>6 DEF DerivedFrom
  <2>6. entries[L].data = DataOf(items[n + 1])
    BY <1>0, <1>1, <2>1, <2>2
  <2> DEFINE last == EntryOf(items, n + 1)
  <2>7. last = entries[L] /\ last \in Entry
    <3>1. entries[L] \in Entry /\ entries[L].pos = n + 1
      BY <1>1, <2>1, <2>2 DEF L
    <3> QED
      BY <2>6, <3>1 DEF Entry, EntryOf
  <2> HIDE DEF last
  <2>9. entries = Append(before, last)
    <3>1. Len(before) = L - 1 /\ L \in 1..L
      BY <1>1, <2>1, <2>3
    <3>2. /\ Append(before, last) \in Seq(Entry)
          /\ DOMAIN Append(before, last) = 1..L
          /\ \A i \in 1..(L - 1) : Append(before, last)[i] = entries[i]
          /\ Append(before, last)[L] = entries[L]
      BY <1>1, <2>3, <2>7, <3>1
    <3>3. \A i \in 1..L : i \in 1..(L - 1) \/ i = L
      BY <1>1
    <3> QED
      BY <1>1, <3>2, <3>3
  <2> QED
    BY <1>3, <2>3, <2>5, <2>9 DEF last, OneMore
<1> QED
  BY <1>2, <1>3

\* DerivedFrom leaves no choice at all.
LEMMA DerivedUnique ==
    ASSUME NEW items, NEW n \in Nat, NEW b
    PROVE  \A x, y \in Seq(Entry) :
             /\ DerivedFrom(items, x, n, b)
             /\ DerivedFrom(items, y, n, b)
             => x = y
<1> DEFINE Unique(m) == \A x, y \in Seq(Entry) :
                          /\ DerivedFrom(items, x, m, b)
                          /\ DerivedFrom(items, y, m, b)
                          => x = y
           S == {m \in Nat : Unique(m)}
<1>1. Unique(0)
  <2>1. ASSUME NEW x \in Seq(Entry), DerivedFrom(items, x, 0, b)
        PROVE  x = << >>
    <3>1. {x[i].pos : i \in DOMAIN x} = {k \in 1..0 : Delivers(items[k], b)}
      BY <2>1 DEF DerivedFrom
    <3>2. ASSUME NEW i \in DOMAIN x PROVE FALSE
      <4>1. x[i].pos \in 1..0
        BY <3>1
      <4> QED
        BY <4>1
    <3>3. DOMAIN x = {}
      BY <3>2
    <3> QED
      BY <3>3
  <2> QED
    BY <2>1
<1>2. ASSUME NEW m \in Nat, Unique(m)
      PROVE  Unique(m + 1)
  <2> SUFFICES ASSUME NEW x \in Seq(Entry), DerivedFrom(items, x, m + 1, b),
                      NEW y \in Seq(Entry), DerivedFrom(items, y, m + 1, b)
               PROVE  x = y
    OBVIOUS
  <2>1. CASE ~Delivers(items[m + 1], b)
    BY <1>2, <2>1, DerivedFromBack
  <2>2. CASE Delivers(items[m + 1], b)
    <3>0. OneMore(items, x, m, b) /\ OneMore(items, y, m, b)
      BY <2>2, DerivedFromBack
    <3>1. PICK r \in Seq(Entry) : /\ DerivedFrom(items, r, m, b)
                                  /\ x = Append(r, EntryOf(items, m + 1))
      BY <3>0 DEF OneMore
    <3>2. PICK s \in Seq(Entry) : /\ DerivedFrom(items, s, m, b)
                                  /\ y = Append(s, EntryOf(items, m + 1))
      BY <3>0 DEF OneMore
    <3>3. r = s
      BY <1>2, <3>1, <3>2
    <3> QED
      BY <3>1, <3>2, <3>3, Zenon
  <2> QED
    BY <2>1, <2>2
<1> HIDE DEF Unique
<1>3. 0 \in S
  BY <1>1
<1>4. ASSUME NEW m \in 0..(n - 1), m \in S
      PROVE  m + 1 \in S
  BY <1>2, <1>4
<1>5. 0..n \subseteq S
  <2> HIDE DEF S
  <2> QED
    BY <1>3, <1>4, InductionUpTo
<1>6. Unique(n)
  BY <1>5
<1> QED
  BY <1>6 DEF Unique

-----------------------------------------------------------------------------
(***************************************************************************)
(* The inductive invariant.                                                *)
(***************************************************************************)

USE CertsAssumption, CalldataAssumption, ProviderAssumption, ChainAssumption

\* Every element of an inbox is one of the byte strings of Calldata.
LEMMA ItemType ==
    ASSUME TypeOK, NEW b \in Blocks, NEW n \in 1..Len(chain[b])
    PROVE  /\ chain[b] \in Seq(Calldata)
           /\ chain[b][n] \in Calldata
  BY DEF TypeOK

\* A commitment read from the inbox is one of the certificates.
LEMMA ParseType ==
    ASSUME NEW d \in Calldata, IsCommitment(d)
    PROVE  Parse(d) \in Certs
  BY DEF IsCommitment, Parse, TryFrom, CalldataRecord

\* The four kinds of data are exhaustive, and only the two that are returned
\* or fetched can deliver or stop anything.
LEMMA SkippedDelivers ==
    ASSUME NEW d, NEW b, IsEmpty(d) \/ IsMalformed(d)
    PROVE  ~Delivers(d, b) /\ ~MustHalt(d)
  BY DEF Delivers, MustHalt, IsCommitment, IsRaw, IsMalformed

LEMMA RawDelivers ==
    ASSUME NEW d, NEW b, IsRaw(d)
    PROVE  Delivers(d, b) /\ ~MustHalt(d) /\ DataOf(d) = d
  BY DEF Delivers, MustHalt, IsCommitment, DataOf

\* The Ethereum source, opened if need be, stands in the block being read.
LEMMA EthPosition ==
    ASSUME TypeOK, SourceInv, pc = "eth"
    PROVE  /\ origin \in Blocks
           /\ EthOpened.block = origin
           /\ EthOpened.popped \in 0..Len(chain[origin])
           /\ EthOpened.popped = Settled(origin)
           /\ Len(chain[origin]) \in Nat
<1>1. origin \in Blocks /\ Len(chain[origin]) \in Nat /\ altda_commitment = NoCert
  BY DEF TypeOK, SourceInv
<1>2. CASE eth.open
  BY <1>1, <1>2 DEF TypeOK, SourceInv, EthOpened, Settled, Blocks
<1>3. CASE ~eth.open
  BY <1>1, <1>3 DEF TypeOK, SourceInv, EthOpened, Settled, EthClosed, Blocks
<1> QED
  BY <1>2, <1>3

LEMMA InitInv == Init => IndInv
<1> SUFFICES ASSUME Init
             PROVE  IndInv
  OBVIOUS
<1>1. TypeOK
  BY DEF Init, TypeOK, EthClosed, Blocks
<1>2. SourceInv /\ HeldCommitmentIsCurrent
  BY DEF Init, SourceInv, HeldCommitmentIsCurrent, EthClosed
<1>3. \A b \in Blocks : Settled(b) = 0 /\ out[b] = << >>
  BY DEF Init, Settled, EthClosed, Blocks
<1>4. DerivedExactly
  BY <1>3, DerivedFromNothing DEF DerivedExactly
<1> QED
  BY <1>1, <1>2, <1>4 DEF IndInv

\* One step settles at most one item of the block being read, so that it is
\* enough to look at that block: no other block changes its data or count.
LEMMA OtherBlocks ==
    ASSUME TypeOK, DerivedExactly, origin \in Blocks,
           chain' = chain, origin' = origin,
           \A b \in Blocks \ {origin} : out'[b] = out[b],
           DerivedFrom(chain[origin], out'[origin], Settled(origin)', origin)
    PROVE  DerivedExactly'
<1> SUFFICES ASSUME NEW b \in Blocks
             PROVE  DerivedFrom(chain'[b], out'[b], Settled(b)', b)
  BY DEF DerivedExactly, Blocks
<1>1. CASE b = origin
  BY <1>1
<1>2. CASE b # origin
  <2>1. Settled(b)' = Settled(b)
    BY <1>2 DEF Settled
  <2> QED
    BY <1>2, <2>1 DEF DerivedExactly
<1> QED
  BY <1>1, <1>2

\* A step that touches neither the inbox position nor the output.
LEMMA NothingSettled ==
    ASSUME DerivedExactly,
           UNCHANGED <<chain, origin, eth, altda_commitment, out>>
    PROVE  DerivedExactly'
<1>1. ASSUME NEW b PROVE Settled(b)' = Settled(b)
  BY DEF Settled
<1> QED
  BY <1>1 DEF DerivedExactly, Blocks

LEMMA NextCallInv == ASSUME IndInv, NextCall PROVE IndInv'
<1>1. TypeOK' /\ SourceInv'
  BY DEF IndInv, NextCall, TypeOK, SourceInv, EthClosed
<1>2. HeldCommitmentIsCurrent'
  BY DEF IndInv, NextCall, HeldCommitmentIsCurrent
<1>3. DerivedExactly'
  BY NothingSettled DEF IndInv, NextCall
<1> QED
  BY <1>1, <1>2, <1>3 DEF IndInv

LEMMA EthErrorInv == ASSUME IndInv, NEW kind, EthError(kind) PROVE IndInv'
<1>1. TypeOK' /\ SourceInv'
  BY DEF IndInv, EthError, Fail, TypeOK, SourceInv, EthClosed
<1>2. HeldCommitmentIsCurrent'
  BY DEF IndInv, EthError, HeldCommitmentIsCurrent
<1>3. DerivedExactly'
  BY NothingSettled DEF IndInv, EthError
<1> QED
  BY <1>1, <1>2, <1>3 DEF IndInv

LEMMA EthEofInv == ASSUME IndInv, EthEof PROVE IndInv'
<1>1. /\ origin \in Blocks
      /\ EthOpened.popped = Len(chain[origin])
      /\ Settled(origin) = Len(chain[origin])
      /\ altda_commitment = NoCert
  BY EthPosition DEF IndInv, EthEof, EthExhausted, SourceInv
<1>2. TypeOK' /\ SourceInv' /\ HeldCommitmentIsCurrent'
  BY <1>1 DEF IndInv, EthEof, Clear, EthClosed, TypeOK, SourceInv,
              HeldCommitmentIsCurrent, Blocks
<1>3. ASSUME NEW b \in Blocks PROVE Settled(b)' = Settled(b)
  BY <1>1 DEF IndInv, EthEof, Clear, EthClosed, TypeOK, Settled, Blocks
<1>4. DerivedExactly'
  BY <1>3 DEF IndInv, EthEof, DerivedExactly, Blocks
<1> QED
  BY <1>2, <1>4 DEF IndInv

\* What a pop of the Ethereum source establishes for any item.
LEMMA PopPosition ==
    ASSUME IndInv, pc = "eth", EthPop, chain' = chain, origin' = origin
    PROVE  /\ origin \in Blocks
           /\ altda_commitment = NoCert
           /\ Settled(origin) \in Nat
           /\ eth' = [open |-> TRUE, block |-> origin, popped |-> Settled(origin) + 1]
           /\ Settled(origin) + 1 \in 1..Len(chain[origin])
           /\ EthItem = chain[origin][Settled(origin) + 1]
           /\ EthItem \in Calldata
           /\ DerivedFrom(chain[origin], out[origin], Settled(origin), origin)
           /\ out[origin] \in Seq(Entry)
<1>1. /\ origin \in Blocks
      /\ EthOpened.block = origin
      /\ EthOpened.popped \in 0..Len(chain[origin])
      /\ EthOpened.popped = Settled(origin)
      /\ Len(chain[origin]) \in Nat
  BY EthPosition DEF IndInv
<1>2. EthOpened.popped # Len(chain[origin])
  BY <1>1 DEF EthPop, EthExhausted
<1>3. Settled(origin) \in Nat /\ Settled(origin) + 1 \in 1..Len(chain[origin])
  BY <1>1, <1>2
<1>4. eth' = [open |-> TRUE, block |-> origin, popped |-> Settled(origin) + 1]
  BY <1>1 DEF EthPop
<1>5. EthItem = chain[origin][Settled(origin) + 1]
  BY <1>1 DEF EthItem
<1>6. EthItem \in Calldata
  BY <1>1, <1>3, <1>5, ItemType DEF IndInv
<1> QED
  BY <1>1, <1>3, <1>4, <1>5, <1>6
     DEF IndInv, SourceInv, DerivedExactly, TypeOK

\* The source after a pop that leaves no commitment behind.
LEMMA PopInv ==
    ASSUME IndInv, pc = "eth", EthPop, pc' = "idle",
           UNCHANGED <<chain, origin, altda_commitment, cause, resets>>
    PROVE  SourceInv' /\ HeldCommitmentIsCurrent'
<1>1. /\ origin \in Blocks
      /\ altda_commitment = NoCert
      /\ eth' = [open |-> TRUE, block |-> origin, popped |-> Settled(origin) + 1]
      /\ Settled(origin) + 1 \in 1..Len(chain[origin])
  BY PopPosition
<1>2. eth'.open /\ eth'.block = origin /\ eth'.popped \in 0..Len(chain[origin])
  BY <1>1
<1> QED
  BY <1>1, <1>2 DEF IndInv, SourceInv, HeldCommitmentIsCurrent, Blocks

LEMMA EthSkipInv == ASSUME IndInv, EthSkip PROVE IndInv'
<1> DEFINE n == Settled(origin)
<1> USE DEF EthSkip
<1>1. /\ origin \in Blocks
      /\ altda_commitment = NoCert
      /\ n \in Nat
      /\ eth' = [open |-> TRUE, block |-> origin, popped |-> n + 1]
      /\ EthItem = chain[origin][n + 1]
      /\ DerivedFrom(chain[origin], out[origin], n, origin)
      /\ out[origin] \in Seq(Entry)
  BY PopPosition
<1>2. TypeOK'
  BY <1>1 DEF IndInv, TypeOK
<1>3. SourceInv' /\ HeldCommitmentIsCurrent'
  BY PopInv
<1>4. Settled(origin)' = n + 1
  BY <1>1 DEF Settled, Blocks
<1>5. DerivedFrom(chain[origin], out[origin], n + 1, origin)
  BY <1>1, SkippedDelivers, DerivedFromDrop
<1>6. DerivedExactly'
  BY <1>1, <1>4, <1>5, OtherBlocks DEF IndInv
<1> QED
  BY <1>2, <1>3, <1>6 DEF IndInv

LEMMA EthRawInv == ASSUME IndInv, EthRaw PROVE IndInv'
<1> DEFINE n == Settled(origin)
           e == [pos |-> n + 1, data |-> EthItem]
<1> USE DEF EthRaw
<1>1. /\ origin \in Blocks
      /\ altda_commitment = NoCert
      /\ n \in Nat
      /\ eth' = [open |-> TRUE, block |-> origin, popped |-> n + 1]
      /\ EthItem = chain[origin][n + 1]
      /\ EthItem \in Calldata
      /\ DerivedFrom(chain[origin], out[origin], n, origin)
      /\ out[origin] \in Seq(Entry)
  BY PopPosition
<1>2. out' = [out EXCEPT ![origin] = Append(@, e)] /\ e \in Entry
  BY <1>1 DEF Return, Entry
<1>3. TypeOK'
  BY <1>1, <1>2 DEF IndInv, TypeOK, Return
<1>4. SourceInv' /\ HeldCommitmentIsCurrent'
  BY PopInv DEF Return
<1>5. Settled(origin)' = n + 1
  BY <1>1 DEF Settled, Blocks
<1>6. DerivedFrom(chain[origin], Append(out[origin], e), n + 1, origin)
  <2>1. Delivers(EthItem, origin) /\ ~MustHalt(EthItem) /\ DataOf(EthItem) = EthItem
    BY RawDelivers
  <2>2. e.pos = n + 1 /\ e.data = EthItem
    OBVIOUS
  <2> HIDE DEF e, n
  <2> QED
    BY <1>1, <1>2, <2>1, <2>2, DerivedFromDeliver
<1>7. /\ out'[origin] = Append(out[origin], e)
      /\ \A b \in Blocks \ {origin} : out'[b] = out[b]
  BY <1>1, <1>2 DEF IndInv, TypeOK
<1>8. DerivedExactly'
  BY <1>1, <1>5, <1>6, <1>7, OtherBlocks DEF IndInv
<1> QED
  BY <1>3, <1>4, <1>8 DEF IndInv

LEMMA EthCommitmentInv == ASSUME IndInv, EthCommitment PROVE IndInv'
<1> DEFINE n == Settled(origin)
<1> USE DEF EthCommitment
<1>1. /\ origin \in Blocks
      /\ n \in Nat
      /\ eth' = [open |-> TRUE, block |-> origin, popped |-> n + 1]
      /\ n + 1 \in 1..Len(chain[origin])
      /\ EthItem = chain[origin][n + 1]
      /\ EthItem \in Calldata
      /\ DerivedFrom(chain[origin], out[origin], n, origin)
  BY PopPosition
<1>2. altda_commitment' \in Certs /\ altda_commitment' # NoCert
  BY <1>1, ParseType
<1>3. TypeOK'
  BY <1>1, <1>2 DEF IndInv, TypeOK
<1>4. eth'.open /\ eth'.block = origin /\ eth'.popped = n + 1
  BY <1>1
<1>5. SourceInv'
  BY <1>1, <1>2, <1>4 DEF IndInv, SourceInv, Blocks
<1>6. HeldCommitmentIsCurrent'
  BY <1>1, <1>4 DEF HeldCommitmentIsCurrent, Blocks
<1>7. Settled(origin)' = n
  BY <1>1, <1>2, <1>4 DEF Settled, Blocks
<1>8. DerivedExactly'
  BY <1>1, <1>7, OtherBlocks DEF IndInv
<1> QED
  BY <1>3, <1>5, <1>6, <1>8 DEF IndInv

\* The item whose commitment is held is the first one not settled.
LEMMA HeldPosition ==
    ASSUME IndInv, altda_commitment # NoCert
    PROVE  /\ origin \in Blocks
           /\ altda_commitment \in Certs
           /\ Settled(origin) \in Nat
           /\ eth.open
           /\ eth.popped = Settled(origin) + 1
           /\ IsCommitment(chain[origin][Settled(origin) + 1])
           /\ Parse(chain[origin][Settled(origin) + 1]) = altda_commitment
           /\ chain[origin][Settled(origin) + 1] \in Calldata
           /\ DerivedFrom(chain[origin], out[origin], Settled(origin), origin)
           /\ out[origin] \in Seq(Entry)
<1>1. /\ origin \in Blocks
      /\ eth.open
      /\ eth.popped \in 1..Len(chain[origin])
      /\ IsCommitment(chain[origin][eth.popped])
      /\ Parse(chain[origin][eth.popped]) = altda_commitment
  BY DEF IndInv, HeldCommitmentIsCurrent
<1>2. Len(chain[origin]) \in Nat
  BY <1>1 DEF IndInv, TypeOK
<1>3. Settled(origin) \in Nat /\ eth.popped = Settled(origin) + 1
  BY <1>1, <1>2 DEF Settled, Blocks
<1>4. chain[origin][eth.popped] \in Calldata
  BY <1>1, ItemType DEF IndInv
<1> QED
  BY <1>1, <1>3, <1>4 DEF IndInv, TypeOK, DerivedExactly

LEMMA ProviderErrorInv ==
    ASSUME IndInv, NEW kind, ProviderError(kind)
    PROVE  IndInv'
<1>1. TypeOK' /\ SourceInv'
  BY DEF IndInv, ProviderError, Fail, TypeOK, SourceInv, EthClosed
<1>2. HeldCommitmentIsCurrent'
  BY DEF IndInv, ProviderError, HeldCommitmentIsCurrent
<1>3. DerivedExactly'
  BY NothingSettled DEF IndInv, ProviderError
<1> QED
  BY <1>1, <1>2, <1>3 DEF IndInv

\* Discarding the held commitment settles its item, which must be one that
\* neither delivers nor stops the derivation.
LEMMA DiscardInv ==
    ASSUME IndInv, altda_commitment # NoCert, pc # "halted", Discard,
           UNCHANGED <<chain, origin, eth, cause, out, resets>>,
           ~Delivers(chain[origin][Settled(origin) + 1], origin),
           ~MustHalt(chain[origin][Settled(origin) + 1])
    PROVE  IndInv'
<1> DEFINE n == Settled(origin)
<1>1. /\ origin \in Blocks
      /\ n \in Nat
      /\ eth.open
      /\ eth.popped = n + 1
      /\ DerivedFrom(chain[origin], out[origin], n, origin)
      /\ out[origin] \in Seq(Entry)
  BY HeldPosition
<1>2. TypeOK' /\ SourceInv' /\ HeldCommitmentIsCurrent'
  BY <1>1 DEF IndInv, Discard, TypeOK, SourceInv, HeldCommitmentIsCurrent, Blocks
<1>3. Settled(origin)' = n + 1
  BY <1>1 DEF Discard, Settled, Blocks
<1>4. DerivedFrom(chain[origin], out[origin], n + 1, origin)
  BY <1>1, DerivedFromDrop
<1>5. DerivedExactly'
  BY <1>1, <1>3, <1>4, OtherBlocks DEF IndInv
<1> QED
  BY <1>2, <1>5 DEF IndInv

LEMMA OnValidityInv ==
    ASSUME IndInv, OnValidity(Valid[altda_commitment])
    PROVE  IndInv'
<1> DEFINE c == altda_commitment
           d == chain[origin][Settled(origin) + 1]
           verdict == Verdict(c, Valid[c], origin)
<1>0. pc = "validity"
  BY DEF OnValidity
<1>1. c # NoCert
  BY <1>0 DEF IndInv, SourceInv
<1>2. /\ origin \in Blocks
      /\ c \in Certs
      /\ IsCommitment(d)
      /\ Parse(d) = c
  BY <1>1, HeldPosition
<1>3. Valid[c] \in BOOLEAN
  BY <1>2
<1>4. CASE verdict = "discard"
  <2>1. ~Delivers(d, origin) /\ ~MustHalt(d)
    BY <1>2, <1>3, <1>4 DEF Verdict, Delivers, MustHalt, CertDelivers, IsCommitment, IsRaw
  <2> QED
    BY <1>0, <1>1, <1>4, <2>1, DiscardInv DEF OnValidity
<1>5. CASE verdict = "critical"
  <2>1. TypeOK' /\ SourceInv'
    BY <1>2, <1>5 DEF IndInv, OnValidity, Fail, TypeOK, SourceInv, EthClosed
  <2>2. HeldCommitmentIsCurrent'
    BY <1>5 DEF IndInv, OnValidity, HeldCommitmentIsCurrent
  <2>3. DerivedExactly'
    BY <1>5, NothingSettled DEF IndInv, OnValidity
  <2> QED
    BY <2>1, <2>2, <2>3 DEF IndInv
<1>6. CASE verdict = "payload"
  <2>1. UNCHANGED <<chain, origin, eth, altda_commitment, cause, out, resets>> /\ pc' = "payload"
    BY <1>6 DEF OnValidity
  <2>2. TypeOK' /\ SourceInv'
    BY <1>0, <1>1, <1>2, <1>6, <2>1 DEF IndInv, TypeOK, SourceInv, EthClosed
  <2>3. HeldCommitmentIsCurrent'
    BY <2>1 DEF IndInv, HeldCommitmentIsCurrent
  <2>4. DerivedExactly'
    BY <2>1, NothingSettled DEF IndInv
  <2> QED
    BY <2>2, <2>3, <2>4 DEF IndInv
<1> QED
  BY <1>4, <1>5, <1>6 DEF OnValidity

LEMMA OnPayloadInv ==
    ASSUME IndInv, OnPayload(BlobOf[altda_commitment])
    PROVE  IndInv'
<1> DEFINE c == altda_commitment
           n == Settled(origin)
           d == chain[origin][n + 1]
           f == Decode[BlobOf[c]]
<1>0. pc = "payload"
  BY DEF OnPayload
<1>1. c # NoCert /\ Verdict(c, Valid[c], origin) = "payload"
  BY <1>0 DEF IndInv, SourceInv
<1>2. /\ origin \in Blocks
      /\ c \in Certs
      /\ n \in Nat
      /\ eth.open
      /\ eth.popped = n + 1
      /\ IsCommitment(d)
      /\ Parse(d) = c
      /\ DerivedFrom(chain[origin], out[origin], n, origin)
      /\ out[origin] \in Seq(Entry)
  BY <1>1, HeldPosition
<1>3. Valid[c] /\ OdvSupported(c) /\ Recent(c, origin)
  BY <1>1, <1>2 DEF Verdict
<1>4. ~MustHalt(d)
  BY <1>2, <1>3 DEF MustHalt
<1>5. ~IsRaw(d)
  BY <1>2 DEF IsCommitment
<1>6. CASE f = DecodeError
  <2>1. ~Delivers(d, origin)
    BY <1>2, <1>5, <1>6 DEF Delivers, CertDelivers
  <2> QED
    BY <1>0, <1>1, <1>4, <1>6, <2>1, DiscardInv DEF OnPayload
<1>7. CASE f # DecodeError
  <2> DEFINE e == [pos |-> n + 1, data |-> f]
  <2>1. Delivers(d, origin) /\ DataOf(d) = f
    BY <1>2, <1>3, <1>5, <1>7 DEF Delivers, CertDelivers, DataOf
  <2>2. f \in Frames
    BY <1>2, <1>7
  <2>3. /\ altda_commitment' = NoCert
        /\ pc' = "idle"
        /\ out' = [out EXCEPT ![origin] = Append(@, e)]
        /\ UNCHANGED <<chain, origin, eth, cause, resets>>
    BY <1>2, <1>7 DEF OnPayload, Return
  <2>4. e \in Entry /\ e.pos = n + 1 /\ e.data = f
    BY <1>2, <2>2 DEF Entry
  <2>5. TypeOK'
    BY <1>2, <2>3, <2>4 DEF IndInv, TypeOK
  <2>6. SourceInv' /\ HeldCommitmentIsCurrent'
    BY <1>0, <1>2, <2>3 DEF IndInv, SourceInv, HeldCommitmentIsCurrent, Blocks
  <2>7. Settled(origin)' = n + 1
    BY <1>2, <2>3 DEF Settled, Blocks
  <2>8. DerivedFrom(chain[origin], Append(out[origin], e), n + 1, origin)
    <3> HIDE DEF e, n, f
    <3> QED
      BY <1>2, <1>4, <2>1, <2>4, DerivedFromDeliver
  <2>9. /\ out'[origin] = Append(out[origin], e)
        /\ \A b \in Blocks \ {origin} : out'[b] = out[b]
    BY <1>2, <2>3 DEF IndInv, TypeOK
  <2>10. DerivedExactly'
    BY <1>2, <2>3, <2>7, <2>8, <2>9, OtherBlocks DEF IndInv
  <2> QED
    BY <2>5, <2>6, <2>10 DEF IndInv
<1> QED
  BY <1>6, <1>7

LEMMA ResetInv == ASSUME IndInv, NEW b \in Blocks, Reset(b) PROVE IndInv'
<1> USE DEF Reset
<1>1. TypeOK'
  BY DEF IndInv, TypeOK, Clear, EthClosed, ForgetFrom, Blocks
<1>2. SourceInv' /\ HeldCommitmentIsCurrent'
  BY DEF IndInv, SourceInv, HeldCommitmentIsCurrent, Clear, EthClosed, Blocks
<1>3. ASSUME NEW k \in Blocks
      PROVE  DerivedFrom(chain'[k], out'[k], Settled(k)', k)
  <2>1. CASE k < b
    <3>1. Settled(k)' = Settled(k) /\ out'[k] = out[k]
      BY <2>1 DEF IndInv, TypeOK, Settled, ForgetFrom, Blocks
    <3> QED
      BY <3>1 DEF IndInv, DerivedExactly
  <2>2. CASE ~(k < b)
    <3>1. Settled(k)' = 0 /\ out'[k] = << >>
      BY <2>2 DEF Settled, ForgetFrom, Clear, EthClosed, Blocks
    <3> QED
      BY <3>1, DerivedFromNothing
  <2> QED
    BY <2>1, <2>2
<1>4. DerivedExactly'
  BY <1>3 DEF DerivedExactly, Blocks
<1> QED
  BY <1>1, <1>2, <1>4 DEF IndInv

LEMMA DoneInv == ASSUME IndInv, UNCHANGED vars PROVE IndInv'
<1>1. TypeOK' /\ SourceInv' /\ HeldCommitmentIsCurrent'
  BY DEF vars, IndInv, TypeOK, SourceInv, HeldCommitmentIsCurrent, EthClosed
<1>2. DerivedExactly'
  BY NothingSettled DEF vars, IndInv
<1> QED
  BY <1>1, <1>2 DEF IndInv

LEMMA NextInv == IndInv /\ [Next]_vars => IndInv'
<1> SUFFICES ASSUME IndInv, [Next]_vars
             PROVE  IndInv'
  OBVIOUS
<1>1. CASE NextCall
  BY <1>1, NextCallInv
<1>2. CASE \E kind \in ErrorKind : EthError(kind)
  BY <1>2, EthErrorInv
<1>3. CASE EthStep
  BY <1>3, EthEofInv, EthSkipInv, EthRawInv, EthCommitmentInv DEF EthStep
<1>4. CASE \E kind \in ErrorKind : ProviderError(kind)
  BY <1>4, ProviderErrorInv
<1>5. CASE OnValidity(Valid[altda_commitment]) \/ OnPayload(BlobOf[altda_commitment])
  BY <1>5, OnValidityInv, OnPayloadInv
<1>6. CASE \E b \in Blocks : Reset(b)
  BY <1>6, ResetInv
<1>7. CASE Done \/ UNCHANGED vars
  BY <1>7, DoneInv DEF Done
<1> QED
  BY <1>1, <1>2, <1>3, <1>4, <1>5, <1>6, <1>7 DEF Next

\* The inductive invariant holds of every behaviour of the data source
\* (eigenda.rs, next and clear).
THEOREM IndInvHolds == Spec => []IndInv
<1>1. Init => IndInv
  BY InitInv
<1>2. IndInv /\ [Next]_vars => IndInv'
  BY NextInv
<1> QED
  BY <1>1, <1>2, PTL DEF Spec

\* Type correctness of the data source (eigenda.rs, EigenDADataSource).
THEOREM TypeCorrect == Spec => []TypeOK
<1>1. IndInv => TypeOK
  BY DEF IndInv
<1> QED
  BY <1>1, IndInvHolds, PTL

\* A commitment held across calls always belongs to the block whose number
\* the recency check uses (eigenda.rs, altda_commitment).
THEOREM HeldCommitmentTheorem == Spec => []HeldCommitmentIsCurrent
<1>1. IndInv => HeldCommitmentIsCurrent
  BY DEF IndInv
<1> QED
  BY <1>1, IndInvHolds, PTL

\* Nothing is lost, duplicated, reordered or mixed up, whatever the pattern
\* of temporary errors, discards and resets (eigenda.rs, next).
THEOREM DerivedExactlyTheorem == Spec => []DerivedExactly
<1>1. IndInv => DerivedExactly
  BY DEF IndInv
<1> QED
  BY <1>1, IndInvHolds, PTL

-----------------------------------------------------------------------------
(***************************************************************************)
(* EigenDADataSource implements BlobDerivation: every initial state maps   *)
(* to an initial state and every step to a step or to no step at all.      *)
(***************************************************************************)

\* The meaning of an item is the same in both specifications.
LEMMA SameMeaning ==
    /\ Abstract!Blocks = Blocks
    /\ \A d : Abstract!MustHalt(d) <=> MustHalt(d)
    /\ \A d, b : Abstract!Delivers(d, b) <=> Delivers(d, b)
    /\ \A d : Abstract!DataOf(d) = DataOf(d)
<1>1. \A d : Abstract!Parse(d) = Parse(d)
  BY DEF Abstract!Parse, Parse, Abstract!TryFrom, TryFrom,
         Abstract!VersionByte, VersionByte
<1>2. \A d : Abstract!IsRaw(d) <=> IsRaw(d)
  BY DEF Abstract!IsRaw, IsRaw, Abstract!IsEmpty, IsEmpty,
         Abstract!ALTDA_DERIVATION_VERSION, ALTDA_DERIVATION_VERSION
<1>3. \A d : Abstract!IsCommitment(d) <=> IsCommitment(d)
  BY <1>1, <1>2 DEF Abstract!IsCommitment, IsCommitment, Abstract!IsEmpty, IsEmpty
<1>4. \A c : Abstract!OdvSupported(c) <=> OdvSupported(c)
  BY DEF Abstract!OdvSupported, OdvSupported
<1>5. \A c, b : Abstract!CertDelivers(c, b) <=> CertDelivers(c, b)
  BY <1>4 DEF Abstract!CertDelivers, CertDelivers, Abstract!Recent, Recent,
         Abstract!RecencyCheck, RecencyCheck, Abstract!RecencyWindow, RecencyWindow
<1>6. \A d : Abstract!MustHalt(d) <=> MustHalt(d)
  BY <1>1, <1>3, <1>4 DEF Abstract!MustHalt, MustHalt
<1>7. \A d, b : Abstract!Delivers(d, b) <=> Delivers(d, b)
  BY <1>1, <1>2, <1>3, <1>5 DEF Abstract!Delivers, Delivers
<1>8. \A d : Abstract!DataOf(d) = DataOf(d)
  BY <1>1, <1>2 DEF Abstract!DataOf, DataOf
<1>9. Abstract!Blocks = Blocks
  BY DEF Abstract!Blocks, Blocks
<1> QED
  BY <1>6, <1>7, <1>8, <1>9

\* A step that moves neither the cursor nor anything the caller sees.
LEMMA Stutter ==
    ASSUME UNCHANGED <<chain, origin, cause, out, resets>>,
           Settled(origin)' = Settled(origin)
    PROVE  UNCHANGED Abstract!vars
  BY DEF Abstract!vars, Cursor, Blocks

\* A step that settles the next item.
LEMMA SettleStep ==
    ASSUME IndInv, cause = "none", origin \in Blocks,
           UNCHANGED <<chain, origin, cause, resets>>,
           Settled(origin) \in Nat,
           Settled(origin) + 1 \in 1..Len(chain[origin]),
           Settled(origin)' = Settled(origin) + 1,
           ~MustHalt(chain[origin][Settled(origin) + 1]),
           \/ /\ Delivers(chain[origin][Settled(origin) + 1], origin)
              /\ out' = [out EXCEPT ![origin] = Append(@,
                          [pos |-> Settled(origin) + 1,
                           data |-> DataOf(chain[origin][Settled(origin) + 1])])]
           \/ /\ ~Delivers(chain[origin][Settled(origin) + 1], origin)
              /\ out' = out
    PROVE  Abstract!Settle
<1>1. Cursor = Settled(origin) /\ Cursor' = Cursor + 1
  BY DEF Cursor, Blocks
<1>2. Len(chain[origin]) \in Nat
  BY DEF IndInv, TypeOK
<1>3. Cursor < Len(chain[origin])
  BY <1>1, <1>2
<1> QED
  BY <1>1, <1>3, SameMeaning DEF Abstract!Settle, Abstract!Running

\* The phases in which next() runs are those of a running derivation.
LEMMA RunningPhase ==
    ASSUME IndInv, pc \in {"eth", "validity", "payload"}
    PROVE  cause = "none" /\ origin \in Blocks
  BY DEF IndInv, SourceInv

LEMMA HaltStep ==
    ASSUME IndInv, pc \in {"eth", "validity", "payload"}, Fail("provider"),
           UNCHANGED <<chain, origin, eth, altda_commitment, out, resets>>
    PROVE  Abstract!HaltOnProvider
<1>1. Cursor' = Cursor
  BY DEF Cursor, Settled, Blocks
<1> QED
  BY <1>1, RunningPhase, SameMeaning DEF Fail, Abstract!HaltOnProvider, Abstract!Running

-----------------------------------------------------------------------------
(***************************************************************************)
(* One lemma per action.                                                   *)
(***************************************************************************)

LEMMA NextCallRefines == ASSUME IndInv, NextCall PROVE UNCHANGED Abstract!vars
<1>1. Settled(origin)' = Settled(origin)
  BY DEF NextCall, Settled
<1> QED
  BY <1>1, Stutter DEF NextCall

LEMMA EthErrorRefines ==
    ASSUME IndInv, NEW kind, EthError(kind)
    PROVE  Abstract!Next \/ UNCHANGED Abstract!vars
<1>1. CASE kind = "temporary"
  <2>1. Settled(origin)' = Settled(origin)
    BY DEF EthError, Settled
  <2> QED
    BY <1>1, <2>1, Stutter DEF EthError
<1>2. CASE kind = "critical"
  BY <1>2, HaltStep DEF EthError, Abstract!Next
<1> QED
  BY <1>1, <1>2 DEF EthError

LEMMA EthEofRefines == ASSUME IndInv, EthEof PROVE Abstract!NextBlock
<1>1. /\ origin \in Blocks
      /\ Settled(origin) = Len(chain[origin])
  BY EthPosition DEF IndInv, EthEof, EthExhausted
<1>2. Cursor = Len(chain[origin]) /\ Cursor' = 0
  BY <1>1 DEF Cursor, EthEof, Clear, EthClosed, Settled, Blocks
<1> QED
  BY <1>1, <1>2, RunningPhase, SameMeaning
     DEF EthEof, Abstract!NextBlock, Abstract!Running

LEMMA EthSkipRefines == ASSUME IndInv, EthSkip PROVE Abstract!Settle
<1> DEFINE n == Settled(origin)
<1>1. /\ origin \in Blocks
      /\ altda_commitment = NoCert
      /\ n \in Nat
      /\ eth' = [open |-> TRUE, block |-> origin, popped |-> n + 1]
      /\ n + 1 \in 1..Len(chain[origin])
      /\ EthItem = chain[origin][n + 1]
  BY PopPosition DEF EthSkip
<1>2. Settled(origin)' = n + 1
  BY <1>1 DEF EthSkip, Settled, Blocks
<1> QED
  BY <1>1, <1>2, RunningPhase, SkippedDelivers, SettleStep DEF EthSkip

LEMMA EthRawRefines == ASSUME IndInv, EthRaw PROVE Abstract!Settle
<1> DEFINE n == Settled(origin)
<1>1. /\ origin \in Blocks
      /\ altda_commitment = NoCert
      /\ n \in Nat
      /\ eth' = [open |-> TRUE, block |-> origin, popped |-> n + 1]
      /\ n + 1 \in 1..Len(chain[origin])
      /\ EthItem = chain[origin][n + 1]
  BY PopPosition DEF EthRaw
<1>2. Settled(origin)' = n + 1
  BY <1>1 DEF EthRaw, Settled, Blocks
<1>3. Delivers(EthItem, origin) /\ ~MustHalt(EthItem) /\ DataOf(EthItem) = EthItem
  BY RawDelivers DEF EthRaw
<1>4. out' = [out EXCEPT ![origin] = Append(@, [pos |-> n + 1, data |-> EthItem])]
  BY <1>1 DEF EthRaw, Return
<1> QED
  BY <1>1, <1>2, <1>3, <1>4, RunningPhase, SettleStep DEF EthRaw

LEMMA EthCommitmentRefines ==
    ASSUME IndInv, EthCommitment
    PROVE  UNCHANGED Abstract!vars
<1> DEFINE n == Settled(origin)
<1>1. /\ origin \in Blocks
      /\ n \in Nat
      /\ eth' = [open |-> TRUE, block |-> origin, popped |-> n + 1]
      /\ EthItem \in Calldata
  BY PopPosition DEF EthCommitment
<1>2. altda_commitment' # NoCert
  BY <1>1, ParseType DEF EthCommitment
<1>3. Settled(origin)' = n
  BY <1>1, <1>2 DEF EthCommitment, Settled, Blocks
<1> QED
  BY <1>3, Stutter DEF EthCommitment

LEMMA ProviderErrorRefines ==
    ASSUME IndInv, NEW kind, ProviderError(kind)
    PROVE  Abstract!Next \/ UNCHANGED Abstract!vars
<1>1. CASE kind = "temporary"
  <2>1. Settled(origin)' = Settled(origin)
    BY DEF ProviderError, Settled
  <2> QED
    BY <1>1, <2>1, Stutter DEF ProviderError
<1>2. CASE kind = "critical"
  BY <1>2, HaltStep DEF ProviderError, Abstract!Next
<1> QED
  BY <1>1, <1>2 DEF ProviderError

\* Discarding the held commitment settles its item.
LEMMA DiscardRefines ==
    ASSUME IndInv, altda_commitment # NoCert, pc \in {"validity", "payload"}, Discard,
           UNCHANGED <<chain, origin, eth, cause, out, resets>>,
           ~Delivers(chain[origin][Settled(origin) + 1], origin),
           ~MustHalt(chain[origin][Settled(origin) + 1])
    PROVE  Abstract!Settle
<1>1. /\ origin \in Blocks
      /\ Settled(origin) \in Nat
      /\ eth.open
      /\ eth.popped = Settled(origin) + 1
      /\ eth.popped \in 1..Len(chain[origin])
  BY HeldPosition DEF IndInv, HeldCommitmentIsCurrent
<1>2. Settled(origin)' = Settled(origin) + 1
  BY <1>1 DEF Discard, Settled, Blocks
<1> QED
  BY <1>1, <1>2, RunningPhase, SettleStep

LEMMA OnValidityRefines ==
    ASSUME IndInv, OnValidity(Valid[altda_commitment])
    PROVE  Abstract!Next \/ UNCHANGED Abstract!vars
<1> DEFINE c == altda_commitment
           d == chain[origin][Settled(origin) + 1]
           verdict == Verdict(c, Valid[c], origin)
<1>0. pc = "validity"
  BY DEF OnValidity
<1>1. c # NoCert
  BY <1>0 DEF IndInv, SourceInv
<1>2. /\ origin \in Blocks
      /\ c \in Certs
      /\ Settled(origin) \in Nat
      /\ eth.popped = Settled(origin) + 1
      /\ eth.popped \in 1..Len(chain[origin])
      /\ IsCommitment(d)
      /\ Parse(d) = c
  BY <1>1, HeldPosition DEF IndInv, HeldCommitmentIsCurrent
<1>3. Valid[c] \in BOOLEAN
  BY <1>2
<1>4. CASE verdict = "discard"
  <2>1. ~Delivers(d, origin) /\ ~MustHalt(d)
    BY <1>2, <1>3, <1>4 DEF Verdict, Delivers, MustHalt, CertDelivers, IsCommitment, IsRaw
  <2> QED
    BY <1>0, <1>1, <1>4, <2>1, DiscardRefines DEF OnValidity, Abstract!Next
<1>5. CASE verdict = "critical"
  <2>1. MustHalt(d)
    BY <1>2, <1>3, <1>5 DEF Verdict, MustHalt
  <2>2. Cursor = Settled(origin) /\ Cursor' = Cursor /\ Cursor < Len(chain[origin])
    BY <1>2, <1>5 DEF OnValidity, Cursor, Settled, Blocks, IndInv, TypeOK
  <2> QED
    BY <1>2, <1>5, <2>1, <2>2, RunningPhase, SameMeaning
       DEF OnValidity, Fail, Abstract!Next, Abstract!HaltOnVersion, Abstract!Running
<1>6. CASE verdict = "payload"
  <2>1. UNCHANGED <<chain, origin, eth, altda_commitment, cause, out, resets>>
    BY <1>6 DEF OnValidity
  <2>2. Settled(origin)' = Settled(origin)
    BY <2>1 DEF Settled
  <2> QED
    BY <2>1, <2>2, Stutter
<1> QED
  BY <1>4, <1>5, <1>6 DEF OnValidity

LEMMA OnPayloadRefines ==
    ASSUME IndInv, OnPayload(BlobOf[altda_commitment])
    PROVE  Abstract!Settle
<1> DEFINE c == altda_commitment
           n == Settled(origin)
           d == chain[origin][n + 1]
           f == Decode[BlobOf[c]]
<1>0. pc = "payload"
  BY DEF OnPayload
<1>1. c # NoCert /\ Verdict(c, Valid[c], origin) = "payload"
  BY <1>0 DEF IndInv, SourceInv
<1>2. /\ origin \in Blocks
      /\ c \in Certs
      /\ n \in Nat
      /\ eth.open
      /\ eth.popped = n + 1
      /\ eth.popped \in 1..Len(chain[origin])
      /\ IsCommitment(d)
      /\ Parse(d) = c
  BY <1>1, HeldPosition DEF IndInv, HeldCommitmentIsCurrent
<1>3. Valid[c] /\ OdvSupported(c) /\ Recent(c, origin)
  BY <1>1, <1>2 DEF Verdict
<1>4. ~MustHalt(d) /\ ~IsRaw(d)
  BY <1>2, <1>3 DEF MustHalt, IsCommitment
<1>5. CASE f = DecodeError
  <2>1. ~Delivers(d, origin)
    BY <1>2, <1>4, <1>5 DEF Delivers, CertDelivers
  <2> QED
    BY <1>0, <1>1, <1>4, <1>5, <2>1, DiscardRefines DEF OnPayload
<1>6. CASE f # DecodeError
  <2>1. Delivers(d, origin) /\ DataOf(d) = f
    BY <1>2, <1>3, <1>4, <1>6 DEF Delivers, CertDelivers, DataOf
  <2>2. /\ altda_commitment' = NoCert
        /\ out' = [out EXCEPT ![origin] = Append(@, [pos |-> n + 1, data |-> f])]
        /\ UNCHANGED <<chain, origin, eth, cause, resets>>
    BY <1>2, <1>6 DEF OnPayload, Return
  <2>3. Settled(origin)' = n + 1
    BY <1>2, <2>2 DEF Settled, Blocks
  <2> QED
    BY <1>0, <1>2, <1>4, <2>1, <2>2, <2>3, RunningPhase, SettleStep
<1> QED
  BY <1>5, <1>6

LEMMA ResetRefines ==
    ASSUME IndInv, NEW b \in Blocks, Reset(b)
    PROVE  Abstract!Next
<1>1. cause = "none"
  BY DEF IndInv, SourceInv, Reset
<1>2. Cursor' = 0
  BY DEF Reset, Clear, EthClosed, Cursor, Settled, Blocks
<1>3. Abstract!ForgetFrom(out, b) = ForgetFrom(out, b)
  BY SameMeaning DEF Abstract!ForgetFrom, ForgetFrom
<1>4. Abstract!Reset(b) /\ b <= origin
  BY <1>1, <1>2, <1>3 DEF Reset, Abstract!Reset
<1> QED
  BY <1>4, SameMeaning DEF Abstract!Next

LEMMA InitRefines == Init => Abstract!Init
<1> SUFFICES ASSUME Init
             PROVE  Abstract!Init
  OBVIOUS
<1>1. Cursor = 0
  BY DEF Init, EthClosed, Cursor, Settled
<1> QED
  BY <1>1, SameMeaning DEF Init, Abstract!Init

LEMMA NextRefines == IndInv /\ [Next]_vars => [Abstract!Next]_(Abstract!vars)
<1> SUFFICES ASSUME IndInv, [Next]_vars
             PROVE  Abstract!Next \/ UNCHANGED Abstract!vars
  OBVIOUS
<1>1. CASE NextCall
  BY <1>1, NextCallRefines
<1>2. CASE \E kind \in ErrorKind : EthError(kind)
  BY <1>2, EthErrorRefines
<1>3. CASE EthStep
  BY <1>3, EthEofRefines, EthSkipRefines, EthRawRefines, EthCommitmentRefines
     DEF EthStep, Abstract!Next
<1>4. CASE \E kind \in ErrorKind : ProviderError(kind)
  BY <1>4, ProviderErrorRefines
<1>5. CASE OnValidity(Valid[altda_commitment]) \/ OnPayload(BlobOf[altda_commitment])
  BY <1>5, OnValidityRefines, OnPayloadRefines DEF Abstract!Next
<1>6. CASE \E b \in Blocks : Reset(b)
  BY <1>6, ResetRefines
<1>7. CASE UNCHANGED vars
  <2>1. Settled(origin)' = Settled(origin)
    BY <1>7 DEF vars, Settled
  <2> QED
    BY <1>7, <2>1, Stutter DEF vars
<1> QED
  BY <1>1, <1>2, <1>3, <1>4, <1>5, <1>6, <1>7 DEF Next, Done

\* Retries, recursive calls and temporary errors of next() are invisible: the
\* data source implements the derivation that settles every item once, in one
\* step, by what the item means (eigenda.rs, next and clear).
THEOREM RefinementTheorem == Spec => RefinesBlobDerivation
<1>1. Init => Abstract!Init
  BY InitRefines
<1>2. IndInv /\ [Next]_vars => [Abstract!Next]_(Abstract!vars)
  BY NextRefines
<1> QED
  BY <1>1, <1>2, IndInvHolds, PTL DEF Spec, RefinesBlobDerivation, Abstract!Spec

=============================================================================
