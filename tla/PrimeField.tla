----------------------------- MODULE PrimeField -----------------------------
(***************************************************************************)
(* The scalar field of the curve (Fr of substrate-bn), with P elements.    *)
(* Sums, products and powers are recursive functions, which can be         *)
(* reasoned about, in place of folds over sets.                            *)
(***************************************************************************)
EXTENDS Integers, Sequences, FiniteSetsExt

CONSTANT P   \* the order of the field and of the group, a prime

ASSUME PrimeAssumption ==
    P \in Nat /\ P > 2 /\ \A d \in 2..(P - 1) : P % d # 0

Fr == 0..(P - 1)

\* x^n in the field
Power(x, n) ==
    LET pow[k \in 0..n] == IF k = 0 THEN 1 ELSE (pow[k - 1] * x) % P
    IN  pow[n]

\* The sum of a sequence of numbers, and their product in the field.
SumUpTo(s) ==
    LET sum[k \in 0..Len(s)] == IF k = 0 THEN 0 ELSE sum[k - 1] + s[k]
    IN  sum

SumOf(s) == SumUpTo(s)[Len(s)]

ProductUpTo(s) ==
    LET product[k \in 0..Len(s)] == IF k = 0 THEN 1 ELSE (product[k - 1] * s[k]) % P
    IN  product

ProductOf(s) == ProductUpTo(s)[Len(s)]

\* By Fermat's theorem, and zero for zero.
Inv(x) == Power(x, P - 2)

=============================================================================
