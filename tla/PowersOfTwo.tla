---------------------------- MODULE PowersOfTwo ----------------------------
(***************************************************************************)
(* Powers of two, as a recursive function up to a bound.                   *)
(***************************************************************************)
EXTENDS Integers

\* 2^k for every k up to n
TwoTo(n) ==
    LET two[k \in 0..n] == IF k = 0 THEN 1 ELSE 2 * two[k - 1]
    IN  two

=============================================================================
