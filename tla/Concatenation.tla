--------------------------- MODULE Concatenation ---------------------------
(***************************************************************************)
(* The concatenation of a sequence of sequences, written as a recursive    *)
(* function so that it can be reasoned about.                              *)
(***************************************************************************)
EXTENDS Naturals, Sequences

\* ConcatUpTo(parts)[n] puts the first n parts together.
ConcatUpTo(parts) ==
    LET upto[n \in 0..Len(parts)] ==
            IF n = 0 THEN << >> ELSE upto[n - 1] \o parts[n]
    IN  upto

Concat(parts) == ConcatUpTo(parts)[Len(parts)]

=============================================================================
