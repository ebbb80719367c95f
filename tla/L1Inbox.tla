------------------------------ MODULE L1Inbox ------------------------------
(***************************************************************************)
(* The L1 blocks a derivation run reads, common to the detailed and to the *)
(* abstract specification.                                                 *)
(***************************************************************************)
EXTENDS PreimageSource, Sequences

CONSTANTS
    LastBlock,   \* the L1 blocks are 1..LastBlock
    L1Chains,    \* the possible contents of the inbox, block by block
    MaxResets    \* bound: how often the pipeline is reset

Blocks == 1..LastBlock

ASSUME ChainAssumption ==
    /\ LastBlock \in Nat
    /\ MaxResets \in Nat
    /\ L1Chains \subseteq [Blocks -> Seq(Calldata)]

\* What the stages above receive: the data, and (history) its position in the
\* block it was read from.
Entry == [pos : Nat, data : Calldata \cup Frames]

\* A reset to block b makes the stages above forget blocks b and later.
ForgetFrom(out, b) == [k \in Blocks |-> IF k < b THEN out[k] ELSE << >>]

=============================================================================
