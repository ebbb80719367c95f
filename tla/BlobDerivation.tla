--------------------------- MODULE BlobDerivation ---------------------------
(***************************************************************************)
(* What EigenDA blob derivation promises to the stages above it.  The L1   *)
(* blocks are read in order and the items of each block in order; every    *)
(* item is settled once, in one step, by what it means (Delivers, Drops,   *)
(* MustHalt).  There is no retry here: a temporary error of a provider     *)
(* must not be visible.                                                    *)
(***************************************************************************)
EXTENDS L1Inbox

VARIABLES
    chain,    \* chain[b]: the batcher data of L1 block b
    origin,   \* the L1 block being read; LastBlock + 1 when all are read
    cursor,   \* how many items of that block are settled
    out,      \* out[b]: the data handed up for block b, with its position
    cause,    \* why derivation stopped: "none", "provider" or "version"
    resets

vars == <<chain, origin, cursor, out, cause, resets>>

Init ==
    /\ chain \in L1Chains
    /\ origin = 1
    /\ cursor = 0
    /\ out = [b \in Blocks |-> << >>]
    /\ cause = "none"
    /\ resets = 0

Running == cause = "none" /\ origin \in Blocks

\* The next item is handed up or dropped.
Settle ==
    /\ Running
    /\ cursor < Len(chain[origin])
    /\ LET d == chain[origin][cursor + 1] IN
         /\ ~MustHalt(d)
         /\ out' = IF Delivers(d, origin)
                   THEN [out EXCEPT ![origin] =
                           Append(@, [pos |-> cursor + 1, data |-> DataOf(d)])]
                   ELSE out
    /\ cursor' = cursor + 1
    /\ UNCHANGED <<chain, origin, cause, resets>>

NextBlock ==
    /\ Running
    /\ cursor = Len(chain[origin])
    /\ origin' = origin + 1
    /\ cursor' = 0
    /\ UNCHANGED <<chain, out, cause, resets>>

\* Derivation stops because of a version it cannot handle: only when the next
\* item is a valid certificate of that version.
HaltOnVersion ==
    /\ Running
    /\ cursor < Len(chain[origin])
    /\ MustHalt(chain[origin][cursor + 1])
    /\ cause' = "version"
    /\ UNCHANGED <<chain, origin, cursor, out, resets>>

\* A provider may fail for good at any time.
HaltOnProvider ==
    /\ Running
    /\ cause' = "provider"
    /\ UNCHANGED <<chain, origin, cursor, out, resets>>

\* The pipeline is reset to an earlier block: what was handed up from there
\* on is forgotten and derived again.
Reset(b) ==
    /\ cause = "none"
    /\ resets < MaxResets
    /\ origin' = b
    /\ cursor' = 0
    /\ out' = ForgetFrom(out, b)
    /\ resets' = resets + 1
    /\ UNCHANGED <<chain, cause>>

Next ==
    \/ Settle
    \/ NextBlock
    \/ HaltOnVersion
    \/ HaltOnProvider
    \/ \E b \in Blocks : b <= origin /\ Reset(b)

Spec == Init /\ [][Next]_vars

=============================================================================
