--------------------------- MODULE PreimageSource ---------------------------
(***************************************************************************)
(* EigenDAPreimageSource::next (crates/eigenda/src/eigenda_preimage.rs):   *)
(* the rules a parsed commitment is judged by, in the order the code       *)
(* applies them, and the reference meaning of one inbox item that follows. *)
(***************************************************************************)
EXTENDS AltDACommitment

CONSTANTS
    RecencyWindow0,  \* the window of offchain derivation version 0 (14400)
    Valid,           \* Valid[c]: what the on-chain verifier says of c
    Payloads,        \* encoded payloads
    BlobOf,          \* BlobOf[c]: the encoded payload that c commits to
    Frames,          \* decoded payloads
    Decode,          \* Decode[p]: EncodedPayload::decode, a frame or DecodeError
    DecodeError

ASSUME ProviderAssumption ==
    /\ RecencyWindow0 \in Nat \ {0}
    /\ Valid \in [Certs -> BOOLEAN]
    /\ BlobOf \in [Certs -> Payloads]
    /\ Decode \in [Payloads -> Frames \cup {DecodeError}]
    /\ DecodeError \notin Frames

\* get_recency_window fails for any offchain derivation version but 0; only
\* V4 certificates carry one.
OdvSupported(c) == c.version = "V4" => c.odv = 0

RecencyWindow(c) == IF c.version = "V4" THEN RecencyWindow0 ELSE 0

\* recency_check(l1_inclusion_bn, rbn, recency_window)
RecencyCheck(l1_inclusion_bn, rbn, recency_window) ==
    \/ recency_window = 0
    \/ l1_inclusion_bn <= rbn + recency_window

Recent(c, l1_inclusion_bn) ==
    RecencyCheck(l1_inclusion_bn, c.rbn, RecencyWindow(c))

\* Mutant of Verdict: the derivation version is looked at before the validity.
VerdictVersionFirst(c, validity, l1_inclusion_bn) ==
    IF ~OdvSupported(c) THEN "critical"
    ELSE IF ~validity \/ ~Recent(c, l1_inclusion_bn) THEN "discard"
    ELSE "payload"

\* What happens to c once get_validity has answered: the certificate is
\* discarded, the derivation fails critically, or the payload is asked for.
Verdict(c, validity, l1_inclusion_bn) ==
    IF ~validity THEN "discard"
    ELSE IF ~OdvSupported(c) THEN "critical"
    ELSE IF ~Recent(c, l1_inclusion_bn) THEN "discard"
    ELSE "payload"

-----------------------------------------------------------------------------
(***************************************************************************)
(* The meaning of an inbox item, as a function of the item and of the L1   *)
(* block that includes it.  It mentions no call, retry or failure: the     *)
(* rest of the project relates what the code does to it.                   *)
(***************************************************************************)

CertDelivers(c, b) ==
    /\ Valid[c]
    /\ OdvSupported(c)
    /\ Recent(c, b)
    /\ Decode[BlobOf[c]] # DecodeError

Delivers(d, b) == IsRaw(d) \/ (IsCommitment(d) /\ CertDelivers(Parse(d), b))

\* A valid certificate whose derivation version this program does not know.
MustHalt(d) ==
    /\ IsCommitment(d)
    /\ Valid[Parse(d)]
    /\ ~OdvSupported(Parse(d))

Drops(d, b) == ~Delivers(d, b) /\ ~MustHalt(d)

\* The bytes a delivered item contributes to the frame queue.
DataOf(d) == IF IsRaw(d) THEN d ELSE Decode[BlobOf[Parse(d)]]

=============================================================================
