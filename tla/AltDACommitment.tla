-------------------------- MODULE AltDACommitment --------------------------
(***************************************************************************)
(* The data that the derivation pipeline reads from an L1 inbox, and the   *)
(* AltDACommitment it may hold (crates/eigenda-cert and the parse function *)
(* of crates/eigenda/src/eigenda_preimage.rs).                             *)
(*                                                                         *)
(* A certificate is a record of the fields the rest of the system tells    *)
(* apart.  A string of inbox bytes is a record too: its length, the header *)
(* bytes the parser looks at and the certificate, if any, that the RLP     *)
(* body decodes to.  Bytes past `len' do not exist and are never read.     *)
(***************************************************************************)
EXTENDS Naturals

CONSTANTS
    Certs,      \* the certificates that occur in the inbox
    Calldata,   \* the byte strings that occur in the inbox
    NoCert      \* no certificate: Option::None, or a body that is not RLP

CertVersion == {"V2", "V3", "V4"}

\* One record per EigenDACertV2 / V3 / V4: `id' stands for the quorum and
\* signature fields, `odv' is meaningful for V4 only.
CertRecord == [id : Nat, version : CertVersion, odv : Nat, rbn : Nat,
               length : Nat, kzg : Nat]

CalldataRecord == [len : Nat, derivation : 0..255, commitment_type : 0..255,
                   da_layer : 0..255, cert_version : 0..255,
                   body : Certs \cup {NoCert}]

ASSUME CertsAssumption ==
    /\ Certs \subseteq CertRecord
    /\ NoCert \notin Certs

ASSUME CalldataAssumption == Calldata \subseteq CalldataRecord

ALTDA_DERIVATION_VERSION == 1

\* The byte that precedes the RLP body for each version of the certificate.
VersionByte(version) ==
    CASE version = "V2" -> 1
      [] version = "V3" -> 2
      [] version = "V4" -> 3

\* AltDACommitment::try_from on the bytes that follow the derivation byte:
\* d.len - 1 of them.
TryFrom(d) ==
    IF /\ d.len - 1 >= 4
       /\ d.commitment_type = 1
       /\ d.da_layer = 0
       /\ d.body # NoCert
       /\ d.cert_version = VersionByte(d.body.version)
    THEN d.body
    ELSE NoCert

\* EigenDAPreimageSource::parse: NoCert is the error result.
Parse(d) == IF d.len <= 2 THEN NoCert ELSE TryFrom(d)

IsEmpty(d) == d.len = 0

\* Data posted to Ethereum itself: it goes through unchanged.
IsRaw(d) == ~IsEmpty(d) /\ d.derivation # ALTDA_DERIVATION_VERSION

IsCommitment(d) == ~IsEmpty(d) /\ ~IsRaw(d) /\ Parse(d) # NoCert

\* Addressed to EigenDA, but not a commitment this version can read.
IsMalformed(d) == ~IsEmpty(d) /\ ~IsRaw(d) /\ Parse(d) = NoCert

=============================================================================
