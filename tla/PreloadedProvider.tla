-------------------------- MODULE PreloadedProvider --------------------------
(***************************************************************************)
(* The derivation inside a zkVM: EigenDADataSource over a                  *)
(* PreloadedEigenDAPreimageProvider (crates/proof), which is built once    *)
(* from a witness that an untrusted host supplies and then answers from    *)
(* two stacks.  stage = "load" before from_witness, "derive" while the     *)
(* pipeline runs and "panicked" once an assertion failed: the guest        *)
(* aborts and no proof comes to be.                                        *)
(*                                                                         *)
(* The cryptography is external.  A Canoe receipt is the sequence of       *)
(* journals it proves; a KZG proof is the payload it was computed for.     *)
(***************************************************************************)
EXTENDS EigenDADataSource, SequencesExt

CONSTANTS
    L1Contexts,   \* (l1 head hash, number, timestamp, chain id) tuples
    TrustedL1,    \* the one read from the verified oracle
    Addresses,    \* addresses of verifier contracts
    Router,       \* Router[l1]: what the address fetcher knows, or NoAddress
    NoAddress,
    OnChain,      \* OnChain[s]: the answer of the contract to statement s
    NumFE,        \* NumFE[p]: EncodedPayload::num_field_element
    Commit,       \* Commit[p]: the KZG commitment of p
    Flat,         \* the payloads whose polynomial is constant
    NoProof,      \* canoe_proof_bytes is None
    Witnesses     \* the witnesses a host may supply

VARIABLES witness, validity_entries, encoded_payload_entries, stage

entries == <<validity_entries, encoded_payload_entries>>

replay_vars == <<vars, witness, entries, stage>>

ValidityEntry == [cert : Certs, valid : BOOLEAN]
PayloadEntry  == [cert : Certs, payload : Payloads]
ProvenPayload == [cert : Certs, payload : Payloads, proof : Payloads]
Statement     == [cert : Certs, l1 : L1Contexts, verifier : Addresses]
Journal       == [cert : Certs, l1 : L1Contexts, verifier : Addresses,
                  output : BOOLEAN]

StatementOf(j) == [cert |-> j.cert, l1 |-> j.l1, verifier |-> j.verifier]

EigenDAWitness ==
    [validities : Seq(ValidityEntry), encoded_payloads : Seq(ProvenPayload),
     canoe_proof : Seq(Journal) \cup {NoProof}]

ASSUME ContextAssumption ==
    /\ TrustedL1 \in L1Contexts
    /\ Router \in [L1Contexts -> Addresses \cup {NoAddress}]
    /\ NoAddress \notin Addresses
    /\ OnChain \in [Statement -> BOOLEAN]
    /\ NumFE \in [Payloads -> Nat]
    /\ Commit \in [Payloads -> Nat]
    /\ Flat \subseteq Payloads
    /\ \A p \in Payloads : NumFE[p] <= 1 => p \in Flat
    /\ Witnesses \subseteq EigenDAWitness
    /\ NoProof \notin Seq(Journal)

\* A certificate is valid if the contract at the trusted head says so.
ASSUME ValidityAssumption ==
    Router[TrustedL1] # NoAddress =>
        \A c \in Certs : Valid[c] = OnChain[[cert |-> c, l1 |-> TrustedL1,
                                             verifier |-> Router[TrustedL1]]]

\* Soundness of the zkVM: a receipt exists only for journals that are true.
ASSUME ReceiptSoundness ==
    \A w \in Witnesses :
        w.canoe_proof # NoProof =>
            \A i \in DOMAIN w.canoe_proof :
                LET j == w.canoe_proof[i] IN j.output = OnChain[StatementOf(j)]

\* A KZG commitment binds a payload of a given number of field elements.
ASSUME KzgBinding ==
    \A c \in Certs, p \in Payloads :
        NumFE[p] = c.length /\ Commit[p] = c.kzg => p = BlobOf[c]

-----------------------------------------------------------------------------
(***************************************************************************)
(* from_witness                                                            *)
(***************************************************************************)

\* What the zkVM expects the receipt to have committed to: the L1 context is
\* its own, only the certificates and claims come from the witness.
ToJournals(validities) ==
    [i \in DOMAIN validities |->
        [cert |-> validities[i].cert, l1 |-> TrustedL1,
         verifier |-> Router[TrustedL1], output |-> validities[i].valid]]

ValidateCertReceipt(w) ==
    /\ Router[TrustedL1] # NoAddress
    /\ w.canoe_proof = ToJournals(w.validities)

\* The proof of a constant polynomial is the point at infinity.  The prover
\* writes it as (0, 0), which G1Affine::new of one backend and AffineG1::new
\* of the other refuse as a point that is not on the curve.
AtInfinity(proven) == \E i \in DOMAIN proven : proven[i].payload \in Flat

\* verify_blob_kzg_proof_batch: every point parses, and every proof opens
\* its own commitment.
BatchVerify(proven) ==
    /\ ~AtInfinity(proven)
    /\ \A i \in DOMAIN proven : /\ proven[i].proof = proven[i].payload
                               /\ Commit[proven[i].payload] = proven[i].cert.kzg

LengthsMatch(proven) ==
    \A i \in DOMAIN proven : NumFE[proven[i].payload] = proven[i].cert.length

\* Mutant of Accepts: the number of field elements is not compared.
AcceptsAnyLength(w) ==
    /\ Len(w.validities) >= Len(w.encoded_payloads)
    /\ w.validities # << >> => ValidateCertReceipt(w)
    /\ BatchVerify(w.encoded_payloads)

Accepts(w) ==
    /\ Len(w.validities) >= Len(w.encoded_payloads)
    /\ LengthsMatch(w.encoded_payloads)
    /\ w.validities # << >> => ValidateCertReceipt(w)
    /\ BatchVerify(w.encoded_payloads)

\* Mutant of DropProof.
KeepProof(e) == e

DropProof(e) == [cert |-> e.cert, payload |-> e.payload]

\* Mutant of FromWitness: entries are popped from the wrong end.
FromWitnessUnreversed ==
    /\ stage = "load"
    /\ Accepts(witness)
    /\ stage' = "derive"
    /\ validity_entries' = witness.validities
    /\ encoded_payload_entries' =
         LET proven == witness.encoded_payloads
         IN  [i \in DOMAIN proven |-> DropProof(proven[i])]
    /\ UNCHANGED <<vars, witness>>

FromWitness ==
    /\ stage = "load"
    /\ Accepts(witness)
    /\ stage' = "derive"
    /\ validity_entries' = Reverse(witness.validities)
    /\ encoded_payload_entries' =
         LET proven == Reverse(witness.encoded_payloads)
         IN  [i \in DOMAIN proven |-> DropProof(proven[i])]
    /\ UNCHANGED <<vars, witness>>

RejectWitness ==
    /\ stage = "load"
    /\ ~Accepts(witness)
    /\ stage' = "panicked"
    /\ UNCHANGED <<vars, witness, entries>>

-----------------------------------------------------------------------------
(***************************************************************************)
(* get_validity and get_encoded_payload                                    *)
(***************************************************************************)

\* Mutant of OnTop: the commitment is not compared.
OnTopUnchecked(stack) == stack # << >>

\* The top of a stack is the entry of the commitment asked for.
OnTop(stack) == stack # << >> /\ Last(stack).cert = altda_commitment

\* Mutant of GetValidity: the entry is read and not popped.
GetValidityPeek ==
    /\ stage = "derive"
    /\ OnTop(validity_entries)
    /\ OnValidity(Last(validity_entries).valid)
    /\ UNCHANGED <<witness, entries, stage>>

GetValidity ==
    /\ stage = "derive"
    /\ OnTop(validity_entries)
    /\ OnValidity(Last(validity_entries).valid)
    /\ validity_entries' = Front(validity_entries)
    /\ UNCHANGED <<witness, encoded_payload_entries, stage>>

GetEncodedPayload ==
    /\ stage = "derive"
    /\ OnTop(encoded_payload_entries)
    /\ OnPayload(Last(encoded_payload_entries).payload)
    /\ encoded_payload_entries' = Front(encoded_payload_entries)
    /\ UNCHANGED <<witness, validity_entries, stage>>

\* The stack is empty or holds another commitment.
PanicOnRequest ==
    /\ stage = "derive"
    /\ \/ pc = "validity" /\ ~OnTop(validity_entries)
       \/ pc = "payload" /\ ~OnTop(encoded_payload_entries)
    /\ stage' = "panicked"
    /\ UNCHANGED <<vars, witness, entries>>

\* The steps of the pipeline that do not touch the provider.
PipelineStep ==
    /\ stage = "derive"
    /\ \/ NextCall
       \/ \E kind \in ErrorKind : EthError(kind)
       \/ EthStep
       \/ \E b \in Blocks : Reset(b)
    /\ UNCHANGED <<witness, entries, stage>>

ReplayDone ==
    /\ stage = "panicked" \/ (stage = "derive" /\ (Finished \/ pc = "halted"))
    /\ UNCHANGED replay_vars

ReplayInit ==
    /\ Init
    /\ witness \in Witnesses
    /\ validity_entries = << >>
    /\ encoded_payload_entries = << >>
    /\ stage = "load"

ReplayNext ==
    \/ FromWitness
    \/ RejectWitness
    \/ GetValidity
    \/ GetEncodedPayload
    \/ PanicOnRequest
    \/ PipelineStep
    \/ ReplayDone

ReplaySpec == ReplayInit /\ [][ReplayNext]_replay_vars

-----------------------------------------------------------------------------
ReplayTypeOK ==
    /\ TypeOK
    /\ witness \in EigenDAWitness
    /\ validity_entries \in Seq(ValidityEntry)
    /\ encoded_payload_entries \in Seq(PayloadEntry)
    /\ stage \in {"load", "derive", "panicked"}

\* Whatever witness the host made up, every entry the pipeline may be served
\* tells the truth about its certificate at the trusted L1 head
\* (preloaded_eigenda_provider.rs, from_witness).
EntriesAreTrue ==
    /\ \A i \in DOMAIN validity_entries :
         validity_entries[i].valid = Valid[validity_entries[i].cert]
    /\ \A i \in DOMAIN encoded_payload_entries :
         encoded_payload_entries[i].payload = BlobOf[encoded_payload_entries[i].cert]

\* A run of the zkVM program over any witness is a run of the data source
\* over a truthful provider: a false witness can stop it, and never make it
\* derive something else (preloaded_eigenda_provider.rs).
ReplayRefinesSource == Spec

=============================================================================
