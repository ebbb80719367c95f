-------------------------- MODULE WitnessRoundTrip --------------------------
(***************************************************************************)
(* The two passes of a zkVM integration (example/preloader).  The first    *)
(* pass runs the derivation over OracleEigenDAPreimageProviderWithPreimage *)
(* (crates/witgen), which records every answer of the provider it wraps;   *)
(* prepare_witness adds the proofs; the second pass is the replay of       *)
(* PreloadedProvider over that witness.                                    *)
(*                                                                         *)
(* stage = "witgen" during the first pass, "aborted" when prepare_witness  *)
(* fails, and then as in PreloadedProvider.                                *)
(***************************************************************************)
EXTENDS PreloadedProvider

CONSTANT
    PayloadMayFail   \* may the wrapped get_encoded_payload fail temporarily?

ASSUME PayloadMayFailAssumption == PayloadMayFail \in BOOLEAN

\* The operators sign a certificate over the blob they store: what the proxy
\* serves for a valid one has its commitment and its length.
ASSUME DispersalAssumption ==
    \A c \in Certs : Valid[c] => /\ NumFE[BlobOf[c]] = c.length
                                 /\ Commit[BlobOf[c]] = c.kzg

VARIABLES
    preimage,    \* EigenDAPreimage: the answers recorded so far
    first_out    \* history: what the first pass derived

round_trip_vars == <<replay_vars, preimage, first_out>>

EmptyPreimage == [validities |-> << >>, encoded_payloads |-> << >>]
EmptyWitness == [validities |-> << >>, encoded_payloads |-> << >>,
                 canoe_proof |-> NoProof]

RoundTripInit ==
    /\ Init
    /\ witness = EmptyWitness
    /\ validity_entries = << >>
    /\ encoded_payload_entries = << >>
    /\ stage = "witgen"
    /\ preimage = EmptyPreimage
    /\ first_out = out

-----------------------------------------------------------------------------
(***************************************************************************)
(* The recording provider: an answer is pushed, an error is passed on.     *)
(***************************************************************************)

RecordValidity ==
    /\ OnValidity(Valid[altda_commitment])
    /\ preimage' = [preimage EXCEPT !.validities =
         Append(@, [cert |-> altda_commitment, valid |-> Valid[altda_commitment]])]

RecordPayload ==
    /\ OnPayload(BlobOf[altda_commitment])
    /\ preimage' = [preimage EXCEPT !.encoded_payloads =
         Append(@, [cert |-> altda_commitment, payload |-> BlobOf[altda_commitment]])]

WrappedError(kind) ==
    /\ ProviderError(kind)
    /\ pc = "payload" /\ kind = "temporary" => PayloadMayFail
    /\ UNCHANGED preimage

WitgenStep ==
    /\ stage = "witgen"
    /\ \/ RecordValidity
       \/ RecordPayload
       \/ \E kind \in ErrorKind : WrappedError(kind)
       \/ /\ NextCall \/ EthStep \/ \E kind \in ErrorKind : EthError(kind)
          /\ UNCHANGED preimage
    /\ UNCHANGED <<witness, entries, stage, first_out>>

-----------------------------------------------------------------------------
(***************************************************************************)
(* prepare_witness                                                         *)
(***************************************************************************)

\* Mutant of KzgProofs: the commitments instead of the proofs.
KzgCommitments(recorded) ==
    [i \in DOMAIN recorded.encoded_payloads |->
        Commit[recorded.encoded_payloads[i].payload]]

KzgProofs(recorded) ==
    [i \in DOMAIN recorded.encoded_payloads |-> recorded.encoded_payloads[i].payload]

\* One proof for all the certificates; None if there are none.
CanoeProof(validities) ==
    IF validities = << >> THEN NoProof
    ELSE [i \in DOMAIN validities |->
            LET s == [cert |-> validities[i].cert, l1 |-> TrustedL1,
                      verifier |-> Router[TrustedL1]]
            IN  [cert |-> s.cert, l1 |-> s.l1, verifier |-> s.verifier,
                 output |-> OnChain[s]]]

FromPreimage(recorded, kzg_proofs, canoe_proof) ==
    [validities |-> recorded.validities,
     encoded_payloads |->
        [i \in DOMAIN recorded.encoded_payloads |->
            [cert |-> recorded.encoded_payloads[i].cert,
             payload |-> recorded.encoded_payloads[i].payload,
             proof |-> kzg_proofs[i]]],
     canoe_proof |-> canoe_proof]

\* The first pass is over; the second one starts the pipeline afresh on the
\* same L1 data.
PrepareWitness ==
    /\ stage = "witgen"
    /\ Finished
    /\ Router[TrustedL1] # NoAddress \/ preimage.validities = << >>
    /\ witness' = FromPreimage(preimage, KzgProofs(preimage),
                               CanoeProof(preimage.validities))
    /\ stage' = "load"
    /\ first_out' = out
    /\ origin' = 1
    /\ out' = [b \in Blocks |-> << >>]
    /\ UNCHANGED <<chain, eth, altda_commitment, pc, cause, resets, entries,
                   preimage>>

\* The Canoe prover fails, or no verifier address is known.
AbortWitgen ==
    /\ stage = "witgen"
    /\ Finished
    /\ preimage.validities # << >>
    /\ stage' = "aborted"
    /\ UNCHANGED <<vars, witness, entries, preimage, first_out>>

SecondPass ==
    /\ \/ FromWitness
       \/ RejectWitness
       \/ GetValidity
       \/ GetEncodedPayload
       \/ PanicOnRequest
       \/ PipelineStep
    /\ UNCHANGED <<preimage, first_out>>

RoundTripDone ==
    /\ \/ stage \in {"panicked", "aborted"}
       \/ stage = "witgen" /\ pc = "halted"
       \/ stage = "derive" /\ (Finished \/ pc = "halted")
    /\ UNCHANGED round_trip_vars

RoundTripNext ==
    \/ WitgenStep
    \/ PrepareWitness
    \/ AbortWitgen
    \/ SecondPass
    \/ RoundTripDone

RoundTripSpec == RoundTripInit /\ [][RoundTripNext]_round_trip_vars

-----------------------------------------------------------------------------
RoundTripTypeOK ==
    /\ TypeOK
    /\ witness \in EigenDAWitness
    /\ validity_entries \in Seq(ValidityEntry)
    /\ encoded_payload_entries \in Seq(PayloadEntry)
    /\ stage \in {"witgen", "aborted", "load", "derive", "panicked"}
    /\ preimage \in [validities : Seq(ValidityEntry),
                     encoded_payloads : Seq(PayloadEntry)]
    /\ first_out \in [Blocks -> Seq(Entry)]

\* The witness of an honest first pass stops the second pass if it holds a
\* payload whose proof is the point at infinity, which batch_verify refuses,
\* and for no other reason: it is accepted, and holds everything the second
\* pass asks for in the order it asks for it, whatever errors and retries the
\* first pass went through (example/preloader, witness_provider.rs,
\* preloaded_eigenda_provider.rs).
PanicsExactlyAtInfinity ==
    stage \in {"derive", "panicked"} =>
        (stage = "panicked" <=> AtInfinity(witness.encoded_payloads))

\* The second pass derives what the first one derived and uses the witness
\* up: nothing is recorded that the replay does not ask for
\* (example/preloader, preloaded_eigenda_provider.rs).
ReplayReproduces ==
    stage = "derive" /\ Finished =>
        /\ out = first_out
        /\ validity_entries = << >>
        /\ encoded_payload_entries = << >>

=============================================================================
