-------------------------- MODULE CanoeProof_proofs --------------------------
(***************************************************************************)
(* Proofs about CanoeProof, for both backends: types, the truth of what    *)
(* the verifier accepts, and which proofs of this prover it accepts.       *)
(***************************************************************************)
EXTENDS CanoeProof, TLAPS

\* A receipt came out of a run of the guest, on whatever inputs.
FromGuest(proof) ==
    \E in \in Seq(CanoeInput), sk \in EvmSketch :
        GuestRuns(in, sk) /\ proof = Journals(in, sk)

\* The inputs of this prover are those of the witness at the trusted head.
OwnInputs ==
    stage \in {"requested", "preflighted", "proved", "preflight_panic"} =>
        /\ inputs = CanoeInputs
        /\ validities # << >>
        /\ ProverAddress # NoAddress

\* Its sketch is the trusted head under the rules of the trusted chain.
OwnSketch ==
    stage \in {"preflighted", "proved"} =>
        sketch = [block |-> boot.head, rules |-> HostRules(boot.chain),
                  anchor |-> "BlockHash"] /\ sketch.rules # NoRules

OwnReceipt ==
    stage = "proved" => GuestRuns(inputs, sketch) /\ receipt = Journals(inputs, sketch)

Provenance ==
    /\ receipt # NoReceipt => FromGuest(receipt)
    /\ foreign # NoReceipt => FromGuest(foreign)

IndInv ==
    /\ TypeOK
    /\ OwnInputs
    /\ OwnSketch
    /\ OwnReceipt
    /\ Provenance
    /\ AcceptedClaimsAreTrue
    /\ AcceptedForkIsCurrent

-----------------------------------------------------------------------------
\* fetch_address answers with an address or fails.
LEMMA FetchAddressType ==
    ASSUME build \in Builds, boot \in Boots
    PROVE  /\ ProverAddress \in Addresses \cup {NoAddress}
           /\ VerifierAddress \in Addresses \cup {NoAddress}
           /\ build.backend \in {"sp1cc", "steel"}
  <1>1. /\ build.prover \in Fetchers /\ build.verifier \in Fetchers
        /\ build.backend \in {"sp1cc", "steel"} /\ boot.chain \in Chains
    BY CanoeAssumption
  <1>2. ASSUME NEW f \in Fetchers
        PROVE  FetchAddress(f, boot.chain) \in Addresses \cup {NoAddress}
    BY <1>1, CanoeAssumption DEF Fetchers, FetchAddress
  <1> QED
    BY <1>1, <1>2 DEF ProverAddress, VerifierAddress

\* The guest commits one well-formed journal per input.
LEMMA JournalsType ==
    ASSUME build \in Builds,
           NEW in \in Seq(CanoeInput), NEW sk \in EvmSketch, GuestRuns(in, sk)
    PROVE  Journals(in, sk) \in Seq(JournalRecord)
  <1>1. in # << >> /\ DOMAIN in = 1..Len(in) /\ Len(in) \in Nat /\ 1 \in DOMAIN in
    BY DEF GuestRuns, Sp1GuestRuns, SteelGuestRuns
  <1>2. \A i \in DOMAIN in : in[i] \in CanoeInput
    BY <1>1
  <1>3. CASE build.backend = "sp1cc"
    <2>1. ASSUME NEW i \in DOMAIN in
          PROVE  Sp1Journals(in, sk)[i] \in JournalRecord
      <3>1. /\ in[1].number \in Nat /\ in[i].verifier \in Addresses
            /\ in[i].cert \in Certs
        BY <1>1, <1>2 DEF CanoeInput
      <3>2. sk.block \in Blocks /\ sk.rules \in Rules
        BY DEF EvmSketch
      <3>3. ChainOf[sk.rules] \in Chains /\ Fork[sk.rules][sk.block] \in Forks
        BY <3>2, CanoeAssumption
      <3>4. Sp1GuestVerdict(CallOutput(in[i], sk.block, sk.rules)) \in BOOLEAN
        BY DEF Sp1GuestVerdict
      <3>5. [chain |-> ChainOf[sk.rules], fork |-> Fork[sk.rules][sk.block]]
              \in [chain : Chains, fork : Forks]
        BY <3>3
      <3> QED
        BY <3>1, <3>2, <3>3, <3>4, <3>5 DEF Sp1Journals, JournalRecord
    <2>2. DOMAIN Sp1Journals(in, sk) = 1..Len(in)
          /\ Sp1Journals(in, sk) = [i \in 1..Len(in) |-> Sp1Journals(in, sk)[i]]
      BY <1>1 DEF Sp1Journals
    <2> QED
      BY <1>1, <1>3, <2>1, <2>2 DEF Journals
  <1>4. CASE build.backend = "steel"
    <2>1. ASSUME NEW i \in DOMAIN in
          PROVE  SteelJournals(in, sk)[i] \in JournalRecord
      <3> DEFINE rules == SteelSpec[in[1].chain]
      <3>1. /\ in[1].number \in Nat /\ in[1].head \in Blocks
            /\ in[1].chain \in Chains
            /\ in[i].verifier \in Addresses /\ in[i].cert \in Certs
        BY <1>1, <1>2 DEF CanoeInput
      <3>2. sk.block \in Blocks /\ rules \in Rules
        BY <3>1, CanoeAssumption DEF EvmSketch
      <3>3. Fork[rules][sk.block] \in Forks
        BY <3>2, CanoeAssumption
      <3>4. SteelVerdict(CallOutput(in[i], sk.block, rules)) \in BOOLEAN
        BY DEF SteelVerdict
      <3>5. [fork |-> Fork[rules][sk.block]] \in [fork : Forks]
        BY <3>3
      <3> QED
        BY <3>1, <3>4, <3>5 DEF SteelJournals, JournalRecord
    <2>2. DOMAIN SteelJournals(in, sk) = 1..Len(in)
          /\ SteelJournals(in, sk) = [i \in 1..Len(in) |-> SteelJournals(in, sk)[i]]
      BY <1>1 DEF SteelJournals
    <2> QED
      BY <1>1, <1>4, <2>1, <2>2 DEF Journals
  <1> QED
    BY <1>3, <1>4, CanoeAssumption

\* An element of a sequence is in the set of its elements.
LEMMA ElementType ==
    ASSUME NEW S, NEW seq \in Seq(S), NEW i \in DOMAIN seq
    PROVE  seq[i] \in S
  OBVIOUS

\* The inputs that this prover builds are well formed.
LEMMA CanoeInputsType ==
    ASSUME build \in Builds, boot \in Boots, validities \in Claims,
           validities # << >> => ProverAddress # NoAddress
    PROVE  CanoeInputs \in Seq(CanoeInput)
  <1>1. /\ validities \in Seq([cert : Certs, valid : BOOLEAN])
        /\ boot \in [head : Blocks, chain : Chains]
    BY CanoeAssumption
  <1>2. DOMAIN validities = 1..Len(validities) /\ Len(validities) \in Nat
    BY <1>1
  <1>3. ASSUME NEW i \in DOMAIN validities
        PROVE  CanoeInputs[i] \in CanoeInput
    <2>1. validities # << >>
      BY <1>2
    <2>2. validities[i] \in [cert : Certs, valid : BOOLEAN]
      BY <1>1, ElementType
    <2> QED
      BY <2>1, <2>2, <1>1, FetchAddressType, CanoeAssumption DEF CanoeInputs, CanoeInput
  <1> QED
    BY <1>2, <1>3 DEF CanoeInputs

-----------------------------------------------------------------------------
\* What the verifier accepts is true: the journals it expects can only be
\* those of a run of the guest if that run was at its own head, address and
\* chain, and under the rules of its own build.
LEMMA AcceptedIsTrue ==
    ASSUME build \in Builds, boot \in Boots, validities \in Claims,
           NEW proof, FromGuest(proof), Validates(proof)
    PROVE  /\ \A i \in DOMAIN validities :
                validities[i].valid = TrueValidity(validities[i].cert)
           /\ \/ Fork[TrustedRules][boot.head] = DerivedFork(boot.chain, boot.head)
              \/ build.backend = "steel" /\ SteelActiveFork \in AllowedSteelForks
  <1>1. PICK in \in Seq(CanoeInput), sk \in EvmSketch :
          GuestRuns(in, sk) /\ proof = Journals(in, sk)
    BY DEF FromGuest
  <1>2. in # << >> /\ 1 \in DOMAIN in
    BY <1>1 DEF GuestRuns, Sp1GuestRuns, SteelGuestRuns
  <1>3. CASE build.backend = "sp1cc"
    <2>1. Sp1Journals(in, sk) = Sp1ToJournals /\ Sp1GuestRuns(in, sk)
      BY <1>1, <1>3 DEF Journals, Validates, Sp1Validates, GuestRuns
    <2>2. DOMAIN in = DOMAIN validities
      BY <2>1 DEF Sp1Journals, Sp1ToJournals
    <2>3. ASSUME NEW i \in DOMAIN validities
          PROVE  /\ sk.block = boot.head
                 /\ in[i].verifier = VerifierAddress
                 /\ in[i].cert = validities[i].cert
                 /\ Sp1GuestVerdict(CallOutput(in[i], sk.block, sk.rules))
                      = validities[i].valid
                 /\ sk.rules = TryFromGenesis[boot.chain]
                 /\ [chain |-> ChainOf[sk.rules], fork |-> Fork[sk.rules][sk.block]]
                      = [chain |-> boot.chain,
                         fork |-> DerivedFork(boot.chain, boot.head)]
      <3>1. Sp1Journals(in, sk)[i] = Sp1ToJournals[i]
        BY <2>1
      <3> QED
        BY <3>1, <2>2 DEF Sp1Journals, Sp1ToJournals
    <2>4. \A i \in DOMAIN validities :
            validities[i].valid = TrueValidity(validities[i].cert)
      BY <1>3, <2>3 DEF TrueValidity, TrustedRules, CallOutput, Sp1GuestVerdict
    <2>5. Fork[TrustedRules][boot.head] = DerivedFork(boot.chain, boot.head)
      BY <1>2, <1>3, <2>2, <2>3 DEF TrustedRules
    <2> QED
      BY <2>4, <2>5
  <1>4. CASE build.backend = "steel"
    <2>1. SteelJournals(in, sk) = SteelToJournals /\ SteelGuestRuns(in, sk)
          /\ SteelForkAllowed
      BY <1>1, <1>4 DEF Journals, Validates, SteelValidates, GuestRuns
    <2>2. DOMAIN in = DOMAIN validities
      BY <2>1 DEF SteelJournals, SteelToJournals
    <2>3. ASSUME NEW i \in DOMAIN validities
          PROVE  /\ in[1].head = boot.head /\ in[1].chain = boot.chain
                 /\ in[i].verifier = VerifierAddress
                 /\ in[i].cert = validities[i].cert
                 /\ SteelVerdict(CallOutput(in[i], sk.block, SteelSpec[in[1].chain]))
                      = validities[i].valid
      <3>1. SteelJournals(in, sk)[i] = SteelToJournals[i]
        BY <2>1
      <3> QED
        BY <3>1, <2>2 DEF SteelJournals, SteelToJournals
    <2>4. sk.block = in[1].head
      BY <1>2, <2>1 DEF SteelGuestRuns
    <2>5. ASSUME NEW i \in DOMAIN validities
          PROVE  validities[i].valid = TrueValidity(validities[i].cert)
      <3>1. TrustedRules = SteelSpec[in[1].chain] /\ sk.block = boot.head
        BY <1>4, <2>3, <2>4 DEF TrustedRules
      <3>2. CallOutput(in[i], sk.block, SteelSpec[in[1].chain])
              = Contract[[call |-> Build(validities[i].cert), block |-> boot.head,
                          verifier |-> VerifierAddress, rules |-> TrustedRules]]
        BY <2>3, <3>1 DEF CallOutput
      <3> QED
        BY <2>3, <3>2 DEF TrueValidity, SteelVerdict
    <2>6. \/ Fork[TrustedRules][boot.head] = DerivedFork(boot.chain, boot.head)
          \/ SteelActiveFork \in AllowedSteelForks
      BY <1>4, <2>1 DEF SteelForkAllowed, SteelActiveFork, TrustedRules
    <2> QED
      BY <1>4, <2>5, <2>6
  <1> QED
    BY <1>3, <1>4, CanoeAssumption

-----------------------------------------------------------------------------
\* The initial states satisfy the inductive invariant.
LEMMA InitIndInv == Init => IndInv
  <1> SUFFICES ASSUME Init PROVE IndInv
    OBVIOUS
  <1>1. TypeOK
    BY DEF Init, TypeOK
  <1> QED
    BY <1>1 DEF Init, IndInv, OwnInputs, OwnSketch, OwnReceipt, Provenance,
                AcceptedClaimsAreTrue, AcceptedForkIsCurrent,
           GuestRuns, Journals, HostRules

\* What a step that leaves the trusted data and the verdict alone keeps.
LEMMA VerdictKept ==
    ASSUME AcceptedClaimsAreTrue, AcceptedForkIsCurrent,
           UNCHANGED <<build, boot, validities, verdict>>
    PROVE  AcceptedClaimsAreTrue' /\ AcceptedForkIsCurrent'
  BY DEF AcceptedClaimsAreTrue, AcceptedForkIsCurrent, TrueValidity, TrustedRules,
         DerivedFork, SteelActiveFork,
         VerifierAddress

\* from_boot_info_to_canoe_proof keeps the invariant: the inputs are those of
\* the witness at the trusted head.
LEMMA BuildInputsKeeps == IndInv /\ BuildInputs => IndInv'
  <1> SUFFICES ASSUME IndInv, BuildInputs PROVE IndInv'
    OBVIOUS
  <1>1. AcceptedClaimsAreTrue' /\ AcceptedForkIsCurrent'
    BY VerdictKept DEF IndInv, BuildInputs
  <1>2. CanoeInputs \in Seq(CanoeInput)
    BY CanoeInputsType DEF IndInv, TypeOK, BuildInputs
  <1>3. TypeOK'
    BY <1>2 DEF IndInv, TypeOK, BuildInputs
  <1>4. OwnInputs' /\ OwnSketch' /\ OwnReceipt' /\ Provenance'
    BY DEF IndInv, BuildInputs, OwnInputs, OwnSketch, OwnReceipt, Provenance,
           CanoeInputs, FromGuest,
           GuestRuns, Journals, ProverAddress, HostRules
  <1> QED
    BY <1>1, <1>3, <1>4 DEF IndInv

\* The steps that end the work of the prover, and a reorganisation of L1.
LEMMA StopsKeep ==
    ASSUME IndInv,
           UNCHANGED <<build, boot, validities, inputs, sketch, receipt, foreign, verdict>>,
           \/ stage' \in {"failed", "prover_panic"} /\ UNCHANGED l1_block
           \/ Reorg
    PROVE  IndInv'
  <1>1. AcceptedClaimsAreTrue' /\ AcceptedForkIsCurrent'
    BY VerdictKept DEF IndInv
  <1>2. TypeOK'
    BY DEF IndInv, TypeOK, Reorg
  <1>3. OwnInputs' /\ OwnSketch' /\ OwnReceipt' /\ Provenance'
    BY DEF IndInv, OwnInputs, OwnSketch, OwnReceipt, Provenance,
           CanoeInputs, FromGuest, Reorg,
           GuestRuns, Journals, ProverAddress, HostRules
  <1> QED
    BY <1>1, <1>2, <1>3 DEF IndInv

\* The block that the prover fetched is well formed, and so are the rules.
LEMMA FetchedType ==
    ASSUME TypeOK, OwnInputs, stage = "requested"
    PROVE  /\ Fetched.block = l1_block /\ Fetched.anchor = "BlockHash"
           /\ Fetched.rules = HostRules(boot.chain)
           /\ Fetched \in [block : Blocks, rules : Rules \cup {NoRules},
                          anchor : {"BlockHash"}]
           /\ inputs[1].head = boot.head
  <1>1. /\ validities \in Seq([cert : Certs, valid : BOOLEAN])
        /\ boot \in [head : Blocks, chain : Chains]
        /\ validities # << >> /\ inputs = CanoeInputs
    BY CanoeAssumption DEF TypeOK, OwnInputs
  <1>2. 1 \in DOMAIN validities
    BY <1>1
  <1>3. inputs[1].chain = boot.chain /\ inputs[1].head = boot.head
    BY <1>1, <1>2 DEF CanoeInputs
  <1>4. HostRules(boot.chain) \in Rules \cup {NoRules}
    BY <1>1, CanoeAssumption DEF HostRules, Sp1HostRules, SteelHostRules
  <1>5. l1_block \in Blocks
    BY DEF TypeOK, SameNumber
  <1> QED
    BY <1>3, <1>4, <1>5 DEF Fetched

\* canoe_proof_stdin and get_steel_proof keep it: a preflight that passes
\* has compared the hash of the block with the head.
LEMMA PreflightKeeps == IndInv /\ (Preflight \/ PreflightPanics) => IndInv'
  <1> SUFFICES ASSUME IndInv, Preflight \/ PreflightPanics PROVE IndInv'
    OBVIOUS
  <1>1. AcceptedClaimsAreTrue' /\ AcceptedForkIsCurrent'
    BY VerdictKept DEF IndInv, Preflight, PreflightPanics
  <1>2. stage = "requested" /\ sketch' = Fetched
    BY DEF Preflight, PreflightPanics
  <1>3. /\ Fetched.block = l1_block /\ Fetched.anchor = "BlockHash"
        /\ Fetched.rules = HostRules(boot.chain)
        /\ Fetched \in [block : Blocks, rules : Rules \cup {NoRules},
                       anchor : {"BlockHash"}]
        /\ inputs[1].head = boot.head
    BY <1>2, FetchedType DEF IndInv
  <1>4. TypeOK'
    BY <1>2, <1>3 DEF IndInv, TypeOK, Preflight, PreflightPanics
  <1>5. OwnInputs' /\ OwnReceipt' /\ Provenance'
    BY DEF IndInv, OwnInputs, OwnReceipt, Provenance, CanoeInputs, FromGuest,
           Preflight, PreflightPanics,
           GuestRuns, Journals, ProverAddress
  <1>6. OwnSketch'
    <2>1. CASE Preflight
      <3>1. Fetched.rules # NoRules /\ Fetched.block = boot.head
        BY <1>3, <2>1 DEF Preflight, PreflightPasses
      <3>2. sketch' = [block |-> boot.head, rules |-> HostRules(boot.chain),
                       anchor |-> "BlockHash"]
        BY <1>2, <1>3, <3>1
      <3> QED
        BY <2>1, <3>1, <3>2, <1>2 DEF OwnSketch, Preflight,
               HostRules
    <2>2. CASE PreflightPanics
      BY <2>2 DEF OwnSketch, PreflightPanics,
             HostRules
    <2> QED
      BY <2>1, <2>2
  <1> QED
    BY <1>1, <1>4, <1>5, <1>6 DEF IndInv

\* generate_canoe_proof keeps it: the receipt is a run of the guest.
LEMMA GenerateProofKeeps == IndInv /\ GenerateProof => IndInv'
  <1> SUFFICES ASSUME IndInv, GenerateProof PROVE IndInv'
    OBVIOUS
  <1>1. AcceptedClaimsAreTrue' /\ AcceptedForkIsCurrent'
    BY VerdictKept DEF IndInv, GenerateProof
  <1>2. sketch \in EvmSketch /\ inputs \in Seq(CanoeInput)
    <2>1. stage = "preflighted"
      BY DEF GenerateProof
    <2>2. boot \in [head : Blocks, chain : Chains] /\ inputs \in Seq(CanoeInput)
      BY CanoeAssumption DEF IndInv, TypeOK
    <2>3. /\ sketch = [block |-> boot.head, rules |-> HostRules(boot.chain),
                       anchor |-> "BlockHash"]
          /\ HostRules(boot.chain) # NoRules
      BY <2>1 DEF IndInv, OwnSketch,
             HostRules
    <2>4. HostRules(boot.chain) \in Rules
      BY <2>2, <2>3, CanoeAssumption DEF HostRules, Sp1HostRules, SteelHostRules
    <2> QED
      BY <2>2, <2>3, <2>4 DEF EvmSketch
  <1>3. Journals(inputs, sketch) \in Seq(JournalRecord)
    BY <1>2, JournalsType DEF GenerateProof, IndInv, TypeOK
  <1>4. TypeOK'
    BY <1>3 DEF IndInv, TypeOK, GenerateProof
  <1>5. FromGuest(receipt')
    BY <1>2 DEF FromGuest, GenerateProof
  <1>6. Provenance'
    BY <1>5 DEF IndInv, Provenance, GenerateProof, FromGuest,
           GuestRuns, Journals
  <1>7. OwnInputs' /\ OwnSketch' /\ OwnReceipt'
    BY DEF IndInv, OwnInputs, OwnSketch, OwnReceipt, CanoeInputs, GenerateProof,
           GuestRuns, Journals, ProverAddress, HostRules
  <1> QED
    BY <1>1, <1>4, <1>6, <1>7 DEF IndInv

\* A receipt of another prover is a run of the guest too.
LEMMA ForeignProofKeeps == IndInv /\ ForeignProof => IndInv'
  <1> SUFFICES ASSUME IndInv, ForeignProof PROVE IndInv'
    OBVIOUS
  <1>1. AcceptedClaimsAreTrue' /\ AcceptedForkIsCurrent'
    BY VerdictKept DEF IndInv, ForeignProof
  <1>2. PICK in \in ForeignInputs, sk \in EvmSketch :
          GuestRuns(in, sk) /\ foreign' = Journals(in, sk)
    BY DEF ForeignProof
  <1>3. in \in Seq(CanoeInput)
    BY CanoeAssumption
  <1>4. foreign' \in Seq(JournalRecord)
    BY <1>2, <1>3, JournalsType DEF IndInv, TypeOK
  <1>5. TypeOK'
    BY <1>4 DEF IndInv, TypeOK, ForeignProof
  <1>6. FromGuest(foreign')
    BY <1>2, <1>3 DEF FromGuest
  <1>7. Provenance'
    BY <1>6 DEF IndInv, Provenance, ForeignProof, FromGuest,
           GuestRuns, Journals
  <1>8. OwnInputs' /\ OwnSketch' /\ OwnReceipt'
    BY DEF IndInv, OwnInputs, OwnSketch, OwnReceipt, CanoeInputs, ForeignProof,
           GuestRuns, Journals, ProverAddress, HostRules
  <1> QED
    BY <1>1, <1>5, <1>7, <1>8 DEF IndInv

\* validate_cert_receipt keeps it, by AcceptedIsTrue.
LEMMA ValidateKeeps == IndInv /\ ValidateCertReceipt => IndInv'
  <1> SUFFICES ASSUME IndInv, ValidateCertReceipt PROVE IndInv'
    OBVIOUS
  <1>1. TypeOK'
    BY DEF IndInv, TypeOK, ValidateCertReceipt
  <1>2. OwnInputs' /\ OwnSketch' /\ OwnReceipt' /\ Provenance'
    BY DEF IndInv, OwnInputs, OwnSketch, OwnReceipt, Provenance, CanoeInputs,
           FromGuest, ValidateCertReceipt,
           GuestRuns, Journals, ProverAddress, HostRules
  <1>3. PICK proof \in {receipt, foreign} :
          verdict' = IF proof # NoReceipt /\ Validates(proof)
                     THEN "accepted" ELSE "rejected"
    BY DEF ValidateCertReceipt
  <1>4. CASE proof # NoReceipt /\ Validates(proof)
    <2>1. FromGuest(proof)
      BY <1>4 DEF IndInv, Provenance
    <2>2. build \in Builds /\ boot \in Boots /\ validities \in Claims
      BY DEF IndInv, TypeOK
    <2>3. /\ \A i \in DOMAIN validities :
                validities[i].valid = TrueValidity(validities[i].cert)
          /\ \/ Fork[TrustedRules][boot.head] = DerivedFork(boot.chain, boot.head)
             \/ build.backend = "steel" /\ SteelActiveFork \in AllowedSteelForks
      BY <1>4, <2>1, <2>2, AcceptedIsTrue
    <2>4. build' = build /\ boot' = boot /\ validities' = validities
      BY DEF ValidateCertReceipt
    <2> QED
      BY <1>1, <1>2, <2>3, <2>4
         DEF IndInv, AcceptedClaimsAreTrue, AcceptedForkIsCurrent, TrueValidity,
             TrustedRules, DerivedFork, SteelActiveFork,
             VerifierAddress
  <1>5. CASE ~(proof # NoReceipt /\ Validates(proof))
    BY <1>1, <1>2, <1>3, <1>5 DEF IndInv, AcceptedClaimsAreTrue, AcceptedForkIsCurrent
  <1> QED
    BY <1>4, <1>5

\* Every step keeps the invariant.
LEMMA NextIndInv == IndInv /\ [Next]_vars => IndInv'
  <1> SUFFICES ASSUME IndInv, [Next]_vars PROVE IndInv'
    OBVIOUS
  <1>1. CASE BuildInputs
    BY <1>1, BuildInputsKeeps
  <1>2. CASE BuildFails
    BY <1>2, StopsKeep DEF BuildFails
  <1>3. CASE Preflight
    BY <1>3, PreflightKeeps
  <1>4. CASE PreflightPanics
    BY <1>4, PreflightKeeps
  <1>5. CASE PreflightFails
    BY <1>5, StopsKeep DEF PreflightFails
  <1>6. CASE GenerateProof
    BY <1>6, GenerateProofKeeps
  <1>7. CASE GenerateFails
    BY <1>7, StopsKeep DEF GenerateFails
  <1>8. CASE Reorg
    BY <1>8, StopsKeep DEF Reorg
  <1>9. CASE ForeignProof
    BY <1>9, ForeignProofKeeps
  <1>10. CASE ValidateCertReceipt
    BY <1>10, ValidateKeeps
  <1>11. CASE UNCHANGED vars
    <2>1. AcceptedClaimsAreTrue' /\ AcceptedForkIsCurrent'
      BY <1>11, VerdictKept DEF IndInv, vars
    <2>2. TypeOK'
      BY <1>11 DEF IndInv, TypeOK, vars
    <2>3. OwnInputs' /\ OwnSketch' /\ OwnReceipt' /\ Provenance'
      BY <1>11 DEF IndInv, OwnInputs, OwnSketch, OwnReceipt, Provenance,
                   CanoeInputs, FromGuest, vars,
             GuestRuns, Journals, ProverAddress, HostRules
    <2> QED
      BY <2>1, <2>2, <2>3 DEF IndInv
  <1> QED
    BY <1>1, <1>2, <1>3, <1>4, <1>5, <1>6, <1>7, <1>8, <1>9, <1>10, <1>11
       DEF Next, Done

\* The inductive invariant holds always.
LEMMA Invariant == Spec => []IndInv
  <1> QED
    BY InitIndInv, NextIndInv, PTL DEF Spec

-----------------------------------------------------------------------------
\* Prover and verifier of Canoe keep their types.
THEOREM CanoeTypeCorrect == Spec => []TypeOK
  <1>1. IndInv => TypeOK
    BY DEF IndInv
  <1> QED
    BY <1>1, Invariant, PTL

\* Whatever receipt comes with a witness, what validate_cert_receipt accepts
\* is what the contract answers at the trusted head, address and rules.
THEOREM AcceptedClaimsTheorem == Spec => []AcceptedClaimsAreTrue
  <1>1. IndInv => AcceptedClaimsAreTrue
    BY DEF IndInv
  <1> QED
    BY <1>1, Invariant, PTL

\* What validate_cert_receipt accepts was executed under the fork in force
\* at the head, or, with Steel, under one of its list.
THEOREM AcceptedForkTheorem == Spec => []AcceptedForkIsCurrent
  <1>1. IndInv => AcceptedForkIsCurrent
    BY DEF IndInv
  <1> QED
    BY <1>1, Invariant, PTL

\* A receipt of this prover for the claims of the witness is accepted by
\* validate_cert_receipt on the verifiable chains, and on no others.
THEOREM OwnReceiptTheorem == Spec => []OwnReceiptValidates
  <1>1. ASSUME IndInv PROVE OwnReceiptValidates
    <2> SUFFICES ASSUME stage = "proved" PROVE Validates(receipt) <=> Verifiable
      BY DEF OwnReceiptValidates
    <2>1. /\ validities \in Seq([cert : Certs, valid : BOOLEAN])
          /\ boot \in [head : Blocks, chain : Chains]
      BY <1>1, CanoeAssumption DEF IndInv, TypeOK
    <2>2. /\ validities # << >> /\ ProverAddress # NoAddress
          /\ inputs = CanoeInputs
      BY <1>1 DEF IndInv, OwnInputs
    <2>3. /\ sketch = [block |-> boot.head, rules |-> HostRules(boot.chain),
                       anchor |-> "BlockHash"]
          /\ GuestRuns(inputs, sketch) /\ receipt = Journals(inputs, sketch)
      BY <1>1 DEF IndInv, OwnSketch, OwnReceipt,
             GuestRuns, Journals, HostRules
    <2>4. /\ 1 \in DOMAIN validities /\ DOMAIN inputs = DOMAIN validities
          /\ \A i \in DOMAIN validities :
               inputs[i] = [cert |-> validities[i].cert,
                            claimed |-> validities[i].valid,
                            head |-> boot.head, number |-> NumberOf[boot.head],
                            chain |-> boot.chain, verifier |-> ProverAddress]
      BY <2>1, <2>2 DEF CanoeInputs
    <2>5. build.backend \in {"sp1cc", "steel"}
      BY <1>1, FetchAddressType DEF IndInv, TypeOK
    <2>6. CASE build.backend = "sp1cc"
      <3>1. ASSUME Verifiable PROVE Validates(receipt)
        <4>1. /\ TryFromGenesis[boot.chain] # NoRules /\ RethSpec[boot.chain] # NoRules
              /\ Fork[TryFromGenesis[boot.chain]][boot.head]
                   = DerivedFork(boot.chain, boot.head)
              /\ ProverAddress = VerifierAddress
          BY <2>6, <3>1 DEF Verifiable
        <4>2. sketch.rules = TryFromGenesis[boot.chain] /\ sketch.block = boot.head
          BY <2>3, <2>6, <4>1 DEF HostRules, Sp1HostRules
        <4>3. ChainOf[sketch.rules] = boot.chain
          BY <2>1, <4>1, <4>2, GenesisAssumption
        <4>4. \A i \in DOMAIN validities :
                Sp1GuestVerdict(CallOutput(inputs[i], sketch.block, sketch.rules))
                  = validities[i].valid
          BY <2>3, <2>4, <2>6 DEF GuestRuns, Sp1GuestRuns
        <4>5. Sp1Journals(inputs, sketch) = Sp1ToJournals
          BY <2>4, <4>1, <4>2, <4>3, <4>4 DEF Sp1Journals, Sp1ToJournals
        <4> QED
          BY <2>2, <2>3, <2>6, <4>1, <4>5 DEF Validates, Sp1Validates, Journals
      <3>2. ASSUME Validates(receipt) PROVE Verifiable
        <4>1. /\ TryFromGenesis[boot.chain] # NoRules /\ RethSpec[boot.chain] # NoRules
              /\ Sp1Journals(inputs, sketch) = Sp1ToJournals
          BY <2>3, <2>6, <3>2 DEF Validates, Sp1Validates, Journals
        <4>2. sketch.rules = TryFromGenesis[boot.chain] /\ sketch.block = boot.head
          BY <2>3, <2>6, <4>1 DEF HostRules, Sp1HostRules
        <4>3. Sp1Journals(inputs, sketch)[1] = Sp1ToJournals[1]
          BY <4>1
        <4>4. /\ ProverAddress = VerifierAddress
              /\ [chain |-> ChainOf[sketch.rules], fork |-> Fork[sketch.rules][sketch.block]]
                   = [chain |-> boot.chain, fork |-> DerivedFork(boot.chain, boot.head)]
          BY <2>4, <4>3 DEF Sp1Journals, Sp1ToJournals
        <4>5. Fork[sketch.rules][sketch.block] = DerivedFork(boot.chain, boot.head)
          BY <4>4
        <4> QED
          BY <2>6, <4>1, <4>2, <4>4, <4>5 DEF Verifiable
      <3> QED
        BY <3>1, <3>2
    <2>7. CASE build.backend = "steel"
      <3>1. SteelGuestRuns(inputs, sketch)
        BY <2>3, <2>7 DEF GuestRuns
      <3>2. boot.chain \in SteelChains /\ sketch.block = boot.head
        BY <2>3, <2>4, <3>1 DEF SteelGuestRuns
      <3>3. ASSUME Verifiable PROVE Validates(receipt)
        <4>1. /\ RethSpec[boot.chain] # NoRules /\ boot.chain # Devnet
              /\ SteelForkAllowed /\ ProverAddress = VerifierAddress
          BY <2>7, <3>3 DEF Verifiable
        <4>2. \A i \in DOMAIN validities :
                SteelVerdict(CallOutput(inputs[i], sketch.block,
                                        SteelSpec[inputs[1].chain]))
                  = validities[i].valid
          BY <2>4, <3>1 DEF SteelGuestRuns
        <4>3. SteelJournals(inputs, sketch) = SteelToJournals
          BY <2>4, <3>2, <4>1, <4>2 DEF SteelJournals, SteelToJournals, SteelActiveFork
        <4> QED
          BY <2>2, <2>3, <2>7, <3>2, <4>1, <4>3 DEF Validates, SteelValidates, Journals
      <3>4. ASSUME Validates(receipt) PROVE Verifiable
        <4>1. /\ RethSpec[boot.chain] # NoRules /\ boot.chain # Devnet
              /\ SteelForkAllowed /\ SteelJournals(inputs, sketch) = SteelToJournals
          BY <2>3, <2>7, <3>4 DEF Validates, SteelValidates, Journals
        <4>2. SteelJournals(inputs, sketch)[1] = SteelToJournals[1]
          BY <4>1
        <4>3. ProverAddress = VerifierAddress
          BY <2>4, <4>2 DEF SteelJournals, SteelToJournals
        <4> QED
          BY <2>7, <4>1, <4>3 DEF Verifiable
      <3> QED
        BY <3>3, <3>4
    <2> QED
      BY <2>5, <2>6, <2>7
  <1> QED
    BY <1>1, Invariant, PTL

\* A panic of the preflight has one of the causes that its own assertions
\* name: the inputs of one run share their block and chain, and the host
\* decodes whatever the guest decodes.
LEMMA PanicCause ==
    ASSUME IndInv, PreflightPanics
    PROVE  \/ Fetched.rules = NoRules
           \/ Fetched.block # boot.head
           \/ \E i \in DOMAIN inputs :
                \/ inputs[i].claimed # GuestVerdict(inputs[i], Fetched)
                \/ /\ build.backend = "sp1cc"
                   /\ CallOutput(inputs[i], Fetched.block, Fetched.rules)
                        = "undecodable"
  <1>1. stage = "requested" /\ PreflightAborts(Fetched)
    BY DEF PreflightPanics
  <1>2. /\ inputs[1].head = boot.head
        /\ inputs = CanoeInputs /\ validities # << >>
        /\ validities \in Seq([cert : Certs, valid : BOOLEAN])
    BY <1>1, FetchedType, CanoeAssumption DEF IndInv, OwnInputs, TypeOK
  <1>3. SharedContext(inputs)
    BY <1>2 DEF SharedContext, CanoeInputs
  <1>4. CASE \E k \in DOMAIN inputs : PreflightOf(inputs[k], Fetched) = "panic"
    <2>1. PICK k \in DOMAIN inputs : PreflightOf(inputs[k], Fetched) = "panic"
      BY <1>4
    <2> DEFINE output == CallOutput(inputs[k], Fetched.block, Fetched.rules)
    <2>2. GuestVerdict(inputs[k], Fetched) = (output = "success")
      BY DEF GuestVerdict, Sp1GuestVerdict, SteelVerdict
    <2>3. \/ inputs[k].claimed # (output = "success")
          \/ build.backend = "sp1cc" /\ output = "undecodable"
      <3> HIDE DEF output
      <3> QED
        BY <2>1 DEF PreflightOf, HostDecodes, Sp1HostDecodes, output
    <2> QED
      BY <2>2, <2>3
  <1> QED
    BY <1>1, <1>2, <1>3, <1>4 DEF PreflightAborts

\* Every step keeps that a panic of the preflight had a cause.
LEMMA PanicsKept ==
    ASSUME IndInv, PanicsOnlyOnFalseClaims, [Next]_vars
    PROVE  PanicsOnlyOnFalseClaims'
  <1>1. CASE PreflightPanics
    <2>1. /\ sketch' = Fetched /\ build' = build /\ boot' = boot /\ inputs' = inputs
      BY <1>1 DEF PreflightPanics
    <2> QED
      BY <1>1, <2>1, PanicCause DEF PanicsOnlyOnFalseClaims, GuestVerdict
  <1>2. CASE ~PreflightPanics /\ stage' = "preflight_panic"
    <2>1. /\ stage = "preflight_panic"
          /\ UNCHANGED <<build, boot, inputs, sketch>>
      BY <1>2 DEF Next, vars, Done, BuildInputs, BuildFails, Preflight, PreflightFails,
                  GenerateProof, GenerateFails, Reorg, ForeignProof, ValidateCertReceipt
    <2> QED
      BY <2>1 DEF PanicsOnlyOnFalseClaims, GuestVerdict
  <1> QED
    BY <1>1, <1>2 DEF PanicsOnlyOnFalseClaims

\* The preflight and the guest read a status alike: the host panics on no
\* claim that the guest would have proved, for every chain, contract and
\* reorganisation, unless sp1-cc is given return data too short to decode.
THEOREM PanicsTheorem == Spec => []PanicsOnlyOnFalseClaims
  <1>1. Init => PanicsOnlyOnFalseClaims
    BY DEF Init, PanicsOnlyOnFalseClaims
  <1>2. IndInv /\ PanicsOnlyOnFalseClaims /\ [Next]_vars => PanicsOnlyOnFalseClaims'
    BY PanicsKept
  <1> QED
    BY <1>1, <1>2, Invariant, PTL DEF Spec

=============================================================================
