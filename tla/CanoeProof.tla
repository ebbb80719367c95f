----------------------------- MODULE CanoeProof -----------------------------
(***************************************************************************)
(* Canoe: one zero-knowledge proof for the validity of all the             *)
(* certificates of a run.  The prover (witgen and canoe/.../host or apps)  *)
(* builds one input per certificate, executes the calls against the block  *)
(* its RPC node serves (the preflight) and lets a zkVM run the guest,      *)
(* which executes them again and commits one journal per certificate.      *)
(* The verifier, inside the zkVM of the rollup, builds the journals it     *)
(* expects from its own trusted data and compares.                         *)
(*                                                                         *)
(* A build selects the implementation, "sp1cc" (canoe/sp1-cc) or "steel"   *)
(* (canoe/steel), and the address fetcher of each side.  A hash is the     *)
(* thing hashed.  A rule set is what an EVM library or a genesis makes of  *)
(* a chain: its chain id and its forks.                                    *)
(***************************************************************************)
EXTENDS Naturals, Sequences

CONSTANTS
    Builds,         \* how the two programs are put together
    Certs,          \* records with the fields id and version
    Chains, Blocks, Addresses, Rules, Forks,
    NumberOf,       \* NumberOf[b]: the number in the header of b
    ChainOf,        \* ChainOf[r]: the chain id of r
    Fork,           \* Fork[r][b]: the fork r puts in force at b
    Contract,       \* Contract[q]: what the call q returns
    Deployed,       \* Deployed[chain]: the router of EigenLabs, or NoAddress
    NoAddress,
    TryFromGenesis, \* Genesis::try_from(chain), or NoRules
    CustomGenesis,  \* the genesis files of the sp1-cc host, or NoRules
    SteelSpec,      \* the chain specifications of Steel
    SteelChains,    \* the chains the Steel guest has a case for
    RethSpec,       \* the specifications of chain_spec.rs, or NoRules
    NoRules,
    AllowedSteelForks,
    Devnet,         \* the chain id of the kurtosis devnet
    ListedChains,   \* the chains that README.md lists as supported
    Boots,          \* possible boot infos: L1 head and chain id
    Claims,         \* the lists of claims a witness may hold
    ForeignInputs,  \* inputs of a prover other than this one
    NoSketch, NoReceipt

\* What a call of checkDACert comes to: a status code, one that StatusCode
\* does not know, return data too short to be one, or no return.
Output == {"success", "failure", "unknown", "undecodable", "reverted"}

Query == [call : Certs, block : Blocks, verifier : Addresses, rules : Rules]

CanoeInput ==
    [cert : Certs, claimed : BOOLEAN, head : Blocks, number : Nat,
     chain : Chains, verifier : Addresses]

\* What a prover hands to the guest beside the inputs: the state of a block,
\* and, for sp1-cc, the genesis to execute under.
EvmSketch ==
    [block : Blocks, rules : Rules, anchor : {"BlockHash", "BeaconRoot"}]

\* A table of routers, one address for everything, or the registry.
Fetchers ==
    [kind : {"deployed", "registry"}] \cup [kind : {"static"}, address : Addresses]

\* CertVerifierCall::build: a V2 certificate is passed as a V3 one.
Build(c) == IF c.version = "V2" THEN [c EXCEPT !.version = "V3"] ELSE c

ASSUME CanoeAssumption ==
    /\ Builds \subseteq [backend : {"sp1cc", "steel"},
                        prover : Fetchers, verifier : Fetchers]
    /\ \A c \in Certs : Build(c) \in Certs
    /\ NumberOf \in [Blocks -> Nat]
    /\ ChainOf \in [Rules -> Chains]
    /\ Fork \in [Rules -> [Blocks -> Forks]]
    /\ Contract \in [Query -> Output]
    /\ NoAddress \notin Addresses /\ NoRules \notin Rules
    /\ Deployed \in [Chains -> Addresses \cup {NoAddress}]
    /\ TryFromGenesis \in [Chains -> Rules \cup {NoRules}]
    /\ CustomGenesis \in [Chains -> Rules \cup {NoRules}]
    /\ RethSpec \in [Chains -> Rules \cup {NoRules}]
    /\ SteelSpec \in [Chains -> Rules]
    /\ SteelChains \subseteq Chains /\ Devnet \in Chains
    /\ ListedChains \subseteq Chains \ {Devnet}
    /\ AllowedSteelForks \subseteq Forks
    /\ Boots \subseteq [head : Blocks, chain : Chains]
    /\ Claims \subseteq Seq([cert : Certs, valid : BOOLEAN])
    /\ ForeignInputs \subseteq Seq(CanoeInput)

\* A genesis that is found for a chain id is one for that chain id.
ASSUME GenesisAssumption ==
    \A c \in Chains :
        /\ TryFromGenesis[c] # NoRules => ChainOf[TryFromGenesis[c]] = c
        /\ CustomGenesis[c] # NoRules => ChainOf[CustomGenesis[c]] = c

VARIABLES
    build,        \* the backend and the address fetchers compiled in
    boot,         \* trusted: the L1 head and chain id of the run
    validities,   \* the claims of the witness, made by the first pass
    l1_block,     \* the block the RPC node serves at the number of the head
    stage,        \* where the prover is
    inputs,       \* its CanoeInputs
    sketch,       \* what its preflight found
    receipt,      \* its receipt
    foreign,      \* a receipt that another run of the guest produced
    verdict       \* the answer of the verifier

vars == <<build, boot, validities, l1_block, stage, inputs, sketch, receipt,
          foreign, verdict>>

\* fetch_address of the three fetchers.  The registry wants an L2 chain id,
\* which nobody passes; no fetcher looks at the certificate.
FetchAddress(fetcher, chain) ==
    CASE fetcher.kind = "deployed" -> Deployed[chain]
      [] fetcher.kind = "static" -> fetcher.address
      [] fetcher.kind = "registry" -> NoAddress

\* The addresses the witness generator and the verifier come to.
ProverAddress == FetchAddress(build.prover, boot.chain)
VerifierAddress == FetchAddress(build.verifier, boot.chain)

SameNumber(b) == {c \in Blocks : NumberOf[c] = NumberOf[b]}

CallOutput(input, block, rules) ==
    Contract[[call |-> Build(input.cert), block |-> block,
              verifier |-> input.verifier, rules |-> rules]]

\* Both hosts and both guests insist on one chain id and one block.
SharedContext(in) ==
    \A i \in DOMAIN in : /\ in[i].chain = in[1].chain
                         /\ in[i].number = in[1].number
                         /\ in[i].head = in[1].head

-----------------------------------------------------------------------------
(***************************************************************************)
(* The guests.  The library checks the state of the sketch against the     *)
(* state root of its block, so an execution depends on the block only.     *)
(***************************************************************************)

\* sp1-cc: a status code that StatusCode does not know is decoded to its
\* hidden invalid variant; it and data that cannot be decoded are a failure.
Sp1GuestVerdict(output) == output = "success"

Sp1GuestRuns(in, sk) ==
    /\ in # << >>
    /\ SharedContext(in)
    /\ NumberOf[sk.block] = in[1].number
    /\ ChainOf[sk.rules] = in[1].chain
    /\ sk.anchor = "BlockHash"
    /\ \A i \in DOMAIN in :
         LET output == CallOutput(in[i], sk.block, sk.rules)
         IN  /\ output # "reverted"
             /\ in[i].claimed = Sp1GuestVerdict(output)
             /\ sk.block = in[i].head

\* Mutant of Sp1Journals: the genesis is not committed.
Sp1JournalsOfChain(in, sk) ==
    [i \in DOMAIN in |->
        [blockNumber |-> in[1].number, blockhash |-> sk.block,
         certVerifierAddress |-> in[i].verifier, input |-> in[i].cert,
         output |-> Sp1GuestVerdict(CallOutput(in[i], sk.block, sk.rules)),
         l1ChainId |-> ChainOf[sk.rules],
         chainConfigHash |-> [chain |-> ChainOf[sk.rules],
                              fork |-> Fork[sk.rules][sk.block]],
         chainSpecHash |-> TryFromGenesis[ChainOf[sk.rules]]]]

Sp1Journals(in, sk) ==
    [i \in DOMAIN in |->
        [blockNumber |-> in[1].number, blockhash |-> sk.block,
         certVerifierAddress |-> in[i].verifier, input |-> in[i].cert,
         output |-> Sp1GuestVerdict(CallOutput(in[i], sk.block, sk.rules)),
         l1ChainId |-> ChainOf[sk.rules],
         chainConfigHash |-> [chain |-> ChainOf[sk.rules],
                              fork |-> Fork[sk.rules][sk.block]],
         chainSpecHash |-> sk.rules]]

\* Steel: the status is a number, and any but that of SUCCESS is a failure;
\* a call without one stops the guest.
SteelVerdict(output) == output = "success"

\* Mutant of SteelGuestRuns: the hash of the block is not compared.
SteelGuestRunsAnyHash(in, sk) ==
    /\ in # << >>
    /\ SharedContext(in)
    /\ in[1].chain \in SteelChains
    /\ NumberOf[sk.block] = in[1].number
    /\ \A i \in DOMAIN in :
         LET output == CallOutput(in[i], sk.block, SteelSpec[in[1].chain])
         IN  /\ output \notin {"undecodable", "reverted"}
             /\ in[i].claimed = SteelVerdict(output)

SteelGuestRuns(in, sk) ==
    /\ in # << >>
    /\ SharedContext(in)
    /\ in[1].chain \in SteelChains
    /\ NumberOf[sk.block] = in[1].number
    /\ \A i \in DOMAIN in :
         LET output == CallOutput(in[i], sk.block, SteelSpec[in[1].chain])
         IN  /\ output \notin {"undecodable", "reverted"}
             /\ sk.block = in[1].head
             /\ in[i].claimed = SteelVerdict(output)

\* The block hash committed is the one of the input.
SteelJournals(in, sk) ==
    LET rules == SteelSpec[in[1].chain]
    IN  [i \in DOMAIN in |->
            [blockNumber |-> in[1].number, blockhash |-> in[1].head,
             certVerifierAddress |-> in[i].verifier, input |-> in[i].cert,
             output |-> SteelVerdict(CallOutput(in[i], sk.block, rules)),
             l1ChainId |-> in[1].chain,
             chainConfigHash |-> [fork |-> Fork[rules][sk.block]],
             chainSpecHash |-> NoRules]]

GuestRuns(in, sk) ==
    IF build.backend = "sp1cc" THEN Sp1GuestRuns(in, sk) ELSE SteelGuestRuns(in, sk)

Journals(in, sk) ==
    IF build.backend = "sp1cc" THEN Sp1Journals(in, sk) ELSE SteelJournals(in, sk)

-----------------------------------------------------------------------------
(***************************************************************************)
(* The prover                                                              *)
(***************************************************************************)

Init ==
    /\ build \in Builds
    /\ boot \in Boots
    /\ validities \in Claims
    /\ l1_block \in SameNumber(boot.head)
    /\ stage = "start"
    /\ inputs = << >>
    /\ sketch = NoSketch
    /\ receipt = NoReceipt
    /\ foreign = NoReceipt
    /\ verdict = "none"

CanoeInputs ==
    [i \in DOMAIN validities |->
        [cert |-> validities[i].cert, claimed |-> validities[i].valid,
         head |-> boot.head, number |-> NumberOf[boot.head],
         chain |-> boot.chain, verifier |-> ProverAddress]]

\* Mutant of BuildInputs: the error of the address fetcher is ignored.
BuildInputsAnyway ==
    /\ stage = "start"
    /\ inputs' = CanoeInputs
    /\ stage' = IF validities = << >> THEN "nothing" ELSE "requested"
    /\ UNCHANGED <<build, boot, validities, l1_block, sketch, receipt, foreign, verdict>>

\* from_boot_info_to_canoe_proof up to the call of the provider, which
\* returns None if there is nothing to prove.
BuildInputs ==
    /\ stage = "start"
    /\ validities # << >> => ProverAddress # NoAddress
    /\ inputs' = CanoeInputs
    /\ stage' = IF validities = << >> THEN "nothing" ELSE "requested"
    /\ UNCHANGED <<build, boot, validities, l1_block, sketch, receipt, foreign, verdict>>

\* The oracle fails, or no address is known.
BuildFails ==
    /\ stage = "start"
    /\ stage' = "failed"
    /\ UNCHANGED <<build, boot, validities, l1_block, inputs, sketch, receipt, foreign,
                   verdict>>

Sp1HostRules(chain) ==
    IF TryFromGenesis[chain] # NoRules THEN TryFromGenesis[chain]
    ELSE CustomGenesis[chain]

SteelHostRules(chain) == SteelSpec[chain]

HostRules(chain) ==
    IF build.backend = "sp1cc" THEN Sp1HostRules(chain) ELSE SteelHostRules(chain)

\* Mutant of Sp1HostDecodes: the decoder validates (abi_decode_validate).
Sp1HostDecodesKnown(output) == output \notin {"unknown", "undecodable"}

\* The sp1-cc host expects data that can be decoded; a code that StatusCode
\* does not know can, to the hidden invalid variant.
Sp1HostDecodes(output) == output # "undecodable"

HostDecodes(output) == build.backend = "sp1cc" => Sp1HostDecodes(output)

\* The call itself returns an error; Steel's call decodes as well.
CallErrs(output) ==
    \/ output = "reverted"
    \/ build.backend = "steel" /\ output = "undecodable"

\* The preflight of one input: "ok", an error returned, or a panic.
PreflightOf(input, sk) ==
    LET output == CallOutput(input, sk.block, sk.rules)
    IN  CASE CallErrs(output) -> "error"
          [] ~CallErrs(output) /\ ~HostDecodes(output) -> "panic"
          [] ~CallErrs(output) /\ HostDecodes(output) ->
               IF input.claimed = (output = "success") THEN "ok" ELSE "panic"

\* The block is fetched by its number, whatever its hash now is.
Fetched ==
    [block |-> l1_block, rules |-> HostRules(inputs[1].chain),
     anchor |-> "BlockHash"]

PreflightPasses(sk) ==
    /\ SharedContext(inputs)
    /\ sk.rules # NoRules
    /\ sk.block = inputs[1].head
    /\ \A i \in DOMAIN inputs : PreflightOf(inputs[i], sk) = "ok"

PreflightAborts(sk) ==
    \/ ~SharedContext(inputs)
    \/ sk.rules = NoRules
    \/ sk.block # inputs[1].head
    \/ \E k \in DOMAIN inputs :
         /\ sk.rules # NoRules
         /\ PreflightOf(inputs[k], sk) = "panic"
         /\ \A i \in 1..(k - 1) : PreflightOf(inputs[i], sk) = "ok"

Preflight ==
    /\ stage = "requested"
    /\ PreflightPasses(Fetched)
    /\ sketch' = Fetched
    /\ stage' = "preflighted"
    /\ UNCHANGED <<build, boot, validities, l1_block, inputs, receipt, foreign, verdict>>

PreflightPanics ==
    /\ stage = "requested"
    /\ PreflightAborts(Fetched)
    /\ sketch' = Fetched
    /\ stage' = "preflight_panic"
    /\ UNCHANGED <<build, boot, validities, l1_block, inputs, receipt, foreign, verdict>>

\* The RPC node fails, or a call returns an error.
PreflightFails ==
    /\ stage = "requested"
    /\ SharedContext(inputs)
    /\ HostRules(inputs[1].chain) # NoRules
    /\ stage' = "failed"
    /\ UNCHANGED <<build, boot, validities, l1_block, inputs, sketch, receipt, foreign,
                   verdict>>

GenerateProof ==
    /\ stage = "preflighted"
    /\ GuestRuns(inputs, sketch)
    /\ receipt' = Journals(inputs, sketch)
    /\ stage' = "proved"
    /\ UNCHANGED <<build, boot, validities, l1_block, inputs, sketch, foreign, verdict>>

\* Wrong settings, a failure of the prover network, or an assertion of the
\* guest.  The sp1-cc host panics on the last two.
GenerateFails ==
    /\ stage = "preflighted"
    /\ stage' \in {"failed", "prover_panic"}
    /\ UNCHANGED <<build, boot, validities, l1_block, inputs, sketch, receipt, foreign,
                   verdict>>

\* L1 reorganises: the node serves another block at the same number.  The
\* prover asks for the block once, so a later change makes no difference.
Reorg ==
    /\ stage \in {"start", "requested"}
    /\ l1_block' \in SameNumber(boot.head) \ {l1_block}
    /\ UNCHANGED <<build, boot, validities, stage, inputs, sketch, receipt, foreign,
                   verdict>>

\* Someone else runs the guest, on inputs and a sketch of their own.
ForeignProof ==
    /\ foreign = NoReceipt
    /\ verdict = "none"
    /\ \E in \in ForeignInputs, sk \in EvmSketch :
         /\ GuestRuns(in, sk)
         /\ foreign' = Journals(in, sk)
    /\ UNCHANGED <<build, boot, validities, l1_block, stage, inputs, sketch, receipt,
                   verdict>>

-----------------------------------------------------------------------------
(***************************************************************************)
(* The verifier                                                            *)
(***************************************************************************)

\* derive_chain_spec_id, external: spec_by_timestamp_and_block_number
DerivedFork(chain, block) == Fork[RethSpec[chain]][block]

Sp1ToJournals ==
    [i \in DOMAIN validities |->
        [blockNumber |-> NumberOf[boot.head], blockhash |-> boot.head,
         certVerifierAddress |-> VerifierAddress,
         input |-> validities[i].cert, output |-> validities[i].valid,
         l1ChainId |-> boot.chain,
         chainConfigHash |-> [chain |-> boot.chain,
                              fork |-> DerivedFork(boot.chain, boot.head)],
         chainSpecHash |-> TryFromGenesis[boot.chain]]]

\* rsp_genesis_hash and derive_chain_spec_id panic for other chains.
Sp1Validates(proof) ==
    /\ validities # << >>
    /\ TryFromGenesis[boot.chain] # NoRules
    /\ RethSpec[boot.chain] # NoRules
    /\ proof = Sp1ToJournals

SteelActiveFork == Fork[SteelSpec[boot.chain]][boot.head]

\* Mutant of SteelToJournals: the journals in the order of the stacks.
SteelToJournalsReversed ==
    LET n == Len(validities)
    IN  [i \in 1..n |->
            [blockNumber |-> NumberOf[boot.head], blockhash |-> boot.head,
             certVerifierAddress |-> VerifierAddress,
             input |-> validities[n + 1 - i].cert,
             output |-> validities[n + 1 - i].valid,
             l1ChainId |-> boot.chain,
             chainConfigHash |-> [fork |-> SteelActiveFork],
             chainSpecHash |-> NoRules]]

SteelToJournals ==
    [i \in DOMAIN validities |->
        [blockNumber |-> NumberOf[boot.head], blockhash |-> boot.head,
         certVerifierAddress |-> VerifierAddress,
         input |-> validities[i].cert, output |-> validities[i].valid,
         l1ChainId |-> boot.chain,
         chainConfigHash |-> [fork |-> SteelActiveFork],
         chainSpecHash |-> NoRules]]

\* Mutant of SteelForkAllowed: a fork that lags behind is only reported.
SteelForkReported == TRUE

SteelForkAllowed ==
    SteelActiveFork # DerivedFork(boot.chain, boot.head) =>
        SteelActiveFork \in AllowedSteelForks

SteelValidates(proof) ==
    /\ boot.chain # Devnet
    /\ boot.chain \in SteelChains
    /\ RethSpec[boot.chain] # NoRules
    /\ SteelForkAllowed
    /\ proof = SteelToJournals

\* from_witness fetches the addresses first.
Validates(proof) ==
    /\ VerifierAddress # NoAddress
    /\ IF build.backend = "sp1cc" THEN Sp1Validates(proof) ELSE SteelValidates(proof)

\* The witness comes with the receipt of this prover, of another, or none.
ValidateCertReceipt ==
    /\ verdict = "none"
    /\ validities # << >>
    /\ \E proof \in {receipt, foreign} :
         verdict' = IF proof # NoReceipt /\ Validates(proof)
                    THEN "accepted" ELSE "rejected"
    /\ UNCHANGED <<build, boot, validities, l1_block, stage, inputs, sketch, receipt,
                   foreign>>

Done ==
    /\ stage \in {"nothing", "failed", "preflight_panic", "prover_panic", "proved"}
    /\ UNCHANGED vars

Next ==
    \/ BuildInputs
    \/ BuildFails
    \/ Preflight
    \/ PreflightPanics
    \/ PreflightFails
    \/ GenerateProof
    \/ GenerateFails
    \/ Reorg
    \/ ForeignProof
    \/ ValidateCertReceipt
    \/ Done

Spec == Init /\ [][Next]_vars

-----------------------------------------------------------------------------
JournalRecord ==
    [blockNumber : Nat, blockhash : Blocks, certVerifierAddress : Addresses,
     input : Certs, output : BOOLEAN, l1ChainId : Chains,
     chainConfigHash : [chain : Chains, fork : Forks] \cup [fork : Forks],
     chainSpecHash : Rules \cup {NoRules}]

TypeOK ==
    /\ build \in Builds
    /\ boot \in Boots
    /\ validities \in Claims
    /\ l1_block \in SameNumber(boot.head)
    /\ stage \in {"start", "nothing", "requested", "preflighted", "proved",
                  "failed", "preflight_panic", "prover_panic"}
    /\ inputs \in Seq(CanoeInput)
    /\ sketch \in {NoSketch} \cup
         [block : Blocks, rules : Rules \cup {NoRules}, anchor : {"BlockHash"}]
    /\ receipt \in Seq(JournalRecord) \cup {NoReceipt}
    /\ foreign \in Seq(JournalRecord) \cup {NoReceipt}
    /\ verdict \in {"none", "accepted", "rejected"}

\* The rules the verifier's own build stands for.
TrustedRules ==
    IF build.backend = "sp1cc" THEN TryFromGenesis[boot.chain] ELSE SteelSpec[boot.chain]

TrueValidity(c) ==
    Contract[[call |-> Build(c), block |-> boot.head,
              verifier |-> VerifierAddress, rules |-> TrustedRules]] = "success"

\* If the verifier accepts, every claim of the witness is what the contract
\* answers at the trusted head, at the trusted address and under the rules
\* of the trusted chain, although the receipt may have been made for other
\* inputs, at another block or under another genesis (validate_cert_receipt
\* of both verifiers against both guests).
AcceptedClaimsAreTrue ==
    verdict = "accepted" =>
        \A i \in DOMAIN validities :
            validities[i].valid = TrueValidity(validities[i].cert)

\* If the verifier accepts, the fork under which the guest executed is the
\* one that is in force at the head; Steel may lag behind within its list
\* (derive_chain_config_hash, get_allowed_steel_spec_id).
AcceptedForkIsCurrent ==
    verdict = "accepted" =>
        \/ Fork[TrustedRules][boot.head] = DerivedFork(boot.chain, boot.head)
        \/ build.backend = "steel" /\ SteelActiveFork \in AllowedSteelForks

\* The chains and library versions for which the verifier accepts a prover
\* that has its address.  A chain that the sp1-cc host proves under a genesis
\* of its own, Holesky and the devnet, is none of them: rsp_genesis_hash
\* panics on it.
Verifiable ==
    /\ ProverAddress = VerifierAddress
    /\ RethSpec[boot.chain] # NoRules
    /\ IF build.backend = "sp1cc"
       THEN /\ TryFromGenesis[boot.chain] # NoRules
            /\ Fork[TryFromGenesis[boot.chain]][boot.head]
                 = DerivedFork(boot.chain, boot.head)
       ELSE boot.chain # Devnet /\ SteelForkAllowed

\* Of the receipts that this prover makes for the claims of the witness the
\* verifier accepts those of the verifiable chains and no others: there,
\* prover, guest and verifier agree on every field of every journal, whatever
\* happened to L1 meanwhile; elsewhere the work of the prover is lost
\* (generate_canoe_proof, to_journals_bytes).
OwnReceiptValidates ==
    stage = "proved" => (Validates(receipt) <=> Verifiable)

\* What README.md says of the chains it lists: a receipt for one of them is
\* accepted by a verifier with the same address, if the library of the guest
\* has the fork that is in force (canoe_proof_stdin against
\* rsp_genesis_hash).
ListedChainsValidate ==
    (/\ stage = "proved"
     /\ boot.chain \in ListedChains
     /\ ProverAddress = VerifierAddress
     /\ Fork[sketch.rules][boot.head] = DerivedFork(boot.chain, boot.head))
    => Validates(receipt)

\* What the guest would answer to an input.
GuestVerdict(input, sk) ==
    LET output == CallOutput(input, sk.block, sk.rules)
    IN  IF build.backend = "sp1cc" THEN Sp1GuestVerdict(output) ELSE SteelVerdict(output)

\* The preflight panics only if it must: the chain is unknown, the head was
\* reorganised away, or a claim differs from the answer of the guest, to
\* which a status code it does not know is an invalid certificate.  The one
\* exception is return data too short to decode, which the sp1-cc host
\* expects never to see and its guest takes for an invalid certificate
\* (canoe_proof_stdin and get_steel_proof against the guests).
PanicsOnlyOnFalseClaims ==
    stage = "preflight_panic" =>
        \/ sketch.rules = NoRules
        \/ sketch.block # boot.head
        \/ \E i \in DOMAIN inputs :
             \/ inputs[i].claimed # GuestVerdict(inputs[i], sketch)
             \/ /\ build.backend = "sp1cc"
                /\ CallOutput(inputs[i], sketch.block, sketch.rules) = "undecodable"

=============================================================================
