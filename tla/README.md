# A TLA+ verification of Hokulea's EigenDA blob derivation

Hokulea derives rollup data from EigenDA blobs inside an OP-stack derivation
pipeline. The L1 inbox holds *commitments* (DA certificates); the pipeline asks
a *preimage provider* whether a certificate is valid and for its payload, and
hands the decoded payload to the stages above. The same pipeline runs over an
interactive oracle (fault proofs), over a recording provider (witness
generation) and over a preloaded witness inside a zkVM. It must give the same
result everywhere, whatever fails on the way. The modules here say what that
result is, model the code that computes it, and check and prove that it does.

## Inventory

| Part | State | Operations | Talks to | What is hard |
|---|---|---|---|---|
| `EigenDADataSource` (`crates/eigenda/src/eigenda.rs`) | `altda_commitment`, the Ethereum source | `next`, `clear` | kona's `L1Retrieval` above, Ethereum source and preimage source below | temporary errors between awaits, retries, resets, recursion on discard |
| `EigenDAPreimageSource` (`eigenda_preimage.rs`) | none | `next`, `parse`, recency rules | the provider | order of the checks, window boundary |
| `AltDACommitment` (`crates/eigenda-cert`) | none | `try_from`, digests, accessors | everyone | malformed data |
| `EncodedPayload` (`eigenda_data.rs`) | none | `decode` | the data source | lengths, padding |
| `OracleEigenDAPreimageProvider` (`crates/proof`) | progress of a request | `get_validity`, `get_encoded_payload` | host, by hints and keys | a payload is many requests |
| Host handler (`bin/host/src/handler.rs`) | key-value store, last hint | `fetch_hint`, `fetch_eigenda_hint` and the two stores | client, proxy | partial stores, repeated hints, changing answers |
| `OnlineEigenDAPreimageProvider` (`bin/host/src/eigenda_preimage.rs`) | `last_entry` | fetch, cached fetch | proxy | stale cache |
| `PreloadedEigenDAPreimageProvider` (`crates/proof`) | two stacks of entries | `from_witness`, the two getters | untrusted witness, Canoe verifier, KZG | false, missing or reordered entries |
| Witness generation (`crates/witgen`, `compute-proof`, `example/preloader`) | `EigenDAPreimage`, `EigenDAWitness` | recording getters, `prepare_witness` | oracle provider, Canoe prover | what is recorded against what is replayed |
| Canoe (`canoe/*`) | receipts, journals | prove, verify, look up the verifier's address | L1, zkVM | agreement of journals and of addresses |
| KZG (`kzg_proof.rs`, `crates/sp1-bn-verifier`) | none | prove a blob, verify a batch | preloaded provider | domain points, padding, errors that cancel, infinity |
| Fault-proof client (`crates/client`) | claim, derived L2 blocks | prologue, derive to the target, epilogue | kona's driver, host | order of the early exits, resets, a host that goes away |
| Host program (`bin/host/src/cfg.rs`, `main.rs`) | command line, server task, exit code | start, native and server mode, offline backend | client, store on disk, proxy | which of two tasks ends first, stores of earlier runs |

`PROJECT.json` lists the components with their status, the hazards with the
line at which each bites, and the source lines each definition models.

## Modules

* `AltDACommitment` - inbox bytes and certificates. A certificate is a record
  of the fields the system tells apart; a byte string is its length, its header
  bytes and the certificate its body decodes to. `Parse` and `TryFrom` follow
  the code's checks.
* `PreimageSource` - `Verdict`, the rules in the order of the code, and the
  reference meaning of an item: `Delivers`, `MustHalt`, `DataOf`.
* `L1Inbox` - the L1 blocks of a run.
* `BlobDerivation` - the **abstract specification**: one step settles one item.
  No calls, errors or retries.
* `EigenDADataSource` - the core. A call of `next` is cut at its awaits (`pc`);
  `ProviderError`, `OnValidity` and `OnPayload` take the answers of the provider
  as arguments. `Spec` closes the system with any truthful provider that may
  fail at any call. `out` is a history of what was handed up.
* `PreloadedProvider` - the same pipeline over `from_witness` and the two
  stacks. A receipt is the sequence of journals it proves, a KZG proof the
  payload it was made for.
* `WitnessRoundTrip` - first pass, `prepare_witness`, second pass.
* `EigenDAProxy` - the classification of the proxy's responses.
* `OracleHost` - client, host loop, store and proxy. An action of the host is
  one round of its loop; the store may end half way. A run starts with any
  truthful store (`InitialStores`), as the disk store of an earlier run is.
* `NativeHost` - a whole run of the host program around `OracleHost`: command
  line, start, the server task, the client with its prologue, its derivation to
  the claimed block and its epilogue, `try_join!` and the exit code. Every piece
  of data handed up gives one L2 block, and an output root is the sequence of
  blocks up to it, so that two roots are equal exactly if the blocks are.
* `Concatenation` - the sequences of a sequence, put together; the L2 chain
  that an inbox means is one.
* `OnlineProvider` - the provider with the one-entry cache.
* `PowersOfTwo` - powers of two as a recursive function, for the codec and KZG.
* `PayloadCodec` - the payload decoder, byte by byte, against the encoder that
  the code's tests define. `n & (n - 1)` is computed bit by bit (`CommonBit`);
  padding and its removal are functions of the position of a byte.
* `PrimeField` - the scalar field: sums, products, powers and inverses modulo a
  prime `P`, as recursive functions on the natural numbers, which the proofs
  unfold.
* `KzgBatch` - the prover of `crates/compute-proof` and the batch verifier of
  the zkVM build. The field has `P` elements and a point is its discrete
  logarithm, so that every product, sum and pairing is computed; a hash is an
  arbitrary value per message, remembered in `hash`. `Interpolate` is the
  reference for the barycentric formula.
* `CanoeProof` - the Canoe protocol. The variable `build` says with which
  backend and which address fetchers prover and verifier were compiled. Witgen
  builds the inputs, the host preflights the calls on the block its node serves,
  the guest executes them again and commits journals, the verifier builds the
  journals it expects from its own data. A hash is the thing hashed; a *rule
  set* is a chain specification (chain id and forks). Operators `Sp1...` follow
  `canoe/sp1-cc`, `Steel...` follow `canoe/steel`; what both share is mapped to
  one of the two.
* `MC*` - instances for TLC. `*_proofs` - the TLAPS proofs.

`PreloadedProvider`, `OracleHost` and `OnlineProvider` extend
`EigenDADataSource` and reuse its actions with concrete answers; each is shown
to refine `EigenDADataSource!Spec`, which refines `BlobDerivation!Spec`.
Operators marked "Mutant of ..." are seeded faults that show that each property
can fail; no specification uses them.

## What the runs check

| Run | Shows | Bounds |
|---|---|---|
| `datasource` | types; a held commitment is the last item popped from the block of the next call; exactly the data of the settled items that deliver is handed up, once and in order; refinement of `BlobDerivation`; every block is read unless a critical error stops the pipeline | 2 blocks of up to 2 items out of 8 kinds, 1 reset, window 1 |
| `preloaded` | whatever the witness: served entries are true, and the run refines the data source | every list of up to 2 claims, 2 payloads, receipts at two heads |
| `roundtrip` | the witness of a first pass replays to the same output and is used up; it makes `from_witness` panic exactly if it holds a payload whose KZG proof is the point at infinity | 2 blocks of up to 2 items out of 6 kinds, among them a certificate for a blob of one element; `PayloadMayFail = FALSE` |
| `roundtrip_retry` | (violation) with `PayloadMayFail = TRUE` it panics | the same |
| `native` | a whole run of the host program: the store never holds a wrong answer; client, host and proxy refine the data source; the client's verdict on the claim is right; the exit code is that verdict; the program ends | every command line; 7 claims (too low, right, wrong, beyond the inbox); stores left empty, half filled or complete; 3 certificates, two with one KZG commitment, payloads of 2 elements, 6 kinds of response; 12 inboxes, 1 reset |
| `oracle_recency` | (violation) the client asks for a payload the host refuses | the proxy judges the recency of a V3 certificate |
| `online` | the payload comes from the response that declared the certificate valid; the cache refines asking afresh | 2 blocks of up to 2 items out of 3, 1 reset |
| `codec` | every encoding decodes; only encodings decode | elements of 7 bytes, up to 4 in inputs and 8 in encodings |
| `canoe` | accepted claims are true at the trusted head, address and rules; under the fork in force (Steel: or an allowed one); of the prover's own receipts exactly those of the chains the verifier can verify are accepted; a preflight panics only on a false claim, an unknown chain, a reorganised head or, for sp1-cc, return data too short to decode | both backends, 6 combinations of address fetchers, 6 chains (known, one fork behind, further behind, Holesky with its custom genesis, devnet, unknown), claims of up to 2 certificates out of 6 (valid, invalid, unknown status, undecodable answer among them), a reorganisation, one receipt of another prover |
| `canoe_holesky` | (violation) the sp1-cc verifier accepts no receipt for Holesky, which the repository's README lists as supported | one sp1-cc build |
| `kzg` | evaluation is interpolation, also at points of the domain and with padding; honest batches are accepted; a batch whose entries are all right passes for every `r`; one with a wrong entry passes for fewer values of `r` than it has entries; `r` is bound to the whole batch | field of 5 elements, SRS of 4, blobs of 0 to 5 elements, pairs of blobs with errors that may cancel, every value of every challenge |
| `kzg_infinity` | (violation) an honest proof at infinity is refused | blobs of one element |

Why the bounds are enough: the state that survives a step of the data source
is one held commitment and one position, so two items show every interference
of an item with its successor, two blocks every interference across Eof or a
reset, and each rule has a certificate that only it rejects. A window of 1 with
blocks 1 and 2 puts one certificate on either side of the boundary. For the
codec, seven bytes leave one byte of header padding and six data bytes per
element; lengths 0..18 meet empty, full and one-past-full at one, two and four
elements. In `native` the agreed block has number 1 and the inboxes give up to
three pieces of data, so that claims end before, at and after the last block,
in the first or the second L1 block; the half-filled store has a payload of
which one element is missing. The multiplicative group of the field of five
elements has order four, so that blobs have domains of one, two and four points,
a challenge may hit each of them, and a pair of entries has one value of `r` for
which errors cancel. The Canoe instance has one chain for each way
in which the libraries of prover, guest and verifier can differ, and a contract
whose answer changes with block, address and genesis, so that each field of a
journal matters. What is proved (below) does not depend on bounds at all.

### Fairness

`datasource`: weak fairness of `NextCall` (kona's driver steps again
after every temporary error) and strong fairness of the successful answers (a
provider asked again and again does not fail temporarily for ever; without it
the code retries for ever, as it says). Nothing is assumed of resets, which are
bounded, or of critical errors, which end the run.

`native`: weak fairness of the host's own steps and of the client's (both are
tasks of one runtime, or processes); strong fairness of a round of the serving
loop that brings the wanted key (kona's loop handles the hint again until the
key is there, and the proxy is reachable and truthful again and again); and
temporary errors of the preimage channel happen finitely often. The client need
not be lucky: elements stay in the store, though a temporary error makes it read
them from the first again. `ProgramEnds` fails without any one of the four.

## What the four violations show

* **Retry in the first pass** (`roundtrip_retry`). The recording provider pushes
  a validity at every call of `get_validity`
  (`crates/witgen/src/witness_provider.rs:40-42`). If `get_encoded_payload` then
  fails temporarily, the data source calls again and the validity is recorded
  twice, while the replay asks for it once. The next certificate finds the
  duplicate on top of the stack and the guest panics. Nothing false is derived
  (`ReplayRefinement`), but the witness is useless.
* **Recency judged twice** (`oracle_recency`). The comment in
  `bin/host/src/handler.rs:97-98` expects the client to ask for nothing after
  the proxy reported a recency failure. The client applies its own window, which
  V2 and V3 certificates do not have, and asks; the host then loops.
* **Holesky** (`canoe_holesky`). The repository's `README.md:44` says that
  Mainnet, Sepolia and Holesky are supported. `Genesis::try_from` has no genesis
  for Holesky, so the sp1-cc host proves it under `Genesis::Custom`
  (`canoe/sp1-cc/host/src/lib.rs:119-128`); the sp1-cc verifier hashes only what
  `Genesis::try_from` gives and panics on any other chain
  (`canoe/sp1-cc/verifier/src/lib.rs:155-163`). The Steel verifier accepts
  Holesky. `OwnReceiptValidates` says in general which receipts are lost:
  `Verifiable` is the exact condition.
* **Infinity** (`kzg_infinity`). The comment on `validate_g1_point`
  (`crates/sp1-bn-verifier/src/helpers.rs:47-48`) says that the point at infinity
  is accepted. Points reach the verifier as coordinates, and `AffineG1::new`
  refuses the (0, 0) that the prover writes for infinity. The proof of every blob
  with a constant polynomial, every blob of one element among them, is at
  infinity: the batch is rejected and `from_witness` panics. The arkworks
  verifier of other builds does not accept these coordinates either
  (`G1Affine::new` asserts that they are on the curve). `roundtrip` carries the
  consequence: `PanicsExactlyAtInfinity`.

A smaller difference needs no run of its own, because no line of the repository
denies it: `PanicsOnlyOnFalseClaims` has an exception for return data too short
to decode, as from an address without code. The sp1-cc guest takes it for an
invalid certificate (`canoe/sp1-cc/client/src/main.rs:80-92`), while its host
expects it to decode (`canoe/sp1-cc/host/src/lib.rs:151-152`) and panics. A status
code that `StatusCode` does not know is no such case: the decoder does not
validate and gives a hidden invalid variant, which is not `SUCCESS` on either
side.

## What is proved

For all constants that satisfy the named assumptions: any certificates, any
inbox, any number of blocks, items, resets and witnesses.

* `EigenDADataSource_proofs`: `TypeCorrect`, `HeldCommitmentTheorem`,
  `DerivedExactlyTheorem`. `DerivedExactly` is not inductive by itself: that an
  item just popped is not counted as settled depends on the held commitment
  being that item, and this on the Ethereum source being open on the block of
  the call. `SourceInv` adds these facts, and that a payload is only asked for
  after the certificate passed every check. `IndInv` is the conjunction; the
  proof has one lemma per action group and one about appending a settled item.
  `RefinementTheorem`: the abstract cursor is `Cursor`, the number of settled
  items of the current block; each step of the code is one abstract step or a
  stutter.
* `WitnessRoundTrip_proofs`, first part (`PreloadedProvider`):
  `EntriesAreTrueTheorem` from `KzgBinding` (a
  commitment binds a payload of given length), `ReceiptSoundness` (a receipt
  proves only true journals) and `ValidityAssumption` (validity means: what the
  contract says at the trusted head); then `ReplayRefinement` and
  `ReplayDerivesExactly`; `ReplayTypeCorrect`.
* `WitnessRoundTrip_proofs`, second part: `RoundTripTypeCorrect`;
  `SecondPassAgreesTheorem` (a second pass that ends has the output of the
  first, whatever errors either met and however often the second was reset);
  and, if the second pass is not reset and no payload fails temporarily after
  its validity was recorded (`MaxResets = 0`, `~PayloadMayFail`),
  `PanicsExactlyAtInfinityTheorem` and `ReplayReproducesTheorem`. A reset makes the
  replay ask again for entries it has popped, and `roundtrip_retry` shows that
  the other condition is needed too. The first pass is modelled without resets:
  one would record answers again, as a retry does. The theorems are about what
  was recorded by a pass that is long over, so the invariant speaks of *logs*:
  `ValidityLog` and `PayloadLog` are the answers an inbox calls for, up to a
  position. `RoundInv` says that the recording is the log up to the position of
  the first pass (`RecordIsLog`), that it is the whole log once the first pass
  is done (`RecordIsComplete`), that its witness is accepted unless a proof in it
  is at infinity, and that the two stacks of the second pass are
  the rest of the log from its own position (`StacksInv`): hence the entry on
  top always answers the next request.
* `OnlineProvider_proofs`: `OnlineTypeCorrect`, `PayloadIsCachedTheorem`,
  `OnlineRefinement` and `OnlineDerivesExactly` from `ProxyReturnsBlobs`. The cache
  outlives calls, errors and resets; the invariant says that whatever it holds is
  an answer of the proxy to the certificate it is filed under.
* `NativeHost_proofs`, first part (`OracleHost`): `StoreIsTrueTheorem`,
  `OracleRefinement` and `OracleDerivesExactly` from `ProxyHonesty`
  and `RecencyAfterValidity`. The invariant adds that the elements received so far are a prefix of the blob of
  the very certificate held. The store may already hold anything true
  (`StoresAssumption`). `OracleTypeCorrect` gives the types.
* `NativeHost_proofs`, second part: `NativeImplementsOracle` (every step of the
  program is a step of `OracleSpec` or leaves it alone), hence
  `NativeStoreIsTrue` and `NativeRefinement`, for every command line, claim and
  initial store; and `ExitIsVerdictTheorem`. `ExitIsVerdict` alone is not
  inductive: that a server that panics cannot hide a verdict needs that a server
  only breaks once the host loop is down, and that a client which then still
  waits can only end in an error (`TasksInv`, with `Doomed` and `Waiting`).
  `VerdictIsRightTheorem`: the L2 blocks derived are a prefix of `TrueL2`.
  `DerivedExactly` gives the output as the concatenation of settled data; that
  settled data of a prefix of the inbox is a prefix of the whole is shown by
  induction over `Concatenation`. `NativeTypeCorrect` gives the types.
* `CanoeProof_proofs`: `CanoeTypeCorrect`, `AcceptedClaimsTheorem`,
  `AcceptedForkTheorem`, `OwnReceiptTheorem`, `PanicsTheorem`, for both
  backends and every mix of address fetchers. The invariant
  says of each receipt only that some run of the guest committed it
  (`FromGuest`), and of the prover's own that its inputs and sketch are those of
  the trusted head; `AcceptedIsTrue` then reads off, field by field, what
  equality of journals implies. This discharges for the journals' contents what
  `PreloadedProvider` assumes as `ReceiptSoundness`; that a receipt exists only
  for a run of the guest remains the zkVM's promise.
* `PrimeField_proofs`: arithmetic modulo `P`, from nothing but the definition of
  a prime (`PrimeAssumption`). A polynomial that is not zero has no more roots
  than its degree (`RootBound`), by division by a linear factor, and one with as
  many roots as its degree is the product of its linear factors
  (`FactorTheorem`). Fermat's theorem, a lemma here: the numbers 1..P-1 and their multiples by `x` are
  the roots of one polynomial, so the two products are congruent, and one factor
  after the other cancels; `FieldInverse` follows. `BarycentricFormula` and
  `InterpolationAtPoint` are about the powers of a root of unity. Everything is
  stated with the congruence `Cong`, because the provers do not compute with `%`
  of products.
* `KzgBatch_proofs`, for every prime field, secret, SRS that is a power of two,
  list of blobs and value of every hash:
  * `KzgTypeCorrect`;
  * `RightEntriesPassTheorem`: a batch in which every entry satisfies its own
    equation passes the pairing check for every `r`. `BatchEquation` is the
    algebraic step: the batch passes exactly if the errors of its entries,
    weighted with the powers of `r`, add up to zero;
  * `WrongEntriesRarelyPassTheorem`: the errors of the entries are the coefficients
    of a polynomial in `r`, which is not zero if one entry is wrong, so that fewer
    values of `r` than entries let the batch pass;
  * `EvaluationTheorem`: the value the verifier computes is the value of the
    interpolating polynomial at the challenge. The roots that the code collects,
    by multiplying until 1 comes again and dropping the last, are exactly the
    powers of a root of order `n`; at a point of the domain the shortcut is right;
    elsewhere the barycentric weights are those of Lagrange, because the product
    of the differences of one root to all others is `n` over that root;
  * `HonestBatchTheorem`: what the prover computes is accepted. `HonestInv`
    adds to `KzgInv` that what reaches the verifier is what the prover computed,
    and that the hashes both sides used are still remembered; then both derive
    one challenge from one message (`HashKept`), and the proof is the quotient
    for it (`ProofEquation`), so the entry is right (`HonestEntryHolds`);
  * `BatchMessageInjective` and `BatchMessageBindsTheorem`: the message hashed to
    `r` determines the batch, although its writer overwrites the word with the
    number of entries.

  `KzgInv` carries the types of what reaches the verifier, and that it goes on only
  with a batch it could read, with as many points as blobs and as many values as
  challenges.
* `PayloadCodec_proofs`, for every size of a field element above six bytes:
  `DecodeInvertsEncode` (every payload whose length the header can hold, in every
  blob it fits into) and `OnlyBlobsDecode` (every input that decodes is, byte by
  byte, the blob of the result), hence `EncodingsDecodeTheorem` and
  `OnlyEncodingsDecodeTheorem` for the calls of `decode`. Three facts carry them:
  removing the padding undoes adding it, position by position; the four length
  bytes determine the length and are determined by it; and `n & (n - 1) = 0` holds
  of the powers of two and of no other number but zero, by induction on the bits.

The installed provers cannot instantiate the library's induction theorems.
Induction over positions is done here with the least-number principle applied
to a *set* of counterexamples (`LeastNatural`, `InductionUpTo`), which is a
first-order fact; recursive functions are unfolded by lemmas of their own.

Only model-checked:
* `EveryBlockIsRead` and `ProgramEnds`, which are liveness under fairness and out
  of the reach of these provers.

Every safety invariant and every refinement that a passing run checks is also
proved.

## External parts and assumptions

kona's Ethereum source, `L1Retrieval`, oracle server and host loop are modelled
from how the code uses them and marked external in the map. The proxy is assumed
not to lie (`ProxyHonesty`, `ProxyReturnsBlobs`); it may be down, answer
differently each time or return something that is no payload. `ProxyHonesty` is
about payloads and about code 3, an invalid certificate. A recency error is an
assumption of its own, `RecencyAfterValidity`: on that code the host stores the
certificate as valid without any other evidence
(`bin/host/src/eigenda_preimage.rs:109`, `handler.rs:80`), which is true only if
the proxy judges the recency after the validity. The requests name no L1
inclusion block, so that no such answer is expected; `oracle_recency` has one.
Receipts and KZG proofs are assumed sound, and complete but for the point at
infinity: `Flat` are the payloads with a constant polynomial, those of one
element among them, and `BatchVerify` refuses their proofs. Of the blobs of a
first pass `DispersalAssumption` asks what the operators sign: the blob served
for a valid certificate has the commitment and the length the certificate names.
The bytes of RLP, ABI and
hashes are abstracted: distinct certificates have distinct digests. A response
body is a sequence of whole elements; one that is not a multiple of 32 bytes
fails the same assertion as an empty one and is represented by it.

In `NativeHost`, kona's driver (`advance_to_target`), preimage server and
backends are modelled from their use: a server whose loop has failed may end
with an error or a panic, the offline backend gives up on a missing key, and the
server returns when the client closes the channel. kona's caching oracle in
front of the channel is left out: a key's value never changes, so a cached
answer is a repeated one. In `KzgBatch`, hashes collide for no two messages of a
run except by the choice of the value, and a challenge never equals the secret
`Tau` (probability 1/P, which is large only in the small field).
`PrimeAssumption` says that `P` is an odd prime. `KzgAssumption` asks for a root
of unity of the right order for every size up to `SrsSize`, as the code's table
has one for each power of two up to its SRS, for an SRS that is itself a power
of two (`MAINNET_SRS_G1_SIZE` is 2^28), and for requests with at most as many
commitments and proofs as items. `CodecAssumption` asks for elements of more
than six bytes, so that the header fits, and for payloads shorter than 2^32
bytes, because the header holds the length as `u32` and the encoder casts to it;
`MaxExponent` only bounds the sizes of blobs. The arkworks verifier that other
builds use is a library; `BatchVerify` of `PreloadedProvider` stands for both.

## Not modelled

Curve and pairing arithmetic below the group laws (substrate-bn, arkworks), the
bytes of ABI and RLP, logging. The L2 tables of the registry are
empty and have no caller. In Canoe: settings and limits of the prover network
(any of them may make `GenerateFails` happen), the contents of the state proof
(an execution depends on block and rules only), and the devnet verifier, which
only drops the refusal of the devnet. In the client: execution of L2 blocks,
which is kona's.

## Plan

1. Done: core, preloaded replay, round trip, oracle and host, the host program
   and the fault-proof client, online provider, codec, KZG, Canoe with its
   address fetchers, and the proofs above.
2. Done: proofs of every safety invariant and refinement that the runs check.
3. Compose the round trip with the oracle: the recording provider over
   `OracleHost`, so that `PayloadMayFail` is decided by the channel.
4. Compose `PreloadedProvider` with `CanoeProof`: `ValidateCertReceipt` of the
   former as the `Validates` of the latter, with `ReceiptSoundness` derived.
