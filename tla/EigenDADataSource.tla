------------------------- MODULE EigenDADataSource -------------------------
(***************************************************************************)
(* EigenDADataSource (crates/eigenda/src/eigenda.rs) between kona's        *)
(* L1Retrieval stage, which calls next() and clear(), and the preimage     *)
(* provider, which answers get_validity and get_encoded_payload.           *)
(*                                                                         *)
(* A call of next() is cut at its awaits: pc = "eth" before                *)
(* ethereum_source.next, "validity" before get_validity, "payload" before  *)
(* get_encoded_payload, "idle" when no call is running and "halted" after  *)
(* a critical error.  The recursive call that follows a discarded          *)
(* commitment goes back to "eth" without leaving the call.                 *)
(*                                                                         *)
(* The answers of the provider are arguments of OnValidity and OnPayload,  *)
(* so that other modules can put a concrete provider in their place; Next  *)
(* closes the system with any provider that tells the truth about a        *)
(* certificate and may fail at any call.                                   *)
(***************************************************************************)
EXTENDS L1Inbox

VARIABLES
    chain,              \* chain[b]: the batcher data of L1 block b
    origin,             \* block_ref of L1Retrieval; LastBlock + 1 at the end
    eth,                \* ethereum_source: the block it has open, items popped
    altda_commitment,   \* the commitment being processed, or NoCert
    pc,                 \* where the current call of next() stands
    cause,              \* the critical error that was returned, if any
    out,                \* history: what next() returned, block by block
    resets              \* number of pipeline resets so far

vars == <<chain, origin, eth, altda_commitment, pc, cause, out, resets>>

EthClosed == [open |-> FALSE, block |-> 0, popped |-> 0]

Init ==
    /\ chain \in L1Chains
    /\ origin = 1
    /\ eth = EthClosed
    /\ altda_commitment = NoCert
    /\ pc = "idle"
    /\ cause = "none"
    /\ out = [b \in Blocks |-> << >>]
    /\ resets = 0

-----------------------------------------------------------------------------
(***************************************************************************)
(* The Ethereum source (kona): it loads the data of block_ref when it is   *)
(* not open and then pops one item per call.  Until it is cleared it       *)
(* serves the block it opened, whatever block_ref says.                    *)
(***************************************************************************)
EthOpened == IF eth.open THEN eth
             ELSE [open |-> TRUE, block |-> origin, popped |-> 0]

EthExhausted == EthOpened.popped = Len(chain[EthOpened.block])

EthItem == chain[EthOpened.block][EthOpened.popped + 1]

EthPop ==
    /\ ~EthExhausted
    /\ eth' = [open |-> TRUE, block |-> EthOpened.block,
                popped |-> EthOpened.popped + 1]

\* The result of the call is Ok(data).
Return(data) ==
    /\ out' = [out EXCEPT ![origin] =
                 Append(@, [pos |-> eth'.popped, data |-> data])]
    /\ pc' = "idle"

\* The result is a critical error: the pipeline does not call again.
Fail(why) ==
    /\ pc' = "halted"
    /\ cause' = why

\* Mutant of Clear: the commitment is forgotten about.
ClearSourceOnly ==
    /\ eth' = EthClosed
    /\ UNCHANGED altda_commitment

Clear ==
    /\ altda_commitment' = NoCert
    /\ eth' = EthClosed

\* L1Retrieval::next_data calls next(block_ref).  A commitment left by a
\* temporary error is taken up again before the Ethereum source is asked.
NextCall ==
    /\ pc = "idle"
    /\ origin \in Blocks
    /\ pc' = IF altda_commitment = NoCert THEN "eth" ELSE "validity"
    /\ UNCHANGED <<chain, origin, eth, altda_commitment, cause, out, resets>>

\* Loading the block fails.
EthError(kind) ==
    /\ pc = "eth"
    /\ ~eth.open
    /\ \/ kind = "temporary" /\ pc' = "idle" /\ UNCHANGED cause
       \/ kind = "critical" /\ Fail("provider")
    /\ UNCHANGED <<chain, origin, eth, altda_commitment, out, resets>>

\* The block is exhausted: next() clears itself and returns Eof, on which
\* L1Retrieval moves to the next block.
EthEof ==
    /\ pc = "eth"
    /\ EthExhausted
    /\ Clear
    /\ origin' = origin + 1
    /\ pc' = "idle"
    /\ UNCHANGED <<chain, cause, out, resets>>

\* Empty or unreadable data: NotEnoughData, the caller comes back.
EthSkip ==
    /\ pc = "eth"
    /\ EthPop
    /\ IsEmpty(EthItem) \/ IsMalformed(EthItem)
    /\ pc' = "idle"
    /\ UNCHANGED <<chain, origin, altda_commitment, cause, out, resets>>

\* Data that was not posted for an alternative DA layer.
EthRaw ==
    /\ pc = "eth"
    /\ EthPop
    /\ IsRaw(EthItem)
    /\ Return(EthItem)
    /\ UNCHANGED <<chain, origin, altda_commitment, cause, resets>>

EthCommitment ==
    /\ pc = "eth"
    /\ EthPop
    /\ IsCommitment(EthItem)
    /\ altda_commitment' = Parse(EthItem)
    /\ pc' = "validity"
    /\ UNCHANGED <<chain, origin, cause, out, resets>>

-----------------------------------------------------------------------------
(***************************************************************************)
(* The preimage provider.                                                  *)
(***************************************************************************)

\* Mutant of Discard: the commitment is not taken out.
DiscardWithoutTake ==
    /\ pc' = "idle"
    /\ UNCHANGED altda_commitment

\* The commitment is dropped and next() calls itself.
Discard ==
    /\ altda_commitment' = NoCert
    /\ pc' = "eth"

\* Mutant of ProviderError: the commitment is taken out before the request.
ProviderErrorAfterTake(kind) ==
    /\ pc \in {"validity", "payload"}
    /\ \/ kind = "temporary" /\ pc' = "idle" /\ UNCHANGED cause
       \/ kind = "critical" /\ Fail("provider")
    /\ altda_commitment' = NoCert
    /\ UNCHANGED <<chain, origin, eth, out, resets>>

\* get_validity or get_encoded_payload fails: the commitment stays where it
\* is.
ProviderError(kind) ==
    /\ pc \in {"validity", "payload"}
    /\ \/ kind = "temporary" /\ pc' = "idle" /\ UNCHANGED cause
       \/ kind = "critical" /\ Fail("provider")
    /\ UNCHANGED <<chain, origin, eth, altda_commitment, out, resets>>

\* get_validity answers, and the recency of the certificate is judged against
\* the block_ref of this very call.
OnValidity(validity) ==
    LET verdict == Verdict(altda_commitment, validity, origin) IN
    /\ pc = "validity"
    /\ \/ verdict = "discard" /\ Discard /\ UNCHANGED cause
       \/ verdict = "critical" /\ Fail("version") /\ UNCHANGED altda_commitment
       \/ /\ verdict = "payload"
          /\ pc' = "payload"
          /\ UNCHANGED <<altda_commitment, cause>>
    /\ UNCHANGED <<chain, origin, eth, out, resets>>

\* get_encoded_payload answers; the payload is decoded at once.
OnPayload(payload) ==
    /\ pc = "payload"
    /\ \/ /\ Decode[payload] # DecodeError
          /\ altda_commitment' = NoCert
          /\ eth' = eth
          /\ Return(Decode[payload])
       \/ Decode[payload] = DecodeError /\ Discard /\ UNCHANGED <<eth, out>>
    /\ UNCHANGED <<chain, origin, cause, resets>>

\* Mutant of Reset: the pipeline resumes one block too early.
ResetBefore(b) ==
    /\ pc = "idle"
    /\ b <= origin
    /\ resets < MaxResets
    /\ Clear
    /\ origin' = b - 1
    /\ out' = ForgetFrom(out, b)
    /\ resets' = resets + 1
    /\ UNCHANGED <<chain, pc, cause>>

\* The pipeline is reset to block b: L1Retrieval clears the source.
Reset(b) ==
    /\ pc = "idle"
    /\ b <= origin
    /\ resets < MaxResets
    /\ Clear
    /\ origin' = b
    /\ out' = ForgetFrom(out, b)
    /\ resets' = resets + 1
    /\ UNCHANGED <<chain, pc, cause>>

-----------------------------------------------------------------------------
Finished == origin = LastBlock + 1 /\ pc = "idle"

\* Nothing is left to call, or nobody calls any more.
Done == (Finished \/ pc = "halted") /\ UNCHANGED vars

EthStep == EthEof \/ EthSkip \/ EthRaw \/ EthCommitment

ErrorKind == {"temporary", "critical"}

Next ==
    \/ NextCall
    \/ \E kind \in ErrorKind : EthError(kind)
    \/ EthStep
    \/ \E kind \in ErrorKind : ProviderError(kind)
    \/ OnValidity(Valid[altda_commitment])
    \/ OnPayload(BlobOf[altda_commitment])
    \/ \E b \in Blocks : Reset(b)
    \/ Done

Spec == Init /\ [][Next]_vars

\* The driver calls again after every temporary error, and a provider that is
\* asked again and again does not fail temporarily for ever.
Fairness ==
    /\ WF_vars(NextCall)
    /\ SF_vars(EthStep)
    /\ SF_vars(OnValidity(Valid[altda_commitment]))
    /\ SF_vars(OnPayload(BlobOf[altda_commitment]))

FairSpec == Spec /\ Fairness

-----------------------------------------------------------------------------
TypeOK ==
    /\ chain \in L1Chains
    /\ origin \in 1..(LastBlock + 1)
    /\ eth \in [open : BOOLEAN, block : Nat, popped : Nat]
    /\ altda_commitment \in Certs \cup {NoCert}
    /\ pc \in {"idle", "eth", "validity", "payload", "halted"}
    /\ cause \in {"none", "provider", "version"}
    /\ out \in [Blocks -> Seq(Entry)]
    /\ resets \in 0..MaxResets

\* How many items of block b are dealt with: the item whose commitment is
\* held is not.
Settled(b) ==
    IF b < origin THEN Len(chain[b])
    ELSE IF b = origin /\ eth.open
         THEN IF altda_commitment = NoCert THEN eth.popped ELSE eth.popped - 1
         ELSE 0

\* A commitment that is held across calls is the last item popped from the
\* very block whose number the recency check will use: neither a retry nor a
\* reset nor the change of blocks can leave it behind
\* (eigenda.rs, altda_commitment and clear).
HeldCommitmentIsCurrent ==
    altda_commitment # NoCert =>
        /\ eth.open
        /\ eth.block = origin
        /\ origin \in Blocks
        /\ eth.popped \in 1..Len(chain[origin])
        /\ IsCommitment(chain[origin][eth.popped])
        /\ Parse(chain[origin][eth.popped]) = altda_commitment

\* entries is what the first n items of block b, whose data is items, must
\* have given: exactly the data of those that deliver, each once, in inbox
\* order, with its own payload, and no item that must stop the derivation.
DerivedFrom(items, entries, n, b) ==
    /\ \A k \in 1..n : ~MustHalt(items[k])
    /\ {entries[i].pos : i \in DOMAIN entries} = {k \in 1..n : Delivers(items[k], b)}
    /\ \A i, j \in DOMAIN entries : i < j => entries[i].pos < entries[j].pos
    /\ \A i \in DOMAIN entries : entries[i].data = DataOf(items[entries[i].pos])

\* Whatever the providers do, the stages above have received exactly the data
\* of the settled items that deliver, once each and in order, and no item
\* that must stop the derivation was passed over (eigenda.rs, next).
DerivedExactly ==
    \A b \in Blocks : DerivedFrom(chain[b], out[b], Settled(b), b)

\* What ties the three stores of the source together, and makes the two
\* properties above inductive: the Ethereum source is open on the block being
\* read and not past its end, a commitment is held exactly in the phases that
\* work on it (or between calls), and the payload is asked for only after the
\* certificate passed every check.
SourceInv ==
    /\ IF eth.open
       THEN /\ eth.block = origin
            /\ origin \in Blocks
            /\ eth.popped \in 0..Len(chain[origin])
       ELSE eth = EthClosed
    /\ pc \in {"validity", "payload"} => altda_commitment # NoCert
    /\ pc = "eth" => altda_commitment = NoCert
    /\ pc # "idle" => origin \in Blocks
    /\ pc = "payload" =>
          Verdict(altda_commitment, Valid[altda_commitment], origin) = "payload"
    /\ (pc = "halted") <=> (cause # "none")

IndInv == TypeOK /\ SourceInv /\ HeldCommitmentIsCurrent /\ DerivedExactly

\* The refinement mapping: the items of the current block that are settled.
Cursor == IF origin \in Blocks THEN Settled(origin) ELSE 0

Abstract == INSTANCE BlobDerivation WITH cursor <- Cursor

\* The data source implements the derivation that settles each item in one
\* step: temporary errors, retries and recursive calls are stuttering steps
\* (eigenda.rs, next).
RefinesBlobDerivation == Abstract!Spec

\* If temporary errors do not last for ever, every block is read to its end
\* unless a critical error stops the pipeline (eigenda.rs, next: the held
\* commitment is retried, a discarded one is left behind).
EveryBlockIsRead == <>(Finished \/ pc = "halted")

=============================================================================
