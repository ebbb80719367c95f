----------------------- MODULE WitnessRoundTrip_proofs -----------------------
(***************************************************************************)
(* Proofs about PreloadedProvider, for every set of certificates, inbox    *)
(* and witness; they rest on the soundness of the receipts and on the      *)
(* binding of KZG commitments, the two cryptographic assumptions.  Then    *)
(* proofs about WitnessRoundTrip: what the first pass records is exactly   *)
(* what the second pass asks for.  Both are compared with one thing, the   *)
(* answers that the inbox calls for, item by item.                         *)
(***************************************************************************)
EXTENDS WitnessRoundTrip, EigenDADataSource_proofs

-----------------------------------------------------------------------------
(***************************************************************************)
(* The replay of any witness (PreloadedProvider).                          *)
(***************************************************************************)

StackTypes ==
    /\ witness \in Witnesses
    /\ validity_entries \in Seq(ValidityEntry)
    /\ encoded_payload_entries \in Seq(PayloadEntry)
    /\ stage \in {"load", "derive", "panicked"}

ReplayInv == StackTypes /\ EntriesAreTrue

-----------------------------------------------------------------------------
\* The top of a stack of typed entries, and what is left below it.
LEMMA Pop ==
    ASSUME NEW S, NEW stack \in Seq(S), stack # << >>
    PROVE  /\ Last(stack) \in S
           /\ Last(stack) = stack[Len(stack)]
           /\ Len(stack) \in DOMAIN stack
           /\ Front(stack) \in Seq(S)
           /\ DOMAIN Front(stack) \subseteq DOMAIN stack
           /\ \A i \in DOMAIN Front(stack) : Front(stack)[i] = stack[i]
  BY DEF Last, Front

\* Reversing a sequence keeps its elements.
LEMMA ReverseElements ==
    ASSUME NEW S, NEW s \in Seq(S)
    PROVE  /\ Reverse(s) \in Seq(S)
           /\ DOMAIN Reverse(s) = DOMAIN s
           /\ \A i \in DOMAIN s : \E k \in DOMAIN s : Reverse(s)[i] = s[k]
  BY DEF Reverse

\* A claim that an accepted witness makes is true: the receipt it comes with
\* proves the journals the zkVM computed from its own L1 context.
LEMMA AcceptedClaimsAreTrue ==
    ASSUME NEW w \in Witnesses, Accepts(w), NEW k \in DOMAIN w.validities
    PROVE  w.validities[k].valid = Valid[w.validities[k].cert]
<1> DEFINE e == w.validities[k]
           j == ToJournals(w.validities)[k]
<1>1. w \in EigenDAWitness
  BY ContextAssumption
<1>2. /\ w.validities \in Seq(ValidityEntry)
      /\ e \in ValidityEntry
      /\ w.validities # << >>
  BY <1>1 DEF EigenDAWitness
<1>3. /\ Router[TrustedL1] # NoAddress
      /\ w.canoe_proof = ToJournals(w.validities)
  BY <1>2 DEF Accepts, ValidateCertReceipt
<1>4. /\ j = [cert |-> e.cert, l1 |-> TrustedL1,
              verifier |-> Router[TrustedL1], output |-> e.valid]
      /\ DOMAIN ToJournals(w.validities) = DOMAIN w.validities
  BY DEF ToJournals
<1>5. w.canoe_proof # NoProof
  <2>1. ToJournals(w.validities) \in Seq(Journal)
    <3>1. \A i \in DOMAIN w.validities : w.validities[i] \in ValidityEntry
      BY <1>2
    <3>2. \A i \in DOMAIN w.validities :
            [cert |-> w.validities[i].cert, l1 |-> TrustedL1,
             verifier |-> Router[TrustedL1], output |-> w.validities[i].valid]
              \in Journal
      BY <3>1, <1>3, ContextAssumption DEF Journal, ValidityEntry
    <3> QED
      BY <1>2, <3>2 DEF ToJournals
  <2> QED
    BY <2>1, <1>3, ContextAssumption
<1>6. j.output = OnChain[StatementOf(j)]
  BY <1>3, <1>4, <1>5, ReceiptSoundness
<1>7. OnChain[StatementOf(j)] = Valid[e.cert]
  <2>1. e.cert \in Certs
    BY <1>2 DEF ValidityEntry
  <2>2. StatementOf(j) = [cert |-> e.cert, l1 |-> TrustedL1,
                          verifier |-> Router[TrustedL1]]
    BY <1>4 DEF StatementOf
  <2> QED
    BY <2>1, <2>2, <1>3, ValidityAssumption
<1> QED
  BY <1>4, <1>6, <1>7

\* A payload that an accepted witness carries is the one its certificate
\* commits to: length and commitment together leave no choice.
LEMMA AcceptedPayloadsAreTrue ==
    ASSUME NEW w \in Witnesses, Accepts(w), NEW k \in DOMAIN w.encoded_payloads
    PROVE  /\ w.encoded_payloads[k] \in ProvenPayload
           /\ w.encoded_payloads[k].payload = BlobOf[w.encoded_payloads[k].cert]
<1>1. w \in EigenDAWitness
  BY ContextAssumption
<1>2. w.encoded_payloads[k] \in ProvenPayload
  BY <1>1 DEF EigenDAWitness
<1>3. /\ NumFE[w.encoded_payloads[k].payload] = w.encoded_payloads[k].cert.length
      /\ Commit[w.encoded_payloads[k].payload] = w.encoded_payloads[k].cert.kzg
  BY DEF Accepts, LengthsMatch, BatchVerify
<1> QED
  BY <1>2, <1>3, KzgBinding DEF ProvenPayload

-----------------------------------------------------------------------------
LEMMA ReplayInvInit == ReplayInit => ReplayInv
  BY DEF ReplayInit, ReplayInv, StackTypes, EntriesAreTrue

LEMMA FromWitnessPreservesInv == ReplayInv /\ FromWitness => ReplayInv'
<1> SUFFICES ASSUME ReplayInv, FromWitness
             PROVE  ReplayInv'
  OBVIOUS
<1> DEFINE vs == witness.validities
           ps == witness.encoded_payloads
           rs == Reverse(ps)
<1>1. /\ witness \in Witnesses
      /\ Accepts(witness)
      /\ witness' = witness
  BY DEF ReplayInv, StackTypes, FromWitness
<1>2. /\ vs \in Seq(ValidityEntry)
      /\ ps \in Seq(ProvenPayload)
  BY <1>1, ContextAssumption DEF EigenDAWitness
<1>3. /\ validity_entries' \in Seq(ValidityEntry)
      /\ \A i \in DOMAIN validity_entries' :
           validity_entries'[i].valid = Valid[validity_entries'[i].cert]
  <2>1. validity_entries' = Reverse(vs)
    BY DEF FromWitness
  <2>2. \A k \in DOMAIN vs : vs[k].valid = Valid[vs[k].cert]
    BY <1>1, AcceptedClaimsAreTrue
  <2> HIDE DEF vs
  <2> QED
    BY <1>2, <2>1, <2>2, ReverseElements
<1>4. /\ encoded_payload_entries' \in Seq(PayloadEntry)
      /\ \A i \in DOMAIN encoded_payload_entries' :
           encoded_payload_entries'[i].payload
             = BlobOf[encoded_payload_entries'[i].cert]
  <2>1. encoded_payload_entries' = [i \in DOMAIN rs |-> DropProof(rs[i])]
    BY DEF FromWitness
  <2>2. \A k \in DOMAIN ps : /\ ps[k] \in ProvenPayload
                             /\ ps[k].payload = BlobOf[ps[k].cert]
    BY <1>1, AcceptedPayloadsAreTrue
  <2>3. /\ rs \in Seq(ProvenPayload)
        /\ \A i \in DOMAIN rs : rs[i].payload = BlobOf[rs[i].cert]
    <3> HIDE DEF ps
    <3> QED
      BY <1>2, <2>2, ReverseElements
  <2> HIDE DEF ps, rs
  <2>4. \A i \in DOMAIN rs :
           /\ DropProof(rs[i]) \in PayloadEntry
           /\ DropProof(rs[i]).payload = BlobOf[DropProof(rs[i]).cert]
    <3>1. \A i \in DOMAIN rs : rs[i] \in ProvenPayload
      BY <2>3
    <3> QED
      BY <2>3, <3>1 DEF DropProof, PayloadEntry, ProvenPayload
  <2> QED
    BY <2>1, <2>3, <2>4
<1> QED
  BY <1>1, <1>3, <1>4 DEF FromWitness, ReplayInv, StackTypes, EntriesAreTrue

LEMMA ReplayInvStep == ReplayInv /\ [ReplayNext]_replay_vars => ReplayInv'
<1> SUFFICES ASSUME ReplayInv, [ReplayNext]_replay_vars
             PROVE  ReplayInv'
  OBVIOUS
<1>1. CASE FromWitness
  BY <1>1, FromWitnessPreservesInv
<1>2. CASE RejectWitness
  BY <1>2 DEF RejectWitness, entries, ReplayInv, StackTypes, EntriesAreTrue
<1>3. CASE GetValidity
  <2>1. /\ validity_entries' \in Seq(ValidityEntry)
        /\ DOMAIN validity_entries' \subseteq DOMAIN validity_entries
        /\ \A i \in DOMAIN validity_entries' :
             validity_entries'[i] = validity_entries[i]
    BY <1>3, Pop DEF GetValidity, OnTop, ReplayInv, StackTypes
  <2> QED
    BY <1>3, <2>1 DEF GetValidity, ReplayInv, StackTypes, EntriesAreTrue
<1>4. CASE GetEncodedPayload
  <2>1. /\ encoded_payload_entries' \in Seq(PayloadEntry)
        /\ DOMAIN encoded_payload_entries' \subseteq DOMAIN encoded_payload_entries
        /\ \A i \in DOMAIN encoded_payload_entries' :
             encoded_payload_entries'[i] = encoded_payload_entries[i]
    BY <1>4, Pop DEF GetEncodedPayload, OnTop, ReplayInv, StackTypes
  <2> QED
    BY <1>4, <2>1 DEF GetEncodedPayload, ReplayInv, StackTypes, EntriesAreTrue
<1>5. CASE PanicOnRequest
  BY <1>5 DEF PanicOnRequest, entries, ReplayInv, StackTypes, EntriesAreTrue
<1>6. CASE PipelineStep
  BY <1>6 DEF PipelineStep, entries, ReplayInv, StackTypes, EntriesAreTrue
<1>7. CASE UNCHANGED replay_vars
  BY <1>7 DEF replay_vars, entries, ReplayInv, StackTypes, EntriesAreTrue
<1>8. CASE ReplayDone
  BY <1>7, <1>8 DEF ReplayDone
<1> QED
  BY <1>1, <1>2, <1>3, <1>4, <1>5, <1>6, <1>7, <1>8 DEF ReplayNext

\* Whatever witness the host supplies, what the pipeline is served is true.
THEOREM EntriesAreTrueTheorem == ReplaySpec => []EntriesAreTrue
<1>1. ReplayInv => EntriesAreTrue
  BY DEF ReplayInv
<1> QED
  BY <1>1, ReplayInvInit, ReplayInvStep, PTL DEF ReplaySpec

-----------------------------------------------------------------------------
\* A true answer taken from a stack is an answer the provider of the data
\* source specification may give.
LEMMA ServedAnswerIsTrue ==
    ASSUME validity_entries \in Seq(ValidityEntry),
           encoded_payload_entries \in Seq(PayloadEntry),
           EntriesAreTrue
    PROVE  /\ GetValidity => OnValidity(Valid[altda_commitment])
           /\ GetEncodedPayload => OnPayload(BlobOf[altda_commitment])
<1>1. ASSUME GetValidity PROVE OnValidity(Valid[altda_commitment])
  <2>1. \E i \in DOMAIN validity_entries :
          Last(validity_entries) = validity_entries[i]
    BY <1>1, Pop DEF GetValidity, OnTop
  <2>2. Last(validity_entries).valid = Valid[altda_commitment]
    BY <1>1, <2>1 DEF GetValidity, OnTop, EntriesAreTrue
  <2> QED
    BY <1>1, <2>2 DEF GetValidity
<1>2. ASSUME GetEncodedPayload PROVE OnPayload(BlobOf[altda_commitment])
  <2>1. \E i \in DOMAIN encoded_payload_entries :
          Last(encoded_payload_entries) = encoded_payload_entries[i]
    BY <1>2, Pop DEF GetEncodedPayload, OnTop
  <2>2. Last(encoded_payload_entries).payload = BlobOf[altda_commitment]
    BY <1>2, <2>1 DEF GetEncodedPayload, OnTop, EntriesAreTrue
  <2> QED
    BY <1>2, <2>2 DEF GetEncodedPayload
<1> QED
  BY <1>1, <1>2

LEMMA ReplayStepIsSourceStep ==
    ReplayInv /\ [ReplayNext]_replay_vars => [Next]_vars
<1> SUFFICES ASSUME ReplayInv, [ReplayNext]_replay_vars
             PROVE  [Next]_vars
  OBVIOUS
<1>1. CASE FromWitness \/ RejectWitness \/ PanicOnRequest \/ ReplayDone
            \/ UNCHANGED replay_vars
  BY <1>1 DEF FromWitness, RejectWitness, PanicOnRequest, ReplayDone, replay_vars
<1>2. CASE GetValidity \/ GetEncodedPayload
  BY <1>2, ServedAnswerIsTrue DEF ReplayInv, StackTypes, Next
<1>3. CASE PipelineStep
  BY <1>3 DEF PipelineStep, Next
<1> QED
  BY <1>1, <1>2, <1>3 DEF ReplayNext

\* The zkVM program over any witness implements the data source.
THEOREM ReplayRefinement == ReplaySpec => ReplayRefinesSource
<1>1. ReplayInit => Init
  BY DEF ReplayInit
<1> QED
  BY <1>1, ReplayInvInit, ReplayInvStep, ReplayStepIsSourceStep, PTL
  DEF ReplaySpec, ReplayRefinesSource, Spec

\* The guest keeps its types, over every witness.
THEOREM ReplayTypeCorrect == ReplaySpec => []ReplayTypeOK
<1>1. ReplayInv /\ TypeOK => ReplayTypeOK
  BY ContextAssumption DEF ReplayInv, StackTypes, ReplayTypeOK
<1>2. ReplaySpec => []ReplayInv
  BY ReplayInvInit, ReplayInvStep, PTL DEF ReplaySpec
<1>3. ReplaySpec => []TypeOK
  BY ReplayRefinement, TypeCorrect, PTL DEF ReplayRefinesSource
<1> QED
  BY <1>1, <1>2, <1>3, PTL

\* What a zkVM run hands to the stages above is exactly what the inbox means,
\* whatever witness it was given.
THEOREM ReplayDerivesExactly == ReplaySpec => []DerivedExactly
  BY ReplayRefinement, DerivedExactlyTheorem, PTL DEF ReplayRefinesSource


-----------------------------------------------------------------------------
(***************************************************************************)
(* A log kept along the inbox.  parts[b][k] is what item k of block b adds *)
(* to it.                                                                  *)
(***************************************************************************)

Whole(parts) == [b \in Blocks |-> Concat(parts[b])]

\* The log once the blocks before o and n items of block o are dealt with.
LogAt(parts, o, n) ==
    ConcatUpTo(Whole(parts))[o - 1]
        \o (IF o \in Blocks THEN ConcatUpTo(parts[o])[n] ELSE << >>)

All(parts) == Concat(Whole(parts))

LEMMA BeginsTransitive ==
    ASSUME NEW D, NEW r \in Seq(D), NEW s \in Seq(D), NEW t \in Seq(D),
           Begins(r, s), Begins(s, t)
    PROVE  Begins(r, t)
<1>1. Len(r) \in Nat /\ Len(s) \in Nat /\ Len(t) \in Nat
  OBVIOUS
<1> QED
  BY <1>1 DEF Begins

\* The two levels of concatenation, unfolded one step.
LEMMA LogParts ==
    ASSUME NEW D, NEW parts \in [Blocks -> Seq(Seq(D))]
    PROVE  /\ ConcatUpTo(Whole(parts))[0] = << >>
           /\ \A b \in Blocks :
                ConcatUpTo(Whole(parts))[b]
                  = ConcatUpTo(Whole(parts))[b - 1] \o Concat(parts[b])
           /\ \A b \in 0..LastBlock : ConcatUpTo(Whole(parts))[b] \in Seq(D)
           /\ \A b \in 0..LastBlock :
                Begins(ConcatUpTo(Whole(parts))[b], All(parts))
           /\ \A b \in Blocks :
                /\ Len(parts[b]) \in Nat
                /\ ConcatUpTo(parts[b])[0] = << >>
                /\ Concat(parts[b]) \in Seq(D)
                /\ \A n \in 0..Len(parts[b]) :
                     /\ ConcatUpTo(parts[b])[n] \in Seq(D)
                     /\ Begins(ConcatUpTo(parts[b])[n], Concat(parts[b]))
                /\ \A n \in 1..Len(parts[b]) :
                     ConcatUpTo(parts[b])[n] = ConcatUpTo(parts[b])[n - 1] \o parts[b][n]
           /\ All(parts) = ConcatUpTo(Whole(parts))[LastBlock]
           /\ All(parts) \in Seq(D)
<1>0. LastBlock \in Nat
  BY ChainAssumption
<1>1. ASSUME NEW b \in Blocks
      PROVE  /\ Len(parts[b]) \in Nat
             /\ ConcatUpTo(parts[b])[0] = << >>
             /\ Concat(parts[b]) \in Seq(D)
             /\ \A n \in 0..Len(parts[b]) :
                  /\ ConcatUpTo(parts[b])[n] \in Seq(D)
                  /\ Begins(ConcatUpTo(parts[b])[n], Concat(parts[b]))
             /\ \A n \in 1..Len(parts[b]) :
                  ConcatUpTo(parts[b])[n] = ConcatUpTo(parts[b])[n - 1] \o parts[b][n]
  <2>1. parts[b] \in Seq(Seq(D)) /\ Len(parts[b]) \in Nat
    OBVIOUS
  <2>2. Len(parts[b]) \in 0..Len(parts[b])
    BY <2>1
  <2>3. \A n \in 0..Len(parts[b]) : ConcatUpTo(parts[b])[n] \in Seq(D)
    BY <2>1, ConcatSteps, Zenon
  <2>4. Concat(parts[b]) \in Seq(D)
    BY <2>2, <2>3 DEF Concat
  <2>5. \A n \in 0..Len(parts[b]) : Begins(ConcatUpTo(parts[b])[n], Concat(parts[b]))
    BY <2>1, ConcatBegins, Zenon
  <2>6. /\ ConcatUpTo(parts[b])[0] = << >>
        /\ \A n \in 1..Len(parts[b]) :
             ConcatUpTo(parts[b])[n] = ConcatUpTo(parts[b])[n - 1] \o parts[b][n]
    BY <2>1, ConcatSteps, Zenon
  <2> QED
    BY <2>1, <2>3, <2>4, <2>5, <2>6, Zenon
<1> DEFINE w == Whole(parts)
<1>2. w \in Seq(Seq(D)) /\ Len(w) = LastBlock /\ \A b \in Blocks : w[b] = Concat(parts[b])
  <2>1. w = [b \in 1..LastBlock |-> Concat(parts[b])]
    BY DEF Whole, Blocks
  <2>2. \A b \in 1..LastBlock : Concat(parts[b]) \in Seq(D)
    BY <1>1 DEF Blocks
  <2> HIDE DEF w
  <2> QED
    BY <1>0, <2>1, <2>2 DEF Blocks
<1> HIDE DEF w
<1>3. /\ ConcatUpTo(w)[0] = << >>
      /\ \A n \in 1..Len(w) : ConcatUpTo(w)[n] = ConcatUpTo(w)[n - 1] \o w[n]
      /\ \A n \in 0..Len(w) : ConcatUpTo(w)[n] \in Seq(D)
      /\ \A n \in 0..Len(w) : Begins(ConcatUpTo(w)[n], Concat(w))
  BY <1>2, ConcatSteps, ConcatBegins, Zenon
<1>4. \A b \in Blocks : ConcatUpTo(w)[b] = ConcatUpTo(w)[b - 1] \o Concat(parts[b])
  BY <1>2, <1>3, Zenon DEF Blocks
<1>5. All(parts) = ConcatUpTo(w)[LastBlock] /\ LastBlock \in 0..LastBlock
  BY <1>0, <1>2 DEF All, Concat, w
<1>6. All(parts) = Concat(w)
  BY DEF All, w
<1>7. All(parts) \in Seq(D)
  BY <1>2, <1>3, <1>5
<1>8. /\ \A b \in 0..LastBlock : ConcatUpTo(w)[b] \in Seq(D)
      /\ \A b \in 0..LastBlock : Begins(ConcatUpTo(w)[b], All(parts))
      /\ ConcatUpTo(w)[0] = << >>
  BY <1>2, <1>3, <1>6, Zenon
<1> QED
  BY <1>1, <1>4, <1>5, <1>7, <1>8, Zenon DEF w

\* Nothing is dealt with at the start.
LEMMA LogStart ==
    ASSUME NEW D, NEW parts \in [Blocks -> Seq(Seq(D))]
    PROVE  LogAt(parts, 1, 0) = << >>
<1>1. ConcatUpTo(Whole(parts))[0] = << >>
  BY LogParts
<1>2. 1 \in Blocks => ConcatUpTo(parts[1])[0] = << >>
  BY LogParts
<1>3. 1 - 1 = 0 /\ << >> \o << >> = << >>
  OBVIOUS
<1> QED
  BY <1>1, <1>2, <1>3, Zenon DEF LogAt

\* One item more.
LEMMA LogItem ==
    ASSUME NEW D, NEW parts \in [Blocks -> Seq(Seq(D))],
           NEW o \in Blocks, NEW n \in Nat, n + 1 \in 1..Len(parts[o])
    PROVE  /\ LogAt(parts, o, n) \in Seq(D)
           /\ LogAt(parts, o, n + 1) = LogAt(parts, o, n) \o parts[o][n + 1]
           /\ parts[o][n + 1] \in Seq(D)
<1> DEFINE u == ConcatUpTo(Whole(parts))[o - 1]
           v == ConcatUpTo(parts[o])[n]
           x == parts[o][n + 1]
<1>1. /\ Len(parts[o]) \in Nat /\ LastBlock \in Nat /\ parts[o] \in Seq(Seq(D))
  BY LogParts, ChainAssumption
<1>2. /\ n \in 0..Len(parts[o]) /\ n + 1 \in 1..Len(parts[o]) /\ (n + 1) - 1 = n
      /\ o - 1 \in 0..LastBlock
  BY <1>1 DEF Blocks
<1>3. u \in Seq(D) /\ v \in Seq(D) /\ x \in Seq(D)
  <2>1. u \in Seq(D) /\ v \in Seq(D)
    BY <1>2, LogParts, Zenon
  <2>2. x \in Seq(D)
    BY <1>1, <1>2
  <2> QED
    BY <2>1, <2>2
<1>4. ConcatUpTo(parts[o])[n + 1] = v \o x
  <2>1. \A k \in 1..Len(parts[o]) :
          ConcatUpTo(parts[o])[k] = ConcatUpTo(parts[o])[k - 1] \o parts[o][k]
    BY LogParts, Zenon
  <2>2. ConcatUpTo(parts[o])[n + 1] = ConcatUpTo(parts[o])[(n + 1) - 1] \o parts[o][n + 1]
    BY <1>2, <2>1, Zenon
  <2> QED
    BY <1>2, <2>2, Zenon
<1>5. LogAt(parts, o, n) = u \o v
  BY Zenon DEF LogAt
<1>6. LogAt(parts, o, n + 1) = u \o (v \o x)
  BY <1>4, Zenon DEF LogAt
<1> HIDE DEF u, v, x
<1>7. (u \o v) \o x = u \o (v \o x)
  BY <1>3
<1>8. u \o v \in Seq(D)
  BY <1>3
<1> QED
  BY <1>3, <1>5, <1>6, <1>7, <1>8, Zenon DEF x

\* From the end of a block to the start of the next.
LEMMA LogBlock ==
    ASSUME NEW D, NEW parts \in [Blocks -> Seq(Seq(D))], NEW o \in Blocks
    PROVE  LogAt(parts, o, Len(parts[o])) = LogAt(parts, o + 1, 0)
<1> DEFINE u == ConcatUpTo(Whole(parts))[o - 1]
           w == ConcatUpTo(Whole(parts))[o]
<1>1. LastBlock \in Nat /\ o \in 0..LastBlock /\ (o + 1) - 1 = o
  BY ChainAssumption DEF Blocks
<1>2. w = u \o Concat(parts[o]) /\ w \in Seq(D)
  BY <1>1, LogParts, Zenon
<1>3. LogAt(parts, o, Len(parts[o])) = u \o Concat(parts[o])
  BY Zenon DEF LogAt, Concat
<1>4. LogAt(parts, o + 1, 0) = w \o << >>
  BY <1>1, LogParts, Zenon DEF LogAt
<1> HIDE DEF u, w
<1>5. w \o << >> = w
  BY <1>2
<1> QED
  BY <1>2, <1>3, <1>4, <1>5, Zenon

\* The whole log, and that every log on the way is a beginning of it.
LEMMA LogEnd ==
    ASSUME NEW D, NEW parts \in [Blocks -> Seq(Seq(D))], NEW n
    PROVE  /\ LogAt(parts, LastBlock + 1, n) = All(parts)
           /\ All(parts) \in Seq(D)
<1> DEFINE w == ConcatUpTo(Whole(parts))[LastBlock]
<1>1. LastBlock \in Nat /\ (LastBlock + 1) - 1 = LastBlock /\ LastBlock + 1 \notin Blocks
  BY ChainAssumption DEF Blocks
<1>2. w = All(parts) /\ All(parts) \in Seq(D)
  BY LogParts, Zenon
<1>3. LogAt(parts, LastBlock + 1, n) = w \o << >>
  BY <1>1, Zenon DEF LogAt
<1> HIDE DEF w
<1>4. w \o << >> = w
  BY <1>2
<1> QED
  BY <1>2, <1>3, <1>4, Zenon

LEMMA LogBegins ==
    ASSUME NEW D, NEW parts \in [Blocks -> Seq(Seq(D))],
           NEW o \in Blocks, NEW n \in 0..Len(parts[o])
    PROVE  Begins(LogAt(parts, o, n), All(parts)) /\ LogAt(parts, o, n) \in Seq(D)
<1> DEFINE u == ConcatUpTo(Whole(parts))[o - 1]
           v == ConcatUpTo(parts[o])[n]
           t == Concat(parts[o])
<1>1. LastBlock \in Nat /\ o - 1 \in 0..LastBlock /\ o \in 0..LastBlock
  BY ChainAssumption DEF Blocks
<1>2. /\ u \in Seq(D) /\ v \in Seq(D) /\ t \in Seq(D) /\ Begins(v, t)
  BY <1>1, LogParts, Zenon
<1>3. Begins(u \o t, All(parts)) /\ All(parts) \in Seq(D)
  BY <1>1, LogParts, Zenon
<1>4. LogAt(parts, o, n) = u \o v
  BY Zenon DEF LogAt
<1> HIDE DEF u, v, t
<1>5. Begins(u \o v, u \o t)
  BY <1>2, BeginsConcat
<1>6. u \o v \in Seq(D) /\ u \o t \in Seq(D)
  BY <1>2
<1>7. Begins(u \o v, All(parts))
  BY <1>3, <1>5, <1>6, BeginsTransitive, Zenon
<1> QED
  BY <1>4, <1>6, <1>7, Zenon

-----------------------------------------------------------------------------
(***************************************************************************)
(* The answers that the inbox calls for.                                   *)
(***************************************************************************)

ValidityPart(d) ==
    IF IsCommitment(d)
    THEN <<[cert |-> Parse(d), valid |-> Valid[Parse(d)]]>> ELSE << >>

PayloadPart(d, b) ==
    IF IsCommitment(d) /\ Verdict(Parse(d), Valid[Parse(d)], b) = "payload"
    THEN <<[cert |-> Parse(d), payload |-> BlobOf[Parse(d)]]>> ELSE << >>

ValidityParts ==
    [b \in Blocks |-> [k \in 1..Len(chain[b]) |-> ValidityPart(chain[b][k])]]

PayloadParts ==
    [b \in Blocks |-> [k \in 1..Len(chain[b]) |-> PayloadPart(chain[b][k], b)]]

\* The answers given so far: the validity of the item being dealt with is
\* known while its payload is asked for.
Asked == IF pc = "payload" THEN Settled(origin) + 1 ELSE Settled(origin)

ValidityLog == LogAt(ValidityParts, origin, Asked)
PayloadLog == LogAt(PayloadParts, origin, Settled(origin))

LEMMA PartsType ==
    ASSUME TypeOK
    PROVE  /\ ValidityParts \in [Blocks -> Seq(Seq(ValidityEntry))]
           /\ PayloadParts \in [Blocks -> Seq(Seq(PayloadEntry))]
           /\ \A b \in Blocks :
                /\ Len(chain[b]) \in Nat
                /\ Len(ValidityParts[b]) = Len(chain[b])
                /\ Len(PayloadParts[b]) = Len(chain[b])
                /\ \A k \in 1..Len(chain[b]) :
                     /\ ValidityParts[b][k] = ValidityPart(chain[b][k])
                     /\ PayloadParts[b][k] = PayloadPart(chain[b][k], b)
<1>1. ASSUME NEW d \in Calldata, NEW b
      PROVE  /\ ValidityPart(d) \in Seq(ValidityEntry)
             /\ PayloadPart(d, b) \in Seq(PayloadEntry)
  <2>1. CASE IsCommitment(d)
    <3>1. Parse(d) \in Certs
      BY <2>1, ParseType
    <3>2. /\ [cert |-> Parse(d), valid |-> Valid[Parse(d)]] \in ValidityEntry
          /\ [cert |-> Parse(d), payload |-> BlobOf[Parse(d)]] \in PayloadEntry
      BY <3>1, ProviderAssumption DEF ValidityEntry, PayloadEntry
    <3> QED
      BY <2>1, <3>2 DEF ValidityPart, PayloadPart
  <2>2. CASE ~IsCommitment(d)
    BY <2>2 DEF ValidityPart, PayloadPart
  <2> QED
    BY <2>1, <2>2
<1>2. ASSUME NEW b \in Blocks
      PROVE  /\ Len(chain[b]) \in Nat
             /\ ValidityParts[b] = [k \in 1..Len(chain[b]) |-> ValidityPart(chain[b][k])]
             /\ PayloadParts[b] = [k \in 1..Len(chain[b]) |-> PayloadPart(chain[b][k], b)]
             /\ ValidityParts[b] \in Seq(Seq(ValidityEntry))
             /\ PayloadParts[b] \in Seq(Seq(PayloadEntry))
  <2>1. Len(chain[b]) \in Nat /\ \A k \in 1..Len(chain[b]) : chain[b][k] \in Calldata
    BY ChainAssumption DEF TypeOK
  <2>2. /\ ValidityParts[b] = [k \in 1..Len(chain[b]) |-> ValidityPart(chain[b][k])]
        /\ PayloadParts[b] = [k \in 1..Len(chain[b]) |-> PayloadPart(chain[b][k], b)]
    BY DEF ValidityParts, PayloadParts
  <2>3. \A k \in 1..Len(chain[b]) :
           /\ ValidityPart(chain[b][k]) \in Seq(ValidityEntry)
           /\ PayloadPart(chain[b][k], b) \in Seq(PayloadEntry)
    BY <1>1, <2>1
  <2> QED
    BY <2>1, <2>2, <2>3
<1>3. /\ ValidityParts \in [Blocks -> Seq(Seq(ValidityEntry))]
      /\ PayloadParts \in [Blocks -> Seq(Seq(PayloadEntry))]
  <2>1. /\ ValidityParts = [b \in Blocks |-> ValidityParts[b]]
        /\ PayloadParts = [b \in Blocks |-> PayloadParts[b]]
    BY DEF ValidityParts, PayloadParts
  <2> QED
    BY <1>2, <2>1
<1>4. ASSUME NEW b \in Blocks
      PROVE  /\ Len(chain[b]) \in Nat
             /\ Len(ValidityParts[b]) = Len(chain[b])
             /\ Len(PayloadParts[b]) = Len(chain[b])
             /\ \A k \in 1..Len(chain[b]) :
                  /\ ValidityParts[b][k] = ValidityPart(chain[b][k])
                  /\ PayloadParts[b][k] = PayloadPart(chain[b][k], b)
  <2> DEFINE vp == ValidityParts[b]
             pp == PayloadParts[b]
  <2>1. /\ Len(chain[b]) \in Nat
        /\ vp = [k \in 1..Len(chain[b]) |-> ValidityPart(chain[b][k])]
        /\ pp = [k \in 1..Len(chain[b]) |-> PayloadPart(chain[b][k], b)]
        /\ vp \in Seq(Seq(ValidityEntry))
        /\ pp \in Seq(Seq(PayloadEntry))
    BY <1>2
  <2> HIDE DEF vp, pp
  <2>2. Len(vp) = Len(chain[b]) /\ Len(pp) = Len(chain[b])
    BY <2>1
  <2>3. \A k \in 1..Len(chain[b]) : /\ vp[k] = ValidityPart(chain[b][k])
                                     /\ pp[k] = PayloadPart(chain[b][k], b)
    BY <2>1
  <2> QED
    BY <2>1, <2>2, <2>3 DEF vp, pp
<1> QED
  BY <1>3, <1>4

\* The inbox does not change.
LEMMA PartsFixed ==
    ASSUME chain' = chain
    PROVE  ValidityParts' = ValidityParts /\ PayloadParts' = PayloadParts
  BY DEF ValidityParts, PayloadParts, Blocks

LEMMA SettledRange ==
    ASSUME IndInv, origin \in Blocks
    PROVE  Settled(origin) \in 0..Len(chain[origin]) /\ Len(chain[origin]) \in Nat
<1>1. Len(chain[origin]) \in Nat
  BY ChainAssumption DEF IndInv, TypeOK
<1>2. CASE eth.open
  BY <1>1, <1>2 DEF IndInv, SourceInv, HeldCommitmentIsCurrent, Settled, Blocks
<1>3. CASE ~eth.open
  BY <1>1, <1>3 DEF IndInv, Settled, Blocks
<1> QED
  BY <1>1, <1>2, <1>3

\* Settling the next item of the block adds its part to a log.
LEMMA NextItem ==
    ASSUME IndInv, origin \in Blocks, NEW n \in Nat, n + 1 \in 1..Len(chain[origin])
    PROVE  /\ LogAt(ValidityParts, origin, n + 1)
                = LogAt(ValidityParts, origin, n) \o ValidityPart(chain[origin][n + 1])
           /\ LogAt(PayloadParts, origin, n + 1)
                = LogAt(PayloadParts, origin, n)
                    \o PayloadPart(chain[origin][n + 1], origin)
           /\ LogAt(ValidityParts, origin, n) \in Seq(ValidityEntry)
           /\ LogAt(PayloadParts, origin, n) \in Seq(PayloadEntry)
<1> DEFINE N == Len(chain[origin])
<1>1. /\ ValidityParts \in [Blocks -> Seq(Seq(ValidityEntry))]
      /\ PayloadParts \in [Blocks -> Seq(Seq(PayloadEntry))]
      /\ N \in Nat
      /\ Len(ValidityParts[origin]) = N
      /\ Len(PayloadParts[origin]) = N
      /\ ValidityParts[origin][n + 1] = ValidityPart(chain[origin][n + 1])
      /\ PayloadParts[origin][n + 1] = PayloadPart(chain[origin][n + 1], origin)
  BY PartsType DEF IndInv
<1>3. /\ n + 1 \in 1..Len(ValidityParts[origin])
      /\ n + 1 \in 1..Len(PayloadParts[origin])
  BY <1>1
<1> HIDE DEF N
<1>6. ASSUME NEW D, NEW parts \in [Blocks -> Seq(Seq(D))],
             n + 1 \in 1..Len(parts[origin])
      PROVE  /\ LogAt(parts, origin, n + 1)
                  = LogAt(parts, origin, n) \o parts[origin][n + 1]
             /\ LogAt(parts, origin, n) \in Seq(D)
  BY <1>6, LogItem, Zenon
<1>4. /\ LogAt(ValidityParts, origin, n + 1)
           = LogAt(ValidityParts, origin, n) \o ValidityParts[origin][n + 1]
      /\ LogAt(ValidityParts, origin, n) \in Seq(ValidityEntry)
  BY <1>1, <1>3, <1>6, Zenon
<1>5. /\ LogAt(PayloadParts, origin, n + 1)
           = LogAt(PayloadParts, origin, n) \o PayloadParts[origin][n + 1]
      /\ LogAt(PayloadParts, origin, n) \in Seq(PayloadEntry)
  BY <1>1, <1>3, <1>6, Zenon
<1> QED
  BY <1>1, <1>4, <1>5, Zenon

-----------------------------------------------------------------------------
(***************************************************************************)
(* How the steps of the data source move along the logs.                   *)
(***************************************************************************)

\* Neither the position nor the phase changes as far as the logs go.
LEMMA LogsStay ==
    ASSUME UNCHANGED <<chain, origin>>, Settled(origin)' = Settled(origin),
           Asked' = Asked
    PROVE  ValidityLog' = ValidityLog /\ PayloadLog' = PayloadLog
  BY PartsFixed, Zenon DEF ValidityLog, PayloadLog

\* A step that leaves the position alone outside the payload phase.
LEMMA SamePosition ==
    ASSUME UNCHANGED <<chain, origin, eth, altda_commitment>>,
           pc # "payload", pc' # "payload"
    PROVE  ValidityLog' = ValidityLog /\ PayloadLog' = PayloadLog
<1>1. Settled(origin)' = Settled(origin)
  BY DEF Settled
<1>2. Asked' = Asked
  BY <1>1 DEF Asked
<1> QED
  BY <1>1, <1>2, LogsStay

\* An item that is not a commitment is passed without a question.
LEMMA ItemWithoutQuestion ==
    ASSUME IndInv, pc = "eth", EthPop, pc' = "idle", altda_commitment' = NoCert,
           UNCHANGED <<chain, origin>>, ~IsCommitment(EthItem)
    PROVE  ValidityLog' = ValidityLog /\ PayloadLog' = PayloadLog
<1> DEFINE n == Settled(origin)
           d == chain[origin][n + 1]
<1>1. /\ origin \in Blocks
      /\ n \in Nat
      /\ eth' = [open |-> TRUE, block |-> origin, popped |-> n + 1]
      /\ n + 1 \in 1..Len(chain[origin])
      /\ EthItem = d
  BY PopPosition
<1>2. Settled(origin)' = n + 1
  BY <1>1 DEF Settled, Blocks
<1>3. Asked = n /\ Asked' = n + 1
  BY <1>2 DEF Asked
<1>4. ValidityPart(d) = << >> /\ PayloadPart(d, origin) = << >>
  BY <1>1 DEF ValidityPart, PayloadPart
<1> HIDE DEF n, d
<1>5. /\ LogAt(ValidityParts, origin, n + 1)
           = LogAt(ValidityParts, origin, n) \o ValidityPart(d)
      /\ LogAt(PayloadParts, origin, n + 1)
           = LogAt(PayloadParts, origin, n) \o PayloadPart(d, origin)
      /\ LogAt(ValidityParts, origin, n) \in Seq(ValidityEntry)
      /\ LogAt(PayloadParts, origin, n) \in Seq(PayloadEntry)
  BY <1>1, NextItem DEF d
<1>6. ASSUME NEW D, NEW s \in Seq(D) PROVE s \o << >> = s
  OBVIOUS
<1>7. /\ LogAt(ValidityParts, origin, n + 1) = LogAt(ValidityParts, origin, n)
      /\ LogAt(PayloadParts, origin, n + 1) = LogAt(PayloadParts, origin, n)
  BY <1>4, <1>5, <1>6, Zenon
<1> QED
  BY <1>2, <1>3, <1>7, PartsFixed, Zenon DEF ValidityLog, PayloadLog, n

\* The steps between two answers.
LEMMA NoAnswer ==
    ASSUME IndInv, pc # "payload", pc' # "halted",
           \/ NextCall
           \/ EthStep
           \/ \E kind \in ErrorKind : EthError(kind) \/ ProviderError(kind)
    PROVE  ValidityLog' = ValidityLog /\ PayloadLog' = PayloadLog
<1>1. CASE NextCall
  BY <1>1, SamePosition DEF NextCall
<1>2. CASE \E kind \in ErrorKind : EthError(kind) \/ ProviderError(kind)
  BY <1>2, SamePosition DEF EthError, ProviderError, Fail
<1>3. CASE EthEof
  <2> DEFINE N == Len(chain[origin])
  <2>1. /\ origin \in Blocks
        /\ Settled(origin) = N
  BY <1>3, EthPosition DEF IndInv, EthEof, EthExhausted
  <2>2. Asked = N
    BY <1>3, <2>1 DEF Asked, EthEof
  <2>3. origin' = origin + 1 /\ chain' = chain /\ Settled(origin)' = 0 /\ Asked' = 0
    BY <1>3 DEF EthEof, Clear, EthClosed, Settled, Asked
  <2>4. /\ ValidityParts \in [Blocks -> Seq(Seq(ValidityEntry))]
        /\ PayloadParts \in [Blocks -> Seq(Seq(PayloadEntry))]
        /\ Len(ValidityParts[origin]) = N
        /\ Len(PayloadParts[origin]) = N
    BY <2>1, PartsType DEF IndInv
  <2> HIDE DEF N
  <2>5. /\ LogAt(ValidityParts, origin, N) = LogAt(ValidityParts, origin + 1, 0)
        /\ LogAt(PayloadParts, origin, N) = LogAt(PayloadParts, origin + 1, 0)
    BY <2>1, <2>4, LogBlock, Zenon
  <2> QED
    BY <2>1, <2>2, <2>3, <2>5, PartsFixed, Zenon DEF ValidityLog, PayloadLog
<1>4. CASE EthSkip
  <2>1. altda_commitment = NoCert /\ ~IsCommitment(EthItem)
    BY <1>4 DEF EthSkip, IndInv, SourceInv, IsCommitment, IsMalformed
  <2> QED
    BY <1>4, <2>1, ItemWithoutQuestion DEF EthSkip
<1>5. CASE EthRaw
  <2>1. altda_commitment = NoCert /\ ~IsCommitment(EthItem)
    BY <1>5 DEF EthRaw, IndInv, SourceInv, IsCommitment
  <2> QED
    BY <1>5, <2>1, ItemWithoutQuestion DEF EthRaw, Return
<1>6. CASE EthCommitment
  <2>1. /\ origin \in Blocks
        /\ Settled(origin) \in Nat
        /\ eth' = [open |-> TRUE, block |-> origin, popped |-> Settled(origin) + 1]
        /\ EthItem \in Calldata
    BY <1>6, PopPosition DEF EthCommitment
  <2>2. altda_commitment' # NoCert
    BY <1>6, <2>1, ParseType, CertsAssumption DEF EthCommitment
  <2>3. Settled(origin)' = Settled(origin) /\ Asked' = Asked
    BY <1>6, <2>1, <2>2 DEF EthCommitment, Settled, Asked, Blocks
  <2> QED
    BY <1>6, <2>3, LogsStay DEF EthCommitment
<1> QED
  BY <1>1, <1>2, <1>3, <1>4, <1>5, <1>6 DEF EthStep

\* get_validity answers: the answer is the next one of its log.
LEMMA ValidityAnswer ==
    ASSUME IndInv, OnValidity(Valid[altda_commitment]), pc' # "halted"
    PROVE  /\ ValidityLog' = ValidityLog \o
                <<[cert |-> altda_commitment, valid |-> Valid[altda_commitment]]>>
           /\ PayloadLog' = PayloadLog
<1> DEFINE c == altda_commitment
           n == Settled(origin)
           d == chain[origin][n + 1]
           x == [cert |-> c, valid |-> Valid[c]]
<1>0. pc = "validity" /\ c # NoCert /\ UNCHANGED <<chain, origin, eth>>
  BY DEF OnValidity, IndInv, SourceInv
<1>1. /\ origin \in Blocks
      /\ n \in Nat
      /\ eth.open
      /\ eth.popped = n + 1
      /\ IsCommitment(d)
      /\ Parse(d) = c
  BY <1>0, HeldPosition
<1>2. n + 1 \in 1..Len(chain[origin])
  BY <1>0, <1>1 DEF IndInv, HeldCommitmentIsCurrent
<1>3. ValidityPart(d) = <<x>>
  BY <1>1 DEF ValidityPart
<1>4. Asked = n
  BY <1>0 DEF Asked
<1> HIDE DEF n, d, x
<1>5. /\ LogAt(ValidityParts, origin, n + 1)
           = LogAt(ValidityParts, origin, n) \o ValidityPart(d)
      /\ LogAt(PayloadParts, origin, n + 1)
           = LogAt(PayloadParts, origin, n) \o PayloadPart(d, origin)
      /\ LogAt(PayloadParts, origin, n) \in Seq(PayloadEntry)
  BY <1>1, <1>2, NextItem DEF d
<1>6. Asked' = n + 1
  BY <1>0, <1>1 DEF OnValidity, Discard, Fail, Asked, Settled, Blocks, n
<1>7. ValidityLog' = ValidityLog \o <<x>>
  BY <1>0, <1>3, <1>4, <1>5, <1>6, PartsFixed, Zenon DEF ValidityLog
<1>8. PayloadLog' = PayloadLog
  <2>1. CASE pc' = "payload"
    <3>1. altda_commitment' = altda_commitment
      BY <2>1 DEF OnValidity, Discard, Fail
    <3>2. Settled(origin)' = Settled(origin)
      BY <1>0, <3>1 DEF Settled
    <3> QED
      BY <1>0, <3>2, PartsFixed, Zenon DEF PayloadLog
  <2>2. CASE pc' # "payload"
    <3>1. Verdict(c, Valid[c], origin) # "payload"
      BY <2>2 DEF OnValidity, Discard, Fail, Verdict
    <3>2. PayloadPart(d, origin) = << >>
      BY <1>1, <3>1 DEF PayloadPart
    <3>3. Settled(origin)' = n + 1
      BY <1>6, <2>2 DEF Asked
    <3>4. ASSUME NEW s \in Seq(PayloadEntry) PROVE s \o << >> = s
      OBVIOUS
    <3>5. LogAt(PayloadParts, origin, n + 1) = LogAt(PayloadParts, origin, n)
      BY <1>5, <3>2, <3>4, Zenon
    <3> QED
      BY <1>0, <3>3, <3>5, PartsFixed, Zenon DEF PayloadLog, n
  <2> QED
    BY <2>1, <2>2
<1> QED
  BY <1>7, <1>8 DEF x

\* get_encoded_payload answers, likewise.
LEMMA PayloadAnswer ==
    ASSUME IndInv, OnPayload(BlobOf[altda_commitment])
    PROVE  /\ PayloadLog' = PayloadLog \o
                <<[cert |-> altda_commitment, payload |-> BlobOf[altda_commitment]]>>
           /\ ValidityLog' = ValidityLog
<1> DEFINE c == altda_commitment
           n == Settled(origin)
           d == chain[origin][n + 1]
           x == [cert |-> c, payload |-> BlobOf[c]]
<1>0. /\ pc = "payload" /\ c # NoCert /\ UNCHANGED <<chain, origin>>
      /\ Verdict(c, Valid[c], origin) = "payload"
      /\ eth' = eth /\ altda_commitment' = NoCert /\ pc' # "payload"
  BY DEF OnPayload, IndInv, SourceInv, Return, Discard
<1>1. /\ origin \in Blocks
      /\ n \in Nat
      /\ eth.open
      /\ eth.popped = n + 1
      /\ IsCommitment(d)
      /\ Parse(d) = c
  BY <1>0, HeldPosition
<1>2. n + 1 \in 1..Len(chain[origin])
  BY <1>0, <1>1 DEF IndInv, HeldCommitmentIsCurrent
<1>3. PayloadPart(d, origin) = <<x>>
  BY <1>0, <1>1 DEF PayloadPart
<1>4. Asked = n + 1
  BY <1>0 DEF Asked
<1> HIDE DEF n, d, x
<1>5. LogAt(PayloadParts, origin, n + 1)
        = LogAt(PayloadParts, origin, n) \o PayloadPart(d, origin)
  BY <1>1, <1>2, NextItem DEF d
<1>6. Settled(origin)' = n + 1
  BY <1>0, <1>1 DEF Settled, Blocks
<1>7. Asked' = n + 1
  BY <1>0, <1>6 DEF Asked
<1>8. PayloadLog' = PayloadLog \o <<x>>
  BY <1>0, <1>3, <1>5, <1>6, PartsFixed, Zenon DEF PayloadLog, n
<1>9. ValidityLog' = ValidityLog
  BY <1>0, <1>4, <1>7, PartsFixed, Zenon DEF ValidityLog
<1> QED
  BY <1>8, <1>9 DEF x

-----------------------------------------------------------------------------
(***************************************************************************)
(* The inductive invariant.                                                *)
(***************************************************************************)

RoundTypes ==
    /\ witness \in EigenDAWitness
    /\ validity_entries \in Seq(ValidityEntry)
    /\ encoded_payload_entries \in Seq(PayloadEntry)
    /\ stage \in {"witgen", "aborted", "load", "derive", "panicked"}
    /\ preimage \in [validities : Seq(ValidityEntry),
                     encoded_payloads : Seq(PayloadEntry)]
    /\ first_out \in [Blocks -> Seq(Entry)]

\* What the recording provider has pushed is true, and a payload was asked
\* for only when its certificate was valid.
RecordIsTrue ==
    /\ \A i \in DOMAIN preimage.validities :
         preimage.validities[i].valid = Valid[preimage.validities[i].cert]
    /\ \A i \in DOMAIN preimage.encoded_payloads :
         /\ preimage.encoded_payloads[i].payload
              = BlobOf[preimage.encoded_payloads[i].cert]
         /\ Valid[preimage.encoded_payloads[i].cert]

\* The validity of a certificate is recorded before its payload.
WitgenInv ==
    stage = "witgen" =>
        /\ resets = 0
        /\ Len(preimage.validities)
             >= Len(preimage.encoded_payloads) + (IF pc = "payload" THEN 1 ELSE 0)

LoadInv ==
    stage = "load" =>
        /\ Init
        /\ witness = FromPreimage(preimage, KzgProofs(preimage),
                                  CanoeProof(preimage.validities))
        /\ Accepts(witness) <=> ~AtInfinity(witness.encoded_payloads)

FirstOutInv ==
    stage \in {"load", "derive"} =>
        \A b \in Blocks : DerivedFrom(chain[b], first_out[b], Len(chain[b]), b)

BaseInv ==
    /\ IndInv
    /\ RoundTypes
    /\ EntriesAreTrue
    /\ RecordIsTrue
    /\ WitgenInv
    /\ LoadInv
    /\ FirstOutInv

\* No answer is recorded twice: what the log says of the inbox so far.
RecordIsLog ==
    stage = "witgen" /\ pc # "halted" =>
        /\ preimage.validities = ValidityLog
        /\ preimage.encoded_payloads = PayloadLog

RecordIsComplete ==
    stage = "load" =>
        /\ preimage.validities = All(ValidityParts)
        /\ preimage.encoded_payloads = All(PayloadParts)

\* The stack holds the rest of the answers, the next one on top.
RestOf(stack, log, all) ==
    /\ Len(log) + Len(stack) = Len(all)
    /\ \A i \in 1..Len(stack) : stack[i] = all[(Len(all) + 1) - i]

StacksInv ==
    stage = "derive" /\ pc # "halted" =>
        /\ RestOf(validity_entries, ValidityLog, All(ValidityParts))
        /\ RestOf(encoded_payload_entries, PayloadLog, All(PayloadParts))

RoundInv ==
    /\ BaseInv
    /\ RecordIsLog
    /\ RecordIsComplete
    /\ StacksInv
    /\ PanicsExactlyAtInfinity

LEMMA RoundInitInv == RoundTripInit => RoundInv
<1> SUFFICES ASSUME RoundTripInit
             PROVE  RoundInv
  OBVIOUS
<1> USE DEF RoundTripInit
<1>1. IndInv /\ TypeOK
  BY InitInv DEF IndInv
<1>2. RoundTypes
  <2>1. EmptyWitness \in EigenDAWitness
    BY DEF EmptyWitness, EigenDAWitness
  <2>2. EmptyPreimage \in [validities : Seq(ValidityEntry),
                           encoded_payloads : Seq(PayloadEntry)]
    BY DEF EmptyPreimage
  <2> QED
    BY <1>1, <2>1, <2>2 DEF RoundTypes, TypeOK
<1>3. /\ preimage.validities = << >>
      /\ preimage.encoded_payloads = << >>
      /\ origin = 1 /\ pc = "idle" /\ resets = 0 /\ eth = EthClosed
  BY DEF EmptyPreimage, Init
<1>4. EntriesAreTrue /\ RecordIsTrue /\ WitgenInv /\ LoadInv /\ FirstOutInv
  BY <1>3 DEF EntriesAreTrue, RecordIsTrue, WitgenInv, LoadInv, FirstOutInv
<1>5. Settled(origin) = 0 /\ Asked = 0
  BY <1>3 DEF Settled, Asked, EthClosed
<1>6. ValidityLog = << >> /\ PayloadLog = << >>
  BY <1>1, <1>3, <1>5, PartsType, LogStart, Zenon DEF ValidityLog, PayloadLog
<1>7. RecordIsLog /\ RecordIsComplete /\ StacksInv /\ PanicsExactlyAtInfinity
  BY <1>3, <1>6 DEF RecordIsLog, RecordIsComplete, StacksInv, PanicsExactlyAtInfinity
<1> QED
  BY <1>1, <1>2, <1>4, <1>7 DEF RoundInv, BaseInv

\* Every step is one of the data source, or starts the pipeline afresh.
LEMMA RoundSourceStep ==
    ASSUME BaseInv, [RoundTripNext]_round_trip_vars, ~PrepareWitness
    PROVE  [Next]_vars
<1>1. CASE WitgenStep
  BY <1>1 DEF WitgenStep, RecordValidity, RecordPayload, WrappedError, Next
<1>2. CASE AbortWitgen \/ RoundTripDone \/ UNCHANGED round_trip_vars
  BY <1>2 DEF AbortWitgen, RoundTripDone, round_trip_vars, replay_vars
<1>3. CASE SecondPass
  <2>1. CASE FromWitness \/ RejectWitness \/ PanicOnRequest
    BY <2>1 DEF FromWitness, RejectWitness, PanicOnRequest
  <2>2. CASE GetValidity \/ GetEncodedPayload
    BY <2>2, ServedAnswerIsTrue DEF BaseInv, RoundTypes, Next
  <2>3. CASE PipelineStep
    BY <2>3 DEF PipelineStep, Next
  <2> QED
    BY <1>3, <2>1, <2>2, <2>3 DEF SecondPass
<1> QED
  BY <1>1, <1>2, <1>3 DEF RoundTripNext

\* At the end of the pass the source is as it was at the start, and every
\* block is dealt with.
LEMMA FinishedSource ==
    ASSUME IndInv, Finished
    PROVE  /\ eth = EthClosed
           /\ altda_commitment = NoCert
           /\ cause = "none"
           /\ \A b \in Blocks : DerivedFrom(chain[b], out[b], Len(chain[b]), b)
<1>1. origin = LastBlock + 1 /\ pc = "idle" /\ LastBlock \in Nat /\ origin \notin Blocks
  BY ChainAssumption DEF Finished, Blocks
<1>2. eth = EthClosed /\ altda_commitment = NoCert /\ cause = "none"
  BY <1>1 DEF IndInv, SourceInv, HeldCommitmentIsCurrent
<1>3. \A b \in Blocks : Settled(b) = Len(chain[b])
  BY <1>1 DEF Settled, Blocks
<1> QED
  BY <1>2, <1>3 DEF IndInv, DerivedExactly

\* prepare_witness makes a witness that from_witness accepts, unless the
\* proof of one of its payloads is the point at infinity.
LEMMA PreparedWitness ==
    ASSUME NEW p \in [validities : Seq(ValidityEntry),
                      encoded_payloads : Seq(PayloadEntry)],
           \A i \in DOMAIN p.validities :
             p.validities[i].valid = Valid[p.validities[i].cert],
           \A i \in DOMAIN p.encoded_payloads :
             /\ p.encoded_payloads[i].payload = BlobOf[p.encoded_payloads[i].cert]
             /\ Valid[p.encoded_payloads[i].cert],
           Len(p.validities) >= Len(p.encoded_payloads),
           Router[TrustedL1] # NoAddress \/ p.validities = << >>
    PROVE  LET w == FromPreimage(p, KzgProofs(p), CanoeProof(p.validities))
           IN  /\ w \in EigenDAWitness
               /\ Accepts(w) <=> ~AtInfinity(w.encoded_payloads)
<1> DEFINE vs == p.validities
           ps == p.encoded_payloads
           ks == KzgProofs(p)
           cp == CanoeProof(vs)
           es == [i \in DOMAIN ps |-> [cert |-> ps[i].cert, payload |-> ps[i].payload,
                                       proof |-> ks[i]]]
           w == FromPreimage(p, ks, cp)
<1>1. vs \in Seq(ValidityEntry) /\ ps \in Seq(PayloadEntry)
  OBVIOUS
<1>2. w = [validities |-> vs, encoded_payloads |-> es, canoe_proof |-> cp]
  BY DEF FromPreimage
<1>3. ASSUME NEW i \in DOMAIN ps
      PROVE  /\ ps[i].cert \in Certs
             /\ ps[i].payload \in Payloads
             /\ ks[i] = ps[i].payload
             /\ NumFE[ps[i].payload] = ps[i].cert.length
             /\ Commit[ps[i].payload] = ps[i].cert.kzg
  <2>1. ps[i] \in PayloadEntry
    BY <1>1
  <2>2. ps[i].cert \in Certs /\ ps[i].payload \in Payloads
    BY <2>1 DEF PayloadEntry
  <2>3. ks[i] = ps[i].payload
    BY DEF KzgProofs
  <2> QED
    BY <2>2, <2>3, DispersalAssumption
<1> HIDE DEF vs, ps, ks, cp
<1>4. /\ es \in Seq(ProvenPayload) /\ Len(es) = Len(ps)
      /\ DOMAIN es = DOMAIN ps
      /\ \A i \in DOMAIN ps : es[i].cert = ps[i].cert /\ es[i].payload = ps[i].payload
                              /\ es[i].proof = ps[i].payload
  <2> DEFINE L == Len(ps)
  <2>1. L \in Nat /\ DOMAIN ps = 1..L
    BY <1>1
  <2>2. ASSUME NEW i \in 1..L
        PROVE  /\ es[i].cert = ps[i].cert /\ es[i].payload = ps[i].payload
               /\ es[i].proof = ps[i].payload
               /\ es[i] \in ProvenPayload
    BY <1>3, <2>1 DEF ProvenPayload
  <2>3. es = [i \in 1..L |-> es[i]]
    BY <2>1
  <2> HIDE DEF es, L
  <2>4. es \in Seq(ProvenPayload) /\ Len(es) = L
    BY <2>1, <2>2, <2>3
  <2>5. DOMAIN es = 1..L
    BY <2>1, <2>4
  <2> QED
    BY <2>1, <2>2, <2>4, <2>5 DEF L
<1>5. LengthsMatch(es) /\ (BatchVerify(es) <=> ~AtInfinity(es))
  <2> HIDE DEF es
  <2> QED
    BY <1>3, <1>4 DEF LengthsMatch, BatchVerify
<1>6. CASE vs = << >>
  <2>1. cp = NoProof
    BY <1>6 DEF cp, vs, CanoeProof
  <2> HIDE DEF es, w
  <2>2. w \in EigenDAWitness
    BY <1>1, <1>2, <1>4, <2>1 DEF EigenDAWitness
  <2>3. w.validities = vs /\ w.encoded_payloads = es
    BY <1>2
  <2>4. Len(vs) >= Len(es)
    BY <1>4 DEF vs, ps
  <2>5. Accepts(w) <=> ~AtInfinity(w.encoded_payloads)
    BY <1>5, <1>6, <2>3, <2>4 DEF Accepts
  <2> QED
    BY <2>2, <2>5 DEF w, ks, cp, vs
<1>7. CASE vs # << >>
  <2>1. Router[TrustedL1] # NoAddress /\ Router[TrustedL1] \in Addresses
    BY <1>7, ContextAssumption DEF vs
  <2>2. ASSUME NEW i \in DOMAIN vs
        PROVE  /\ vs[i].cert \in Certs
               /\ vs[i].valid \in BOOLEAN
               /\ vs[i].valid = OnChain[[cert |-> vs[i].cert, l1 |-> TrustedL1,
                                         verifier |-> Router[TrustedL1]]]
    <3>1. vs[i] \in ValidityEntry
      BY <1>1
    <3>2. vs[i].cert \in Certs /\ vs[i].valid \in BOOLEAN
      BY <3>1 DEF ValidityEntry
    <3>3. vs[i].valid = Valid[vs[i].cert]
      BY DEF vs
    <3> QED
      BY <2>1, <3>2, <3>3, ValidityAssumption
  <2>3. cp = ToJournals(vs)
    BY <1>7, <2>2 DEF cp, CanoeProof, ToJournals
  <2>4. cp \in Seq(Journal)
    <3>1. \A i \in DOMAIN vs : [cert |-> vs[i].cert, l1 |-> TrustedL1,
              verifier |-> Router[TrustedL1], output |-> vs[i].valid] \in Journal
      BY <2>1, <2>2, ContextAssumption DEF Journal
    <3> QED
      BY <1>1, <2>3, <3>1 DEF ToJournals
  <2> HIDE DEF es, w
  <2>5. w \in EigenDAWitness
    BY <1>1, <1>2, <1>4, <2>4 DEF EigenDAWitness
  <2>6. w.validities = vs /\ w.encoded_payloads = es /\ w.canoe_proof = cp
    BY <1>2
  <2>7. Len(vs) >= Len(es)
    BY <1>4 DEF vs, ps
  <2>8. Accepts(w) <=> ~AtInfinity(w.encoded_payloads)
    BY <1>5, <2>1, <2>3, <2>6, <2>7 DEF Accepts, ValidateCertReceipt
  <2> QED
    BY <2>5, <2>8 DEF w, ks, cp, vs
<1> QED
  BY <1>6, <1>7

\* What a step of the first pass has to leave behind.
LEMMA RecordKept ==
    ASSUME BaseInv, IndInv', stage' = "witgen",
           UNCHANGED <<witness, validity_entries, encoded_payload_entries, first_out>>,
           NEW v \in Seq(ValidityEntry), NEW p \in Seq(PayloadEntry),
           preimage' = [validities |-> v, encoded_payloads |-> p],
           resets' = 0,
           Len(v) >= Len(p) + (IF pc' = "payload" THEN 1 ELSE 0),
           \A i \in 1..Len(v) : v[i].valid = Valid[v[i].cert],
           \A i \in 1..Len(p) : p[i].payload = BlobOf[p[i].cert] /\ Valid[p[i].cert]
    PROVE  BaseInv'
<1>1. EntriesAreTrue' /\ LoadInv' /\ FirstOutInv'
  BY DEF BaseInv, EntriesAreTrue, LoadInv, FirstOutInv
<1>2. preimage'.validities = v /\ preimage'.encoded_payloads = p
  OBVIOUS
<1>3. RoundTypes'
  BY DEF BaseInv, RoundTypes, Blocks
<1>4. WitgenInv'
  BY <1>2 DEF WitgenInv
<1>5. RecordIsTrue'
  BY <1>2 DEF RecordIsTrue
<1> QED
  BY <1>1, <1>3, <1>4, <1>5 DEF BaseInv

\* A sequence with a property of its elements, and one element more.
LEMMA AppendEach ==
    ASSUME NEW D, NEW s \in Seq(D), NEW x \in D
    PROVE  /\ Append(s, x) \in Seq(D)
           /\ Len(Append(s, x)) = Len(s) + 1
           /\ Len(s) \in Nat
           /\ \A i \in 1..Len(Append(s, x)) :
                Append(s, x)[i] = x \/ (i \in 1..Len(s) /\ Append(s, x)[i] = s[i])
  OBVIOUS

\* The first pass pushes true answers only.
LEMMA WitgenBase ==
    ASSUME BaseInv, WitgenStep
    PROVE  BaseInv'
<1> DEFINE c == altda_commitment
           vs == preimage.validities
           ps == preimage.encoded_payloads
<1>0. /\ stage = "witgen" /\ stage' = "witgen"
      /\ UNCHANGED <<witness, validity_entries, encoded_payload_entries, first_out>>
  BY DEF WitgenStep, entries
<1>1. IndInv'
  BY <1>0, RoundSourceStep, NextInv DEF BaseInv, PrepareWitness, RoundTripNext
<1>2. /\ vs \in Seq(ValidityEntry) /\ ps \in Seq(PayloadEntry)
      /\ preimage = [validities |-> vs, encoded_payloads |-> ps]
      /\ resets = 0
      /\ Len(vs) \in Nat /\ Len(ps) \in Nat
      /\ Len(vs) >= Len(ps) + (IF pc = "payload" THEN 1 ELSE 0)
      /\ \A i \in 1..Len(vs) : vs[i].valid = Valid[vs[i].cert]
      /\ \A i \in 1..Len(ps) : ps[i].payload = BlobOf[ps[i].cert] /\ Valid[ps[i].cert]
  BY <1>0 DEF BaseInv, RoundTypes, WitgenInv, RecordIsTrue
<1>3. CASE RecordValidity
  <2> DEFINE x == [cert |-> c, valid |-> Valid[c]]
             v == Append(vs, x)
  <2>1. pc = "validity" /\ c # NoCert /\ resets' = resets
    BY <1>3 DEF RecordValidity, OnValidity, BaseInv, IndInv, SourceInv
  <2>2. c \in Certs
    BY <2>1, HeldPosition DEF BaseInv
  <2>3. x \in ValidityEntry /\ x.valid = Valid[x.cert]
    BY <2>2, ProviderAssumption DEF ValidityEntry
  <2>4. preimage' = [validities |-> v, encoded_payloads |-> ps]
    BY <1>2, <1>3 DEF RecordValidity
  <2> HIDE DEF x, vs, ps
  <2>5. /\ v \in Seq(ValidityEntry)
        /\ Len(v) = Len(vs) + 1
        /\ \A i \in 1..Len(v) : v[i] = x \/ (i \in 1..Len(vs) /\ v[i] = vs[i])
    BY <1>2, <2>3, AppendEach
  <2> HIDE DEF v
  <2>6. \A i \in 1..Len(v) : v[i].valid = Valid[v[i].cert]
    BY <1>2, <2>3, <2>5
  <2>7. Len(v) >= Len(ps) + (IF pc' = "payload" THEN 1 ELSE 0)
    BY <1>2, <2>1, <2>5
  <2> QED
    BY <1>0, <1>1, <1>2, <2>1, <2>4, <2>5, <2>6, <2>7, RecordKept
<1>4. CASE RecordPayload
  <2> DEFINE x == [cert |-> c, payload |-> BlobOf[c]]
             p == Append(ps, x)
  <2>1. /\ pc = "payload" /\ c # NoCert /\ resets' = resets /\ pc' # "payload"
        /\ Verdict(c, Valid[c], origin) = "payload"
    BY <1>4 DEF RecordPayload, OnPayload, BaseInv, IndInv, SourceInv, Return, Discard
  <2>2. c \in Certs
    BY <2>1, HeldPosition DEF BaseInv
  <2>3. x \in PayloadEntry /\ x.payload = BlobOf[x.cert] /\ Valid[x.cert]
    BY <2>1, <2>2, ProviderAssumption DEF PayloadEntry, Verdict
  <2>4. preimage' = [validities |-> vs, encoded_payloads |-> p]
    BY <1>2, <1>4 DEF RecordPayload
  <2> HIDE DEF x, vs, ps
  <2>5. /\ p \in Seq(PayloadEntry)
        /\ Len(p) = Len(ps) + 1
        /\ \A i \in 1..Len(p) : p[i] = x \/ (i \in 1..Len(ps) /\ p[i] = ps[i])
    BY <1>2, <2>3, AppendEach
  <2> HIDE DEF p
  <2>6. \A i \in 1..Len(p) : p[i].payload = BlobOf[p[i].cert] /\ Valid[p[i].cert]
    BY <1>2, <2>3, <2>5
  <2>7. Len(vs) >= Len(p) + (IF pc' = "payload" THEN 1 ELSE 0)
    BY <1>2, <2>1, <2>5
  <2> QED
    BY <1>0, <1>1, <1>2, <2>1, <2>4, <2>5, <2>6, <2>7, RecordKept
<1>5. CASE \/ \E kind \in ErrorKind : WrappedError(kind)
           \/ /\ NextCall \/ EthStep \/ \E kind \in ErrorKind : EthError(kind)
              /\ UNCHANGED preimage
  <2>1. preimage' = preimage /\ resets' = resets /\ pc' # "payload"
    BY <1>5 DEF WrappedError, ProviderError, Fail, NextCall, EthError, EthStep,
                EthEof, EthSkip, EthRaw, EthCommitment, Return
  <2> HIDE DEF vs, ps
  <2>2. Len(vs) >= Len(ps) + (IF pc' = "payload" THEN 1 ELSE 0)
    BY <1>2, <2>1
  <2> QED
    BY <1>0, <1>1, <1>2, <2>1, <2>2, RecordKept
<1> QED
  BY <1>3, <1>4, <1>5 DEF WitgenStep

\* prepare_witness starts the second pass on a witness that will be accepted,
\* unless it holds a proof at infinity.
LEMMA PrepareBase ==
    ASSUME BaseInv, PrepareWitness
    PROVE  BaseInv'
<1> USE DEF PrepareWitness
<1>1. /\ eth = EthClosed /\ altda_commitment = NoCert /\ cause = "none"
      /\ \A b \in Blocks : DerivedFrom(chain[b], out[b], Len(chain[b]), b)
      /\ pc = "idle"
  BY FinishedSource DEF BaseInv, Finished
<1>2. resets = 0 /\ Len(preimage.validities) >= Len(preimage.encoded_payloads)
  BY <1>1 DEF BaseInv, WitgenInv, RoundTypes
<1>3. Init'
  BY <1>1, <1>2 DEF Init, BaseInv, IndInv, TypeOK, EthClosed, Blocks
<1>4. IndInv'
  BY <1>3, InitInv, PTL
<1>5. /\ witness' \in EigenDAWitness
      /\ Accepts(witness') <=> ~AtInfinity(witness'.encoded_payloads)
  BY <1>2, PreparedWitness DEF BaseInv, RoundTypes, RecordIsTrue
<1>6. RoundTypes'
  BY <1>5 DEF BaseInv, RoundTypes, IndInv, TypeOK, Blocks, entries
<1>7. EntriesAreTrue' /\ RecordIsTrue'
  BY DEF BaseInv, EntriesAreTrue, RecordIsTrue, entries
<1>8. WitgenInv'
  BY DEF WitgenInv
<1>9. LoadInv'
  <2>1. (Accepts(witness) <=> ~AtInfinity(witness.encoded_payloads))'
    BY <1>5 DEF Accepts, LengthsMatch, BatchVerify, ValidateCertReceipt, AtInfinity
  <2>2. (witness = FromPreimage(preimage, KzgProofs(preimage),
                                CanoeProof(preimage.validities)))'
    BY DEF FromPreimage, KzgProofs, CanoeProof
  <2> QED
    BY <1>3, <2>1, <2>2 DEF LoadInv
<1>10. FirstOutInv'
  BY <1>1 DEF FirstOutInv, Blocks
<1> QED
  BY <1>4, <1>6, <1>7, <1>8, <1>9, <1>10 DEF BaseInv

\* The stacks that from_witness fills from a prepared witness.
LEMMA FilledStacks ==
    ASSUME BaseInv, FromWitness
    PROVE  LET vs == preimage.validities
               ps == preimage.encoded_payloads
           IN  /\ vs \in Seq(ValidityEntry)
               /\ ps \in Seq(PayloadEntry)
               /\ validity_entries' \in Seq(ValidityEntry)
               /\ encoded_payload_entries' \in Seq(PayloadEntry)
               /\ Len(validity_entries') = Len(vs)
               /\ Len(encoded_payload_entries') = Len(ps)
               /\ \A i \in 1..Len(vs) :
                    /\ (Len(vs) + 1) - i \in 1..Len(vs)
                    /\ validity_entries'[i] = vs[(Len(vs) + 1) - i]
               /\ \A i \in 1..Len(ps) :
                    /\ (Len(ps) + 1) - i \in 1..Len(ps)
                    /\ encoded_payload_entries'[i] = ps[(Len(ps) + 1) - i]
<1> DEFINE vs == preimage.validities
           ps == preimage.encoded_payloads
           es == witness.encoded_payloads
           rs == Reverse(es)
<1>1. /\ stage = "load"
      /\ vs \in Seq(ValidityEntry) /\ ps \in Seq(PayloadEntry)
      /\ es \in Seq(ProvenPayload)
  BY DEF FromWitness, BaseInv, RoundTypes, EigenDAWitness
<1>2. /\ witness.validities = vs
      /\ es = [i \in DOMAIN ps |-> [cert |-> ps[i].cert, payload |-> ps[i].payload,
                                    proof |-> KzgProofs(preimage)[i]]]
  BY <1>1 DEF BaseInv, LoadInv, FromPreimage
<1>3. /\ validity_entries' = Reverse(vs)
      /\ encoded_payload_entries' = [i \in DOMAIN rs |-> DropProof(rs[i])]
  BY <1>2 DEF FromWitness
<1> HIDE DEF vs, ps, es
<1>4. ASSUME NEW D, NEW s \in Seq(D)
      PROVE  /\ Reverse(s) \in Seq(D)
             /\ Len(Reverse(s)) = Len(s)
             /\ Len(s) \in Nat
             /\ \A i \in 1..Len(s) : /\ (Len(s) + 1) - i \in 1..Len(s)
                                     /\ Reverse(s)[i] = s[(Len(s) + 1) - i]
  <2>1. Len(s) \in Nat /\ \A i \in 1..Len(s) : (Len(s) + 1) - i \in 1..Len(s)
    OBVIOUS
  <2>2. Reverse(s) = [i \in 1..Len(s) |-> s[(Len(s) - i) + 1]]
    BY DEF Reverse
  <2>3. \A i \in 1..Len(s) : (Len(s) - i) + 1 = (Len(s) + 1) - i
    BY <2>1
  <2> QED
    BY <2>1, <2>2, <2>3
<1>5. /\ Len(ps) \in Nat /\ DOMAIN ps = 1..Len(ps) /\ Len(es) = Len(ps)
      /\ \A i \in 1..Len(ps) : ps[i] \in PayloadEntry /\ DropProof(es[i]) = ps[i]
  <2>1. Len(ps) \in Nat /\ DOMAIN ps = 1..Len(ps) /\ \A i \in 1..Len(ps) : ps[i] \in PayloadEntry
    BY <1>1
  <2>2. DOMAIN es = 1..Len(ps)
    BY <1>2, <2>1
  <2>3. Len(es) = Len(ps)
    BY <1>1, <2>1, <2>2
  <2>4. ASSUME NEW i \in 1..Len(ps) PROVE DropProof(es[i]) = ps[i]
    BY <1>2, <2>1 DEF DropProof, PayloadEntry
  <2> QED
    BY <2>1, <2>3, <2>4
<1>6. /\ rs \in Seq(ProvenPayload) /\ Len(rs) = Len(ps)
      /\ \A i \in 1..Len(ps) : /\ (Len(ps) + 1) - i \in 1..Len(ps)
                               /\ rs[i] = es[(Len(ps) + 1) - i]
  BY <1>1, <1>4, <1>5
<1> HIDE DEF rs
<1>7. ASSUME NEW i \in 1..Len(ps)
      PROVE  /\ (Len(ps) + 1) - i \in 1..Len(ps)
             /\ DropProof(rs[i]) = ps[(Len(ps) + 1) - i]
             /\ DropProof(rs[i]) \in PayloadEntry
  BY <1>5, <1>6
<1>8. /\ encoded_payload_entries' = [i \in 1..Len(ps) |-> DropProof(rs[i])]
  BY <1>3, <1>5, <1>6
<1>9. /\ encoded_payload_entries' \in Seq(PayloadEntry)
      /\ Len(encoded_payload_entries') = Len(ps)
      /\ \A i \in 1..Len(ps) : encoded_payload_entries'[i] = ps[(Len(ps) + 1) - i]
  BY <1>5, <1>7, <1>8
<1>10. /\ validity_entries' \in Seq(ValidityEntry)
       /\ Len(validity_entries') = Len(vs)
       /\ \A i \in 1..Len(vs) : /\ (Len(vs) + 1) - i \in 1..Len(vs)
                                /\ validity_entries'[i] = vs[(Len(vs) + 1) - i]
  BY <1>1, <1>3, <1>4
<1> QED
  BY <1>1, <1>7, <1>9, <1>10 DEF vs, ps

\* The stacks of the second pass stay typed and true.
LEMMA SecondBase ==
    ASSUME BaseInv, SecondPass
    PROVE  BaseInv'
<1>0. /\ UNCHANGED <<preimage, first_out, witness>>
      /\ stage \in {"load", "derive"} /\ stage' \in {"derive", "panicked"}
      /\ stage' = "derive" => chain' = chain
  BY DEF SecondPass, FromWitness, RejectWitness, GetValidity, GetEncodedPayload,
         PanicOnRequest, PipelineStep, OnValidity, OnPayload, NextCall, EthError,
         EthStep, EthEof, EthSkip, EthRaw, EthCommitment, Reset, vars
<1>1. IndInv'
  BY <1>0, RoundSourceStep, NextInv DEF BaseInv, PrepareWitness, RoundTripNext
<1>2. RecordIsTrue' /\ WitgenInv' /\ LoadInv' /\ FirstOutInv'
  BY <1>0 DEF BaseInv, RecordIsTrue, WitgenInv, LoadInv, FirstOutInv, Blocks
<1>3. /\ validity_entries' \in Seq(ValidityEntry)
      /\ encoded_payload_entries' \in Seq(PayloadEntry)
      /\ EntriesAreTrue'
  <2>1. CASE FromWitness
    <3> DEFINE vs == preimage.validities
               ps == preimage.encoded_payloads
    <3>1. /\ vs \in Seq(ValidityEntry)
          /\ ps \in Seq(PayloadEntry)
          /\ validity_entries' \in Seq(ValidityEntry)
          /\ encoded_payload_entries' \in Seq(PayloadEntry)
          /\ Len(validity_entries') = Len(vs)
          /\ Len(encoded_payload_entries') = Len(ps)
          /\ \A i \in 1..Len(vs) : \E k \in 1..Len(vs) : validity_entries'[i] = vs[k]
          /\ \A i \in 1..Len(ps) :
               \E k \in 1..Len(ps) : encoded_payload_entries'[i] = ps[k]
      BY <2>1, FilledStacks
    <3>2. /\ \A k \in 1..Len(vs) : vs[k].valid = Valid[vs[k].cert]
          /\ \A k \in 1..Len(ps) : ps[k].payload = BlobOf[ps[k].cert]
      BY <3>1 DEF BaseInv, RecordIsTrue
    <3> HIDE DEF vs, ps
    <3>5. DOMAIN validity_entries' = 1..Len(vs)
      BY <3>1
    <3>3. \A i \in DOMAIN validity_entries' :
            validity_entries'[i].valid = Valid[validity_entries'[i].cert]
      <4> SUFFICES ASSUME NEW i \in 1..Len(vs)
                   PROVE  validity_entries'[i].valid = Valid[validity_entries'[i].cert]
        BY <3>5
      <4>1. PICK k \in 1..Len(vs) : validity_entries'[i] = vs[k]
        BY <3>1
      <4>2. vs[k].valid = Valid[vs[k].cert]
        BY <3>2
      <4> QED
        BY <4>1, <4>2, Zenon
    <3>6. DOMAIN encoded_payload_entries' = 1..Len(ps)
      BY <3>1
    <3>4. \A i \in DOMAIN encoded_payload_entries' :
            encoded_payload_entries'[i].payload = BlobOf[encoded_payload_entries'[i].cert]
      <4> SUFFICES ASSUME NEW i \in 1..Len(ps)
                   PROVE  encoded_payload_entries'[i].payload
                            = BlobOf[encoded_payload_entries'[i].cert]
        BY <3>6
      <4>1. PICK k \in 1..Len(ps) : encoded_payload_entries'[i] = ps[k]
        BY <3>1
      <4>2. ps[k].payload = BlobOf[ps[k].cert]
        BY <3>2
      <4> QED
        BY <4>1, <4>2, Zenon
    <3> QED
      BY <3>1, <3>3, <3>4 DEF EntriesAreTrue
  <2>2. CASE RejectWitness \/ PanicOnRequest \/ PipelineStep
    BY <2>2 DEF RejectWitness, PanicOnRequest, PipelineStep, entries, BaseInv,
                RoundTypes, EntriesAreTrue
  <2>3. CASE GetValidity
    <3>1. /\ validity_entries' \in Seq(ValidityEntry)
          /\ DOMAIN validity_entries' \subseteq DOMAIN validity_entries
          /\ \A i \in DOMAIN validity_entries' :
               validity_entries'[i] = validity_entries[i]
      <4>1. /\ validity_entries \in Seq(ValidityEntry) /\ validity_entries # << >>
            /\ validity_entries' = Front(validity_entries)
        BY <2>3 DEF GetValidity, OnTop, BaseInv, RoundTypes
      <4> QED
        BY <4>1, Pop, Zenon
    <3> QED
      BY <2>3, <3>1 DEF GetValidity, BaseInv, RoundTypes, EntriesAreTrue
  <2>4. CASE GetEncodedPayload
    <3>1. /\ encoded_payload_entries' \in Seq(PayloadEntry)
          /\ DOMAIN encoded_payload_entries' \subseteq DOMAIN encoded_payload_entries
          /\ \A i \in DOMAIN encoded_payload_entries' :
               encoded_payload_entries'[i] = encoded_payload_entries[i]
      <4>1. /\ encoded_payload_entries \in Seq(PayloadEntry) /\ encoded_payload_entries # << >>
            /\ encoded_payload_entries' = Front(encoded_payload_entries)
        BY <2>4 DEF GetEncodedPayload, OnTop, BaseInv, RoundTypes
      <4> QED
        BY <4>1, Pop, Zenon
    <3> QED
      BY <2>4, <3>1 DEF GetEncodedPayload, BaseInv, RoundTypes, EntriesAreTrue
  <2> QED
    BY <2>1, <2>2, <2>3, <2>4 DEF SecondPass
<1>4. RoundTypes'
  BY <1>0, <1>3 DEF BaseInv, RoundTypes, Blocks
<1> QED
  BY <1>1, <1>2, <1>3, <1>4 DEF BaseInv

LEMMA StutterBase ==
    ASSUME BaseInv, UNCHANGED round_trip_vars
    PROVE  BaseInv'
<1> USE DEF round_trip_vars, replay_vars, entries
<1>1. IndInv'
  BY DoneInv DEF BaseInv
<1>2. RoundTypes' /\ EntriesAreTrue' /\ RecordIsTrue' /\ WitgenInv'
  BY DEF vars, BaseInv, RoundTypes, EntriesAreTrue, RecordIsTrue, WitgenInv, Blocks
<1>3. LoadInv'
  BY DEF vars, BaseInv, LoadInv, Init, EthClosed, Blocks, FromPreimage, KzgProofs,
         CanoeProof, Accepts, LengthsMatch, BatchVerify, ValidateCertReceipt, ToJournals,
         AtInfinity
<1>4. FirstOutInv'
  BY DEF vars, BaseInv, FirstOutInv, Blocks
<1> QED
  BY <1>1, <1>2, <1>3, <1>4 DEF BaseInv

LEMMA AbortBase ==
    ASSUME BaseInv, AbortWitgen
    PROVE  BaseInv'
<1> USE DEF AbortWitgen, entries
<1>1. IndInv'
  BY DoneInv DEF BaseInv
<1>2. RoundTypes' /\ EntriesAreTrue' /\ RecordIsTrue' /\ WitgenInv'
  BY DEF vars, BaseInv, RoundTypes, EntriesAreTrue, RecordIsTrue, WitgenInv, Blocks
<1>3. LoadInv' /\ FirstOutInv'
  BY DEF LoadInv, FirstOutInv
<1> QED
  BY <1>1, <1>2, <1>3 DEF BaseInv

LEMMA BaseNext == BaseInv /\ [RoundTripNext]_round_trip_vars => BaseInv'
<1> SUFFICES ASSUME BaseInv, [RoundTripNext]_round_trip_vars
             PROVE  BaseInv'
  OBVIOUS
<1>1. CASE WitgenStep
  BY <1>1, WitgenBase
<1>2. CASE PrepareWitness
  BY <1>2, PrepareBase
<1>3. CASE AbortWitgen
  BY <1>3, AbortBase
<1>4. CASE SecondPass
  BY <1>4, SecondBase
<1>5. CASE RoundTripDone \/ UNCHANGED round_trip_vars
  BY <1>5, StutterBase DEF RoundTripDone
<1> QED
  BY <1>1, <1>2, <1>3, <1>4, <1>5 DEF RoundTripNext

LEMMA BaseHolds == RoundTripSpec => []BaseInv
<1>1. RoundTripInit => BaseInv
  BY RoundInitInv DEF RoundInv
<1> QED
  BY <1>1, BaseNext, PTL DEF RoundTripSpec

\* Both passes, the recording and the witness keep their types, whatever
\* errors and resets there are (crates/witgen, crates/proof).
THEOREM RoundTripTypeCorrect == RoundTripSpec => []RoundTripTypeOK
<1>1. BaseInv => RoundTripTypeOK
  BY DEF BaseInv, IndInv, RoundTypes, RoundTripTypeOK
<1> QED
  BY <1>1, BaseHolds, PTL

\* What the second pass hands up in the end.
SecondPassAgrees == stage = "derive" /\ Finished => out = first_out

LEMMA BaseAgrees == BaseInv => SecondPassAgrees
<1> SUFFICES ASSUME BaseInv, stage = "derive", Finished
             PROVE  out = first_out
  BY DEF SecondPassAgrees
<1>1. /\ out \in [Blocks -> Seq(Entry)] /\ first_out \in [Blocks -> Seq(Entry)]
      /\ \A b \in Blocks : Len(chain[b]) \in Nat
  BY ChainAssumption DEF BaseInv, RoundTypes, IndInv, TypeOK
<1>2. \A b \in Blocks : DerivedFrom(chain[b], out[b], Len(chain[b]), b)
  BY FinishedSource DEF BaseInv
<1>3. \A b \in Blocks : DerivedFrom(chain[b], first_out[b], Len(chain[b]), b)
  BY DEF BaseInv, FirstOutInv
<1>4. ASSUME NEW b \in Blocks PROVE out[b] = first_out[b]
  <2>1. out[b] \in Seq(Entry) /\ first_out[b] \in Seq(Entry) /\ Len(chain[b]) \in Nat
    BY <1>1
  <2> QED
    BY <1>2, <1>3, <2>1, DerivedUnique
<1> QED
  BY <1>1, <1>4

\* A second pass that comes to its end has derived what the first pass
\* derived, entry by entry: retries of the recording provider and resets of
\* the pipeline can stop it and never change its result (example/preloader).
THEOREM SecondPassAgreesTheorem == RoundTripSpec => []SecondPassAgrees
  BY BaseAgrees, BaseHolds, PTL

-----------------------------------------------------------------------------
(***************************************************************************)
(* The second pass asks for what the first one recorded.                   *)
(***************************************************************************)

LEMMA AppendConcat ==
    ASSUME NEW D, NEW s \in Seq(D), NEW x \in D
    PROVE  Append(s, x) = s \o <<x>>
  OBVIOUS

\* The next answer is on top of the stack that holds the rest of them.
LEMMA TopOfRest ==
    ASSUME NEW D, NEW all \in Seq(D), NEW log \in Seq(D), NEW stack \in Seq(D),
           NEW x \in D, RestOf(stack, log, all), Begins(log \o <<x>>, all)
    PROVE  /\ stack # << >>
           /\ Last(stack) = x
           /\ RestOf(Front(stack), log \o <<x>>, all)
<1> DEFINE n == Len(log)
           t == log \o <<x>>
<1>1. Len(all) \in Nat /\ n \in Nat /\ Len(stack) \in Nat
  OBVIOUS
<1>2. Len(t) = n + 1 /\ t[n + 1] = x
  OBVIOUS
<1> HIDE DEF t
<1>3. Len(all) >= n + 1 /\ all[n + 1] = x
  BY <1>1, <1>2 DEF Begins, t
<1>4. n + Len(stack) = Len(all) /\ \A i \in 1..Len(stack) : stack[i] = all[(Len(all) + 1) - i]
  BY DEF RestOf
<1> HIDE DEF n
<1>5. Len(stack) \in 1..Len(stack) /\ (Len(all) + 1) - Len(stack) = n + 1
  <2> DEFINE A == Len(all)
             K == Len(stack)
  <2>1. A \in Nat /\ K \in Nat /\ A >= n + 1 /\ n + K = A
    BY <1>1, <1>3, <1>4
  <2> HIDE DEF A, K
  <2> QED
    BY <1>1, <2>1 DEF A, K
<1>6. stack # << >> /\ Last(stack) = x
  BY <1>3, <1>4, <1>5 DEF Last
<1>7. /\ Len(Front(stack)) = Len(stack) - 1
      /\ \A i \in 1..(Len(stack) - 1) : Front(stack)[i] = stack[i] /\ i \in 1..Len(stack)
  BY <1>5 DEF Front
<1>8. RestOf(Front(stack), t, all)
  <2>1. Len(t) + Len(Front(stack)) = Len(all)
    <3> DEFINE A == Len(all)
               K == Len(stack)
    <3>1. A \in Nat /\ K \in Nat /\ n + K = A /\ Len(Front(stack)) = K - 1
      BY <1>1, <1>4, <1>7
    <3> HIDE DEF A, K
    <3>2. (n + 1) + (K - 1) = A
      BY <1>1, <3>1
    <3> QED
      BY <1>2, <3>1, <3>2, Zenon DEF A
  <2>2. \A i \in 1..Len(Front(stack)) : Front(stack)[i] = all[(Len(all) + 1) - i]
    BY <1>4, <1>7
  <2> QED
    BY <2>1, <2>2 DEF RestOf
<1> QED
  BY <1>6, <1>8 DEF t

\* The answer asked for is the next one of its log.
LEMMA NextValidity ==
    ASSUME IndInv, pc = "validity"
    PROVE  LET x == [cert |-> altda_commitment, valid |-> Valid[altda_commitment]]
           IN  /\ x \in ValidityEntry
               /\ ValidityLog \in Seq(ValidityEntry)
               /\ All(ValidityParts) \in Seq(ValidityEntry)
               /\ Begins(ValidityLog \o <<x>>, All(ValidityParts))
<1> DEFINE c == altda_commitment
           n == Settled(origin)
           d == chain[origin][n + 1]
           x == [cert |-> c, valid |-> Valid[c]]
<1>0. c # NoCert
  BY DEF IndInv, SourceInv
<1>1. /\ origin \in Blocks
      /\ c \in Certs
      /\ n \in Nat
      /\ eth.popped = n + 1
      /\ IsCommitment(d)
      /\ Parse(d) = c
  BY <1>0, HeldPosition
<1>2. n + 1 \in 1..Len(chain[origin])
  BY <1>0, <1>1 DEF IndInv, HeldCommitmentIsCurrent
<1>3. ValidityPart(d) = <<x>> /\ x \in ValidityEntry
  BY <1>1, ProviderAssumption DEF ValidityPart, ValidityEntry
<1>4. ValidityLog = LogAt(ValidityParts, origin, n)
  BY DEF ValidityLog, Asked
<1> HIDE DEF n, d, x
<1>5. /\ LogAt(ValidityParts, origin, n + 1)
           = LogAt(ValidityParts, origin, n) \o ValidityPart(d)
      /\ LogAt(ValidityParts, origin, n) \in Seq(ValidityEntry)
  BY <1>1, <1>2, NextItem DEF d
<1>6. /\ ValidityParts \in [Blocks -> Seq(Seq(ValidityEntry))]
      /\ Len(ValidityParts[origin]) = Len(chain[origin])
      /\ Len(chain[origin]) \in Nat
  BY <1>1, PartsType DEF IndInv
<1>7. n + 1 \in 0..Len(ValidityParts[origin])
  BY <1>2, <1>6
<1>8. Begins(LogAt(ValidityParts, origin, n + 1), All(ValidityParts))
  BY <1>1, <1>6, <1>7, LogBegins, Zenon
<1>9. All(ValidityParts) \in Seq(ValidityEntry)
  BY <1>6, LogEnd, Zenon
<1> QED
  BY <1>3, <1>4, <1>5, <1>8, <1>9, Zenon DEF x

LEMMA NextPayload ==
    ASSUME IndInv, pc = "payload"
    PROVE  LET x == [cert |-> altda_commitment, payload |-> BlobOf[altda_commitment]]
           IN  /\ x \in PayloadEntry
               /\ PayloadLog \in Seq(PayloadEntry)
               /\ All(PayloadParts) \in Seq(PayloadEntry)
               /\ Begins(PayloadLog \o <<x>>, All(PayloadParts))
<1> DEFINE c == altda_commitment
           n == Settled(origin)
           d == chain[origin][n + 1]
           x == [cert |-> c, payload |-> BlobOf[c]]
<1>0. c # NoCert /\ Verdict(c, Valid[c], origin) = "payload"
  BY DEF IndInv, SourceInv
<1>1. /\ origin \in Blocks
      /\ c \in Certs
      /\ n \in Nat
      /\ eth.popped = n + 1
      /\ IsCommitment(d)
      /\ Parse(d) = c
  BY <1>0, HeldPosition
<1>2. n + 1 \in 1..Len(chain[origin])
  BY <1>0, <1>1 DEF IndInv, HeldCommitmentIsCurrent
<1>3. PayloadPart(d, origin) = <<x>> /\ x \in PayloadEntry
  BY <1>0, <1>1, ProviderAssumption DEF PayloadPart, PayloadEntry
<1>4. PayloadLog = LogAt(PayloadParts, origin, n)
  BY DEF PayloadLog
<1> HIDE DEF n, d, x
<1>5. /\ LogAt(PayloadParts, origin, n + 1)
           = LogAt(PayloadParts, origin, n) \o PayloadPart(d, origin)
      /\ LogAt(PayloadParts, origin, n) \in Seq(PayloadEntry)
  BY <1>1, <1>2, NextItem DEF d
<1>6. /\ PayloadParts \in [Blocks -> Seq(Seq(PayloadEntry))]
      /\ Len(PayloadParts[origin]) = Len(chain[origin])
      /\ Len(chain[origin]) \in Nat
  BY <1>1, PartsType DEF IndInv
<1>7. n + 1 \in 0..Len(PayloadParts[origin])
  BY <1>2, <1>6
<1>8. Begins(LogAt(PayloadParts, origin, n + 1), All(PayloadParts))
  BY <1>1, <1>6, <1>7, LogBegins, Zenon
<1>9. All(PayloadParts) \in Seq(PayloadEntry)
  BY <1>6, LogEnd, Zenon
<1> QED
  BY <1>3, <1>4, <1>5, <1>8, <1>9, Zenon DEF x

\* The first pass records the log.
LEMMA WitgenRecordsLog ==
    ASSUME ~PayloadMayFail, BaseInv, RecordIsLog, WitgenStep
    PROVE  RecordIsLog'
<1> DEFINE c == altda_commitment
           vs == preimage.validities
           ps == preimage.encoded_payloads
<1> SUFFICES ASSUME pc' # "halted"
             PROVE  preimage'.validities = ValidityLog' /\ preimage'.encoded_payloads = PayloadLog'
  BY DEF RecordIsLog
<1>0. pc # "halted" /\ IndInv /\ stage = "witgen"
  BY DEF BaseInv, WitgenStep, RecordValidity, RecordPayload, WrappedError, OnValidity,
         OnPayload, ProviderError, NextCall, EthStep, EthError, EthEof, EthSkip, EthRaw,
         EthCommitment
<1>1. /\ vs = ValidityLog /\ ps = PayloadLog
      /\ vs \in Seq(ValidityEntry) /\ ps \in Seq(PayloadEntry)
      /\ preimage = [validities |-> vs, encoded_payloads |-> ps]
  BY <1>0 DEF RecordIsLog, BaseInv, RoundTypes
<1>2. CASE RecordValidity
  <2> DEFINE x == [cert |-> c, valid |-> Valid[c]]
  <2>1. x \in ValidityEntry
    BY <1>0, <1>2, NextValidity DEF RecordValidity, OnValidity
  <2>2. ValidityLog' = ValidityLog \o <<x>> /\ PayloadLog' = PayloadLog
    BY <1>0, <1>2, ValidityAnswer DEF RecordValidity
  <2>3. preimage'.validities = Append(vs, x) /\ preimage'.encoded_payloads = ps
    BY <1>1, <1>2 DEF RecordValidity
  <2> HIDE DEF x, vs, ps
  <2>4. Append(vs, x) = vs \o <<x>>
    BY <1>1, <2>1, AppendConcat
  <2> QED
    BY <1>1, <2>2, <2>3, <2>4, Zenon
<1>3. CASE RecordPayload
  <2> DEFINE x == [cert |-> c, payload |-> BlobOf[c]]
  <2>1. x \in PayloadEntry
    BY <1>0, <1>3, NextPayload DEF RecordPayload, OnPayload
  <2>2. PayloadLog' = PayloadLog \o <<x>> /\ ValidityLog' = ValidityLog
    BY <1>0, <1>3, PayloadAnswer DEF RecordPayload
  <2>3. preimage'.encoded_payloads = Append(ps, x) /\ preimage'.validities = vs
    BY <1>1, <1>3 DEF RecordPayload
  <2> HIDE DEF x, vs, ps
  <2>4. Append(ps, x) = ps \o <<x>>
    BY <1>1, <2>1, AppendConcat
  <2> QED
    BY <1>1, <2>2, <2>3, <2>4, Zenon
<1>4. CASE \E kind \in ErrorKind : WrappedError(kind)
  <2>1. PICK kind \in ErrorKind : WrappedError(kind)
    BY <1>4
  <2>2. pc # "payload" /\ preimage' = preimage /\ ProviderError(kind)
    BY <2>1 DEF WrappedError, ProviderError, Fail
  <2>3. ValidityLog' = ValidityLog /\ PayloadLog' = PayloadLog
    BY <1>0, <2>2, NoAnswer
  <2> QED
    BY <1>1, <2>2, <2>3
<1>5. CASE /\ NextCall \/ EthStep \/ \E kind \in ErrorKind : EthError(kind)
           /\ UNCHANGED preimage
  <2>1. pc # "payload"
    BY <1>5 DEF NextCall, EthStep, EthError, EthEof, EthSkip, EthRaw, EthCommitment
  <2>2. ValidityLog' = ValidityLog /\ PayloadLog' = PayloadLog
    BY <1>0, <1>5, <2>1, NoAnswer
  <2> QED
    BY <1>1, <1>5, <2>2
<1> QED
  BY <1>2, <1>3, <1>4, <1>5 DEF WitgenStep

\* At its end the log is the whole of it.
LEMMA PrepareIsComplete ==
    ASSUME BaseInv, RecordIsLog, PrepareWitness
    PROVE  RecordIsComplete'
<1>1. /\ stage = "witgen" /\ pc = "idle" /\ origin = LastBlock + 1
      /\ chain' = chain /\ preimage' = preimage
  BY DEF PrepareWitness, Finished
<1>2. /\ ValidityParts \in [Blocks -> Seq(Seq(ValidityEntry))]
      /\ PayloadParts \in [Blocks -> Seq(Seq(PayloadEntry))]
  BY PartsType DEF BaseInv, IndInv
<1>3. ValidityLog = All(ValidityParts) /\ PayloadLog = All(PayloadParts)
  BY <1>1, <1>2, LogEnd, Zenon DEF ValidityLog, PayloadLog
<1>4. preimage.validities = ValidityLog /\ preimage.encoded_payloads = PayloadLog
  BY <1>1 DEF RecordIsLog
<1>5. All(ValidityParts)' = All(ValidityParts) /\ All(PayloadParts)' = All(PayloadParts)
  BY <1>1, PartsFixed, Zenon
<1> QED
  BY <1>1, <1>3, <1>4, <1>5 DEF RecordIsComplete

\* The stacks start as the whole log, reversed.
LEMMA FromWitnessStacks ==
    ASSUME BaseInv, RecordIsComplete, FromWitness
    PROVE  StacksInv'
<1> DEFINE vs == preimage.validities
           ps == preimage.encoded_payloads
<1>1. /\ stage = "load" /\ Init /\ UNCHANGED vars /\ TypeOK
  BY DEF FromWitness, BaseInv, LoadInv, IndInv
<1>2. vs = All(ValidityParts) /\ ps = All(PayloadParts)
  BY <1>1 DEF RecordIsComplete
<1>3. origin = 1 /\ Settled(origin) = 0 /\ Asked = 0
  BY <1>1 DEF Init, Settled, Asked, EthClosed
<1>4. ValidityLog = << >> /\ PayloadLog = << >>
  BY <1>1, <1>3, PartsType, LogStart, Zenon DEF ValidityLog, PayloadLog
<1>5. ValidityLog' = << >> /\ PayloadLog' = << >>
  <2>1. Settled(origin)' = Settled(origin) /\ Asked' = Asked
    BY <1>1 DEF vars, Settled, Asked
  <2> QED
    BY <1>1, <1>4, <2>1, LogsStay DEF vars
<1>6. All(ValidityParts)' = vs /\ All(PayloadParts)' = ps
  BY <1>1, <1>2, PartsFixed, Zenon DEF vars
<1>7. /\ vs \in Seq(ValidityEntry)
      /\ ps \in Seq(PayloadEntry)
      /\ Len(validity_entries') = Len(vs)
      /\ Len(encoded_payload_entries') = Len(ps)
      /\ \A i \in 1..Len(vs) : validity_entries'[i] = vs[(Len(vs) + 1) - i]
      /\ \A i \in 1..Len(ps) : encoded_payload_entries'[i] = ps[(Len(ps) + 1) - i]
  BY FilledStacks
<1> HIDE DEF vs, ps
<1>8. RestOf(validity_entries', << >>, vs) /\ RestOf(encoded_payload_entries', << >>, ps)
  <2>1. Len(<< >>) = 0 /\ Len(vs) \in Nat /\ Len(ps) \in Nat
    BY <1>7
  <2>2. Len(<< >>) + Len(vs) = Len(vs) /\ Len(<< >>) + Len(ps) = Len(ps)
    BY <2>1
  <2> QED
    BY <1>7, <2>2 DEF RestOf
<1>9. /\ RestOf(validity_entries, ValidityLog, All(ValidityParts))'
      /\ RestOf(encoded_payload_entries, PayloadLog, All(PayloadParts))'
  BY <1>5, <1>6, <1>8 DEF RestOf
<1> QED
  BY <1>9 DEF StacksInv

\* The second pass finds the next answer on top and takes it off.
LEMMA ServeKeepsStacks ==
    ASSUME MaxResets = 0, BaseInv, StacksInv,
           GetValidity \/ GetEncodedPayload \/ PipelineStep
    PROVE  StacksInv'
<1> DEFINE c == altda_commitment
<1> SUFFICES ASSUME pc' # "halted"
             PROVE  /\ RestOf(validity_entries', ValidityLog', All(ValidityParts)')
                    /\ RestOf(encoded_payload_entries', PayloadLog', All(PayloadParts)')
  BY DEF StacksInv, RestOf
<1>0. /\ IndInv /\ stage = "derive" /\ chain' = chain /\ pc # "halted"
      /\ validity_entries \in Seq(ValidityEntry)
      /\ encoded_payload_entries \in Seq(PayloadEntry)
      /\ EntriesAreTrue
  BY DEF BaseInv, RoundTypes, GetValidity, GetEncodedPayload, PipelineStep, OnValidity,
         OnPayload, NextCall, EthError, EthStep, EthEof, EthSkip, EthRaw, EthCommitment,
         Reset
<1>1. /\ RestOf(validity_entries, ValidityLog, All(ValidityParts))
      /\ RestOf(encoded_payload_entries, PayloadLog, All(PayloadParts))
  BY <1>0 DEF StacksInv
<1>2. All(ValidityParts)' = All(ValidityParts) /\ All(PayloadParts)' = All(PayloadParts)
  BY <1>0, PartsFixed, Zenon
<1>3. CASE GetValidity
  <2> DEFINE x == [cert |-> c, valid |-> Valid[c]]
  <2>1. /\ OnValidity(Valid[c]) /\ pc = "validity"
        /\ validity_entries' = Front(validity_entries)
        /\ encoded_payload_entries' = encoded_payload_entries
    BY <1>0, <1>3, ServedAnswerIsTrue DEF GetValidity, OnValidity
  <2>2. ValidityLog' = ValidityLog \o <<x>> /\ PayloadLog' = PayloadLog
    BY <1>0, <2>1, ValidityAnswer
  <2>3. /\ x \in ValidityEntry
        /\ ValidityLog \in Seq(ValidityEntry)
        /\ All(ValidityParts) \in Seq(ValidityEntry)
        /\ Begins(ValidityLog \o <<x>>, All(ValidityParts))
    BY <1>0, <2>1, NextValidity
  <2> HIDE DEF x
  <2>4. RestOf(Front(validity_entries), ValidityLog \o <<x>>, All(ValidityParts))
    BY <1>0, <1>1, <2>3, TopOfRest, Zenon
  <2> QED
    BY <1>1, <1>2, <2>1, <2>2, <2>4, Zenon
<1>4. CASE GetEncodedPayload
  <2> DEFINE x == [cert |-> c, payload |-> BlobOf[c]]
  <2>1. /\ OnPayload(BlobOf[c]) /\ pc = "payload"
        /\ encoded_payload_entries' = Front(encoded_payload_entries)
        /\ validity_entries' = validity_entries
    BY <1>0, <1>4, ServedAnswerIsTrue DEF GetEncodedPayload, OnPayload
  <2>2. PayloadLog' = PayloadLog \o <<x>> /\ ValidityLog' = ValidityLog
    BY <1>0, <2>1, PayloadAnswer
  <2>3. /\ x \in PayloadEntry
        /\ PayloadLog \in Seq(PayloadEntry)
        /\ All(PayloadParts) \in Seq(PayloadEntry)
        /\ Begins(PayloadLog \o <<x>>, All(PayloadParts))
    BY <1>0, <2>1, NextPayload
  <2> HIDE DEF x
  <2>4. RestOf(Front(encoded_payload_entries), PayloadLog \o <<x>>, All(PayloadParts))
    BY <1>0, <1>1, <2>3, TopOfRest, Zenon
  <2> QED
    BY <1>1, <1>2, <2>1, <2>2, <2>4, Zenon
<1>5. CASE PipelineStep
  <2>1. ASSUME NEW b \in Blocks, Reset(b) PROVE FALSE
    BY <1>0, <2>1 DEF Reset, IndInv, TypeOK
  <2>2. /\ NextCall \/ EthStep \/ \E kind \in ErrorKind : EthError(kind)
        /\ UNCHANGED <<validity_entries, encoded_payload_entries>>
    BY <1>5, <2>1 DEF PipelineStep, entries
  <2>3. pc # "payload"
    BY <2>2 DEF NextCall, EthStep, EthError, EthEof, EthSkip, EthRaw, EthCommitment
  <2>4. ValidityLog' = ValidityLog /\ PayloadLog' = PayloadLog
    BY <1>0, <2>2, <2>3, NoAnswer
  <2> QED
    BY <1>1, <1>2, <2>2, <2>4, Zenon
<1> QED
  BY <1>3, <1>4, <1>5

\* It never asks for anything else.
LEMMA NoPanic ==
    ASSUME BaseInv, StacksInv, PanicOnRequest
    PROVE  FALSE
<1> DEFINE c == altda_commitment
<1>0. /\ IndInv /\ stage = "derive" /\ pc \in {"validity", "payload"}
      /\ validity_entries \in Seq(ValidityEntry)
      /\ encoded_payload_entries \in Seq(PayloadEntry)
  BY DEF BaseInv, RoundTypes, PanicOnRequest
<1>1. /\ RestOf(validity_entries, ValidityLog, All(ValidityParts))
      /\ RestOf(encoded_payload_entries, PayloadLog, All(PayloadParts))
  BY <1>0 DEF StacksInv
<1>2. ASSUME pc = "validity" PROVE OnTop(validity_entries)
  <2> DEFINE x == [cert |-> c, valid |-> Valid[c]]
  <2>1. /\ x \in ValidityEntry
        /\ ValidityLog \in Seq(ValidityEntry)
        /\ All(ValidityParts) \in Seq(ValidityEntry)
        /\ Begins(ValidityLog \o <<x>>, All(ValidityParts))
    BY <1>0, <1>2, NextValidity
  <2>2. x.cert = c
    OBVIOUS
  <2> HIDE DEF x
  <2>3. validity_entries \in Seq(ValidityEntry)
    BY <1>0
  <2>4. /\ validity_entries # << >>
        /\ Last(validity_entries) = x
        /\ RestOf(Front(validity_entries), ValidityLog \o <<x>>, All(ValidityParts))
    BY <1>1, <2>1, <2>3, TopOfRest, Zenon
  <2> QED
    BY <2>2, <2>4 DEF OnTop
<1>3. ASSUME pc = "payload" PROVE OnTop(encoded_payload_entries)
  <2> DEFINE x == [cert |-> c, payload |-> BlobOf[c]]
  <2>1. /\ x \in PayloadEntry
        /\ PayloadLog \in Seq(PayloadEntry)
        /\ All(PayloadParts) \in Seq(PayloadEntry)
        /\ Begins(PayloadLog \o <<x>>, All(PayloadParts))
    BY <1>0, <1>3, NextPayload
  <2>2. x.cert = c
    OBVIOUS
  <2> HIDE DEF x
  <2>3. encoded_payload_entries \in Seq(PayloadEntry)
    BY <1>0
  <2>4. /\ encoded_payload_entries # << >>
        /\ Last(encoded_payload_entries) = x
        /\ RestOf(Front(encoded_payload_entries), PayloadLog \o <<x>>, All(PayloadParts))
    BY <1>1, <2>1, <2>3, TopOfRest, Zenon
  <2> QED
    BY <2>2, <2>4 DEF OnTop
<1> QED
  BY <1>2, <1>3 DEF PanicOnRequest

LEMMA StutterKeepsLogs ==
    ASSUME UNCHANGED vars
    PROVE  /\ ValidityLog' = ValidityLog /\ PayloadLog' = PayloadLog
           /\ All(ValidityParts)' = All(ValidityParts)
           /\ All(PayloadParts)' = All(PayloadParts)
<1>1. Settled(origin)' = Settled(origin) /\ Asked' = Asked /\ UNCHANGED <<chain, origin>>
  BY DEF vars, Settled, Asked
<1> QED
  BY <1>1, LogsStay, PartsFixed, Zenon

LEMMA StutterRound ==
    ASSUME RoundInv, UNCHANGED round_trip_vars
    PROVE  RecordIsLog' /\ RecordIsComplete' /\ StacksInv' /\ PanicsExactlyAtInfinity'
<1>1. UNCHANGED <<vars, pc, validity_entries, encoded_payload_entries, stage, preimage,
                  witness>>
  BY DEF round_trip_vars, replay_vars, vars, entries
<1>2. /\ ValidityLog' = ValidityLog /\ PayloadLog' = PayloadLog
      /\ All(ValidityParts)' = All(ValidityParts)
      /\ All(PayloadParts)' = All(PayloadParts)
  BY <1>1, StutterKeepsLogs
<1> QED
  BY <1>1, <1>2 DEF RoundInv, RecordIsLog, RecordIsComplete, StacksInv, RestOf,
                    PanicsExactlyAtInfinity, AtInfinity

LEMMA SecondRound ==
    ASSUME MaxResets = 0, RoundInv, SecondPass
    PROVE  RecordIsLog' /\ RecordIsComplete' /\ StacksInv' /\ PanicsExactlyAtInfinity'
<1> USE DEF RoundInv
<1>1. CASE FromWitness
  <2>1. stage = "load" /\ stage' = "derive" /\ witness' = witness
    BY <1>1 DEF FromWitness
  <2>2. ~AtInfinity(witness.encoded_payloads)
    BY <1>1, <2>1 DEF FromWitness, BaseInv, LoadInv
  <2>3. PanicsExactlyAtInfinity'
    BY <2>1, <2>2 DEF PanicsExactlyAtInfinity, AtInfinity
  <2> QED
    BY <1>1, <2>1, <2>3, FromWitnessStacks DEF RecordIsLog, RecordIsComplete
<1>2. CASE RejectWitness
  <2>1. stage = "load" /\ stage' = "panicked" /\ witness' = witness
    BY <1>2 DEF RejectWitness
  <2>2. AtInfinity(witness.encoded_payloads)
    BY <1>2, <2>1 DEF RejectWitness, BaseInv, LoadInv
  <2> QED
    BY <2>1, <2>2 DEF PanicsExactlyAtInfinity, AtInfinity, RecordIsLog,
                      RecordIsComplete, StacksInv
<1>3. CASE PanicOnRequest
  BY <1>3, NoPanic
<1>4. CASE GetValidity \/ GetEncodedPayload \/ PipelineStep
  <2>1. stage = "derive" /\ stage' = "derive" /\ witness' = witness
    BY <1>4 DEF GetValidity, GetEncodedPayload, PipelineStep
  <2>2. PanicsExactlyAtInfinity'
    BY <2>1 DEF PanicsExactlyAtInfinity, AtInfinity
  <2> QED
    BY <1>4, <2>1, <2>2, ServeKeepsStacks DEF RecordIsLog, RecordIsComplete
<1> QED
  BY <1>1, <1>2, <1>3, <1>4 DEF SecondPass

LEMMA RoundNext ==
    ASSUME MaxResets = 0, ~PayloadMayFail
    PROVE  RoundInv /\ [RoundTripNext]_round_trip_vars => RoundInv'
<1> SUFFICES ASSUME RoundInv, [RoundTripNext]_round_trip_vars
             PROVE  RecordIsLog' /\ RecordIsComplete' /\ StacksInv' /\ PanicsExactlyAtInfinity'
  BY BaseNext DEF RoundInv
<1>1. CASE WitgenStep
  <2>1. stage' = "witgen"
    BY <1>1 DEF WitgenStep
  <2> QED
    BY <1>1, <2>1, WitgenRecordsLog
       DEF RoundInv, RecordIsComplete, StacksInv, PanicsExactlyAtInfinity
<1>2. CASE PrepareWitness
  <2>1. stage' = "load"
    BY <1>2 DEF PrepareWitness
  <2> QED
    BY <1>2, <2>1, PrepareIsComplete
       DEF RoundInv, RecordIsLog, StacksInv, PanicsExactlyAtInfinity
<1>3. CASE AbortWitgen
  BY <1>3 DEF AbortWitgen, RecordIsLog, RecordIsComplete, StacksInv, PanicsExactlyAtInfinity
<1>4. CASE SecondPass
  BY <1>4, SecondRound
<1>5. CASE RoundTripDone \/ UNCHANGED round_trip_vars
  BY <1>5, StutterRound DEF RoundTripDone
<1> QED
  BY <1>1, <1>2, <1>3, <1>4, <1>5 DEF RoundTripNext

LEMMA RoundHolds ==
    ASSUME MaxResets = 0, ~PayloadMayFail
    PROVE  RoundTripSpec => []RoundInv
<1>1. RoundInv /\ [RoundTripNext]_round_trip_vars => RoundInv'
  BY RoundNext
<1> QED
  BY <1>1, RoundInitInv, PTL DEF RoundTripSpec

\* The witness of an honest first pass is accepted unless it holds a proof at
\* infinity, and then the second pass finds every answer it asks for on top
\* of its stack: no certificate, no inbox and no error of the first pass makes
\* it panic.  Two things have to hold: the pipeline is not reset, and
\* get_encoded_payload has no failure that the pipeline retries after the
\* validity was recorded (witness_provider.rs, preloaded_eigenda_provider.rs).
THEOREM PanicsExactlyAtInfinityTheorem ==
    ASSUME MaxResets = 0, ~PayloadMayFail
    PROVE  RoundTripSpec => []PanicsExactlyAtInfinity
<1>1. RoundInv => PanicsExactlyAtInfinity
  BY DEF RoundInv
<1> QED
  BY <1>1, RoundHolds, PTL

\* A finished second pass has derived what the first pass derived, and has
\* used the witness up: what was recorded is what the replay asks for and
\* nothing more, under the same two conditions
\* (witness_provider.rs, preloaded_eigenda_provider.rs).
THEOREM ReplayReproducesTheorem ==
    ASSUME MaxResets = 0, ~PayloadMayFail
    PROVE  RoundTripSpec => []ReplayReproduces
<1>1. RoundInv => ReplayReproduces
  <2> SUFFICES ASSUME RoundInv, stage = "derive", Finished
               PROVE  /\ out = first_out
                      /\ validity_entries = << >>
                      /\ encoded_payload_entries = << >>
    BY DEF ReplayReproduces
  <2>1. out = first_out
    BY BaseAgrees DEF RoundInv, SecondPassAgrees
  <2>2. /\ pc = "idle" /\ origin = LastBlock + 1
        /\ validity_entries \in Seq(ValidityEntry)
        /\ encoded_payload_entries \in Seq(PayloadEntry)
        /\ ValidityParts \in [Blocks -> Seq(Seq(ValidityEntry))]
        /\ PayloadParts \in [Blocks -> Seq(Seq(PayloadEntry))]
    BY PartsType DEF RoundInv, BaseInv, IndInv, RoundTypes, Finished
  <2>3. /\ ValidityLog = All(ValidityParts) /\ All(ValidityParts) \in Seq(ValidityEntry)
        /\ PayloadLog = All(PayloadParts) /\ All(PayloadParts) \in Seq(PayloadEntry)
    BY <2>2, LogEnd, Zenon DEF ValidityLog, PayloadLog
  <2>4. /\ Len(All(ValidityParts)) + Len(validity_entries) = Len(All(ValidityParts))
        /\ Len(All(PayloadParts)) + Len(encoded_payload_entries) = Len(All(PayloadParts))
    BY <2>2, <2>3 DEF RoundInv, StacksInv, RestOf
  <2>5. ASSUME NEW D, NEW all \in Seq(D), NEW stack \in Seq(D),
               Len(all) + Len(stack) = Len(all)
        PROVE  stack = << >>
    <3>1. Len(all) \in Nat /\ Len(stack) \in Nat
      OBVIOUS
    <3>2. Len(stack) = 0
      BY <2>5, <3>1
    <3> QED
      BY <3>2
  <2>6. validity_entries = << >> /\ encoded_payload_entries = << >>
    BY <2>2, <2>3, <2>4, <2>5, Zenon
  <2> QED
    BY <2>1, <2>6
<1> QED
  BY <1>1, RoundHolds, PTL

=============================================================================
