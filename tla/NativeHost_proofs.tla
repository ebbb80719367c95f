-------------------------- MODULE NativeHost_proofs --------------------------
(***************************************************************************)
(* Proofs about OracleHost, for every set of certificates, every inbox and *)
(* every proxy that does not lie (ProxyHonesty, RecencyAfterValidity), and *)
(* about NativeHost: a run of the host program is a run of client and host *)
(* as OracleHost has it, and its exit code is the verdict of the client.   *)
(***************************************************************************)
EXTENDS NativeHost, EigenDADataSource_proofs, SequenceTheorems

-----------------------------------------------------------------------------
(***************************************************************************)
(* Client and host (OracleHost).                                           *)
(***************************************************************************)

StoreTypes ==
    /\ DOMAIN kv \subseteq Keys
    /\ last_hint \in Certs \cup {OtherHint}
    /\ host \in {"up", "down"}
    /\ asked \in BOOLEAN
    /\ fetched \in Seq(Nat)

\* The elements received so far are the beginning of the right blob.
FetchedIsPrefix ==
    asked =>
        /\ pc \in {"validity", "payload"}
        /\ altda_commitment \in Certs
        /\ pc = "validity" => fetched = << >>
        /\ Len(fetched) <= altda_commitment.length
        /\ \A i \in 1..Len(fetched) : fetched[i] = BlobOf[altda_commitment][i]

OracleInv == IndInv /\ StoreTypes /\ StoreIsTrue /\ FetchedIsPrefix

-----------------------------------------------------------------------------
(***************************************************************************)
(* The store.                                                              *)
(***************************************************************************)

LEMMA CertFields ==
    ASSUME NEW c \in Certs
    PROVE  /\ c.length \in Nat
           /\ BlobOf[c] \in Seq(Nat)
           /\ Len(BlobOf[c]) = c.length
  BY CertsAssumption, ProxyAssumption, ProviderAssumption DEF CertRecord

\* Storing the validity the contract reports keeps the store true.
LEMMA StoreValidityIsTrue ==
    ASSUME NEW store, TrueStore(store), NEW c \in Certs, NEW v, v = Valid[c]
    PROVE  TrueStore(StoreCertValidity(store, c, v))
<1> USE CertsAssumption, CalldataAssumption, ProviderAssumption, ChainAssumption,
        ProxyAssumption, OracleAssumption, StoresAssumption
<1> DEFINE new == [k \in {ValidityKey(c)} |-> IF v THEN 1 ELSE 0]
           result == StoreCertValidity(store, c, v)
<1>1. /\ DOMAIN result = DOMAIN store \cup {ValidityKey(c)}
      /\ \A k \in DOMAIN result :
           result[k] = IF k = ValidityKey(c) THEN (IF v THEN 1 ELSE 0) ELSE store[k]
  BY DEF StoreCertValidity, Write
<1>2. ValidityKey(c) \in Keys
  BY DEF ValidityKey, Template, ToDigest, Keys
<1>3. ASSUME NEW d \in Certs, ValidityKey(d) \in DOMAIN result
      PROVE  result[ValidityKey(d)] = IF Valid[d] THEN 1 ELSE 0
  <2>1. CASE d = c
    BY <1>1, <1>3, <2>1
  <2>2. CASE d # c
    <3>1. ValidityKey(d) # ValidityKey(c)
      BY <2>2 DEF ValidityKey, Template, ToDigest
    <3> QED
      BY <1>1, <1>3, <3>1 DEF TrueStore
  <2> QED
    BY <2>1, <2>2
<1>4. ASSUME NEW d \in Certs, NEW i \in 0..(d.length - 1),
             FieldElementKey(d, i) \in DOMAIN result
      PROVE  result[FieldElementKey(d, i)] = BlobOf[d][i + 1]
  <2>1. FieldElementKey(d, i) # ValidityKey(c)
    BY DEF FieldElementKey, ValidityKey, Template
  <2> QED
    BY <1>1, <1>4, <2>1 DEF TrueStore
<1> QED
  BY <1>1, <1>2, <1>3, <1>4 DEF TrueStore

\* Storing any prefix of the blob keeps the store true.
LEMMA StorePayloadIsTrue ==
    ASSUME NEW store, TrueStore(store), NEW c \in Certs, NEW body,
           FitTo(body, c.length) = BlobOf[c], NEW n \in 0..c.length
    PROVE  TrueStore(StoreEncodedPayload(store, c, body, n))
<1> USE CertsAssumption, CalldataAssumption, ProviderAssumption, ChainAssumption,
        ProxyAssumption, OracleAssumption, StoresAssumption
<1> DEFINE keys == {FieldElementKey(c, i) : i \in 0..(n - 1)}
           result == StoreEncodedPayload(store, c, body, n)
<1>0. c.length \in Nat /\ n \in Nat
  BY CertFields
<1>1. /\ DOMAIN result = DOMAIN store \cup keys
      /\ \A k \in DOMAIN result :
           result[k] = IF k \in keys THEN BlobOf[c][k.index + 1] ELSE store[k]
  BY DEF StoreEncodedPayload, Write
<1>2. keys \subseteq Keys
  BY <1>0 DEF FieldElementKey, Template, ToDigest, Keys
<1>3. ASSUME NEW d \in Certs, ValidityKey(d) \in DOMAIN result
      PROVE  result[ValidityKey(d)] = IF Valid[d] THEN 1 ELSE 0
  <2>1. ValidityKey(d) \notin keys
    <3>1. ValidityKey(d).api = 1
      BY DEF ValidityKey, Template
    <3>2. \A k \in keys : k.api = 0
      BY DEF FieldElementKey, Template
    <3> HIDE DEF keys
    <3> QED
      BY <3>1, <3>2
  <2> QED
    BY <1>1, <1>3, <2>1 DEF TrueStore
<1>4. ASSUME NEW d \in Certs, NEW i \in 0..(d.length - 1),
             FieldElementKey(d, i) \in DOMAIN result
      PROVE  result[FieldElementKey(d, i)] = BlobOf[d][i + 1]
  <2>1. CASE FieldElementKey(d, i) \in keys
    <3>1. d = c /\ FieldElementKey(d, i).index = i
      BY <2>1 DEF FieldElementKey, Template, ToDigest
    <3> QED
      BY <1>1, <1>4, <2>1, <3>1
  <2>2. CASE FieldElementKey(d, i) \notin keys
    BY <1>1, <1>4, <2>2 DEF TrueStore
  <2> QED
    BY <2>1, <2>2
<1> QED
  BY <1>1, <1>2, <1>3, <1>4 DEF TrueStore

LEMMA SuccessIsNoTeapot ==
    ASSUME NEW r, IsSuccess(r)
    PROVE  r.status # TEAPOT
<1> DEFINE status == r.status
<1>1. status \in 200..299
  BY DEF IsSuccess
<1> HIDE DEF status
<1>2. status # 418
  BY <1>1
<1> QED
  BY <1>2 DEF status, TEAPOT

\* One round of the host loop, however it ends.
LEMMA FetchKeepsStoreTrue ==
    ASSUME TrueStore(kv), NEW c \in Certs, NEW r \in ProxyReplies[c],
           FetchEigendaHint(c, r)
    PROVE  TrueStore(kv')
<1> USE CertsAssumption, CalldataAssumption, ProviderAssumption, ChainAssumption,
        ProxyAssumption, OracleAssumption, StoresAssumption
<1> DEFINE judged == StoreCertValidity(kv, c, IsValidCert(r))
<1>1. Understood(r) => TrueStore(judged)
  <2>1. CASE PassRecencyCheck(r)
    BY <2>1, ProxyHonesty, StoreValidityIsTrue
  <2>2. CASE ~PassRecencyCheck(r)
    <3>1. IsValidCert(r)
      BY <2>2 DEF PassRecencyCheck, IsValidCert, STATUS_CODE_RECENCY_ERROR,
                  STATUS_CODE_INVALID_CERT
    <3>2. Understood(r) => IsValidCert(r) = Valid[c]
      BY <2>2, <3>1, RecencyAfterValidity
    <3> QED
      BY <3>2, StoreValidityIsTrue
  <2> QED
    BY <2>1, <2>2
<1>2. IsSuccess(r) => Understood(r) /\ PassRecencyCheck(r)
  BY SuccessIsNoTeapot DEF Understood, PassRecencyCheck
<1>3. CASE ~Understood(r) /\ UNCHANGED kv
  BY <1>3
<1>4. CASE Understood(r) /\ kv' = judged
  BY <1>1, <1>4
<1>5. CASE /\ IsSuccess(r) /\ r.body # << >> /\ InRange(r.body)
           /\ \E n \in 0..c.length : kv' = StoreEncodedPayload(judged, c, r.body, n)
  <2>1. FitTo(r.body, c.length) = BlobOf[c]
    BY <1>2, <1>5, ProxyHonesty
  <2> HIDE DEF judged
  <2> QED
    BY <1>1, <1>2, <1>5, <2>1, StorePayloadIsTrue
<1> QED
  BY <1>2, <1>3, <1>4, <1>5 DEF FetchEigendaHint, Judged

-----------------------------------------------------------------------------
(***************************************************************************)
(* The steps of client and host are steps of the data source.              *)
(***************************************************************************)

LEMMA OracleStepIsSourceStep ==
    OracleInv /\ [OracleNext]_oracle_vars => [Next]_vars
<1> USE CertsAssumption, CalldataAssumption, ProviderAssumption, ChainAssumption,
        ProxyAssumption, OracleAssumption, StoresAssumption
<1> SUFFICES ASSUME OracleInv, [OracleNext]_oracle_vars
             PROVE  [Next]_vars
  OBVIOUS
<1>1. CASE OracleCall
  BY <1>1 DEF OracleCall, Next
<1>2. CASE OracleEthStep
  BY <1>2 DEF OracleEthStep, Next, ErrorKind
<1>3. CASE SendHint \/ (\E r \in AnyReply : HandleHint(r)) \/ ReceiveFieldElement
           \/ HostEnds \/ OracleDone \/ UNCHANGED oracle_vars
  BY <1>3 DEF SendHint, HandleHint, ReceiveFieldElement, HostEnds, OracleDone, oracle_vars
<1>4. CASE ReceiveValidity
  <2>1. altda_commitment \in Certs
    BY <1>4 DEF ReceiveValidity, OracleInv, FetchedIsPrefix
  <2>2. (kv[ValidityKey(altda_commitment)] = 1) = Valid[altda_commitment]
    BY <1>4, <2>1 DEF ReceiveValidity, OracleInv, StoreIsTrue, TrueStore
  <2>3. OnValidity(Valid[altda_commitment])
    BY <1>4, <2>2 DEF ReceiveValidity
  <2> QED
    BY <2>3 DEF Next
<1>5. CASE ReturnPayload
  <2>1. /\ altda_commitment \in Certs
        /\ Len(fetched) = altda_commitment.length
        /\ \A i \in 1..Len(fetched) : fetched[i] = BlobOf[altda_commitment][i]
        /\ fetched \in Seq(Nat)
    BY <1>5 DEF ReturnPayload, OracleInv, FetchedIsPrefix, StoreTypes
  <2>2. fetched = BlobOf[altda_commitment]
    <3>1. BlobOf[altda_commitment] \in Seq(Nat)
           /\ Len(BlobOf[altda_commitment]) = Len(fetched)
      BY <2>1, CertFields
    <3> QED
      BY <2>1, <3>1, SeqEqual
  <2>3. OnPayload(BlobOf[altda_commitment])
    BY <1>5, <2>2 DEF ReturnPayload
  <2> QED
    BY <2>3 DEF Next
<1>6. CASE OracleError
  BY <1>6 DEF OracleError, Next, ErrorKind
<1>7. CASE \E b \in Blocks : OracleReset(b)
  BY <1>7 DEF OracleReset, Next
<1> QED
  BY <1>1, <1>2, <1>3, <1>4, <1>5, <1>6, <1>7 DEF OracleNext

-----------------------------------------------------------------------------
(***************************************************************************)
(* The inductive invariant.                                                *)
(***************************************************************************)

LEMMA OracleInitInv == OracleInit => OracleInv
<1> USE CertsAssumption, CalldataAssumption, ProviderAssumption, ChainAssumption,
        ProxyAssumption, OracleAssumption, StoresAssumption
<1> SUFFICES ASSUME OracleInit
             PROVE  OracleInv
  OBVIOUS
<1>1. IndInv
  BY InitInv DEF OracleInit
<1>2. TrueStore(kv)
  BY DEF OracleInit
<1>3. StoreTypes
  <2>1. fetched \in Seq(Nat) /\ DOMAIN kv \subseteq Keys
    BY <1>2 DEF OracleInit, TrueStore
  <2>2. asked \in BOOLEAN /\ host \in {"up", "down"} /\ last_hint \in Certs \cup {OtherHint}
    BY Zenon DEF OracleInit
  <2> QED
    BY Zenon, <2>1, <2>2 DEF StoreTypes
<1>4. StoreIsTrue
  BY <1>2 DEF StoreIsTrue, TrueStore
<1>5. FetchedIsPrefix
  BY DEF OracleInit, FetchedIsPrefix
<1> QED
  BY <1>1, <1>3, <1>4, <1>5 DEF OracleInv

LEMMA OracleNextInv == OracleInv /\ [OracleNext]_oracle_vars => OracleInv'
<1> USE CertsAssumption, CalldataAssumption, ProviderAssumption, ChainAssumption,
        ProxyAssumption, OracleAssumption, StoresAssumption
<1> SUFFICES ASSUME OracleInv, [OracleNext]_oracle_vars
             PROVE  OracleInv'
  OBVIOUS
<1>1. IndInv'
  BY OracleStepIsSourceStep, NextInv DEF OracleInv
<1>2. pc \in {"validity", "payload"} => altda_commitment \in Certs
  BY DEF OracleInv, IndInv, SourceInv, TypeOK
<1> SUFFICES StoreTypes' /\ StoreIsTrue' /\ FetchedIsPrefix'
  BY <1>1 DEF OracleInv
<1>3. CASE OracleCall \/ OracleEthStep \/ \E b \in Blocks : OracleReset(b)
  <2>1. UNCHANGED <<kv, host, asked, fetched>> /\ ~asked
    BY <1>3 DEF OracleCall, OracleEthStep, OracleReset, host_vars, client_vars, NextCall,
                EthStep, EthEof, EthSkip, EthRaw, EthCommitment, EthError, Reset,
                OracleInv, FetchedIsPrefix
  <2>2. last_hint' \in Certs \cup {OtherHint}
    BY <1>3 DEF OracleCall, OracleEthStep, OracleReset, host_vars, OracleInv, StoreTypes
  <2> QED
    BY <2>1, <2>2 DEF OracleInv, StoreTypes, StoreIsTrue, TrueStore, FetchedIsPrefix
<1>4. CASE SendHint
  <2>1. altda_commitment.length \in Nat /\ altda_commitment \in Certs
    BY <1>2, <1>4, CertFields DEF SendHint
  <2> QED
    BY <1>4, <2>1 DEF SendHint, vars, OracleInv, StoreTypes, StoreIsTrue, TrueStore, FetchedIsPrefix
<1>5. CASE \E r \in AnyReply : HandleHint(r)
  <2>1. PICK r \in AnyReply : HandleHint(r)
    BY <1>5
  <2>2. TrueStore(kv)
    BY DEF OracleInv, StoreTypes, StoreIsTrue, TrueStore
  <2>3. TrueStore(kv')
    BY <2>1, <2>2, FetchKeepsStoreTrue DEF HandleHint
  <2>4. host' \in {"up", "down"}
    BY <2>1 DEF HandleHint, FetchEigendaHint, OracleInv, StoreTypes
  <2>5. StoreIsTrue'
    BY <2>3 DEF TrueStore, StoreIsTrue
  <2> QED
    BY <2>1, <2>3, <2>4, <2>5
    DEF HandleHint, vars, client_vars, TrueStore, OracleInv, StoreTypes, FetchedIsPrefix
<1>6. CASE ReceiveFieldElement
  <2> DEFINE c == altda_commitment
             k == FieldElementKey(c, Len(fetched))
  <2>1. /\ asked
        /\ pc = "payload"
        /\ c \in Certs
        /\ fetched \in Seq(Nat)
        /\ Len(fetched) < c.length
        /\ k \in DOMAIN kv
        /\ fetched' = Append(fetched, kv[k])
    BY <1>6 DEF ReceiveFieldElement, OracleInv, FetchedIsPrefix, StoreTypes
  <2>2. c.length \in Nat /\ Len(fetched) \in 0..(c.length - 1)
    BY <2>1, CertFields
  <2>3. kv[k] = BlobOf[c][Len(fetched) + 1]
    BY <2>1, <2>2 DEF OracleInv, StoreIsTrue, TrueStore
  <2>4. kv[k] \in Nat
    BY <2>1, <2>2, <2>3, CertFields
  <2>5. fetched' \in Seq(Nat) /\ Len(fetched') = Len(fetched) + 1
    BY <2>1, <2>4
  <2>6. \A i \in 1..Len(fetched') : fetched'[i] = BlobOf[c][i]
    BY <2>1, <2>3, <2>4, <2>5 DEF OracleInv, FetchedIsPrefix
  <2>7. StoreTypes' /\ StoreIsTrue'
    BY <1>6, <2>5 DEF ReceiveFieldElement, host_vars, OracleInv, StoreTypes, StoreIsTrue, TrueStore
  <2> QED
    BY <1>6, <2>1, <2>2, <2>5, <2>6, <2>7
    DEF ReceiveFieldElement, vars, FetchedIsPrefix
<1>7. CASE ReceiveValidity \/ ReturnPayload \/ OracleError
  <2>1. UNCHANGED <<kv, last_hint, host>>
    BY <1>7 DEF ReceiveValidity, ReturnPayload, OracleError, host_vars
  <2>2. asked' = FALSE
    BY <1>7 DEF ReceiveValidity, ReturnPayload, OracleError
  <2>3. fetched' = fetched \/ fetched' = << >>
    BY <1>7 DEF ReceiveValidity, ReturnPayload, OracleError
  <2>4. StoreTypes'
    <3>1. fetched \in Seq(Nat)
      BY DEF OracleInv, StoreTypes
    <3>2. << >> \in Seq(Nat)
      OBVIOUS
    <3>3. fetched' \in Seq(Nat)
      BY Zenon, <2>3, <3>1, <3>2
    <3> QED
      BY Zenon, <2>1, <2>2, <3>3 DEF OracleInv, StoreTypes
  <2>5. StoreIsTrue'
    BY <2>1 DEF OracleInv, StoreIsTrue, TrueStore
  <2>6. FetchedIsPrefix'
    BY <2>2 DEF FetchedIsPrefix
  <2> QED
    BY <2>4, <2>5, <2>6
<1>8. CASE HostEnds
  BY <1>8 DEF HostEnds, vars, client_vars,
              OracleInv, StoreTypes, StoreIsTrue, TrueStore, FetchedIsPrefix
<1>9. CASE OracleDone \/ UNCHANGED oracle_vars
  BY <1>9 DEF OracleDone, oracle_vars, vars, host_vars, client_vars,
              OracleInv, StoreTypes, StoreIsTrue, FetchedIsPrefix
<1> QED
  BY <1>3, <1>4, <1>5, <1>6, <1>7, <1>8, <1>9 DEF OracleNext

\* Whatever lies in the store is a number.
LEMMA OracleInvType == OracleInv => OracleTypeOK
<1> USE CertsAssumption, CalldataAssumption, ProviderAssumption, ChainAssumption,
        ProxyAssumption, OracleAssumption, StoresAssumption
<1> SUFFICES ASSUME OracleInv
             PROVE  OracleTypeOK
  OBVIOUS
<1>1. ASSUME NEW k \in DOMAIN kv
      PROVE  kv[k] \in Nat
  <2>1. /\ k \in [digest : Certs, api : {0, 1}, index : Nat]
        /\ IF k.api = 1 THEN k.index = 0 ELSE k.index < k.digest.length
    BY DEF OracleInv, StoreTypes, Keys
  <2>2. k.digest \in Certs /\ k.index \in Nat
        /\ k = [digest |-> k.digest, api |-> k.api, index |-> k.index]
    BY <2>1
  <2>3. CASE k.api = 1
    <3>1. k = ValidityKey(k.digest)
      BY <2>1, <2>2, <2>3 DEF ValidityKey, Template, ToDigest
    <3> QED
      BY <2>2, <3>1 DEF OracleInv, StoreIsTrue, TrueStore
  <2>4. CASE k.api = 0
    <3>1. k = FieldElementKey(k.digest, k.index)
      BY <2>2, <2>4 DEF FieldElementKey, Template, ToDigest
    <3>2. /\ k.digest.length \in Nat /\ k.index \in 0..(k.digest.length - 1)
          /\ BlobOf[k.digest] \in Seq(Nat)
          /\ k.index + 1 \in 1..Len(BlobOf[k.digest])
      BY <2>1, <2>2, <2>4, CertFields
    <3>3. kv[k] = BlobOf[k.digest][k.index + 1]
      BY <2>2, <3>1, <3>2 DEF OracleInv, StoreIsTrue, TrueStore
    <3> QED
      BY <3>2, <3>3
  <2> QED
    BY <2>1, <2>3, <2>4
<1> QED
  BY <1>1 DEF OracleInv, IndInv, StoreTypes, OracleTypeOK

\* Client, host and store keep their types: every address in the store belongs
\* to a certificate, and what lies under it is a number.
THEOREM OracleTypeCorrect == OracleSpec => []OracleTypeOK
  BY OracleInvType, OracleInitInv, OracleNextInv, PTL DEF OracleSpec

\* The store of the host never holds a wrong answer, whatever interrupts the
\* handling of a hint and however often it is handled (handler.rs).
THEOREM StoreIsTrueTheorem == OracleSpec => []StoreIsTrue
<1>1. OracleInv => StoreIsTrue
  BY DEF OracleInv
<1> QED
  BY <1>1, OracleInitInv, OracleNextInv, PTL DEF OracleSpec

\* Client and host together implement the data source over a truthful
\* provider (eigenda_provider.rs, handler.rs).
THEOREM OracleRefinement == OracleSpec => OracleRefinesSource
<1>1. OracleInit => Init
  BY DEF OracleInit
<1> QED
  BY <1>1, OracleInitInv, OracleNextInv, OracleStepIsSourceStep, PTL
  DEF OracleSpec, OracleRefinesSource, Spec

\* So the data handed up is exactly what the inbox means.
THEOREM OracleDerivesExactly == OracleSpec => []DerivedExactly
  BY OracleRefinement, DerivedExactlyTheorem, PTL DEF OracleRefinesSource


-----------------------------------------------------------------------------
(***************************************************************************)
(* What the pipeline has handed up is the beginning of what the inbox says.*)
(***************************************************************************)

LEMMA ContributionsType ==
    ASSUME TypeOK, NEW b \in Blocks
    PROVE  /\ Contributions(b) \in Seq(Seq(Data))
           /\ Len(Contributions(b)) = Len(chain[b])
           /\ Len(chain[b]) \in Nat
           /\ \A k \in 1..Len(chain[b]) :
                Contributions(b)[k] = IF Delivers(chain[b][k], b)
                                      THEN <<DataOf(chain[b][k])>> ELSE << >>
<1> DEFINE N == Len(chain[b])
<1>1. chain[b] \in Seq(Calldata) /\ N \in Nat
  BY ChainAssumption DEF TypeOK
<1>2. ASSUME NEW k \in 1..N
      PROVE  (IF Delivers(chain[b][k], b) THEN <<DataOf(chain[b][k])>> ELSE << >>)
                \in Seq(Data)
  <2>1. chain[b][k] \in Calldata
    BY ItemType
  <2>2. Delivers(chain[b][k], b) => DataOf(chain[b][k]) \in Data
    <3>1. CASE IsRaw(chain[b][k])
      BY <2>1, <3>1 DEF DataOf, Data
    <3>2. CASE ~IsRaw(chain[b][k]) /\ Delivers(chain[b][k], b)
      <4>1. /\ IsCommitment(chain[b][k])
            /\ Decode[BlobOf[Parse(chain[b][k])]] # DecodeError
        BY <3>2 DEF Delivers, CertDelivers
      <4>2. Parse(chain[b][k]) \in Certs
        BY <2>1, <4>1, ParseType
      <4>3. Decode[BlobOf[Parse(chain[b][k])]] \in Frames
        BY <4>1, <4>2, ProviderAssumption
      <4> QED
        BY <3>2, <4>3 DEF DataOf, Data
    <3> QED
      BY <3>1, <3>2
  <2> QED
    BY <2>2
<1>3. Contributions(b) =
        [k \in 1..N |-> IF Delivers(chain[b][k], b)
                        THEN <<DataOf(chain[b][k])>> ELSE << >>]
  BY DEF Contributions
<1> HIDE DEF N
<1>4. Contributions(b) \in Seq(Seq(Data)) /\ Len(Contributions(b)) = N
  BY <1>1, <1>2, <1>3
<1> QED
  BY <1>1, <1>3, <1>4 DEF N

\* DerivedFrom leaves no choice: the data is that of the items, put together.
LEMMA DerivedData ==
    ASSUME TypeOK, NEW b \in Blocks, NEW entries \in Seq(Entry),
           NEW n \in 0..Len(chain[b]), DerivedFrom(chain[b], entries, n, b)
    PROVE  DataIn(entries) = ConcatUpTo(Contributions(b))[n]
<1> DEFINE N == Len(chain[b])
           u == ConcatUpTo(Contributions(b))
           Determined(m) == \A e \in Seq(Entry) :
                              DerivedFrom(chain[b], e, m, b) => DataIn(e) = u[m]
           S == {m \in Nat : m <= N => Determined(m)}
<1>1. /\ N \in Nat
      /\ \A k \in 1..N : Contributions(b)[k] = IF Delivers(chain[b][k], b)
                                      THEN <<DataOf(chain[b][k])>> ELSE << >>
  BY ContributionsType
<1>2. u[0] = << >>
  BY ContributionsType, ConcatSteps
<1>3. ASSUME NEW k \in 1..N
      PROVE  u[k] = u[k - 1] \o Contributions(b)[k]
  BY ContributionsType, ConcatSteps, Zenon
<1>4. ASSUME NEW k \in 0..N
      PROVE  u[k] \in Seq(Data)
  BY ContributionsType, ConcatSteps, Zenon
<1> HIDE DEF N, u
<1>5. Determined(0)
  <2> SUFFICES ASSUME NEW e \in Seq(Entry), DerivedFrom(chain[b], e, 0, b)
               PROVE  DataIn(e) = << >>
    BY <1>2
  <2>1. {e[i].pos : i \in DOMAIN e} = {k \in 1..0 : Delivers(chain[b][k], b)}
    BY DEF DerivedFrom
  <2>2. ASSUME NEW i \in DOMAIN e
        PROVE  FALSE
    <3>1. e[i].pos \in 1..0
      BY <2>1
    <3> QED
      BY <3>1
  <2>3. DOMAIN e = {}
    BY <2>2
  <2>4. e = << >>
    BY <2>3
  <2> QED
    BY <2>4 DEF DataIn
<1>12. ASSUME NEW m \in Nat, Delivers(chain[b][m + 1], b),
              NEW e \in Seq(Entry), DerivedFrom(chain[b], e, m + 1, b)
       PROVE  \E before \in Seq(Entry) :
                /\ DerivedFrom(chain[b], before, m, b)
                /\ e = Append(before, EntryOf(chain[b], m + 1))
  <2>1. OneMore(chain[b], e, m, b)
    BY <1>12, DerivedFromBack
  <2> QED
    BY <2>1 DEF OneMore
<1>6. ASSUME NEW m \in 0..(N - 1), Determined(m)
      PROVE  Determined(m + 1)
  <2> SUFFICES ASSUME NEW e \in Seq(Entry), DerivedFrom(chain[b], e, m + 1, b)
               PROVE  DataIn(e) = u[m + 1]
    OBVIOUS
  <2>1. m \in Nat /\ m + 1 \in 1..N /\ (m + 1) - 1 = m /\ m \in 0..N
    BY <1>1
  <2>2. u[m + 1] = u[m] \o Contributions(b)[m + 1]
    BY <1>3, <2>1, Zenon
  <2>3. u[m] \in Seq(Data)
    BY <1>4, <2>1
  <2>4. CASE ~Delivers(chain[b][m + 1], b)
    <3>1. DerivedFrom(chain[b], e, m, b)
      BY <2>1, <2>4, DerivedFromBack
    <3>2. Contributions(b)[m + 1] = << >>
      BY <1>1, <2>1, <2>4
    <3>3. DataIn(e) = u[m]
      BY <1>6, <3>1
    <3>4. u[m] \o << >> = u[m]
      BY <2>3
    <3> QED
      BY <2>2, <3>2, <3>3, <3>4, Zenon
  <2>5. CASE Delivers(chain[b][m + 1], b)
    <3>0. PICK before \in Seq(Entry) :
            /\ DerivedFrom(chain[b], before, m, b)
            /\ e = Append(before, EntryOf(chain[b], m + 1))
      BY <1>12, <2>1, <2>5
    <3>1. /\ DerivedFrom(chain[b], before, m, b)
          /\ DataIn(e) = Append(DataIn(before), DataOf(chain[b][m + 1]))
      <4> DEFINE L == Len(before)
      <4>1. /\ L \in Nat /\ DOMAIN before = 1..L /\ DOMAIN e = 1..(L + 1)
            /\ \A i \in 1..L : e[i] = before[i]
            /\ e[L + 1].data = DataOf(chain[b][m + 1])
        BY <3>0 DEF EntryOf
      <4>2. /\ DataIn(before) = [i \in 1..L |-> before[i].data]
            /\ DataIn(e) = [i \in 1..(L + 1) |-> e[i].data]
        BY <4>1 DEF DataIn
      <4> HIDE DEF L
      <4> QED
        BY <3>0, <4>1, <4>2
    <3>2. Contributions(b)[m + 1] = <<DataOf(chain[b][m + 1])>>
      BY <1>1, <2>1, <2>5
    <3>3. DataIn(before) = u[m]
      BY <1>6, <3>1
    <3>4. Append(u[m], DataOf(chain[b][m + 1])) = u[m] \o <<DataOf(chain[b][m + 1])>>
      <4> DEFINE x == DataOf(chain[b][m + 1])
      <4>1. u[m] \in Seq(Data \cup {x}) /\ x \in Data \cup {x}
        BY <2>3
      <4> HIDE DEF x
      <4> QED
        BY <4>1, AppendIsConcat DEF x
    <3> QED
      BY <2>2, <3>1, <3>2, <3>3, <3>4, Zenon
  <2> QED
    BY <2>4, <2>5
<1> HIDE DEF Determined
<1>7. 0 \in S
  BY <1>5
<1>8. ASSUME NEW m \in 0..(N - 1), m \in S
      PROVE  m + 1 \in S
  BY <1>1, <1>6, <1>8
<1>9. 0..N \subseteq S
  <2> HIDE DEF S
  <2> QED
    BY <1>1, <1>7, <1>8, InductionUpTo
<1>10. n \in S /\ n <= N
  BY <1>1, <1>9 DEF N
<1>11. Determined(n)
  BY <1>10
<1> QED
  BY <1>11 DEF Determined, u


USE NativeAssumption

-----------------------------------------------------------------------------
(***************************************************************************)
(* The run is one of OracleHost.                                           *)
(***************************************************************************)

LEMMA NativeStepIsOracleStep == [NativeNext]_all_vars => [OracleNext]_oracle_vars
<1> SUFFICES ASSUME [NativeNext]_all_vars
             PROVE  [OracleNext]_oracle_vars
  OBVIOUS
<1>1. CASE StartFails \/ Start \/ ServerBreaks \/ NativeExit \/ ServerExit
           \/ Prologue \/ Execute \/ Conclude \/ ClientFails
           \/ NativeDone \/ UNCHANGED all_vars
  BY <1>1 DEF StartFails, Start, ServerBreaks, NativeExit, ServerExit, Prologue,
              Execute, Conclude, ClientFails, NativeDone, all_vars
<1>2. CASE GiveUp \/ ChannelCloses \/ Serve
  BY <1>2 DEF GiveUp, ChannelCloses, Serve, OracleNext
<1>3. CASE Derivation \/ TransientError
  BY <1>3 DEF Derivation, TransientError, OracleNext
<1> QED
  BY <1>1, <1>2, <1>3 DEF NativeNext, HostStep, ClientStep

\* Starting, stopping and the verdict of the client add nothing to what client
\* and host do to the store and to the pipeline (cfg.rs, fp_client.rs).
THEOREM NativeImplementsOracle == NativeSpec => OracleSpec
<1>1. NativeInit => OracleInit
  BY DEF NativeInit
<1> QED
  BY <1>1, NativeStepIsOracleStep, PTL DEF NativeSpec, OracleSpec

\* So the store of the host is never wrong, in online and offline runs.
THEOREM NativeStoreIsTrue == NativeSpec => []StoreIsTrue
  BY NativeImplementsOracle, StoreIsTrueTheorem, PTL

\* And the client derives from what a truthful provider would have given.
THEOREM NativeRefinement == NativeSpec => OracleRefinesSource
  BY NativeImplementsOracle, OracleRefinement, PTL

-----------------------------------------------------------------------------
(***************************************************************************)
(* The exit code.  The two tasks are tied together by the channel: if the  *)
(* server breaks, the client is waiting for something it will not get.     *)
(***************************************************************************)

\* The client cannot come to a verdict without the channel.
Waiting ==
    \/ pc = "halted"
    \/ asked /\ Wanted # {}
    \/ pc = "eth" /\ ~eth.open

Doomed == client \in {"prologue", "error"} \/ (client = "derive" /\ Waiting)

TasksInv ==
    /\ task \in {"none", "running", "returned", "failed", "panicked"}
    /\ task = "none" => client = "none" /\ host = "up"
    /\ task = "returned" => client \in Verdicts
    /\ task \in {"failed", "panicked"} => host = "down"
    /\ client = "none" => task = "none"
    /\ pc \in {"eth", "validity", "payload"} => client = "derive"
    /\ (host = "down" /\ task # "returned") => Doomed

ExitInv == OracleInv /\ TasksInv /\ ExitIsVerdict

LEMMA ExitInitInv == NativeInit => ExitInv
<1> SUFFICES ASSUME NativeInit
             PROVE  ExitInv
  OBVIOUS
<1>1. OracleInv
  BY OracleInitInv DEF NativeInit
<1>2. TasksInv
  BY DEF NativeInit, OracleInit, Init, TasksInv
<1>3. ExitIsVerdict
  BY DEF NativeInit, ExitIsVerdict
<1> QED
  BY <1>1, <1>2, <1>3 DEF ExitInv

\* The steps of the program around the pipeline.
LEMMA HostStepInv ==
    ASSUME ExitInv, exit = "none", HostStep
    PROVE  TasksInv' /\ ExitIsVerdict'
<1>1. CASE StartFails
  BY <1>1 DEF StartFails, ExitInv, TasksInv, ExitIsVerdict, oracle_vars, vars,
              host_vars, client_vars, Doomed, Waiting, Wanted
<1>2. CASE Start
  BY <1>2 DEF Start, ExitInv, TasksInv, ExitIsVerdict, oracle_vars, vars,
              host_vars, client_vars, Doomed, Waiting, Wanted
<1>3. CASE GiveUp
  <2>1. Missing => Doomed
    BY <1>3 DEF Missing, Doomed, Waiting, GiveUp, ExitInv, TasksInv, OracleInv,
                FetchedIsPrefix
  <2> QED
    BY <1>3, <2>1 DEF GiveUp, HostEnds, native_vars, ExitInv, TasksInv,
                      ExitIsVerdict, vars, client_vars, Doomed, Waiting, Wanted
<1>4. CASE ChannelCloses
  BY <1>4 DEF ChannelCloses, HostEnds, ExitInv, TasksInv, ExitIsVerdict, vars,
              client_vars, Verdicts
<1>5. CASE ServerBreaks
  BY <1>5 DEF ServerBreaks, ExitInv, TasksInv, ExitIsVerdict, oracle_vars, vars,
              host_vars, client_vars, Doomed, Waiting, Wanted
<1>6. CASE NativeExit
  <2>1. TasksInv'
    BY <1>6 DEF NativeExit, ExitInv, TasksInv, oracle_vars, vars,
                host_vars, client_vars, Doomed, Waiting, Wanted
  <2>2. task = "panicked" => client # "ok"
    BY DEF ExitInv, TasksInv, Doomed
  <2>3. ExitIsVerdict'
    BY <1>6, <2>2 DEF NativeExit, ExitIsVerdict
  <2> QED
    BY <2>1, <2>3
<1>7. CASE ServerExit
  BY <1>7 DEF ServerExit, ExitInv, TasksInv, ExitIsVerdict, oracle_vars, vars,
              host_vars, client_vars, Doomed, Waiting, Wanted
<1> QED
  BY <1>1, <1>2, <1>3, <1>4, <1>5, <1>6, <1>7 DEF HostStep

\* The steps of the pipeline leave the program around it alone; if the channel
\* is closed, they bring the client no further.
LEMMA PipelineStepInv ==
    ASSUME ExitInv, Serve \/ Derivation \/ TransientError
    PROVE  TasksInv' /\ ExitIsVerdict'
<1>0. asked => pc \in {"validity", "payload"}
  BY DEF ExitInv, OracleInv, FetchedIsPrefix
<1>1. UNCHANGED native_vars
  BY DEF Serve, Derivation, TransientError
<1>2. ExitIsVerdict'
  BY <1>1 DEF native_vars, ExitInv, ExitIsVerdict
<1> SUFFICES TasksInv'
  BY <1>2
<1>3. CASE Serve
  <2>1. PICK r \in AnyReply : HandleHint(r)
    BY <1>3 DEF Serve
  <2>2. asked /\ Wanted # {} /\ UNCHANGED <<pc, asked, Wanted>>
    BY <2>1 DEF HandleHint, vars, client_vars, Wanted
  <2>3. client = "derive" /\ task = "running"
    BY <1>0, <1>3, <2>2 DEF Serve, ExitInv, TasksInv
  <2> QED
    BY <1>1, <2>2, <2>3 DEF native_vars, ExitInv, TasksInv, Doomed, Waiting
<1>4. CASE Advancing /\ OracleCall
  BY <1>0, <1>1, <1>4 DEF Advancing, OracleCall, NextCall, host_vars, client_vars,
              native_vars, ExitInv, TasksInv, Doomed, Waiting
<1>5. CASE OracleEthStep
  <2>1. pc = "eth" /\ client = "derive" /\ host' = host /\ ~asked
    BY <1>0, <1>5 DEF OracleEthStep, EthStep, EthEof, EthSkip, EthRaw, EthCommitment,
              EthError, ExitInv, TasksInv
  <2>2. host = "down" /\ task # "returned" => pc' = "halted"
    <3>1. ~eth.open => EthError(IF host = "up" THEN "temporary" ELSE "critical")
                       \/ host = "up"
      BY <1>5 DEF OracleEthStep
    <3>2. host = "down" /\ task # "returned" => ~eth.open
      BY <2>1 DEF ExitInv, TasksInv, Doomed, Waiting
    <3> QED
      BY <3>1, <3>2 DEF EthError, Fail
  <2>3. task # "returned"
    BY <2>1 DEF ExitInv, TasksInv, Verdicts
  <2> QED
    BY <1>1, <2>1, <2>2, <2>3 DEF native_vars, ExitInv, TasksInv, Doomed, Waiting
<1>6. CASE SendHint
  <2>1. host' = host /\ host = "up" /\ pc' = pc
    BY <1>6 DEF SendHint, vars
  <2> QED
    BY <1>1, <2>1 DEF native_vars, ExitInv, TasksInv
<1>7. CASE ReceiveValidity \/ ReceiveFieldElement
  <2>1. host' = host /\ host = "up" /\ pc \in {"validity", "payload"}
    BY <1>7 DEF ReceiveValidity, ReceiveFieldElement, host_vars
  <2> QED
    BY <1>1, <2>1 DEF native_vars, ExitInv, TasksInv
<1>8. CASE ReturnPayload
  <2>1. host' = host /\ pc = "payload" /\ client = "derive"
    BY <1>8 DEF ReturnPayload, host_vars, ExitInv, TasksInv
  <2>2. Wanted = {}
    <3>1. altda_commitment \in Certs /\ Len(fetched) = altda_commitment.length
      BY <1>8 DEF ReturnPayload, ExitInv, OracleInv, FetchedIsPrefix
    <3>2. altda_commitment.length \in Nat
      BY <3>1, CertFields
    <3>3. (Len(fetched) + 1)..altda_commitment.length = {}
      BY <3>1, <3>2
    <3> QED
      BY <2>1, <3>3 DEF Wanted
  <2>3. task # "returned" /\ host # "down"
    BY <2>1, <2>2 DEF ExitInv, TasksInv, Verdicts, Doomed, Waiting
  <2> QED
    BY <1>1, <2>1, <2>3 DEF native_vars, ExitInv, TasksInv
<1>9. CASE OracleError
  <2>1. /\ pc \in {"validity", "payload"} /\ client = "derive" /\ host' = host
        /\ host = "up" \/ pc' = "halted"
    BY <1>9 DEF OracleError, ProviderError, Fail, host_vars, ExitInv, TasksInv
  <2>2. pc' \in {"idle", "halted"}
    BY <1>9 DEF OracleError, ProviderError, Fail
  <2> QED
    BY <1>1, <2>1, <2>2 DEF native_vars, ExitInv, TasksInv, Doomed, Waiting
<1>10. CASE Advancing /\ \E b \in Blocks : OracleReset(b)
  <2>1. pc = "idle" /\ pc' = pc /\ host' = host /\ client = "derive"
    BY <1>10 DEF Advancing, OracleReset, Reset, host_vars
  <2> QED
    BY <1>0, <1>1, <2>1 DEF native_vars, ExitInv, TasksInv, Doomed, Waiting
<1> QED
  BY <1>3, <1>4, <1>5, <1>6, <1>7, <1>8, <1>9, <1>10 DEF Derivation, TransientError

\* The steps in which the client comes to an end, or to its next block.
LEMMA ClientStepInv ==
    ASSUME ExitInv, Alive, Prologue \/ Execute \/ Conclude \/ ClientFails
    PROVE  TasksInv' /\ ExitIsVerdict'
<1>0. asked => pc \in {"validity", "payload"}
  BY DEF ExitInv, OracleInv, FetchedIsPrefix
<1>1. UNCHANGED oracle_vars /\ UNCHANGED <<settings, claim, task, exit>>
  BY DEF Prologue, Execute, Conclude, ClientFails
<1>2. ExitIsVerdict'
  BY <1>1 DEF Alive, ExitIsVerdict
<1>3. client \in {"prologue", "derive"} /\ client' \in {"derive"} \cup Verdicts
  BY DEF Prologue, Execute, Conclude, ClientFails, Verdicts
<1>4. CASE Prologue
  BY <1>1, <1>2, <1>3, <1>4 DEF Prologue, oracle_vars, vars, host_vars, ExitInv, TasksInv,
                          Verdicts
<1>5. CASE Execute \/ Conclude
  <2>1. pc = "idle" /\ client = "derive"
    BY <1>5 DEF Execute, Conclude
  <2>2. host # "down" \/ task = "returned"
    BY <1>0, <2>1 DEF ExitInv, TasksInv, Doomed, Waiting
  <2> QED
    BY <1>1, <1>2, <1>3, <2>1, <2>2 DEF oracle_vars, vars, host_vars, ExitInv,
                                        TasksInv, Verdicts
<1>6. CASE ClientFails
  BY <1>1, <1>2, <1>3, <1>6 DEF ClientFails, oracle_vars, vars, host_vars, ExitInv,
                                TasksInv, Verdicts, Doomed
<1> QED
  BY <1>2, <1>4, <1>5, <1>6

LEMMA ExitNextInv == ExitInv /\ [NativeNext]_all_vars => ExitInv'
<1> SUFFICES ASSUME ExitInv, [NativeNext]_all_vars
             PROVE  ExitInv'
  OBVIOUS
<1>1. OracleInv'
  BY NativeStepIsOracleStep, OracleNextInv DEF ExitInv
<1> SUFFICES TasksInv' /\ ExitIsVerdict'
  BY <1>1 DEF ExitInv
<1>2. CASE exit = "none" /\ HostStep
  BY <1>2, HostStepInv
<1>3. CASE Serve \/ Derivation \/ TransientError
  BY <1>3, PipelineStepInv
<1>4. CASE Alive /\ (Prologue \/ Execute \/ Conclude \/ ClientFails)
  BY <1>4, ClientStepInv
<1>5. CASE NativeDone \/ UNCHANGED all_vars
  BY <1>5 DEF NativeDone, all_vars, native_vars, oracle_vars, vars, host_vars,
              client_vars, ExitInv, TasksInv, ExitIsVerdict, Doomed, Waiting, Wanted
<1> QED
  BY <1>2, <1>3, <1>4, <1>5 DEF NativeNext, ClientStep

\* The exit code of a native run is the verdict of its client, although the
\* result of the server is dropped and either task may end first (cfg.rs,
\* start_native).
THEOREM ExitIsVerdictTheorem == NativeSpec => []ExitIsVerdict
<1>1. ExitInv => ExitIsVerdict
  BY DEF ExitInv
<1> QED
  BY <1>1, ExitInitInv, ExitNextInv, PTL DEF NativeSpec

-----------------------------------------------------------------------------
(***************************************************************************)
(* The verdict of the client.                                              *)
(***************************************************************************)

\* What has been handed up begins what the inbox says, and is all of it once
\* every block is read.
LEMMA HandedBegins ==
    ASSUME IndInv
    PROVE  /\ Handed \in Seq(Data) /\ TrueL2 \in Seq(Data)
           /\ Begins(Handed, TrueL2)
           /\ Finished => Handed = TrueL2
<1> DEFINE h == [b \in Blocks |-> DataIn(out[b])]
           t == [b \in Blocks |-> Concat(Contributions(b))]
<1>0. /\ TypeOK /\ origin \in Nat /\ origin <= LastBlock + 1 /\ LastBlock \in Nat
      /\ Blocks = 1..LastBlock
  BY ChainAssumption DEF IndInv, TypeOK, Blocks
<1>1. ASSUME NEW b \in Blocks
      PROVE  /\ out[b] \in Seq(Entry)
             /\ Settled(b) \in 0..Len(chain[b])
             /\ DataIn(out[b]) = ConcatUpTo(Contributions(b))[Settled(b)]
             /\ DataIn(out[b]) \in Seq(Data)
             /\ Concat(Contributions(b)) \in Seq(Data)
  <2>1. out[b] \in Seq(Entry) /\ chain[b] \in Seq(Calldata) /\ Len(chain[b]) \in Nat
    BY <1>0, ChainAssumption DEF TypeOK
  <2>2. Settled(b) \in 0..Len(chain[b])
    <3>1. CASE b = origin /\ eth.open
      <4>1. eth.popped \in 0..Len(chain[b])
        BY <3>1 DEF IndInv, SourceInv
      <4>2. altda_commitment # NoCert => eth.popped \in 1..Len(chain[b])
        BY <3>1 DEF IndInv, HeldCommitmentIsCurrent
      <4> QED
        BY <1>0, <2>1, <3>1, <4>1, <4>2 DEF Settled
    <3>2. CASE ~(b = origin /\ eth.open)
      BY <2>1, <3>2 DEF Settled
    <3> QED
      BY <3>1, <3>2
  <2>3. DataIn(out[b]) = ConcatUpTo(Contributions(b))[Settled(b)]
    <3>1. DerivedFrom(chain[b], out[b], Settled(b), b)
      BY DEF IndInv, DerivedExactly
    <3> QED
      BY <1>0, <2>1, <2>2, <3>1, DerivedData
  <2>4. \A n \in 0..Len(chain[b]) : ConcatUpTo(Contributions(b))[n] \in Seq(Data)
    BY <1>0, ContributionsType, ConcatSteps, Zenon
  <2>5. Len(chain[b]) \in 0..Len(chain[b])
    BY <2>1
  <2>6. Concat(Contributions(b)) = ConcatUpTo(Contributions(b))[Len(chain[b])]
    BY <1>0, ContributionsType DEF Concat
  <2> QED
    BY <2>1, <2>2, <2>3, <2>4, <2>5, <2>6, Zenon
<1>2. /\ h \in Seq(Seq(Data)) /\ t \in Seq(Seq(Data))
      /\ Len(h) = LastBlock /\ Len(t) = LastBlock
      /\ \A b \in Blocks : h[b] = DataIn(out[b]) /\ t[b] = Concat(Contributions(b))
  BY <1>0, <1>1
<1>3. ASSUME NEW b \in 1..LastBlock
      PROVE  /\ b < origin => h[b] = t[b]
             /\ b = origin => Begins(h[b], t[b])
             /\ b > origin => h[b] = << >>
  <2>1. b \in Blocks /\ b \in Nat
    BY <1>0
  <2> DEFINE u == ConcatUpTo(Contributions(b))
  <2>2. /\ h[b] = u[Settled(b)] /\ t[b] = u[Len(chain[b])]
    BY <1>0, <1>1, <1>2, <2>1, ContributionsType, Zenon DEF Concat
  <2>3. b < origin => Settled(b) = Len(chain[b])
    BY DEF Settled
  <2>4. b > origin => Settled(b) = 0
    BY <1>0, <2>1 DEF Settled
  <2>5. u[0] = << >>
    BY <1>0, <2>1, ContributionsType, ConcatSteps, Zenon
  <2>6. Begins(u[Settled(b)], t[b])
    <3>1. /\ Contributions(b) \in Seq(Seq(Data))
          /\ Settled(b) \in 0..Len(Contributions(b))
          /\ t[b] = Concat(Contributions(b))
      BY <1>0, <1>1, <1>2, <2>1, ContributionsType
    <3>2. Begins(u[Settled(b)], Concat(Contributions(b)))
      BY <3>1, ConcatBegins
    <3> QED
      BY <3>1, <3>2, Zenon
  <2> HIDE DEF u, h, t
  <2> QED
    BY <2>2, <2>3, <2>4, <2>5, <2>6
<1>4. Handed = Concat(h) /\ TrueL2 = Concat(t)
  BY DEF Handed, TrueL2
<1> HIDE DEF h, t
<1>5. Begins(Concat(h), Concat(t)) /\ (origin > LastBlock => Concat(h) = Concat(t))
  BY <1>0, <1>2, <1>3, ConcatCompare
<1>6. Concat(h) \in Seq(Data) /\ Concat(t) \in Seq(Data)
  <2>1. LastBlock \in 0..LastBlock
    BY <1>0
  <2> QED
    BY <1>2, <2>1, ConcatSteps, Zenon DEF Concat
<1>7. Finished => origin > LastBlock
  BY <1>0 DEF Finished
<1> QED
  BY <1>4, <1>5, <1>6, <1>7, Zenon

\* The blocks executed begin what the inbox says and do not pass the claimed
\* number; before the client derives there are none.
L2Inv ==
    /\ settings \in Settings
    /\ claim \in Claims
    /\ client \in {"none", "prologue", "derive"} \cup Verdicts
    /\ exit \in {"none", "success", "failure"}
    /\ l2 \in Seq(Data)
    /\ Begins(l2, TrueL2)
    /\ client \in {"none", "prologue"} => l2 = << >>
    /\ client = "derive" => AgreedNumber + Len(l2) <= claim.number

VerdictInv == ExitInv /\ L2Inv /\ VerdictIsRight

LEMMA VerdictInitInv == NativeInit => VerdictInv
<1> SUFFICES ASSUME NativeInit
             PROVE  VerdictInv
  OBVIOUS
<1>1. ExitInv
  BY ExitInitInv
<1>2. TrueL2 \in Seq(Data)
  BY <1>1, HandedBegins DEF ExitInv, OracleInv
<1>3. l2 = << >> /\ Begins(l2, TrueL2) /\ l2 \in Seq(Data)
  BY <1>2 DEF NativeInit, Begins
<1>4. L2Inv
  BY <1>3, Zenon DEF NativeInit, L2Inv, Verdicts
<1>5. VerdictIsRight
  BY DEF NativeInit, VerdictIsRight
<1> QED
  BY <1>1, <1>4, <1>5 DEF VerdictInv

\* The inbox and the claim do not change, and so neither does what is true of
\* the claim.
LEMMA TruthIsFixed ==
    ASSUME [NativeNext]_all_vars
    PROVE  /\ chain' = chain /\ claim' = claim /\ settings' = settings
           /\ TrueL2' = TrueL2
           /\ ClaimHolds' = ClaimHolds
<1>1. claim' = claim /\ settings' = settings
  BY DEF NativeNext, HostStep, ClientStep, StartFails, Start, GiveUp, ChannelCloses,
         ServerBreaks, NativeExit, ServerExit, Serve, Prologue, Derivation, Execute,
         Conclude, ClientFails, TransientError, NativeDone, native_vars, all_vars
<1>2. [OracleNext]_oracle_vars
  BY NativeStepIsOracleStep
<1>3. chain' = chain
  BY <1>2 DEF OracleNext, OracleCall, OracleEthStep, SendHint, HandleHint, ReceiveValidity,
         ReceiveFieldElement, ReturnPayload, OracleError, OracleReset, HostEnds,
         OracleDone, oracle_vars, vars, NextCall, EthStep, EthEof, EthSkip, EthRaw,
         EthCommitment, EthError, OnValidity, OnPayload, ProviderError, Reset
<1>4. TrueL2' = TrueL2
  BY <1>3 DEF TrueL2, Contributions
<1> QED
  BY <1>1, <1>3, <1>4 DEF ClaimHolds

\* A claim that was reached, or that the inbox ends before, holds exactly if
\* its root is what was executed.
LEMMA ConcludeIsRight ==
    ASSUME OracleInv, L2Inv, Conclude
    PROVE  (l2 = claim.root) <=> ClaimHolds
<1> DEFINE n == claim.number - AgreedNumber
           length == IF n < Len(TrueL2) THEN n ELSE Len(TrueL2)
<1>1. /\ l2 \in Seq(Data) /\ Begins(l2, TrueL2)
      /\ AgreedNumber + Len(l2) <= claim.number
      /\ claim.number \in Nat /\ AgreedNumber \in Nat
  BY DEF L2Inv, Conclude
<1>2. /\ Handed \in Seq(Data) /\ TrueL2 \in Seq(Data) /\ Begins(Handed, TrueL2)
      /\ Finished => Handed = TrueL2
  BY HandedBegins DEF OracleInv
<1>3. Len(l2) \in Nat /\ Len(TrueL2) \in Nat /\ Len(l2) <= Len(TrueL2)
      /\ Len(Handed) \in Nat
  BY <1>1, <1>2 DEF Begins
<1>4. length = Len(l2)
  <2>1. CASE Reached
    <3>1. n = Len(l2)
      BY <1>1, <1>3, <2>1 DEF Reached
    <3> QED
      BY <1>3, <3>1
  <2>2. CASE ~Reached
    <3>1. Finished /\ ~(Len(l2) < Len(Handed))
      BY <2>2 DEF Conclude, CanExecute
    <3>2. Len(l2) = Len(TrueL2)
      BY <1>2, <1>3, <3>1
    <3>3. n > Len(l2)
      BY <1>1, <1>3, <2>2 DEF Reached
    <3> QED
      BY <1>1, <1>3, <3>2, <3>3
  <2> QED
    BY <2>1, <2>2
<1>5. SubSeq(TrueL2, 1, Len(l2)) = l2
  <2> DEFINE s == SubSeq(TrueL2, 1, Len(l2))
  <2>1. s \in Seq(Data) /\ Len(s) = Len(l2) /\ \A i \in 1..Len(l2) : s[i] = TrueL2[i]
    BY <1>2, <1>3
  <2> HIDE DEF s
  <2>2. \A i \in 1..Len(s) : s[i] = l2[i]
    BY <1>1, <2>1 DEF Begins
  <2>3. s = l2
    BY <1>1, <2>1, <2>2, SeqEqual
  <2> QED
    BY <2>3 DEF s
<1>6. claim.number >= AgreedNumber
  BY <1>1, <1>3
<1>7. ClaimHolds <=> claim.root = SubSeq(TrueL2, 1, length)
  BY <1>6 DEF ClaimHolds
<1> HIDE DEF length
<1> QED
  BY <1>4, <1>5, <1>7

LEMMA VerdictNextInv == VerdictInv /\ [NativeNext]_all_vars => VerdictInv'
<1> SUFFICES ASSUME VerdictInv, [NativeNext]_all_vars
             PROVE  VerdictInv'
  OBVIOUS
<1>1. ExitInv'
  BY ExitNextInv DEF VerdictInv
<1>2. /\ claim' = claim /\ settings' = settings
      /\ TrueL2' = TrueL2 /\ ClaimHolds' = ClaimHolds
  BY TruthIsFixed
<1>3. /\ l2 \in Seq(Data) /\ TrueL2 \in Seq(Data) /\ Handed \in Seq(Data)
      /\ Begins(l2, TrueL2) /\ Begins(Handed, TrueL2)
      /\ claim.number \in Nat /\ claim.root \in Seq(Data) /\ AgreedNumber \in Nat
  BY HandedBegins DEF VerdictInv, ExitInv, OracleInv, L2Inv
<1>4. exit' \in {"none", "success", "failure"}
  BY DEF NativeNext, HostStep, ClientStep, StartFails, Start, GiveUp, ChannelCloses,
         ServerBreaks, NativeExit, ServerExit, Serve, Prologue, Derivation, Execute,
         Conclude, ClientFails, TransientError, NativeDone, native_vars, all_vars,
         VerdictInv, L2Inv
<1> SUFFICES /\ client' \in {"none", "prologue", "derive"} \cup Verdicts
             /\ l2' \in Seq(Data)
             /\ Begins(l2', TrueL2)
             /\ client' \in {"none", "prologue"} => l2' = << >>
             /\ client' = "derive" => AgreedNumber + Len(l2') <= claim.number
             /\ client' = "ok" => ClaimHolds
                                  \/ (claim.root = << >> /\ claim.number >= AgreedNumber)
             /\ client' = "invalid" => ~ClaimHolds
  BY <1>1, <1>2, <1>4 DEF VerdictInv, L2Inv, VerdictIsRight
<1>5. CASE UNCHANGED <<client, l2>>
  BY <1>5 DEF VerdictInv, L2Inv, VerdictIsRight
<1>6. CASE Start
  <2>1. client = "none"
    BY <1>6 DEF Start, VerdictInv, ExitInv, TasksInv
  <2> QED
    BY <1>6, <2>1 DEF Start, VerdictInv, L2Inv
<1>7. CASE Prologue
  <2>1. client = "prologue" /\ l2 = << >> /\ l2' = l2 /\ Len(l2) = 0
    BY <1>7 DEF Prologue, VerdictInv, L2Inv
  <2>2. claim.number < AgreedNumber => ~ClaimHolds
    BY <1>3 DEF ClaimHolds
  <2> QED
    BY <1>3, <1>7, <2>1, <2>2 DEF Prologue, Verdicts
<1>8. CASE Execute
  <2> DEFINE n == Len(l2) + 1
  <2>1. /\ client = "derive" /\ client' = client
        /\ ~Reached /\ Len(l2) < Len(Handed)
        /\ l2' = Append(l2, Handed[n])
    BY <1>8 DEF Execute, CanExecute
  <2>2. n \in 1..Len(Handed) /\ Len(l2) \in Nat
    BY <1>3, <2>1
  <2>3. Handed[n] \in Data /\ Handed[n] = TrueL2[n] /\ n <= Len(TrueL2)
    BY <1>3, <2>2 DEF Begins
  <2>4. /\ l2' \in Seq(Data) /\ Len(l2') = n
        /\ \A i \in 1..Len(l2) : l2'[i] = l2[i]
        /\ l2'[n] = TrueL2[n]
    BY <1>3, <2>1, <2>3
  <2>5. Begins(l2', TrueL2)
    BY <1>3, <2>2, <2>3, <2>4 DEF Begins
  <2>6. AgreedNumber + n <= claim.number
    BY <1>3, <2>1, <2>2 DEF Reached
  <2> QED
    BY <2>1, <2>4, <2>5, <2>6
<1>9. CASE Conclude
  BY <1>3, <1>9, ConcludeIsRight DEF Conclude, VerdictInv, ExitInv, Verdicts
<1>10. CASE ClientFails
  BY <1>3, <1>10 DEF ClientFails, Verdicts
<1>11. Start \/ Prologue \/ Execute \/ Conclude \/ ClientFails \/ UNCHANGED <<client, l2>>
  BY DEF NativeNext, HostStep, ClientStep, StartFails, GiveUp, ChannelCloses,
         ServerBreaks, NativeExit, ServerExit, Serve, Derivation, TransientError,
         NativeDone, native_vars, all_vars
<1> QED
  BY <1>5, <1>6, <1>7, <1>8, <1>9, <1>10, <1>11

\* The verdict of the client is right: it is what the inbox says, for every
\* inbox, claim, proxy and store, however often the pipeline was reset, a hint
\* was handled again or the host process started over (run_fp_client).
THEOREM VerdictIsRightTheorem == NativeSpec => []VerdictIsRight
<1>1. VerdictInv => VerdictIsRight
  BY DEF VerdictInv
<1> QED
  BY <1>1, VerdictInitInv, VerdictNextInv, PTL DEF NativeSpec

\* The host program keeps its types.
THEOREM NativeTypeCorrect == NativeSpec => []NativeTypeOK
<1>1. VerdictInv => NativeTypeOK
  BY OracleInvType DEF VerdictInv, ExitInv, L2Inv, TasksInv, NativeTypeOK
<1> QED
  BY <1>1, VerdictInitInv, VerdictNextInv, PTL DEF NativeSpec

=============================================================================
