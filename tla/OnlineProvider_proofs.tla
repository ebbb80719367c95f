------------------------ MODULE OnlineProvider_proofs ------------------------
(***************************************************************************)
(* Proofs about OnlineProvider, for every set of certificates, every inbox *)
(* and every proxy that returns blobs (ProxyReturnsBlobs).                 *)
(***************************************************************************)
EXTENDS OnlineProvider, EigenDADataSource_proofs

USE CertsAssumption, CalldataAssumption, ProviderAssumption, ChainAssumption,
    ProxyAssumption

\* What the cache holds is an answer the proxy may give to its certificate.
CacheIsGenuine ==
    \/ last_entry = NoEntry
    \/ \E c \in Certs : \E r \in ProxyReplies[c] :
          Understood(r) /\ last_entry = [cert |-> c, response |-> r]

OnlineInv == IndInv /\ CacheIsGenuine /\ PayloadIsCached

-----------------------------------------------------------------------------
\* In a call that works on a certificate there is one.
LEMMA CertInHand ==
    ASSUME IndInv, pc \in {"validity", "payload"}
    PROVE  altda_commitment \in Certs
  BY DEF IndInv, TypeOK, SourceInv

\* A cached response is a genuine answer to the certificate it is cached for.
LEMMA CachedResponse ==
    ASSUME CacheIsGenuine, NEW c \in Certs, IsCached(c)
    PROVE  /\ last_entry.response \in ProxyReplies[c]
           /\ Understood(last_entry.response)
<1>1. last_entry # NoEntry
  BY DEF IsCached, NoEntry
<1> QED
  BY <1>1 DEF CacheIsGenuine, IsCached

\* So is every response that get_or_fetch_payload ends with, and it is in the
\* cache afterwards.
LEMMA FetchedResponse ==
    ASSUME CacheIsGenuine, NEW c \in Certs, NEW r, GetOrFetchPayload(c, r)
    PROVE  /\ r \in ProxyReplies[c]
           /\ Understood(r)
           /\ CacheIsGenuine'
           /\ last_entry'.cert = c
           /\ last_entry'.response = r
<1>1. CASE IsCached(c) /\ r = last_entry.response /\ UNCHANGED last_entry
  BY <1>1, CachedResponse DEF IsCached, CacheIsGenuine
<1>2. CASE /\ r \in ProxyReplies[c]
           /\ Understood(r)
           /\ last_entry' = [cert |-> c, response |-> r]
  BY <1>2 DEF CacheIsGenuine
<1> QED
  BY <1>1, <1>2 DEF GetOrFetchPayload

\* Such a response tells the truth, and one that declares the certificate
\* valid brings its blob.
LEMMA ResponseIsTrue ==
    ASSUME NEW c \in Certs, NEW r \in ProxyReplies[c], Understood(r)
    PROVE  /\ IsValidCert(r) = Valid[c]
           /\ IsValidCert(r) => EncodedPayload(r) = BlobOf[c]
<1>1. /\ IsValidCert(r) = Valid[c]
      /\ PassRecencyCheck(r)
      /\ IsSuccess(r) => r.body = BlobOf[c]
  BY ProxyReturnsBlobs
<1>2. IsValidCert(r) => IsSuccess(r)
  BY <1>1 DEF Understood, IsValidCert, PassRecencyCheck
<1> QED
  BY <1>1, <1>2 DEF EncodedPayload

-----------------------------------------------------------------------------
LEMMA OnlineStepIsSourceStep ==
    OnlineInv /\ [OnlineNext]_online_vars => [Next]_vars
<1> SUFFICES ASSUME OnlineInv, [OnlineNext]_online_vars
             PROVE  [Next]_vars
  OBVIOUS
<1>1. ASSUME NEW r, OnlineValidity(r)
      PROVE  [Next]_vars
  <2>1. altda_commitment \in Certs
    BY <1>1, CertInHand DEF OnlineInv, OnlineValidity
  <2>2. IsValidCert(r) = Valid[altda_commitment]
    BY <1>1, <2>1, FetchedResponse, ResponseIsTrue DEF OnlineInv, OnlineValidity
  <2>3. OnValidity(Valid[altda_commitment])
    BY <1>1, <2>2 DEF OnlineValidity
  <2> QED
    BY <2>3 DEF Next
<1>2. ASSUME NEW r, OnlinePayload(r)
      PROVE  [Next]_vars
  <2>1. altda_commitment \in Certs
    BY <1>2, CertInHand DEF OnlineInv, OnlinePayload
  <2>2. r = last_entry.response /\ IsValidCert(r)
    BY <1>2 DEF OnlineInv, PayloadIsCached, OnlinePayload, GetOrFetchPayload
  <2>3. EncodedPayload(r) = BlobOf[altda_commitment]
    BY <1>2, <2>1, <2>2, FetchedResponse, ResponseIsTrue
       DEF OnlineInv, OnlinePayload
  <2>4. OnPayload(BlobOf[altda_commitment])
    BY <1>2, <2>3 DEF OnlinePayload
  <2> QED
    BY <2>4 DEF Next
<1>3. CASE FetchFails
  BY <1>3 DEF FetchFails, Next, ErrorKind
<1>4. CASE OnlinePipelineStep
  BY <1>4 DEF OnlinePipelineStep, Next
<1>5. CASE OnlineDone \/ UNCHANGED online_vars
  BY <1>5 DEF OnlineDone, online_vars
<1> QED
  BY <1>1, <1>2, <1>3, <1>4, <1>5 DEF OnlineNext

LEMMA OnlineInitInv == OnlineInit => OnlineInv
  BY InitInv DEF OnlineInit, Init, OnlineInv, CacheIsGenuine, PayloadIsCached

LEMMA OnlineNextInv == OnlineInv /\ [OnlineNext]_online_vars => OnlineInv'
<1> SUFFICES ASSUME OnlineInv, [OnlineNext]_online_vars
             PROVE  OnlineInv'
  OBVIOUS
<1>1. IndInv'
  BY OnlineStepIsSourceStep, NextInv DEF OnlineInv
<1> SUFFICES CacheIsGenuine' /\ PayloadIsCached'
  BY <1>1 DEF OnlineInv
<1>2. ASSUME NEW r, OnlineValidity(r)
      PROVE  CacheIsGenuine' /\ PayloadIsCached'
  <2>1. altda_commitment \in Certs
    BY <1>2, CertInHand DEF OnlineInv, OnlineValidity
  <2>2. CacheIsGenuine' /\ last_entry'.cert = altda_commitment /\ last_entry'.response = r
    BY <1>2, <2>1, FetchedResponse DEF OnlineInv, OnlineValidity
  <2>3. pc' = "payload" => altda_commitment' = altda_commitment /\ IsValidCert(r)
    BY <1>2 DEF OnlineValidity, OnValidity, Discard, Fail, Verdict
  <2>4. PayloadIsCached'
    BY <2>2, <2>3 DEF PayloadIsCached, IsCached
  <2> QED
    BY <2>2, <2>4
<1>3. ASSUME NEW r, OnlinePayload(r)
      PROVE  CacheIsGenuine' /\ PayloadIsCached'
  <2>1. altda_commitment \in Certs
    BY <1>3, CertInHand DEF OnlineInv, OnlinePayload
  <2>2. CacheIsGenuine'
    BY <1>3, <2>1, FetchedResponse DEF OnlineInv, OnlinePayload
  <2>3. pc' # "payload"
    BY <1>3 DEF OnlinePayload, OnPayload, Return, Discard
  <2> QED
    BY <2>2, <2>3 DEF PayloadIsCached
<1>4. CASE FetchFails
  BY <1>4 DEF FetchFails, ProviderError, Fail, OnlineInv, CacheIsGenuine, PayloadIsCached
<1>5. CASE OnlinePipelineStep
  <2>1. pc' # "payload"
    BY <1>5 DEF OnlinePipelineStep, NextCall, EthError, Fail, EthStep, EthEof, EthSkip,
                EthRaw, Return, EthCommitment, Reset
  <2> QED
    BY <1>5, <2>1 DEF OnlinePipelineStep, OnlineInv, CacheIsGenuine, PayloadIsCached
<1>6. CASE OnlineDone \/ UNCHANGED online_vars
  BY <1>6 DEF OnlineDone, online_vars, vars, OnlineInv, CacheIsGenuine,
              PayloadIsCached, IsCached
<1> QED
  BY <1>2, <1>3, <1>4, <1>5, <1>6 DEF OnlineNext

\* The online provider keeps its types: the cache holds nothing, or a response
\* and the certificate it answers (eigenda_preimage.rs, last_entry).
THEOREM OnlineTypeCorrect == OnlineSpec => []OnlineTypeOK
<1>1. OnlineInv => OnlineTypeOK
  BY DEF OnlineInv, IndInv, CacheIsGenuine, OnlineTypeOK
<1> QED
  BY <1>1, OnlineInitInv, OnlineNextInv, PTL DEF OnlineSpec

\* When the payload is asked for, the response that declared the certificate
\* valid is still in the cache, whatever was fetched before it and however
\* often the pipeline was reset (eigenda_preimage.rs, get_or_fetch_payload).
THEOREM PayloadIsCachedTheorem == OnlineSpec => []PayloadIsCached
<1>1. OnlineInv => PayloadIsCached
  BY DEF OnlineInv
<1> QED
  BY <1>1, OnlineInitInv, OnlineNextInv, PTL DEF OnlineSpec

\* The derivation over the cached proxy is one over a truthful provider that
\* is asked afresh every time (eigenda_preimage.rs).
THEOREM OnlineRefinement == OnlineSpec => OnlineRefinesSource
<1>1. OnlineInit => Init
  BY DEF OnlineInit
<1> QED
  BY <1>1, OnlineInitInv, OnlineNextInv, OnlineStepIsSourceStep, PTL
  DEF OnlineSpec, OnlineRefinesSource, Spec

\* So the online provider, too, hands up exactly what the inbox means.
THEOREM OnlineDerivesExactly == OnlineSpec => []DerivedExactly
  BY OnlineRefinement, DerivedExactlyTheorem, PTL DEF OnlineRefinesSource

=============================================================================
