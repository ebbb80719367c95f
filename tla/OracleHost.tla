----------------------------- MODULE OracleHost -----------------------------
(***************************************************************************)
(* EigenDADataSource over the preimage oracle: the client side             *)
(* (OracleEigenDAPreimageProvider, crates/proof/src/eigenda_provider.rs),  *)
(* the host side (bin/host/src/handler.rs and eigenda_preimage.rs), the    *)
(* key-value store between them and the eigenda-proxy behind the host.     *)
(*                                                                         *)
(* The client names a certificate in a hint and then asks for keys, one at *)
(* a time.  The host answers from the store; for a missing key it handles  *)
(* the last hint again and again until the key is there (kona's            *)
(* OnlineHostBackend), and a hint asks the proxy and fills the store.      *)
(*                                                                         *)
(* A field element of MaxElement or more has one of its three high bits    *)
(* set.                                                                    *)
(***************************************************************************)
EXTENDS EigenDADataSource, EigenDAProxy

CONSTANTS
    MaxElement,     \* bound of the range check of store_encoded_payload
    OtherHint,      \* a hint of kona's own, or none yet
    InitialStores   \* what earlier runs left in the store, killed ones too

ASSUME OracleAssumption ==
    /\ MaxElement \in Nat \ {0}
    /\ OtherHint \notin Certs

VARIABLES
    kv,          \* the key-value store of the host
    last_hint,   \* the hint the host handles when a key is missing
    host,        \* "up", or "down" once nobody serves the channel any more
    asked,       \* has the running call sent its hint?
    fetched      \* encoded_payload: the field elements received so far

host_vars == <<kv, last_hint, host>>
client_vars == <<asked, fetched>>
oracle_vars == <<vars, host_vars, client_vars>>

-----------------------------------------------------------------------------
(***************************************************************************)
(* The addresses of the store.                                             *)
(***************************************************************************)

\* to_digest hashes all the bytes of the commitment: distinct certificates
\* have distinct digests, even if they share a KZG commitment.
ToDigest(c) == c

\* digest_template: byte 32 selects the API, the last 8 bytes the element.
Template(c, api_byte, index) ==
    [digest |-> ToDigest(c), api |-> api_byte, index |-> index]

\* Mutant of ValidityKey: a byte that is not reserved.
ValidityKeyUnreserved(c) == Template(c, 2, 0)

ValidityKey(c) == Template(c, 1, 0)
FieldElementKey(c, i) == Template(c, 0, i)

\* One reserved address for the validity, one per field element.
Keys ==
    {k \in [digest : Certs, api : {0, 1}, index : Nat] :
        IF k.api = 1 THEN k.index = 0 ELSE k.index < k.digest.length}

Write(store, new) ==
    [k \in DOMAIN store \cup DOMAIN new |->
        IF k \in DOMAIN new THEN new[k] ELSE store[k]]

\* Whatever the store holds for a certificate is what the contract says of it
\* and an element of its blob.
TrueStore(store) ==
    /\ DOMAIN store \subseteq Keys
    /\ \A c \in Certs :
        /\ ValidityKey(c) \in DOMAIN store =>
             store[ValidityKey(c)] = IF Valid[c] THEN 1 ELSE 0
        /\ \A i \in 0..(c.length - 1) :
             FieldElementKey(c, i) \in DOMAIN store =>
                store[FieldElementKey(c, i)] = BlobOf[c][i + 1]

\* The store outlives the process that filled it: a run may find anything an
\* earlier one can have written (StoreIsTrue), complete or not.
ASSUME StoresAssumption == \A store \in InitialStores : TrueStore(store)

-----------------------------------------------------------------------------
(***************************************************************************)
(* fetch_eigenda_hint                                                      *)
(***************************************************************************)

InRange(body) == \A i \in DOMAIN body : body[i] < MaxElement

\* The proxy does not lie: a payload means that the verifier contract accepts
\* the certificate, code 3 that it does not, and the payload is the blob,
\* possibly without the zeros at its end.  The proxy may be down, answer with
\* anything else, or answer with a body that is not a payload at all.
ASSUME ProxyHonesty ==
    \A c \in Certs : \A r \in ProxyReplies[c] :
        Understood(r) /\ PassRecencyCheck(r) =>
            /\ IsValidCert(r) = Valid[c]
            /\ IsSuccess(r) /\ r.body # << >> /\ InRange(r.body)
                 => FitTo(r.body, c.length) = BlobOf[c]

\* The host stores a certificate as valid if the proxy says that it is not
\* recent, which says nothing of what the contract does.  So the proxy must
\* judge the recency after the validity, or not at all: the request names no
\* L1 inclusion block, so that it has nothing to judge it with.
ASSUME RecencyAfterValidity ==
    \A c \in Certs : \A r \in ProxyReplies[c] :
        Understood(r) /\ ~PassRecencyCheck(r) => Valid[c]

StoreCertValidity(store, c, is_valid) ==
    Write(store, [k \in {ValidityKey(c)} |-> IF is_valid THEN 1 ELSE 0])

\* Mutant of StoreEncodedPayload: the last element is left out.
StoreAllButLast(store, c, body, n) ==
    Write(store, [k \in {FieldElementKey(c, i) : i \in 0..(n - 2)} |->
                    FitTo(body, c.length)[k.index + 1]])

\* The first n field elements of the payload.
StoreEncodedPayload(store, c, body, n) ==
    Write(store, [k \in {FieldElementKey(c, i) : i \in 0..(n - 1)} |->
                    FitTo(body, c.length)[k.index + 1]])

\* Mutant of Judged: only a certificate with a payload is valid.
JudgedBySuccess(c, r) == StoreCertValidity(kv, c, IsSuccess(r))

\* The store once the validity is in it.
Judged(c, r) == StoreCertValidity(kv, c, IsValidCert(r))

\* One round of the loop of the host: the hint c is handled with response r.
FetchEigendaHint(c, r) ==
    LET judged == Judged(c, r) IN
    \* the proxy cannot be reached, or its answer is no answer
    \/ ~Understood(r) /\ UNCHANGED <<kv, host>>
    \* the certificate is invalid, or not recent in the eyes of the proxy
    \/ /\ Understood(r) /\ ~IsSuccess(r)
       /\ kv' = judged
       /\ UNCHANGED host
    \* an empty body fails an assertion: the server task ends
    \/ /\ IsSuccess(r) /\ r.body = << >>
       /\ kv' = judged
       /\ host' = "down"
    \* an element is out of range: an error, after the validity was stored
    \/ /\ IsSuccess(r) /\ r.body # << >> /\ ~InRange(r.body)
       /\ kv' = judged
       /\ UNCHANGED host
    \* the payload is stored, or the store fails half way
    \/ /\ IsSuccess(r) /\ r.body # << >> /\ InRange(r.body)
       /\ \E n \in 0..c.length :
            kv' = StoreEncodedPayload(judged, c, r.body, n)
       /\ UNCHANGED host

-----------------------------------------------------------------------------
(***************************************************************************)
(* OracleEigenDAPreimageProvider                                           *)
(***************************************************************************)

\* Both calls begin with the hint.
SendHint ==
    /\ pc \in {"validity", "payload"}
    /\ ~asked
    /\ host = "up"
    /\ last_hint' = altda_commitment
    /\ asked' = TRUE
    /\ fetched' = << >>
    /\ UNCHANGED <<vars, kv, host>>

\* The key the client waits for; a payload may be complete.
Wanted ==
    IF pc = "validity" THEN {ValidityKey(altda_commitment)}
    ELSE {FieldElementKey(altda_commitment, Len(fetched)) :
            i \in (Len(fetched) + 1)..altda_commitment.length}

\* The host misses the key it is asked for.
HandleHint(r) ==
    /\ asked
    /\ host = "up"
    /\ ~(Wanted \subseteq DOMAIN kv)
    /\ last_hint \in Certs
    /\ r \in ProxyReplies[last_hint]
    /\ FetchEigendaHint(last_hint, r)
    /\ UNCHANGED <<vars, last_hint, client_vars>>

\* Mutant of ReceiveValidity: any answer counts as valid.
ReceiveAnyValidity ==
    /\ asked
    /\ host = "up"
    /\ pc = "validity"
    /\ ValidityKey(altda_commitment) \in DOMAIN kv
    /\ OnValidity(TRUE)
    /\ asked' = FALSE
    /\ UNCHANGED <<host_vars, fetched>>

ReceiveValidity ==
    /\ asked
    /\ host = "up"
    /\ pc = "validity"
    /\ ValidityKey(altda_commitment) \in DOMAIN kv
    /\ OnValidity(kv[ValidityKey(altda_commitment)] = 1)
    /\ asked' = FALSE
    /\ UNCHANGED <<host_vars, fetched>>

ReceiveFieldElement ==
    /\ asked
    /\ host = "up"
    /\ pc = "payload"
    /\ Len(fetched) < altda_commitment.length
    /\ FieldElementKey(altda_commitment, Len(fetched)) \in DOMAIN kv
    /\ fetched' = Append(fetched, kv[FieldElementKey(altda_commitment, Len(fetched))])
    /\ UNCHANGED <<vars, host_vars, asked>>

ReturnPayload ==
    /\ asked
    /\ pc = "payload"
    /\ Len(fetched) = altda_commitment.length
    /\ OnPayload(fetched)
    /\ asked' = FALSE
    /\ fetched' = << >>
    /\ UNCHANGED host_vars

\* A closed channel is critical, any other error of the oracle temporary.
OracleError ==
    /\ ProviderError(IF host = "up" THEN "temporary" ELSE "critical")
    /\ asked' = FALSE
    /\ fetched' = << >>
    /\ UNCHANGED host_vars

\* The Ethereum source reads through the same channel, with its own hints.
OracleEthStep ==
    /\ \/ EthStep /\ (eth.open \/ host = "up")
       \/ EthError(IF host = "up" THEN "temporary" ELSE "critical")
    /\ last_hint' = IF eth.open THEN last_hint ELSE OtherHint
    /\ UNCHANGED <<kv, host, client_vars>>

OracleCall == NextCall /\ UNCHANGED <<host_vars, client_vars>>

\* The store of the host outlives a reset of the pipeline.
OracleReset(b) == Reset(b) /\ UNCHANGED <<host_vars, client_vars>>

\* The server task ends, and with it the channel: the offline backend lacks a
\* key, or the client is gone.
HostEnds ==
    /\ host = "up"
    /\ host' = "down"
    /\ UNCHANGED <<vars, kv, last_hint, client_vars>>

OracleDone == (Finished \/ pc = "halted") /\ UNCHANGED oracle_vars

OracleInit ==
    /\ Init
    /\ kv \in InitialStores
    /\ last_hint = OtherHint
    /\ host = "up"
    /\ asked = FALSE
    /\ fetched = << >>

AnyReply == UNION {ProxyReplies[c] : c \in Certs}

OracleNext ==
    \/ OracleCall
    \/ OracleEthStep
    \/ SendHint
    \/ \E r \in AnyReply : HandleHint(r)
    \/ ReceiveValidity
    \/ ReceiveFieldElement
    \/ ReturnPayload
    \/ OracleError
    \/ \E b \in Blocks : OracleReset(b)
    \/ HostEnds
    \/ OracleDone

OracleSpec == OracleInit /\ [][OracleNext]_oracle_vars

-----------------------------------------------------------------------------
OracleTypeOK ==
    /\ TypeOK
    /\ DOMAIN kv \subseteq Keys
    /\ \A k \in DOMAIN kv : kv[k] \in Nat
    /\ last_hint \in Certs \cup {OtherHint}
    /\ host \in {"up", "down"}
    /\ asked \in BOOLEAN
    /\ fetched \in Seq(Nat)

\* However often hints are handled again, interrupted or answered in another
\* way than before, the store never holds a wrong answer for a certificate,
\* and the certificates do not share an address (handler.rs, store_cert_validity
\* and store_encoded_payload).
StoreIsTrue == TrueStore(kv)

\* The derivation over the oracle is the derivation over a truthful provider:
\* the payload put together from single keys is the blob of the certificate
\* that was asked for (eigenda_provider.rs, fetch_encoded_payload).
OracleRefinesSource == Spec

\* The client never asks for the payload of a certificate that the host finds
\* not recent (the comment in handler.rs, fetch_eigenda_hint).
NoRequestAfterRecencyFailure ==
    pc = "payload" =>
        \E r \in ProxyReplies[altda_commitment] :
            Understood(r) /\ PassRecencyCheck(r)

=============================================================================
