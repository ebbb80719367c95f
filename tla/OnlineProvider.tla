--------------------------- MODULE OnlineProvider ---------------------------
(***************************************************************************)
(* EigenDADataSource over OnlineEigenDAPreimageProvider                    *)
(* (bin/host/src/eigenda_preimage.rs), which asks the eigenda-proxy itself *)
(* and keeps the last answer in a cache of one entry.                      *)
(***************************************************************************)
EXTENDS EigenDADataSource, EigenDAProxy

VARIABLE last_entry   \* the certificate and the response of the last fetch

online_vars == <<vars, last_entry>>

NoEntry == [cert |-> NoCert]

\* The request names no inclusion block, so the proxy does not judge recency;
\* and it returns the whole blob.
ASSUME ProxyReturnsBlobs ==
    \A c \in Certs : \A r \in ProxyReplies[c] :
        Understood(r) =>
            /\ IsValidCert(r) = Valid[c]
            /\ PassRecencyCheck(r)
            /\ IsSuccess(r) => r.body = BlobOf[c]

-----------------------------------------------------------------------------
\* Mutant of IsCached: the commitment is not compared.
IsAnyCached(c) == last_entry # NoEntry

IsCached(c) == last_entry.cert = c

\* Mutants of GetOrFetchPayload: the cache is not written, or written without
\* its commitment.
FetchWithoutCaching(c, r) ==
    \/ IsCached(c) /\ r = last_entry.response /\ UNCHANGED last_entry
    \/ /\ ~IsCached(c)
       /\ r \in ProxyReplies[c]
       /\ Understood(r)
       /\ UNCHANGED last_entry

FetchWithoutKey(c, r) ==
    \/ IsCached(c) /\ r = last_entry.response /\ UNCHANGED last_entry
    \/ /\ ~IsCached(c)
       /\ r \in ProxyReplies[c]
       /\ Understood(r)
       /\ last_entry' = [cert |-> NoCert, response |-> r]

\* get_or_fetch_payload ends with the response r for commitment c.
GetOrFetchPayload(c, r) ==
    \/ IsCached(c) /\ r = last_entry.response /\ UNCHANGED last_entry
    \/ /\ ~IsCached(c)
       /\ r \in ProxyReplies[c]
       /\ Understood(r)
       /\ last_entry' = [cert |-> c, response |-> r]

\* The fetch fails: the cache is left alone.
FetchFails ==
    /\ ~IsCached(altda_commitment)
    /\ ProviderError("temporary")
    /\ UNCHANGED last_entry

\* What get_encoded_payload makes of a response: no body, no payload.
EncodedPayload(r) == IF IsSuccess(r) THEN r.body ELSE << >>

OnlineValidity(r) ==
    /\ pc = "validity"
    /\ GetOrFetchPayload(altda_commitment, r)
    /\ OnValidity(IsValidCert(r))

OnlinePayload(r) ==
    /\ pc = "payload"
    /\ GetOrFetchPayload(altda_commitment, r)
    /\ OnPayload(EncodedPayload(r))

\* The steps that do not touch the provider.
OnlinePipelineStep ==
    /\ \/ NextCall
       \/ \E kind \in ErrorKind : EthError(kind)
       \/ EthStep
       \/ \E b \in Blocks : Reset(b)
    /\ UNCHANGED last_entry

OnlineDone == (Finished \/ pc = "halted") /\ UNCHANGED online_vars

OnlineInit == Init /\ last_entry = NoEntry

Responses == UNION {ProxyReplies[c] : c \in Certs}

OnlineNext ==
    \/ \E r \in Responses : OnlineValidity(r) \/ OnlinePayload(r)
    \/ FetchFails
    \/ OnlinePipelineStep
    \/ OnlineDone

OnlineSpec == OnlineInit /\ [][OnlineNext]_online_vars

-----------------------------------------------------------------------------
OnlineTypeOK ==
    /\ TypeOK
    /\ last_entry \in [cert : Certs, response : HttpResponse] \cup {NoEntry}

\* The payload comes from the very response that declared the certificate
\* valid: after get_validity the cache holds it, so get_encoded_payload asks
\* the proxy for nothing and cannot fail (eigenda_preimage.rs, last_entry).
PayloadIsCached ==
    pc = "payload" =>
        /\ IsCached(altda_commitment)
        /\ IsValidCert(last_entry.response)

\* The cache is never cleared, not even by a reset, and still the derivation
\* is that of a provider asked afresh every time
\* (eigenda_preimage.rs, get_or_fetch_payload).
OnlineRefinesSource == Spec

=============================================================================
