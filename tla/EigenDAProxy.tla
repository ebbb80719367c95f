---------------------------- MODULE EigenDAProxy ----------------------------
(***************************************************************************)
(* The eigenda-proxy, as bin/host sees it: fetch_data_from_proxy of        *)
(* eigenda_preimage.rs and the codes of status_code.rs.  The proxy itself  *)
(* is external: the modules that use it say what they assume of it.        *)
(*                                                                         *)
(* A payload is a sequence of field elements, numbers here.                *)
(***************************************************************************)
EXTENDS PreimageSource, Sequences

CONSTANT ProxyReplies   \* ProxyReplies[c]: the responses the proxy may give

TEAPOT == 418
STATUS_CODE_RECENCY_ERROR == 2
STATUS_CODE_INVALID_CERT == 3

\* code is the StatusCode of a teapot response, body that of a success.
HttpResponse == [status : Nat, code : 0..255, body : Seq(Nat)]

IsSuccess(r) == r.status \in 200..299

\* Every other answer is an error, and the host will ask again.
Understood(r) ==
    \/ IsSuccess(r)
    \/ r.status = TEAPOT
       /\ r.code \in {STATUS_CODE_INVALID_CERT, STATUS_CODE_RECENCY_ERROR}

IsValidCert(r) == ~(r.status = TEAPOT /\ r.code = STATUS_CODE_INVALID_CERT)
PassRecencyCheck(r) == ~(r.status = TEAPOT /\ r.code = STATUS_CODE_RECENCY_ERROR)

\* The payload brought to the length of the certificate: filled with zeros,
\* or cut.
FitTo(body, n) == [i \in 1..n |-> IF i <= Len(body) THEN body[i] ELSE 0]

ASSUME ProxyAssumption ==
    /\ ProxyReplies \in [Certs -> SUBSET HttpResponse]
    /\ Payloads \subseteq Seq(Nat)
    /\ \A c \in Certs : Len(BlobOf[c]) = c.length

=============================================================================
