------------------------ MODULE MCPreloadedProvider ------------------------
(***************************************************************************)
(* Instance of PreloadedProvider for TLC: a host that supplies true and    *)
(* false witnesses for two L1 blocks.                                      *)
(***************************************************************************)
EXTENDS PreloadedProvider

CONSTANTS p1, p2, f1, f2, noCert, decodeError, noProof, noAddress,
          trusted, forked, router

Cert(id, version, length, kzg) ==
    [id |-> id, version |-> version, odv |-> 0, rbn |-> 0,
     length |-> length, kzg |-> kzg]

cGood    == Cert(1, "V4", 2, 7)   \* recent in block 1, stale in block 2
cTwin    == Cert(2, "V3", 1, 7)   \* the commitment of cGood, another length
cInvalid == Cert(3, "V3", 2, 7)   \* valid only at the head that is not ours

MCCerts == {cGood, cTwin, cInvalid}
MCPayloads == {p1, p2}
MCNumFE == [p \in MCPayloads |-> IF p = p1 THEN 2 ELSE 1]
MCFlat == {p2}
MCCommit == [p \in MCPayloads |-> IF p = p1 THEN 7 ELSE 8]
MCBlobOf == [c \in MCCerts |-> IF c = cTwin THEN p2 ELSE p1]
MCFrames == {f1, f2}
MCDecode == [p \in MCPayloads |-> IF p = p1 THEN f1 ELSE f2]

MCL1Contexts == {trusted, forked}
MCRouter == [l1 \in MCL1Contexts |-> router]
MCOnChain == [s \in Statement |-> (s.cert = cInvalid) = (s.l1 = forked)]
MCValid == [c \in MCCerts |-> c # cInvalid]

Posted(c) ==
    [len |-> 10, derivation |-> 1, commitment_type |-> 1, da_layer |-> 0,
     cert_version |-> VersionByte(c.version), body |-> c]

MCCalldata == {Posted(c) : c \in MCCerts}
MCL1Chains ==
    {[b \in 1..2 |-> IF b = 1 THEN s ELSE t] :
        s \in UNION {[1..n -> MCCalldata] : n \in 0..2},
        t \in {<< >>, <<Posted(cGood)>>}}

\* The claims of the host: at most two, each true or false.
Claims == UNION {[1..n -> ValidityEntry] : n \in 0..2}

\* No receipt, or one that proves the truth about the claimed certificates
\* at one of the two heads.
Receipts(claims) ==
    {NoProof} \cup
    {[i \in DOMAIN claims |->
        LET s == [cert |-> claims[i].cert, l1 |-> l1, verifier |-> router]
        IN  [cert |-> s.cert, l1 |-> l1, verifier |-> router, output |-> OnChain[s]]]
     : l1 \in MCL1Contexts}

\* Payloads: the right one, one of another length, one without its proof.
Proven(c, p, q) == [cert |-> c, payload |-> p, proof |-> q]
SomePayloads == {Proven(cGood, p1, p1), Proven(cTwin, p1, p1),
                 Proven(cGood, p2, p1), Proven(cInvalid, p1, p1)}
PayloadLists == UNION {[1..n -> SomePayloads] : n \in 0..2}

MCWitnesses ==
    UNION {{[validities |-> v, encoded_payloads |-> ps, canoe_proof |-> r] :
              ps \in PayloadLists, r \in Receipts(v)} : v \in Claims}

=============================================================================
