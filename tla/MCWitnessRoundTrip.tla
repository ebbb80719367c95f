------------------------- MODULE MCWitnessRoundTrip -------------------------
(***************************************************************************)
(* Instance of WitnessRoundTrip for TLC: a valid, a stale, an invalid and  *)
(* a corrupt certificate, and one for a blob of one field element, over    *)
(* two L1 blocks, repeated postings included.                              *)
(***************************************************************************)
EXTENDS WitnessRoundTrip

CONSTANTS p1, p2, pBad, pOne, f0, f1, f2, noCert, decodeError, noProof, noAddress,
          trusted, router

CONSTANT MaxItems   \* bound: inbox items per L1 block

Cert(id, version, length) ==
    [id |-> id, version |-> version, odv |-> 0, rbn |-> 0,
     length |-> length, kzg |-> id]

cGood    == Cert(1, "V3", 2)
cWindow  == Cert(2, "V4", 2)   \* recent in block 1, stale in block 2
cInvalid == Cert(3, "V3", 2)
cCorrupt == Cert(4, "V2", 2)
cOne     == Cert(5, "V3", 1)   \* an empty payload, its blob is a header

MCCerts == {cGood, cWindow, cInvalid, cCorrupt, cOne}
MCValid == [c \in MCCerts |-> c # cInvalid]
MCPayloads == {p1, p2, pBad, pOne}
MCNumFE == [p \in MCPayloads |-> IF p = pOne THEN 1 ELSE 2]
MCFlat == {pOne}
MCCommit == [p \in MCPayloads |-> CASE p = p1 -> 1 [] p = p2 -> 2
                                    [] p = pBad -> 4 [] p = pOne -> 5]
MCBlobOf == [c \in MCCerts |-> CASE c = cWindow -> p2
                                 [] c = cCorrupt -> pBad
                                 [] c = cOne -> pOne
                                 [] OTHER -> p1]
MCFrames == {f0, f1, f2}
MCDecode == [p \in MCPayloads |-> CASE p = p1 -> f1
                                    [] p = p2 -> f2
                                    [] p = pOne -> f0
                                    [] OTHER -> decodeError]

MCL1Contexts == {trusted}
MCRouter == [l1 \in MCL1Contexts |-> router]
MCOnChain == [s \in Statement |-> s.cert # cInvalid]

Posted(c) ==
    [len |-> 10, derivation |-> 1, commitment_type |-> 1, da_layer |-> 0,
     cert_version |-> VersionByte(c.version), body |-> c]

raw == [Posted(cGood) EXCEPT !.derivation = 0, !.body = noCert]

MCCalldata == {Posted(c) : c \in MCCerts} \cup {raw}
BoundedInbox(items) == UNION {[1..n -> items] : n \in 0..MaxItems}
MCL1Chains == [1..LastBlock -> BoundedInbox(Calldata)]

=============================================================================
