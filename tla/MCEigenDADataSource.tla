------------------------ MODULE MCEigenDADataSource ------------------------
(***************************************************************************)
(* Instance of EigenDADataSource for TLC: one certificate and one kind of  *)
(* unreadable data per rule, two L1 blocks, every inbox of MaxItems items. *)
(***************************************************************************)
EXTENDS EigenDADataSource

CONSTANTS p1, p2, pBad, f1, f2, noCert, decodeError

CONSTANT MaxItems   \* bound: inbox items per L1 block

Cert(id, version, odv, rbn) ==
    [id |-> id, version |-> version, odv |-> odv, rbn |-> rbn,
     length |-> 1, kzg |-> id]

cGood    == Cert(1, "V3", 0, 0)   \* no recency window
cWindow  == Cert(2, "V4", 0, 0)   \* recent in block 1, stale in block 2
cOdv     == Cert(3, "V4", 1, 0)   \* valid, unknown derivation version
cInvalid == Cert(4, "V4", 1, 0)   \* rejected by the verifier contract
cCorrupt == Cert(5, "V2", 0, 0)   \* its payload does not decode

MCCerts == {cGood, cWindow, cOdv, cInvalid, cCorrupt}
MCValid == [c \in MCCerts |-> c # cInvalid]
MCPayloads == {p1, p2, pBad}
MCBlobOf == [c \in MCCerts |-> CASE c = cCorrupt -> pBad
                                 [] c = cWindow -> p2
                                 [] OTHER -> p1]
MCFrames == {f1, f2}
MCDecode == [p \in MCPayloads |-> CASE p = p1 -> f1
                                    [] p = p2 -> f2
                                    [] OTHER -> decodeError]

\* The inbox bytes of a commitment: derivation byte, header, RLP body.
Posted(c) ==
    [len |-> 10, derivation |-> 1, commitment_type |-> 1, da_layer |-> 0,
     cert_version |-> VersionByte(c.version), body |-> c]

raw       == [Posted(cGood) EXCEPT !.derivation = 0, !.body = noCert]
empty     == [raw EXCEPT !.len = 0]
tooShort  == [Posted(cGood) EXCEPT !.len = 4, !.body = noCert]
wrongType == [Posted(cGood) EXCEPT !.commitment_type = 0]
wrongVer  == [Posted(cGood) EXCEPT !.cert_version = 3]

Items == {Posted(c) : c \in MCCerts} \cup {raw, empty, wrongVer}
MCCalldata == Items \cup {tooShort, wrongType}

BoundedInbox == UNION {[1..n -> Items] : n \in 0..MaxItems}

\* All of Items in every combination, the other unreadable data once each.
MCL1Chains ==
    [1..LastBlock -> BoundedInbox]
      \cup {[b \in 1..LastBlock |-> <<d, Posted(cGood)>>] : d \in {tooShort, wrongType}}

=============================================================================
