-------------------------- MODULE MCOnlineProvider --------------------------
(***************************************************************************)
(* Instance of OnlineProvider for TLC: three certificates, one invalid,    *)
(* each posted any number of times in two L1 blocks.                       *)
(***************************************************************************)
EXTENDS OnlineProvider

CONSTANTS f1, f2, noCert, decodeError

Cert(id, version) ==
    [id |-> id, version |-> version, odv |-> 0, rbn |-> 0,
     length |-> 2, kzg |-> id]

cGood    == Cert(1, "V3")
cInvalid == Cert(2, "V3")
cWindow  == Cert(3, "V4")   \* recent in block 1, stale in block 2

MCCerts == {cGood, cInvalid, cWindow}
MCValid == [c \in MCCerts |-> c # cInvalid]
MCPayloads == [1..2 -> 0..2] \cup {<< >>}
MCBlobOf == [c \in MCCerts |-> IF c = cWindow THEN <<2, 1>> ELSE <<1, 0>>]
MCFrames == {f1, f2}
MCDecode == [p \in MCPayloads |-> CASE p = <<1, 0>> -> f1
                                    [] p = <<2, 1>> -> f2
                                    [] OTHER -> decodeError]

Posted(c) ==
    [len |-> 10, derivation |-> 1, commitment_type |-> 1, da_layer |-> 0,
     cert_version |-> VersionByte(c.version), body |-> c]

MCCalldata == {Posted(c) : c \in MCCerts}
MCL1Chains == [1..2 -> UNION {[1..n -> MCCalldata] : n \in 0..2}]

Success(status, body) == [status |-> status, code |-> 0, body |-> body]
Teapot(code) == [status |-> 418, code |-> code, body |-> << >>]
Unavailable == [status |-> 503, code |-> 0, body |-> << >>]

MCProxyReplies ==
    [c \in MCCerts |->
        {Unavailable, Teapot(4)} \cup
        IF c = cInvalid THEN {Teapot(3)}
        ELSE {Success(200, MCBlobOf[c]), Success(203, MCBlobOf[c])}]

=============================================================================
