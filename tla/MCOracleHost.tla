---------------------------- MODULE MCOracleHost ----------------------------
(***************************************************************************)
(* Instance of OracleHost for TLC: payloads of two field elements, and a   *)
(* proxy that is sometimes down and whose answers differ from one request  *)
(* to the next.                                                            *)
(***************************************************************************)
EXTENDS OracleHost

CONSTANTS f1, f2, noCert, decodeError, otherHint

Cert(id, version, kzg) ==
    [id |-> id, version |-> version, odv |-> 0, rbn |-> 0,
     length |-> 2, kzg |-> kzg]

cGood   == Cert(1, "V3", 7)   \* its blob ends in zero
cTwin   == Cert(2, "V3", 7)   \* invalid, with the commitment of cGood
cWindow == Cert(3, "V4", 8)   \* recent in block 1, stale in block 2

MCCerts == {cGood, cTwin, cWindow}
MCValid == [c \in MCCerts |-> c # cTwin]
MCPayloads == [1..2 -> 0..2]
MCBlobOf == [c \in MCCerts |-> IF c = cWindow THEN <<2, 1>> ELSE <<1, 0>>]
MCFrames == {f1, f2}
MCDecode == [p \in MCPayloads |-> CASE p = <<1, 0>> -> f1
                                    [] p = <<2, 1>> -> f2
                                    [] OTHER -> decodeError]

Posted(c) ==
    [len |-> 10, derivation |-> 1, commitment_type |-> 1, da_layer |-> 0,
     cert_version |-> VersionByte(c.version), body |-> c]

MCCalldata == {Posted(c) : c \in MCCerts}
MCL1Chains ==
    {[b \in 1..2 |-> IF b = 1 THEN s ELSE t] :
        s \in UNION {[1..n -> MCCalldata] : n \in 0..2},
        t \in UNION {[1..n -> MCCalldata] : n \in 0..1}}

EmptyStore == [k \in {} |-> 0]
MCStores == {EmptyStore}

Success(body) == [status |-> 200, code |-> 0, body |-> body]
Teapot(code) == [status |-> 418, code |-> code, body |-> << >>]
Unavailable == [status |-> 503, code |-> 0, body |-> << >>]

\* Trailing zeros left out or added, no body, an element out of range; for
\* cWindow the proxy's idea of recency comes and goes.
MCProxyReplies ==
    [c \in MCCerts |->
        {Unavailable, Teapot(4)} \cup
        CASE c = cGood -> {Success(<<1>>), Success(<<1, 0, 0>>),
                           Success(<< >>), Success(<<1, 9>>)}
          [] c = cTwin -> {Teapot(3)}
          [] c = cWindow -> {Success(<<2, 1>>), Teapot(2)}]

\* A proxy that judges the recency of cGood, which has no window of its own.
MCStaleReplies == [MCProxyReplies EXCEPT ![cGood] = {Unavailable, Teapot(2)}]

=============================================================================
