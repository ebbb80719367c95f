---------------------------- MODULE MCNativeHost ----------------------------
(***************************************************************************)
(* Instance of NativeHost for TLC: every command line, claims that are     *)
(* too low, right, wrong or beyond the inbox, and stores that earlier runs *)
(* left empty, half filled or complete.                                    *)
(***************************************************************************)
EXTENDS NativeHost, MCOracleHost

MCSettings == CommandLine

Claim(number, root) == [number |-> number, root |-> root]

\* The agreed block has number 1.
MCClaims ==
    {Claim(0, << >>), Claim(2, << >>), Claim(1, <<f1>>), Claim(2, <<f1>>),
     Claim(3, <<f1>>), Claim(3, <<f1, f2>>), Claim(2, <<f2>>)}

NativeChain(s, t) == [b \in 1..2 |-> IF b = 1 THEN s ELSE t]

MCNativeChains ==
    LET good == Posted(cGood)
        twin == Posted(cTwin)
        window == Posted(cWindow)
    IN  {NativeChain(s, t) :
            s \in {<<twin, good>>, <<good, window>>, <<window, good>>, <<good>>},
            t \in {<<window>>, <<good>>, << >>}}

Stored(c, api, index) == [digest |-> c, api |-> api, index |-> index]

HalfStore ==
    [k \in {Stored(cGood, 1, 0), Stored(cTwin, 1, 0), Stored(cGood, 0, 0)} |->
        IF k.digest = cTwin THEN 0 ELSE 1]

FullStore ==
    [k \in {Stored(c, 1, 0) : c \in MCCerts}
             \cup {Stored(c, 0, i) : c \in MCCerts \ {cTwin}, i \in 0..1} |->
        IF k.api = 1 THEN IF MCValid[k.digest] THEN 1 ELSE 0
        ELSE MCBlobOf[k.digest][k.index + 1]]

MCNativeStores == {EmptyStore, HalfStore, FullStore}

=============================================================================
