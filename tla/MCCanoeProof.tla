---------------------------- MODULE MCCanoeProof ----------------------------
(***************************************************************************)
(* Instance of CanoeProof for TLC.  Six L1 chains: one that every library  *)
(* knows, one where the library of the guest lags behind by a fork, one    *)
(* where it lags further, Holesky, for which the sp1-cc host has a genesis *)
(* file and rsp has none, the devnet, and one nobody knows.  The contract  *)
(* answers differently at another block, at another address and under      *)
(* another genesis.                                                        *)
(***************************************************************************)
EXTENDS CanoeProof

CONSTANTS main, late, stale, holesky, dev, other,   \* chains
          h, hReorg, hOld,                    \* blocks
          router, elsewhere                   \* addresses

MCChains == {main, late, stale, holesky, dev, other}
MCListedChains == {main, holesky}
MCBlocks == {h, hReorg, hOld}
MCAddresses == {router, elsewhere}
MCForks == {"cancun", "prague", "osaka"}

RulesOf(chain, fork, genuine) ==
    [chain |-> chain, fork |-> fork, genuine |-> genuine]

rMain    == RulesOf(main, "osaka", TRUE)
rPatched == RulesOf(main, "osaka", FALSE)    \* a custom genesis with the id of main
rLate    == RulesOf(late, "prague", TRUE)
rLateNow == RulesOf(late, "osaka", TRUE)
rStale   == RulesOf(stale, "cancun", TRUE)
rStaleNow == RulesOf(stale, "osaka", TRUE)
rHolesky == RulesOf(holesky, "osaka", TRUE)
rDev     == RulesOf(dev, "prague", TRUE)
rOther   == RulesOf(other, "prague", TRUE)

MCRules == {rMain, rPatched, rLate, rLateNow, rStale, rStaleNow, rHolesky, rDev,
            rOther}

MCNumberOf == [b \in MCBlocks |-> IF b = hOld THEN 1 ELSE 2]
MCChainOf == [r \in MCRules |-> r.chain]
MCFork == [r \in MCRules |-> [b \in MCBlocks |-> IF b = hOld THEN "cancun" ELSE r.fork]]

Shipped(c) ==
    CASE c = main -> rMain [] c = late -> rLate [] c = stale -> rStale
      [] c = holesky -> rHolesky
      [] c = dev -> rDev [] c = other -> rOther

MCDeployed == [c \in MCChains |-> IF c = other THEN NoAddress ELSE router]

deployed == [kind |-> "deployed"]
registry == [kind |-> "registry"]
Static(a) == [kind |-> "static", address |-> a]

BuildOf(b, p, v) == [backend |-> b, prover |-> p, verifier |-> v]

\* Prover and verifier agree, or differ in their address fetchers.
MCBuilds ==
    {BuildOf(b, deployed, deployed) : b \in {"sp1cc", "steel"}}
      \cup {BuildOf("sp1cc", Static(elsewhere), deployed),
            BuildOf("sp1cc", registry, Static(elsewhere)),
            BuildOf("steel", Static(elsewhere), Static(elsewhere)),
            BuildOf("steel", deployed, registry)}
MCSp1Builds == {BuildOf("sp1cc", deployed, deployed)}

MCTryFromGenesis ==
    [c \in MCChains |-> IF c \in {holesky, dev, other} THEN NoRules ELSE Shipped(c)]
MCCustomGenesis ==
    [c \in MCChains |-> IF c \in {holesky, dev} THEN Shipped(c) ELSE NoRules]
MCSteelSpec == [c \in MCChains |-> Shipped(c)]
MCSteelChains == {main, late, stale, holesky, dev}
MCRethSpec ==
    [c \in MCChains |-> CASE c = late -> rLateNow [] c = stale -> rStaleNow
                          [] c = other -> NoRules [] OTHER -> Shipped(c)]
MCAllowedSteelForks == {"prague", "osaka"}

Cert(id, version) == [id |-> id, version |-> version]

cTwo   == Cert("good", "V2")      \* called as cGood
cGood  == Cert("good", "V3")
cBad   == Cert("bad", "V3")
cOdd   == Cert("odd", "V4")       \* the contract returns an unknown code
cEmpty == Cert("empty", "V4")     \* nothing is returned
cFault == Cert("fault", "V4")     \* the contract reverts

MCCerts == {cTwo, cGood, cBad, cOdd, cEmpty, cFault}

Here(q) == q.block = h /\ q.verifier = router /\ q.rules.genuine

MCContract ==
    [q \in Query |->
        CASE q.call.id = "good" -> IF Here(q) THEN "success" ELSE "failure"
          [] q.call.id = "bad"  -> IF Here(q) THEN "failure" ELSE "success"
          [] q.call.id = "odd"  -> "unknown"
          [] q.call.id = "empty" -> "undecodable"
          [] OTHER -> "reverted"]

MCBoots == {[head |-> h, chain |-> c] : c \in MCChains}

Claim(c, v) == [cert |-> c, valid |-> v]
Singles == {Claim(c, v) : c \in MCCerts, v \in BOOLEAN}
Paired  == {Claim(cTwo, TRUE), Claim(cBad, FALSE), Claim(cBad, TRUE),
            Claim(cOdd, FALSE), Claim(cEmpty, FALSE), Claim(cFault, FALSE)}
MCClaims == {<< >>} \cup {<<c>> : c \in Singles} \cup (Paired \X Paired)

\* Inputs of another prover: those of this one, with one thing changed.
InputOf(c, v) ==
    [cert |-> c, claimed |-> v, head |-> h, number |-> 2, chain |-> main,
     verifier |-> router]
Variants(i) ==
    {i, [i EXCEPT !.head = hReorg], [i EXCEPT !.head = hOld, !.number = 1],
     [i EXCEPT !.head = hOld], [i EXCEPT !.chain = late],
     [i EXCEPT !.chain = stale], [i EXCEPT !.verifier = elsewhere]}
ForeignInput == UNION {Variants(InputOf(c, v)) : c \in {cTwo, cBad}, v \in BOOLEAN}
MCForeignInputs ==
    {<<i>> : i \in ForeignInput}
      \cup {<<InputOf(cTwo, TRUE), i>> : i \in Variants(InputOf(cBad, FALSE))}

=============================================================================
