------------------------ MODULE MCTxAuthorization ------------------------
(* A network whose upgrade i activates at height i, transactions of every   *)
(* version with bundles in every pool it has, and two-party drafts.         *)
EXTENDS TxAuthorization

MCNetworks == {[u \in Upgrades |-> u]}

Pad(required, minimum) ==
    [pool \in OrchardPools |->
        [bundle_required |-> pool \in required, pad_to_minimum |-> minimum]]

MCPaddings == {Pad({}, 2), Pad({}, 1), Pad(OrchardPools, 1), Pad({"orchard"}, 2)}

Pay(coins) == {TransparentBundle([i \in DOMAIN coins |-> TxIn(coins[i], 0)], <<"out">>)}
Bundle == {ShieldedBundle("effects", "anchor")}

Plan(v, b, transparent) ==
    Tx(v, b, 0, transparent, Bundle,
       IF HasOrchard(v) THEN Bundle ELSE {},
       IF HasIronwood(v) THEN Bundle ELSE {},
       IF HasCrosslink(v) THEN {"bond"} ELSE {})

MCPlans ==
    {Plan(p[1], p[2], transparent) :
        p \in {<<"V4", Canopy>>, <<"V4", Nu6_3>>, <<"V5", Nu5>>, <<"V6", Nu6_3>>, <<"VCrosslink", Nu6_1>>},
        transparent \in {{}, Pay(<<>>), Pay(<<NullCoin>>), Pay(<<"c1">>), Pay(<<"c1", "c2">>)}}

MCDrafts == {Plan(v, Nu6_3, Pay(<<"c1">>)) : v \in {"V4", "V5", "V6"}}
==========================================================================
