---------------------------- MODULE MCTxBuilder ----------------------------
(* Small instances of the transaction builder.  Values are in units of the  *)
(* marginal fee and transparent sizes in units of half a standard input.    *)
EXTENDS TxBuilder

(* A regtest network on which upgrade i activates at height i. *)
MCNetworks == {[u \in Upgrades |-> u]}

Pad(orchard, ironwood, minimum) ==
    [p \in {"orchard", "ironwood"} |->
        [bundle_required |-> IF p = "orchard" THEN orchard ELSE ironwood,
         pad_to_minimum |-> minimum]]

MCConfigs ==
    {[kind |-> "Standard", anchors |-> ShieldedPools, padding |-> Pad(FALSE, FALSE, 2)],
     [kind |-> "Standard", anchors |-> {"orchard", "ironwood"}, padding |-> Pad(TRUE, TRUE, 1)],
     [kind |-> "Standard", anchors |-> {}, padding |-> Pad(FALSE, FALSE, 2)],
     [kind |-> "VCrosslink", anchors |-> {"sapling", "orchard"}, padding |-> Pad(FALSE, FALSE, 2)],
     [kind |-> "VCrosslink", anchors |-> {"orchard"}, padding |-> Pad(TRUE, FALSE, 1)],
     [kind |-> "Coinbase", anchors |-> {}, padding |-> Pad(FALSE, FALSE, 2)]}

MCInputs == {[value |-> 5, size |-> 2], [value |-> 1, size |-> UnknownSize]}
MCOutputs == {[value |-> 1, size |-> 2], [value |-> 0, size |-> 5]}
MCStakingPuts ==
    {[kind |-> "CreateNewDelegationBond", amount |-> 1],
     [kind |-> "WithdrawDelegationBond", amount |-> 5],
     [kind |-> "RegisterFinalizer", amount |-> 0]}
=============================================================================
