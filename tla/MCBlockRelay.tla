--------------------------- MODULE MCBlockRelay ---------------------------
(* Two nodes whose networks part at height 6, where one activates NU5. *)
EXTENDS BlockRelay

Early == [u \in Upgrades |-> u]
Late == [u \in Upgrades |-> IF u < Nu5 THEN u ELSE u + 1]
MCNetworks == {Early, Late}
MCNetworkOf == [n \in Nodes |-> IF n = "a" THEN Early ELSE Late]

Pay == {TransparentBundle(<<TxIn("coin", 0)>>, <<"out">>)}
Shield == {ShieldedBundle("effects", "anchor")}

(* Every field has a value of its own. *)
Action(kind) ==
    [kind |-> kind,
     fields |-> [f \in FieldsOf(TagOf(kind)) |-> IF f = "amount" THEN 1 ELSE f]]

MCPlans ==
    {Tx("V4", Sprout, 0, Pay, Shield, {}, {}, {}),
     Tx("V5", Sprout, 0, Pay, {}, Shield, {}, {})}
    \union {Tx("VCrosslink", Sprout, 0, Pay, {}, {}, {}, {Action(kind)}) :
                kind \in {Kinds[tag] : tag \in DOMAIN Kinds}}

Claim(v, b, script) ==
    Tx(v, b, 0, {TransparentBundle(<<[TxIn(NullCoin, 0) EXCEPT !.script_sig = script]>>, <<"fee">>)},
       {}, {}, {}, {})

MCCoinbases ==
    {<<>>,
     <<Claim("V4", Canopy, <<5>>)>>,
     <<Claim("V4", Canopy, <<6>>)>>,
     <<Claim("V5", Nu5, <<6>>)>>,
     <<Claim("V5", Nu5, <<6>>), Claim("V5", Nu5, <<6>>)>>,
     <<Claim("V4", Canopy, <<>>)>>,
     <<Claim("V4", Canopy, <<-1>>)>>,
     <<[Claim("V4", Canopy, <<5>>) EXCEPT !.sprout = {"joinsplit"}]>>}

Start(version, solution, pointer) == [version |-> version, solution |-> solution, fat_pointer |-> pointer]
Pointer(height, word) == [block_hash |-> "hash", height |-> height, word |-> word, signatures |-> <<"sig">>]
MCHeaderStarts ==
    {Start(4, "valid", Pointer(1, 5)), Start(3, "valid", Pointer(1, 5)),
     Start(4, "wrong size", Pointer(1, 1)), Start(4, "valid", Pointer(8, 5))}
=============================================================================
