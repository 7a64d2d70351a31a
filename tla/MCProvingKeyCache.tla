------------------------- MODULE MCProvingKeyCache -------------------------
(* Three threads that build for branches of three circuit versions. *)
EXTENDS ProvingKeyCache

MCNetworks == {}

MCBuilds ==
    {[branch |-> Nu5, pools |-> {"orchard"}],
     [branch |-> Nu6_2, pools |-> {"orchard"}],
     [branch |-> Nu6_3, pools |-> {"ironwood"}],
     [branch |-> Nu6_3, pools |-> {"orchard", "ironwood"}]}
=============================================================================
