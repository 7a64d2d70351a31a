------------------------- MODULE MCNetworkUpgrades -------------------------
(* Small networks: activation heights 0, 1, 3 or none.                      *)
EXTENDS NetworkUpgrades

(* Every network in order over these heights: the first a upgrades at 0,    *)
(* the next ones at 1, then at 3, and the rest never activate.              *)
InOrderNetworks ==
    {[u \in Upgrades |-> IF u <= a THEN 0 ELSE IF u <= b THEN 1
                         ELSE IF u <= c THEN 3 ELSE NoHeight] :
        <<a, b, c>> \in {t \in (0 .. Nu6_3) \X (0 .. Nu6_3) \X (0 .. Nu6_3) :
                            t[1] <= t[2] /\ t[2] <= t[3]}}

(* LocalNetwork does not validate: one upgrade is missing, or is moved up.  *)
UnvalidatedNetworks ==
    {[n EXCEPT ![u] = h] : n \in InOrderNetworks, u \in {Overwinter, Canopy, Nu6_3},
                           h \in {NoHeight, 0, 2}}

MCNetworks == InOrderNetworks \union UnvalidatedNetworks
=============================================================================
