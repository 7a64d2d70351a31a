------------------------- MODULE ConsensusBranches -------------------------
(***************************************************************************)
(* Network upgrades and consensus branches: zcash_protocol::consensus.     *)
(*                                                                         *)
(* A network fixes an activation height, or none, for every upgrade.  Every *)
(* other question is answered from these heights: which upgrades are       *)
(* active, which consensus branch rules a height and which heights a       *)
(* branch rules.  The code answers the last two separately, with a reverse *)
(* scan (for_height) and with a table (height_bounds), and nothing         *)
(* validates the heights of a LocalNetwork.                                *)
(*                                                                         *)
(* A network upgrade is its position in UPGRADES_IN_ORDER, and the branch  *)
(* that it activates has the same number; the Sprout rules are branch 0.   *)
(* The build modelled is the one without the nu7 flag.                     *)
(***************************************************************************)
EXTENDS Integers

CONSTANTS
    MaxHeight,            \* u32::MAX, at which BlockHeight arithmetic saturates
    NoHeight,             \* None, in Option<BlockHeight>
    Networks              \* the networks considered: functions Upgrades -> OptHeights

Sprout == 0
Overwinter == 1
Sapling == 2
Blossom == 3
Heartwood == 4
Canopy == 5
Nu5 == 6
Nu6 == 7
Nu6_1 == 8
Nu6_2 == 9
Nu6_3 == 10

Upgrades == Overwinter .. Nu6_3
BranchIds == Sprout .. Nu6_3
Heights == 0 .. MaxHeight
OptHeights == Heights \union {NoHeight}

ASSUME HeightAssumption ==
    /\ MaxHeight \in Nat
    /\ NoHeight \notin Int
    /\ Networks \subseteq [Upgrades -> OptHeights]

----------------------------------------------------------------------------
(* Mutant: addition that does not saturate. *)
HeightAddUnbounded(h, n) == h + n

(* BlockHeight + u32 and BlockHeight - u32 saturate. *)
HeightAdd(h, n) == IF h + n > MaxHeight THEN MaxHeight ELSE h + n
HeightSub(h, n) == IF h - n < 0 THEN 0 ELSE h - n

(* Mutant: an upgrade is active only after its activation block. *)
IsNuActiveAfter(net, nu, h) == net[nu] # NoHeight /\ net[nu] < h

IsNuActive(net, nu, h) == net[nu] # NoHeight /\ net[nu] <= h

(* Mutant: the scan runs from the front of the list. *)
ForHeightScansForward(net, h) ==
    IF \E nu \in Upgrades : IsNuActive(net, nu, h)
    THEN CHOOSE nu \in Upgrades :
            /\ IsNuActive(net, nu, h)
            /\ \A earlier \in Upgrades : earlier < nu => ~IsNuActive(net, earlier, h)
    ELSE Sprout

(* The scan of UPGRADES_IN_ORDER from its end. *)
ForHeight(net, h) ==
    IF \E nu \in Upgrades : IsNuActive(net, nu, h)
    THEN CHOOSE nu \in Upgrades :
            /\ IsNuActive(net, nu, h)
            /\ \A later \in Upgrades : later > nu => ~IsNuActive(net, later, h)
    ELSE Sprout

NeverInEffect == [lower |-> NoHeight, upper |-> NoHeight]

(* height_bounds: lower is NoHeight for None, upper is NoHeight for an epoch *)
(* that does not end.                                                       *)
HeightBounds(net, b) ==
    IF b = Sprout
    THEN IF net[Overwinter] = NoHeight
         THEN NeverInEffect
         ELSE [lower |-> 0, upper |-> net[Overwinter]]
    ELSE IF net[b] = NoHeight
         THEN NeverInEffect
         ELSE [lower |-> net[b], upper |-> IF b = Nu6_3 THEN NoHeight ELSE net[b + 1]]

(* height_range, as the set of heights it contains. *)
InHeightRange(net, b, h) ==
    LET r == HeightBounds(net, b)
    IN  /\ r.lower # NoHeight
        /\ r.lower <= h
        /\ r.upper # NoHeight => h < r.upper

BranchHasSapling(b) == b >= Sapling
BranchHasOrchard(b) == b >= Nu5

(* orchard_protocol_revision: the revision of the Orchard protocol, if any. *)
OrchardProtocolRevision(b) ==
    IF b < Nu5 THEN "None"
    ELSE IF b < Nu6_2 THEN "InsecureV1"
    ELSE IF b = Nu6_2 THEN "V2" ELSE "V3"

(* No gap and no inversion between activation heights: what the test       *)
(* nu_ordering asserts of mainnet.  Upgrades of a LocalNetwork may share a *)
(* height, as in the example in its documentation.                         *)
InOrder(n) ==
    \A a, b \in Upgrades : a < b /\ n[b] # NoHeight => n[a] # NoHeight /\ n[a] <= n[b]
=============================================================================
