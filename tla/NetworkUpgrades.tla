-------------------------- MODULE NetworkUpgrades --------------------------
(***************************************************************************)
(* A client that follows the chain of a network and asks, at each height,  *)
(* which consensus rules apply.                                            *)
(***************************************************************************)
EXTENDS ConsensusBranches

CONSTANTS
    ZIP212_GRACE_PERIOD,  \* length of the ZIP 212 grace period, in blocks
    Steps                 \* how far the chain tip moves at once

ASSUME ClientAssumption ==
    /\ ZIP212_GRACE_PERIOD \in Nat
    /\ Steps \subseteq Nat

(* Mutant: the branches of the grace period test are swapped. *)
Zip212EnforcementSwapped(net, h) ==
    IF IsNuActive(net, Canopy, h)
    THEN IF h < HeightAdd(net[Canopy], ZIP212_GRACE_PERIOD) THEN "On" ELSE "GracePeriod"
    ELSE "Off"

(* zip212_enforcement, for the Sapling note plaintexts of a block. *)
Zip212Enforcement(net, h) ==
    IF IsNuActive(net, Canopy, h)
    THEN IF h < HeightAdd(net[Canopy], ZIP212_GRACE_PERIOD) THEN "GracePeriod" ELSE "On"
    ELSE "Off"

----------------------------------------------------------------------------
(* A client of the network that follows its chain: the tip advances, and    *)
(* reorganisations rewind it, with the saturating arithmetic of BlockHeight. *)
VARIABLES
    network,   \* its activation heights
    tip        \* the height of the chain

client == <<network, tip>>

ClientInit == network \in Networks /\ tip = 0

Advance == \E n \in Steps : tip' = HeightAdd(tip, n) /\ UNCHANGED network
Rewind == \E n \in Steps : tip' = HeightSub(tip, n) /\ UNCHANGED network

ClientNext == Advance \/ Rewind

ClientSpec == ClientInit /\ [][ClientNext]_client

----------------------------------------------------------------------------
(* The network is a table of optional heights, and a height is a u32 even   *)
(* where the arithmetic of BlockHeight saturates.                           *)
ClientTypeOK == network \in [Upgrades -> OptHeights] /\ tip \in Heights

(* The two ways in which the code relates branches and heights agree: on a  *)
(* network whose upgrades are in order, the branch for_height returns is    *)
(* the one branch whose height_range contains the height.  Before the       *)
(* Sprout rules have an end they have no height_range at all.               *)
BranchOwnsItsHeights ==
    InOrder(network) =>
        \A b \in BranchIds :
            b # Sprout \/ network[Overwinter] # NoHeight =>
                (InHeightRange(network, b, tip) <=> ForHeight(network, tip) = b)

(* Whatever the activation heights, in order or not, a chain that grows     *)
(* never returns to the rules of an earlier branch: for_height is monotone. *)
RulesNeverGoBack ==
    [][tip' >= tip => ForHeight(network', tip') >= ForHeight(network, tip)]_client

(* The policies of ZIP 212 from the most to the least permissive. *)
Zip212Rank(e) == IF e = "Off" THEN 0 ELSE IF e = "GracePeriod" THEN 1 ELSE 2

(* ZIP 212 is never relaxed as the chain grows: once note plaintexts of the *)
(* new form are required they stay required, and the grace period follows   *)
(* the old rule and precedes the new one.                                   *)
Zip212NeverRelaxes ==
    [][tip' >= tip =>
        Zip212Rank(Zip212Enforcement(network', tip'))
            >= Zip212Rank(Zip212Enforcement(network, tip))]_client
=============================================================================
