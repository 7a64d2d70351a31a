----------------------------- MODULE TxFormat -----------------------------
(***************************************************************************)
(* Transaction versions and the wire formats: what zcash_primitives'       *)
(* transaction module says a version may contain, writes, refuses to write *)
(* and reads back.                                                         *)
(*                                                                         *)
(* A bundle is abstracted to its bundle version (Orchard protocol only),   *)
(* the number of inputs, outputs or actions it holds and its value         *)
(* balance.  A bundle that holds nothing is None in the code.              *)
(***************************************************************************)
EXTENDS ConsensusBranches

CONSTANT MAX_MONEY  \* the bound of Zatoshis and, on either side, of ZatBalance

ASSUME MoneyAssumption == MAX_MONEY \in Nat

TxVersions == {"Sprout", "V3", "V4", "V5", "V6", "VCrosslink"}
Pools == {"transparent", "sprout", "sapling", "orchard", "ironwood"}
BundleVersions == {"None", "orchard_insecure_v1", "orchard_v2", "orchard_v3", "ironwood_v3"}
StakingKinds == {"Absent", "CreateNewDelegationBond", "BeginDelegationUnbonding",
                 "WithdrawDelegationBond", "RetargetDelegationBond", "RegisterFinalizer",
                 "ConvertFinalizerRewardToDelegationBond", "UpdateFinalizerKey"}

Zatoshis == 0 .. MAX_MONEY
ZatBalance == -MAX_MONEY .. MAX_MONEY

Bundles == [version : BundleVersions, size : Nat, balance : Int]
NoBundle == [version |-> "None", size |-> 0, balance |-> 0]
StakingActions == [kind : StakingKinds, amount : Zatoshis]
NoStaking == [kind |-> "Absent", amount |-> 0]

----------------------------------------------------------------------------
(* TxVersion.  Sprout stands for Sprout(v) with v >= 2. *)
HasSprout(v) == v \in {"Sprout", "V3", "V4"}
HasOverwinter(v) == v # "Sprout"
HasSapling(v) == v \notin {"Sprout", "V3"}
HasOrchard(v) == v \notin {"Sprout", "V3", "V4"}
HasIronwood(v) == v = "V6"
HasCrosslink(v) == v = "VCrosslink"

(* The formats that commit to their consensus branch on the wire. *)
CommitsToBranch(v) == v \in {"V5", "V6", "VCrosslink"}

SuggestedForBranch(b) ==
    IF b = Sprout THEN "Sprout"
    ELSE IF b = Overwinter THEN "V3"
    ELSE IF b < Nu5 THEN "V4"
    ELSE IF b < Nu6_3 THEN "V5" ELSE "V6"

(* Mutant: V6 is accepted from NU5 on, like the other versions that carry Orchard. *)
ValidInBranchFromNu5(v, b) ==
    \/ v = "Sprout" /\ b = Sprout
    \/ v = "V3" /\ b = Overwinter
    \/ v = "V4" /\ b >= Sapling
    \/ v \in {"V5", "V6", "VCrosslink"} /\ b >= Nu5

ValidInBranch(v, b) ==
    \/ v = "Sprout" /\ b = Sprout
    \/ v = "V3" /\ b = Overwinter
    \/ v = "V4" /\ b >= Sapling
    \/ v \in {"V5", "VCrosslink"} /\ b >= Nu5
    \/ v = "V6" /\ b = Nu6_3

(* bundle_version_for_branch; "None" where the pool is not supported. *)
BundleVersionForBranch(b, pool) ==
    LET revision == OrchardProtocolRevision(b)
    IN  IF pool = "orchard"
        THEN IF revision = "InsecureV1" THEN "orchard_insecure_v1"
             ELSE IF revision = "V2" THEN "orchard_v2"
             ELSE IF revision = "V3" THEN "orchard_v3" ELSE "None"
        ELSE IF revision = "V3" THEN "ironwood_v3" ELSE "None"

----------------------------------------------------------------------------
(* TransactionData, and what its version's layout has a slot for. *)
TransactionData ==
    [version : TxVersions, branch : BranchIds, expiry : Heights,
     bundle : [Pools -> Bundles], staking : StakingActions]

Present(tx, pool) == tx.bundle[pool].size > 0

HasSlot(v, pool) ==
    \/ pool = "transparent"
    \/ pool = "sprout" /\ HasSprout(v)
    \/ pool = "sapling" /\ HasSapling(v)
    \/ pool = "orchard" /\ HasOrchard(v)
    \/ pool = "ironwood" /\ HasIronwood(v)

(* The conditions under which write returns an error.  The two formats that *)
(* have no Ironwood slot differ: V5 and earlier do not look at the bundle.  *)
WriteV4Fails(tx) ==
    \/ Present(tx, "orchard")
    \/ Present(tx, "sapling") /\ ~HasSapling(tx.version)

WriteV5Fails(tx) == Present(tx, "sprout")

WriteV6Fails(tx) ==
    \/ Present(tx, "sprout")
    \/ \E pool \in {"orchard", "ironwood"} :
        /\ Present(tx, pool)
        /\ tx.bundle[pool].version \notin {"orchard_v3", "ironwood_v3"}

WriteVCrosslinkFails(tx) == Present(tx, "sprout") \/ Present(tx, "ironwood")

WriteFails(tx) ==
    \/ ~CommitsToBranch(tx.version) /\ WriteV4Fails(tx)
    \/ tx.version = "V5" /\ WriteV5Fails(tx)
    \/ tx.version = "V6" /\ WriteV6Fails(tx)
    \/ tx.version = "VCrosslink" /\ WriteVCrosslinkFails(tx)

(* freeze: only the V4 transaction id is a hash of the serialisation. *)
FreezeFails(tx) == ~CommitsToBranch(tx.version) /\ WriteV4Fails(tx)

(* signature_hash: v4_signature_hash, which also serves the versions before *)
(* Overwinter, panics on them.                                              *)
SighashPanics(tx) == ~HasOverwinter(tx.version)

NotOnWire == -1

(* The bytes that write produces: the slots of the layout.  A bundle's      *)
(* version is not on the wire, only its contents are.                       *)
WireOf(tx) ==
    [version |-> tx.version,
     branch |-> IF CommitsToBranch(tx.version) THEN tx.branch ELSE NotOnWire,
     expiry |-> IF HasOverwinter(tx.version) THEN tx.expiry ELSE NotOnWire,
     bundle |-> [pool \in Pools |->
                    IF HasSlot(tx.version, pool)
                    THEN [size |-> tx.bundle[pool].size, balance |-> tx.bundle[pool].balance]
                    ELSE [size |-> 0, balance |-> 0]],
     staking |-> IF HasCrosslink(tx.version) THEN tx.staking ELSE NoStaking]

(* The branch of the transaction that read returns: the caller's argument   *)
(* decides for the formats that do not commit to it.                        *)
ReadBranch(wire, arg) == IF CommitsToBranch(wire.version) THEN wire.branch ELSE arg

(* A non-empty Orchard or Ironwood slot under a branch without the pool is  *)
(* invalid data.                                                            *)
ReadFails(wire, arg) ==
    \E pool \in {"orchard", "ironwood"} :
        /\ wire.bundle[pool].size > 0
        /\ BundleVersionForBranch(ReadBranch(wire, arg), pool) = "None"

ReadTx(wire, arg) ==
    LET branch == ReadBranch(wire, arg)
        versionOf(pool) ==
            IF pool \in {"orchard", "ironwood"} /\ wire.bundle[pool].size > 0
            THEN BundleVersionForBranch(branch, pool) ELSE "None"
    IN  [version |-> wire.version,
         branch |-> branch,
         expiry |-> IF HasOverwinter(wire.version) THEN wire.expiry ELSE 0,
         bundle |-> [pool \in Pools |-> [version |-> versionOf(pool),
                                         size |-> wire.bundle[pool].size,
                                         balance |-> wire.bundle[pool].balance]],
         staking |-> wire.staking]

----------------------------------------------------------------------------
(* StakingAction::value_balance_contribution. *)
StakingContribution(s) ==
    IF s.kind = "CreateNewDelegationBond" THEN -s.amount
    ELSE IF s.kind = "WithdrawDelegationBond" THEN s.amount ELSE 0

(* Sum of ZatBalances in the order of the code: every partial sum must be   *)
(* in range, or the result is None.                                         *)
SumInRange(transparent, sprout, sapling, orchard, ironwood, staking) ==
    /\ transparent + sprout \in ZatBalance
    /\ transparent + sprout + sapling \in ZatBalance
    /\ transparent + sprout + sapling + orchard \in ZatBalance
    /\ transparent + sprout + sapling + orchard + ironwood \in ZatBalance
    /\ transparent + sprout + sapling + orchard + ironwood + staking \in ZatBalance

(* TransactionData::fee_paid, when every previous output is known. *)
FeePaid(tx) ==
    tx.bundle["transparent"].balance + tx.bundle["sprout"].balance
        + tx.bundle["sapling"].balance + tx.bundle["orchard"].balance
        + tx.bundle["ironwood"].balance + StakingContribution(tx.staking)

FeePaidFails(tx) ==
    \/ ~SumInRange(tx.bundle["transparent"].balance, tx.bundle["sprout"].balance,
                   tx.bundle["sapling"].balance, tx.bundle["orchard"].balance,
                   tx.bundle["ironwood"].balance, StakingContribution(tx.staking))
    \/ FeePaid(tx) < 0
=============================================================================
