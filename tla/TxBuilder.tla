----------------------------- MODULE TxBuilder -----------------------------
(***************************************************************************)
(* zcash_primitives::transaction::builder::Builder: a caller creates a     *)
(* builder for a target height, adds inputs, outputs and a staking action, *)
(* may propose another transaction version or expiry height, and finally   *)
(* builds a transaction or the parts of a PCZT.                            *)
(*                                                                         *)
(* The calls come in any order, and each checks only what it needs.  Which *)
(* pools have a builder is fixed by new, from the default version of the   *)
(* branch; the version may change afterwards.  What the final transaction  *)
(* must satisfy depends on all of it.                                      *)
(*                                                                         *)
(* A call that returns an error leaves the builder as it was, so it is a   *)
(* stuttering step here: the actions show the calls that succeed.  build   *)
(* and build_for_pczt consume the builder, and record their errors.        *)
(***************************************************************************)
EXTENDS TxFormat

CONSTANTS
    Configs,                     \* the BuildConfigs of the callers
    TargetHeights,               \* the heights they build for
    ExpiryHeights,               \* the heights given to with_expiry_height
    NoteValues,                  \* values of shielded notes
    TransparentInputs,           \* coins: [value, size], size UnknownSize for unknown P2SH
    TransparentOutputs,          \* [value, size], null data outputs included
    StakingPuts,                 \* the staking actions the callers may put
    DEFAULT_TX_EXPIRY_DELTA,     \* 40 blocks
    MARGINAL_FEE, GRACE_ACTIONS, \* ZIP 317
    P2PKH_STANDARD_INPUT_SIZE, P2PKH_STANDARD_OUTPUT_SIZE,
    FIXED_FEE,                   \* the fee of a fixed::FeeRule
    MaxItems                     \* bound: inputs and outputs added to a builder

ShieldedPools == {"sapling", "orchard", "ironwood"}
BuilderPools == {"transparent"} \union ShieldedPools
FeeRules == {"zip317", "fixed"}
UnknownSize == -1

BuildConfigs ==
    [kind : {"Standard", "VCrosslink", "Coinbase"},
     anchors : SUBSET ShieldedPools,
     padding : [{"orchard", "ironwood"} -> [bundle_required : BOOLEAN, pad_to_minimum : Nat \ {0}]]]

ASSUME BuilderAssumption ==
    /\ Configs \subseteq BuildConfigs
    /\ TargetHeights \subseteq Heights
    /\ ExpiryHeights \subseteq Heights
    /\ NoteValues \subseteq Zatoshis
    /\ TransparentInputs \subseteq [value : Zatoshis, size : Nat \union {UnknownSize}]
    /\ TransparentOutputs \subseteq [value : Zatoshis, size : Nat]
    /\ StakingPuts \subseteq StakingActions \ {NoStaking}
    /\ DEFAULT_TX_EXPIRY_DELTA \in Nat

ASSUME FeeAssumption ==
    /\ MARGINAL_FEE \in Zatoshis
    /\ FIXED_FEE \in Zatoshis
    /\ GRACE_ACTIONS \in Nat
    /\ P2PKH_STANDARD_INPUT_SIZE \in Nat \ {0}
    /\ P2PKH_STANDARD_OUTPUT_SIZE \in Nat \ {0}
    /\ MaxItems \in Nat

VARIABLES
    config, branch, target,  \* set by new
    builders,                \* the shielded pools for which new created a builder
    version, expiry,         \* tx_version and expiry_height
    parts,                   \* what was added to each pool's builder
    tsize,                   \* serialized sizes of the transparent inputs and outputs
    staking,                 \* staking_action
    outcome,                 \* "building" until the builder is consumed
    tx, fee                  \* the data frozen by build, or the PCZT parts, and the fee required

setup == <<config, branch, target, builders>>
result == <<outcome, tx, fee>>
vars == <<config, branch, target, builders, version, expiry, parts, tsize, staking, outcome, tx, fee>>

Part == [spends : Nat, outputs : Nat, in : Nat, out : Nat]
NoPart == [spends |-> 0, outputs |-> 0, in |-> 0, out |-> 0]
NoTx == [version |-> "V5", branch |-> Sprout, expiry |-> 0,
         bundle |-> [p \in Pools |-> NoBundle], staking |-> NoStaking]

IsCoinbase == config.kind = "Coinbase"
IsVCrosslink == config.kind = "VCrosslink"
Larger(a, b) == IF a >= b THEN a ELSE b
InUse(pool) == parts[pool].spends + parts[pool].outputs > 0
Net(pool) == parts[pool].in - parts[pool].out
Items == parts["transparent"].spends + parts["transparent"].outputs
         + parts["sapling"].spends + parts["sapling"].outputs
         + parts["orchard"].spends + parts["orchard"].outputs
         + parts["ironwood"].spends + parts["ironwood"].outputs

----------------------------------------------------------------------------
(* Builder::new.                                                            *)

(* The pools whose builder exists.  Coinbase has no Orchard builder under   *)
(* orchard_v3, and VCrosslink never has an Ironwood one.                    *)
BuildersFor(c, b, v) ==
    {pool \in ShieldedPools :
        \/ pool = "sapling" /\ (c.kind = "Coinbase" \/ "sapling" \in c.anchors)
        \/ /\ pool = "orchard"
           /\ BundleVersionForBranch(b, "orchard") # "None"
           /\ IF c.kind = "Coinbase"
              THEN BundleVersionForBranch(b, "orchard") # "orchard_v3"
              ELSE "orchard" \in c.anchors
        \/ /\ pool = "ironwood"
           /\ HasIronwood(v)
           /\ c.kind = "Coinbase" \/ (c.kind = "Standard" /\ "ironwood" \in c.anchors)}

DefaultVersion(c, b) ==
    IF c.kind = "VCrosslink" THEN "VCrosslink" ELSE SuggestedForBranch(b)

DefaultExpiry(c, h) ==
    IF c.kind = "Coinbase" THEN h ELSE HeightAdd(h, DEFAULT_TX_EXPIRY_DELTA)

Init ==
    /\ config \in Configs
    /\ target \in TargetHeights
    /\ branch \in {ForHeight(net, target) : net \in Networks}
    /\ version = DefaultVersion(config, branch)
    /\ builders = BuildersFor(config, branch, version)
    /\ expiry = DefaultExpiry(config, target)
    /\ parts = [pool \in BuilderPools |-> NoPart]
    /\ tsize = [in |-> 0, out |-> 0, unknown |-> FALSE]
    /\ staking = NoStaking
    /\ outcome = "building" /\ tx = NoTx /\ fee = 0

----------------------------------------------------------------------------
(* check_version_compatibility, in the order of its early returns.          *)

(* Mutant: the Ironwood clause is missing. *)
CheckVersionWithoutIronwood(v) ==
    IF HasCrosslink(v) # IsVCrosslink THEN "CrosslinkConfigMismatch"
    ELSE IF staking # NoStaking /\ ~HasCrosslink(v) THEN "StakingActionUnsupported"
    ELSE IF \/ ~ValidInBranch(v, branch)
            \/ ~(HasSapling(v) /\ BranchHasSapling(branch)) /\ InUse("sapling")
            \/ ~(HasOrchard(v) /\ BranchHasOrchard(branch)) /\ InUse("orchard")
         THEN "TargetIncompatible" ELSE "Ok"

(* Mutant: the Orchard clause is missing. *)
CheckVersionWithoutOrchard(v) ==
    IF HasCrosslink(v) # IsVCrosslink THEN "CrosslinkConfigMismatch"
    ELSE IF staking # NoStaking /\ ~HasCrosslink(v) THEN "StakingActionUnsupported"
    ELSE IF \/ ~ValidInBranch(v, branch)
            \/ ~(HasSapling(v) /\ BranchHasSapling(branch)) /\ InUse("sapling")
            \/ ~(HasIronwood(v) /\ branch = Nu6_3) /\ InUse("ironwood")
         THEN "TargetIncompatible" ELSE "Ok"

CheckVersion(v) ==
    IF HasCrosslink(v) # IsVCrosslink THEN "CrosslinkConfigMismatch"
    ELSE IF staking # NoStaking /\ ~HasCrosslink(v) THEN "StakingActionUnsupported"
    ELSE IF \/ ~ValidInBranch(v, branch)
            \/ ~(HasSapling(v) /\ BranchHasSapling(branch)) /\ InUse("sapling")
            \/ ~(HasOrchard(v) /\ BranchHasOrchard(branch)) /\ InUse("orchard")
            \/ ~(HasIronwood(v) /\ branch = Nu6_3) /\ InUse("ironwood")
         THEN "TargetIncompatible" ELSE "Ok"

ProposeVersion(v) ==
    /\ outcome = "building"
    /\ CheckVersion(v) = "Ok"
    /\ version' = v
    /\ UNCHANGED <<setup, expiry, parts, tsize, staking, result>>

WithExpiryHeight(h) ==
    /\ outcome = "building"
    /\ expiry' = h
    /\ UNCHANGED <<setup, version, parts, tsize, staking, result>>

----------------------------------------------------------------------------
(* The calls that add to a pool.                                            *)

WithSpend(p, value) ==
    [spends |-> p.spends + 1, outputs |-> p.outputs, in |-> p.in + value, out |-> p.out]
WithOutput(p, value) ==
    [spends |-> p.spends, outputs |-> p.outputs + 1, in |-> p.in, out |-> p.out + value]

AddSpendTo(pool, value) ==
    /\ outcome = "building" /\ Items < MaxItems
    /\ parts' = [parts EXCEPT ![pool] = WithSpend(parts[pool], value)]

AddOutputTo(pool, value) ==
    /\ outcome = "building" /\ Items < MaxItems
    /\ parts' = [parts EXCEPT ![pool] = WithOutput(parts[pool], value)]

(* The pool builders refuse spends of a coinbase transaction, and Sapling's *)
(* refuses what takes its value balance out of range.                       *)
AcceptsSpend(pool, value) ==
    /\ pool \in builders
    /\ ~IsCoinbase
    /\ pool = "sapling" => Net(pool) + value \in ZatBalance

(* An output to another address is refused where cross-address transfers    *)
(* are disabled, the Orchard pool from NU6.3 on.                            *)
AcceptsOutput(pool, value) ==
    /\ pool \in builders
    /\ pool = "orchard" => BundleVersionForBranch(branch, "orchard") # "orchard_v3"
    /\ pool = "sapling" => Net(pool) - value \in ZatBalance

AddShieldedSpend(pool, value) ==
    /\ AcceptsSpend(pool, value)
    /\ AddSpendTo(pool, value)
    /\ UNCHANGED <<setup, version, expiry, tsize, staking, result>>

AddShieldedOutput(pool, value) ==
    /\ AcceptsOutput(pool, value)
    /\ AddOutputTo(pool, value)
    /\ UNCHANGED <<setup, version, expiry, tsize, staking, result>>

(* Change to the wallet's own address is never a cross-address transfer. *)
AddOrchardChangeOutput(value) ==
    /\ "orchard" \in builders
    /\ AddOutputTo("orchard", value)
    /\ UNCHANGED <<setup, version, expiry, tsize, staking, result>>

AddTransparentInput(coin) ==
    /\ AddSpendTo("transparent", coin.value)
    /\ tsize' = IF coin.size = UnknownSize
                THEN [tsize EXCEPT !.unknown = TRUE]
                ELSE [tsize EXCEPT !.in = @ + coin.size]
    /\ UNCHANGED <<setup, version, expiry, staking, result>>

AddTransparentOutput(output) ==
    /\ AddOutputTo("transparent", output.value)
    /\ tsize' = [tsize EXCEPT !.out = @ + output.size]
    /\ UNCHANGED <<setup, version, expiry, staking, result>>

(* A second staking action replaces the first. *)
PutStakingAction(action) ==
    /\ outcome = "building"
    /\ HasCrosslink(version)
    /\ staking' = action
    /\ UNCHANGED <<setup, version, expiry, parts, tsize, result>>

----------------------------------------------------------------------------
(* Fees.                                                                    *)

CeilDiv(a, b) == (a + b - 1) \div b

(* num_actions of the Orchard builder: requested actions padded to the      *)
(* minimum, and the minimum of dummy actions where a bundle is required.    *)
(* Without cross-address transfers a spend and an output do not share an    *)
(* action.  Every action of a coinbase bundle is an output.                 *)
ActionCount(pool) ==
    LET p == parts[pool]
        requested == IF pool = "orchard"
                        /\ BundleVersionForBranch(branch, "orchard") = "orchard_v3"
                     THEN p.spends + p.outputs
                     ELSE Larger(p.spends, p.outputs)
        padding == config.padding[pool]
    IN  IF pool \notin builders THEN 0
        ELSE IF IsCoinbase THEN p.outputs
        ELSE IF requested = 0 /\ ~padding.bundle_required THEN 0
        ELSE Larger(requested, padding.pad_to_minimum)

(* Mutant: only a bundle without spends is padded. *)
SaplingOutputCountUnpadded ==
    LET p == parts["sapling"]
    IN  IF ~InUse("sapling") \/ IsCoinbase \/ p.spends > 0 THEN p.outputs ELSE Larger(p.outputs, 2)

(* num_outputs of the Sapling builder: padded to two if there is a bundle. *)
SaplingOutputCount ==
    LET p == parts["sapling"]
    IN  IF ~InUse("sapling") \/ IsCoinbase THEN p.outputs ELSE Larger(p.outputs, 2)

LogicalActions ==
    Larger(CeilDiv(tsize.in, P2PKH_STANDARD_INPUT_SIZE),
           CeilDiv(tsize.out, P2PKH_STANDARD_OUTPUT_SIZE))
    + Larger(parts["sapling"].spends, SaplingOutputCount)
    + ActionCount("orchard") + ActionCount("ironwood")

(* get_fee, under either rule. *)
GetFee(rule) ==
    IF rule = "fixed" THEN FIXED_FEE
    ELSE MARGINAL_FEE * Larger(GRACE_ACTIONS, LogicalActions)

GetFeeFails(rule) ==
    rule = "zip317" /\ (tsize.unknown \/ GetFee(rule) \notin Zatoshis)

----------------------------------------------------------------------------
(* Balance.                                                                 *)
ValueBalance ==
    Net("transparent") + Net("sapling") + Net("orchard") + Net("ironwood")
    + StakingContribution(staking)

ValueBalanceFails ==
    \/ parts["transparent"].in \notin Zatoshis
    \/ parts["transparent"].out \notin Zatoshis
    \/ Net("orchard") \notin ZatBalance
    \/ Net("ironwood") \notin ZatBalance
    \/ ~SumInRange(Net("transparent"), 0, Net("sapling"), Net("orchard"), Net("ironwood"),
                   StakingContribution(staking))

(* Mutant: an excess of value is left to the miner. *)
BalanceErrorKeepsChange(f) ==
    IF ValueBalanceFails THEN "Balance"
    ELSE IF ValueBalance - f \notin ZatBalance THEN "Balance"
    ELSE IF ValueBalance < f THEN "InsufficientFunds" ELSE "Ok"

(* After fees, the balance must be zero. *)
BalanceError(f) ==
    IF ValueBalanceFails THEN "Balance"
    ELSE IF ValueBalance - f \notin ZatBalance THEN "Balance"
    ELSE IF ValueBalance < f THEN "InsufficientFunds"
    ELSE IF ValueBalance > f THEN "ChangeRequired" ELSE "Ok"

(* Mutant: the expiry height of a coinbase is not checked. *)
ExpiryNeverChecked == FALSE

(* check_coinbase_expiry_height *)
CoinbaseExpiryMismatch == IsCoinbase /\ expiry # target

----------------------------------------------------------------------------
(* build.                                                                   *)

(* The first error that build returns before it creates bundles. *)
BuildError(rule) ==
    IF ~IsCoinbase /\ GetFeeFails(rule) THEN "Fee"
    ELSE IF CheckVersion(version) # "Ok" THEN CheckVersion(version)
    ELSE IF CoinbaseExpiryMismatch THEN "CoinbaseExpiryHeightMismatch"
    ELSE IF IsCoinbase
         THEN IF parts["transparent"].spends > 0 THEN "Coinbase" ELSE "Ok"
         ELSE BalanceError(GetFee(rule))

(* The transparent, Sapling, Orchard and Ironwood bundles that the pools'   *)
(* builders create, whatever the version of the transaction.                *)
BuiltBundle(pool) ==
    IF pool = "transparent"
    THEN [version |-> "None", balance |-> Net(pool),
          size |-> parts[pool].spends + parts[pool].outputs + (IF IsCoinbase THEN 1 ELSE 0)]
    ELSE IF pool = "sapling"
    THEN [version |-> "None", balance |-> Net(pool),
          size |-> parts[pool].spends + SaplingOutputCount]
    ELSE IF pool \in {"orchard", "ironwood"} /\ ActionCount(pool) > 0
    THEN [version |-> IF pool = "orchard" THEN BundleVersionForBranch(branch, pool)
                      ELSE "ironwood_v3",
          balance |-> Net(pool), size |-> ActionCount(pool)]
    ELSE NoBundle

UnauthedTx ==
    [version |-> version, branch |-> branch, expiry |-> expiry,
     bundle |-> [pool \in Pools |-> BuiltBundle(pool)], staking |-> staking]

(* How build ends once every key is there.  It hashes for the shielded      *)
(* signatures whether or not there are any, expects a proving key for the   *)
(* branch of an Orchard or Ironwood bundle, and unwraps freeze().           *)
Panics == {"sighash panic", "key panic", "freeze panic"}

Completion(t) ==
    IF SighashPanics(t) THEN "sighash panic"
    ELSE IF /\ Present(t, "orchard") \/ Present(t, "ironwood")
            /\ BundleVersionForBranch(t.branch, "orchard") = "None" THEN "key panic"
    ELSE IF FreezeFails(t) THEN "freeze panic" ELSE "built"

HasSpends == \E pool \in BuilderPools : parts[pool].spends > 0

Finish(o, t, f) ==
    /\ outcome' = o /\ tx' = t /\ fee' = f
    /\ UNCHANGED <<setup, version, expiry, parts, tsize, staking>>

BuildRefused(rule) ==
    /\ outcome = "building" /\ BuildError(rule) # "Ok"
    /\ Finish(BuildError(rule), tx, fee)

(* A key that the caller did not supply is missed only at signing. *)
BuildUnsigned(rule) ==
    /\ outcome = "building" /\ BuildError(rule) = "Ok" /\ HasSpends
    /\ Finish("MissingSignature", tx, fee)

BuildFrozen(rule) ==
    /\ outcome = "building" /\ BuildError(rule) = "Ok"
    /\ Finish(Completion(UnauthedTx), UnauthedTx, IF IsCoinbase THEN 0 ELSE GetFee(rule))

Build(rule) == BuildRefused(rule) \/ BuildUnsigned(rule) \/ BuildFrozen(rule)

----------------------------------------------------------------------------
(* build_for_pczt.                                                          *)

(* Mutant: PCZTs skip the check of the version. *)
PcztErrorWithoutVersion(rule) ==
    IF GetFeeFails(rule) THEN "Fee"
    ELSE IF CoinbaseExpiryMismatch THEN "CoinbaseExpiryHeightMismatch"
    ELSE IF HasCrosslink(version) THEN "CrosslinkPcztUnsupported"
    ELSE BalanceError(GetFee(rule))

PcztError(rule) ==
    IF GetFeeFails(rule) THEN "Fee"
    ELSE IF CheckVersion(version) # "Ok" THEN CheckVersion(version)
    ELSE IF CoinbaseExpiryMismatch THEN "CoinbaseExpiryHeightMismatch"
    ELSE IF HasCrosslink(version) THEN "CrosslinkPcztUnsupported"
    ELSE BalanceError(GetFee(rule))

(* The parts of the PCZT: unlike build, it leaves out what V6 alone carries. *)
PcztParts ==
    [UnauthedTx EXCEPT
        !.bundle["transparent"] =
            [version |-> "None", balance |-> Net("transparent"),
             size |-> parts["transparent"].spends + parts["transparent"].outputs],
        !.bundle["ironwood"] = IF HasIronwood(version) THEN @ ELSE NoBundle]

BuildForPczt(rule) ==
    /\ outcome = "building"
    /\ IF PcztError(rule) = "Ok"
       THEN Finish("pczt", PcztParts, GetFee(rule))
       ELSE Finish(PcztError(rule), tx, fee)

----------------------------------------------------------------------------
Next ==
    \/ \E v \in TxVersions : ProposeVersion(v)
    \/ \E h \in ExpiryHeights : WithExpiryHeight(h)
    \/ \E pool \in ShieldedPools, value \in NoteValues : AddShieldedSpend(pool, value)
    \/ \E pool \in ShieldedPools, value \in NoteValues : AddShieldedOutput(pool, value)
    \/ \E value \in NoteValues : AddOrchardChangeOutput(value)
    \/ \E coin \in TransparentInputs : AddTransparentInput(coin)
    \/ \E output \in TransparentOutputs : AddTransparentOutput(output)
    \/ \E action \in StakingPuts : PutStakingAction(action)
    \/ \E rule \in FeeRules : Build(rule)
    \/ \E rule \in FeeRules : BuildForPczt(rule)

Spec == Init /\ [][Next]_vars

----------------------------------------------------------------------------
Refusals ==
    {"Fee", "CrosslinkConfigMismatch", "StakingActionUnsupported", "TargetIncompatible",
     "CoinbaseExpiryHeightMismatch", "Coinbase", "Balance", "InsufficientFunds",
     "ChangeRequired", "MissingSignature", "CrosslinkPcztUnsupported"}
Outcomes == {"building", "built", "pczt"} \union Panics \union Refusals

(* The fields of the builder and of its result.  The expiry height stays a  *)
(* u32 although new adds to the target height, and the fee stays an amount. *)
TypeOK ==
    /\ config \in BuildConfigs
    /\ branch \in BranchIds
    /\ target \in Heights
    /\ builders \subseteq ShieldedPools
    /\ version \in TxVersions
    /\ expiry \in Heights
    /\ parts \in [BuilderPools -> Part]
    /\ tsize \in [in : Nat, out : Nat, unknown : BOOLEAN]
    /\ staking \in StakingActions
    /\ outcome \in Outcomes
    /\ tx \in TransactionData
    /\ fee \in Zatoshis

(* What holds of a builder between calls: which pools have a builder was    *)
(* decided by new, a pool without one is empty, and a pool without inputs   *)
(* or outputs moves no value.                                               *)
BuildersAsCreated ==
    builders = BuildersFor(config, branch, DefaultVersion(config, branch))

PartsConsistent ==
    /\ \A pool \in ShieldedPools : pool \notin builders => parts[pool] = NoPart
    /\ \A pool \in BuilderPools :
        /\ parts[pool].spends = 0 => parts[pool].in = 0
        /\ parts[pool].outputs = 0 => parts[pool].out = 0
    /\ IsCoinbase => \A pool \in ShieldedPools : parts[pool].spends = 0

(* The version and the configuration agree on Crosslink from new to build,  *)
(* and a staking action is held only by a builder whose version carries it, *)
(* whatever versions were proposed before and after it was put.             *)
StakingNeedsVCrosslink ==
    /\ HasCrosslink(version) <=> IsVCrosslink
    /\ staking # NoStaking => HasCrosslink(version)

(* Whatever was proposed and added in whatever order, a transaction that    *)
(* build returns has a version of its branch, is accepted by write, and is  *)
(* accepted by read from any reader.                                        *)
BuiltTransactionSerialises ==
    outcome = "built" =>
        /\ ValidInBranch(tx.version, tx.branch)
        /\ ~WriteFails(tx)
        /\ \A b \in BranchIds : ~ReadFails(WireOf(tx), b)

(* Conservation of value, as the network sees it: the transaction that any  *)
(* reader recovers from the serialisation of what build returned pays       *)
(* exactly the fee the fee rule required.  No pool that moves value is      *)
(* dropped by the wire format, and no balance is out of range.              *)
WirePaysRequiredFee ==
    outcome = "built" /\ ~IsCoinbase =>
        \A b \in BranchIds :
            LET seen == ReadTx(WireOf(tx), b)
            IN  ~FeePaidFails(seen) /\ FeePaid(seen) = fee

(* Nothing that the caller added is lost between the builder and the wire:  *)
(* every pool in use has its balance and at least its inputs and outputs,   *)
(* and the staking action is the last one that was put.                     *)
NothingAddedIsLost ==
    outcome \in {"built", "pczt"} =>
        /\ \A pool \in BuilderPools :
            InUse(pool) =>
                /\ WireOf(tx).bundle[pool].balance = Net(pool)
                /\ WireOf(tx).bundle[pool].size >= Larger(parts[pool].spends, parts[pool].outputs)
        /\ WireOf(tx).staking = staking

(* A reader with the right branch recovers the transaction that build       *)
(* returned, with one exception that the formats make: a required but       *)
(* unused Ironwood bundle of dummies is silently left out of every format   *)
(* but V6.                                                                  *)
RoundTripsUnlessDummies ==
    outcome = "built" =>
        LET seen == ReadTx(WireOf(tx), tx.branch)
        IN  \/ seen = tx
            \/ /\ ~HasIronwood(tx.version) /\ ~InUse("ironwood")
               /\ config.padding["ironwood"].bundle_required
               /\ seen = [tx EXCEPT !.bundle["ironwood"] = NoBundle]

(* A required Orchard bundle under a version without Orchard: the builder's *)
(* dummy actions have nowhere to go.                                        *)
OrphanedDummies ==
    /\ "orchard" \in builders /\ ~IsCoinbase
    /\ config.padding["orchard"].bundle_required
    /\ ~HasOrchard(version)

(* The builders that pass every check of build and still make it panic are  *)
(* exactly two kinds: those whose version is before Overwinter, in hashing  *)
(* for the signatures, and those left with orphaned dummies after another   *)
(* version was proposed, in unwrapping freeze.  There is always a proving   *)
(* key for the bundles that were built.                                     *)
PanicsExactlyWhen ==
    outcome \in Panics \union {"built"} =>
        /\ outcome = "sighash panic" <=> version = "Sprout"
        /\ outcome = "freeze panic" <=> OrphanedDummies
        /\ outcome # "key panic"

(* What build does for a caller who supplies every key. *)
BuildVerdict(rule) ==
    IF BuildError(rule) # "Ok" THEN BuildError(rule) ELSE Completion(UnauthedTx)

(* build and build_for_pczt refuse the same standard builders for the same  *)
(* reason, although each repeats the checks; of those that build_for_pczt   *)
(* accepts, build returns a transaction except where it panics, before      *)
(* Overwinter and on orphaned dummies.                                      *)
EntryPointsDifferOnlyInPanics ==
    outcome = "building" /\ config.kind = "Standard" =>
        \A rule \in FeeRules :
            BuildVerdict(rule) =
                IF PcztError(rule) # "Ok" THEN PcztError(rule)
                ELSE IF version = "Sprout" THEN "sighash panic"
                ELSE IF OrphanedDummies THEN "freeze panic" ELSE "built"

(* A coinbase transaction expires at its own height, spends no note and     *)
(* stakes nothing, whatever expiry was set on the way.                      *)
CoinbaseIsWellFormed ==
    outcome = "built" /\ IsCoinbase =>
        /\ tx.expiry = target
        /\ \A pool \in ShieldedPools : parts[pool].spends = 0 /\ tx.bundle[pool].balance <= 0
        /\ tx.staking = NoStaking

(* Adding to a builder never lowers the conventional fee: what a caller     *)
(* computed for fewer inputs and outputs is a lower bound.                  *)
FeeNeverFalls == [][GetFee("zip317")' >= GetFee("zip317")]_vars

(* The inductive invariant of the builder's fields. *)
BuilderInv ==
    /\ TypeOK
    /\ BuildersAsCreated
    /\ PartsConsistent
    /\ StakingNeedsVCrosslink

----------------------------------------------------------------------------
(* What the comments of the code say, which build does not satisfy.         *)

(* "The unwrap() here is safe because the txid hashing of freeze() should   *)
(* be infalliable."                                                         *)
FreezeIsInfallible == outcome # "freeze panic"
=============================================================================
