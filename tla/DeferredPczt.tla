---------------------------- MODULE DeferredPczt ----------------------------
(***************************************************************************)
(* DeferredPcztBuilder: a builder of V6 transactions that takes no anchor. *)
(* It hands out the parts of a PCZT that is signed first; the anchors and  *)
(* witnesses of its Orchard and Ironwood bundles come when it is proved.   *)
(*                                                                         *)
(* As in TxBuilder, a call that returns an error and leaves the builder as *)
(* it was is a stuttering step.  Each Orchard output to an address is such *)
(* a call: V6 branches restrict the Orchard pool to change.                *)
(***************************************************************************)
EXTENDS TxSigning

CONSTANTS
    Paddings,                    \* the BundlePadding pairs of the callers
    TargetHeights, ExpiryHeights,
    NoteValues,
    DEFAULT_TX_EXPIRY_DELTA,
    MARGINAL_FEE, GRACE_ACTIONS, \* ZIP 317
    MaxItems                     \* bound: spends and outputs added to a builder

OrchardPools == {"orchard", "ironwood"}
NoteVersions == {"V2", "V3"}

ASSUME DeferredAssumption ==
    /\ Paddings \subseteq [OrchardPools -> [bundle_required : BOOLEAN, pad_to_minimum : Nat \ {0}]]
    /\ TargetHeights \subseteq Heights /\ ExpiryHeights \subseteq Heights
    /\ NoteValues \subseteq Zatoshis
    /\ DEFAULT_TX_EXPIRY_DELTA \in Nat
    /\ MARGINAL_FEE \in Zatoshis /\ GRACE_ACTIONS \in Nat /\ MaxItems \in Nat

VARIABLES
    outcome,    \* "none", "building", "built" or the error that ended the builder
    version, branch, expiry,
    padding,    \* of each pool's builder
    parts,      \* spends and outputs of each pool: their numbers and values
    pczt,       \* PcztParts
    fee         \* the fee computed by build_for_pczt

deferred == <<outcome, version, branch, expiry, padding, parts, pczt, fee>>

NoPart == [spends |-> 0, outputs |-> 0, in |-> 0, out |-> 0]
NoParts == [pool \in OrchardPools |-> NoPart]
NoPadding == [pool \in OrchardPools |-> [bundle_required |-> FALSE, pad_to_minimum |-> 1]]
NoPczt == Tx("V6", Nu6_3, 0, {}, {}, {}, {}, {})

DeferredInit ==
    /\ outcome = "none"
    /\ version = "V6" /\ branch = Sprout /\ expiry = 0
    /\ padding = NoPadding /\ parts = NoParts
    /\ pczt = NoPczt /\ fee = 0

SupportsDeferral(v) == HasIronwood(v)

New(net, target, pads) ==
    LET b == ForHeight(net, target)
        v == SuggestedForBranch(b)
    IN  /\ outcome = "none"
        /\ outcome' = IF SupportsDeferral(v) THEN "building" ELSE "AnchorDeferralUnsupported"
        /\ version' = v /\ branch' = b
        /\ expiry' = HeightAdd(target, DEFAULT_TX_EXPIRY_DELTA)
        /\ padding' = pads
        /\ UNCHANGED <<parts, pczt, fee>>

WithExpiryHeight(h) ==
    /\ outcome = "building"
    /\ expiry' = h
    /\ UNCHANGED <<outcome, version, branch, padding, parts, pczt, fee>>

----------------------------------------------------------------------------
Items == parts["orchard"].spends + parts["orchard"].outputs
         + parts["ironwood"].spends + parts["ironwood"].outputs
InUse(pool) == parts[pool].spends + parts[pool].outputs > 0
Net(pool) == parts[pool].in - parts[pool].out
Larger(a, b) == IF a >= b THEN a ELSE b

AddTo(pool, part) ==
    /\ outcome = "building" /\ Items < MaxItems
    /\ parts' = [parts EXCEPT ![pool] = part]
    /\ UNCHANGED <<outcome, version, branch, expiry, padding, pczt, fee>>

(* A spend has no witness yet.  The Ironwood pool takes V3 notes only. *)
AddSpend(pool, note, value) ==
    /\ pool = "ironwood" => note = "V3"
    /\ AddTo(pool, [parts[pool] EXCEPT !.spends = @ + 1, !.in = @ + value])

(* add_orchard_change_output and add_ironwood_output. *)
AddOutput(pool, value) ==
    AddTo(pool, [parts[pool] EXCEPT !.outputs = @ + 1, !.out = @ + value])

----------------------------------------------------------------------------
(* Fees, over the actions that each pool's bundle is padded to.             *)

(* Spends and outputs share actions in the Ironwood pool only. *)
ActionCount(pool) ==
    LET p == parts[pool]
        requested == IF pool = "orchard" THEN p.spends + p.outputs ELSE Larger(p.spends, p.outputs)
    IN  IF requested = 0 /\ ~padding[pool].bundle_required THEN 0
        ELSE Larger(requested, padding[pool].pad_to_minimum)

FeeRequired(actions) == MARGINAL_FEE * Larger(GRACE_ACTIONS, actions)

(* Mutant: the padding is not paid for. *)
GetFeeUnpadded == FeeRequired(parts["orchard"].spends + parts["orchard"].outputs
                              + Larger(parts["ironwood"].spends, parts["ironwood"].outputs))

GetFee == FeeRequired(ActionCount("orchard") + ActionCount("ironwood"))

BuildError ==
    LET balance == Net("orchard") + Net("ironwood")
    IN  IF GetFee \notin Zatoshis THEN "Fee"
        ELSE IF \/ Net("orchard") \notin ZatBalance \/ Net("ironwood") \notin ZatBalance
                \/ balance \notin ZatBalance \/ balance - GetFee \notin ZatBalance THEN "Balance"
        ELSE IF balance < GetFee THEN "InsufficientFunds"
        ELSE IF balance > GetFee THEN "ChangeRequired" ELSE "Ok"

(* A bundle is created for a pool that is in use; its anchor is absent. *)
BuiltBundle(pool) ==
    IF InUse(pool)
    THEN {ShieldedBundle([actions |-> ActionCount(pool), balance |-> Net(pool)], NoAnchor)}
    ELSE {}

BuildForPczt ==
    /\ outcome = "building"
    /\ outcome' = IF BuildError = "Ok" THEN "built" ELSE BuildError
    /\ pczt' = IF BuildError = "Ok"
               THEN Tx(version, branch, expiry, {}, {}, BuiltBundle("orchard"), BuiltBundle("ironwood"), {})
               ELSE pczt
    /\ fee' = IF BuildError = "Ok" THEN GetFee ELSE fee
    /\ UNCHANGED <<version, branch, expiry, padding, parts>>

DeferredNext ==
    \/ \E net \in Networks, target \in TargetHeights, pads \in Paddings : New(net, target, pads)
    \/ \E h \in ExpiryHeights : WithExpiryHeight(h)
    \/ \E pool \in OrchardPools, note \in NoteVersions, value \in NoteValues : AddSpend(pool, note, value)
    \/ \E pool \in OrchardPools, value \in NoteValues : AddOutput(pool, value)
    \/ BuildForPczt

----------------------------------------------------------------------------
(* The actions that a transaction with these bundles is charged for. *)
PaidActions(pool) == IF pczt[pool] = {} THEN 0 ELSE (CHOOSE b \in pczt[pool] : TRUE).effects.actions

(* build_for_pczt: the PCZT pays exactly the fee that its own bundles       *)
(* require, and more only for a pool whose padding requires a bundle and    *)
(* which is not in use: its dummies are paid for and not created.           *)
PaysForItsBundles ==
    outcome = "built" =>
        LET unused == {pool \in OrchardPools : padding[pool].bundle_required /\ pczt[pool] = {}}
            required == FeeRequired(PaidActions("orchard") + PaidActions("ironwood"))
        IN  /\ Net("orchard") + Net("ironwood") = fee
            /\ fee >= required
            /\ unused = {} => fee = required

(* BundlePadding: a required bundle is produced even when nothing was added. *)
RequiredBundleIsProduced ==
    outcome = "built" =>
        \A pool \in OrchardPools : padding[pool].bundle_required => pczt[pool] # {}
=============================================================================
