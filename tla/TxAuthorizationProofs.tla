----------------------- MODULE TxAuthorizationProofs -----------------------
(***************************************************************************)
(* The signatures of a transaction stand and its PCZT pays for itself, for *)
(* every plan, draft, padding and fee parameter.                           *)
(***************************************************************************)
EXTENDS TxAuthorization, OperatorProofs, FiniteSetTheorems

(* A PCZT in the hands of its signers, updaters and provers. *)
IsPczt(t) ==
    /\ IsTx(t)
    /\ t.version = "V6" /\ t.transparent = {} /\ t.sapling = {}
    /\ \A b, c \in t.orchard : b = c
    /\ \A b, c \in t.ironwood : b = c

(* A transaction that cosigners edit: one transparent bundle, no coinbase,  *)
(* and no signature in it.                                                  *)
IsDraftBundle(b) ==
    /\ IsTransparent(b) /\ b.vout \in Seq(Outputs)
    /\ \A i \in DOMAIN b.vin : b.vin[i].coin # NullCoin /\ b.vin[i].script_sig = Unsigned
IsDraft(t) ==
    /\ IsTx(t)
    /\ \E b \in t.transparent : IsDraftBundle(b)
    /\ \A b \in t.sapling \union t.orchard \union t.ironwood : b.sigs = Unsigned

IsCosig(sig, t) ==
    /\ sig.input.hash_type \in HashTypes
    /\ \A b \in t.transparent : sig.input.index \in DOMAIN b.vin
    /\ sig.input.index \in Nat \ {0}

Part == [spends : 0 .. MaxItems, outputs : 0 .. MaxItems, in : Nat, out : Nat]
PaddingOf == [bundle_required : BOOLEAN, pad_to_minimum : Nat \ {0}]

(* The builder: every error is final, and what was built is what its parts  *)
(* add up to.                                                               *)
BuilderInv ==
    /\ parts \in [OrchardPools -> Part] /\ Items <= MaxItems
    /\ padding \in [OrchardPools -> PaddingOf]
    /\ outcome \notin {"none", "AnchorDeferralUnsupported"} => version = "V6"
    /\ outcome = "built" =>
        /\ BuildError = "Ok" /\ fee = GetFee
        /\ pczt = Tx(version, branch, expiry, {}, {}, BuiltBundle("orchard"), BuiltBundle("ironwood"), {})

(* The transaction in hand. *)
TxInv ==
    /\ IsTx(tx)
    /\ phase \in {"pczt", "extracted"} => outcome = "built" /\ IsPczt(tx)
    /\ phase = "cosigning" => IsDraft(tx) /\ \A sig \in cosigs : IsCosig(sig, tx)
    /\ phase # "cosigning" => cosigs = {}
    /\ IsFiniteSet(cosigs)

AuthInv == TypeOK /\ BuilderInv /\ TxInv /\ SignaturesStand

----------------------------------------------------------------------------
(* The builder. *)

BuilderTyped ==
    /\ outcome \in {"none", "building", "built", "AnchorDeferralUnsupported", "Fee", "Balance",
                    "InsufficientFunds", "ChangeRequired"}
    /\ version \in TxVersions /\ branch \in BranchIds /\ expiry \in Heights
    /\ fee \in Zatoshis
    /\ padding \in Paddings \union {NoPadding}

LEMMA BuilderInit == DeferredInit => BuilderTyped /\ BuilderInv
<1> SUFFICES ASSUME DeferredInit PROVE BuilderTyped /\ BuilderInv
    OBVIOUS
<1> USE HeightAssumption, MoneyAssumption, DeferredAssumption
<1>1. BuilderTyped
    BY DEF DeferredInit, BuilderTyped, TxVersions, BranchIds, Sprout, Nu6_3, Heights, Zatoshis
<1>2. parts \in [OrchardPools -> Part] /\ Items <= MaxItems
    BY DEF DeferredInit, NoParts, NoPart, Part, Items, OrchardPools
<1>3. padding \in [OrchardPools -> PaddingOf]
    BY DEF DeferredInit, NoPadding, PaddingOf, OrchardPools
<1> QED BY <1>1, <1>2, <1>3 DEF DeferredInit, BuilderInv

Numbers == [spends : Nat, outputs : Nat, in : Nat, out : Nat]

LEMMA AddedNumbers ==
    ASSUME NEW r \in Numbers, NEW x \in Nat, NEW y \in Nat
    PROVE  /\ [r EXCEPT !.spends = x, !.in = y] \in Numbers
           /\ [r EXCEPT !.outputs = x, !.out = y] \in Numbers
BY DEF Numbers

LEMMA AddToStep ==
    ASSUME BuilderTyped, BuilderInv, NEW pool \in OrchardPools, NEW part,
           part \in Numbers,
           part.spends + part.outputs = parts[pool].spends + parts[pool].outputs + 1,
           AddTo(pool, part)
    PROVE  BuilderTyped' /\ BuilderInv'
<1>1. BuilderTyped'
    BY DEF AddTo, BuilderTyped
<1>2. \A p \in OrchardPools : parts[p].spends \in Nat /\ parts[p].outputs \in Nat
    BY DeferredAssumption DEF BuilderInv, Part
<1>3. Items' = Items + 1 /\ Items \in Nat
    BY <1>2 DEF AddTo, Items, OrchardPools, BuilderInv, Numbers
<1>4. Items + 1 <= MaxItems
    BY <1>3, DeferredAssumption DEF AddTo
<1>5. part.spends + part.outputs <= MaxItems
    BY <1>2, <1>4, DeferredAssumption DEF Items, OrchardPools, Numbers
<1>6. part \in Part
    <2>1. part.spends \in 0 .. MaxItems /\ part.outputs \in 0 .. MaxItems
        BY <1>5, DeferredAssumption DEF Numbers
    <2> QED BY <2>1 DEF Part, Numbers
<1>7. parts' \in [OrchardPools -> Part]
    BY <1>6 DEF AddTo, BuilderInv
<1>8. outcome' = "building" /\ outcome = "building" /\ version' = version /\ padding' = padding
    BY DEF AddTo
<1> QED BY <1>1, <1>3, <1>4, <1>7, <1>8 DEF BuilderInv

LEMMA BuilderStep ==
    BuilderTyped /\ BuilderInv /\ DeferredNext => BuilderTyped' /\ BuilderInv'
<1> SUFFICES ASSUME BuilderTyped, BuilderInv, DeferredNext PROVE BuilderTyped' /\ BuilderInv'
    OBVIOUS
<1> USE HeightAssumption, MoneyAssumption, DeferredAssumption
<1>1. ASSUME NEW net \in Networks, NEW target \in TargetHeights, NEW pads \in Paddings,
             New(net, target, pads)
      PROVE  BuilderTyped' /\ BuilderInv'
    <2>1. ForHeight(net, target) \in BranchIds
        BY ScanResult
    <2>2. SuggestedForBranch(ForHeight(net, target)) \in TxVersions
        BY DEF SuggestedForBranch, TxVersions
    <2>3. HeightAdd(target, DEFAULT_TX_EXPIRY_DELTA) \in Heights
        BY DEF HeightAdd, Heights
    <2>4. /\ version' = SuggestedForBranch(ForHeight(net, target))
          /\ branch' = ForHeight(net, target)
          /\ expiry' = HeightAdd(target, DEFAULT_TX_EXPIRY_DELTA)
          /\ padding' = pads /\ parts' = parts /\ fee' = fee
          /\ \/ outcome' = "building" /\ version' = "V6"
             \/ outcome' = "AnchorDeferralUnsupported"
        BY <1>1 DEF New, SupportsDeferral, HasIronwood
    <2>5. BuilderTyped'
        BY <2>1, <2>2, <2>3, <2>4 DEF BuilderTyped
    <2>6. pads \in [OrchardPools -> PaddingOf]
        BY DEF PaddingOf
    <2>7. Items' = Items
        BY <2>4 DEF Items
    <2> QED BY <2>4, <2>5, <2>6, <2>7 DEF BuilderInv
<1>2. ASSUME NEW h \in ExpiryHeights, WithExpiryHeight(h)
      PROVE  BuilderTyped' /\ BuilderInv'
    BY <1>2 DEF WithExpiryHeight, BuilderTyped, BuilderInv, Items
<1>3. ASSUME NEW pool \in OrchardPools, NEW note \in NoteVersions, NEW value \in NoteValues,
             AddSpend(pool, note, value)
      PROVE  BuilderTyped' /\ BuilderInv'
    <2> DEFINE part == [parts[pool] EXCEPT !.spends = @ + 1, !.in = @ + value]
    <2>1. parts[pool] \in Part /\ value \in Nat
        BY DEF BuilderInv, Zatoshis
    <2>2. /\ part.spends = parts[pool].spends + 1 /\ part.outputs = parts[pool].outputs
          /\ part.in = parts[pool].in + value /\ part.out = parts[pool].out
          /\ part \in Numbers
        <3>1. parts[pool] \in Numbers
            BY <2>1 DEF Part, Numbers
        <3>2. parts[pool].spends + 1 \in Nat /\ parts[pool].in + value \in Nat
            BY <2>1, <3>1 DEF Numbers
        <3>3. part \in Numbers
            BY <3>1, <3>2, AddedNumbers
        <3> QED BY <3>1, <3>3 DEF Numbers
    <2>3. AddTo(pool, part)
        BY <1>3 DEF AddSpend
    <2> HIDE DEF part
    <2> QED BY <2>1, <2>2, <2>3, AddToStep DEF Part, Numbers
<1>4. ASSUME NEW pool \in OrchardPools, NEW value \in NoteValues, AddOutput(pool, value)
      PROVE  BuilderTyped' /\ BuilderInv'
    <2> DEFINE part == [parts[pool] EXCEPT !.outputs = @ + 1, !.out = @ + value]
    <2>1. parts[pool] \in Part /\ value \in Nat
        BY DEF BuilderInv, Zatoshis
    <2>2. /\ part.spends = parts[pool].spends /\ part.outputs = parts[pool].outputs + 1
          /\ part.in = parts[pool].in /\ part.out = parts[pool].out + value
          /\ part \in Numbers
        <3>1. parts[pool] \in Numbers
            BY <2>1 DEF Part, Numbers
        <3>2. parts[pool].outputs + 1 \in Nat /\ parts[pool].out + value \in Nat
            BY <2>1, <3>1 DEF Numbers
        <3>3. part \in Numbers
            BY <3>1, <3>2, AddedNumbers
        <3> QED BY <3>1, <3>3 DEF Numbers
    <2>3. AddTo(pool, part)
        BY <1>4 DEF AddOutput
    <2> HIDE DEF part
    <2> QED BY <2>1, <2>2, <2>3, AddToStep DEF Part, Numbers
<1>5. ASSUME BuildForPczt PROVE BuilderTyped' /\ BuilderInv'
    <2>1. /\ version' = version /\ branch' = branch /\ expiry' = expiry
          /\ padding' = padding /\ parts' = parts /\ outcome = "building"
        BY <1>5 DEF BuildForPczt
    <2>2. /\ Items' = Items /\ BuildError' = BuildError /\ GetFee' = GetFee
          /\ BuiltBundle("orchard")' = BuiltBundle("orchard")
          /\ BuiltBundle("ironwood")' = BuiltBundle("ironwood")
        BY <2>1 DEF Items, BuildError, GetFee, BuiltBundle, InUse, ActionCount, Net
    <2>3. BuildError \in {"Ok", "Fee", "Balance", "InsufficientFunds", "ChangeRequired"}
        BY DEF BuildError
    <2>4. BuildError = "Ok" => GetFee \in Zatoshis
        BY DEF BuildError
    <2>5. /\ outcome' = IF BuildError = "Ok" THEN "built" ELSE BuildError
          /\ pczt' = IF BuildError = "Ok"
                     THEN Tx(version, branch, expiry, {}, {}, BuiltBundle("orchard"), BuiltBundle("ironwood"), {})
                     ELSE pczt
          /\ fee' = IF BuildError = "Ok" THEN GetFee ELSE fee
        BY <1>5 DEF BuildForPczt
    <2>6. BuilderTyped'
        BY <2>1, <2>3, <2>4, <2>5 DEF BuilderTyped
    <2>7. outcome' = "built" => BuildError = "Ok"
        BY <2>3, <2>5
    <2> QED BY <2>1, <2>2, <2>5, <2>6, <2>7 DEF BuilderInv
<1> QED BY <1>1, <1>2, <1>3, <1>4, <1>5 DEF DeferredNext

(* A fee grows with the number of actions. *)
LEMMA FeeGrows ==
    ASSUME NEW a \in Nat, NEW b \in Nat, a >= b
    PROVE  FeeRequired(a) >= FeeRequired(b)
<1> DEFINE x == Larger(GRACE_ACTIONS, a)
           y == Larger(GRACE_ACTIONS, b)
<1>1. x \in Nat /\ y \in Nat /\ x - y \in Nat
    BY DeferredAssumption DEF Larger
<1>2. MARGINAL_FEE \in Nat
    BY DeferredAssumption, MoneyAssumption DEF Zatoshis
<1> HIDE DEF x, y
<1>3. PICK d \in Nat : x = y + d
    BY <1>1
<1>4. MARGINAL_FEE * d \in Nat /\ MARGINAL_FEE * y \in Nat
    BY <1>1, <1>2
<1>5. MARGINAL_FEE * x = MARGINAL_FEE * y + MARGINAL_FEE * d
    BY <1>1, <1>2, <1>3
<1>6. MARGINAL_FEE * x >= MARGINAL_FEE * y
    BY <1>4, <1>5
<1> QED BY <1>6 DEF FeeRequired, x, y

LEMMA BuiltPays ==
    BuilderTyped /\ BuilderInv => PaysForItsBundles
<1> SUFFICES ASSUME BuilderTyped, BuilderInv, outcome = "built"
             PROVE  PaysForItsBundles
    BY DEF PaysForItsBundles
<1>1. /\ BuildError = "Ok" /\ fee = GetFee
      /\ pczt = Tx(version, branch, expiry, {}, {}, BuiltBundle("orchard"), BuiltBundle("ironwood"), {})
    BY DEF BuilderInv
<1>2. \A pool \in OrchardPools : pczt[pool] = BuiltBundle(pool)
    BY <1>1 DEF OrchardPools, Tx
<1>3. \A pool \in OrchardPools :
        /\ parts[pool].spends \in Nat /\ parts[pool].outputs \in Nat
        /\ parts[pool].in \in Nat /\ parts[pool].out \in Nat
        /\ padding[pool].pad_to_minimum \in Nat \ {0} /\ padding[pool].bundle_required \in BOOLEAN
    BY DeferredAssumption DEF BuilderInv, Part, PaddingOf
<1>4. ASSUME NEW pool \in OrchardPools
      PROVE  /\ ActionCount(pool) \in Nat
             /\ InUse(pool) => PaidActions(pool) = ActionCount(pool) /\ pczt[pool] # {}
             /\ ~InUse(pool) => PaidActions(pool) = 0 /\ pczt[pool] = {}
             /\ ~InUse(pool) /\ ~padding[pool].bundle_required => ActionCount(pool) = 0
    <2>1. ActionCount(pool) \in Nat
        BY <1>3 DEF ActionCount, Larger
    <2>2. InUse(pool) => PaidActions(pool) = ActionCount(pool) /\ pczt[pool] # {}
        <3> SUFFICES ASSUME InUse(pool)
                     PROVE  PaidActions(pool) = ActionCount(pool) /\ pczt[pool] # {}
            OBVIOUS
        <3> DEFINE b == ShieldedBundle([actions |-> ActionCount(pool), balance |-> Net(pool)], NoAnchor)
        <3>1. pczt[pool] = {b}
            BY <1>2 DEF BuiltBundle
        <3>2. (CHOOSE c \in pczt[pool] : TRUE) = b
            BY <3>1
        <3>3. b.effects.actions = ActionCount(pool)
            BY DEF ShieldedBundle
        <3> HIDE DEF b
        <3> QED BY <3>1, <3>2, <3>3 DEF PaidActions
    <2>3. ~InUse(pool) => PaidActions(pool) = 0 /\ pczt[pool] = {}
        BY <1>2 DEF BuiltBundle, PaidActions
    <2>4. ~InUse(pool) /\ ~padding[pool].bundle_required => ActionCount(pool) = 0
        BY <1>3 DEF InUse, ActionCount, Larger
    <2> QED BY <2>1, <2>2, <2>3, <2>4
<1>5. Net("orchard") + Net("ironwood") = fee
    <2>1. GetFee \in Zatoshis /\ Net("orchard") + Net("ironwood") \in Int
        BY <1>1, <1>3 DEF BuildError, Net, OrchardPools
    <2> QED BY <1>1, <2>1, MoneyAssumption DEF BuildError, Zatoshis
<1> DEFINE paid == PaidActions("orchard") + PaidActions("ironwood")
           counted == ActionCount("orchard") + ActionCount("ironwood")
<1>6. paid \in Nat /\ counted \in Nat /\ counted >= paid
    BY <1>4 DEF OrchardPools
<1>7. fee >= FeeRequired(paid)
    BY <1>1, <1>6, FeeGrows DEF GetFee
<1>8. ASSUME {pool \in OrchardPools : padding[pool].bundle_required /\ pczt[pool] = {}} = {}
      PROVE  fee = FeeRequired(paid)
    <2>1. \A pool \in OrchardPools : PaidActions(pool) = ActionCount(pool)
        BY <1>4, <1>8
    <2> QED BY <1>1, <2>1 DEF GetFee, OrchardPools
<1> QED BY <1>5, <1>7, <1>8 DEF PaysForItsBundles

----------------------------------------------------------------------------
(* The roles of a PCZT. *)

Replaced(t, pool, c) == [t EXCEPT ![pool] = {c}]

(* A role replaces the bundle of a pool by one that does the same: the      *)
(* transaction id and what is signed stay, the authorizing commitment moves *)
(* with anything that is replaced.                                          *)
LEMMA RoleStep ==
    ASSUME NEW t, IsPczt(t), NEW pool \in OrchardPools, NEW b \in t[pool],
           NEW c, IsShielded(c), c.effects = b.effects
    PROVE  LET u == Replaced(t, pool, c)
           IN  /\ IsPczt(u)
               /\ u.version = t.version /\ u.branch = t.branch /\ u.expiry = t.expiry
               /\ SigHash(u, Shielded) = SigHash(t, Shielded)
               /\ TxId(u) = TxId(t)
               /\ c # b => AuthCommitment(u) # AuthCommitment(t)
               /\ SignaturesVerify(t) /\ Verifies(c.sigs, t, Shielded) => SignaturesVerify(u)
<1> DEFINE u == Replaced(t, pool, c)
<1>u. u = [t EXCEPT ![pool] = {c}]
    BY DEF Replaced
<1> HIDE DEF u
<1>1. PICK ve, br, ex, tr, sp, sa, o, i, st :
        t = [version |-> ve, branch |-> br, expiry |-> ex, transparent |-> tr, sprout |-> sp,
             sapling |-> sa, orchard |-> o, ironwood |-> i, staking |-> st]
    BY DEF IsPczt, IsTx, IsTransaction
<1>2. /\ u.version = t.version /\ u.branch = t.branch /\ u.expiry = t.expiry
      /\ u.sprout = t.sprout /\ u.staking = t.staking
      /\ u.transparent = t.transparent /\ u.sapling = t.sapling
      /\ \/ pool = "orchard" /\ u.orchard = {c} /\ u.ironwood = t.ironwood /\ b \in t.orchard
         \/ pool = "ironwood" /\ u.orchard = t.orchard /\ u.ironwood = {c} /\ b \in t.ironwood
      /\ u = [version |-> u.version, branch |-> u.branch, expiry |-> u.expiry,
              transparent |-> u.transparent, sprout |-> u.sprout, sapling |-> u.sapling,
              orchard |-> u.orchard, ironwood |-> u.ironwood, staking |-> u.staking]
    <2>1. CASE pool = "orchard"
        BY <1>u, <1>1, <2>1
    <2>2. CASE pool = "ironwood"
        BY <1>u, <1>1, <2>2
    <2> QED BY <2>1, <2>2 DEF OrchardPools
<1>3. IsTx(u) /\ IsPczt(u)
    BY <1>2 DEF IsPczt, IsTx, IsTransaction, TransparentTyped
<1>4. \/ t.orchard = {b} /\ u.orchard = {c} /\ u.ironwood = t.ironwood
      \/ t.ironwood = {b} /\ u.orchard = t.orchard /\ u.ironwood = {c}
    BY <1>2 DEF IsPczt
<1>5. OrchardCommitment("V6", c) = OrchardCommitment("V6", b)
    BY DEF OrchardCommitment
<1> DEFINE effects(B) == {OrchardCommitment("V6", d) : d \in B}
           auths(B) == {OrchardAuthorizingCommitment("V6", d) : d \in B}
<1>6. effects(u.orchard) = effects(t.orchard) /\ effects(u.ironwood) = effects(t.ironwood)
    BY <1>4, <1>5
<1>7. SameToSign(t, u)
    <2>1. t.version = "V6" /\ OrchardCommitmentDomain(t.version) = "V6"
        BY DEF IsPczt, OrchardCommitmentDomain
    <2>2. SameTransparent(t.transparent, u.transparent)
        BY <1>2 DEF IsPczt, SameTransparent
    <2>3. t.sapling = {} /\ u.sapling = {}
        BY <1>2 DEF IsPczt
    <2>4. {HashSaplingTxIdData(u.version, d) : d \in u.sapling}
            = {HashSaplingTxIdData(t.version, d) : d \in t.sapling}
        BY <2>3
    <2>5. {<<d.effects, d.anchor, d.proofs>> : d \in u.sapling}
            = {<<d.effects, d.anchor, d.proofs>> : d \in t.sapling}
        BY <2>3
    <2> QED BY <1>2, <1>6, <2>1, <2>2, <2>4, <2>5 DEF SameToSign
<1>8. SigHash(u, Shielded) = SigHash(t, Shielded)
    <2>1. IsInput(Shielded, t.transparent)
        BY DEF IsInput, Shielded
    <2> QED BY <1>3, <1>7, <2>1, SigHashOfSame DEF IsPczt, IsTx, IsTransaction
<1>9. TxId(u) = TxId(t)
    BY <1>2, <1>7, TxIdDigestOfSame DEF TxId, ToTxId, IsPczt, CommitsToBranch, HasIronwood
<1>10. ASSUME c # b PROVE AuthCommitment(u) # AuthCommitment(t)
    <2>1. OrchardAuthorizingCommitment("V6", c) # OrchardAuthorizingCommitment("V6", b)
        <3>1. IsShielded(b)
            BY <1>2 DEF IsPczt, IsTx, IsTransaction
        <3>2. PICK e, a, p, s : b = [effects |-> e, anchor |-> a, proofs |-> p, sigs |-> s]
            BY <3>1 DEF IsShielded
        <3>3. PICK a2, p2, s2 : c = [effects |-> e, anchor |-> a2, proofs |-> p2, sigs |-> s2]
            BY <3>2 DEF IsShielded
        <3>4. <<p, s, a>> # <<p2, s2, a2>>
            BY <1>10, <3>2, <3>3
        <3> QED BY <3>2, <3>3, <3>4 DEF OrchardAuthorizingCommitment
    <2>2. auths(u.orchard) # auths(t.orchard) \/ auths(u.ironwood) # auths(t.ironwood)
        BY <1>4, <2>1
    <2>3. t.version = "V6" /\ u.version = "V6"
        BY <1>2 DEF IsPczt
    <2>4. \A w : w.version = "V6" =>
            AuthCommitment(w)[4] = auths(w.orchard) /\ AuthCommitment(w)[6] = auths(w.ironwood)
        BY DEF AuthCommitment, HasIronwood, OrchardCommitmentDomain
    <2> HIDE DEF auths
    <2> QED BY <2>2, <2>3, <2>4
<1>11. SignaturesVerify(t) /\ Verifies(c.sigs, t, Shielded) => SignaturesVerify(u)
    BY <1>2, <1>8 DEF SignaturesVerify, Verifies, IsPczt
<1> QED BY <1>2, <1>3, <1>8, <1>9, <1>10, <1>11 DEF u

----------------------------------------------------------------------------
(* Cosigners. *)

LEMMA VinIsSeq ==
    ASSUME NEW b, IsTransparent(b)
    PROVE  /\ b.vin \in Seq({b.vin[i] : i \in DOMAIN b.vin})
           /\ b.vin = [i \in 1 .. Len(b.vin) |-> b.vin[i]]
           /\ b = TransparentBundle(b.vin, b.vout)
<1> DEFINE S == {b.vin[i] : i \in DOMAIN b.vin}
<1>1. b.vin = [i \in 1 .. Len(b.vin) |-> b.vin[i]]
    BY DEF IsTransparent, TransparentBundle
<1>2. b.vin \in [1 .. Len(b.vin) -> S] /\ Len(b.vin) \in Nat
    BY <1>1 DEF IsTransparent
<1>3. b.vin \in Seq(S)
    BY <1>2, SeqDef
<1>4. b = TransparentBundle(b.vin, b.vout)
    BY <1>1 DEF IsTransparent
<1> QED BY <1>1, <1>3, <1>4

(* What edits have in common: no input is removed and no output replaced. *)
Edited(b, c) ==
    /\ IsDraftBundle(b) /\ IsDraftBundle(c)
    /\ DOMAIN b.vin \subseteq DOMAIN c.vin
    /\ \A i \in DOMAIN b.vout : i \in DOMAIN c.vout /\ c.vout[i] = b.vout[i]

LEMMA DraftBundleOf ==
    ASSUME NEW n \in Nat, NEW vin, DOMAIN vin = 1 .. n, vin = [i \in 1 .. n |-> vin[i]],
           NEW vout \in Seq(Outputs), NEW c, c = TransparentBundle(vin, vout),
           \A i \in 1 .. n :
               /\ vin[i] = [coin |-> vin[i].coin, sequence |-> vin[i].sequence,
                            script_sig |-> vin[i].script_sig]
               /\ vin[i].coin # NullCoin /\ vin[i].script_sig = Unsigned
    PROVE  IsDraftBundle(c) /\ c.vin = vin /\ c.vout = vout
<1>1. c.vin = vin /\ c.vout = vout
    BY DEF TransparentBundle
<1>2. Len(vin) = n
    BY LenOf
<1>3. c = TransparentBundle([i \in 1 .. Len(c.vin) |-> c.vin[i]], c.vout)
    BY <1>1, <1>2
<1> QED BY <1>1, <1>2, <1>3 DEF IsDraftBundle, IsTransparent

LEMMA InputIsAdded ==
    ASSUME NEW b, IsDraftBundle(b), NEW coin \in Coins
    PROVE  Edited(b, [b EXCEPT !.vin = Append(@, TxIn(coin, 0))])
<1> DEFINE in == TxIn(coin, 0)
           vin == Append(b.vin, in)
           c == [b EXCEPT !.vin = vin]
           S == {b.vin[i] : i \in DOMAIN b.vin} \union {in}
           n == Len(b.vin)
<1>1. /\ b.vin \in Seq({b.vin[i] : i \in DOMAIN b.vin})
      /\ b = TransparentBundle(b.vin, b.vout) /\ n \in Nat /\ DOMAIN b.vin = 1 .. n
    BY VinIsSeq DEF IsDraftBundle, IsTransparent
<1>2. b.vin \in Seq(S) /\ in \in S
    <2>1. \A i \in 1 .. n : b.vin[i] \in S
        BY <1>1
    <2>2. b.vin \in [1 .. n -> S]
        BY <1>1, <2>1, VinIsSeq DEF IsDraftBundle
    <2> QED BY <1>1, <2>2, SeqDef
<1>3. /\ vin \in Seq(S) /\ Len(vin) = n + 1
      /\ \A i \in 1 .. n : vin[i] = b.vin[i]
      /\ vin[n + 1] = in
    BY <1>2, AppendProperties
<1>4. DOMAIN vin = 1 .. n + 1 /\ vin = [i \in 1 .. n + 1 |-> vin[i]]
    BY <1>3, LenProperties
<1> HIDE DEF vin
<1>5. c = TransparentBundle(vin, b.vout) /\ c.vin = vin /\ c.vout = b.vout
    BY <1>1 DEF TransparentBundle
<1> HIDE DEF c
<1>6. in = [coin |-> in.coin, sequence |-> in.sequence, script_sig |-> in.script_sig]
      /\ in.coin # NullCoin /\ in.script_sig = Unsigned
    BY AuthorizationAssumption DEF TxIn
<1> HIDE DEF in
<1>7. ASSUME NEW i \in 1 .. n + 1
      PROVE  /\ vin[i] = [coin |-> vin[i].coin, sequence |-> vin[i].sequence,
                          script_sig |-> vin[i].script_sig]
             /\ vin[i].coin # NullCoin /\ vin[i].script_sig = Unsigned
    <2>1. CASE i \in 1 .. n
        <3>1. vin[i] = b.vin[i]
            BY <1>3, <2>1
        <3>2. /\ b.vin[i] = [coin |-> b.vin[i].coin, sequence |-> b.vin[i].sequence,
                             script_sig |-> b.vin[i].script_sig]
              /\ b.vin[i].coin # NullCoin /\ b.vin[i].script_sig = Unsigned
            BY <1>1, <2>1 DEF IsDraftBundle, IsTransparent
        <3> QED BY <3>1, <3>2
    <2>2. CASE i = n + 1
        BY <1>3, <1>6, <2>2
    <2> QED BY <1>1, <2>1, <2>2
<1>8. IsDraftBundle(c)
    <2>1. n + 1 \in Nat /\ b.vout \in Seq(Outputs)
        BY <1>1 DEF IsDraftBundle
    <2> HIDE DEF n
    <2> QED BY <1>4, <1>5, <1>7, <2>1, DraftBundleOf
<1>9. DOMAIN b.vin \subseteq DOMAIN c.vin
    <2>1. n \in Nat => 1 .. n \subseteq 1 .. n + 1
        OBVIOUS
    <2>2. DOMAIN b.vin = 1 .. n /\ n \in Nat
        BY <1>1
    <2>3. DOMAIN c.vin = 1 .. n + 1
        BY <1>4, <1>5
    <2> HIDE DEF n
    <2> QED BY <2>1, <2>2, <2>3
<1>10. Edited(b, c)
    BY <1>5, <1>8, <1>9 DEF Edited
<1> QED BY <1>10 DEF c, vin, in

LEMMA OutputIsAdded ==
    ASSUME NEW b, IsDraftBundle(b), NEW output \in Outputs
    PROVE  Edited(b, [b EXCEPT !.vout = Append(@, output)])
<1> DEFINE vout == Append(b.vout, output)
           c == [b EXCEPT !.vout = vout]
<1>1. b = TransparentBundle(b.vin, b.vout) /\ b.vout \in Seq(Outputs)
    BY VinIsSeq DEF IsDraftBundle
<1>2. vout \in Seq(Outputs) /\ \A i \in DOMAIN b.vout : i \in DOMAIN vout /\ vout[i] = b.vout[i]
    BY <1>1, AppendProperties, LenProperties
<1> HIDE DEF vout
<1>3. c = TransparentBundle(b.vin, vout) /\ c.vin = b.vin /\ c.vout = vout
    BY <1>1 DEF TransparentBundle
<1> HIDE DEF c
<1>4. IsDraftBundle(c)
    <2>1. b.vin = [i \in 1 .. Len(b.vin) |-> b.vin[i]]
        BY VinIsSeq DEF IsDraftBundle
    <2>2. c = TransparentBundle([i \in 1 .. Len(c.vin) |-> c.vin[i]], c.vout)
        BY <1>3, <2>1
    <2> QED BY <1>2, <1>3, <2>2 DEF IsDraftBundle, IsTransparent
<1>5. Edited(b, c)
    BY <1>2, <1>3, <1>4 DEF Edited
<1> QED BY <1>5 DEF c, vout

LEMMA SequenceIsRaised ==
    ASSUME NEW b, IsDraftBundle(b), NEW k \in DOMAIN b.vin
    PROVE  Edited(b, [b EXCEPT !.vin[k].sequence = 1])
<1> DEFINE in == [b.vin[k] EXCEPT !.sequence = 1]
           vin == [b.vin EXCEPT ![k] = in]
           c == [b EXCEPT !.vin = vin]
           n == Len(b.vin)
<1>1. /\ b.vin = [i \in 1 .. n |-> b.vin[i]]
      /\ b = TransparentBundle(b.vin, b.vout) /\ n \in Nat /\ DOMAIN b.vin = 1 .. n
    BY VinIsSeq DEF IsDraftBundle, IsTransparent
<1>2. in = [coin |-> in.coin, sequence |-> in.sequence, script_sig |-> in.script_sig]
      /\ in.coin # NullCoin /\ in.script_sig = Unsigned
    <2>1. PICK x, y, z : b.vin[k] = [coin |-> x, sequence |-> y, script_sig |-> z]
        <3>1. k \in 1 .. Len(b.vin)
            BY <1>1
        <3>2. b.vin[k] = [coin |-> b.vin[k].coin, sequence |-> b.vin[k].sequence,
                          script_sig |-> b.vin[k].script_sig]
            BY <3>1 DEF IsDraftBundle, IsTransparent
        <3> QED BY <3>2
    <2>2. x # NullCoin /\ z = Unsigned
        BY <2>1 DEF IsDraftBundle
    <2> QED BY <2>1, <2>2
<1> HIDE DEF in
<1>3. DOMAIN vin = 1 .. n /\ vin = [i \in 1 .. n |-> IF i = k THEN in ELSE b.vin[i]]
    BY <1>1
<1> HIDE DEF vin
<1>4. vin = [i \in 1 .. n |-> vin[i]]
    BY <1>3
<1>5. c = TransparentBundle(vin, b.vout) /\ c.vin = vin /\ c.vout = b.vout
    BY <1>1 DEF TransparentBundle
<1>6. c = [b EXCEPT !.vin[k].sequence = 1]
    BY DEF vin, in
<1> HIDE DEF c
<1>7. ASSUME NEW i \in 1 .. n
      PROVE  /\ vin[i] = [coin |-> vin[i].coin, sequence |-> vin[i].sequence,
                          script_sig |-> vin[i].script_sig]
             /\ vin[i].coin # NullCoin /\ vin[i].script_sig = Unsigned
    <2>1. CASE i # k
        <3>1. vin[i] = b.vin[i]
            BY <1>3, <2>1
        <3>2. /\ b.vin[i] = [coin |-> b.vin[i].coin, sequence |-> b.vin[i].sequence,
                             script_sig |-> b.vin[i].script_sig]
              /\ b.vin[i].coin # NullCoin /\ b.vin[i].script_sig = Unsigned
            BY <1>1 DEF IsDraftBundle, IsTransparent
        <3> QED BY <3>1, <3>2
    <2>2. CASE i = k
        BY <1>2, <1>3, <2>2
    <2> QED BY <2>1, <2>2
<1>8. IsDraftBundle(c)
    <2>1. b.vout \in Seq(Outputs)
        BY DEF IsDraftBundle
    <2>2. n \in Nat /\ DOMAIN vin = 1 .. n
        BY <1>1, <1>3
    <2> HIDE DEF n
    <2> QED BY <1>4, <1>5, <1>7, <2>1, <2>2, DraftBundleOf
<1>9. Edited(b, c)
    BY <1>1, <1>3, <1>5, <1>8 DEF Edited
<1> QED BY <1>6, <1>9

(* An unsigned input is its coin and its sequence number. *)
LEMMA VinIsItsDigests ==
    ASSUME NEW b, NEW c, IsDraftBundle(b), IsDraftBundle(c)
    PROVE  /\ b.vin = c.vin <=> /\ Prevouts(b.vin) = Prevouts(c.vin)
                               /\ SequenceNumbers(b.vin) = SequenceNumbers(c.vin)
           /\ \A i \in DOMAIN b.vin \intersect DOMAIN c.vin :
                b.vin[i] = c.vin[i] <=> /\ b.vin[i].coin = c.vin[i].coin
                                        /\ b.vin[i].sequence = c.vin[i].sequence
<1>1. ASSUME NEW i \in DOMAIN b.vin \intersect DOMAIN c.vin,
             b.vin[i].coin = c.vin[i].coin, b.vin[i].sequence = c.vin[i].sequence
      PROVE  b.vin[i] = c.vin[i]
    <2>1. /\ b.vin[i] = [coin |-> b.vin[i].coin, sequence |-> b.vin[i].sequence, script_sig |-> Unsigned]
          /\ c.vin[i] = [coin |-> c.vin[i].coin, sequence |-> c.vin[i].sequence, script_sig |-> Unsigned]
        BY DEF IsDraftBundle, IsTransparent
    <2> QED BY <1>1, <2>1
<1>2. ASSUME Prevouts(b.vin) = Prevouts(c.vin), SequenceNumbers(b.vin) = SequenceNumbers(c.vin)
      PROVE  b.vin = c.vin
    <2>1. DOMAIN b.vin = DOMAIN c.vin
        BY <1>2 DEF Prevouts
    <2>2. \A i \in DOMAIN b.vin : b.vin[i].coin = c.vin[i].coin /\ b.vin[i].sequence = c.vin[i].sequence
        <3> TAKE i \in DOMAIN b.vin
        <3>1. Prevouts(b.vin)[i] = b.vin[i].coin /\ SequenceNumbers(b.vin)[i] = b.vin[i].sequence
            BY DEF Prevouts, SequenceNumbers
        <3>2. Prevouts(c.vin)[i] = c.vin[i].coin /\ SequenceNumbers(c.vin)[i] = c.vin[i].sequence
            BY <2>1 DEF Prevouts, SequenceNumbers
        <3> QED BY <1>2, <3>1, <3>2
    <2>3. \A i \in DOMAIN b.vin : b.vin[i] = c.vin[i]
        BY <1>1, <2>1, <2>2
    <2>4. /\ b.vin = [i \in DOMAIN b.vin |-> b.vin[i]]
          /\ c.vin = [i \in DOMAIN c.vin |-> c.vin[i]]
        BY VinIsSeq DEF IsDraftBundle, IsTransparent
    <2> QED BY <2>1, <2>3, <2>4
<1> QED BY <1>1, <1>2

(* What of a draft a signature hash of version 4, and of a later one, has   *)
(* of it.                                                                   *)
Covered4(b, input) ==
    <<IF input.hash_type.anyonecanpay THEN <<>> ELSE Prevouts(b.vin),
      IF input.hash_type = SIGHASH_ALL THEN SequenceNumbers(b.vin) ELSE <<>>,
      SignedOutputs(b.vout, input), SignedTxIn(b, input)>>
Covered5(b, input) ==
    <<input.hash_type,
      IF input.hash_type.anyonecanpay THEN <<>> ELSE Prevouts(b.vin),
      IF input.hash_type.anyonecanpay THEN <<>> ELSE SequenceNumbers(b.vin),
      SignedOutputs(b.vout, input), SignedTxIn(b, input)>>

LEMMA DraftSigDigests ==
    ASSUME NEW t, NEW b, t.transparent = {b}, IsDraftBundle(b),
           NEW input, input.index \in DOMAIN b.vin
    PROVE  TransparentSigDigests(t, TxIdDigest(t), input) = {Covered5(b, input)}
<1>1. ~IsCoinbaseBundle(b)
    <2>1. Len(b.vin) = 1 => 1 \in DOMAIN b.vin
        BY DEF IsDraftBundle, IsTransparent
    <2> QED BY <2>1 DEF IsCoinbaseBundle, IsDraftBundle
<1>2. b.vin # <<>>
    OBVIOUS
<1>3. TxIdDigest(t).transparent = {TransparentDigests(b)}
    BY DEF TxIdDigest
<1>4. TransparentSigDigest(b, TransparentDigests(b), input) = Covered5(b, input)
    BY <1>1, <1>2 DEF TransparentSigDigest, TransparentDigests, Covered5
<1>5. TransparentSigDigests(t, TxIdDigest(t), input)
        = {TransparentSigDigest(b, TransparentDigests(b), input)}
    <2> DEFINE digests == TxIdDigest(t)
    <2>1. digests.transparent = {TransparentDigests(b)}
        BY <1>3
    <2> HIDE DEF digests
    <2>2. TransparentSigDigests(t, digests, input) = {TransparentSigDigest(b, TransparentDigests(b), input)}
        BY <2>1 DEF TransparentSigDigests
    <2> QED BY <2>2 DEF digests
<1> QED BY <1>4, <1>5

(* Two drafts that differ only in their bundle have the same hash exactly   *)
(* if what is covered of the bundle agrees.                                 *)
LEMMA DraftHashes ==
    ASSUME NEW t, IsTx(t), NEW b, NEW c, t.transparent = {b},
           NEW u, u = [t EXCEPT !.transparent = {c}], IsDraftBundle(b), IsDraftBundle(c),
           NEW input, input.index \in DOMAIN b.vin, input.index \in DOMAIN c.vin
    PROVE  /\ CommitsToBranch(t.version) =>
                (SigHash(t, input) = SigHash(u, input) <=> Covered5(b, input) = Covered5(c, input))
           /\ ~CommitsToBranch(t.version) =>
                (SigHash(t, input) = SigHash(u, input) <=> Covered4(b, input) = Covered4(c, input))
<1>1. PICK ve, br, ex, tr, sp, sa, o, i, st :
        t = [version |-> ve, branch |-> br, expiry |-> ex, transparent |-> tr, sprout |-> sp,
             sapling |-> sa, orchard |-> o, ironwood |-> i, staking |-> st]
    BY DEF IsTx, IsTransaction
<1>2. /\ u.version = t.version /\ u.branch = t.branch /\ u.expiry = t.expiry
      /\ u.sprout = t.sprout /\ u.staking = t.staking /\ u.transparent = {c}
      /\ u.sapling = t.sapling /\ u.orchard = t.orchard /\ u.ironwood = t.ironwood
    BY <1>1
<1> DEFINE d == TxIdDigest(t)
           e == TxIdDigest(u)
<1>3. /\ e.header = d.header /\ e.sapling = d.sapling /\ e.orchard = d.orchard
      /\ e.ironwood = d.ironwood /\ e.crosslink = d.crosslink
    BY <1>2 DEF TxIdDigest, HashHeaderTxIdData
<1>4. /\ TransparentSigDigests(t, d, input) = {Covered5(b, input)}
      /\ TransparentSigDigests(u, e, input) = {Covered5(c, input)}
    <2>1. TransparentSigDigests(t, d, input) = {Covered5(b, input)}
        BY DraftSigDigests
    <2>2. u.transparent = {c}
        BY <1>2
    <2>3. TransparentSigDigests(u, e, input) = {Covered5(c, input)}
        BY <2>2, DraftSigDigests
    <2> QED BY <2>1, <2>3
<1> HIDE DEF d, e
<1>5. CASE t.version = "V6"
    <2>1. /\ SigHash(t, input) = ToHashV6(t.branch, d, {Covered5(b, input)})
          /\ SigHash(u, input) = ToHashV6(u.branch, e, {Covered5(c, input)})
        BY <1>2, <1>4, <1>5 DEF SigHash, SignatureHash, V6SignatureHash, d, e
    <2>2. CommitsToBranch(t.version)
        BY <1>5 DEF CommitsToBranch
    <2>3. ToHashV6(t.branch, d, {Covered5(b, input)}) = ToHashV6(u.branch, e, {Covered5(c, input)})
            <=> {Covered5(b, input)} = {Covered5(c, input)}
        BY <1>2, <1>3 DEF ToHashV6
    <2>4. {Covered5(b, input)} = {Covered5(c, input)} <=> Covered5(b, input) = Covered5(c, input)
        OBVIOUS
    <2> QED BY <2>1, <2>2, <2>3, <2>4
<1>6. CASE t.version \in {"V5", "VCrosslink"}
    <2> DEFINE crosslink == IF HasCrosslink(t.version) THEN d.crosslink ELSE {}
    <2>1. /\ SigHash(t, input) = ToHash(t.branch, d, {Covered5(b, input)}, crosslink)
          /\ SigHash(u, input) = ToHash(u.branch, e, {Covered5(c, input)}, crosslink)
        BY <1>2, <1>3, <1>4, <1>6 DEF SigHash, SignatureHash, V5SignatureHash, d, e
    <2> HIDE DEF crosslink
    <2>2. CommitsToBranch(t.version)
        BY <1>6 DEF CommitsToBranch
    <2>3. ToHash(t.branch, d, {Covered5(b, input)}, crosslink)
            = ToHash(u.branch, e, {Covered5(c, input)}, crosslink)
            <=> {Covered5(b, input)} = {Covered5(c, input)}
        BY <1>2, <1>3 DEF ToHash
    <2>4. {Covered5(b, input)} = {Covered5(c, input)} <=> Covered5(b, input) = Covered5(c, input)
        OBVIOUS
    <2> QED BY <2>1, <2>2, <2>3, <2>4
<1>7. CASE ~CommitsToBranch(t.version)
    <2>1. /\ SigHash(t, input) = V4SignatureHash(t, input)
          /\ SigHash(u, input) = V4SignatureHash(u, input)
        BY <1>2, <1>7 DEF SigHash, SignatureHash, CommitsToBranch
    <2> DEFINE sapling == {<<s.effects, s.anchor, s.proofs>> : s \in t.sapling}
               cover(x) == Covered4(x, input)
               hash(covered) == <<t.branch, t.version, t.expiry, input.hash_type, covered, t.sprout, sapling>>
    <2>2. /\ V4SignatureHash(t, input) = hash({cover(x) : x \in t.transparent})
          /\ V4SignatureHash(u, input) = hash({cover(x) : x \in u.transparent})
        BY <1>2 DEF V4SignatureHash, Covered4
    <2> HIDE DEF sapling, cover
    <2>3. {cover(x) : x \in t.transparent} = {cover(b)} /\ {cover(x) : x \in u.transparent} = {cover(c)}
        BY <1>2
    <2>4. SigHash(t, input) = SigHash(u, input) <=> {cover(b)} = {cover(c)}
        <3>1. \A x, y : hash(x) = hash(y) <=> x = y
            OBVIOUS
        <3> HIDE DEF hash
        <3>2. SigHash(t, input) = hash({cover(b)}) /\ SigHash(u, input) = hash({cover(c)})
            BY <2>1, <2>2, <2>3
        <3> QED BY <3>1, <3>2
    <2>5. SigHash(t, input) = SigHash(u, input) <=> cover(b) = cover(c)
        BY <2>4
    <2> QED BY <1>7, <2>5 DEF cover
<1> QED BY <1>5, <1>6, <1>7 DEF CommitsToBranch

(* What is covered agrees exactly if the hash type has nothing to notice. *)
LEMMA CoveredIsNoticed ==
    ASSUME NEW t, NEW u, NEW b, NEW c, t.transparent = {b}, u.transparent = {c}, Edited(b, c),
           NEW input, input.hash_type \in HashTypes, input.index \in DOMAIN b.vin,
           input.index \in Nat \ {0}
    PROVE  /\ CommitsToBranch(t.version) =>
                (Covered5(b, input) = Covered5(c, input) <=> ~Notices(input, t, u))
           /\ ~CommitsToBranch(t.version) =>
                (Covered4(b, input) = Covered4(c, input) <=> ~Notices(input, t, u))
<1> DEFINE type == input.hash_type
           i == input.index
           single == i \in DOMAIN c.vout /\ i \notin DOMAIN b.vout
<1>1. (CHOOSE x \in t.transparent : TRUE) = b /\ (CHOOSE x \in u.transparent : TRUE) = c
    OBVIOUS
<1>2. Notices(input, t, u) <=>
        \/ b.vin[i] # c.vin[i]
        \/ ~type.anyonecanpay /\ Prevouts(b.vin) # Prevouts(c.vin)
        \/ ~type.anyonecanpay /\ (CommitsToBranch(t.version) \/ type.outputs = "ALL") /\ b.vin # c.vin
        \/ type.outputs = "ALL" /\ b.vout # c.vout
        \/ type.outputs = "SINGLE" /\ single
    BY <1>1 DEF Notices
<1>3. b.vin[i] = c.vin[i] <=> SignedTxIn(b, input) = SignedTxIn(c, input)
    <2>1. i \in DOMAIN b.vin \intersect DOMAIN c.vin
        BY DEF Edited
    <2>2. b.vin[i] = c.vin[i] <=> /\ b.vin[i].coin = c.vin[i].coin
                                  /\ b.vin[i].sequence = c.vin[i].sequence
        BY <2>1, VinIsItsDigests DEF Edited
    <2> QED BY <2>2 DEF SignedTxIn
<1>4. b.vin = c.vin <=> Prevouts(b.vin) = Prevouts(c.vin) /\ SequenceNumbers(b.vin) = SequenceNumbers(c.vin)
    BY VinIsItsDigests DEF Edited
<1>5. SignedOutputs(b.vout, input) = SignedOutputs(c.vout, input) <=>
        /\ type.outputs = "ALL" => b.vout = c.vout
        /\ type.outputs = "SINGLE" => ~single
    BY DEF SignedOutputs, Edited
<1>6. /\ type.outputs \in {"ALL", "SINGLE", "NONE"} /\ type.anyonecanpay \in BOOLEAN
      /\ type = SIGHASH_ALL <=> type.outputs = "ALL" /\ ~type.anyonecanpay
    <2>1. PICK x \in {"ALL", "SINGLE", "NONE"}, y \in BOOLEAN : type = [outputs |-> x, anyonecanpay |-> y]
        BY DEF HashTypes
    <2>2. type.outputs = x /\ type.anyonecanpay = y
        BY <2>1
    <2>3. [outputs |-> x, anyonecanpay |-> y] = [outputs |-> "ALL", anyonecanpay |-> FALSE]
            <=> x = "ALL" /\ ~y
        OBVIOUS
    <2> QED BY <2>1, <2>2, <2>3 DEF SIGHASH_ALL
<1> HIDE DEF single, i, type
<1>7. Covered5(b, input) = Covered5(c, input) <=>
        /\ ~type.anyonecanpay => Prevouts(b.vin) = Prevouts(c.vin)
        /\ ~type.anyonecanpay => SequenceNumbers(b.vin) = SequenceNumbers(c.vin)
        /\ SignedOutputs(b.vout, input) = SignedOutputs(c.vout, input)
        /\ SignedTxIn(b, input) = SignedTxIn(c, input)
    BY <1>6 DEF Covered5, type
<1>8. Covered4(b, input) = Covered4(c, input) <=>
        /\ ~type.anyonecanpay => Prevouts(b.vin) = Prevouts(c.vin)
        /\ type = SIGHASH_ALL => SequenceNumbers(b.vin) = SequenceNumbers(c.vin)
        /\ SignedOutputs(b.vout, input) = SignedOutputs(c.vout, input)
        /\ SignedTxIn(b, input) = SignedTxIn(c, input)
    BY <1>6 DEF Covered4, type
<1> QED BY <1>2, <1>3, <1>4, <1>5, <1>6, <1>7, <1>8

LEMMA DraftVerifies ==
    ASSUME NEW t, IsDraft(t)
    PROVE  SignaturesVerify(t) /\ \E b : t.transparent = {b} /\ IsDraftBundle(b)
<1>1. PICK b \in t.transparent : IsDraftBundle(b)
    BY DEF IsDraft
<1>2. t.transparent = {b}
    BY DEF IsDraft, IsTx, IsTransaction
<1>3. SignaturesVerify(t)
    BY <1>1, <1>2 DEF IsDraft, SignaturesVerify, Verifies, IsDraftBundle
<1> QED BY <1>1, <1>2, <1>3

LEMMA DraftsAreDrafts ==
    ASSUME NEW t \in Drafts
    PROVE  IsDraft(t)
<1>1. Unauthorized(t)
    BY AuthorizationAssumption
<1>2. IsTx(t) /\ \A b \in t.transparent : \A i \in DOMAIN b.vin : b.vin[i].script_sig = Unsigned
    BY <1>1, UnauthorizedIsTx
<1>3. PICK b \in t.transparent : /\ b.vout \in Seq(Outputs)
                                 /\ \A i \in DOMAIN b.vin : b.vin[i].coin # NullCoin
    BY AuthorizationAssumption
<1>4. IsDraftBundle(b)
    BY <1>2, <1>3 DEF IsDraftBundle, IsTx, IsTransaction, TransparentTyped
<1>5. \A d \in t.sapling \union t.orchard \union t.ironwood : d.sigs = Unsigned
    <2> TAKE d \in t.sapling \union t.orchard \union t.ironwood
    <2>1. PICK e, a : d = ShieldedBundle(e, a)
        BY <1>1 DEF Unauthorized
    <2> QED BY <2>1 DEF ShieldedBundle
<1> QED BY <1>2, <1>4, <1>5 DEF IsDraft

LEMMA DraftEdited ==
    ASSUME NEW t, IsDraft(t), NEW b, t.transparent = {b}, NEW c, Edited(b, c),
           NEW u, u = [t EXCEPT !.transparent = {c}]
    PROVE  /\ IsDraft(u) /\ u.transparent = {c}
           /\ \A sig : IsCosig(sig, t) => IsCosig(sig, u)
<1>1. PICK ve, br, ex, tr, sp, sa, o, i, st :
        t = [version |-> ve, branch |-> br, expiry |-> ex, transparent |-> tr, sprout |-> sp,
             sapling |-> sa, orchard |-> o, ironwood |-> i, staking |-> st]
    BY DEF IsDraft, IsTx, IsTransaction
<1>2. /\ u = [version |-> u.version, branch |-> u.branch, expiry |-> u.expiry,
              transparent |-> u.transparent, sprout |-> u.sprout, sapling |-> u.sapling,
              orchard |-> u.orchard, ironwood |-> u.ironwood, staking |-> u.staking]
      /\ u.transparent = {c} /\ u.sapling = t.sapling
      /\ u.orchard = t.orchard /\ u.ironwood = t.ironwood
    BY <1>1
<1>3. IsDraftBundle(c) /\ IsTransparent(c)
    BY DEF Edited, IsDraftBundle
<1>4. IsTx(u)
    BY <1>2, <1>3 DEF IsDraft, IsTx, IsTransaction, TransparentTyped
<1>5. IsDraft(u)
    BY <1>2, <1>3, <1>4 DEF IsDraft
<1> QED BY <1>2, <1>5 DEF IsCosig, Edited

(* What a step of a cosigner does to the transaction. *)
LEMMA CosignerEdits ==
    ASSUME phase = "cosigning", IsDraft(tx), CosignerStep
    PROVE  /\ phase' = "cosigning" /\ UNCHANGED deferred
           /\ \/ /\ cosigs' = cosigs
                 /\ \E b, c : /\ tx.transparent = {b} /\ Edited(b, c)
                              /\ tx' = [tx EXCEPT !.transparent = {c}]
              \/ /\ tx' = tx /\ Cardinality(cosigs) < MaxCosigs
                 /\ \E sig : IsCosig(sig, tx) /\ cosigs' = cosigs \union {sig}
<1>1. PICK b : tx.transparent = {b} /\ IsDraftBundle(b)
    BY DraftVerifies
<1>2. Draft = b
    BY <1>1 DEF Draft
<1>3. ASSUME NEW coin \in Coins, AddInput(coin)
      PROVE  \E c : Edited(b, c) /\ SetDraft(c)
    BY <1>1, <1>2, <1>3, InputIsAdded DEF AddInput
<1>4. ASSUME NEW output \in Outputs, AddTxOut(output)
      PROVE  \E c : Edited(b, c) /\ SetDraft(c)
    BY <1>1, <1>2, <1>4, OutputIsAdded DEF AddTxOut
<1>5. ASSUME NEW i \in DOMAIN Draft.vin, RaiseSequence(i)
      PROVE  \E c : Edited(b, c) /\ SetDraft(c)
    BY <1>1, <1>2, <1>5, SequenceIsRaised DEF RaiseSequence
<1>6. ASSUME NEW c, Edited(b, c), SetDraft(c)
      PROVE  /\ phase' = "cosigning" /\ UNCHANGED deferred /\ cosigs' = cosigs
             /\ tx' = [tx EXCEPT !.transparent = {c}]
    BY <1>6 DEF SetDraft
<1>7. ASSUME NEW i \in DOMAIN Draft.vin, NEW hash_type \in HashTypes, Cosign(i, hash_type)
      PROVE  /\ phase' = "cosigning" /\ UNCHANGED deferred
             /\ tx' = tx /\ Cardinality(cosigs) < MaxCosigs
             /\ \E sig : IsCosig(sig, tx) /\ cosigs' = cosigs \union {sig}
    <2> DEFINE input == TransparentInput(i, hash_type)
               sig == [input |-> input, over |-> SigHash(tx, input)]
    <2>1. sig.input.index = i /\ sig.input.hash_type = hash_type
        BY DEF TransparentInput
    <2>2. /\ phase' = "cosigning" /\ UNCHANGED deferred
          /\ tx' = tx /\ Cardinality(cosigs) < MaxCosigs /\ cosigs' = cosigs \union {sig}
        BY <1>7 DEF Cosign
    <2> HIDE DEF sig
    <2>3. i \in Nat \ {0}
        BY <1>1, <1>2 DEF IsDraftBundle, IsTransparent
    <2>4. IsCosig(sig, tx)
        BY <1>1, <1>2, <2>1, <2>3 DEF IsCosig
    <2> QED BY <2>2, <2>4
<1>8. CASE \E coin \in Coins : AddInput(coin)
    BY <1>1, <1>3, <1>6, <1>8
<1>9. CASE \E output \in Outputs : AddTxOut(output)
    BY <1>1, <1>4, <1>6, <1>9
<1>10. CASE \E i \in DOMAIN Draft.vin : RaiseSequence(i)
    BY <1>1, <1>5, <1>6, <1>10
<1>11. CASE \E i \in DOMAIN Draft.vin, hash_type \in HashTypes : Cosign(i, hash_type)
    BY <1>7, <1>11
<1> QED BY <1>8, <1>9, <1>10, <1>11 DEF CosignerStep

(* What a role of a PCZT does to the transaction. *)
RoleAction ==
    \E pool \in OrchardPools :
        \/ SignPool(pool)
        \/ Prove(pool)
        \/ \E anchor \in Anchors : SetAnchor(pool, anchor)

LEMMA RoleEdits ==
    ASSUME IsPczt(tx), RoleAction
    PROVE  /\ phase = "pczt" /\ phase' = "pczt" /\ UNCHANGED deferred /\ cosigs' = cosigs
           /\ \E pool \in OrchardPools : \E b \in tx[pool] : \E c :
                /\ IsShielded(c) /\ c.effects = b.effects
                /\ c.sigs \in {b.sigs, SigHash(tx, Shielded)}
                /\ tx' = Replaced(tx, pool, c)
<1>1. PICK pool \in OrchardPools :
        SignPool(pool) \/ Prove(pool) \/ \E anchor \in Anchors : SetAnchor(pool, anchor)
    BY DEF RoleAction
<1>2. \A b \in tx[pool] : IsShielded(b)
    <2>1. tx[pool] = tx.orchard \/ tx[pool] = tx.ironwood
        BY DEF OrchardPools
    <2> QED BY <2>1 DEF IsPczt, IsTx, IsTransaction
<1>3. CASE SignPool(pool)
    <2>1. PICK b \in tx[pool] : tx' = [tx EXCEPT ![pool] = {WithSigs(b, SigHash(tx, Shielded))}]
        BY <1>3 DEF SignPool
    <2> DEFINE c == WithSigs(b, SigHash(tx, Shielded))
    <2>2. IsShielded(c) /\ c.effects = b.effects /\ c.sigs = SigHash(tx, Shielded)
        BY <1>2, ShieldedFields
    <2>3. tx' = Replaced(tx, pool, c)
        BY <2>1 DEF Replaced
    <2> HIDE DEF c
    <2> QED BY <1>3, <2>2, <2>3 DEF SignPool
<1>4. CASE Prove(pool)
    <2>1. PICK b \in tx[pool] : tx' = [tx EXCEPT ![pool] = {WithProofs(b)}]
        BY <1>4 DEF Prove
    <2> DEFINE c == WithProofs(b)
    <2>2. IsShielded(c) /\ c.effects = b.effects /\ c.sigs = b.sigs
        BY <1>2, ShieldedFields
    <2>3. tx' = Replaced(tx, pool, c)
        BY <2>1 DEF Replaced
    <2> HIDE DEF c
    <2> QED BY <1>4, <2>2, <2>3 DEF Prove
<1>5. CASE \E anchor \in Anchors : SetAnchor(pool, anchor)
    <2>1. PICK anchor \in Anchors, b \in tx[pool] :
            SetAnchor(pool, anchor) /\ tx' = [tx EXCEPT ![pool] = {[b EXCEPT !.anchor = anchor]}]
        BY <1>5 DEF SetAnchor
    <2> DEFINE c == [b EXCEPT !.anchor = anchor]
    <2>2. IsShielded(c) /\ c.effects = b.effects /\ c.sigs = b.sigs
        <3>1. IsShielded(b)
            BY <1>2
        <3>2. PICK e, a, q, s : b = [effects |-> e, anchor |-> a, proofs |-> q, sigs |-> s]
            BY <3>1 DEF IsShielded
        <3> QED BY <3>2 DEF IsShielded
    <2>3. tx' = Replaced(tx, pool, c)
        BY <2>1 DEF Replaced
    <2> HIDE DEF c
    <2> QED BY <2>1, <2>2, <2>3 DEF SetAnchor
<1> QED BY <1>1, <1>3, <1>4, <1>5

----------------------------------------------------------------------------
LEMMA AuthInit == Init => AuthInv
<1> SUFFICES ASSUME Init PROVE AuthInv
    OBVIOUS
<1>1. BuilderTyped /\ BuilderInv
    BY BuilderInit DEF Init
<1>2. Cardinality(cosigs) <= MaxCosigs /\ IsFiniteSet(cosigs) /\ cosigs = {} /\ phase = "idle"
    BY FS_EmptySet, AuthorizationAssumption DEF Init
<1>3. IsTx(tx) /\ SignaturesVerify(tx)
    <2>1. tx = Tx("V6", Nu6_3, 0, {}, {}, {}, {}, {})
        BY DEF Init, NoPczt
    <2> QED BY <2>1 DEF Tx, IsTx, IsTransaction, TransparentTyped, SignaturesVerify
<1>4. TypeOK
    BY <1>1, <1>2 DEF TypeOK, BuilderTyped, BuilderInv, Part
<1> QED BY <1>1, <1>2, <1>3, <1>4 DEF AuthInv, TxInv, SignaturesStand

(* The parts of TypeOK that are not the builder's. *)
RolesTyped ==
    /\ phase \in {"idle", "built", "pczt", "extracted", "cosigning"}
    /\ phase = "pczt" => tx.version = version /\ tx.branch = branch /\ tx.expiry = expiry
    /\ Cardinality(cosigs) <= MaxCosigs

LEMMA TypeParts == BuilderInv => (TypeOK <=> BuilderTyped /\ RolesTyped)
BY DEF TypeOK, BuilderTyped, RolesTyped, BuilderInv, Part

LEMMA AuthStep == AuthInv /\ [Next]_vars => AuthInv'
<1> SUFFICES ASSUME AuthInv, [Next]_vars PROVE AuthInv'
    OBVIOUS
<1>1. BuilderTyped /\ RolesTyped /\ BuilderInv /\ TxInv /\ SignaturesVerify(tx)
    BY TypeParts DEF AuthInv, SignaturesStand
<1>2. UNCHANGED deferred => BuilderTyped' /\ BuilderInv'
    BY <1>1 DEF deferred, BuilderTyped, BuilderInv, Items, BuildError, GetFee, BuiltBundle, InUse,
                ActionCount, Net
<1>3. ASSUME BuilderTyped', BuilderInv', RolesTyped', TxInv', SignaturesVerify(tx)'
      PROVE  AuthInv'
    <2>1. TypeOK'
        BY <1>3 DEF TypeOK, BuilderTyped, RolesTyped, BuilderInv, Part
    <2> QED BY <1>3, <2>1 DEF AuthInv, SignaturesStand
<1>4. CASE DeferredStep
    <2>1. BuilderTyped' /\ BuilderInv'
        BY <1>1, <1>4, BuilderStep DEF DeferredStep
    <2>2. phase = "idle" /\ phase' = phase /\ tx' = tx /\ cosigs' = cosigs
        BY <1>4 DEF DeferredStep
    <2>3. RolesTyped' /\ TxInv' /\ SignaturesVerify(tx)'
        BY <1>1, <2>2 DEF RolesTyped, TxInv
    <2> QED BY <1>3, <2>1, <2>3
<1>5. ASSUME NEW plan \in Plans, Build(plan) PROVE AuthInv'
    <2>1. Unauthorized(plan)
        BY AuthorizationAssumption
    <2>2. SignaturesVerify(Authorize(plan)) /\ IsTx(Authorize(plan))
        BY <2>1, BuiltSignaturesVerify
    <2>3. /\ phase = "idle" /\ phase' = "built" /\ tx' = Authorize(plan)
          /\ UNCHANGED deferred /\ cosigs' = cosigs
        BY <1>5 DEF Build
    <2>4. RolesTyped' /\ TxInv' /\ SignaturesVerify(tx)'
        BY <1>1, <2>2, <2>3 DEF RolesTyped, TxInv
    <2> QED BY <1>2, <1>3, <2>3, <2>4
<1>6. CASE Create
    <2>1. /\ phase = "idle" /\ outcome = "built" /\ phase' = "pczt" /\ tx' = pczt
          /\ UNCHANGED deferred /\ cosigs' = cosigs
        BY <1>6 DEF Create
    <2>2. /\ version = "V6"
          /\ pczt = Tx(version, branch, expiry, {}, {}, BuiltBundle("orchard"), BuiltBundle("ironwood"), {})
        BY <1>1, <2>1 DEF BuilderInv
    <2>3. ASSUME NEW pool
          PROVE  /\ \A b, c \in BuiltBundle(pool) : b = c
                 /\ \A b \in BuiltBundle(pool) : IsShielded(b) /\ b.sigs = Unsigned
        BY DEF BuiltBundle, ShieldedBundle, IsShielded
    <2>4. IsTx(pczt) /\ IsPczt(pczt) /\ SignaturesVerify(pczt)
        <3>1. /\ pczt.transparent = {} /\ pczt.sapling = {} /\ pczt.version = "V6"
              /\ pczt.orchard = BuiltBundle("orchard") /\ pczt.ironwood = BuiltBundle("ironwood")
            BY <2>2 DEF Tx
        <3>2. pczt = [version |-> pczt.version, branch |-> pczt.branch, expiry |-> pczt.expiry,
                      transparent |-> pczt.transparent, sprout |-> pczt.sprout,
                      sapling |-> pczt.sapling, orchard |-> pczt.orchard,
                      ironwood |-> pczt.ironwood, staking |-> pczt.staking]
            BY <2>2 DEF Tx
        <3>3. IsTx(pczt)
            BY <2>3, <3>1, <3>2 DEF IsTx, IsTransaction, TransparentTyped
        <3> QED BY <2>3, <3>1, <3>3 DEF IsPczt, SignaturesVerify, Verifies
    <2>5. pczt.version = version /\ pczt.branch = branch /\ pczt.expiry = expiry
        BY <2>2 DEF Tx
    <2>6. RolesTyped' /\ TxInv' /\ SignaturesVerify(tx)'
        BY <1>1, <2>1, <2>4, <2>5 DEF RolesTyped, TxInv, deferred
    <2> QED BY <1>2, <1>3, <2>1, <2>6
<1>7. CASE RoleAction
    <2>1. phase = "pczt" /\ IsPczt(tx) /\ outcome = "built"
        BY <1>1, <1>7 DEF RoleAction, SignPool, Prove, SetAnchor, TxInv
    <2>2. /\ phase' = "pczt" /\ UNCHANGED deferred /\ cosigs' = cosigs
          /\ \E pool \in OrchardPools : \E b \in tx[pool] : \E c :
                /\ IsShielded(c) /\ c.effects = b.effects
                /\ c.sigs \in {b.sigs, SigHash(tx, Shielded)}
                /\ tx' = Replaced(tx, pool, c)
        BY <1>7, <2>1, RoleEdits
    <2>3. PICK pool \in OrchardPools : \E b \in tx[pool] : \E c :
                /\ IsShielded(c) /\ c.effects = b.effects
                /\ c.sigs \in {b.sigs, SigHash(tx, Shielded)}
                /\ tx' = Replaced(tx, pool, c)
        BY <2>2
    <2>b. PICK b \in tx[pool] : \E c :
                /\ IsShielded(c) /\ c.effects = b.effects
                /\ c.sigs \in {b.sigs, SigHash(tx, Shielded)}
                /\ tx' = Replaced(tx, pool, c)
        BY <2>3
    <2>4. PICK c :
                /\ IsShielded(c) /\ c.effects = b.effects
                /\ c.sigs \in {b.sigs, SigHash(tx, Shielded)}
                /\ tx' = Replaced(tx, pool, c)
        BY <2>b
    <2>5. Verifies(c.sigs, tx, Shielded)
        <3>1. tx[pool] = tx.orchard \/ tx[pool] = tx.ironwood
            BY DEF OrchardPools
        <3>2. Verifies(b.sigs, tx, Shielded)
            BY <1>1, <3>1 DEF SignaturesVerify
        <3> QED BY <2>4, <3>2 DEF Verifies
    <2>6. /\ IsPczt(tx') /\ SignaturesVerify(tx')
          /\ tx'.version = tx.version /\ tx'.branch = tx.branch /\ tx'.expiry = tx.expiry
        BY <1>1, <2>1, <2>4, <2>5, RoleStep
    <2>7. IsTx(tx')
        BY <2>6 DEF IsPczt
    <2>8. RolesTyped' /\ TxInv' /\ SignaturesVerify(tx)'
        BY <1>1, <2>1, <2>2, <2>6, <2>7 DEF RolesTyped, TxInv, deferred
    <2> QED BY <1>2, <1>3, <2>2, <2>8
<1>8. CASE Extract
    <2>1. phase = "pczt" /\ phase' = "extracted" /\ UNCHANGED deferred /\ tx' = tx /\ cosigs' = cosigs
        BY <1>8 DEF Extract
    <2>2. RolesTyped' /\ TxInv' /\ SignaturesVerify(tx)'
        BY <1>1, <2>1 DEF RolesTyped, TxInv, deferred
    <2> QED BY <1>2, <1>3, <2>1, <2>2
<1>9. ASSUME NEW draft \in Drafts, StartDraft(draft) PROVE AuthInv'
    <2>1. /\ phase = "idle" /\ phase' = "cosigning" /\ tx' = draft
          /\ UNCHANGED deferred /\ cosigs' = cosigs
        BY <1>9 DEF StartDraft
    <2>2. IsDraft(draft) /\ SignaturesVerify(draft) /\ IsTx(draft)
        BY DraftsAreDrafts, DraftVerifies DEF IsDraft
    <2>3. RolesTyped' /\ TxInv' /\ SignaturesVerify(tx)'
        BY <1>1, <2>1, <2>2 DEF RolesTyped, TxInv
    <2> QED BY <1>2, <1>3, <2>1, <2>3
<1>10. CASE CosignerStep
    <2>1. phase = "cosigning" /\ IsDraft(tx)
        BY <1>1, <1>10 DEF CosignerStep, TxInv
    <2>2. phase' = "cosigning" /\ UNCHANGED deferred
        BY <1>10, <2>1, CosignerEdits
    <2>3. /\ IsDraft(tx') /\ \A sig \in cosigs' : IsCosig(sig, tx')
          /\ IsFiniteSet(cosigs') /\ Cardinality(cosigs') <= MaxCosigs
        <3>1. CASE /\ cosigs' = cosigs
                   /\ \E b, c : /\ tx.transparent = {b} /\ Edited(b, c)
                                /\ tx' = [tx EXCEPT !.transparent = {c}]
            BY <1>1, <2>1, <3>1, DraftEdited DEF TxInv, RolesTyped
        <3>2. CASE /\ tx' = tx /\ Cardinality(cosigs) < MaxCosigs
                   /\ \E sig : IsCosig(sig, tx) /\ cosigs' = cosigs \union {sig}
            <4>1. PICK sig : IsCosig(sig, tx) /\ cosigs' = cosigs \union {sig}
                BY <3>2
            <4>2. IsFiniteSet(cosigs) /\ Cardinality(cosigs) \in Nat
                BY <1>1, FS_CardinalityType DEF TxInv
            <4>3. IsFiniteSet(cosigs') /\ Cardinality(cosigs') <= Cardinality(cosigs) + 1
                BY <4>1, <4>2, FS_AddElement
            <4>4. Cardinality(cosigs') <= MaxCosigs
                BY <3>2, <4>2, <4>3, FS_CardinalityType, AuthorizationAssumption
            <4> QED BY <1>1, <2>1, <3>2, <4>1, <4>3, <4>4 DEF TxInv
        <3> QED BY <1>10, <2>1, <3>1, <3>2, CosignerEdits
    <2>4. IsTx(tx') /\ SignaturesVerify(tx')
        BY <2>3, DraftVerifies DEF IsDraft
    <2>5. RolesTyped' /\ TxInv' /\ SignaturesVerify(tx)'
        BY <2>2, <2>3, <2>4 DEF RolesTyped, TxInv
    <2> QED BY <1>2, <1>3, <2>2, <2>5
<1>11. CASE UNCHANGED vars
    <2>1. UNCHANGED deferred /\ phase' = phase /\ tx' = tx /\ cosigs' = cosigs
        BY <1>11 DEF vars, deferred
    <2>2. RolesTyped' /\ TxInv' /\ SignaturesVerify(tx)'
        BY <1>1, <2>1 DEF RolesTyped, TxInv, deferred
    <2> QED BY <1>2, <1>3, <2>1, <2>2
<1> QED BY <1>4, <1>5, <1>6, <1>7, <1>8, <1>9, <1>10, <1>11 DEF Next, RoleAction

THEOREM AuthInvariant == Spec => []AuthInv
BY AuthInit, AuthStep, PTL DEF Spec

(* Every variable has its type, and a PCZT keeps the header that its        *)
(* builder gave it while its roles work on it.                              *)
THEOREM AuthTypeCorrect == Spec => []TypeOK
<1>1. AuthInv => TypeOK
    BY DEF AuthInv
<1> QED BY <1>1, AuthInvariant, PTL

(* Builder::build and the deferred flow: whatever the plan, the version and *)
(* the order in which the roles act, every signature in the transaction     *)
(* is over the hash that a verifier recomputes from it.                     *)
THEOREM SignaturesAlwaysStand == Spec => []SignaturesStand
<1>1. AuthInv => SignaturesStand
    BY DEF AuthInv
<1> QED BY <1>1, AuthInvariant, PTL

(* build_for_pczt charges for the bundles it creates, and for more only     *)
(* where a required bundle is not created, for every padding and fee rate.  *)
THEOREM PcztPays == Spec => []PaysForItsBundles
<1>1. AuthInv => PaysForItsBundles
    BY BuiltPays, TypeParts DEF AuthInv
<1> QED BY <1>1, AuthInvariant, PTL

(* DeferredPcztBuilder: what is installed once the parts are handed out     *)
(* always moves the authorizing data commitment and never the transaction   *)
(* id, in whatever order anchors, proofs and signatures come.               *)
THEOREM DeferredDataAuthorizes == Spec => DeferredDataIsAuthorization
<1>1. ASSUME AuthInv, [Next]_vars, phase = "pczt", tx' # tx
      PROVE  TxId(tx') = TxId(tx) /\ AuthCommitment(tx') # AuthCommitment(tx)
    <2>1. IsPczt(tx)
        BY <1>1 DEF AuthInv, TxInv
    <2>2. RoleAction
        BY <1>1 DEF Next, vars, DeferredStep, Build, Create, Extract, StartDraft, CosignerStep, RoleAction
    <2>3. PICK pool \in OrchardPools : \E b \in tx[pool] : \E c :
            IsShielded(c) /\ c.effects = b.effects /\ tx' = Replaced(tx, pool, c)
        BY <2>1, <2>2, RoleEdits
    <2>b. PICK b \in tx[pool] : \E c :
            IsShielded(c) /\ c.effects = b.effects /\ tx' = Replaced(tx, pool, c)
        BY <2>3
    <2>4. PICK c :
            IsShielded(c) /\ c.effects = b.effects /\ tx' = Replaced(tx, pool, c)
        BY <2>b
    <2>5. b # c
        <3> SUFFICES ASSUME b = c PROVE tx' = tx
            BY <1>1
        <3>1. tx[pool] = {b}
            <4>1. tx[pool] = tx.orchard \/ tx[pool] = tx.ironwood
                BY DEF OrchardPools
            <4> QED BY <2>1, <4>1 DEF IsPczt
        <3>2. PICK ve, br, ex, tr, sp, sa, o, i, st :
                tx = [version |-> ve, branch |-> br, expiry |-> ex, transparent |-> tr, sprout |-> sp,
                      sapling |-> sa, orchard |-> o, ironwood |-> i, staking |-> st]
            BY <2>1 DEF IsPczt, IsTx, IsTransaction
        <3>3. tx' = [tx EXCEPT ![pool] = tx[pool]]
            BY <2>4, <3>1 DEF Replaced
        <3> QED BY <3>2, <3>3 DEF OrchardPools
    <2> QED BY <2>1, <2>4, <2>5, RoleStep
<1>2. AuthInv /\ [Next]_vars =>
        [phase = "pczt" /\ tx' # tx =>
            TxId(tx') = TxId(tx) /\ AuthCommitment(tx') # AuthCommitment(tx)]_vars
    BY <1>1
<1> QED BY <1>2, AuthInvariant, PTL DEF Spec, DeferredDataIsAuthorization

(* signature_hash: for every hash type, version, draft and sequence of      *)
(* edits, a cosignature is invalidated by exactly the edits in its scope.   *)
THEOREM CosignersAreToldOfTheirScope == Spec => CosignaturesNoticeTheirScope
<1>1. ASSUME AuthInv, [Next]_vars, phase = "cosigning",
             NEW sig \in cosigs, sig.over = SigHash(tx, sig.input)
      PROVE  sig.over = SigHash(tx', sig.input) <=> ~Notices(sig.input, tx, tx')
    <2>1. IsDraft(tx) /\ IsCosig(sig, tx)
        BY <1>1 DEF AuthInv, TxInv
    <2>2. PICK b : tx.transparent = {b} /\ IsDraftBundle(b)
        BY <2>1, DraftVerifies
    <2>3. \/ tx' = tx
          \/ \E c : Edited(b, c) /\ tx' = [tx EXCEPT !.transparent = {c}]
        <3>1. CASE UNCHANGED vars
            BY <3>1 DEF vars
        <3>2. CASE CosignerStep
            BY <1>1, <2>1, <2>2, <3>2, CosignerEdits
        <3> QED BY <1>1, <3>1, <3>2 DEF Next, DeferredStep, Build, Create, SignPool, Prove, SetAnchor,
                                        Extract, StartDraft
    <2>4. CASE tx' = tx
        <3>1. (CHOOSE x \in tx.transparent : TRUE) = b
            BY <2>2
        <3>2. ~Notices(sig.input, tx, tx)
            BY <3>1 DEF Notices
        <3> QED BY <1>1, <2>4, <3>2
    <2>5. ASSUME NEW c, Edited(b, c), tx' = [tx EXCEPT !.transparent = {c}]
          PROVE  sig.over = SigHash(tx', sig.input) <=> ~Notices(sig.input, tx, tx')
        <3> DEFINE u == tx'
                   input == sig.input
        <3>1. u = [tx EXCEPT !.transparent = {c}] /\ u.transparent = {c}
            BY <2>1, <2>2, <2>5, DraftEdited
        <3>2. /\ IsTx(tx) /\ IsDraftBundle(b) /\ IsDraftBundle(c)
              /\ input.index \in DOMAIN b.vin /\ input.index \in DOMAIN c.vin
              /\ input.hash_type \in HashTypes /\ input.index \in Nat \ {0}
            BY <2>1, <2>2, <2>5 DEF IsDraft, IsCosig, Edited
        <3> HIDE DEF u, input
        <3>3. /\ CommitsToBranch(tx.version) =>
                    (SigHash(tx, input) = SigHash(u, input) <=> Covered5(b, input) = Covered5(c, input))
              /\ ~CommitsToBranch(tx.version) =>
                    (SigHash(tx, input) = SigHash(u, input) <=> Covered4(b, input) = Covered4(c, input))
            BY <2>2, <3>1, <3>2, DraftHashes
        <3>4. /\ CommitsToBranch(tx.version) =>
                    (Covered5(b, input) = Covered5(c, input) <=> ~Notices(input, tx, u))
              /\ ~CommitsToBranch(tx.version) =>
                    (Covered4(b, input) = Covered4(c, input) <=> ~Notices(input, tx, u))
            <4>1. Edited(b, c) /\ u.transparent = {c} /\ tx.transparent = {b}
                BY <2>2, <2>5, <3>1
            <4>2. /\ input.hash_type \in HashTypes
                  /\ input.index \in DOMAIN b.vin /\ input.index \in Nat \ {0}
                BY <3>2
            <4> QED BY <4>1, <4>2, CoveredIsNoticed
        <3>5. SigHash(tx, input) = SigHash(u, input) <=> ~Notices(input, tx, u)
            BY <3>3, <3>4
        <3> QED BY <1>1, <3>5 DEF u, input
    <2> QED BY <2>3, <2>4, <2>5
<1>2. AuthInv /\ [Next]_vars =>
        [phase = "cosigning" =>
            \A sig \in cosigs :
                sig.over = SigHash(tx, sig.input) =>
                    (sig.over = SigHash(tx', sig.input) <=> ~Notices(sig.input, tx, tx'))]_vars
    BY <1>1
<1> QED BY <1>2, AuthInvariant, PTL DEF Spec, CosignaturesNoticeTheirScope
=============================================================================
