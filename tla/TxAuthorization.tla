-------------------------- MODULE TxAuthorization --------------------------
(***************************************************************************)
(* How transactions come by their proofs and signatures:                   *)
(*   - Builder::build proves and signs in one call, in a fixed order;      *)
(*   - a deferred PCZT is signed, given anchors and proved by parties that *)
(*     act in any order;                                                   *)
(*   - cosigners sign transparent inputs under the hash types of their     *)
(*     choice while others still add inputs and outputs.                   *)
(* What ties them together is what signature_hash and the digests cover.   *)
(***************************************************************************)
EXTENDS DeferredPczt, FiniteSets

CONSTANTS
    Plans,            \* the unauthorized transactions that build completes
    Drafts,           \* the transactions that cosigners start from
    Coins, Outputs,   \* what may be added to them
    Anchors,          \* the tree states that spends may be proved against
    MaxInputs, MaxOutputs, MaxCosigs   \* bounds of the cosigners

(* Nothing that is completed is authorized yet, and cosigners have a        *)
(* transparent bundle whose inputs spend coins.                             *)
ASSUME AuthorizationAssumption ==
    /\ \A t \in Plans \union Drafts : Unauthorized(t)
    /\ \A t \in Drafts : \E b \in t.transparent :
        /\ b.vout \in Seq(Outputs)
        /\ \A i \in DOMAIN b.vin : b.vin[i].coin # NullCoin
    /\ NullCoin \notin Coins
    /\ MaxInputs \in Nat /\ MaxOutputs \in Nat /\ MaxCosigs \in Nat

VARIABLES
    phase,            \* "idle", "built", "pczt", "extracted" or "cosigning"
    tx,               \* the transaction in hand
    cosigs            \* of the cosigners: [input, over]

vars == <<outcome, version, branch, expiry, padding, parts, pczt, fee, phase, tx, cosigs>>

Init == DeferredInit /\ phase = "idle" /\ tx = NoPczt /\ cosigs = {}

DeferredStep == phase = "idle" /\ DeferredNext /\ UNCHANGED <<phase, tx, cosigs>>

----------------------------------------------------------------------------
(* Builder::build. *)

Build(plan) ==
    /\ phase = "idle" /\ outcome = "none"
    /\ ~SighashPanics(plan)
    /\ tx' = Authorize(plan)
    /\ phase' = "built"
    /\ UNCHANGED <<deferred, cosigs>>

----------------------------------------------------------------------------
(* The roles that complete a deferred PCZT. *)

Create ==
    /\ phase = "idle" /\ outcome = "built"
    /\ tx' = pczt
    /\ phase' = "pczt"
    /\ UNCHANGED <<deferred, cosigs>>

(* The Signer of a pool.  The sighash is that of the transaction as it is. *)
SignPool(pool) ==
    /\ phase = "pczt"
    /\ \E b \in tx[pool] :
        /\ b.sigs = Unsigned
        /\ tx' = [tx EXCEPT ![pool] = {WithSigs(b, SigHash(tx, Shielded))}]
    /\ UNCHANGED <<deferred, phase, cosigs>>

(* The Updater installs an anchor and the witnesses that root to it, and    *)
(* may replace them until the pool is proved.                               *)
SetAnchor(pool, anchor) ==
    /\ phase = "pczt"
    /\ \E b \in tx[pool] :
        /\ b.proofs = Unsigned
        /\ tx' = [tx EXCEPT ![pool] = {[b EXCEPT !.anchor = anchor]}]
    /\ UNCHANGED <<deferred, phase, cosigs>>

Prove(pool) ==
    /\ phase = "pczt"
    /\ \E b \in tx[pool] :
        /\ b.anchor # NoAnchor /\ b.proofs = Unsigned
        /\ tx' = [tx EXCEPT ![pool] = {WithProofs(b)}]
    /\ UNCHANGED <<deferred, phase, cosigs>>

Extract ==
    /\ phase = "pczt"
    /\ \A pool \in OrchardPools : \A b \in tx[pool] : b.proofs # Unsigned /\ b.sigs # Unsigned
    /\ phase' = "extracted"
    /\ UNCHANGED <<deferred, tx, cosigs>>

----------------------------------------------------------------------------
(* Cosigners of one transparent bundle. *)

Draft == CHOOSE b \in tx.transparent : TRUE
SetDraft(bundle) ==
    /\ phase = "cosigning"
    /\ tx' = [tx EXCEPT !.transparent = {bundle}]
    /\ UNCHANGED <<deferred, phase, cosigs>>

StartDraft(draft) ==
    /\ phase = "idle" /\ outcome = "none"
    /\ tx' = draft
    /\ phase' = "cosigning"
    /\ UNCHANGED <<deferred, cosigs>>

AddInput(coin) ==
    /\ Len(Draft.vin) < MaxInputs
    /\ SetDraft([Draft EXCEPT !.vin = Append(@, TxIn(coin, 0))])

AddTxOut(output) ==
    /\ Len(Draft.vout) < MaxOutputs
    /\ SetDraft([Draft EXCEPT !.vout = Append(@, output)])

(* Sequence numbers only grow here, so that no edit undoes another. *)
RaiseSequence(i) ==
    /\ Draft.vin[i].sequence = 0
    /\ SetDraft([Draft EXCEPT !.vin[i].sequence = 1])

Cosign(i, hash_type) ==
    LET input == TransparentInput(i, hash_type)
    IN  /\ phase = "cosigning" /\ Cardinality(cosigs) < MaxCosigs
        /\ ~SighashPanics(tx)
        /\ cosigs' = cosigs \union {[input |-> input, over |-> SigHash(tx, input)]}
        /\ UNCHANGED <<deferred, phase, tx>>

CosignerStep ==
    /\ phase = "cosigning"
    /\ \/ \E coin \in Coins : AddInput(coin)
       \/ \E output \in Outputs : AddTxOut(output)
       \/ \E i \in DOMAIN Draft.vin : RaiseSequence(i)
       \/ \E i \in DOMAIN Draft.vin, hash_type \in HashTypes : Cosign(i, hash_type)

Next ==
    \/ DeferredStep
    \/ \E plan \in Plans : Build(plan)
    \/ Create
    \/ \E pool \in OrchardPools :
        \/ SignPool(pool)
        \/ Prove(pool)
        \/ \E anchor \in Anchors : SetAnchor(pool, anchor)
    \/ Extract
    \/ \E draft \in Drafts : StartDraft(draft)
    \/ CosignerStep

Spec == Init /\ [][Next]_vars

----------------------------------------------------------------------------
(* Properties.                                                              *)

(* Builder::build and the deferred flow: every signature in the transaction *)
(* is over the hash that a verifier recomputes from the transaction as it   *)
(* now is, whatever was installed after it was made: the Orchard and        *)
(* Ironwood proofs by build, anchors and proofs by the roles of a PCZT.     *)
SignaturesStand == SignaturesVerify(tx)

(* DeferredPcztBuilder: what is installed after build_for_pczt moves the    *)
(* authorizing data commitment every time, and the transaction id never.    *)
DeferredDataIsAuthorization ==
    [][phase = "pczt" /\ tx' # tx =>
        /\ TxId(tx') = TxId(tx)
        /\ AuthCommitment(tx') # AuthCommitment(tx)]_vars

(* What a hash type promises its signer: the edits that it is to notice. *)
Notices(input, before, after) ==
    LET type == input.hash_type
        i == input.index
        old == CHOOSE b \in before.transparent : TRUE
        new == CHOOSE b \in after.transparent : TRUE
        sequences == CommitsToBranch(before.version) \/ type.outputs = "ALL"
    IN  \/ old.vin[i] # new.vin[i]
        \/ ~type.anyonecanpay /\ Prevouts(old.vin) # Prevouts(new.vin)
        \/ ~type.anyonecanpay /\ sequences /\ old.vin # new.vin
        \/ type.outputs = "ALL" /\ old.vout # new.vout
        \/ type.outputs = "SINGLE" /\ (i \in DOMAIN new.vout /\ i \notin DOMAIN old.vout)

(* signature_hash: while cosigners edit a transaction, a signature made     *)
(* under any hash type is invalidated by exactly the edits that its type    *)
(* covers, and under SINGLE also by the output that first appears at the    *)
(* index of its input.                                                      *)
CosignaturesNoticeTheirScope ==
    [][phase = "cosigning" =>
        \A sig \in cosigs :
            sig.over = SigHash(tx, sig.input) =>
                (sig.over = SigHash(tx', sig.input) <=> ~Notices(sig.input, tx, tx'))]_vars

(* Every variable has its type, and a PCZT keeps the header of its builder. *)
TypeOK ==
    /\ phase \in {"idle", "built", "pczt", "extracted", "cosigning"}
    /\ outcome \in {"none", "building", "built", "AnchorDeferralUnsupported", "Fee", "Balance",
                    "InsufficientFunds", "ChangeRequired"}
    /\ version \in TxVersions /\ branch \in BranchIds /\ expiry \in Heights
    /\ fee \in Zatoshis
    /\ padding \in Paddings \union {NoPadding}
    /\ \A pool \in OrchardPools :
        parts[pool] \in [spends : 0 .. MaxItems, outputs : 0 .. MaxItems, in : Nat, out : Nat]
    /\ phase = "pczt" => tx.version = version /\ tx.branch = branch /\ tx.expiry = expiry
    /\ Cardinality(cosigs) <= MaxCosigs
=============================================================================
