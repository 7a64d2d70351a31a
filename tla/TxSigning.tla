----------------------------- MODULE TxSigning -----------------------------
(***************************************************************************)
(* Builder::build from the unauthorized data on: in which order proofs and *)
(* signatures are made, and over what.                                     *)
(***************************************************************************)
EXTENDS TxDigests

Proof(bundle) == <<"proof", bundle.effects, bundle.anchor>>
WithProofs(bundle) == [bundle EXCEPT !.proofs = Proof(bundle)]
WithSigs(bundle, over) == [bundle EXCEPT !.sigs = over]

(* A coinbase input is not signed: build_coinbase passes its script on. *)
WithScriptSigs(bundle, t, digests) ==
    IF IsCoinbaseBundle(bundle) THEN bundle
    ELSE [bundle EXCEPT !.vin = [i \in DOMAIN bundle.vin |->
        [bundle.vin[i] EXCEPT !.script_sig =
            SignatureHash(t, TransparentInput(i, SIGHASH_ALL), digests)]]]

ProveSapling(t) == [t EXCEPT !.sapling = {WithProofs(b) : b \in t.sapling}]

(* Every signature is over the digests of the unauthorized transaction; the *)
(* Orchard and Ironwood proofs are made once these are known.               *)
Sign(t) ==
    LET digests == TxIdDigest(t)
        shielded == SignatureHash(t, Shielded, digests)
    IN  [t EXCEPT !.transparent = {WithScriptSigs(b, t, digests) : b \in t.transparent},
                  !.sapling = {WithSigs(b, shielded) : b \in t.sapling},
                  !.orchard = {WithSigs(WithProofs(b), shielded) : b \in t.orchard},
                  !.ironwood = {WithSigs(WithProofs(b), shielded) : b \in t.ironwood}]

(* Mutant: the Sapling proofs are made when everything else is signed. *)
AuthorizeProvingLast(plan) == ProveSapling(Sign(plan))

Authorize(plan) == Sign(ProveSapling(plan))

----------------------------------------------------------------------------
(* A transaction, whatever is in it. *)
IsTransaction(t) ==
    t = [version |-> t.version, branch |-> t.branch, expiry |-> t.expiry,
         transparent |-> t.transparent, sprout |-> t.sprout, sapling |-> t.sapling,
         orchard |-> t.orchard, ironwood |-> t.ironwood, staking |-> t.staking]

(* A transaction as build has it before it proves and signs. *)
Unauthorized(t) ==
    /\ t = Tx(t.version, t.branch, t.expiry, t.transparent, t.sapling, t.orchard, t.ironwood, t.staking)
    /\ \A b, c \in t.transparent : b = c
    /\ \A b \in t.transparent :
        /\ Len(b.vin) \in Nat
        /\ b = TransparentBundle([i \in 1 .. Len(b.vin) |-> TxIn(b.vin[i].coin, b.vin[i].sequence)],
                                 b.vout)
    /\ \A b \in t.sapling \union t.orchard \union t.ironwood : b = ShieldedBundle(b.effects, b.anchor)

(* What a verifier finds: each signature that is there is over the hash     *)
(* recomputed from the transaction.                                         *)
Verifies(sig, tx, input) == sig # Unsigned => sig = SigHash(tx, input)
SignaturesVerify(tx) ==
    /\ \A b \in tx.transparent : \A i \in DOMAIN b.vin :
        Verifies(b.vin[i].script_sig, tx, TransparentInput(i, SIGHASH_ALL))
    /\ \A b \in tx.sapling \union tx.orchard \union tx.ironwood : Verifies(b.sigs, tx, Shielded)
=============================================================================
