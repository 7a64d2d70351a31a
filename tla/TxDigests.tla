----------------------------- MODULE TxDigests -----------------------------
(***************************************************************************)
(* Transaction ids, authorizing data commitments and signature hashes:     *)
(* zcash_primitives::transaction's txid, sighash, sighash_v4, sighash_v5   *)
(* and sighash_v6 modules.                                                 *)
(*                                                                         *)
(* A digest is the tuple of what is hashed, so two digests agree exactly   *)
(* when their preimages do: hashing is taken to be free of collisions.     *)
(* Personalisations that tell hashes of one position apart are kept.  An   *)
(* Option is a set of at most one element.  lock_time is hashed next to    *)
(* the expiry height everywhere and is left out.                           *)
(***************************************************************************)
EXTENDS TxFormat, Sequences

Omitted == "omitted"    \* a field that a digest does not cover
Unsigned == <<>>        \* no signature, no proof, no script yet

(* A transparent input names its coin, which fixes the value and the script *)
(* that version 5 and later hash beside the outpoint.                       *)
NullCoin == "null"
TxIn(coin, sequence) == [coin |-> coin, sequence |-> sequence, script_sig |-> Unsigned]
TransparentBundle(vin, vout) == [vin |-> vin, vout |-> vout]
IsCoinbaseBundle(bundle) == Len(bundle.vin) = 1 /\ bundle.vin[1].coin = NullCoin

(* A bundle of a shielded pool: what it does, the anchor of its spends      *)
(* (NoAnchor where it has none), and the proofs and signatures that         *)
(* authorize it.                                                            *)
NoAnchor == "no anchor"
ShieldedBundle(effects, anchor) ==
    [effects |-> effects, anchor |-> anchor, proofs |-> Unsigned, sigs |-> Unsigned]

(* A Sprout bundle is read but never built. *)
Tx(version, branch, expiry, transparent, sapling, orchard, ironwood, staking) ==
    [version |-> version, branch |-> branch, expiry |-> expiry, transparent |-> transparent,
     sprout |-> {}, sapling |-> sapling, orchard |-> orchard, ironwood |-> ironwood, staking |-> staking]

----------------------------------------------------------------------------
(* The digests of TxIdDigester. *)

Prevouts(vin) == [i \in DOMAIN vin |-> vin[i].coin]
SequenceNumbers(vin) == [i \in DOMAIN vin |-> vin[i].sequence]

TransparentDigests(bundle) ==
    [prevouts |-> Prevouts(bundle.vin), sequence |-> SequenceNumbers(bundle.vin),
     outputs |-> bundle.vout]

HashTransparentTxIdData(digests) == {<<d.prevouts, d.sequence, d.outputs>> : d \in digests}

HashHeaderTxIdData(tx) == <<tx.version, tx.branch, tx.expiry>>

(* hash_sapling_spends writes each spend's anchor, except in version 6. *)
HashSaplingTxIdData(version, bundle) ==
    <<bundle.effects, IF version = "V6" THEN Omitted ELSE bundle.anchor>>

OrchardCommitmentDomain(version) == IF version = "V6" THEN "V6" ELSE "V5"

(* The commitments of the orchard crate: version 6 moves the anchor from    *)
(* the transaction id to the authorizing commitment.                        *)
OrchardCommitment(format, bundle) ==
    <<bundle.effects, IF format = "V6" THEN Omitted ELSE bundle.anchor>>
OrchardAuthorizingCommitment(format, bundle) ==
    <<bundle.proofs, bundle.sigs, IF format = "V6" THEN bundle.anchor ELSE Omitted>>

TxIdDigest(tx) ==
    [header |-> HashHeaderTxIdData(tx),
     transparent |-> {TransparentDigests(b) : b \in tx.transparent},
     sapling |-> {HashSaplingTxIdData(tx.version, b) : b \in tx.sapling},
     orchard |-> {OrchardCommitment(OrchardCommitmentDomain(tx.version), b) : b \in tx.orchard},
     ironwood |-> {OrchardCommitment("V6", b) : b \in tx.ironwood},
     crosslink |-> tx.staking]

(* An absent bundle is hashed as the empty bundle of its pool, so that      *)
(* absence and presence differ; only an absent crosslink digest leaves      *)
(* nothing behind.                                                          *)
ToHash(branch, d, transparent, crosslink) ==
    <<branch, d.header, transparent, d.sapling, d.orchard, crosslink>>

ToHashV6(branch, d, transparent) ==
    <<branch, d.header, transparent, d.sapling, d.orchard, d.ironwood>>

ToTxId(tx) ==
    LET d == TxIdDigest(tx)
        transparent == HashTransparentTxIdData(d.transparent)
    IN  IF HasIronwood(tx.version)
        THEN ToHashV6(tx.branch, d, transparent)
        ELSE ToHash(tx.branch, d, transparent, d.crosslink)

(* The bytes of a transaction.  TxFormat has the layouts; here every bundle *)
(* has its slot.                                                            *)
Serialised(tx) == [tx EXCEPT !.branch = IF CommitsToBranch(tx.version) THEN @ ELSE NotOnWire]

(* from_data: up to version 4 the id is the hash of the bytes. *)
TxId(tx) ==
    IF CommitsToBranch(tx.version) THEN <<"digest", ToTxId(tx)>> ELSE <<"bytes", Serialised(tx)>>

----------------------------------------------------------------------------
(* BlockTxCommitmentDigester: what authorizes the transaction. *)

ScriptSigs(vin) == [i \in DOMAIN vin |-> vin[i].script_sig]

SaplingAuthIncludesAnchor(version) == version = "V6"

HashSaplingAuth(version, bundle) ==
    <<bundle.proofs, bundle.sigs,
      IF SaplingAuthIncludesAnchor(version) THEN bundle.anchor ELSE Omitted>>

(* Mutant: the Ironwood commitment is left out. *)
AuthCommitmentWithoutIronwood(tx) ==
    <<tx.branch,
      {ScriptSigs(b.vin) : b \in tx.transparent},
      {HashSaplingAuth(tx.version, b) : b \in tx.sapling},
      {OrchardAuthorizingCommitment(OrchardCommitmentDomain(tx.version), b) : b \in tx.orchard},
      tx.staking>>

AuthCommitment(tx) ==
    <<tx.branch,
      {ScriptSigs(b.vin) : b \in tx.transparent},
      {HashSaplingAuth(tx.version, b) : b \in tx.sapling},
      {OrchardAuthorizingCommitment(OrchardCommitmentDomain(tx.version), b) : b \in tx.orchard},
      tx.staking,
      IF HasIronwood(tx.version)
      THEN {OrchardAuthorizingCommitment("V6", b) : b \in tx.ironwood} ELSE {}>>

----------------------------------------------------------------------------
(* Signature hashes.  A signable input is an index into vin, or 0 for the   *)
(* shielded inputs, which sign with SIGHASH_ALL.                            *)

HashTypes == [outputs : {"ALL", "SINGLE", "NONE"}, anyonecanpay : BOOLEAN]
SIGHASH_ALL == [outputs |-> "ALL", anyonecanpay |-> FALSE]
Shielded == [index |-> 0, hash_type |-> SIGHASH_ALL]
TransparentInput(i, hash_type) == [index |-> i, hash_type |-> hash_type]

(* Mutant: SINGLE signs every output. *)
SignedOutputsAll(vout, input) == IF input.hash_type.outputs = "NONE" THEN <<>> ELSE vout

(* SINGLE signs the output of the input's own index, and nothing where      *)
(* there is none.                                                           *)
SignedOutputs(vout, input) ==
    IF input.hash_type.outputs = "ALL" THEN vout
    ELSE IF input.hash_type.outputs = "SINGLE" /\ input.index \in DOMAIN vout
         THEN <<vout[input.index]>> ELSE <<>>

SignedTxIn(bundle, input) ==
    IF input.index = 0 THEN <<>>
    ELSE <<bundle.vin[input.index].coin, bundle.vin[input.index].sequence>>

(* transparent_sig_digest. *)
TransparentSigDigest(bundle, d, input) ==
    IF IsCoinbaseBundle(bundle) \/ bundle.vin = <<>>
    THEN <<d.prevouts, d.sequence, d.outputs>>
    ELSE <<input.hash_type,
           IF input.hash_type.anyonecanpay THEN <<>> ELSE d.prevouts,
           IF input.hash_type.anyonecanpay THEN <<>> ELSE d.sequence,
           SignedOutputs(d.outputs, input),
           SignedTxIn(bundle, input)>>

TransparentSigDigests(tx, parts, input) ==
    {TransparentSigDigest(b, d, input) : b \in tx.transparent, d \in parts.transparent}

V5SignatureHash(tx, input, parts) ==
    ToHash(tx.branch, parts, TransparentSigDigests(tx, parts, input),
           IF HasCrosslink(tx.version) THEN parts.crosslink ELSE {})

V6SignatureHash(tx, input, parts) ==
    ToHashV6(tx.branch, parts, TransparentSigDigests(tx, parts, input))

(* Version 4 hashes the Sapling anchors and proofs, and under SINGLE and    *)
(* NONE no sequence numbers but the input's own.                            *)
V4SignatureHash(tx, input) ==
    <<tx.branch, tx.version, tx.expiry, input.hash_type,
      {<<IF input.hash_type.anyonecanpay THEN <<>> ELSE Prevouts(b.vin),
         IF input.hash_type = SIGHASH_ALL THEN SequenceNumbers(b.vin) ELSE <<>>,
         SignedOutputs(b.vout, input),
         SignedTxIn(b, input)>> : b \in tx.transparent},
      tx.sprout,
      {<<b.effects, b.anchor, b.proofs>> : b \in tx.sapling}>>

(* signature_hash, from digests computed beforehand.  Version 4 takes no    *)
(* part of them.  Before Overwinter there is no hash to return: the code    *)
(* panics (SighashPanics), and the actions that sign are guarded by it.     *)
SignatureHash(tx, input, parts) ==
    IF tx.version = "V6" THEN V6SignatureHash(tx, input, parts)
    ELSE IF tx.version \in {"V5", "VCrosslink"} THEN V5SignatureHash(tx, input, parts)
    ELSE V4SignatureHash(tx, input)

(* What a verifier, who has only the transaction, recomputes. *)
SigHash(tx, input) == SignatureHash(tx, input, TxIdDigest(tx))
=============================================================================
