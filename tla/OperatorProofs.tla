--------------------------- MODULE OperatorProofs ---------------------------
(***************************************************************************)
(* Lemmas about the operators that several components are built from.      *)
(*   - What for_height and height_bounds compute, for every assignment of  *)
(*     activation heights, and what follows for a client of the network.   *)
(*   - What Builder::build signs stays signed: proofs, script signatures   *)
(*     and the signatures themselves are no part of what is hashed.        *)
(***************************************************************************)
EXTENDS TxSigning, NetworkUpgrades, SequenceTheorems, TLAPS

(* The scan finds a branch, and exactly which one. *)
LEMMA ScanResult ==
    ASSUME NEW n \in [Upgrades -> OptHeights], NEW h \in Heights
    PROVE  /\ ForHeight(n, h) \in BranchIds
           /\ ForHeight(n, h) # Sprout => IsNuActive(n, ForHeight(n, h), h)
           /\ \A nu \in Upgrades : nu > ForHeight(n, h) => ~IsNuActive(n, nu, h)
<1> DEFINE Last(nu) ==
        /\ IsNuActive(n, nu, h)
        /\ \A later \in Upgrades : later > nu => ~IsNuActive(n, later, h)
<1>1. CASE \E nu \in Upgrades : IsNuActive(n, nu, h)
    <2>1. \E nu \in Upgrades : Last(nu)
        <3> DEFINE A(nu) == IsNuActive(n, nu, h)
        <3>1. \E nu \in Upgrades : A(nu)
            BY <1>1
        <3> HIDE DEF A
        <3>2. A(1) \/ A(2) \/ A(3) \/ A(4) \/ A(5) \/ A(6) \/ A(7) \/ A(8) \/ A(9) \/ A(10)
            BY <3>1 DEF Upgrades, Overwinter, Nu6_3
        <3>3. \E nu \in Upgrades : A(nu) /\ \A later \in Upgrades : later > nu => ~A(later)
            BY <3>2 DEF Upgrades, Overwinter, Nu6_3
        <3> QED BY <3>3 DEF A
    <2>2. ForHeight(n, h) = CHOOSE nu \in Upgrades : Last(nu)
        BY <1>1 DEF ForHeight
    <2> HIDE DEF Last
    <2>3. ForHeight(n, h) \in Upgrades /\ Last(ForHeight(n, h))
        BY <2>1, <2>2
    <2> QED BY <2>3 DEF Last, Upgrades, BranchIds, Overwinter, Sprout, Nu6_3
<1>2. CASE ~\E nu \in Upgrades : IsNuActive(n, nu, h)
    BY <1>2 DEF ForHeight, BranchIds, Sprout, Nu6_3
<1> QED BY <1>1, <1>2

(* ... and nothing else: the conditions of the scan identify its result. *)
LEMMA ScanUnique ==
    ASSUME NEW n \in [Upgrades -> OptHeights], NEW h \in Heights, NEW b \in BranchIds,
           b # Sprout => IsNuActive(n, b, h),
           \A nu \in Upgrades : nu > b => ~IsNuActive(n, nu, h)
    PROVE  ForHeight(n, h) = b
<1> DEFINE f == ForHeight(n, h)
<1>1. /\ f \in BranchIds
      /\ f # Sprout => IsNuActive(n, f, h)
      /\ \A nu \in Upgrades : nu > f => ~IsNuActive(n, nu, h)
    BY ScanResult
<1> HIDE DEF f
<1>2. f <= b /\ b <= f
    BY <1>1 DEF BranchIds, Upgrades, Sprout, Overwinter, Nu6_3
<1>3. f = b
    BY <1>1, <1>2 DEF BranchIds, Sprout, Nu6_3
<1> QED BY <1>3 DEF f

(* On every network in order, the table of height_bounds and the scan of    *)
(* for_height describe the same partition of the heights into branches.     *)
LEMMA EpochsPartition ==
    ASSUME NEW n \in [Upgrades -> OptHeights], NEW h \in Heights, InOrder(n),
           NEW b \in BranchIds, b # Sprout \/ n[Overwinter] # NoHeight
    PROVE  InHeightRange(n, b, h) <=> ForHeight(n, h) = b
<1> USE HeightAssumption
<1>1. \A nu \in Upgrades : n[nu] \in Heights \/ n[nu] = NoHeight
    BY DEF OptHeights
<1>2. ASSUME InHeightRange(n, b, h) PROVE ForHeight(n, h) = b
    <2>1. b # Sprout => IsNuActive(n, b, h)
        BY <1>2 DEF InHeightRange, HeightBounds, IsNuActive, NeverInEffect, Sprout
    <2>2. ASSUME NEW nu \in Upgrades, nu > b PROVE ~IsNuActive(n, nu, h)
        <3>1. b # Nu6_3 /\ b + 1 \in Upgrades
            BY <2>2 DEF BranchIds, Upgrades, Sprout, Overwinter, Nu6_3
        <3>2. n[b + 1] = NoHeight \/ h < n[b + 1]
            BY <1>2, <3>1
            DEF InHeightRange, HeightBounds, NeverInEffect, BranchIds, Sprout, Overwinter
        <3>3. n[nu] = NoHeight \/ h < n[nu]
            <4>1. CASE nu = b + 1
                BY <3>2, <4>1
            <4>2. CASE nu # b + 1
                <5>1. b + 1 < nu
                    BY <2>2, <4>2 DEF BranchIds, Upgrades, Sprout, Overwinter, Nu6_3
                <5>2. n[nu] # NoHeight => n[b + 1] # NoHeight /\ n[b + 1] <= n[nu]
                    BY <3>1, <5>1 DEF InOrder
                <5> QED BY <1>1, <3>1, <3>2, <5>2 DEF Heights
            <4> QED BY <4>1, <4>2
        <3> QED BY <1>1, <3>3 DEF IsNuActive, Heights
    <2> QED BY <2>1, <2>2, ScanUnique
<1>3. ASSUME ForHeight(n, h) = b PROVE InHeightRange(n, b, h)
    <2>1. /\ b # Sprout => IsNuActive(n, b, h)
          /\ \A nu \in Upgrades : nu > b => ~IsNuActive(n, nu, h)
        BY <1>3, ScanResult
    <2>2. CASE b = Sprout
        <3>1. ~IsNuActive(n, Overwinter, h)
            BY <2>1, <2>2 DEF Upgrades, Overwinter, Sprout, Nu6_3
        <3> QED BY <1>1, <2>2, <3>1
            DEF InHeightRange, HeightBounds, IsNuActive, Upgrades, Overwinter, Sprout,
                Nu6_3, Heights
    <2>3. CASE b # Sprout /\ b # Nu6_3
        <3>1. b \in Upgrades /\ b + 1 \in Upgrades /\ b + 1 > b
            BY <2>3 DEF Upgrades, BranchIds, Overwinter, Sprout, Nu6_3
        <3>2. ~IsNuActive(n, b + 1, h) /\ IsNuActive(n, b, h)
            BY <2>1, <2>3, <3>1
        <3> QED BY <1>1, <2>3, <3>1, <3>2 DEF InHeightRange, HeightBounds, IsNuActive, Heights
    <2>4. CASE b = Nu6_3
        BY <2>1, <2>4 DEF InHeightRange, HeightBounds, IsNuActive, Sprout, Nu6_3
    <2> QED BY <2>2, <2>3, <2>4
<1> QED BY <1>2, <1>3

(* Activation is permanent, so the last active upgrade only moves forward,  *)
(* on every network, validated or not.                                      *)
LEMMA ScanMonotone ==
    ASSUME NEW n \in [Upgrades -> OptHeights], NEW g \in Heights, NEW h \in Heights, g <= h
    PROVE  ForHeight(n, g) <= ForHeight(n, h)
<1> DEFINE a == ForHeight(n, g)
           b == ForHeight(n, h)
<1>1. a \in BranchIds /\ (a # Sprout => IsNuActive(n, a, g))
    BY ScanResult
<1>2. b \in BranchIds /\ \A nu \in Upgrades : nu > b => ~IsNuActive(n, nu, h)
    BY ScanResult
<1> HIDE DEF a, b
<1>3. CASE a = Sprout
    BY <1>2, <1>3 DEF BranchIds, Sprout, a, b
<1>4. CASE a # Sprout
    <2>1. a \in Upgrades
        BY <1>1, <1>4 DEF BranchIds, Upgrades, Sprout, Overwinter, Nu6_3
    <2>2. IsNuActive(n, a, h)
        BY <1>1, <1>4, <2>1, HeightAssumption DEF IsNuActive, OptHeights, Heights
    <2> QED BY <1>1, <1>2, <2>1, <2>2 DEF BranchIds, Sprout, Nu6_3, a, b
<1> QED BY <1>3, <1>4

----------------------------------------------------------------------------
(* A client that follows a chain. *)

(* The heights a client sees are BlockHeights: the arithmetic saturates.    *)
THEOREM NetworkTypeCorrect == ClientSpec => []ClientTypeOK
<1>1. ClientInit => ClientTypeOK
    BY HeightAssumption, ClientAssumption DEF ClientInit, ClientTypeOK, Heights
<1>2. ClientTypeOK /\ [ClientNext]_client => ClientTypeOK'
    BY HeightAssumption, ClientAssumption
    DEF ClientTypeOK, ClientNext, Advance, Rewind, client, HeightAdd, HeightSub, Heights
<1> QED BY <1>1, <1>2, PTL DEF ClientSpec

(* The property of the run, for every network and every height. *)
THEOREM BranchOwnership == ClientSpec => []BranchOwnsItsHeights
<1>1. ClientTypeOK => BranchOwnsItsHeights
    BY EpochsPartition DEF ClientTypeOK, BranchOwnsItsHeights
<1> QED BY <1>1, NetworkTypeCorrect, PTL

(* The rules of a growing chain never go back to an earlier branch. *)
THEOREM BranchMonotone == ClientSpec => RulesNeverGoBack
<1>1. ASSUME ClientTypeOK, ClientTypeOK', [ClientNext]_client, tip' >= tip
      PROVE  ForHeight(network', tip') >= ForHeight(network, tip)
    <2>1. network' = network
        BY <1>1 DEF ClientNext, Advance, Rewind, client
    <2>2. ForHeight(network, tip) <= ForHeight(network, tip')
        BY <1>1, ScanMonotone DEF ClientTypeOK, Heights
    <2>3. ForHeight(network, tip) \in BranchIds /\ ForHeight(network, tip') \in BranchIds
        BY <1>1, ScanResult DEF ClientTypeOK
    <2> QED BY <2>1, <2>2, <2>3 DEF BranchIds, Sprout, Nu6_3
<1>2. ClientTypeOK /\ ClientTypeOK' /\ [ClientNext]_client
        => [tip' >= tip => ForHeight(network', tip') >= ForHeight(network, tip)]_client
    BY <1>1
<1> QED BY <1>2, NetworkTypeCorrect, PTL DEF ClientSpec, RulesNeverGoBack

(* ZIP 212 is only ever tightened as the chain grows. *)
THEOREM Zip212Monotone == ClientSpec => Zip212NeverRelaxes
<1>1. ASSUME ClientTypeOK, ClientTypeOK', [ClientNext]_client, tip' >= tip
      PROVE  Zip212Rank(Zip212Enforcement(network', tip'))
                >= Zip212Rank(Zip212Enforcement(network, tip))
    <2>1. network' = network
        BY <1>1 DEF ClientNext, Advance, Rewind, client
    <2>2. tip \in Int /\ tip' \in Int /\ tip <= tip'
        BY <1>1, HeightAssumption DEF ClientTypeOK, Heights
    <2>3. network[Canopy] # NoHeight => network[Canopy] \in Int
        BY <1>1, HeightAssumption
        DEF ClientTypeOK, Upgrades, OptHeights, Heights, Overwinter, Canopy, Nu6_3
    <2>4. network[Canopy] # NoHeight => HeightAdd(network[Canopy], ZIP212_GRACE_PERIOD) \in Int
        BY <2>3, HeightAssumption, ClientAssumption DEF HeightAdd
    <2> QED BY <2>1, <2>2, <2>3, <2>4 DEF Zip212Rank, Zip212Enforcement, IsNuActive
<1>2. ClientTypeOK /\ ClientTypeOK' /\ [ClientNext]_client
        => [tip' >= tip => Zip212Rank(Zip212Enforcement(network', tip'))
                >= Zip212Rank(Zip212Enforcement(network, tip))]_client
    BY <1>1
<1> QED BY <1>2, NetworkTypeCorrect, PTL DEF ClientSpec, Zip212NeverRelaxes

----------------------------------------------------------------------------
(* The length of a function over an initial segment of the numbers. *)
LEMMA LenOf ==
    ASSUME NEW n \in Nat, NEW f, DOMAIN f = 1 .. n, f = [i \in 1 .. n |-> f[i]]
    PROVE  Len(f) = n
<1> DEFINE S == {f[i] : i \in 1 .. n}
<1>1. f \in [1 .. n -> S]
    OBVIOUS
<1>2. f \in Seq(S)
    BY <1>1, SeqDef
<1>3. Len(f) \in Nat /\ DOMAIN f = 1 .. Len(f)
    BY <1>2, LenProperties
<1> QED BY <1>3

(* What an effecting bundle is: a bundle that may be signed. *)
IsTransparent(b) ==
    /\ Len(b.vin) \in Nat /\ DOMAIN b.vin = 1 .. Len(b.vin)
    /\ b = TransparentBundle([i \in 1 .. Len(b.vin) |-> b.vin[i]], b.vout)
    /\ \A i \in 1 .. Len(b.vin) :
        b.vin[i] = [coin |-> b.vin[i].coin, sequence |-> b.vin[i].sequence,
                    script_sig |-> b.vin[i].script_sig]

LEMMA UnauthorizedShape ==
    ASSUME NEW t, Unauthorized(t), NEW b \in t.transparent
    PROVE  /\ IsTransparent(b)
           /\ \A i \in DOMAIN b.vin : b.vin[i].script_sig = Unsigned
<1>1. /\ Len(b.vin) \in Nat
      /\ b = TransparentBundle([i \in 1 .. Len(b.vin) |-> TxIn(b.vin[i].coin, b.vin[i].sequence)],
                               b.vout)
    BY DEF Unauthorized
<1>2. b.vin = [i \in 1 .. Len(b.vin) |-> TxIn(b.vin[i].coin, b.vin[i].sequence)]
    BY <1>1 DEF TransparentBundle
<1>3. DOMAIN b.vin = 1 .. Len(b.vin)
    BY <1>2
<1>4. \A i \in 1 .. Len(b.vin) : b.vin[i] = TxIn(b.vin[i].coin, b.vin[i].sequence)
    BY <1>2
<1>5. b = TransparentBundle(b.vin, b.vout)
    BY <1>1, <1>2
<1>6. b.vin = [i \in 1 .. Len(b.vin) |-> b.vin[i]]
    BY <1>2
<1>7. ASSUME NEW i \in 1 .. Len(b.vin)
      PROVE  /\ b.vin[i] = [coin |-> b.vin[i].coin, sequence |-> b.vin[i].sequence,
                            script_sig |-> b.vin[i].script_sig]
             /\ b.vin[i].script_sig = Unsigned
    <2>1. PICK coin, sequence : b.vin[i] = TxIn(coin, sequence)
        BY <1>4
    <2> QED BY <2>1 DEF TxIn
<1> QED BY <1>1, <1>3, <1>5, <1>6, <1>7 DEF IsTransparent

(* Two bundles that do the same, whatever authorizes them. *)
SameEffects(b, c) ==
    /\ DOMAIN c.vin = DOMAIN b.vin
    /\ Len(c.vin) = Len(b.vin)
    /\ \A i \in DOMAIN b.vin : c.vin[i].coin = b.vin[i].coin /\ c.vin[i].sequence = b.vin[i].sequence
    /\ c.vout = b.vout

LEMMA ScriptSigsAreNoEffect ==
    ASSUME NEW b, IsTransparent(b), NEW t, NEW digests
    PROVE  /\ SameEffects(b, WithScriptSigs(b, t, digests))
           /\ IsTransparent(WithScriptSigs(b, t, digests))
           /\ \A i \in DOMAIN b.vin :
                WithScriptSigs(b, t, digests).vin[i].script_sig =
                    IF IsCoinbaseBundle(b) THEN b.vin[i].script_sig
                    ELSE SignatureHash(t, TransparentInput(i, SIGHASH_ALL), digests)
<1>1. CASE IsCoinbaseBundle(b)
    BY <1>1 DEF WithScriptSigs, SameEffects
<1>2. CASE ~IsCoinbaseBundle(b)
    <2> DEFINE sig(i) == SignatureHash(t, TransparentInput(i, SIGHASH_ALL), digests)
               vin == [i \in DOMAIN b.vin |-> [b.vin[i] EXCEPT !.script_sig = sig(i)]]
               c == WithScriptSigs(b, t, digests)
    <2> HIDE DEF sig
    <2>1. c = [b EXCEPT !.vin = vin]
        BY <1>2 DEF WithScriptSigs, sig
    <2>2. b = TransparentBundle(b.vin, b.vout)
        BY DEF IsTransparent, TransparentBundle
    <2>3. c.vin = vin /\ c.vout = b.vout /\ c = TransparentBundle(vin, b.vout)
        BY <2>1, <2>2 DEF TransparentBundle
    <2>4. \A i \in 1 .. Len(b.vin) :
            vin[i] = [coin |-> b.vin[i].coin, sequence |-> b.vin[i].sequence, script_sig |-> sig(i)]
        <3> SUFFICES ASSUME NEW i \in 1 .. Len(b.vin)
                     PROVE  vin[i] = [coin |-> b.vin[i].coin, sequence |-> b.vin[i].sequence,
                                      script_sig |-> sig(i)]
            OBVIOUS
        <3>1. PICK x, y, z : b.vin[i] = [coin |-> x, sequence |-> y, script_sig |-> z]
            BY DEF IsTransparent
        <3>2. vin[i] = [b.vin[i] EXCEPT !.script_sig = sig(i)]
            BY DEF IsTransparent
        <3> QED BY <3>1, <3>2
    <2>5. DOMAIN vin = 1 .. Len(b.vin) /\ vin = [i \in 1 .. Len(b.vin) |-> vin[i]]
        BY DEF IsTransparent
    <2> HIDE DEF vin
    <2>6. Len(vin) = Len(b.vin)
        BY <2>5, LenOf DEF IsTransparent
    <2> HIDE DEF c
    <2>7. \A i \in 1 .. Len(b.vin) :
            /\ vin[i].coin = b.vin[i].coin /\ vin[i].sequence = b.vin[i].sequence
            /\ vin[i].script_sig = sig(i)
            /\ vin[i] = [coin |-> vin[i].coin, sequence |-> vin[i].sequence,
                         script_sig |-> vin[i].script_sig]
        <3> TAKE i \in 1 .. Len(b.vin)
        <3>1. PICK x, y, z : /\ vin[i] = [coin |-> x, sequence |-> y, script_sig |-> z]
                             /\ x = b.vin[i].coin /\ y = b.vin[i].sequence /\ z = sig(i)
            BY <2>4
        <3> QED BY <3>1
    <2>8. SameEffects(b, c)
        BY <2>3, <2>5, <2>6, <2>7 DEF SameEffects, IsTransparent
    <2>9. IsTransparent(c)
        BY <2>3, <2>5, <2>6, <2>7 DEF IsTransparent
    <2>10. \A i \in DOMAIN b.vin : c.vin[i].script_sig = sig(i)
        BY <2>3, <2>7 DEF IsTransparent
    <2> QED BY <1>2, <2>8, <2>9, <2>10 DEF c, sig
<1> QED BY <1>1, <1>2

----------------------------------------------------------------------------
SameTransparent(B, C) ==
    /\ \A b \in B : \E c \in C : SameEffects(b, c)
    /\ \A c \in C : \E b \in B : SameEffects(b, c)

LEMMA DigestsOfSame ==
    ASSUME NEW b, NEW c, SameEffects(b, c)
    PROVE  /\ Prevouts(c.vin) = Prevouts(b.vin)
           /\ SequenceNumbers(c.vin) = SequenceNumbers(b.vin)
           /\ TransparentDigests(c) = TransparentDigests(b)
<1>1. Prevouts(c.vin) = Prevouts(b.vin) /\ SequenceNumbers(c.vin) = SequenceNumbers(b.vin)
    BY DEF SameEffects, Prevouts, SequenceNumbers
<1> QED BY <1>1 DEF TransparentDigests, SameEffects

LEMMA CoinbaseOfSame ==
    ASSUME NEW b, NEW c, SameEffects(b, c), IsTransparent(b), IsTransparent(c)
    PROVE  /\ IsCoinbaseBundle(c) <=> IsCoinbaseBundle(b)
           /\ c.vin = <<>> <=> b.vin = <<>>
<1>1. IsCoinbaseBundle(c) <=> IsCoinbaseBundle(b)
    <2>1. Len(b.vin) = 1 => 1 \in DOMAIN b.vin
        BY DEF IsTransparent
    <2> QED BY <2>1 DEF SameEffects, IsCoinbaseBundle
<1>2. c.vin = <<>> <=> b.vin = <<>>
    <2>1. /\ b.vin = [i \in 1 .. Len(b.vin) |-> b.vin[i]]
          /\ c.vin = [i \in 1 .. Len(c.vin) |-> c.vin[i]]
        BY DEF IsTransparent, TransparentBundle
    <2>2. Len(c.vin) = Len(b.vin) /\ Len(b.vin) \in Nat
        BY DEF SameEffects, IsTransparent
    <2> QED BY <2>1, <2>2
<1> QED BY <1>1, <1>2

(* An input that a verifier may ask about. *)
IsInput(input, B) == input.index = 0 \/ \A b \in B : input.index \in DOMAIN b.vin

LEMMA SigDigestOfSame ==
    ASSUME NEW b, NEW c, SameEffects(b, c), IsTransparent(b), IsTransparent(c),
           NEW d, NEW input, IsInput(input, {b})
    PROVE  /\ TransparentSigDigest(c, d, input) = TransparentSigDigest(b, d, input)
           /\ SignedTxIn(c, input) = SignedTxIn(b, input)
           /\ SignedOutputs(c.vout, input) = SignedOutputs(b.vout, input)
<1>1. /\ IsCoinbaseBundle(c) <=> IsCoinbaseBundle(b)
      /\ c.vin = <<>> <=> b.vin = <<>>
    BY CoinbaseOfSame
<1>2. SignedTxIn(c, input) = SignedTxIn(b, input)
    BY DEF SignedTxIn, SameEffects, IsInput
<1> QED BY <1>1, <1>2 DEF TransparentSigDigest, SameEffects

(* A transaction whose transparent bundle is a function of its inputs. *)
TransparentTyped(t) == \A b \in t.transparent : IsTransparent(b)

(* Two transactions that a signature hash does not tell apart: they agree   *)
(* on every digest that is hashed, and in version 4 on the Sapling proofs.  *)
SameToSign(t, u) ==
    /\ u.version = t.version /\ u.branch = t.branch /\ u.expiry = t.expiry
    /\ u.sprout = t.sprout /\ u.staking = t.staking
    /\ SameTransparent(t.transparent, u.transparent)
    /\ {HashSaplingTxIdData(u.version, b) : b \in u.sapling}
        = {HashSaplingTxIdData(t.version, b) : b \in t.sapling}
    /\ {OrchardCommitment(OrchardCommitmentDomain(u.version), b) : b \in u.orchard}
        = {OrchardCommitment(OrchardCommitmentDomain(t.version), b) : b \in t.orchard}
    /\ {OrchardCommitment("V6", b) : b \in u.ironwood} = {OrchardCommitment("V6", b) : b \in t.ironwood}
    /\ {<<b.effects, b.anchor, b.proofs>> : b \in u.sapling}
        = {<<b.effects, b.anchor, b.proofs>> : b \in t.sapling}

LEMMA TxIdDigestOfSame ==
    ASSUME NEW t, NEW u, SameToSign(t, u)
    PROVE  TxIdDigest(u) = TxIdDigest(t)
<1>1. {TransparentDigests(b) : b \in u.transparent} = {TransparentDigests(b) : b \in t.transparent}
    BY DigestsOfSame DEF SameToSign, SameTransparent
<1>2. HashHeaderTxIdData(u) = HashHeaderTxIdData(t)
    BY DEF SameToSign, HashHeaderTxIdData
<1> QED BY <1>1, <1>2 DEF TxIdDigest, SameToSign

(* signature_hash answers the same for transactions that differ only in     *)
(* what is filled in after the hash is taken.                               *)
LEMMA SigHashOfSame ==
    ASSUME NEW t, NEW u, SameToSign(t, u), TransparentTyped(t), TransparentTyped(u),
           NEW input, IsInput(input, t.transparent)
    PROVE  SigHash(u, input) = SigHash(t, input)
<1> DEFINE parts == TxIdDigest(t)
<1>1. TxIdDigest(u) = parts
    BY TxIdDigestOfSame
<1>2. ASSUME NEW b \in t.transparent, NEW c \in u.transparent, SameEffects(b, c)
      PROVE  /\ \A d : TransparentSigDigest(c, d, input) = TransparentSigDigest(b, d, input)
             /\ SignedTxIn(c, input) = SignedTxIn(b, input)
             /\ SignedOutputs(c.vout, input) = SignedOutputs(b.vout, input)
             /\ Prevouts(c.vin) = Prevouts(b.vin)
             /\ SequenceNumbers(c.vin) = SequenceNumbers(b.vin)
    BY <1>2, SigDigestOfSame, DigestsOfSame DEF TransparentTyped, IsInput
<1>3. TransparentSigDigests(u, parts, input) = TransparentSigDigests(t, parts, input)
    <2> HIDE DEF parts
    <2> QED BY <1>2 DEF TransparentSigDigests, SameToSign, SameTransparent
<1>4. CASE t.version = "V6"
    BY <1>1, <1>3, <1>4 DEF SigHash, SignatureHash, V6SignatureHash, ToHashV6, SameToSign
<1>5. CASE t.version \in {"V5", "VCrosslink"}
    BY <1>1, <1>3, <1>5 DEF SigHash, SignatureHash, V5SignatureHash, ToHash, SameToSign
<1>6. CASE t.version \notin {"V5", "V6", "VCrosslink"}
    <2> DEFINE part(b) == <<IF input.hash_type.anyonecanpay THEN <<>> ELSE Prevouts(b.vin),
                            IF input.hash_type = SIGHASH_ALL THEN SequenceNumbers(b.vin) ELSE <<>>,
                            SignedOutputs(b.vout, input), SignedTxIn(b, input)>>
    <2>1. \A b \in t.transparent, c \in u.transparent : SameEffects(b, c) => part(c) = part(b)
        BY <1>2
    <2>2. /\ V4SignatureHash(u, input)
              = <<u.branch, u.version, u.expiry, input.hash_type, {part(b) : b \in u.transparent},
                  u.sprout, {<<b.effects, b.anchor, b.proofs>> : b \in u.sapling}>>
          /\ V4SignatureHash(t, input)
              = <<t.branch, t.version, t.expiry, input.hash_type, {part(b) : b \in t.transparent},
                  t.sprout, {<<b.effects, b.anchor, b.proofs>> : b \in t.sapling}>>
        BY DEF V4SignatureHash
    <2> HIDE DEF part
    <2>3. {part(b) : b \in u.transparent} = {part(b) : b \in t.transparent}
        BY <2>1 DEF SameToSign, SameTransparent
    <2>4. V4SignatureHash(u, input) = V4SignatureHash(t, input)
        BY <2>2, <2>3 DEF SameToSign
    <2> QED BY <1>6, <2>4 DEF SigHash, SignatureHash, SameToSign
<1> QED BY <1>4, <1>5, <1>6
----------------------------------------------------------------------------
(* The shape of a transaction in hand, authorized or not. *)
IsShielded(b) == b = [effects |-> b.effects, anchor |-> b.anchor, proofs |-> b.proofs, sigs |-> b.sigs]
IsTx(t) ==
    /\ IsTransaction(t)
    /\ TransparentTyped(t)
    /\ \A b, c \in t.transparent : b = c
    /\ \A b \in t.sapling \union t.orchard \union t.ironwood : IsShielded(b)

LEMMA ShieldedFields ==
    ASSUME NEW b, IsShielded(b), NEW over
    PROVE  /\ IsShielded(WithSigs(b, over)) /\ IsShielded(WithProofs(b))
           /\ WithSigs(b, over).effects = b.effects /\ WithSigs(b, over).anchor = b.anchor
           /\ WithSigs(b, over).proofs = b.proofs /\ WithSigs(b, over).sigs = over
           /\ WithProofs(b).effects = b.effects /\ WithProofs(b).anchor = b.anchor
           /\ WithProofs(b).sigs = b.sigs
<1>1. PICK e, a, p, s : b = [effects |-> e, anchor |-> a, proofs |-> p, sigs |-> s]
    BY DEF IsShielded
<1> QED BY <1>1 DEF IsShielded, WithSigs, WithProofs

(* build signs last what it hashed first: signing changes nothing that any  *)
(* signature hash covers.                                                   *)
LEMMA SigningChangesNoHash ==
    ASSUME NEW t, IsTx(t)
    PROVE  SameToSign(t, Sign(t)) /\ IsTx(Sign(t))
<1> DEFINE digests == TxIdDigest(t)
           shielded == SignatureHash(t, Shielded, digests)
           scripts(b) == WithScriptSigs(b, t, digests)
           sigs(b) == WithSigs(b, shielded)
           both(b) == WithSigs(WithProofs(b), shielded)
           u == Sign(t)
<1>1. u = [t EXCEPT !.transparent = {scripts(b) : b \in t.transparent},
                    !.sapling = {sigs(b) : b \in t.sapling},
                    !.orchard = {both(b) : b \in t.orchard},
                    !.ironwood = {both(b) : b \in t.ironwood}]
    BY DEF Sign
<1>2. \A b \in t.transparent : SameEffects(b, scripts(b)) /\ IsTransparent(scripts(b))
    BY ScriptSigsAreNoEffect DEF IsTx, IsTransaction, TransparentTyped
<1>3. \A b \in t.sapling \union t.orchard \union t.ironwood :
        /\ IsShielded(sigs(b)) /\ IsShielded(both(b))
        /\ sigs(b).effects = b.effects /\ sigs(b).anchor = b.anchor /\ sigs(b).proofs = b.proofs
        /\ both(b).effects = b.effects /\ both(b).anchor = b.anchor
    BY ShieldedFields DEF IsTx, IsTransaction
<1> HIDE DEF scripts, sigs, both, u
<1>4. PICK ve, br, ex, tr, sp, sa, o, i, st :
        t = [version |-> ve, branch |-> br, expiry |-> ex, transparent |-> tr, sprout |-> sp,
             sapling |-> sa, orchard |-> o, ironwood |-> i, staking |-> st]
    BY DEF IsTx, IsTransaction
<1>5. /\ u.version = t.version /\ u.branch = t.branch /\ u.expiry = t.expiry
      /\ u.sprout = t.sprout /\ u.staking = t.staking
      /\ u.transparent = {scripts(b) : b \in t.transparent}
      /\ u.sapling = {sigs(b) : b \in t.sapling}
      /\ u.orchard = {both(b) : b \in t.orchard}
      /\ u.ironwood = {both(b) : b \in t.ironwood}
      /\ u = [version |-> u.version, branch |-> u.branch, expiry |-> u.expiry,
              transparent |-> u.transparent, sprout |-> u.sprout, sapling |-> u.sapling,
              orchard |-> u.orchard, ironwood |-> u.ironwood, staking |-> u.staking]
    BY <1>1, <1>4
<1>6. IsTx(u)
    BY <1>2, <1>3, <1>5 DEF IsTx, IsTransaction, TransparentTyped
<1>7. SameTransparent(t.transparent, u.transparent)
    BY <1>2, <1>5 DEF SameTransparent
<1>8. {HashSaplingTxIdData(u.version, b) : b \in u.sapling}
        = {HashSaplingTxIdData(t.version, b) : b \in t.sapling}
    BY <1>3, <1>5 DEF HashSaplingTxIdData
<1>9. \A f : /\ {OrchardCommitment(f, b) : b \in u.orchard} = {OrchardCommitment(f, b) : b \in t.orchard}
             /\ {OrchardCommitment(f, b) : b \in u.ironwood} = {OrchardCommitment(f, b) : b \in t.ironwood}
    BY <1>3, <1>5 DEF OrchardCommitment
<1>10. {<<b.effects, b.anchor, b.proofs>> : b \in u.sapling}
        = {<<b.effects, b.anchor, b.proofs>> : b \in t.sapling}
    BY <1>3, <1>5
<1>11. SameToSign(t, u)
    <2> DEFINE domain == OrchardCommitmentDomain(t.version)
    <2>2. OrchardCommitmentDomain(u.version) = domain
        BY <1>5
    <2>3. {OrchardCommitment(domain, b) : b \in u.orchard} = {OrchardCommitment(domain, b) : b \in t.orchard}
        BY <1>9
    <2>4. {OrchardCommitment(OrchardCommitmentDomain(u.version), b) : b \in u.orchard}
            = {OrchardCommitment(domain, b) : b \in t.orchard}
        BY <2>2, <2>3
    <2>5. {OrchardCommitment("V6", b) : b \in u.ironwood} = {OrchardCommitment("V6", b) : b \in t.ironwood}
        BY <1>9
    <2> QED BY <1>5, <1>7, <1>8, <1>10, <2>4, <2>5 DEF SameToSign
<1> QED BY <1>6, <1>11 DEF u

LEMMA SignedBundles ==
    ASSUME NEW t, IsTx(t)
    PROVE  LET digests == TxIdDigest(t)
               shielded == SignatureHash(t, Shielded, digests)
           IN  /\ Sign(t).transparent = {WithScriptSigs(b, t, digests) : b \in t.transparent}
               /\ Sign(t).sapling = {WithSigs(b, shielded) : b \in t.sapling}
               /\ Sign(t).orchard = {WithSigs(WithProofs(b), shielded) : b \in t.orchard}
               /\ Sign(t).ironwood = {WithSigs(WithProofs(b), shielded) : b \in t.ironwood}
<1> DEFINE digests == TxIdDigest(t)
           shielded == SignatureHash(t, Shielded, digests)
<1>1. PICK ve, br, ex, tr, sp, sa, o, i, st :
        t = [version |-> ve, branch |-> br, expiry |-> ex, transparent |-> tr, sprout |-> sp,
             sapling |-> sa, orchard |-> o, ironwood |-> i, staking |-> st]
    BY DEF IsTx, IsTransaction
<1> HIDE DEF digests, shielded
<1> QED BY <1>1 DEF Sign, digests, shielded

(* Whatever a transaction is before build signs it, if it carries no        *)
(* signature then every signature build makes is over the hash that a       *)
(* verifier recomputes.                                                     *)
LEMMA SignVerifies ==
    ASSUME NEW t, IsTx(t),
           \A b \in t.transparent : \A i \in DOMAIN b.vin : b.vin[i].script_sig = Unsigned
    PROVE  SignaturesVerify(Sign(t))
<1> DEFINE digests == TxIdDigest(t)
           shielded == SignatureHash(t, Shielded, digests)
           u == Sign(t)
<1>1. SameToSign(t, u) /\ IsTx(u)
    BY SigningChangesNoHash
<1>2. /\ u.transparent = {WithScriptSigs(b, t, digests) : b \in t.transparent}
      /\ u.sapling = {WithSigs(b, shielded) : b \in t.sapling}
      /\ u.orchard = {WithSigs(WithProofs(b), shielded) : b \in t.orchard}
      /\ u.ironwood = {WithSigs(WithProofs(b), shielded) : b \in t.ironwood}
    BY SignedBundles
<1>3. \A b \in u.sapling \union u.orchard \union u.ironwood : b.sigs = SigHash(t, Shielded)
    <2>1. \A b \in t.sapling \union t.orchard \union t.ironwood :
            WithSigs(b, shielded).sigs = shielded /\ WithSigs(WithProofs(b), shielded).sigs = shielded
        BY ShieldedFields DEF IsTx, IsTransaction
    <2> QED BY <1>2, <2>1 DEF SigHash
<1>4. SigHash(u, Shielded) = SigHash(t, Shielded)
    <2>1. IsInput(Shielded, t.transparent)
        BY DEF IsInput, Shielded
    <2> QED BY <1>1, <2>1, SigHashOfSame DEF IsTx, IsTransaction
<1>5. ASSUME NEW c \in u.transparent, NEW i \in DOMAIN c.vin
      PROVE  Verifies(c.vin[i].script_sig, u, TransparentInput(i, SIGHASH_ALL))
    <2>1. PICK b \in t.transparent : c = WithScriptSigs(b, t, digests)
        BY <1>2
    <2>2. /\ SameEffects(b, c) /\ IsTransparent(b) /\ IsTransparent(c) /\ i \in DOMAIN b.vin
          /\ c.vin[i].script_sig = IF IsCoinbaseBundle(b) THEN b.vin[i].script_sig
                                   ELSE SignatureHash(t, TransparentInput(i, SIGHASH_ALL), digests)
        <3>1. IsTransparent(b)
            BY DEF IsTx, IsTransaction, TransparentTyped
        <3>2. SameEffects(b, c) /\ IsTransparent(c)
            BY <2>1, <3>1, ScriptSigsAreNoEffect
        <3>3. i \in DOMAIN b.vin
            BY <3>2 DEF SameEffects
        <3> QED BY <2>1, <3>1, <3>2, <3>3, ScriptSigsAreNoEffect
    <2>3. CASE IsCoinbaseBundle(b)
        BY <2>2, <2>3 DEF Verifies
    <2>4. CASE ~IsCoinbaseBundle(b)
        <3> DEFINE input == TransparentInput(i, SIGHASH_ALL)
        <3>1. IsInput(input, t.transparent)
            <4>1. input.index = i
                BY DEF TransparentInput
            <4>2. \A a \in t.transparent : a = b
                BY DEF IsTx, IsTransaction
            <4> QED BY <2>2, <4>1, <4>2 DEF IsInput
        <3>2. SigHash(u, input) = SigHash(t, input)
            BY <1>1, <3>1, SigHashOfSame DEF IsTx, IsTransaction
        <3> QED BY <2>2, <2>4, <3>2 DEF Verifies, SigHash
    <2> QED BY <2>3, <2>4
<1> QED BY <1>3, <1>4, <1>5 DEF SignaturesVerify, Verifies

LEMMA UnauthorizedIsTx ==
    ASSUME NEW plan, Unauthorized(plan)
    PROVE  /\ IsTx(plan) /\ IsTx(ProveSapling(plan))
           /\ ProveSapling(plan).transparent = plan.transparent
           /\ ProveSapling(plan).sapling = {WithProofs(b) : b \in plan.sapling}
           /\ ProveSapling(plan).staking = plan.staking
           /\ \A b \in plan.transparent : \A i \in DOMAIN b.vin : b.vin[i].script_sig = Unsigned
<1> DEFINE proved(b) == WithProofs(b)
           t == ProveSapling(plan)
<1>1. PICK ve, br, ex, tr, sa, o, i, st : plan = Tx(ve, br, ex, tr, sa, o, i, st)
    BY DEF Unauthorized
<1>2. t = [plan EXCEPT !.sapling = {proved(b) : b \in plan.sapling}]
    BY DEF ProveSapling
<1>3. \A b \in plan.sapling \union plan.orchard \union plan.ironwood :
        IsShielded(b) /\ IsShielded(proved(b))
    <2> TAKE b \in plan.sapling \union plan.orchard \union plan.ironwood
    <2>1. PICK e, a : b = ShieldedBundle(e, a)
        BY DEF Unauthorized
    <2>2. IsShielded(b)
        BY <2>1 DEF ShieldedBundle, IsShielded
    <2> QED BY <2>2, ShieldedFields
<1> HIDE DEF proved, t
<1>4. /\ plan = [version |-> plan.version, branch |-> plan.branch, expiry |-> plan.expiry,
              transparent |-> plan.transparent, sprout |-> plan.sprout, sapling |-> plan.sapling,
              orchard |-> plan.orchard, ironwood |-> plan.ironwood, staking |-> plan.staking]
      /\ t = [version |-> t.version, branch |-> t.branch, expiry |-> t.expiry,
              transparent |-> t.transparent, sprout |-> t.sprout, sapling |-> t.sapling,
              orchard |-> t.orchard, ironwood |-> t.ironwood, staking |-> t.staking]
      /\ t.transparent = plan.transparent
      /\ t.sapling = {proved(b) : b \in plan.sapling}
      /\ t.orchard = plan.orchard /\ t.ironwood = plan.ironwood
      /\ t.staking = plan.staking
    BY <1>1, <1>2 DEF Tx
<1>5. \A b \in plan.transparent :
        IsTransparent(b) /\ \A j \in DOMAIN b.vin : b.vin[j].script_sig = Unsigned
    BY UnauthorizedShape
<1>6. \A b, c \in plan.transparent : b = c
    BY DEF Unauthorized
<1>7. IsTx(plan) /\ IsTx(t)
    BY <1>3, <1>4, <1>5, <1>6 DEF IsTx, IsTransaction, TransparentTyped
<1> QED BY <1>4, <1>5, <1>7 DEF t, proved

(* Builder::build: every signature of the transaction that it returns is    *)
(* over the hash that a verifier recomputes from that transaction, for      *)
(* every version and all bundles.  The order matters: the Sapling proofs,   *)
(* which version 4 hashes, are made before anything is signed.              *)
THEOREM BuiltSignaturesVerify ==
    ASSUME NEW plan, Unauthorized(plan)
    PROVE  SignaturesVerify(Authorize(plan)) /\ IsTx(Authorize(plan))
<1>1. SignaturesVerify(Sign(ProveSapling(plan)))
    BY UnauthorizedIsTx, SignVerifies
<1>2. IsTx(Sign(ProveSapling(plan)))
    BY UnauthorizedIsTx, SigningChangesNoHash
<1> QED BY <1>1, <1>2 DEF Authorize
=============================================================================
