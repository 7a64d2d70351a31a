# A TLA+ development of the Zcash primitives

This directory models the parts of the repository that decide whether a
transaction is well formed and stays so: the network's upgrade schedule, the
transaction formats, the fee rules, the transaction builders, the digests that
are signed, the cache of proving keys; the classification of migration
transactions by wallets (ZIP 318); blocks between nodes; the saved forms of note
commitment trees; and the blocks and certificates of the BFT chain. TLC checks
the models on small instances; TLAPS proves the main safety properties for every
value of their parameters. The build that is modelled has the `crosslink` flag on, the
`nu7` and `zip-233` flags off, and the features `std`, `circuits` and
`transparent-inputs` on.

## Inventory of the system

Three crates: `components/zcash_protocol` (networks, amounts, memos, ZIP 318),
`zcash_primitives` (transactions, blocks, the builder) and
`crates/bft_primitives` (finality votes). All of it is library code. It opens no
file and starts no thread: it encodes what its callers save and send, and the
only thing that their threads share is a cache of proving keys. What is hard is
that callers make long sequences of calls, each of which checks little; that the
same rule is often written twice; that bytes do not always say under which rules
they were made; and that parts of a transaction are filled in after others have
been signed.

| Component | State | Operations | Correct when | Modelled |
|---|---|---|---|---|
| Network upgrades (`consensus.rs`, `local_consensus.rs`) | activation heights | `is_nu_active`, `for_height`, `height_bounds`, `height_range`, saturating heights | scan and table agree, rules never go back | yes |
| Transaction formats (`transaction/mod.rs`, `components/`) | `TransactionData` | `valid_in_branch`, `freeze`, `write`, `read`, `fee_paid` | what is written is read back, nothing of value is dropped | by pool and balance, not by byte |
| Builder (`builder.rs`) | version, expiry, pool builders, staking action | `new`, `propose_version`, `with_expiry_height`, `add_*`, `put_staking_action`, `get_fee`, `build`, `build_for_pczt` | value is conserved, when it panics, what is built serialises | yes |
| Fee rules (`fees/`) | none | `fee_required` | monotone in what is added | yes |
| Amounts (`value.rs`) | none | checked sums | every partial sum in range | sums only |
| Staking actions (`components/staking.rs`) | the action | read, write, value contribution | carried by VCrosslink only, read as written | yes, fields opaque |
| Deferred PCZT builder (`builder.rs` 502-787) | two pool builders | `new`, `with_expiry_height`, `add_*`, `get_fee`, `build_for_pczt` | fee agrees with the bundles built, later data moves no signature | yes |
| Proving key cache (`builder.rs` 1951-1964) | a `OnceLock` per circuit version | lookup from many threads | one instance, every caller served | yes |
| ZIP 318 (`zip318.rs`) | evidence that a wallet has | `classify`, label codes, `largest_one_two_five`, `canonical_expiry` and its two tests | labels do not contradict later evidence, crossings are canonical | all but grid rounding and delays |
| Block headers and blocks (`block.rs`) | none | read, write, hash, conversion to `EncodedPowHeader` and back | relayed unchanged, branch of its transactions right | yes, but for fields that are only copied |
| Transaction ids, sighashes (`txid.rs`, `sighash*.rs`) | none | digests | a signature covers what its hash type says, and nothing that is filled in later | coverage, not hashing |
| BFT primitives (`crates/bft_primitives`) | votes, fat pointers, blocks, hard fork rules, parameters | construct, read, write, hash, verify | a certificate is for its block, and was voted for | all but JSON |
| BFT rosters (`roster.rs`) | stake of each finalizer | read, write | round trip | no: nothing is decided from them |
| Merkle trees (`merkle_tree.rs`) | what callers save | read, write of trees, frontiers (two formats), witnesses, path slices | a restarted wallet goes on as if it had not stopped | all but fixed-width codecs |
| Memos, constants, encodings | none | byte conversions | round trip | no: stateless tables and byte codecs |

Components interact by calls. The builder asks the network for the branch of
its target height, and the branch for the transaction version and the bundle
versions. `build` hands what it made to `freeze`, whose transaction id is a hash
of the serialisation for the oldest formats. Between the two it makes proofs,
for which it asks the key cache, and signatures over the digests of the
unauthorized transaction. Readers then recover the transaction, and `fee_paid`
repeats the balance that the builder computed. `Block::read` reads the coinbase
first, takes the height from it, and reads the other transactions under the
branch of that height. Block headers embed a BFT fat pointer, BFT blocks embed
headers, and the two crates parse each other's bytes.

`PROJECT.json` lists the hazards at their lines.

## Modules

    ConsensusBranches      heights, upgrades, branches (operators only)
      NetworkUpgrades      a client that follows a chain
      TxFormat             versions, write, read, fee_paid (operators only)
        TxBuilder          the builder
        ProvingKeyCache    threads and the key cache; implements KeyStore
        TxDigests          ids, commitments, signature hashes (operators only)
          TxSigning        proving and signing in Builder::build (operators only)
            DeferredPczt   the deferred PCZT builder
              TxAuthorization   the builder, the PCZT roles and cosigners
            BlockRelay     wallets, miners and nodes (with StakingCodec, BftCodec)
        StakingCodec       staking actions on the wire (operators only)
    Zip318                 denominations, expiry heights, classify (operators only)
      Zip318Labels         a wallet that learns of a transaction and labels it
      Zip318Migration      a balance crosses in denominations
    BftCodec               votes, fat pointers, BFT blocks (operators only)
      BftRelay             proposer, finalizers, relaying nodes, receiver
    KeyStore               what the key cache promises (abstract)
    MerkleCheckpoint       a wallet's tree, frontier and witness across crashes
    OperatorProofs         theorems about branches, signing and NetworkUpgrades
    ...Proofs              seven more modules of theorems, named after what they are about
    MC...                  instances for TLC

**ConsensusBranches.** An upgrade is its position in `UPGRADES_IN_ORDER`, and the
branch that it activates has the same number; Sprout is 0. A network is a
function from upgrades to a height or `NoHeight`. `ForHeight` is the reverse
scan of `for_height`, `HeightBounds` the table of `height_bounds`.

**NetworkUpgrades.** The tip of a chain advances and rewinds by saturating
arithmetic, and the client asks for the rules at each height.

**TxFormat.** A bundle is its version, the number of its inputs, outputs or
actions, and its balance; `None` is a bundle of size 0. `WireOf` is what a
version's layout has room for, so it shows what `write` leaves out, and the
`Write...Fails` predicates are the errors `write` returns. `ReadTx` is what
`read` recovers: the branch is the caller's argument for the formats that do not
commit to it. `FeePaid` sums in the order of the code, with a range check at
each partial sum.

**TxBuilder.** The variables are the fields of `Builder` (the params are the
branch that `new` derived from them); `parts` is what the four pool builders
hold. Each public call that changes the builder is one action. A call that
returns an error leaves the builder alone and is a stuttering step. `build` and
`build_for_pczt` consume the builder: `outcome` records the error, the panic or
the kind of result, `tx` the transaction data or PCZT parts, `fee` the fee. The
order of early returns is that of the code. `BuildUnsigned` is a missing signing
key, found only after the checks. `Completion` is the rest of `build`, in its
order: the signature hash, computed even when there is nothing to sign, which
panics before Overwinter (`SighashPanics`); the proving key, expected for the
branch of an Orchard or Ironwood bundle; and `freeze().unwrap()`. The pool builders, which are in other crates,
are modelled from how this code uses them: they refuse spends of a coinbase
transaction, Sapling refuses what leaves the range of its balance, and Orchard
refuses outputs to other addresses under `orchard_v3`. Proof creation is taken
to succeed, and the flags of a bundle to be representable in its format.

**KeyStore, ProvingKeyCache.** Threads run the part of `Builder::build` that
proves. `get_or_init` is three actions over the states of a `OnceLock`: a set
cell answers, an empty one is claimed, a running one blocks. The construction of
a key ends in a set cell or unwinds, which leaves the cell empty. `KeyStore`
answers each call in one step; the refinement mapping (`StoreOf`, `CallOf`) hides
claims, so that a construction that unwinds is a caller that leaves.

**TxDigests.** A digest is the tuple of what is hashed, and equal digests have
equal preimages. What matters is which fields each version's transaction id,
authorizing commitment and signature hash covers, for each pool, input and hash
type. Version 4 ids hash the serialisation and do not contain the branch. The
signature hash of the versions before Overwinter, where the code panics, has no
meaning; every action that signs is guarded by `~SighashPanics`.

**TxSigning, DeferredPczt, TxAuthorization.** `Authorize` is the order of
`build`: Sapling proofs, digests, Orchard and Ironwood proofs, signatures.
`DeferredPczt` has the state and one action per call of `DeferredPcztBuilder`.
`TxAuthorization` composes them with what happens to their output: the roles of
a PCZT (other crates, external) sign, set and replace anchors and prove in any
order, and cosigners add inputs and outputs, change sequence numbers and sign
under every hash type in between.

**StakingCodec, BlockRelay.** Wallets sign for the branch of a height, nodes pass
transactions and blocks on in any order and any number of times, each under its
own network parameters, and headers go to the BFT layer. `ReadTransaction` takes
the branch from the bytes or, up to version 4, from its caller; `BlockRead` takes
it from the height that the coinbase claims. The transactions carry every kind
of staking action, whose fields keep their order on the wire.

**MerkleCheckpoint.** Leaves are numbered and inner nodes are pairs, so that roots
tell trees apart. The tree, frontier and witness operations of the crate
`incrementalmerkletree` are external; the readers and writers are the code's. A
root, a carry and a path are all one climb (`Climb`) from a node past its
siblings, and a position is read through its ancestors (`Ancestor`), halved level
by level. The reference that they are compared with, `ChainRoot`, knows of no
position: it combines whole layers of nodes, from the leaves up.
The wallet saves in either format, crashes, loses everything but what it saved,
and restarts from there.

**Zip318.** The parameters of the ZIP, canonical denominations (repeated division
and multiplication by the radix, as recursive functions), the canonical expiry
and its two tests, and `Classify` over evidence, each field of which is a set
with at most one value (`None` is the empty set). A refuted clause decides, an
unknown one leaves the answer open, as in the code.

**Zip318Labels.** A transaction is a fixed record of facts. A wallet answers the
clauses of the evidence one at a time, in any order, and stores the label's code
at any moment; a consumer keeps the first decision that it reads. Whether the
source outputs are a send to self has two readings, as the documentation of the
clause describes them: of a transaction that the wallet is building, that every
value-carrying output pays its internal address (`PaysOnlyItself`); of a mined
one, that the account received on its internal address and on no external one
(`ReceivesOnlyInternally`), which outputs to others do not disturb. Of any other
transaction there is no answer. The setter overwrites, and `Zip318Evidence`
obliges its user to keep an answer stable, so the wallet answers this clause
once. `ExpiryForm` selects how the
wallet judges the expiry: from its value alone (`is_canonical_expiry_value`), or
against the target height of its own transaction and then the mined height
(`is_canonical_expiry`).

**Zip318Migration.** A balance is sent in crossings, each the value of
`largest_one_two_five` for what is left, until less than the smallest
denomination remains. The loop is the wallet's; the step is the code's. `Series`
is the reference that both are compared with: 1, 2 and 5 times the powers of the
radix, with `MaxDigits` powers, which is more than the integers have room for.

**BftCodec.** A wire is a record of the words that `write` emits, with the widths
of the code as parameters. An operation that may fail yields a set, which is
empty for an error; an `Option` is a set of at most one element. Three encodings
are not the identity and are modelled by what they do: the round and the kind of
a vote share a word, a Nil vote is written as the zero hash, and the height of a
version 1 block counts from 1 on the wire. Hashing is free of collisions and
signatures cannot be forged: `Hash(bytes)` determines the bytes, and a signature
is the record of its key, its bytes and its namespace.

**BftRelay.** A proposer takes up a chain, at height 0 or on top of a certified
block, builds blocks with `BftBlock::new` and sends them round by round. A
finalizer reads a proposal, checks it with `check_stateless` and signs a vote
for its hash, or for Nil while there is none. The proposer bundles any sequence
of ballots that pass `SignedVote::verify` and that match the block, the height,
the round and the kind, repeated ones included. Nodes read bundles and write
what they have read, and a receiver runs both validations. Each party has a
namespace of its own. The crate neither signs nor decides how many votes
suffice, so that any non-empty bundle counts here. A node that relays is honest;
what may go wrong is the order and selection of what is read, counted and sent.

## Runs

| Run | Result | States | Question |
|---|---|---|---|
| `network_upgrades` | pass | 12131 | do scan and table agree, are the rules monotone |
| `tx_builder` | pass | 521027 | is what `build` returns right, after any sequence of calls |
| `tx_builder_freeze` | violation | | is the `unwrap` of `freeze` safe |
| `proving_key_cache` | pass | 38902 | do threads get one key, the right one, and always |
| `tx_authorization` | pass | 1116440 | do signatures stand while the rest is filled in |
| `deferred_padding` | violation | | is a required bundle produced |
| `block_relay` | pass | 183589 | do blocks and signatures survive readers that disagree |
| `merkle_checkpoint` | pass | 34578 | does a wallet resume from what it saved |
| `zip318_labels` | pass | 648016 | may a label be cached, is it right, is it ever withheld |
| `zip318_reference` | violation | | may it be cached with a reference height |
| `zip318_migration` | pass | 2691 | does the decomposition end, in dust |
| `bft_relay` | pass | 171624 | does a certificate mean what it says after any number of hops |

What the properties say:

- `BranchOwnsItsHeights`: on an ordered network, the branch for a height is the
  one whose range contains it. `RulesNeverGoBack` and `Zip212NeverRelaxes` hold
  on unordered networks too.
- `BuiltTransactionSerialises`: `write` and every `read` accept what `build`
  returned.
- `WirePaysRequiredFee`: conservation of value. Any reader computes exactly the
  fee that the rule required. It fails if a pool that moves value is dropped, or
  if the two sums overflow differently.
- `NothingAddedIsLost`, `RoundTripsUnlessDummies`: what was added is on the wire,
  and the transaction is read back, but for an Ironwood bundle of dummies.
- `PanicsExactlyWhen`: of the builders that pass every check and have their keys,
  `build` panics on exactly two kinds: a version before Overwinter, in the
  signature hash, and a required Orchard bundle of dummies under a version
  without Orchard, in `freeze().unwrap()`. The proving key is always there.
- `EntryPointsDifferOnlyInPanics`: on standard builders `build` and
  `build_for_pczt` return the same errors, and `build` returns a transaction for
  whatever `build_for_pczt` accepts except those two kinds, on which it panics.
- `CoinbaseIsWellFormed`: expiry, value and staking of a coinbase.
- `FeeNeverFalls`: a fee quoted early is a lower bound.
- `ImplementsKeyStore`: callers see one key of each circuit version, from the
  first answer on. `ProofsMatchTheirBundle`: one key proves the bundles of both
  pools, and it is of the circuit version of each. `EveryCallReturns`: no thread
  waits for ever, though the one that filled its cell may have unwound.
- `SignaturesStand`: every signature is over the hash that a verifier recomputes
  from the transaction as it now is, whatever was installed after it was made.
- `DeferredDataIsAuthorization`: anchors, proofs and signatures that arrive after
  `build_for_pczt` never move the transaction id and always move the authorizing
  commitment.
- `PaysForItsBundles`: a deferred PCZT pays for the actions it has, and for more
  only where the violation (3) applies.
- `CosignaturesNoticeTheirScope`: an edit invalidates a signature exactly when its
  hash type covers what was edited.
- `BlocksAreRelayedUnchanged`: bytes, header hash and transaction ids are those
  of the miner after any number of hops, though each reader chooses the branch.
- `SignaturesFollowTheHeight`: up to version 4 the signatures in a block verify
  exactly when the reader's branch at the claimed height is the wallet's.
- `EncodedHeadersAgree`: headers cross to the BFT layer and back unchanged, and
  the conversion panics only where `BlockHeader::read` accepted a version or
  solution size that the BFT framing does not.
- `CheckpointsResume`, `FollowedNoteHasPath`: after any saves and crashes, the
  tree, the frontier and the path of the followed note are those of the
  commitments counted.
- `CachedLabelStands`: a definite label that a consumer holds is never
  contradicted by a later one, whatever is learnt in between.
- `ConformsUpToLookAlikes`: how far a conforming label can be wrong about the
  whole transaction. A Transfer has the shape. A Preparation has the layout, and
  until it is mined it pays nobody but the account's internal address; once it is
  mined, the label also admits look-alikes that pay somebody else as well, which
  the run labels so.
- `NoFalseNegatives`: a transaction made by the rules of the ZIP is never said
  not to conform, unless it targets the last window of heights. There the
  canonical expiry is clamped to the last height, which is no multiple of the
  modulus, and the value form refuses it.
- `CrossingsAreCanonical`, `GreedyIsLargest`, `EndsInDust`: every crossing has a
  canonical value and none larger was possible; the decomposition ends, with
  less than the smallest denomination left.
- `AcceptedIsPrecommitted`: every entry of a certificate that a receiver
  validated is a precommit that its key cast under the receiver's namespace, for
  the block, height and round that the certificate names.
- `CertificateIsForItsBlock`: `NotarizedBftBlock::read` does not compare the
  block with the pointer, and still the hash that was signed is the hash of the
  block that was read.
- `ChainOfCertificates`: the pointer inside an accepted block is the null pointer
  at height 0 and elsewhere a certificate of the block one below.
- `BundlesStayValid`: reading and writing a bundle again changes nothing, and
  both validations accept it under the proposer's namespace.
- `ReproposalKeepsItsHash`: the order in which the finalizers of a rule are
  listed does not change the bytes that are voted on.

What the violations show. (1) With an Orchard anchor, `bundle_required` set and
nothing added to Orchard, `propose_version(V4)` is accepted and `build` panics
in `freeze().unwrap()`, whose comment says that it cannot fail. (2) The
documentation of `expiry_is_canonical` lets a wallet judge its own transaction
against the target height and later against the mined height. If the transaction
is mined in the next period, its label changes from one decision to another,
which the test of monotonicity says never happens. (3) A pool of the deferred
builder whose padding requires a bundle, and to which nothing was added, is
charged for by `get_fee` and left out by `build_for_pczt`. `BundlePadding` says
that such a bundle is produced, and `Builder::build` does produce it.

Met while modelling, and part of the models without a run of their own. In the
situation of (1) a V5 transaction of NU6.3 is built with an Ironwood bundle of
dummies that the fee pays for and the V5 format drops: the exception in
`RoundTripsUnlessDummies`. A builder for a height before Overwinter is accepted
with the version that `suggested_for_branch` gives it, and `build` panics on it
even if it has nothing to sign, while `build_for_pczt` returns its parts.
`height_bounds` returns `None` for Sprout on a network
without Overwinter, where Sprout is always in effect. An override of
`expiry_window` that is not a whole number of moduli makes
`is_canonical_expiry_value` refuse every canonical expiry; the default parameters
are aligned. `HardForkConfig::new` and `write` accept more finalizers than `read`
does. `ZcashCrosslinkParameters::new` computes `2 * sigma` in u64, which wraps in
a release build for a sigma of 2^63 and more.

### Bounds

- `MaxHeight` is 6, 12 or 20 instead of u32::MAX, so that heights saturate within
  reach of the schedule and of the expiry delta.
- Networks: every ordered schedule over heights 0, 1, 3 and never, and each of
  these with one upgrade missing or moved. For the builder one network with
  every epoch, and target heights in Sprout, Overwinter, Sapling, NU5, NU6.2 and
  NU6.3, one for each row of the version and bundle tables that differs.
- `MAX_MONEY` is 6 marginal fees, so that two notes of value 5 overflow, and the
  fee overflows with more than six actions.
- `MaxItems`, the inputs and outputs added, is 4: two pools with an input and an
  output each. Padding to one and to two actions, required bundles and missing
  anchors are all among the configurations.
- Deadlock is not checked for the builder, because `build` consumes it.
- Key cache: three threads, three builds over all three circuit versions and both
  pools, one construction that unwinds: one thread fills a cell, two wait, and one
  of them takes over. Deadlock is not checked, because the builds run out.
- Authorization: plans of versions 4, 5, 6 and VCrosslink with every pool they
  have, without transparent bundle, with an empty one, a coinbase, one and two
  inputs. The deferred builder gets up to four spends and outputs, four paddings,
  and heights at which deferral is unsupported, supported, and saturating the
  expiry. Cosigners have up to three inputs, three outputs and two signatures:
  enough for SINGLE to gain its output late and for an edit on either side of the
  signed index. Two anchors, so that one replaces another. Deadlock is not
  checked: a finished transaction is not changed again.
- Blocks: two nodes whose networks part at height 6, callers that read at heights
  5 and 6, two signed transactions, one mined block of up to two transactions
  after the coinbase, and no bound on hops. Coinbases of every refused form.
  Deadlock is not checked: a node that panicked stops.
- Trees: depth 4, so 16 leaves, every shape of the left siblings at three levels,
  and a full tree; two crashes, so that what was read is saved and read again.
  Deadlock is not checked: a full tree takes no more.

- ZIP 318 labels: modulus 4 and window 8, and targets in the first two periods
  and in the last window. Heights end at 26, like u32::MAX no multiple of the
  modulus, so that the canonical expiry of the last target, 21, is clamped to a
  height that is not canonical by value. Each transaction may be mined in its own
  period or, from target 1, in the next. Source outputs go to nobody, to the
  internal address, to others, or to the internal address and an external one or
  others; two deviations from a conforming transaction at a time. Denominations: a cap of 100
  or 500, amounts up to 4999 in place of u64::MAX, balances up to 1300 and next
  to the largest amount, where multiplying by the radix would overflow.
- Deadlock is not checked for the decomposition, because it ends.
- BFT: the commit flag is 2 instead of 2^31, so there are two rounds, and heights
  end at 3; u64 ends at 15. The proposer starts at height 0 or at height 2, next
  to the top, where version 1 cannot be written. Two finalizers with four
  assignments of namespaces (all without, all with, a finalizer apart, the
  receiver apart), two proposals, two new votes, certificates of up to two
  entries, two hops. Two ballots of different rounds, kinds, values or sides of
  the fork are enough for a wrong one to be counted, and two hops for what a
  node has read to be read again.
- Deadlock is not checked for the relay, because these bounds end a behaviour.

Liveness. `EndsInDust` holds under weak fairness of `Cross`: the decomposition is
a sequential loop of its caller, so its next iteration, when there is one,
happens. `EveryCallReturns` holds under weak fairness of each thread's `Step`: the
operating system runs every runnable thread, the construction of a key or proof
ends, and `OnceLock` wakes its waiters. Nothing is assumed of which waiter is
first, nor that callers start builds. The other specifications are safety
specifications: the modelled code is sequential and has no scheduler, and peers
need not send anything.

## Proofs

For every value of the constants that satisfies the named assumptions:

- `OperatorProofs`: what the reverse scan returns (`ScanResult`, `ScanUnique`),
  that the ranges of an ordered network partition the heights
  (`EpochsPartition`), that the scan is monotone (`ScanMonotone`), and
  `BuiltSignaturesVerify`: every signature that `build` makes verifies against
  the transaction it returns. Also the four properties of the client of
  `NetworkUpgrades`, as `NetworkTypeCorrect`, `BranchOwnership`, `BranchMonotone`
  and `Zip212Monotone`.
- `TxBuilderProofs`: the nine properties of the builder's run, and
  `StakingSafety`.
- `TxAuthorizationProofs`: the five properties of the run, as `AuthTypeCorrect`,
  `SignaturesAlwaysStand`, `PcztPays`, `DeferredDataAuthorizes` and
  `CosignersAreToldOfTheirScope`.
- `BlockRelayProofs`: the three properties of the run, as `RelayKeepsBlocks`,
  `HeightDecidesSignatures` and `EncodingAgrees`, for any nodes, networks and
  number of hops.
- `Zip318Proofs`: the four properties of the labels, as `LabelsTypeCorrect`,
  `LabelStability`, `LabelSoundness` and `LabelCompleteness`. The last one
  assumes `WholeWindow`: the window is a multiple of the modulus, without which it
  is false. Of the decomposition, `PlannerMeetsClassifier`
  (what the planner sends, the classifier accepts), `GreedyStepIsLargest`, and
  `CrossingsProgress`: each crossing lowers the balance and never below 0, which
  is `EndsInDust` but for the fairness. It assumes that the cap is not below the
  floor; otherwise there is no denomination to send.
- `BftRelayProofs`: the six properties of the run, as `RelayTypeCorrect`,
  `CertificateSoundness`, `CertificateMatchesBlock`, `ChainCanBeWalked`,
  `HonestBundlesSurvive` and `ReproposalsAgree`, for any widths, sets of finalizers
  and namespaces, any number of rounds, votes and hops.
- `ProvingKeyCacheProofs`: `CacheTypeCorrect`, `ProofsMatch` and the refinement
  `CacheImplementsStore`, for any threads, builds and number of panics, and
  `ClaimsAreOwned`: a claimed cell always has a thread that constructs its key,
  which is `EveryCallReturns` but for the fairness.
- `MerkleCheckpointProofs`: the two properties of the run, as `WalletResumes` and
  `NoteKeepsItsPath`, for every depth of the tree from 2 on, any number of
  commitments, saves and crashes, and a note at any position.

The inductive invariant of the builder is `BuilderInv`: types, the pools with a
builder are those `new` created (`BuildersAsCreated`), a pool without a builder
is empty and a pool without inputs or outputs moves no value
(`PartsConsistent`), and staking needs VCrosslink. None of the properties of the
result is inductive without it. That a reader computes the right fee, for
example, rests on this chain: a version without a slot for a pool passes
`check_version_compatibility` only if the pool is not in use, and then its
balance is zero by `PartsConsistent`; a pool in use has a builder and so at
least one action, thus a bundle with its balance; hence the wire's balances are
the builder's, and so are the partial sums. The properties of the result persist
because no call follows `build` (`StepKinds`). That adding never lowers the fee
(`AddingNeverLowersTheFee`) is arithmetic on each rule: sizes rounded up by the
ZIP 317 divisors and counts padded to a minimum are monotone in what is added.
That `build` panics exactly on two kinds of builders, and what this says of the
two entry points, is one lemma (`CompletionIs`): under a version that the check
admits, a bundle without a slot can only be one of Orchard dummies, and an Orchard
builder exists only on branches that have a proving key and no Sprout version.

The inductive invariant of the authorization is `AuthInv`: types, what the
deferred builder holds (`BuilderInv`), what the transaction in hand looks like in
each phase (`TxInv`), and `SignaturesStand` itself. `TxInv` says that a PCZT is of
version 6, which hashes no anchor and no proof into what is signed, and that the signature of a cosigner is over an input that
the draft still has. An installed anchor or proof then leaves every signature
hash as it was. `PcztPays` counts the actions of the bundles against those that
`get_fee` charged; `DeferredDataAuthorizes` and `CosignersAreToldOfTheirScope` are
action properties, the second with one lemma per hash type and kind of edit, in
both directions.

The inductive invariant of the blocks is `BlocksInv`. It says where everything
comes from: what is in a pool has the bytes of something signed, a mined block is
the serialisation of transactions that were pooled or have no previous output,
and a block on a node's chain is what that node reads from a mined one. The
properties compare a node's block with bytes mined elsewhere and under another
branch, so that they need this origin. The proofs rest on the lemma that writing
forgets exactly the branch, and only up to version 4 (`Reread`): reading under any
branch and writing again gives the same bytes and the same transaction id.

The inductive invariant of the labels is `LabelsInv`. It orders evidence by
information (`Below`: every known field has the same value above) and says that
the evidence is below all that can be learned of the transaction (`Informed`),
that an answer to the send-to-self clause is the exact reading of the wallet's own
transaction or the looser one of a mined one (`SendToSelfFromSource`), that a
stored decision is the one of the present evidence, and that a cached decision is
the stored one. It is preserved because `Classify` is monotone (`ClassifyMonotone`): more
evidence turns the unknown label into a decision, and never one decision into
another. The theorems are for wallets that judge the expiry by its value.

The proofs about denominations are inductions over data. The library states
induction and recursion with operators as parameters, which the provers cannot
instantiate, so that `Zip318Proofs` states both for sets and functions:
`Induction` for the set of numbers that have a property, `Recursion` for a
function of functions whose value at n depends on smaller arguments only
(`Causal`). From these follow the equations of the recursive functions of
`Zip318` and `Zip318Migration` (`PowerDef`, `StripDef`, `ClimbDef`), and from
these, by induction, what the loops of the code compute: stripping zeros ends in
a number that the radix does not divide, and `largest_one_two_five` climbs to the
largest power that fits. Different powers are at least a factor of ten
apart (`PowersApart`), so the larger of its candidates is the largest of the series.

The inductive invariant of the relay is `RelayInv`. `AcceptedIsPrecommitted` is
not inductive: nothing in it speaks of the bundles under way. The invariant adds
that every bundle's pointer, once read, is a precommit with at least one entry,
and that every signature in a bundle is that of a cast vote. Then a signature
that `verify_signatures` accepts is over the bytes of the vote that the pointer
describes and, being a cast vote's, over the bytes of that one as well. The
round word is injective on kinds and rounds (`RoundWordInjective`), and so are
the bytes of votes (`ValuesReadBack`), hence the two votes are equal
(`VerifiedIsCast`). Relaying keeps the invariant because reading a written word
gives back its kind and round (`WordsReadBack`).

The properties of chains and bundles need `ChainInv`. It adds to `RelayInv` that
what the proposer builds on certifies the block one below (`TipStands`), that a
proposal is read back with that pointer inside (`ProposalStands`), and that
bundles and accepted blocks have a block, a pointer and signatures that agree
(`BundleStands`, `Stands`). A block is accepted long after the proposer has moved
on, so that the pointer inside must be followed from the tip to the proposal, the
bundle and the receiver. `ReproposalsAgree` needs no invariant but a fact about
sorting: a finite set of numbers has exactly one increasing enumeration
(`IncreasingExists`, `IncreasingEnumerates`), so that lists of the same finalizers yield
the same bytes.

The inductive invariant of the key cache is `CacheInv`. The refinement needs it
where a thread sets a cell: the store must still be without that version's key,
or the abstract store would change a key that others hold. This follows because a
thread that constructs a key has its cell `running`, a running cell has no
content, and no second thread constructs for the same cell, so that no one sets
or empties it in between. That circuit versions have different cells makes the
content of a cell a key of its own version (`CellsApart`), and a proof is then
right because both bundle versions of a branch have one circuit version
(`OneCircuitPerBranch`).

The inductive invariant of the checkpoints is `CheckpointInv`. Equal roots are not
inductive: a tree could have the right root today and wrong siblings for
tomorrow's leaf. The invariant says instead what every field holds. A node whose
leaves are all there never changes again, so it can be named once and for all as
a node of the tree over the endless row of commitments (`Whole`). After n
commitments the tree has, at each level where the ancestor of position n - 1 is a
right child, that ancestor's left sibling, and nothing elsewhere (`TreeHolds`);
the frontier has the same siblings in a row (`FrontierOf`). The witness of a note
has the tree of the note's own position, the right siblings that are complete
and a cursor, itself a `TreeHolds` of fewer levels, for the one that is under way
(`WitnessHolds`). On disk is what reads back as such a state (`DiskHolds`), which
carries the property over a crash. Appending is then a fact about binary
counting: the carry climbs past the levels at which the last position is a right
child, and the next position is a left child at all of them. The count of a tree
(`TreeSize`) and the number of ommers give back the position, which is why
`from_parts` accepts what was saved, and why the exported path puts every sibling
on the right side.

These proofs are inductions over levels and positions, and they follow recursive
functions that return trees and so have no fixed codomain. `Induction` is again
stated for sets and derived from the least element of a set of numbers
(`LeastNumber`). `Ancestor` and `Present` exist by `Iterate`. A climb needs no such
lemma: every row of nodes that fits its steps is its solution (`ClimbIs`), and the
proofs exhibit the row, which is the path of the chain's own nodes.

`CheckpointInv`, `AuthInv`, `BlocksInv` and `ChainInv` were checked with TLC on the instances of
the runs before they were proved.

The assumptions are named where the constants are declared, and TLC evaluates
them in every run:

- heights, amounts and sizes are natural numbers in range, networks are tables of
  optional heights, and the ZIP 317 divisors are positive;
- `AuthorizationAssumption`: what is completed is not authorized yet, and
  cosigners start from inputs that spend coins;
- `RelayAssumption` of `BlockRelay`: wallets sign something, and with previous
  outputs; what miners put first has a null one; the fat pointer of a header fits
  its widths;
- `RelayAssumption` of `BftRelay`: finitely many finalizers, headers typed,
  the finalizers of a rule are a sequence of numbers (their keys);
- `MigrationAssumption`: the floor is a power of the radix, as the comment at
  `zip318.rs` line 127 demands of a configuration.

Only model-checked: the liveness properties `EveryCallReturns` and `EndsInDust`,
which need fairness, of which the prover knows nothing. What they rest on besides
fairness is proved (`ClaimsAreOwned`, `CrossingsProgress`). The three properties
that the code violates are refuted by their runs. Every other property of a run
is a theorem.

## Plan

What could be added: the JSON forms of the BFT crate, which build values without
the checks of the constructors, and rosters, once something in the crate decides
by stake.

## Not modelled

- BFT rosters: records of stake and their codecs, from which nothing in the crate
  decides anything.
- Memos, addresses, prefixes, constants, and readers and writers of fixed-width
  fields: conversions without state, which unit tests cover with their vectors.
- Hashing, proving, script evaluation and randomness, which are in other crates;
  the models take hashes to be free of collisions and signatures to be
  unforgeable.
- The scheduling constants and rounding functions of ZIP 318, which nothing in the
  repository calls.
- The contents of Sprout bundles, which can be read and hashed but not built.
