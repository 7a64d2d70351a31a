----------------------------- MODULE BlockRelay -----------------------------
(***************************************************************************)
(* Proof-of-work blocks between nodes: wallets sign transactions for the   *)
(* branch of a height, miners put them into blocks, and nodes read and     *)
(* write blocks and transactions, each under its own network parameters.   *)
(* Up to version 4 a transaction's bytes do not say for which branch it    *)
(* was signed: Transaction::read takes the caller's word for it and        *)
(* Block::read that of the coinbase.  Header conversions hand accepted     *)
(* headers to the BFT layer.                                               *)
(*                                                                         *)
(* What a node holds may reach any other node at any time, any number of   *)
(* times and in any order.  A call that returns an error changes nothing.  *)
(***************************************************************************)
EXTENDS TxSigning, StakingCodec, FiniteSets

CONSTANTS
    Nodes,
    NetworkOf,                       \* the parameters of each node
    Plans,                           \* the transactions that wallets sign
    Coinbases,                       \* the first transactions that miners use
    HeaderStarts,                    \* version, solution and fat pointer of headers
    CallHeights,                     \* heights that wallets and callers of read use
    MaxSigned, MaxMined, MaxTxs,     \* bounds: signed transactions, blocks, their length
    COMMIT_FLAG, MaxU64, MaxSignatures, MAX_HEADER_COUNT,
    MAX_HARDFORKS_PER_BLOCK, MAX_TERMINATED_FINALIZERS   \* the widths and limits of BftCodec

Bft == INSTANCE BftCodec

VARIABLES
    signed,    \* the transactions that wallets signed
    pool,      \* of each node: the transactions it holds, as it read them
    mined,     \* the bytes of the blocks that miners made
    chain,     \* of each node: the blocks it read
    encoded,   \* of each node: the headers handed to the BFT layer
    panicked   \* the nodes that a conversion ended

vars == <<signed, pool, mined, chain, encoded, panicked>>

Init ==
    /\ signed = {} /\ mined = {} /\ panicked = {}
    /\ pool = [n \in Nodes |-> {}]
    /\ chain = [n \in Nodes |-> {}]
    /\ encoded = [n \in Nodes |-> {}]

BranchAt(n, h) == ForHeight(NetworkOf[n], h)

----------------------------------------------------------------------------
(* Transactions. *)

WriteTransaction(tx) == [Serialised(tx) EXCEPT !.staking = WriteStaking(@)]

(* An Orchard-family bundle is invalid data under a branch without its pool. *)
Readable(bytes) ==
    /\ \A p \in {"orchard", "ironwood"} :
        bytes[p] # {} => BundleVersionForBranch(bytes.branch, p) # "None"
    /\ ReadStaking(bytes.staking) # {}

(* Mutant: the caller's branch replaces the one on the wire. *)
ReadTransactionAsTold(bytes, arg) ==
    [bytes EXCEPT !.branch = arg, !.staking = CHOOSE option \in ReadStaking(@) : TRUE]

ReadTransaction(bytes, arg) ==
    [bytes EXCEPT !.branch = IF CommitsToBranch(bytes.version) THEN @ ELSE arg,
                  !.staking = CHOOSE option \in ReadStaking(@) : TRUE]

FixConsensusBranchId(tx, b) == [tx EXCEPT !.branch = IF CommitsToBranch(tx.version) THEN @ ELSE b]

(* A wallet at n, with Builder::build. *)
SignTransaction(n, plan, h) ==
    LET tx == Authorize([plan EXCEPT !.branch = BranchAt(n, h)])
    IN  /\ Cardinality(signed) < MaxSigned
        /\ ValidInBranch(tx.version, tx.branch) /\ ~SighashPanics(tx)
        /\ signed' = signed \union {tx}
        /\ pool' = [pool EXCEPT ![n] = @ \union {tx}]
        /\ UNCHANGED <<mined, chain, encoded, panicked>>

(* Transaction::write at one node and Transaction::read at another, whose   *)
(* caller takes the branch from a height of its choice.                     *)
RelayTransaction(n, tx, h) ==
    /\ Readable(WriteTransaction(tx))
    /\ pool' = [pool EXCEPT ![n] =
                    @ \union {ReadTransaction(WriteTransaction(tx), BranchAt(n, h))}]
    /\ UNCHANGED <<signed, mined, chain, encoded, panicked>>

----------------------------------------------------------------------------
(* Headers.  The fat pointer is the part that is parsed. *)

HeaderRead(bytes) ==
    {[bytes EXCEPT !.fat_pointer = pointer] : pointer \in Bft!FatPointerRead(bytes.fat_pointer)}

HeaderWrite(header) ==
    {[header EXCEPT !.fat_pointer = pointer] : pointer \in Bft!FatPointerWrite(header.fat_pointer)}

(* from_data hashes what write_data writes. *)
HeaderHash(header) == {Bft!Hash(bytes) : bytes \in HeaderWrite(header)}

----------------------------------------------------------------------------
(* Blocks. *)

IsCoinbase(tx) == \E b \in tx.transparent : IsCoinbaseBundle(b)
HasNullInput(tx) == \E b \in tx.transparent : \E i \in DOMAIN b.vin : b.vin[i].coin = NullCoin

(* Wallets sign what is not signed yet, and something is.  What miners put  *)
(* first has no previous output, unlike what wallets sign.  The widths of   *)
(* the wire hold what a header's fat pointer consists of.                   *)
ASSUME RelayAssumption ==
    /\ NetworkOf \in [Nodes -> Networks]
    /\ CallHeights \subseteq Heights
    /\ MaxSigned \in Nat /\ MaxMined \in Nat /\ MaxTxs \in Nat
    /\ COMMIT_FLAG \in Nat \ {0} /\ MaxSignatures \in Nat
    /\ \A plan \in Plans :
        /\ Unauthorized(plan) /\ WellFormed(plan.staking)
        /\ plan.sapling # {} \/ \E b \in plan.transparent : b.vin # <<>> /\ ~IsCoinbaseBundle(b)
    /\ \A coinbase \in Coinbases :
        /\ Len(coinbase) \in Nat /\ coinbase = [i \in 1 .. Len(coinbase) |-> coinbase[i]]
        /\ \A i \in DOMAIN coinbase :
            /\ IsTransaction(coinbase[i]) /\ WellFormed(coinbase[i].staking)
            /\ HasNullInput(coinbase[i])
    /\ \A start \in HeaderStarts :
        LET pointer == start.fat_pointer
        IN  /\ pointer = [block_hash |-> pointer.block_hash, height |-> pointer.height,
                          word |-> pointer.word, signatures |-> pointer.signatures]
            /\ pointer.word \in 0 .. Bft!MaxU32 /\ Len(pointer.signatures) \in 0 .. MaxSignatures

(* The first push of a coinbase script: <<>> is a script without one, and a *)
(* number outside Heights is not a block height.                            *)
CoinbaseScript(tx) == (CHOOSE b \in tx.transparent : IsCoinbaseBundle(b)).vin[1].script_sig
ClaimsHeight(tx) == CoinbaseScript(tx) # <<>> /\ CoinbaseScript(tx)[1] \in Heights
ClaimedHeight(tx) == CoinbaseScript(tx)[1]

BlockBranch(bytes, n) == BranchAt(n, ClaimedHeight(bytes.vtx[1]))

(* The checks of Block::read. *)
BlockReads(bytes, n) ==
    /\ HeaderRead(bytes.header) # {}
    /\ bytes.vtx # <<>>
    /\ \A i \in DOMAIN bytes.vtx : Readable(bytes.vtx[i])
    /\ IsCoinbase(bytes.vtx[1]) /\ bytes.vtx[1].sprout = {}
    /\ ClaimsHeight(bytes.vtx[1])
    /\ CommitsToBranch(bytes.vtx[1].version) => bytes.vtx[1].branch = BlockBranch(bytes, n)
    /\ \A i \in DOMAIN bytes.vtx : i > 1 => ~HasNullInput(bytes.vtx[i])

(* Mutant: every transaction keeps the branch that the coinbase was read with. *)
ReadInBlockAsSprout(bytes, i, b) ==
    IF i = 1 THEN FixConsensusBranchId(ReadTransaction(bytes, Sprout), b)
    ELSE ReadTransaction(bytes, Sprout)

(* The coinbase is read before the branch is known, and fixed. *)
ReadInBlock(bytes, i, b) ==
    IF i = 1 THEN FixConsensusBranchId(ReadTransaction(bytes, Sprout), b)
    ELSE ReadTransaction(bytes, b)

BlockRead(bytes, n) ==
    {[header |-> header, hash |-> HeaderHash(header),
      vtx |-> [i \in DOMAIN bytes.vtx |-> ReadInBlock(bytes.vtx[i], i, BlockBranch(bytes, n))],
      claimed_height |-> ClaimedHeight(bytes.vtx[1])]
        : header \in HeaderRead(bytes.header)}

BlockWrite(block) ==
    {[header |-> header, vtx |-> [i \in DOMAIN block.vtx |-> WriteTransaction(block.vtx[i])]]
        : header \in HeaderWrite(block.header)}

TxIds(vtx) == [i \in DOMAIN vtx |-> TxId(vtx[i])]

(* A miner's block; its merkle root commits to the transaction ids. *)
Mine(start, coinbase, txs) ==
    LET vtx == coinbase \o txs
    IN  /\ Cardinality(mined) < MaxMined
        /\ mined' = mined \union
            {[header |-> [version |-> start.version, solution |-> start.solution,
                          fat_pointer |-> start.fat_pointer, merkle_root |-> TxIds(vtx)],
              vtx |-> [i \in DOMAIN vtx |-> WriteTransaction(vtx[i])]]}
        /\ UNCHANGED <<signed, pool, chain, encoded, panicked>>

ReceiveBlock(n, bytes) ==
    /\ BlockReads(bytes, n)
    /\ chain' = [chain EXCEPT ![n] = @ \union BlockRead(bytes, n)]
    /\ UNCHANGED <<signed, pool, mined, encoded, panicked>>

----------------------------------------------------------------------------
(* EncodedPowHeader::from(&BlockHeader) writes the header and reads the     *)
(* bytes, and BlockHeader::from the other way round; both expect success.   *)
(* The version is one word to both.                                         *)

(* Mutant: the encoded header ends before the fat pointer's signatures. *)
ToEncodedWithoutSignatures(header) ==
    UNION {Bft!HeaderRead([bytes EXCEPT !.fat_pointer.signatures = <<>>]) : bytes \in HeaderWrite(header)}

ToEncoded(header) == UNION {Bft!HeaderRead(bytes) : bytes \in HeaderWrite(header)}
FromEncoded(bytes) == HeaderRead(bytes)

HandOver(n, block) ==
    /\ encoded' = [encoded EXCEPT ![n] = @ \union ToEncoded(block.header)]
    /\ panicked' = IF ToEncoded(block.header) = {} THEN panicked \union {n} ELSE panicked
    /\ UNCHANGED <<signed, pool, mined, chain>>

----------------------------------------------------------------------------
BlocksInFlight == mined \union UNION {UNION {BlockWrite(b) : b \in chain[m]} : m \in Nodes}

NodeStep(n) ==
    \/ \E plan \in Plans, h \in CallHeights : SignTransaction(n, plan, h)
    \/ \E m \in Nodes : \E tx \in pool[m], h \in CallHeights : RelayTransaction(n, tx, h)
    \/ \E start \in HeaderStarts, coinbase \in Coinbases :
        \E txs \in UNION {[1 .. k -> pool[n]] : k \in 0 .. MaxTxs} : Mine(start, coinbase, txs)
    \/ \E bytes \in BlocksInFlight : ReceiveBlock(n, bytes)
    \/ \E block \in chain[n] : HandOver(n, block)

Next == \E n \in Nodes \ panicked : NodeStep(n)

Spec == Init /\ [][Next]_vars

----------------------------------------------------------------------------
(* Properties.                                                              *)

(* Block::read and Block::write: however many nodes have passed a block on, *)
(* under whatever parameters, it has the bytes, the header hash and the     *)
(* transaction ids that its miner committed to, though each reader decides  *)
(* anew on the branch of its transactions.                                  *)
BlocksAreRelayedUnchanged ==
    \A n \in Nodes : \A block \in chain[n] :
        /\ BlockWrite(block) # {} /\ BlockWrite(block) \subseteq mined
        /\ block.hash = {Bft!Hash(bytes.header) : bytes \in BlockWrite(block)}
        /\ block.header.merkle_root = TxIds(block.vtx)

SignedAs(tx) == CHOOSE original \in signed : Serialised(original) = Serialised(tx)

(* Block::read: the signatures of a transaction up to version 4 verify      *)
(* exactly when the reader's parameters give the block's height the branch  *)
(* the wallet signed for, whatever branch was supplied on the way; those of *)
(* later versions always do, of whatever branch they are.                   *)
SignaturesFollowTheHeight ==
    \A n \in Nodes : \A block \in chain[n] : \A i \in DOMAIN block.vtx :
        LET tx == block.vtx[i]
        IN  i > 1 =>
            (SignaturesVerify(tx) <=>
                \/ CommitsToBranch(tx.version)
                \/ SignedAs(tx).branch = BranchAt(n, block.claimed_height))

(* The conversions between BlockHeader and EncodedPowHeader: an encoded     *)
(* header has the hash of a block the node accepted and converts back to    *)
(* its header, and the conversion panics only on a header that              *)
(* BlockHeader::read accepts and the BFT framing does not.                  *)
EncodedHeadersAgree ==
    /\ \A n \in Nodes : \A bytes \in encoded[n] : \E block \in chain[n] :
        /\ block.hash = {Bft!HeaderHash(bytes)}
        /\ FromEncoded(bytes) = {block.header}
    /\ \A n \in panicked : \E block \in chain[n] :
        block.header.version < Bft!MIN_HEADER_VERSION \/ block.header.solution = "wrong size"
=============================================================================
