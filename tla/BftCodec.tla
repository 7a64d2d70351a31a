------------------------------ MODULE BftCodec ------------------------------
(***************************************************************************)
(* The types of crates/bft_primitives: votes, fat pointers, BFT blocks and *)
(* the hard fork rules they carry, with what write puts on the wire, what  *)
(* read makes of it, and the checks of hashes and signatures.              *)
(*                                                                         *)
(* A wire is a record of the words that write emits, in the units of the   *)
(* code; lengths that a count announces are those of the sequences.  An    *)
(* operation that may fail yields a set: {} is the error.  An Option is    *)
(* likewise a set of at most one element.                                  *)
(***************************************************************************)
EXTENDS Integers, SequencesExt

CONSTANTS
    COMMIT_FLAG,               \* 2^31, the top bit of a round word
    MaxU64,                    \* u64::MAX
    MaxSignatures,             \* u16::MAX, the signatures a fat pointer can carry
    MAX_HEADER_COUNT,          \* the headers that BftBlock::read accepts
    MAX_HARDFORKS_PER_BLOCK,   \* u8::MAX
    MAX_TERMINATED_FINALIZERS  \* the finalizers that HardForkConfig::read accepts

ASSUME WidthsAssumption ==
    /\ COMMIT_FLAG \in Nat \ {0} /\ MaxU64 \in Nat /\ MaxSignatures \in Nat
    /\ MAX_HEADER_COUNT \in Nat /\ MAX_HARDFORKS_PER_BLOCK \in Nat
    /\ MAX_TERMINATED_FINALIZERS \in Nat

MaxU32 == 2 * COMMIT_FLAG - 1
Heights == 0 .. MaxU32
Rounds == 0 .. COMMIT_FLAG - 1
VoteKinds == {"Prevote", "Precommit"}
MIN_HEADER_VERSION == 4

(* Hashing is taken to be free of collisions, and no hash to be zero. *)
ZeroHash == <<>>
Hash(bytes) == <<bytes>>

----------------------------------------------------------------------------
(* Votes and signatures. *)

(* The round and the kind of a vote share a word. *)
RoundWord(kind, round) ==
    (round % COMMIT_FLAG) + (IF kind = "Precommit" THEN COMMIT_FLAG ELSE 0)

KindOfWord(word) == IF word >= COMMIT_FLAG THEN "Precommit" ELSE "Prevote"
RoundOfWord(word) == word % COMMIT_FLAG

(* A Nil vote is written with the zero hash. *)
HashOrZero(value) == IF value = {} THEN ZeroHash ELSE CHOOSE hash \in value : TRUE
ValueOf(hash) == IF hash = ZeroHash THEN {} ELSE {hash}

Vote(validator, value, height, kind, round) ==
    [validator |-> validator, value |-> value, height |-> height, kind |-> kind, round |-> round]

VoteToBytes(vote) ==
    [validator |-> vote.validator, value |-> HashOrZero(vote.value),
     height |-> vote.height, word |-> RoundWord(vote.kind, vote.round)]

VoteFromBytes(bytes) ==
    IF bytes.height > MaxU32 THEN {}
    ELSE {Vote(bytes.validator, ValueOf(bytes.value), bytes.height,
               KindOfWord(bytes.word), RoundOfWord(bytes.word))}

(* A signature verifies for the key, the bytes and the namespace that it    *)
(* was made with and for nothing else.  The namespace is appended to the    *)
(* bytes, whose length is fixed, so it cannot be taken for a part of them.  *)
Signature(key, bytes, namespace) == [by |-> key, over |-> bytes, namespace |-> namespace]

VerifyWithNamespace(signature, key, bytes, namespace) ==
    signature = Signature(key, bytes, namespace)

SignedVoteVerify(vote, signature, namespace) ==
    VerifyWithNamespace(signature, vote.validator, VoteToBytes(vote), namespace)

----------------------------------------------------------------------------
(* Fat pointers. *)

FatPointer(block_hash, height, round, kind, signatures) ==
    [block_hash |-> block_hash, height |-> height, round |-> round, kind |-> kind,
     signatures |-> signatures]

(* Mutant: the round of the votes is not kept. *)
FatPointerAtRoundZero(block_hash, height, round, signatures) ==
    FatPointer(block_hash, height, 0, "Precommit", signatures)

FatPointerFromParts(block_hash, height, round, signatures) ==
    FatPointer(block_hash, height, round, "Precommit", signatures)

NullFatPointer == FatPointer(ZeroHash, 0, 0, "Prevote", <<>>)

(* Each entry attests to the vote that the prefix, with its key, describes. *)
InflateEntry(pointer, entry) ==
    Vote(entry.pub_key, ValueOf(pointer.block_hash), pointer.height, pointer.kind, pointer.round)

(* Mutant: the namespace is left out of the signed bytes. *)
VerifySignaturesOfAnyNamespace(pointer, namespace) ==
    \A entry \in ToSet(pointer.signatures) :
        VerifyWithNamespace(entry.signature, entry.pub_key,
                            VoteToBytes(InflateEntry(pointer, entry)), entry.signature.namespace)

VerifySignatures(pointer, namespace) ==
    \A entry \in ToSet(pointer.signatures) :
        VerifyWithNamespace(entry.signature, entry.pub_key,
                            VoteToBytes(InflateEntry(pointer, entry)), namespace)

(* Mutant: the commit bit is always set. *)
FatPointerWritePrecommit(pointer) ==
    IF Len(pointer.signatures) > MaxSignatures THEN {}
    ELSE {[block_hash |-> pointer.block_hash, height |-> pointer.height,
           word |-> RoundWord("Precommit", pointer.round), signatures |-> pointer.signatures]}

FatPointerWrite(pointer) ==
    IF Len(pointer.signatures) > MaxSignatures THEN {}
    ELSE {[block_hash |-> pointer.block_hash, height |-> pointer.height,
           word |-> RoundWord(pointer.kind, pointer.round), signatures |-> pointer.signatures]}

FatPointerRead(wire) ==
    IF wire.height > MaxU32 THEN {}
    ELSE {FatPointer(wire.block_hash, wire.height, RoundOfWord(wire.word),
                     KindOfWord(wire.word), wire.signatures)}

----------------------------------------------------------------------------
(* Hard fork rules.  A key is its position in the order of key bytes. *)

HardForkConfig(pow_activation_height, bft_certificate_height, terminated_finalizers) ==
    [pow_activation_height |-> pow_activation_height,
     bft_certificate_height |-> bft_certificate_height,
     terminated_finalizers |-> terminated_finalizers]

Increasing(S) ==
    CHOOSE s \in [1 .. Cardinality(S) -> S] : \A i, j \in DOMAIN s : i < j => s[i] < s[j]

(* Mutant: the list is kept in the order it came in. *)
HardForkNewUnsorted(pow, bft, finalizers) ==
    IF finalizers = <<>> \/ ~IsInjective(finalizers) THEN {}
    ELSE {HardForkConfig(pow, bft, finalizers)}

HardForkNew(pow, bft, finalizers) ==
    IF finalizers = <<>> \/ ~IsInjective(finalizers) THEN {}
    ELSE {HardForkConfig(pow, bft, Increasing(ToSet(finalizers)))}

(* write converts the count to a u32, which no list in memory exceeds; the  *)
(* heights are widened from u32.                                            *)
HardForkReadable(rule) ==
    /\ rule.pow_activation_height <= MaxU32
    /\ rule.bft_certificate_height <= MaxU32
    /\ Len(rule.terminated_finalizers) <= MAX_TERMINATED_FINALIZERS

----------------------------------------------------------------------------
(* Proof-of-work headers are kept as their bytes.  The build has the        *)
(* crosslink flag, so each ends with a fat pointer, which is read and       *)
(* written again.                                                           *)

Header(version, prev, nonce, solution, pointer) ==
    [version |-> version, prev |-> prev, nonce |-> nonce, solution |-> solution,
     fat_pointer |-> pointer]

(* The bytes of a header, whatever they say. *)
IsHeader(header) ==
    LET pointer == header.fat_pointer
    IN  /\ header = Header(header.version, header.prev, header.nonce, header.solution, pointer)
        /\ pointer = [block_hash |-> pointer.block_hash, height |-> pointer.height,
                      word |-> pointer.word, signatures |-> pointer.signatures]
        /\ pointer.word \in 0 .. MaxU32

HeaderHash(header) == Hash(header)

HeaderRead(wire) ==
    IF wire.version < MIN_HEADER_VERSION \/ wire.solution = "wrong size" THEN {}
    ELSE {[wire EXCEPT !.fat_pointer = rewritten] :
              rewritten \in UNION {FatPointerWrite(p) : p \in FatPointerRead(wire.fat_pointer)}}

(* Equihash is external: a header says whether its solution is valid. *)
CheckPow(header) == header.solution = "valid"

ParametersNew(sigma, gap) ==
    IF sigma = 0 \/ gap < (2 * sigma) % (MaxU64 + 1) THEN {}
    ELSE {[sigma |-> sigma, gap |-> gap]}

CheckHeaders(params, headers) ==
    /\ Len(headers) = params.sigma
    /\ \A i \in DOMAIN headers : headers[i].version >= MIN_HEADER_VERSION
    /\ \A i \in DOMAIN headers : i > 1 => headers[i].prev = HeaderHash(headers[i - 1])
    /\ \A i \in DOMAIN headers : CheckPow(headers[i])

----------------------------------------------------------------------------
(* BFT blocks.  A version 1 block has no rules and the bound 0, which is    *)
(* what the accessors of the code answer for it.  The dead slot of the      *)
(* layout, written as 0 and ignored by read, is left out.                   *)

Block(version, hardforks, bound, height, previous, headers) ==
    [version |-> version, hardforks |-> hardforks, bound |-> bound, height |-> height,
     previous |-> previous, headers |-> headers]

(* BftBlockV2Data::new and BftBlock::new. *)
BlockNew(params, version, hardforks, bound, height, previous, headers) ==
    IF \/ version < 2 /\ <<hardforks, bound>> # <<<<>>, 0>>
       \/ Len(hardforks) > MAX_HARDFORKS_PER_BLOCK
       \/ ~CheckHeaders(params, headers)
    THEN {}
    ELSE {Block(version, hardforks, bound, height, previous, headers)}

(* Version 1 writes a height that counts from 1. *)
BlockWrite(block) ==
    IF \/ block.version = 1 /\ block.height = MaxU32
       \/ Len(block.hardforks) > MAX_HARDFORKS_PER_BLOCK
    THEN {}
    ELSE {[block EXCEPT !.height = IF block.version = 1 THEN @ + 1 ELSE @,
                        !.previous = previous] : previous \in FatPointerWrite(block.previous)}

(* Mutant: the height of version 1 is not normalised. *)
BlockReadRawHeight(wire) ==
    IF \/ wire.version = 0
       \/ Len(wire.headers) > MAX_HEADER_COUNT
       \/ \E i \in DOMAIN wire.headers : HeaderRead(wire.headers[i]) = {}
       \/ \E rule \in ToSet(wire.hardforks) : ~HardForkReadable(rule)
       \/ wire.bound > MaxU32
    THEN {}
    ELSE {[wire EXCEPT !.previous = previous,
                       !.headers = [i \in DOMAIN @ |-> CHOOSE h \in HeaderRead(@[i]) : TRUE]]
             : previous \in FatPointerRead(wire.previous)}

BlockRead(wire) ==
    IF \/ wire.version = 0
       \/ wire.version = 1 /\ wire.height = 0
       \/ Len(wire.headers) > MAX_HEADER_COUNT
       \/ \E i \in DOMAIN wire.headers : HeaderRead(wire.headers[i]) = {}
       \/ \E rule \in ToSet(wire.hardforks) : ~HardForkReadable(rule)
       \/ wire.bound > MaxU32
    THEN {}
    ELSE {[wire EXCEPT !.height = IF wire.version = 1 THEN @ - 1 ELSE @,
                       !.previous = previous,
                       !.headers = [i \in DOMAIN @ |-> CHOOSE h \in HeaderRead(@[i]) : TRUE]]
             : previous \in FatPointerRead(wire.previous)}

(* The hash that finalizers sign is that of the bytes. *)
BlockHash(block) == {Hash(wire) : wire \in BlockWrite(block)}

----------------------------------------------------------------------------
(* Notarized blocks. *)

NotarizedFromParts(block, height, round, signatures) ==
    {[block |-> block, fat_ptr |-> FatPointerFromParts(hash, height, round, signatures)]
        : hash \in BlockHash(block)}

NotarizedWrite(notarized) ==
    {[block |-> block, fat_ptr |-> pointer] :
        block \in BlockWrite(notarized.block), pointer \in FatPointerWrite(notarized.fat_ptr)}

NotarizedRead(wire) ==
    {[block |-> block, fat_ptr |-> pointer] :
        block \in BlockRead(wire.block), pointer \in FatPointerRead(wire.fat_ptr)}
=============================================================================
