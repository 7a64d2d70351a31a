-------------------------- MODULE BlockRelayProofs --------------------------
(***************************************************************************)
(* Blocks pass from node to node unchanged, and what their transactions'   *)
(* signatures are worth at a node follows from the height of the block,    *)
(* for any number of nodes, networks, transactions and blocks.             *)
(***************************************************************************)
EXTENDS BlockRelay, OperatorProofs

----------------------------------------------------------------------------
(* Staking actions: tags and fields tell each other apart. *)

LEMMA KindsAreDistinct ==
    \A t, u \in DOMAIN Kinds : Kinds[t] = Kinds[u] => t = u
BY DEF Kinds

LEMMA FieldsAreDistinct ==
    ASSUME NEW tag \in DOMAIN Kinds
    PROVE  \A i, j \in DOMAIN Bodies[tag] : Bodies[tag][i] = Bodies[tag][j] => i = j
<1>1. tag \in 1 .. 7
    BY DEF Kinds
<1>2. CASE tag = 1
    BY <1>2 DEF Bodies, CreateNewDelegationBond
<1>3. CASE tag = 2
    BY <1>3 DEF Bodies, BeginDelegationUnbonding
<1>4. CASE tag = 3
    BY <1>4 DEF Bodies, WithdrawDelegationBond
<1>5. CASE tag = 4
    BY <1>5 DEF Bodies, RetargetDelegationBond
<1>6. CASE tag = 5
    BY <1>6 DEF Bodies, RegisterFinalizer
<1>7. CASE tag = 6
    BY <1>7 DEF Bodies, ConvertFinalizerRewardToDelegationBond
<1>8. CASE tag = 7
    BY <1>8 DEF Bodies, UpdateFinalizerKey
<1> QED BY <1>1, <1>2, <1>3, <1>4, <1>5, <1>6, <1>7, <1>8

(* write_fields and read_fields agree on the order of the fields. *)
LEMMA StakingRoundTrip ==
    ASSUME NEW option, WellFormed(option)
    PROVE  ReadStaking(WriteStaking(option)) = {option}
<1>1. CASE option = {}
    BY <1>1 DEF WriteStaking, ReadStaking
<1>2. CASE option # {}
    <2>1. PICK a \in option : TRUE
        BY <1>2
    <2>2. option = {a}
        BY <2>1 DEF WellFormed
    <2>3. PICK tag \in DOMAIN Kinds :
            /\ a.kind = Kinds[tag]
            /\ a = [kind |-> Kinds[tag], fields |-> [f \in FieldsOf(tag) |-> a.fields[f]]]
            /\ "amount" \in FieldsOf(tag) => a.fields["amount"] \in Zatoshis
        BY <2>2 DEF WellFormed
    <2>4. (CHOOSE action \in option : TRUE) = a
        BY <2>2
    <2>5. TagOf(a.kind) = tag
        BY <2>3, KindsAreDistinct DEF TagOf
    <2> DEFINE B == Bodies[tag]
               body == [i \in DOMAIN B |-> a.fields[B[i]]]
    <2>6. WriteStaking(option) = [tag |-> tag, body |-> body]
        BY <1>2, <2>4, <2>5 DEF WriteStaking, WriteBody
    <2>7. tag # TAG_ABSENT
        BY DEF Kinds, TAG_ABSENT
    <2> DEFINE position(f) == CHOOSE i \in DOMAIN B : B[i] = f
               fields == [f \in FieldsOf(tag) |-> body[position(f)]]
    <2>8. \A f \in FieldsOf(tag) : position(f) \in DOMAIN B /\ B[position(f)] = f
        BY DEF FieldsOf
    <2>9. \A f \in FieldsOf(tag) : body[position(f)] = a.fields[f]
        BY <2>8
    <2>10. fields = a.fields
        <3>1. a.fields = [f \in FieldsOf(tag) |-> a.fields[f]]
            <4> DEFINE g == [f \in FieldsOf(tag) |-> a.fields[f]]
            <4>1. a = [kind |-> Kinds[tag], fields |-> g]
                BY <2>3
            <4> HIDE DEF g
            <4>2. a.fields = g
                BY <4>1
            <4> QED BY <4>2 DEF g
        <3> QED BY <2>9, <3>1
    <2>11. ReadFields(tag, body) = {[kind |-> Kinds[tag], fields |-> fields]}
        <3>1. ReadFields(tag, body)
                = IF "amount" \in FieldsOf(tag) /\ fields["amount"] \notin Zatoshis THEN {}
                  ELSE {[kind |-> Kinds[tag], fields |-> fields]}
            BY DEF ReadFields
        <3> HIDE DEF fields
        <3> QED BY <2>3, <2>10, <3>1
    <2>12. ReadFields(tag, body) = {a}
        <3> HIDE DEF fields, body
        <3>1. PICK k, g : a = [kind |-> k, fields |-> g]
            BY <2>3
        <3>2. k = Kinds[tag] /\ g = a.fields
            BY <2>3, <3>1
        <3> QED BY <2>10, <2>11, <3>1, <3>2
    <2> HIDE DEF body
    <2>13. ReadStaking(WriteStaking(option)) = {{action} : action \in ReadFields(tag, body)}
        BY <2>6, <2>7 DEF ReadStaking
    <2> QED BY <2>2, <2>12, <2>13
<1> QED BY <1>1, <1>2

----------------------------------------------------------------------------
(* Transactions.  A branch and a staking action in place of the others. *)
With(t, b, staking) ==
    [version |-> t.version, branch |-> b, expiry |-> t.expiry, transparent |-> t.transparent,
     sprout |-> t.sprout, sapling |-> t.sapling, orchard |-> t.orchard, ironwood |-> t.ironwood,
     staking |-> staking]

LEMMA WithFields ==
    ASSUME NEW t, NEW b, NEW s
    PROVE  /\ IsTransaction(With(t, b, s))
           /\ With(t, b, s).version = t.version /\ With(t, b, s).branch = b
           /\ With(t, b, s).staking = s /\ With(t, b, s).transparent = t.transparent
           /\ With(t, b, s).sapling = t.sapling /\ With(t, b, s).orchard = t.orchard
           /\ With(t, b, s).ironwood = t.ironwood
BY DEF With, IsTransaction

LEMMA WithTwice ==
    ASSUME NEW t, NEW b, NEW s, NEW c, NEW r
    PROVE  With(With(t, b, s), c, r) = With(t, c, r)
BY DEF With

LEMMA WithBranch ==
    ASSUME NEW t, NEW b, NEW s, NEW c
    PROVE  [With(t, b, s) EXCEPT !.branch = c] = With(t, c, s)
BY DEF With

LEMMA WithStaking ==
    ASSUME NEW t, NEW b, NEW s, NEW r
    PROVE  [With(t, b, s) EXCEPT !.staking = r] = With(t, b, r)
BY DEF With

LEMMA WithItsOwn ==
    ASSUME NEW t, IsTransaction(t)
    PROVE  t = With(t, t.branch, t.staking)
BY DEF IsTransaction, With

(* What a reader makes of written bytes. *)
Reread(t, b) == With(t, IF CommitsToBranch(t.version) THEN t.branch ELSE b, t.staking)

OnWire(t) == IF CommitsToBranch(t.version) THEN t.branch ELSE NotOnWire

LEMMA TransactionOnWire ==
    ASSUME NEW t, IsTransaction(t)
    PROVE  /\ Serialised(t) = With(t, OnWire(t), t.staking)
           /\ WriteTransaction(t) = With(t, OnWire(t), WriteStaking(t.staking))
<1>1. t = With(t, t.branch, t.staking)
    BY WithItsOwn
<1>2. Serialised(t) = [t EXCEPT !.branch = OnWire(t)]
    BY DEF Serialised, OnWire
<1>3. [With(t, t.branch, t.staking) EXCEPT !.branch = OnWire(t)] = With(t, OnWire(t), t.staking)
    BY WithBranch
<1>4. Serialised(t) = With(t, OnWire(t), t.staking)
    BY <1>1, <1>2, <1>3, Zenon
<1> DEFINE u == Serialised(t)
<1>5. WriteTransaction(t) = [u EXCEPT !.staking = WriteStaking(u.staking)]
    BY DEF WriteTransaction
<1> HIDE DEF u
<1>6. u = With(t, OnWire(t), t.staking)
    BY <1>4 DEF u
<1>7. u.staking = t.staking
    BY <1>6, WithFields
<1>8. [u EXCEPT !.staking = WriteStaking(t.staking)] = With(t, OnWire(t), WriteStaking(t.staking))
    BY <1>6, WithStaking
<1> QED BY <1>4, <1>5, <1>7, <1>8

LEMMA RereadTransaction ==
    ASSUME NEW t, IsTransaction(t), WellFormed(t.staking), NEW b
    PROVE  ReadTransaction(WriteTransaction(t), b) = Reread(t, b)
<1> DEFINE wire == WriteTransaction(t)
           staking == WriteStaking(t.staking)
           c == IF CommitsToBranch(t.version) THEN t.branch ELSE b
<1>1. wire = With(t, OnWire(t), staking)
    BY TransactionOnWire
<1>2. (CHOOSE option \in ReadStaking(staking) : TRUE) = t.staking
    <2>1. ReadStaking(staking) = {t.staking}
        BY StakingRoundTrip
    <2> QED BY <2>1
<1> HIDE DEF wire, staking
<1>3. wire.version = t.version /\ wire.branch = OnWire(t) /\ wire.staking = staking
    BY <1>1, WithFields
<1>4. (IF CommitsToBranch(wire.version) THEN wire.branch ELSE b) = c
    BY <1>3 DEF OnWire
<1>5. ReadTransaction(wire, b)
        = [wire EXCEPT !.branch = IF CommitsToBranch(wire.version) THEN wire.branch ELSE b,
                       !.staking = CHOOSE option \in ReadStaking(wire.staking) : TRUE]
    BY DEF ReadTransaction
<1> DEFINE x == IF CommitsToBranch(wire.version) THEN wire.branch ELSE b
           y == CHOOSE option \in ReadStaking(wire.staking) : TRUE
<1>6. x = c /\ y = t.staking
    BY <1>2, <1>3, <1>4
<1>7. ReadTransaction(wire, b) = [wire EXCEPT !.branch = x, !.staking = y]
    BY <1>5
<1> HIDE DEF x, y, c
<1>8. [wire EXCEPT !.branch = x, !.staking = y] = With(t, x, y)
    <2> DEFINE u == [wire EXCEPT !.branch = x]
    <2>1. [wire EXCEPT !.branch = x, !.staking = y] = [u EXCEPT !.staking = y]
        BY Zenon
    <2>2. u = With(t, x, staking)
        BY <1>1, WithBranch
    <2> HIDE DEF u
    <2>3. [u EXCEPT !.staking = y] = With(t, x, y)
        BY <2>2, WithStaking
    <2> QED BY <2>1, <2>3, Zenon
<1>9. ReadTransaction(wire, b) = With(t, c, t.staking)
    BY <1>6, <1>7, <1>8
<1> QED BY <1>9 DEF wire, c, Reread

(* A transaction keeps its bytes and its id, whatever branch it is read for. *)
LEMMA RereadKeepsBytes ==
    ASSUME NEW t, IsTransaction(t), NEW b
    PROVE  /\ IsTransaction(Reread(t, b))
           /\ Serialised(Reread(t, b)) = Serialised(t)
           /\ WriteTransaction(Reread(t, b)) = WriteTransaction(t)
           /\ TxId(Reread(t, b)) = TxId(t)
           /\ Reread(t, b).staking = t.staking /\ Reread(t, b).version = t.version
           /\ Reread(t, b).branch = IF CommitsToBranch(t.version) THEN t.branch ELSE b
           /\ \A c : Reread(Reread(t, b), c) = Reread(t, c)
<1> DEFINE x == IF CommitsToBranch(t.version) THEN t.branch ELSE b
           u == With(t, x, t.staking)
<1>1. IsTransaction(u) /\ u.version = t.version /\ u.branch = x /\ u.staking = t.staking
    BY WithFields
<1>2. OnWire(u) = OnWire(t)
    <2> HIDE DEF u
    <2> QED BY <1>1 DEF OnWire
<1>3. \A c, s : With(u, c, s) = With(t, c, s)
    BY WithTwice
<1> HIDE DEF u
<1>4. Serialised(u) = Serialised(t) /\ WriteTransaction(u) = WriteTransaction(t)
    BY <1>1, <1>2, <1>3, TransactionOnWire
<1>5. TxId(u) = TxId(t)
    <2>1. CASE CommitsToBranch(t.version)
        BY <2>1, WithItsOwn DEF u
    <2>2. CASE ~CommitsToBranch(t.version)
        BY <1>1, <1>4, <2>2 DEF TxId
    <2> QED BY <2>1, <2>2
<1>6. \A c : Reread(u, c) = Reread(t, c)
    BY <1>1, <1>3 DEF Reread
<1>7. Reread(t, b) = u
    BY DEF Reread, u
<1> QED BY <1>1, <1>4, <1>5, <1>6, <1>7

LEMMA RereadInBlock ==
    ASSUME NEW t, IsTransaction(t), WellFormed(t.staking), NEW b, NEW i
    PROVE  ReadInBlock(WriteTransaction(t), i, b) = Reread(t, b)
<1>1. CASE i = 1
    <2> DEFINE r == Reread(t, Sprout)
               c == IF CommitsToBranch(r.version) THEN r.branch ELSE b
    <2>1. ReadInBlock(WriteTransaction(t), i, b) = FixConsensusBranchId(r, b)
        BY <1>1, RereadTransaction DEF ReadInBlock
    <2>2. IsTransaction(r) /\ Reread(r, b) = Reread(t, b)
        BY RereadKeepsBytes
    <2> HIDE DEF r
    <2>3. FixConsensusBranchId(r, b) = [r EXCEPT !.branch = c]
        BY DEF FixConsensusBranchId
    <2>4. r = With(r, r.branch, r.staking)
        BY <2>2, WithItsOwn
    <2>5. [With(r, r.branch, r.staking) EXCEPT !.branch = c] = With(r, c, r.staking)
        BY WithBranch
    <2>6. FixConsensusBranchId(r, b) = With(r, c, r.staking)
        <3> HIDE DEF c
        <3> QED BY <2>3, <2>4, <2>5, Zenon
    <2> QED BY <2>1, <2>2, <2>6 DEF Reread
<1>2. CASE i # 1
    BY <1>2, RereadTransaction DEF ReadInBlock
<1> QED BY <1>1, <1>2

----------------------------------------------------------------------------
(* Headers.  The round word of a fat pointer is read and written as it is. *)
LEMMA WordsReadBack ==
    ASSUME NEW word \in 0 .. Bft!MaxU32
    PROVE  Bft!RoundWord(Bft!KindOfWord(word), Bft!RoundOfWord(word)) = word
<1>1. COMMIT_FLAG \in Nat \ {0} /\ word \in Nat /\ word <= 2 * COMMIT_FLAG - 1
    BY RelayAssumption DEF Bft!MaxU32
<1>2. CASE word >= COMMIT_FLAG
    <2>1. word % COMMIT_FLAG = word - COMMIT_FLAG
        BY <1>1, <1>2
    <2>2. (word % COMMIT_FLAG) % COMMIT_FLAG = word - COMMIT_FLAG
        BY <1>1, <1>2, <2>1
    <2> QED BY <1>1, <1>2, <2>2 DEF Bft!RoundWord, Bft!KindOfWord, Bft!RoundOfWord
<1>3. CASE word < COMMIT_FLAG
    <2>1. word % COMMIT_FLAG = word
        BY <1>1, <1>3
    <2> QED BY <1>1, <1>3, <2>1 DEF Bft!RoundWord, Bft!KindOfWord, Bft!RoundOfWord
<1> QED BY <1>1, <1>2, <1>3

(* The fat pointers that headers carry on the wire. *)
OnWirePointer(pointer) ==
    /\ pointer = [block_hash |-> pointer.block_hash, height |-> pointer.height,
                  word |-> pointer.word, signatures |-> pointer.signatures]
    /\ pointer.word \in 0 .. Bft!MaxU32 /\ Len(pointer.signatures) \in 0 .. MaxSignatures

LEMMA PointerRoundTrip ==
    ASSUME NEW pointer, OnWirePointer(pointer)
    PROVE  \/ Bft!FatPointerRead(pointer) = {} /\ pointer.height > Bft!MaxU32
           \/ \E read : /\ Bft!FatPointerRead(pointer) = {read}
                        /\ Bft!FatPointerWrite(read) = {pointer}
<1>1. CASE pointer.height > Bft!MaxU32
    BY <1>1 DEF Bft!FatPointerRead
<1>2. CASE ~(pointer.height > Bft!MaxU32)
    <2> DEFINE read == Bft!FatPointer(pointer.block_hash, pointer.height,
                           Bft!RoundOfWord(pointer.word), Bft!KindOfWord(pointer.word),
                           pointer.signatures)
    <2>1. Bft!FatPointerRead(pointer) = {read}
        BY <1>2 DEF Bft!FatPointerRead
    <2>2. /\ read.block_hash = pointer.block_hash /\ read.height = pointer.height
          /\ read.signatures = pointer.signatures
          /\ Bft!RoundWord(read.kind, read.round) = pointer.word
        BY WordsReadBack DEF Bft!FatPointer, OnWirePointer
    <2> HIDE DEF read
    <2>3. ~(Len(read.signatures) > MaxSignatures)
        BY <2>2, RelayAssumption DEF OnWirePointer
    <2>4. Bft!FatPointerWrite(read) = {[block_hash |-> pointer.block_hash, height |-> pointer.height,
                                        word |-> pointer.word, signatures |-> pointer.signatures]}
        BY <2>2, <2>3 DEF Bft!FatPointerWrite
    <2>5. Bft!FatPointerWrite(read) = {pointer}
        BY <2>4 DEF OnWirePointer
    <2> QED BY <2>1, <2>5
<1> QED BY <1>1, <1>2

HeaderOf(start, pointer, root) ==
    [version |-> start.version, solution |-> start.solution, fat_pointer |-> pointer,
     merkle_root |-> root]

LEMMA HeaderFields ==
    ASSUME NEW start, NEW p, NEW root
    PROVE  /\ HeaderOf(start, p, root).version = start.version
           /\ HeaderOf(start, p, root).solution = start.solution
           /\ HeaderOf(start, p, root).fat_pointer = p
           /\ HeaderOf(start, p, root).merkle_root = root
           /\ \A q : [HeaderOf(start, p, root) EXCEPT !.fat_pointer = q] = HeaderOf(start, q, root)
BY DEF HeaderOf

(* BlockHeader::read and EncodedPowHeader::read take the same bytes apart,   *)
(* and write puts them together again; only the framing of the latter may    *)
(* refuse what the former accepts.                                           *)
LEMMA HeaderRoundTrip ==
    ASSUME NEW start \in HeaderStarts, NEW root, NEW header,
           header \in HeaderRead(HeaderOf(start, start.fat_pointer, root))
    PROVE  /\ HeaderRead(HeaderOf(start, start.fat_pointer, root)) = {header}
           /\ HeaderWrite(header) = {HeaderOf(start, start.fat_pointer, root)}
           /\ header.merkle_root = root
           /\ header.version = start.version /\ header.solution = start.solution
           /\ \/ Bft!HeaderRead(HeaderOf(start, start.fat_pointer, root))
                    = {HeaderOf(start, start.fat_pointer, root)}
              \/ start.version < Bft!MIN_HEADER_VERSION \/ start.solution = "wrong size"
<1> DEFINE pointer == start.fat_pointer
           wire == HeaderOf(start, pointer, root)
<1>1. OnWirePointer(pointer)
    BY RelayAssumption DEF OnWirePointer
<1>2. /\ wire.version = start.version /\ wire.solution = start.solution
      /\ wire.fat_pointer = pointer
      /\ \A q : [wire EXCEPT !.fat_pointer = q] = HeaderOf(start, q, root)
    BY HeaderFields
<1> HIDE DEF wire, pointer
<1>3. PICK read : Bft!FatPointerRead(pointer) = {read} /\ Bft!FatPointerWrite(read) = {pointer}
    <2>1. Bft!FatPointerRead(pointer) # {}
        BY <1>2 DEF HeaderRead, wire, pointer
    <2> QED BY <1>1, <2>1, PointerRoundTrip
<1> DEFINE parsed == HeaderOf(start, read, root)
<1>4. HeaderRead(wire) = {parsed}
    BY <1>2, <1>3 DEF HeaderRead
<1>5. header = parsed
    BY <1>4 DEF wire, pointer
<1>6. /\ parsed.version = start.version /\ parsed.solution = start.solution
      /\ parsed.fat_pointer = read /\ parsed.merkle_root = root
      /\ \A q : [parsed EXCEPT !.fat_pointer = q] = HeaderOf(start, q, root)
    BY HeaderFields
<1> HIDE DEF parsed
<1>7. HeaderWrite(parsed) = {wire}
    BY <1>3, <1>6 DEF HeaderWrite, wire
<1>8. \/ Bft!HeaderRead(wire) = {wire}
      \/ start.version < Bft!MIN_HEADER_VERSION \/ start.solution = "wrong size"
    <2>1. UNION {Bft!FatPointerWrite(p) : p \in Bft!FatPointerRead(wire.fat_pointer)} = {pointer}
        BY <1>2, <1>3
    <2>2. [wire EXCEPT !.fat_pointer = pointer] = wire
        BY <1>2 DEF wire
    <2> DEFINE R == UNION {Bft!FatPointerWrite(p) : p \in Bft!FatPointerRead(wire.fat_pointer)}
    <2>3. Bft!HeaderRead(wire)
            = IF wire.version < Bft!MIN_HEADER_VERSION \/ wire.solution = "wrong size" THEN {}
              ELSE {[wire EXCEPT !.fat_pointer = rewritten] : rewritten \in R}
        BY DEF Bft!HeaderRead
    <2>4. R = {pointer}
        BY <2>1
    <2> HIDE DEF R
    <2>5. {[wire EXCEPT !.fat_pointer = rewritten] : rewritten \in R} = {wire}
        BY <2>2, <2>4
    <2> QED BY <1>2, <2>3, <2>5
<1> QED BY <1>4, <1>5, <1>6, <1>7, <1>8 DEF wire, pointer

----------------------------------------------------------------------------
(* Signatures.  A hash is never empty, and that of a version which does not  *)
(* commit to its branch starts with the branch.                              *)
LEMMA SigHashIsSomething ==
    ASSUME NEW t, NEW input
    PROVE  /\ SigHash(t, input) # Unsigned
           /\ ~CommitsToBranch(t.version) => SigHash(t, input)[1] = t.branch
<1>1. CASE t.version = "V6"
    BY <1>1 DEF SigHash, SignatureHash, V6SignatureHash, ToHashV6, Unsigned, CommitsToBranch
<1>2. CASE t.version \in {"V5", "VCrosslink"}
    BY <1>2 DEF SigHash, SignatureHash, V5SignatureHash, ToHash, Unsigned, CommitsToBranch
<1>3. CASE ~CommitsToBranch(t.version)
    BY <1>3 DEF SigHash, SignatureHash, V4SignatureHash, Unsigned, CommitsToBranch
<1> QED BY <1>1, <1>2, <1>3 DEF CommitsToBranch

BearsSignature(t) ==
    \/ \E b \in t.sapling : b.sigs # Unsigned
    \/ \E b \in t.transparent : \E i \in DOMAIN b.vin : b.vin[i].script_sig # Unsigned

(* Two transactions of the same bytes differ at most in their branch. *)
LEMMA SameBytes ==
    ASSUME NEW o, NEW t, IsTransaction(o), IsTransaction(t), Serialised(o) = Serialised(t)
    PROVE  /\ t = With(o, t.branch, o.staking) /\ t.version = o.version /\ t.staking = o.staking
           /\ CommitsToBranch(t.version) => t = o
<1>1. With(t, OnWire(t), t.staking) = With(o, OnWire(o), o.staking)
    BY TransactionOnWire
<1> DEFINE w == With(t, OnWire(t), t.staking)
<1>2. t.version = o.version /\ t.staking = o.staking /\ OnWire(t) = OnWire(o)
    <2>1. w.version = t.version /\ w.branch = OnWire(t) /\ w.staking = t.staking
        BY WithFields
    <2>2. w = With(o, OnWire(o), o.staking)
        BY <1>1
    <2> HIDE DEF w
    <2>3. w.version = o.version /\ w.branch = OnWire(o) /\ w.staking = o.staking
        BY <2>2, WithFields
    <2> QED BY <2>1, <2>3
<1>3. With(t, t.branch, t.staking) = With(o, t.branch, t.staking)
    <2>1. With(w, t.branch, t.staking) = With(t, t.branch, t.staking)
        BY WithTwice
    <2>2. With(With(o, OnWire(o), o.staking), t.branch, t.staking) = With(o, t.branch, t.staking)
        BY WithTwice
    <2> QED BY <1>1, <2>1, <2>2
<1>4. t = With(t, t.branch, t.staking) /\ o = With(o, o.branch, o.staking)
    BY WithItsOwn
<1>5. t = With(o, t.branch, o.staking)
    BY <1>2, <1>3, <1>4
<1>6. CommitsToBranch(t.version) => t.branch = o.branch
    BY <1>2 DEF OnWire
<1> QED BY <1>2, <1>4, <1>5, <1>6

(* A signature up to version 4 is worth something under its own branch only. *)
LEMMA SignaturesNameTheBranch ==
    ASSUME NEW o, IsTransaction(o), ~CommitsToBranch(o.version), SignaturesVerify(o),
           BearsSignature(o), NEW t, t = With(o, t.branch, o.staking)
    PROVE  SignaturesVerify(t) <=> o.branch = t.branch
<1>1. /\ t.version = o.version /\ t.transparent = o.transparent /\ t.sapling = o.sapling
    BY WithFields
<1>2. ASSUME o.branch = t.branch PROVE SignaturesVerify(t)
    BY <1>2, WithItsOwn
<1>3. ASSUME SignaturesVerify(t) PROVE o.branch = t.branch
    <2>1. CASE \E b \in o.sapling : b.sigs # Unsigned
        <3>1. PICK b \in o.sapling : b.sigs # Unsigned
            BY <2>1
        <3>2. b.sigs = SigHash(o, Shielded) /\ b.sigs = SigHash(t, Shielded)
            BY <1>1, <1>3, <3>1 DEF SignaturesVerify, Verifies
        <3> QED BY <1>1, <3>2, SigHashIsSomething
    <2>2. CASE \E b \in o.transparent : \E i \in DOMAIN b.vin : b.vin[i].script_sig # Unsigned
        <3>1. PICK b \in o.transparent : \E i \in DOMAIN b.vin : b.vin[i].script_sig # Unsigned
            BY <2>2
        <3>2. PICK i \in DOMAIN b.vin : b.vin[i].script_sig # Unsigned
            BY <3>1
        <3> DEFINE input == TransparentInput(i, SIGHASH_ALL)
        <3>3. b.vin[i].script_sig = SigHash(o, input) /\ b.vin[i].script_sig = SigHash(t, input)
            BY <1>1, <1>3, <3>2 DEF SignaturesVerify, Verifies
        <3> HIDE DEF input
        <3> QED BY <1>1, <3>3, SigHashIsSomething
    <2> QED BY <2>1, <2>2 DEF BearsSignature
<1> QED BY <1>2, <1>3

(* What wallets hand out. *)
IsSigned(o) ==
    IsTransaction(o) /\ WellFormed(o.staking) /\ SignaturesVerify(o) /\ BearsSignature(o)

LEMMA WalletsSign ==
    ASSUME NEW plan \in Plans, NEW b
    PROVE  IsSigned(Authorize([plan EXCEPT !.branch = b]))
<1> DEFINE p == [plan EXCEPT !.branch = b]
           t == ProveSapling(p)
           o == Sign(t)
<1>1. /\ Unauthorized(plan) /\ WellFormed(plan.staking)
      /\ plan.sapling # {} \/ \E c \in plan.transparent : c.vin # <<>> /\ ~IsCoinbaseBundle(c)
    BY RelayAssumption
<1>2. Unauthorized(p) /\ p.transparent = plan.transparent /\ p.sapling = plan.sapling
        /\ p.staking = plan.staking
    <2>1. PICK ve, br, ex, tr, sa, oc, ir, st : plan = Tx(ve, br, ex, tr, sa, oc, ir, st)
        BY <1>1 DEF Unauthorized
    <2>2. p = Tx(ve, b, ex, tr, sa, oc, ir, st)
        BY <2>1 DEF Tx
    <2> HIDE DEF p
    <2>3. p.transparent = plan.transparent /\ p.sapling = plan.sapling /\ p.staking = plan.staking
          /\ p.orchard = plan.orchard /\ p.ironwood = plan.ironwood
          /\ p = Tx(p.version, p.branch, p.expiry, p.transparent, p.sapling, p.orchard,
                    p.ironwood, p.staking)
        BY <2>1, <2>2 DEF Tx
    <2> QED BY <1>1, <2>3 DEF Unauthorized
<1> HIDE DEF p
<1>3. /\ IsTx(t) /\ t.transparent = plan.transparent /\ t.staking = plan.staking
      /\ t.sapling = {WithProofs(c) : c \in plan.sapling}
    BY <1>2, UnauthorizedIsTx
<1>4. SignaturesVerify(o) /\ IsTx(o)
    BY <1>2, BuiltSignaturesVerify DEF Authorize
<1> HIDE DEF t
<1>5. SameToSign(t, o)
    BY <1>3, SigningChangesNoHash
<1> DEFINE digests == TxIdDigest(t)
           shielded == SignatureHash(t, Shielded, digests)
<1>6. /\ o.transparent = {WithScriptSigs(c, t, digests) : c \in t.transparent}
      /\ o.sapling = {WithSigs(c, shielded) : c \in t.sapling}
    BY <1>3, SignedBundles
<1>7. \A input : SignatureHash(t, input, digests) # Unsigned
    BY SigHashIsSomething DEF SigHash
<1> HIDE DEF o, digests, shielded
<1>8. ASSUME plan.sapling # {} PROVE BearsSignature(o)
    <2>1. PICK c \in t.sapling : TRUE
        BY <1>3, <1>8
    <2>2. WithSigs(c, shielded).sigs = shielded
        BY <1>3, ShieldedFields DEF IsTx
    <2>3. shielded # Unsigned
        BY <1>7 DEF shielded
    <2> QED BY <1>6, <2>2, <2>3, <2>1 DEF BearsSignature
<1>9. ASSUME \E c \in plan.transparent : c.vin # <<>> /\ ~IsCoinbaseBundle(c)
      PROVE  BearsSignature(o)
    <2>1. PICK c \in t.transparent : c.vin # <<>> /\ ~IsCoinbaseBundle(c)
        BY <1>3, <1>9
    <2>2. IsTransparent(c)
        BY <1>3, <2>1 DEF IsTx, TransparentTyped
    <2>3. 1 \in DOMAIN c.vin
        <3>1. c.vin = [i \in 1 .. Len(c.vin) |-> c.vin[i]] /\ Len(c.vin) \in Nat
            BY <2>2 DEF IsTransparent, TransparentBundle
        <3> QED BY <2>1, <3>1
    <2> DEFINE d == WithScriptSigs(c, t, digests)
    <2>4. d \in o.transparent
        BY <1>6
    <2>5. 1 \in DOMAIN d.vin
          /\ d.vin[1].script_sig = SignatureHash(t, TransparentInput(1, SIGHASH_ALL), digests)
        BY <2>1, <2>2, <2>3, ScriptSigsAreNoEffect DEF SameEffects
    <2> HIDE DEF d
    <2> QED BY <1>7, <2>4, <2>5 DEF BearsSignature
<1>10. o.staking = plan.staking
    BY <1>3, <1>5 DEF SameToSign
<1>11. IsSigned(o)
    BY <1>1, <1>4, <1>8, <1>9, <1>10 DEF IsSigned, IsTx
<1> QED BY <1>11 DEF o, t, p, Authorize

----------------------------------------------------------------------------
(* Blocks. *)
Transactions(vtx) == \A i \in DOMAIN vtx : IsTransaction(vtx[i]) /\ WellFormed(vtx[i].staking)

BlockOf(start, vtx) ==
    [header |-> HeaderOf(start, start.fat_pointer, TxIds(vtx)),
     vtx |-> [i \in DOMAIN vtx |-> WriteTransaction(vtx[i])]]

(* A block that differs only in the branches its transactions were read for. *)
LEMMA BlockOfReread ==
    ASSUME NEW start, NEW vtx, Transactions(vtx), NEW b,
           NEW read, read = [i \in DOMAIN vtx |-> Reread(vtx[i], b)]
    PROVE  /\ Transactions(read) /\ DOMAIN read = DOMAIN vtx
           /\ TxIds(read) = TxIds(vtx)
           /\ BlockOf(start, read) = BlockOf(start, vtx)
<1>1. \A i \in DOMAIN vtx :
        /\ IsTransaction(read[i]) /\ read[i].staking = vtx[i].staking
        /\ TxId(read[i]) = TxId(vtx[i]) /\ WriteTransaction(read[i]) = WriteTransaction(vtx[i])
    BY RereadKeepsBytes DEF Transactions
<1>2. DOMAIN read = DOMAIN vtx
    OBVIOUS
<1> HIDE DEF Transactions
<1>3. Transactions(read)
    BY <1>1, <1>2 DEF Transactions
<1>4. TxIds(read) = TxIds(vtx)
    BY <1>1, <1>2 DEF TxIds
<1>5. [i \in DOMAIN read |-> WriteTransaction(read[i])] = [i \in DOMAIN vtx |-> WriteTransaction(vtx[i])]
    BY <1>1, <1>2
<1> QED BY <1>2, <1>3, <1>4, <1>5 DEF BlockOf

(* What a node makes of the bytes of a block, and of what it has read. *)
ReadBack(block, bytes, start, vtx, n) ==
    /\ BlockWrite(block) = {bytes}
    /\ block.hash = {Bft!Hash(bytes.header)}
    /\ block.header.merkle_root = TxIds(block.vtx)
    /\ block.header.version = start.version /\ block.header.solution = start.solution
    /\ HeaderRead(bytes.header) = {block.header}
    /\ HeaderWrite(block.header) = {bytes.header}
    /\ \/ Bft!HeaderRead(bytes.header) = {bytes.header}
       \/ start.version < Bft!MIN_HEADER_VERSION \/ start.solution = "wrong size"
    /\ block.vtx = [i \in DOMAIN vtx |-> Reread(vtx[i], BranchAt(n, block.claimed_height))]

(* Block::read and Block::write: what a node reads from the bytes of a block *)
(* it writes as the same bytes.                                              *)
LEMMA BlockRoundTrip ==
    ASSUME NEW start \in HeaderStarts, NEW vtx, Transactions(vtx), NEW n,
           NEW bytes, bytes = BlockOf(start, vtx), NEW block \in BlockRead(bytes, n)
    PROVE  ReadBack(block, bytes, start, vtx, n)
<1> DEFINE wire == HeaderOf(start, start.fat_pointer, TxIds(vtx))
           b == BlockBranch(bytes, n)
           read == [i \in DOMAIN vtx |-> Reread(vtx[i], b)]
<1>1. bytes.header = wire /\ bytes.vtx = [i \in DOMAIN vtx |-> WriteTransaction(vtx[i])]
    BY DEF BlockOf
<1>2. \A i \in DOMAIN vtx : ReadInBlock(WriteTransaction(vtx[i]), i, b) = Reread(vtx[i], b)
    BY RereadInBlock DEF Transactions
<1>3. [i \in DOMAIN bytes.vtx |-> ReadInBlock(bytes.vtx[i], i, b)] = read
    <2> HIDE DEF b
    <2>1. DOMAIN bytes.vtx = DOMAIN vtx /\ \A i \in DOMAIN vtx : bytes.vtx[i] = WriteTransaction(vtx[i])
        BY <1>1
    <2> QED BY <1>2, <2>1
<1> HIDE DEF wire, b, read
<1>4. PICK header \in HeaderRead(wire) :
        block = [header |-> header, hash |-> HeaderHash(header), vtx |-> read,
                 claimed_height |-> ClaimedHeight(bytes.vtx[1])]
    BY <1>1, <1>3 DEF BlockRead, b
<1>5. /\ block.header = header /\ block.hash = HeaderHash(header) /\ block.vtx = read
      /\ BranchAt(n, block.claimed_height) = b
    BY <1>4 DEF b, BlockBranch
<1>6. /\ HeaderRead(wire) = {header} /\ HeaderWrite(header) = {wire}
      /\ header.merkle_root = TxIds(vtx)
      /\ header.version = start.version /\ header.solution = start.solution
      /\ \/ Bft!HeaderRead(wire) = {wire}
         \/ start.version < Bft!MIN_HEADER_VERSION \/ start.solution = "wrong size"
    <2> DEFINE root == TxIds(vtx)
    <2>1. header \in HeaderRead(HeaderOf(start, start.fat_pointer, root))
        BY <1>4 DEF wire
    <2> HIDE DEF root
    <2>2. /\ HeaderRead(HeaderOf(start, start.fat_pointer, root)) = {header}
          /\ HeaderWrite(header) = {HeaderOf(start, start.fat_pointer, root)}
          /\ header.merkle_root = root
          /\ header.version = start.version /\ header.solution = start.solution
          /\ \/ Bft!HeaderRead(HeaderOf(start, start.fat_pointer, root))
                   = {HeaderOf(start, start.fat_pointer, root)}
             \/ start.version < Bft!MIN_HEADER_VERSION \/ start.solution = "wrong size"
        BY <2>1, HeaderRoundTrip
    <2> QED BY <2>2 DEF root, wire
<1>7. HeaderHash(header) = {Bft!Hash(wire)}
    BY <1>6 DEF HeaderHash
<1>8. /\ Transactions(read) /\ DOMAIN read = DOMAIN vtx /\ TxIds(read) = TxIds(vtx)
      /\ BlockOf(start, read) = BlockOf(start, vtx)
    BY BlockOfReread DEF read
<1>9. BlockWrite(block) = {bytes}
    <2>1. BlockWrite(block)
            = {[header |-> h, vtx |-> [i \in DOMAIN read |-> WriteTransaction(read[i])]] : h \in {wire}}
        BY <1>5, <1>6 DEF BlockWrite
    <2>2. BlockOf(start, read)
            = [header |-> HeaderOf(start, start.fat_pointer, TxIds(read)),
               vtx |-> [i \in DOMAIN read |-> WriteTransaction(read[i])]]
        BY DEF BlockOf
    <2>3. BlockOf(start, read)
            = [header |-> wire, vtx |-> [i \in DOMAIN read |-> WriteTransaction(read[i])]]
        BY <1>8, <2>2 DEF wire
    <2> QED BY <1>8, <2>1, <2>3
<1> QED BY <1>1, <1>5, <1>6, <1>7, <1>8, <1>9 DEF read, ReadBack

----------------------------------------------------------------------------
(* The inductive invariant.                                                  *)

(* What nodes hold has the bytes of something a wallet signed. *)
Relayed(t) == \E o \in signed : Serialised(o) = Serialised(t)
Poolable(t) == IsTransaction(t) /\ WellFormed(t.staking) /\ Relayed(t)
Minable(t) == IsTransaction(t) /\ WellFormed(t.staking) /\ (HasNullInput(t) \/ Relayed(t))

(* The bytes of a mined block are those of its transactions, for whatever   *)
(* branch they are read.                                                    *)
Parsed(bytes) == [i \in DOMAIN bytes.vtx |-> ReadTransaction(bytes.vtx[i], Sprout)]
MinedBlock(bytes) ==
    /\ \A i \in DOMAIN Parsed(bytes) : Minable(Parsed(bytes)[i])
    /\ \E start \in HeaderStarts : bytes = BlockOf(start, Parsed(bytes))

BlocksInv ==
    /\ DOMAIN pool = Nodes /\ DOMAIN chain = Nodes /\ DOMAIN encoded = Nodes
    /\ panicked \subseteq Nodes
    /\ \A o \in signed : IsSigned(o)
    /\ \A n \in Nodes : \A t \in pool[n] : Poolable(t)
    /\ \A bytes \in mined : MinedBlock(bytes)
    /\ \A n \in Nodes : \A block \in chain[n] :
        \E bytes \in mined : BlockReads(bytes, n) /\ block \in BlockRead(bytes, n)
    /\ EncodedHeadersAgree

LEMMA BlocksInit == ASSUME Init PROVE BlocksInv
BY DEF Init, BlocksInv, EncodedHeadersAgree

(* Where each block of a node comes from. *)
LEMMA BlockOrigin ==
    ASSUME BlocksInv, NEW n \in Nodes, NEW block \in chain[n]
    PROVE  \E bytes \in mined, start \in HeaderStarts : \E vtx :
            /\ bytes = BlockOf(start, vtx) /\ Transactions(vtx)
            /\ BlockReads(bytes, n) /\ ReadBack(block, bytes, start, vtx, n)
            /\ \A i \in DOMAIN vtx : Minable(vtx[i])
<1>1. PICK bytes \in mined : BlockReads(bytes, n) /\ block \in BlockRead(bytes, n)
    BY DEF BlocksInv
<1>2. MinedBlock(bytes)
    BY DEF BlocksInv
<1>3. Transactions(Parsed(bytes))
    BY <1>2 DEF MinedBlock, Minable, Transactions
<1>4. PICK start \in HeaderStarts : bytes = BlockOf(start, Parsed(bytes))
    BY <1>2 DEF MinedBlock
<1>5. PICK vtx : bytes = BlockOf(start, vtx) /\ vtx = Parsed(bytes)
    BY <1>4
<1>6. Transactions(vtx) /\ \A i \in DOMAIN vtx : Minable(vtx[i])
    BY <1>2, <1>3, <1>5 DEF MinedBlock
<1>7. bytes = BlockOf(start, vtx)
    BY <1>5
<1>8. ReadBack(block, bytes, start, vtx, n)
    BY <1>1, <1>6, <1>7, BlockRoundTrip
<1> QED BY <1>1, <1>6, <1>7, <1>8

(* Nodes pass on nothing but what was mined. *)
LEMMA FlightIsMined ==
    ASSUME BlocksInv
    PROVE  BlocksInFlight \subseteq mined
<1> SUFFICES ASSUME NEW m \in Nodes, NEW block \in chain[m], NEW wire \in BlockWrite(block)
             PROVE  wire \in mined
    BY DEF BlocksInFlight
<1>1. PICK bytes \in mined, start \in HeaderStarts : \E vtx :
        /\ bytes = BlockOf(start, vtx) /\ Transactions(vtx) /\ ReadBack(block, bytes, start, vtx, m)
    BY BlockOrigin
<1>2. PICK vtx : bytes = BlockOf(start, vtx) /\ Transactions(vtx) /\ ReadBack(block, bytes, start, vtx, m)
    BY <1>1
<1>3. BlockWrite(block) = {bytes}
    BY <1>2 DEF ReadBack
<1> QED BY <1>3

(* Wallets only add to what is signed, and what is held stays held. *)
LEMMA SignedGrows ==
    ASSUME signed \subseteq signed'
    PROVE  /\ \A t : Poolable(t) => Poolable(t)'
           /\ \A t : Minable(t) => Minable(t)'
           /\ \A bytes : MinedBlock(bytes) => MinedBlock(bytes)'
<1>1. \A t : (Poolable(t) => Poolable(t)') /\ (Minable(t) => Minable(t)')
    BY DEF Poolable, Minable, Relayed
<1>2. \A bytes : MinedBlock(bytes) => MinedBlock(bytes)'
    BY <1>1 DEF MinedBlock, Parsed
<1> QED BY <1>1, <1>2

LEMMA ChainGrows ==
    ASSUME EncodedHeadersAgree, \A n \in Nodes : chain[n] \subseteq chain'[n],
           UNCHANGED <<encoded, panicked>>, panicked \subseteq Nodes
    PROVE  EncodedHeadersAgree'
BY DEF EncodedHeadersAgree

LEMMA SignStep ==
    ASSUME BlocksInv, NEW n \in Nodes, NEW plan \in Plans, NEW h, SignTransaction(n, plan, h)
    PROVE  BlocksInv'
<1> DEFINE tx == Authorize([plan EXCEPT !.branch = BranchAt(n, h)])
<1>1. IsSigned(tx)
    BY WalletsSign
<1> HIDE DEF tx
<1>2. /\ signed' = signed \union {tx} /\ pool' = [pool EXCEPT ![n] = @ \union {tx}]
      /\ UNCHANGED <<mined, chain, encoded, panicked>>
    BY DEF SignTransaction, tx
<1>3. /\ \A t : Poolable(t) => Poolable(t)'
      /\ \A bytes : MinedBlock(bytes) => MinedBlock(bytes)'
    BY <1>2, SignedGrows
<1>4. Poolable(tx)'
    BY <1>1, <1>2 DEF Poolable, IsSigned, Relayed
<1>5. (\A m \in Nodes : \A t \in pool[m] : Poolable(t))'
    BY <1>2, <1>3, <1>4 DEF BlocksInv
<1>6. (\A o \in signed : IsSigned(o))'
    BY <1>1, <1>2 DEF BlocksInv
<1>7. (\A bytes \in mined : MinedBlock(bytes))'
    BY <1>2, <1>3 DEF BlocksInv
<1>8. EncodedHeadersAgree'
    BY <1>2 DEF BlocksInv, EncodedHeadersAgree
<1> QED BY <1>2, <1>5, <1>6, <1>7, <1>8 DEF BlocksInv

LEMMA RelayTransactionStep ==
    ASSUME BlocksInv, NEW n \in Nodes, NEW m \in Nodes, NEW tx \in pool[m], NEW h,
           RelayTransaction(n, tx, h)
    PROVE  BlocksInv'
<1> DEFINE r == ReadTransaction(WriteTransaction(tx), BranchAt(n, h))
<1>1. Poolable(tx)
    BY DEF BlocksInv
<1>2. r = Reread(tx, BranchAt(n, h))
    BY <1>1, RereadTransaction DEF Poolable
<1>3. IsTransaction(r) /\ Serialised(r) = Serialised(tx) /\ r.staking = tx.staking
    BY <1>1, <1>2, RereadKeepsBytes DEF Poolable
<1>4. /\ pool' = [pool EXCEPT ![n] = @ \union {r}]
      /\ UNCHANGED <<signed, mined, chain, encoded, panicked>>
    BY DEF RelayTransaction
<1> HIDE DEF r
<1>5. Poolable(r)
    BY <1>1, <1>3 DEF Poolable, Relayed
<1>6. /\ \A t : Poolable(t) => Poolable(t)'
      /\ \A bytes : MinedBlock(bytes) => MinedBlock(bytes)'
    BY <1>4, SignedGrows
<1>7. (\A k \in Nodes : \A t \in pool[k] : Poolable(t))'
    BY <1>4, <1>5, <1>6 DEF BlocksInv
<1>8. (\A bytes \in mined : MinedBlock(bytes))'
    BY <1>4, <1>6 DEF BlocksInv
<1>9. EncodedHeadersAgree'
    BY <1>4 DEF BlocksInv, EncodedHeadersAgree
<1> QED BY <1>4, <1>7, <1>8, <1>9 DEF BlocksInv

LEMMA MineStep ==
    ASSUME BlocksInv, NEW n \in Nodes, NEW start \in HeaderStarts, NEW coinbase \in Coinbases,
           NEW txs \in UNION {[1 .. k -> pool[n]] : k \in 0 .. MaxTxs}, Mine(start, coinbase, txs)
    PROVE  BlocksInv'
<1> DEFINE vtx == coinbase \o txs
           bytes == BlockOf(start, vtx)
           parsed == Parsed(bytes)
<1>1. mined' = mined \union {bytes} /\ UNCHANGED <<signed, pool, chain, encoded, panicked>>
    BY DEF Mine, BlockOf, HeaderOf
<1>2. \A i \in DOMAIN vtx : Minable(vtx[i])
    <2> DEFINE S == {t \in {coinbase[i] : i \in DOMAIN coinbase} \union pool[n] : Minable(t)}
    <2>1. \A i \in DOMAIN coinbase : Minable(coinbase[i])
        BY RelayAssumption DEF Minable
    <2>2. \A t \in pool[n] : Minable(t)
        BY DEF BlocksInv, Poolable, Minable
    <2>3. coinbase \in Seq(S)
        <3>1. Len(coinbase) \in Nat /\ coinbase = [i \in 1 .. Len(coinbase) |-> coinbase[i]]
            BY RelayAssumption
        <3>2. coinbase \in [1 .. Len(coinbase) -> S]
            BY <2>1, <3>1
        <3> QED BY <3>1, <3>2, SeqDef
    <2>4. txs \in Seq(S)
        <3>1. PICK k \in 0 .. MaxTxs : txs \in [1 .. k -> pool[n]]
            OBVIOUS
        <3>2. txs \in [1 .. k -> S] /\ k \in Nat
            BY <2>2, <3>1, RelayAssumption
        <3> QED BY <3>2, SeqDef
    <2>5. vtx \in Seq(S)
        BY <2>3, <2>4, ConcatProperties
    <2>6. \A i \in DOMAIN vtx : vtx[i] \in S
        <3> HIDE DEF vtx, S
        <3> QED BY <2>5
    <2> QED BY <2>6
<1> HIDE DEF vtx
<1>3. Transactions(vtx)
    BY <1>2 DEF Transactions, Minable
<1>4. parsed = [i \in DOMAIN vtx |-> Reread(vtx[i], Sprout)]
    <2>1. bytes.vtx = [i \in DOMAIN vtx |-> WriteTransaction(vtx[i])]
        BY DEF BlockOf
    <2>2. \A i \in DOMAIN vtx : ReadTransaction(WriteTransaction(vtx[i]), Sprout) = Reread(vtx[i], Sprout)
        BY <1>3, RereadTransaction DEF Transactions
    <2> HIDE DEF bytes
    <2>3. DOMAIN bytes.vtx = DOMAIN vtx /\ \A i \in DOMAIN vtx : bytes.vtx[i] = WriteTransaction(vtx[i])
        BY <2>1
    <2> QED BY <2>2, <2>3 DEF Parsed
<1> HIDE DEF parsed
<1>5. bytes = BlockOf(start, parsed) /\ DOMAIN parsed = DOMAIN vtx
    BY <1>3, <1>4, BlockOfReread
<1>6. \A i \in DOMAIN parsed : Minable(parsed[i])
    <2> SUFFICES ASSUME NEW i \in DOMAIN vtx PROVE Minable(parsed[i])
        BY <1>5
    <2> DEFINE t == vtx[i]
    <2>1. Minable(t) /\ parsed[i] = Reread(t, Sprout)
        BY <1>2, <1>4
    <2> HIDE DEF t
    <2>2. /\ IsTransaction(Reread(t, Sprout)) /\ Reread(t, Sprout).staking = t.staking
          /\ Serialised(Reread(t, Sprout)) = Serialised(t)
        BY <2>1, RereadKeepsBytes DEF Minable
    <2>3. Reread(t, Sprout).transparent = t.transparent
        BY WithFields DEF Reread
    <2> QED BY <2>1, <2>2, <2>3 DEF Minable, HasNullInput, Relayed
<1>7. MinedBlock(bytes)
    BY <1>5, <1>6 DEF MinedBlock, parsed
<1> HIDE DEF bytes
<1>8. /\ \A t : Poolable(t) => Poolable(t)'
      /\ \A wire : MinedBlock(wire) => MinedBlock(wire)'
    BY <1>1, SignedGrows
<1>9. (\A wire \in mined : MinedBlock(wire))'
    BY <1>1, <1>7, <1>8 DEF BlocksInv
<1>10. (\A m \in Nodes : \A t \in pool[m] : Poolable(t))'
    BY <1>1, <1>8 DEF BlocksInv
<1>11. EncodedHeadersAgree'
    BY <1>1 DEF BlocksInv, EncodedHeadersAgree
<1> QED BY <1>1, <1>9, <1>10, <1>11 DEF BlocksInv

LEMMA ReceiveStep ==
    ASSUME BlocksInv, NEW n \in Nodes, NEW bytes \in BlocksInFlight, ReceiveBlock(n, bytes)
    PROVE  BlocksInv'
<1>1. bytes \in mined
    BY FlightIsMined
<1>2. /\ BlockReads(bytes, n) /\ chain' = [chain EXCEPT ![n] = @ \union BlockRead(bytes, n)]
      /\ UNCHANGED <<signed, pool, mined, encoded, panicked>>
    BY DEF ReceiveBlock
<1>3. /\ \A t : Poolable(t) => Poolable(t)'
      /\ \A wire : MinedBlock(wire) => MinedBlock(wire)'
    BY <1>2, SignedGrows
<1>4. (\A wire \in mined : MinedBlock(wire))' /\ (\A m \in Nodes : \A t \in pool[m] : Poolable(t))'
    BY <1>2, <1>3 DEF BlocksInv
<1>5. DOMAIN chain' = Nodes /\ \A m \in Nodes : chain[m] \subseteq chain'[m]
    BY <1>2 DEF BlocksInv
<1>6. EncodedHeadersAgree'
    BY <1>2, <1>5, ChainGrows DEF BlocksInv
<1>7. ASSUME NEW m \in Nodes, NEW block \in chain'[m]
      PROVE  \E wire \in mined : BlockReads(wire, m) /\ block \in BlockRead(wire, m)
    <2>1. CASE block \in chain[m]
        BY <2>1 DEF BlocksInv
    <2>2. CASE block \notin chain[m]
        <3>1. m = n /\ block \in BlockRead(bytes, n)
            BY <1>2, <2>2 DEF BlocksInv
        <3> QED BY <1>1, <1>2, <3>1
    <2> QED BY <2>1, <2>2
<1> QED BY <1>2, <1>4, <1>5, <1>6, <1>7 DEF BlocksInv

(* A conversion to the BFT layer either keeps the header's bytes or fails in *)
(* the two ways the framing has.                                             *)
LEMMA HeadersConvert ==
    ASSUME BlocksInv, NEW n \in Nodes, NEW block \in chain[n]
    PROVE  /\ \A wire \in ToEncoded(block.header) :
                /\ block.hash = {Bft!HeaderHash(wire)}
                /\ FromEncoded(wire) = {block.header}
           /\ ToEncoded(block.header) = {} =>
                block.header.version < Bft!MIN_HEADER_VERSION \/ block.header.solution = "wrong size"
<1>1. PICK bytes \in mined, start \in HeaderStarts : \E vtx :
        /\ bytes = BlockOf(start, vtx) /\ Transactions(vtx) /\ ReadBack(block, bytes, start, vtx, n)
    BY BlockOrigin
<1>2. PICK vtx : bytes = BlockOf(start, vtx) /\ Transactions(vtx) /\ ReadBack(block, bytes, start, vtx, n)
    BY <1>1
<1> DEFINE w == bytes.header
<1>3. /\ block.hash = {Bft!Hash(w)} /\ HeaderRead(w) = {block.header}
      /\ HeaderWrite(block.header) = {w}
      /\ block.header.version = start.version /\ block.header.solution = start.solution
      /\ \/ Bft!HeaderRead(w) = {w}
         \/ start.version < Bft!MIN_HEADER_VERSION \/ start.solution = "wrong size"
    BY <1>2 DEF ReadBack
<1> HIDE DEF w
<1>4. ToEncoded(block.header) = Bft!HeaderRead(w)
    BY <1>3 DEF ToEncoded
<1>5. \A wire \in Bft!HeaderRead(w) : wire = w
    <2>1. CASE Bft!HeaderRead(w) = {w}
        BY <2>1
    <2>2. CASE start.version < Bft!MIN_HEADER_VERSION \/ start.solution = "wrong size"
        <3>1. w.version = start.version /\ w.solution = start.solution
            BY <1>2, HeaderFields DEF w, BlockOf
        <3>2. Bft!HeaderRead(w) = {}
            BY <2>2, <3>1 DEF Bft!HeaderRead
        <3> QED BY <3>2
    <2> QED BY <1>3, <2>1, <2>2
<1>6. Bft!HeaderHash(w) = Bft!Hash(w)
    BY DEF Bft!HeaderHash
<1>7. FromEncoded(w) = {block.header}
    BY <1>3 DEF FromEncoded
<1>8. \A wire \in ToEncoded(block.header) :
        block.hash = {Bft!HeaderHash(wire)} /\ FromEncoded(wire) = {block.header}
    <2> TAKE wire \in ToEncoded(block.header)
    <2>1. wire = w
        BY <1>4, <1>5
    <2>2. block.hash = {Bft!HeaderHash(w)}
        BY <1>3, <1>6
    <2> QED BY <1>7, <2>1, <2>2
<1>9. Bft!HeaderRead(w) = {w} => ToEncoded(block.header) # {}
    BY <1>4
<1> QED BY <1>3, <1>8, <1>9

LEMMA HandOverStep ==
    ASSUME BlocksInv, NEW n \in Nodes, NEW block \in chain[n], HandOver(n, block)
    PROVE  BlocksInv'
<1>1. /\ encoded' = [encoded EXCEPT ![n] = @ \union ToEncoded(block.header)]
      /\ panicked' = IF ToEncoded(block.header) = {} THEN panicked \union {n} ELSE panicked
      /\ UNCHANGED <<signed, pool, mined, chain>>
    BY DEF HandOver
<1>2. /\ \A t : Poolable(t) => Poolable(t)'
      /\ \A wire : MinedBlock(wire) => MinedBlock(wire)'
    BY <1>1, SignedGrows
<1>3. (\A wire \in mined : MinedBlock(wire))' /\ (\A m \in Nodes : \A t \in pool[m] : Poolable(t))'
    BY <1>1, <1>2 DEF BlocksInv
<1>4. ASSUME NEW m \in Nodes, NEW wire \in encoded'[m]
      PROVE  \E b \in chain[m] : b.hash = {Bft!HeaderHash(wire)} /\ FromEncoded(wire) = {b.header}
    <2>1. CASE wire \in encoded[m]
        BY <2>1 DEF BlocksInv, EncodedHeadersAgree
    <2>2. CASE wire \notin encoded[m]
        <3>1. m = n /\ wire \in ToEncoded(block.header)
            BY <1>1, <2>2 DEF BlocksInv
        <3> QED BY <3>1, HeadersConvert
    <2> QED BY <2>1, <2>2
<1>5. ASSUME NEW m \in panicked'
      PROVE  \E b \in chain[m] :
                b.header.version < Bft!MIN_HEADER_VERSION \/ b.header.solution = "wrong size"
    <2>1. CASE m \in panicked
        BY <2>1 DEF BlocksInv, EncodedHeadersAgree
    <2>2. CASE m \notin panicked
        <3>1. m = n /\ ToEncoded(block.header) = {}
            BY <1>1, <2>2
        <3> QED BY <3>1, HeadersConvert
    <2> QED BY <2>1, <2>2
<1>6. EncodedHeadersAgree'
    BY <1>1, <1>4, <1>5 DEF EncodedHeadersAgree
<1>7. DOMAIN encoded' = Nodes /\ panicked' \subseteq Nodes
    BY <1>1 DEF BlocksInv
<1> QED BY <1>1, <1>3, <1>6, <1>7 DEF BlocksInv

LEMMA BlocksNext == ASSUME BlocksInv, [Next]_vars PROVE BlocksInv'
<1>1. CASE UNCHANGED vars
    <2>1. UNCHANGED <<signed, pool, mined, chain, encoded, panicked>>
        BY <1>1 DEF vars
    <2>2. /\ \A t : Poolable(t) => Poolable(t)'
          /\ \A wire : MinedBlock(wire) => MinedBlock(wire)'
        BY <2>1, SignedGrows
    <2>3. EncodedHeadersAgree'
        BY <2>1 DEF BlocksInv, EncodedHeadersAgree
    <2> QED BY <2>1, <2>2, <2>3 DEF BlocksInv
<1>2. CASE Next
    <2>1. PICK n \in Nodes \ panicked : NodeStep(n)
        BY <1>2 DEF Next
    <2> QED BY <2>1, SignStep, RelayTransactionStep, MineStep, ReceiveStep, HandOverStep DEF NodeStep
<1> QED BY <1>1, <1>2

LEMMA BlocksInvariant == Spec => []BlocksInv
<1>1. Init => BlocksInv
    BY BlocksInit
<1>2. BlocksInv /\ [Next]_vars => BlocksInv'
    BY BlocksNext
<1> QED BY <1>1, <1>2, PTL DEF Spec

----------------------------------------------------------------------------
(* Block::read and Block::write: along any chain of nodes, each with its own *)
(* parameters and its own idea of the branch, a block keeps the bytes, the   *)
(* header hash and the transaction ids that its miner committed to.          *)
THEOREM RelayKeepsBlocks == Spec => []BlocksAreRelayedUnchanged
<1>1. ASSUME BlocksInv PROVE BlocksAreRelayedUnchanged
    <2> SUFFICES ASSUME NEW n \in Nodes, NEW block \in chain[n]
                 PROVE  /\ BlockWrite(block) # {} /\ BlockWrite(block) \subseteq mined
                        /\ block.hash = {Bft!Hash(wire.header) : wire \in BlockWrite(block)}
                        /\ block.header.merkle_root = TxIds(block.vtx)
        BY DEF BlocksAreRelayedUnchanged
    <2>1. PICK bytes \in mined, start \in HeaderStarts : \E vtx :
            /\ bytes = BlockOf(start, vtx) /\ Transactions(vtx) /\ ReadBack(block, bytes, start, vtx, n)
        BY <1>1, BlockOrigin
    <2>2. PICK vtx : bytes = BlockOf(start, vtx) /\ Transactions(vtx) /\ ReadBack(block, bytes, start, vtx, n)
        BY <2>1
    <2>3. /\ BlockWrite(block) = {bytes} /\ block.hash = {Bft!Hash(bytes.header)}
          /\ block.header.merkle_root = TxIds(block.vtx)
        BY <2>2 DEF ReadBack
    <2> QED BY <2>3
<1>2. Spec => []BlocksInv
    BY BlocksInvariant
<1> QED BY <1>1, <1>2, PTL

(* Block::read: what the signatures of a transaction in a block are worth at *)
(* a node depends on the branch the node gives the block's height, for       *)
(* versions that do not commit to one, and on nothing that happened on the   *)
(* way there.                                                                *)
THEOREM HeightDecidesSignatures == Spec => []SignaturesFollowTheHeight
<1>1. ASSUME BlocksInv PROVE SignaturesFollowTheHeight
    <2> SUFFICES ASSUME NEW n \in Nodes, NEW block \in chain[n], NEW i \in DOMAIN block.vtx, i > 1
                 PROVE  SignaturesVerify(block.vtx[i]) <=>
                            \/ CommitsToBranch(block.vtx[i].version)
                            \/ SignedAs(block.vtx[i]).branch = BranchAt(n, block.claimed_height)
        BY DEF SignaturesFollowTheHeight
    <2>1. PICK bytes \in mined, start \in HeaderStarts : \E vtx :
            /\ bytes = BlockOf(start, vtx) /\ Transactions(vtx)
            /\ BlockReads(bytes, n) /\ ReadBack(block, bytes, start, vtx, n)
            /\ \A j \in DOMAIN vtx : Minable(vtx[j])
        BY <1>1, BlockOrigin
    <2>2. PICK vtx : /\ bytes = BlockOf(start, vtx) /\ Transactions(vtx)
                     /\ BlockReads(bytes, n) /\ ReadBack(block, bytes, start, vtx, n)
                     /\ \A j \in DOMAIN vtx : Minable(vtx[j])
        BY <2>1
    <2> DEFINE b == BranchAt(n, block.claimed_height)
               t == vtx[i]
               tx == block.vtx[i]
    <2>3. block.vtx = [j \in DOMAIN vtx |-> Reread(vtx[j], b)]
        BY <2>2 DEF ReadBack
    <2> HIDE DEF b
    <2>4. i \in DOMAIN vtx /\ tx = Reread(t, b)
        BY <2>3
    <2>5. Minable(t) /\ ~HasNullInput(t)
        <3>1. bytes.vtx[i] = WriteTransaction(t) /\ i \in DOMAIN bytes.vtx
            BY <2>2, <2>4 DEF BlockOf
        <3>2. ~HasNullInput(WriteTransaction(t))
            BY <2>2, <3>1 DEF BlockReads
        <3>3. IsTransaction(t)
            BY <2>2, <2>4 DEF Minable
        <3>4. WriteTransaction(t).transparent = t.transparent
            BY <3>3, TransactionOnWire, WithFields
        <3> QED BY <2>2, <2>4, <3>2, <3>4 DEF HasNullInput
    <2> HIDE DEF t, tx
    <2>6. IsTransaction(t) /\ Relayed(t)
        BY <2>5 DEF Minable
    <2>7. /\ IsTransaction(tx) /\ Serialised(tx) = Serialised(t) /\ tx.version = t.version
          /\ tx.branch = IF CommitsToBranch(t.version) THEN t.branch ELSE b
        BY <2>4, <2>6, RereadKeepsBytes
    <2> DEFINE o == SignedAs(tx)
    <2>8. o \in signed /\ Serialised(o) = Serialised(tx)
        BY <2>6, <2>7 DEF SignedAs, Relayed
    <2> HIDE DEF o
    <2>9. IsSigned(o)
        BY <1>1, <2>8 DEF BlocksInv
    <2>10. /\ tx = With(o, tx.branch, o.staking) /\ tx.version = o.version
           /\ CommitsToBranch(tx.version) => tx = o
        BY <2>7, <2>8, <2>9, SameBytes DEF IsSigned
    <2>11. CASE CommitsToBranch(tx.version)
        BY <2>9, <2>10, <2>11 DEF IsSigned, tx
    <2>12. CASE ~CommitsToBranch(tx.version)
        <3>1. tx.branch = b
            BY <2>7, <2>12
        <3>2. SignaturesVerify(tx) <=> o.branch = tx.branch
            BY <2>9, <2>10, <2>12, SignaturesNameTheBranch DEF IsSigned
        <3> QED BY <2>12, <3>1, <3>2 DEF tx, o, b
    <2> QED BY <2>11, <2>12
<1>2. Spec => []BlocksInv
    BY BlocksInvariant
<1> QED BY <1>1, <1>2, PTL

(* The conversions between BlockHeader and EncodedPowHeader keep hash and    *)
(* header, and panic in the two cases only in which the framings differ.     *)
THEOREM EncodingAgrees == Spec => []EncodedHeadersAgree
<1>1. BlocksInv => EncodedHeadersAgree
    BY DEF BlocksInv
<1>2. Spec => []BlocksInv
    BY BlocksInvariant
<1> QED BY <1>1, <1>2, PTL
=============================================================================
