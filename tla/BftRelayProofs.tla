--------------------------- MODULE BftRelayProofs ---------------------------
(***************************************************************************)
(* What verify_signatures lets through was precommitted, for any number of *)
(* finalizers, namespaces, rounds, blocks and hops.                        *)
(***************************************************************************)
EXTENDS BftRelay, FiniteSetTheorems, SequenceTheorems, TLAPS

(* A value that a vote can have: None, or a hash, which is not zero. *)
IsValue(value) == value = {} \/ \E bytes : value = {Hash(bytes)}

IsVote(vote) ==
    /\ vote = Vote(vote.validator, vote.value, vote.height, vote.kind, vote.round)
    /\ vote.validator \in Finalizers /\ IsValue(vote.value)
    /\ vote.height \in Heights /\ vote.kind \in VoteKinds /\ vote.round \in Rounds

CastTyped ==
    \A c \in cast :
        /\ c = [vote |-> c.vote, namespace |-> c.namespace]
        /\ IsVote(c.vote) /\ c.namespace \in Namespaces

(* The certificate of a bundle carries signatures that finalizers have made, *)
(* and says that they are precommits for a block.                            *)
WiresSigned ==
    \A w \in wires :
        LET pointer == w.bytes.fat_ptr
        IN  /\ w.hops \in 0 .. MaxHops
            /\ pointer.word \in COMMIT_FLAG .. MaxU32
            /\ \E bytes : pointer.block_hash = Hash(bytes)
            /\ pointer.signatures # <<>>
            /\ \A entry \in ToSet(pointer.signatures) :
                  \E c \in cast : entry.signature = SignatureOf(c)

ProposalsTyped ==
    /\ DOMAIN proposals = Rounds
    /\ \A r \in Rounds : \A v, w \in proposals[r] : v = w

RelayInv ==
    /\ params \in [sigma : Nat, gap : Nat]
    /\ namespace \in [Parties -> Namespaces]
    /\ height \in 0 .. MaxU32 + 1 /\ round \in Rounds
    /\ sent \in 0 .. MaxProposals
    /\ ProposalsTyped /\ CastTyped /\ WiresSigned
    /\ AcceptedIsPrecommitted

----------------------------------------------------------------------------
LEMMA MaxU32Type == MaxU32 \in Nat /\ COMMIT_FLAG \in Nat \ {0} /\ MaxU32 = 2 * COMMIT_FLAG - 1
BY WidthsAssumption DEF MaxU32

(* The round word tells the votes of different kinds and rounds apart. *)
LEMMA RoundWordInjective ==
    ASSUME NEW k \in VoteKinds, NEW l \in VoteKinds, NEW q \in Rounds, NEW r \in Rounds,
           RoundWord(k, q) = RoundWord(l, r)
    PROVE  k = l /\ q = r
<1>1. q % COMMIT_FLAG = q /\ r % COMMIT_FLAG = r
    BY MaxU32Type DEF Rounds
<1> QED BY <1>1, MaxU32Type DEF RoundWord, VoteKinds, Rounds

LEMMA WordsReadBack ==
    ASSUME NEW word \in COMMIT_FLAG .. MaxU32
    PROVE  /\ KindOfWord(word) = "Precommit"
           /\ RoundOfWord(word) \in Rounds
           /\ RoundWord(KindOfWord(word), RoundOfWord(word)) \in COMMIT_FLAG .. MaxU32
<1>1. KindOfWord(word) = "Precommit"
    BY MaxU32Type DEF KindOfWord
<1>2. RoundOfWord(word) \in Rounds
    BY MaxU32Type DEF RoundOfWord, Rounds
<1>3. RoundOfWord(word) % COMMIT_FLAG = RoundOfWord(word)
    BY <1>2, MaxU32Type DEF Rounds
<1> QED BY <1>1, <1>2, <1>3, MaxU32Type DEF RoundWord, Rounds

LEMMA ValuesReadBack ==
    ASSUME NEW value, IsValue(value), NEW bytes,
           HashOrZero(value) = HashOrZero(ValueOf(Hash(bytes)))
    PROVE  value = {Hash(bytes)}
<1>1. Hash(bytes) # ZeroHash
    BY DEF Hash, ZeroHash
<1>2. HashOrZero(ValueOf(Hash(bytes))) = Hash(bytes)
    BY <1>1 DEF ValueOf, HashOrZero
<1>3. value # {}
    BY <1>1, <1>2 DEF HashOrZero
<1>4. PICK other : value = {Hash(other)}
    BY <1>3 DEF IsValue
<1>5. HashOrZero(value) = Hash(other)
    BY <1>4 DEF HashOrZero
<1> QED BY <1>2, <1>4, <1>5

(* A signature that verifies for an inflated entry was made for that vote.  *)
LEMMA VerifiedIsCast ==
    ASSUME NEW c, IsVote(c.vote), c = [vote |-> c.vote, namespace |-> c.namespace],
           NEW key, NEW bytes, NEW at, NEW r \in Rounds, NEW ns,
           SignatureOf(c) = Signature(key,
               VoteToBytes(Vote(key, ValueOf(Hash(bytes)), at, "Precommit", r)), ns)
    PROVE  c = [vote |-> Vote(key, {Hash(bytes)}, at, "Precommit", r), namespace |-> ns]
<1> DEFINE v == Vote(key, ValueOf(Hash(bytes)), at, "Precommit", r)
<1>1. /\ c.vote.validator = key /\ c.namespace = ns
      /\ VoteToBytes(c.vote) = VoteToBytes(v)
    BY DEF SignatureOf, Signature
<1>2. /\ HashOrZero(c.vote.value) = HashOrZero(ValueOf(Hash(bytes)))
      /\ c.vote.height = at
      /\ RoundWord(c.vote.kind, c.vote.round) = RoundWord("Precommit", r)
    BY <1>1 DEF VoteToBytes, Vote
<1>3. c.vote.value = {Hash(bytes)}
    BY <1>2, ValuesReadBack DEF IsVote
<1>4. c.vote.kind = "Precommit" /\ c.vote.round = r
    <2>1. "Precommit" \in VoteKinds
        BY DEF VoteKinds
    <2> QED BY <1>2, <2>1, RoundWordInjective DEF IsVote
<1> QED BY <1>1, <1>2, <1>3, <1>4 DEF IsVote

----------------------------------------------------------------------------
(* The code never gives two answers. *)
LEMMA FatPointersSingle ==
    ASSUME NEW p
    PROVE  /\ \A v, w \in FatPointerWrite(p) : v = w
           /\ \A v, w \in FatPointerRead(p) : v = w
BY DEF FatPointerWrite, FatPointerRead

LEMMA BlocksSingle ==
    ASSUME NEW b
    PROVE  /\ \A v, w \in BlockWrite(b) : v = w
           /\ \A v, w \in BlockRead(b) : v = w
<1>1. \A v, w \in BlockWrite(b) : v = w
    <2> DEFINE Written(previous) ==
            [b EXCEPT !.height = IF b.version = 1 THEN @ + 1 ELSE @, !.previous = previous]
    <2>1. \A v \in BlockWrite(b) :
              \E previous \in FatPointerWrite(b.previous) : v = Written(previous)
        BY DEF BlockWrite
    <2> HIDE DEF Written
    <2> QED BY <2>1, FatPointersSingle
<1>2. \A v, w \in BlockRead(b) : v = w
    BY FatPointersSingle DEF BlockRead
<1> QED BY <1>1, <1>2

(* What a finalizer votes for is a value. *)
LEMMA ProposalHashIsValue ==
    ASSUME ProposalsTyped, NEW r \in Rounds
    PROVE  IsValue(ProposalHash(r))
<1> DEFINE Read == UNION {BlockRead(wire) : wire \in proposals[r]}
<1>1. \A b, c \in Read : b = c
    BY BlocksSingle DEF ProposalsTyped
<1>2. \A g, h \in ProposalHash(r) : g = h
    BY <1>1, BlocksSingle DEF ProposalHash, BlockHash
<1>3. \A h \in ProposalHash(r) : \E bytes : h = Hash(bytes)
    BY DEF ProposalHash, BlockHash
<1>4. CASE ProposalHash(r) = {}
    BY <1>4 DEF IsValue
<1>5. CASE ProposalHash(r) # {}
    <2>1. PICK h \in ProposalHash(r) : TRUE
        BY <1>5
    <2>2. ProposalHash(r) = {h}
        BY <1>2, <2>1
    <2> QED BY <1>3, <2>1, <2>2 DEF IsValue
<1> QED BY <1>4, <1>5

----------------------------------------------------------------------------
LEMMA RelayInit == ASSUME Init PROVE RelayInv
<1>1. params \in [sigma : Nat, gap : Nat]
    BY RelayAssumption DEF Init, ParametersNew
<1>2. namespace \in [Parties -> Namespaces]
    BY RelayAssumption DEF Init
<1>3. height \in Heights /\ round \in Rounds /\ sent \in 0 .. MaxProposals
    BY RelayAssumption, MaxU32Type DEF Init, Rounds
<1>4. ProposalsTyped
    BY DEF Init, ProposalsTyped
<1>5. CastTyped
    <2> SUFFICES ASSUME NEW c \in cast
                 PROVE  /\ c = [vote |-> c.vote, namespace |-> c.namespace]
                        /\ IsVote(c.vote) /\ c.namespace \in Namespaces
        BY DEF CastTyped
    <2>1. height # 0 /\ c \in PastVotes(height - 1)
        BY DEF Init
    <2>2. PICK f \in Finalizers :
              c = [vote |-> Vote(f, {PastHash}, height - 1, "Precommit", 0),
                   namespace |-> namespace[Proposer]]
        BY <2>1 DEF PastVotes
    <2>3. height - 1 \in Heights
        BY <1>3, <2>1, MaxU32Type DEF Heights
    <2>4. 0 \in Rounds /\ "Precommit" \in VoteKinds
        BY MaxU32Type DEF Rounds, VoteKinds
    <2>5. IsValue({PastHash})
        BY DEF IsValue, PastHash
    <2>6. namespace[Proposer] \in Namespaces
        BY <1>2 DEF Parties
    <2> QED BY <2>2, <2>3, <2>4, <2>5, <2>6 DEF IsVote, Vote
<1>6. WiresSigned /\ AcceptedIsPrecommitted
    BY DEF Init, WiresSigned, AcceptedIsPrecommitted
<1> QED BY <1>1, <1>2, <1>3, <1>4, <1>5, <1>6, MaxU32Type DEF RelayInv, Heights

(* Votes are only added, so what they justify stays justified. *)
LEMMA VotesPersist ==
    ASSUME RelayInv, cast \subseteq cast', UNCHANGED <<namespace, wires, accepted>>
    PROVE  WiresSigned' /\ AcceptedIsPrecommitted'
<1>1. WiresSigned'
    BY DEF RelayInv, WiresSigned, SignatureOf
<1>2. AcceptedIsPrecommitted'
    BY DEF RelayInv, AcceptedIsPrecommitted, Justified
<1> QED BY <1>1, <1>2

LEMMA ProposeStep ==
    ASSUME RelayInv, NEW version, NEW finalizers, NEW headers,
           Propose(version, finalizers, headers)
    PROVE  RelayInv'
<1> USE DEF RelayInv
<1>1. /\ UNCHANGED <<params, namespace, tip, height, round, cast, wires, accepted>>
      /\ sent' = sent + 1 /\ sent < MaxProposals
    BY DEF Propose
<1>2. PICK block : proposals' = [proposals EXCEPT ![round] = BlockWrite(block)]
    BY DEF Propose
<1>3. ProposalsTyped'
    BY <1>2, BlocksSingle DEF ProposalsTyped
<1>4. CastTyped'
    BY <1>1 DEF CastTyped, IsVote
<1>5. WiresSigned' /\ AcceptedIsPrecommitted'
    BY <1>1, VotesPersist
<1>6. (sent \in 0 .. MaxProposals)'
    BY <1>1, RelayAssumption
<1> QED BY <1>1, <1>3, <1>4, <1>5, <1>6

LEMMA NextRoundStep == ASSUME RelayInv, NextRound PROVE RelayInv'
<1> USE DEF RelayInv
<1>1. /\ UNCHANGED <<params, namespace, tip, height, proposals, sent, cast, wires, accepted>>
      /\ round' \in Rounds
    BY DEF NextRound
<1>2. CastTyped' /\ ProposalsTyped'
    BY <1>1 DEF CastTyped, IsVote, ProposalsTyped
<1> QED BY <1>1, <1>2, VotesPersist

LEMMA CastVoteStep ==
    ASSUME RelayInv, NEW f \in Finalizers, NEW kind \in VoteKinds, NEW r \in Rounds,
           CastVote(f, kind, r)
    PROVE  RelayInv'
<1> USE DEF RelayInv
<1> DEFINE new == [vote |-> Vote(f, ProposalHash(r), height, kind, r),
                   namespace |-> namespace[f]]
<1>1. /\ UNCHANGED <<params, namespace, tip, height, round, proposals, sent, wires, accepted>>
      /\ cast' = cast \union {new} /\ height <= MaxU32
    BY DEF CastVote
<1>2. height \in Heights /\ namespace[f] \in Namespaces
    BY <1>1, MaxU32Type DEF Heights, Parties
<1>3. IsVote(new.vote) /\ new.namespace \in Namespaces
    BY <1>2, ProposalHashIsValue DEF IsVote, Vote
<1>4. CastTyped'
    BY <1>1, <1>3 DEF CastTyped, IsVote
<1>5. WiresSigned' /\ AcceptedIsPrecommitted'
    BY <1>1, VotesPersist
<1>6. ProposalsTyped'
    BY <1>1 DEF ProposalsTyped
<1> QED BY <1>1, <1>4, <1>5, <1>6

LEMMA NotarizeStep ==
    ASSUME RelayInv, NEW r \in Rounds, NEW ballots \in SeqOf(cast, MaxSignatures),
           Notarize(r, ballots)
    PROVE  RelayInv'
<1> USE DEF RelayInv
<1> DEFINE entries == [i \in DOMAIN ballots |->
                          [pub_key |-> ballots[i].vote.validator,
                           signature |-> SignatureOf(ballots[i])]]
<1>1. /\ UNCHANGED <<params, namespace, sent, cast, accepted>>
      /\ height' = height + 1 /\ round' = 0 /\ proposals' = [q \in Rounds |-> {}]
      /\ ballots # <<>>
    BY DEF Notarize
<1>2. PICK block : \E notarized \in NotarizedFromParts(block, height, r, entries) :
              /\ wires' = wires \union
                     {[bytes |-> b, hops |-> 0] : b \in NotarizedWrite(notarized)}
              /\ \A c \in ToSet(ballots) : \E hash \in BlockHash(block) : Counts(c, r, hash)
    BY DEF Notarize
<1>3. PICK notarized \in NotarizedFromParts(block, height, r, entries) :
          wires' = wires \union {[bytes |-> b, hops |-> 0] : b \in NotarizedWrite(notarized)}
    BY <1>2
<1>4. PICK n \in Nat : ballots \in [1 .. n -> cast]
    BY DEF SeqOf
<1>5. n # 0
    <2> SUFFICES ASSUME n = 0 PROVE FALSE
        OBVIOUS
    <2>1. ballots \in [{} -> cast]
        BY <1>4
    <2> QED BY <1>1, <2>1
<1>6. height \in Heights
    <2>1. \A c \in ToSet(ballots) : c \in cast /\ c.vote.height \in Heights
        BY <1>4 DEF ToSet, CastTyped, IsVote
    <2>2. PICK c \in ToSet(ballots) : TRUE
        BY <1>4, <1>5 DEF ToSet
    <2>3. PICK hash : Counts(c, r, hash)
        BY <1>2, <2>2
    <2>4. height = VoteToBytes(c.vote).height
        BY <2>3 DEF Counts, VoteFromBytes, Vote
    <2> QED BY <2>1, <2>2, <2>4 DEF VoteToBytes
<1>7. WiresSigned'
    <2> SUFFICES ASSUME NEW w \in wires'
                 PROVE  /\ w.hops \in 0 .. MaxHops
                        /\ w.bytes.fat_ptr.word \in COMMIT_FLAG .. MaxU32
                        /\ \E bytes : w.bytes.fat_ptr.block_hash = Hash(bytes)
                        /\ w.bytes.fat_ptr.signatures # <<>>
                        /\ \A entry \in ToSet(w.bytes.fat_ptr.signatures) :
                              \E c \in cast : entry.signature = SignatureOf(c)
        BY <1>1 DEF WiresSigned, SignatureOf
    <2>1. CASE w \in wires
        BY <2>1 DEF WiresSigned
    <2>2. CASE w \notin wires
        <3>1. PICK b \in NotarizedWrite(notarized) : w = [bytes |-> b, hops |-> 0]
            BY <1>3, <2>2
        <3>2. PICK hash \in BlockHash(block) :
                  notarized.fat_ptr = FatPointerFromParts(hash, height, r, entries)
            BY <1>3 DEF NotarizedFromParts
        <3>3. b.fat_ptr \in FatPointerWrite(notarized.fat_ptr)
            BY <3>1 DEF NotarizedWrite
        <3>4. /\ b.fat_ptr.block_hash = hash /\ b.fat_ptr.signatures = entries
              /\ b.fat_ptr.word = RoundWord("Precommit", r)
            <4> HIDE DEF entries
            <4>1. /\ notarized.fat_ptr.block_hash = hash
                  /\ notarized.fat_ptr.signatures = entries
                  /\ notarized.fat_ptr.kind = "Precommit" /\ notarized.fat_ptr.round = r
                BY <3>2 DEF FatPointerFromParts, FatPointer
            <4> QED BY <3>3, <4>1 DEF FatPointerWrite
        <3>5. RoundWord("Precommit", r) \in COMMIT_FLAG .. MaxU32
            <4>1. r % COMMIT_FLAG = r
                BY MaxU32Type DEF Rounds
            <4> QED BY <4>1, MaxU32Type DEF RoundWord, Rounds
        <3>6. \E bytes : hash = Hash(bytes)
            BY <3>2 DEF BlockHash
        <3>7. entries # <<>>
            BY <1>4, <1>5
        <3>8. \A entry \in ToSet(entries) : \E c \in cast : entry.signature = SignatureOf(c)
            BY <1>4 DEF ToSet
        <3>9. 0 \in 0 .. MaxHops
            BY RelayAssumption
        <3> HIDE DEF entries
        <3> QED BY <3>1, <3>4, <3>5, <3>6, <3>7, <3>8, <3>9
    <2> QED BY <2>1, <2>2
<1>8. AcceptedIsPrecommitted'
    BY <1>1 DEF AcceptedIsPrecommitted, Justified
<1>9. CastTyped' /\ ProposalsTyped'
    BY <1>1 DEF CastTyped, IsVote, ProposalsTyped
<1>10. (height \in 0 .. MaxU32 + 1)' /\ (round \in Rounds)'
    BY <1>1, <1>6, MaxU32Type DEF Heights, Rounds
<1> QED BY <1>1, <1>7, <1>8, <1>9, <1>10

LEMMA RelayStep == ASSUME RelayInv, NEW w \in wires, Relay(w) PROVE RelayInv'
<1> USE DEF RelayInv
<1>1. UNCHANGED <<params, namespace, tip, height, round, proposals, sent, cast, accepted>>
    BY DEF Relay
<1>2. WiresSigned'
    <2> SUFFICES ASSUME NEW x \in wires'
                 PROVE  /\ x.hops \in 0 .. MaxHops
                        /\ x.bytes.fat_ptr.word \in COMMIT_FLAG .. MaxU32
                        /\ \E bytes : x.bytes.fat_ptr.block_hash = Hash(bytes)
                        /\ x.bytes.fat_ptr.signatures # <<>>
                        /\ \A entry \in ToSet(x.bytes.fat_ptr.signatures) :
                              \E c \in cast : entry.signature = SignatureOf(c)
        BY <1>1 DEF WiresSigned, SignatureOf
    <2>1. CASE x \in wires
        BY <2>1 DEF WiresSigned
    <2>2. CASE x \notin wires
        <3>1. PICK n \in NotarizedRead(w.bytes) : \E b \in NotarizedWrite(n) :
                  x = [bytes |-> b, hops |-> w.hops + 1]
            BY <2>2 DEF Relay
        <3> PICK b \in NotarizedWrite(n) : x = [bytes |-> b, hops |-> w.hops + 1]
            BY <3>1
        <3>2. /\ n.fat_ptr \in FatPointerRead(w.bytes.fat_ptr)
              /\ b.fat_ptr \in FatPointerWrite(n.fat_ptr)
            BY <3>1 DEF NotarizedRead, NotarizedWrite
        <3> DEFINE word == w.bytes.fat_ptr.word
        <3>3. /\ b.fat_ptr.block_hash = w.bytes.fat_ptr.block_hash
              /\ b.fat_ptr.signatures = w.bytes.fat_ptr.signatures
              /\ b.fat_ptr.word = RoundWord(KindOfWord(word), RoundOfWord(word))
            BY <3>2 DEF FatPointerWrite, FatPointerRead, FatPointer
        <3>4. word \in COMMIT_FLAG .. MaxU32
            BY DEF WiresSigned
        <3>5. b.fat_ptr.word \in COMMIT_FLAG .. MaxU32
            BY <3>3, <3>4, WordsReadBack
        <3>6. w.hops + 1 \in 0 .. MaxHops
            BY RelayAssumption DEF Relay, WiresSigned
        <3> QED BY <3>1, <3>3, <3>5, <3>6 DEF WiresSigned
    <2> QED BY <2>1, <2>2
<1>3. AcceptedIsPrecommitted'
    BY <1>1 DEF AcceptedIsPrecommitted, Justified
<1>4. CastTyped' /\ ProposalsTyped'
    BY <1>1 DEF CastTyped, IsVote, ProposalsTyped
<1> QED BY <1>1, <1>2, <1>3, <1>4

LEMMA AcceptStep == ASSUME RelayInv, NEW w \in wires, Accept(w) PROVE RelayInv'
<1> USE DEF RelayInv
<1>1. UNCHANGED <<params, namespace, tip, height, round, proposals, sent, cast, wires>>
    BY DEF Accept
<1> DEFINE ns == namespace[Receiver]
<1>2. PICK n \in NotarizedRead(w.bytes) :
          Valid(n, ns) /\ accepted' = accepted \union {n}
    BY DEF Accept
<1> DEFINE pointer == w.bytes.fat_ptr
<1>3. n.fat_ptr = FatPointer(pointer.block_hash, pointer.height, RoundOfWord(pointer.word),
                             KindOfWord(pointer.word), pointer.signatures)
    BY <1>2 DEF NotarizedRead, FatPointerRead
<1>4. /\ pointer.word \in COMMIT_FLAG .. MaxU32 /\ pointer.signatures # <<>>
      /\ \A entry \in ToSet(pointer.signatures) :
            \E c \in cast : entry.signature = SignatureOf(c)
    BY DEF WiresSigned
<1>5. PICK bytes : pointer.block_hash = Hash(bytes)
    BY DEF WiresSigned
<1>6. KindOfWord(pointer.word) = "Precommit" /\ RoundOfWord(pointer.word) \in Rounds
    BY <1>4, WordsReadBack
<1> HIDE DEF pointer, ns
<1>7. ASSUME NEW entry \in ToSet(n.fat_ptr.signatures)
      PROVE  [vote |-> Vote(entry.pub_key, {n.fat_ptr.block_hash}, n.fat_ptr.height,
                            "Precommit", n.fat_ptr.round),
              namespace |-> ns] \in cast
    <2>1. entry.signature = Signature(entry.pub_key, VoteToBytes(InflateEntry(n.fat_ptr, entry)), ns)
        BY <1>2, <1>7 DEF Valid, VerifySignatures, VerifyWithNamespace
    <2>2. PICK c \in cast : entry.signature = SignatureOf(c)
        BY <1>3, <1>4, <1>7 DEF FatPointer
    <2>3. IsVote(c.vote) /\ c = [vote |-> c.vote, namespace |-> c.namespace]
        BY <2>2 DEF CastTyped
    <2>4. InflateEntry(n.fat_ptr, entry) =
              Vote(entry.pub_key, ValueOf(Hash(bytes)), n.fat_ptr.height, "Precommit",
                   n.fat_ptr.round)
        BY <1>3, <1>5, <1>6 DEF InflateEntry, FatPointer
    <2>5. n.fat_ptr.round \in Rounds /\ n.fat_ptr.block_hash = Hash(bytes)
        BY <1>3, <1>5, <1>6 DEF FatPointer
    <2>6. SignatureOf(c) = Signature(entry.pub_key,
              VoteToBytes(Vote(entry.pub_key, ValueOf(Hash(bytes)), n.fat_ptr.height,
                               "Precommit", n.fat_ptr.round)), ns)
        BY <2>1, <2>2, <2>4
    <2>7. c = [vote |-> Vote(entry.pub_key, {Hash(bytes)}, n.fat_ptr.height, "Precommit",
                             n.fat_ptr.round),
               namespace |-> ns]
        BY <2>3, <2>5, <2>6, VerifiedIsCast
    <2> QED BY <2>2, <2>5, <2>7
<1>8. Justified(n.fat_ptr, ns)
    <2>1. n.fat_ptr.kind = "Precommit" /\ n.fat_ptr.signatures # <<>>
        BY <1>3, <1>4, <1>6 DEF FatPointer
    <2> QED BY <1>7, <2>1 DEF Justified
<1>9. AcceptedIsPrecommitted'
    BY <1>1, <1>2, <1>8 DEF AcceptedIsPrecommitted, Justified, ns
<1>10. CastTyped' /\ ProposalsTyped' /\ WiresSigned'
    BY <1>1 DEF CastTyped, IsVote, ProposalsTyped, WiresSigned, SignatureOf
<1> QED BY <1>1, <1>9, <1>10

LEMMA RelayNext == ASSUME RelayInv, [Next]_vars PROVE RelayInv'
<1>1. CASE UNCHANGED vars
    BY <1>1 DEF vars, RelayInv, CastTyped, IsVote, ProposalsTyped, WiresSigned, SignatureOf,
                AcceptedIsPrecommitted, Justified
<1>2. CASE Next
    BY <1>2, ProposeStep, NextRoundStep, CastVoteStep, NotarizeStep, RelayStep, AcceptStep
       DEF Next
<1> QED BY <1>1, <1>2

----------------------------------------------------------------------------
(* The types of the state: heights and rounds stay in the range of BftHeight *)
(* and Round, and votes have the fields that Vote::new gives them.           *)
THEOREM RelayTypeCorrect == Spec => []TypeOK
<1>1. Init => RelayInv
    BY RelayInit
<1>2. RelayInv /\ [Next]_vars => RelayInv'
    BY RelayNext
<1>3. RelayInv => TypeOK
    BY DEF RelayInv, TypeOK, CastTyped, IsVote, ProposalsTyped, WiresSigned
<1> QED BY <1>1, <1>2, <1>3, PTL DEF Spec

(* Whatever the receiver accepts through NotarizedBftBlock::read,            *)
(* check_stateless and verify_signatures was precommitted, under its own     *)
(* namespace, by every finalizer that the fat pointer names.                 *)
THEOREM CertificateSoundness == Spec => []AcceptedIsPrecommitted
<1>1. Init => RelayInv
    BY RelayInit
<1>2. RelayInv /\ [Next]_vars => RelayInv'
    BY RelayNext
<1>3. RelayInv => AcceptedIsPrecommitted
    BY DEF RelayInv
<1> QED BY <1>1, <1>2, <1>3, PTL DEF Spec

----------------------------------------------------------------------------
(* The second invariant: certificates belong to their blocks, and blocks to  *)
(* the chain.                                                                *)

PointerTyped(p) ==
    /\ p = FatPointer(p.block_hash, p.height, p.round, p.kind, p.signatures)
    /\ p.round \in Rounds /\ p.kind \in VoteKinds

(* What the proposer builds on at a height. *)
Certifies(pointer, at, ns) ==
    IF at = 0 THEN pointer = NullFatPointer
    ELSE pointer.height = at - 1 /\ Justified(pointer, ns) /\ VerifySignatures(pointer, ns)

TipStands == PointerTyped(tip) /\ Certifies(tip, height, namespace[Proposer])

HeadersTyped(headers) ==
    /\ headers = [i \in DOMAIN headers |-> headers[i]]
    /\ \A i \in DOMAIN headers : IsHeader(headers[i])

ProposalStands(wire) ==
    /\ wire = Block(wire.version, wire.hardforks, wire.bound,
                    IF wire.version = 1 THEN height + 1 ELSE height, wire.previous, wire.headers)
    /\ FatPointerWrite(tip) = {wire.previous}
    /\ HeadersTyped(wire.headers) /\ CheckHeaders(params, wire.headers)
    /\ ~(Len(wire.hardforks) > MAX_HARDFORKS_PER_BLOCK)
    /\ wire.version = 1 => height # MaxU32
    /\ wire.bound = 0
    /\ \E choice \in BlockChoices : wire.hardforks \in Hardforks(choice[2])

(* A notarized block as it should be. *)
Stands(n, ns) ==
    /\ Valid(n, ns)
    /\ BlockHash(n.block) = {n.fat_ptr.block_hash}
    /\ n.fat_ptr.height = n.block.height
    /\ Certifies(n.block.previous, n.block.height, ns)

BundleStands(bytes) ==
    \E n \in NotarizedRead(bytes) :
        /\ NotarizedRead(bytes) = {n} /\ NotarizedWrite(n) = {bytes}
        /\ ToSet(n.fat_ptr.signatures) # {}
        /\ Stands(n, namespace[Proposer])

ChainInv ==
    /\ RelayInv
    /\ TipStands
    /\ \A r \in Rounds : \A wire \in proposals[r] : ProposalStands(wire)
    /\ \A w \in wires : BundleStands(w.bytes)
    /\ \A n \in accepted : Stands(n, namespace[Receiver])

----------------------------------------------------------------------------
LEMMA WordRoundTrip ==
    ASSUME NEW word \in 0 .. MaxU32
    PROVE  RoundWord(KindOfWord(word), RoundOfWord(word)) = word
<1>1. COMMIT_FLAG \in Nat \ {0} /\ word \in Nat /\ word <= 2 * COMMIT_FLAG - 1
    BY MaxU32Type
<1>2. CASE word >= COMMIT_FLAG
    <2>1. word % COMMIT_FLAG = word - COMMIT_FLAG
        BY <1>1, <1>2
    <2>2. (word % COMMIT_FLAG) % COMMIT_FLAG = word - COMMIT_FLAG
        BY <1>1, <1>2, <2>1
    <2> QED BY <1>1, <1>2, <2>2 DEF RoundWord, KindOfWord, RoundOfWord
<1>3. CASE word < COMMIT_FLAG
    <2>1. word % COMMIT_FLAG = word
        BY <1>1, <1>3
    <2> QED BY <1>1, <1>3, <2>1 DEF RoundWord, KindOfWord, RoundOfWord
<1> QED BY <1>1, <1>2, <1>3

(* A fat pointer that write accepts is read as it was. *)
LEMMA PointerReadsBack ==
    ASSUME NEW p, PointerTyped(p), NEW w \in FatPointerWrite(p)
    PROVE  /\ w.height = p.height /\ FatPointerWrite(p) = {w}
           /\ FatPointerRead(w) = IF p.height > MaxU32 THEN {} ELSE {p}
<1>1. w = [block_hash |-> p.block_hash, height |-> p.height,
           word |-> RoundWord(p.kind, p.round), signatures |-> p.signatures]
    BY DEF FatPointerWrite
<1>2. FatPointerWrite(p) = {w}
    BY DEF FatPointerWrite
<1>3. KindOfWord(w.word) = p.kind /\ RoundOfWord(w.word) = p.round
    <2>1. p.round % COMMIT_FLAG = p.round /\ p.round \in 0 .. COMMIT_FLAG - 1
        BY MaxU32Type DEF PointerTyped, Rounds
    <2>2. CASE p.kind = "Precommit"
        <3>1. w.word = p.round + COMMIT_FLAG
            BY <1>1, <2>1, <2>2 DEF RoundWord
        <3>2. (p.round + COMMIT_FLAG) % COMMIT_FLAG = p.round
            BY <2>1, MaxU32Type
        <3> QED BY <2>1, <2>2, <3>1, <3>2, MaxU32Type DEF KindOfWord, RoundOfWord
    <2>3. CASE p.kind = "Prevote"
        <3>1. w.word = p.round
            BY <1>1, <2>1, <2>3, MaxU32Type DEF RoundWord
        <3> QED BY <2>1, <2>3, <3>1, MaxU32Type DEF KindOfWord, RoundOfWord
    <2> QED BY <2>2, <2>3 DEF PointerTyped, VoteKinds
<1>4. w.block_hash = p.block_hash /\ w.height = p.height /\ w.signatures = p.signatures
    BY <1>1
<1> QED BY <1>2, <1>3, <1>4 DEF FatPointerRead, PointerTyped

(* A header that EncodedPowHeader::read accepts is kept as it is. *)
LEMMA HeaderReadsItself ==
    ASSUME NEW h, IsHeader(h), HeaderRead(h) # {}
    PROVE  HeaderRead(h) = {h}
<1> DEFINE w == h.fat_pointer
           R == UNION {FatPointerWrite(p) : p \in FatPointerRead(w)}
<1>1. HeaderRead(h) = {[h EXCEPT !.fat_pointer = rewritten] : rewritten \in R}
    BY DEF HeaderRead
<1>2. \A r \in R : r = w
    <2> SUFFICES ASSUME NEW p \in FatPointerRead(w), NEW r \in FatPointerWrite(p)
                 PROVE  r = w
        OBVIOUS
    <2>1. w.word \in 0 .. MaxU32
        BY DEF IsHeader
    <2> HIDE DEF w
    <2>2. p = FatPointer(w.block_hash, w.height, RoundOfWord(w.word), KindOfWord(w.word), w.signatures)
        BY DEF FatPointerRead
    <2>3. /\ p.block_hash = w.block_hash /\ p.height = w.height /\ p.signatures = w.signatures
          /\ RoundWord(p.kind, p.round) = w.word
        BY <2>1, <2>2, WordRoundTrip DEF FatPointer
    <2>4. r = [block_hash |-> w.block_hash, height |-> w.height, word |-> w.word,
               signatures |-> w.signatures]
        BY <2>3 DEF FatPointerWrite
    <2> QED BY <2>4 DEF IsHeader, w
<1>3. [h EXCEPT !.fat_pointer = w] = h
    <2>1. PICK a, b, c, d, e : h = Header(a, b, c, d, e)
        BY DEF IsHeader
    <2>2. h.fat_pointer = e
        BY <2>1 DEF Header
    <2> QED BY <2>1, <2>2 DEF Header
<1> HIDE DEF w, R
<1>4. R = {w}
    BY <1>1, <1>2
<1> QED BY <1>1, <1>3, <1>4

LEMMA BlockFields ==
    ASSUME NEW ve, NEW hf, NEW bo, NEW he, NEW pr, NEW hs
    PROVE  LET b == Block(ve, hf, bo, he, pr, hs)
           IN  /\ b.version = ve /\ b.hardforks = hf /\ b.bound = bo /\ b.height = he
               /\ b.previous = pr /\ b.headers = hs
               /\ \A x : [b EXCEPT !.height = x] = Block(ve, hf, bo, x, pr, hs)
               /\ \A x : [b EXCEPT !.previous = x] = Block(ve, hf, bo, he, x, hs)
               /\ \A x : [b EXCEPT !.headers = x] = Block(ve, hf, bo, he, pr, x)
BY DEF Block

LEMMA BlockWritten ==
    ASSUME NEW b, NEW ve, NEW hf, NEW bo, NEW he, NEW pr, NEW hs,
           b = Block(ve, hf, bo, he, pr, hs), NEW w \in BlockWrite(b)
    PROVE  \E p \in FatPointerWrite(pr) :
              w = Block(ve, hf, bo, IF ve = 1 THEN he + 1 ELSE he, p, hs)
<1>1. /\ b.version = ve /\ b.height = he /\ b.previous = pr
      /\ \A x : [b EXCEPT !.height = x] = Block(ve, hf, bo, x, pr, hs)
    BY BlockFields
<1>2. PICK p \in FatPointerWrite(b.previous) :
        w = [b EXCEPT !.height = IF b.version = 1 THEN b.height + 1 ELSE b.height, !.previous = p]
    BY DEF BlockWrite
<1> DEFINE x == IF b.version = 1 THEN b.height + 1 ELSE b.height
           c == [b EXCEPT !.height = x]
<1>3. w = [c EXCEPT !.previous = p]
    BY <1>2, Zenon
<1>4. c = Block(ve, hf, bo, x, pr, hs)
    BY <1>1
<1> HIDE DEF c
<1>5. w = Block(ve, hf, bo, x, p, hs)
    BY <1>3, <1>4, BlockFields
<1> QED BY <1>1, <1>2, <1>5

(* A proposal that BftBlock::read accepts is the block that was proposed,    *)
(* and is written as the same bytes: the height of version 1 is normalised   *)
(* and back, and header and tip keep their fat pointers.                     *)
LEMMA ProposalReadsBack ==
    ASSUME PointerTyped(tip), height \in Nat, NEW wire, ProposalStands(wire),
           NEW block \in BlockRead(wire)
    PROVE  /\ BlockRead(wire) = {block}
           /\ block = Block(wire.version, wire.hardforks, wire.bound, height, tip, wire.headers)
           /\ BlockWrite(block) = {wire}
<1>1. PICK ve, hf, bo, he, pr, hs :
        /\ wire = Block(ve, hf, bo, he, pr, hs)
        /\ he = IF wire.version = 1 THEN height + 1 ELSE height
    BY DEF ProposalStands
<1>2. /\ wire.version = ve /\ wire.hardforks = hf /\ wire.bound = bo /\ wire.height = he
      /\ wire.previous = pr /\ wire.headers = hs
      /\ \A x : [wire EXCEPT !.height = x] = Block(ve, hf, bo, x, pr, hs)
    BY <1>1, BlockFields
<1> DEFINE read == [i \in DOMAIN wire.headers |-> CHOOSE h \in HeaderRead(wire.headers[i]) : TRUE]
           x == IF wire.version = 1 THEN wire.height - 1 ELSE wire.height
<1>3. x = height
    BY <1>1, <1>2
<1>4. read = wire.headers
    <2>1. \A i \in DOMAIN wire.headers : HeaderRead(wire.headers[i]) = {wire.headers[i]}
        <3>1. \A i \in DOMAIN wire.headers : HeaderRead(wire.headers[i]) # {}
            BY DEF BlockRead
        <3> QED BY <3>1, HeaderReadsItself DEF ProposalStands, HeadersTyped
    <2> DEFINE headers == wire.headers
    <2>2. \A i \in DOMAIN headers : (CHOOSE h \in HeaderRead(headers[i]) : TRUE) = headers[i]
        <3> SUFFICES ASSUME NEW i \in DOMAIN headers
                     PROVE  (CHOOSE h \in HeaderRead(headers[i]) : TRUE) = headers[i]
            OBVIOUS
        <3>1. HeaderRead(headers[i]) = {headers[i]}
            BY <2>1
        <3> QED BY <3>1
    <2>3. headers = [i \in DOMAIN headers |-> headers[i]]
        BY DEF ProposalStands, HeadersTyped
    <2> QED BY <2>2, <2>3
<1>5. FatPointerRead(wire.previous) \subseteq {tip}
    <2>1. wire.previous \in FatPointerWrite(tip)
        BY DEF ProposalStands
    <2> QED BY <2>1, PointerReadsBack
<1> DEFINE ReadAs(p) ==
        [wire EXCEPT !.height = IF wire.version = 1 THEN @ - 1 ELSE @,
                     !.previous = p,
                     !.headers = [i \in DOMAIN @ |-> CHOOSE h \in HeaderRead(@[i]) : TRUE]]
<1>6. BlockRead(wire) = {ReadAs(p) : p \in FatPointerRead(wire.previous)}
    BY DEF BlockRead
<1>7. ReadAs(tip) = Block(ve, hf, bo, height, tip, hs)
    <2> DEFINE c == [wire EXCEPT !.height = x]
               d == [c EXCEPT !.previous = tip]
    <2>1. ReadAs(tip) = [d EXCEPT !.headers = read]
        BY Zenon
    <2>2. c = Block(ve, hf, bo, height, pr, hs)
        BY <1>2, <1>3
    <2> HIDE DEF c, read
    <2>3. d = Block(ve, hf, bo, height, tip, hs)
        BY <2>2, BlockFields
    <2> HIDE DEF d
    <2>4. [d EXCEPT !.headers = read] = Block(ve, hf, bo, height, tip, read)
        BY <2>3, BlockFields
    <2> QED BY <1>2, <1>4, <2>1, <2>4, Zenon
<1> HIDE DEF ReadAs
<1>8. BlockRead(wire) = {block} /\ block = Block(ve, hf, bo, height, tip, hs)
    BY <1>5, <1>6, <1>7
<1>9. BlockWrite(block) = {wire}
    <2>1. \A w \in BlockWrite(block) : w = wire
        <3> TAKE w \in BlockWrite(block)
        <3>1. PICK p \in FatPointerWrite(tip) :
                w = Block(ve, hf, bo, IF ve = 1 THEN height + 1 ELSE height, p, hs)
            BY <1>8, BlockWritten
        <3>2. p = pr
            BY <1>2 DEF ProposalStands
        <3> QED BY <1>1, <1>2, <3>1, <3>2
    <2>2. BlockWrite(block) # {}
        <3>1. block.version = ve /\ block.height = height /\ block.hardforks = hf /\ block.previous = tip
            BY <1>8, BlockFields
        <3>2. /\ ~(ve = 1 /\ height = MaxU32) /\ ~(Len(hf) > MAX_HARDFORKS_PER_BLOCK)
              /\ FatPointerWrite(tip) # {}
            BY <1>2 DEF ProposalStands
        <3> QED BY <3>1, <3>2 DEF BlockWrite
    <2> QED BY <2>1, <2>2
<1> QED BY <1>2, <1>8, <1>9

(* A certificate of votes that were cast is justified and verifies. *)
CertifiedBy(entry, bytes, at, r, ns) ==
    \E c \in cast :
        /\ entry = [pub_key |-> c.vote.validator, signature |-> SignatureOf(c)]
        /\ c = [vote |-> Vote(c.vote.validator, {Hash(bytes)}, at, "Precommit", r), namespace |-> ns]

LEMMA CertificateStands ==
    ASSUME NEW bytes, NEW at, NEW r \in Rounds, NEW ns, NEW entries,
           ToSet(entries) # {}, \A entry \in ToSet(entries) : CertifiedBy(entry, bytes, at, r, ns),
           NEW pointer, pointer = FatPointerFromParts(Hash(bytes), at, r, entries)
    PROVE  /\ PointerTyped(pointer) /\ pointer.height = at /\ pointer.block_hash = Hash(bytes)
           /\ pointer.signatures = entries
           /\ Justified(pointer, ns) /\ VerifySignatures(pointer, ns)
<1>1. /\ pointer.block_hash = Hash(bytes) /\ pointer.height = at /\ pointer.round = r
      /\ pointer.kind = "Precommit" /\ pointer.signatures = entries
    BY DEF FatPointerFromParts, FatPointer
<1>2. PointerTyped(pointer)
    BY <1>1 DEF PointerTyped, FatPointerFromParts, FatPointer, VoteKinds
<1>3. Hash(bytes) # ZeroHash
    BY DEF Hash, ZeroHash
<1>4. ASSUME NEW entry \in ToSet(entries)
      PROVE  /\ [vote |-> Vote(entry.pub_key, {Hash(bytes)}, at, "Precommit", r), namespace |-> ns] \in cast
             /\ VerifyWithNamespace(entry.signature, entry.pub_key,
                                    VoteToBytes(InflateEntry(pointer, entry)), ns)
    <2>1. PICK c \in cast :
            /\ entry = [pub_key |-> c.vote.validator, signature |-> SignatureOf(c)]
            /\ c = [vote |-> Vote(c.vote.validator, {Hash(bytes)}, at, "Precommit", r), namespace |-> ns]
        BY <1>4 DEF CertifiedBy
    <2> DEFINE key == c.vote.validator
               vote == Vote(key, {Hash(bytes)}, at, "Precommit", r)
    <2> HIDE DEF key
    <2>2. entry.pub_key = key /\ entry.signature = SignatureOf(c)
        BY <2>1 DEF key
    <2>3. c = [vote |-> vote, namespace |-> ns]
        BY <2>1 DEF key
    <2>4. InflateEntry(pointer, entry) = vote
        BY <1>1, <1>3, <2>2 DEF InflateEntry, ValueOf
    <2>5. vote.validator = key
        BY DEF Vote
    <2> HIDE DEF vote
    <2>6. c.vote = vote /\ c.namespace = ns
        BY <2>3
    <2>7. SignatureOf(c) = Signature(key, VoteToBytes(vote), ns)
        BY <2>5, <2>6 DEF SignatureOf
    <2> QED BY <2>1, <2>2, <2>3, <2>4, <2>7 DEF VerifyWithNamespace, vote
<1>5. entries # <<>>
    BY DEF ToSet
<1>6. Justified(pointer, ns)
    BY <1>1, <1>4, <1>5 DEF Justified
<1>7. VerifySignatures(pointer, ns)
    BY <1>1, <1>4 DEF VerifySignatures
<1> QED BY <1>1, <1>2, <1>6, <1>7

(* What the proposer counts was cast for its block. *)
LEMMA CountedIsCast ==
    ASSUME CastTyped, NEW c \in cast, NEW r \in Rounds, NEW bytes, Counts(c, r, Hash(bytes))
    PROVE  c = [vote |-> Vote(c.vote.validator, {Hash(bytes)}, height, "Precommit", r),
                namespace |-> namespace[Proposer]]
<1>1. IsVote(c.vote) /\ c = [vote |-> c.vote, namespace |-> c.namespace]
    BY DEF CastTyped
<1>2. PICK vote \in VoteFromBytes(VoteToBytes(c.vote)) :
        /\ SignedVoteVerify(vote, SignatureOf(c), namespace[Proposer])
        /\ vote.value = {Hash(bytes)} /\ vote.height = height /\ vote.round = r
        /\ vote.kind = "Precommit"
    BY DEF Counts
<1> DEFINE key == c.vote.validator
<1>3. PICK v, a, k, q : vote = Vote(key, v, a, k, q)
    BY <1>2 DEF VoteFromBytes, VoteToBytes
<1> HIDE DEF key
<1>4. vote = Vote(key, {Hash(bytes)}, height, "Precommit", r) /\ vote.validator = key
    BY <1>2, <1>3 DEF Vote
<1>5. ValueOf(Hash(bytes)) = {Hash(bytes)}
    BY DEF ValueOf, Hash, ZeroHash
<1>6. SignatureOf(c) = Signature(key,
        VoteToBytes(Vote(key, ValueOf(Hash(bytes)), height, "Precommit", r)), namespace[Proposer])
    BY <1>2, <1>4, <1>5 DEF SignedVoteVerify, VerifyWithNamespace
<1>7. c = [vote |-> Vote(key, {Hash(bytes)}, height, "Precommit", r), namespace |-> namespace[Proposer]]
    BY <1>1, <1>6, VerifiedIsCast
<1> QED BY <1>7 DEF key

(* Votes are only added. *)
LEMMA CertificatesPersist ==
    ASSUME cast \subseteq cast', UNCHANGED <<params, namespace>>
    PROVE  /\ \A pointer, at, ns : Certifies(pointer, at, ns) => Certifies(pointer, at, ns)'
           /\ \A n, ns : Stands(n, ns) => Stands(n, ns)'
           /\ \A bytes : BundleStands(bytes) => BundleStands(bytes)'
<1>1. \A pointer, at, ns : Certifies(pointer, at, ns) => Certifies(pointer, at, ns)'
    BY DEF Certifies, Justified
<1>2. \A n, ns : Stands(n, ns) => Stands(n, ns)'
    BY <1>1 DEF Stands, Valid
<1>3. \A bytes : BundleStands(bytes) => BundleStands(bytes)'
    <2> SUFFICES ASSUME NEW bytes, BundleStands(bytes) PROVE BundleStands(bytes)'
        OBVIOUS
    <2>1. PICK n \in NotarizedRead(bytes) :
            /\ NotarizedRead(bytes) = {n} /\ NotarizedWrite(n) = {bytes}
            /\ ToSet(n.fat_ptr.signatures) # {} /\ Stands(n, namespace[Proposer])
        BY DEF BundleStands
    <2>2. Stands(n, namespace[Proposer])'
        BY <2>1 DEF Stands, Valid, Certifies, Justified
    <2> QED BY <2>1, <2>2 DEF BundleStands
<1> QED BY <1>1, <1>2, <1>3

----------------------------------------------------------------------------
LEMMA ChainInit == ASSUME Init PROVE ChainInv
<1>1. RelayInv
    BY RelayInit
<1>2. CASE height = 0
    <2>1. tip = NullFatPointer
        BY <1>2 DEF Init
    <2>2. PointerTyped(tip)
        BY <2>1, MaxU32Type DEF PointerTyped, NullFatPointer, FatPointer, VoteKinds, Rounds
    <2>3. TipStands
        BY <1>2, <2>1, <2>2 DEF TipStands, Certifies
    <2> QED BY <1>1, <2>3 DEF Init, ChainInv
<1>3. CASE height # 0
    <2> DEFINE at == height - 1
               S == {[pub_key |-> c.vote.validator, signature |-> SignatureOf(c)] : c \in cast}
               entries == SetToSeq(S)
               bytes == [version |-> 1]
               ns == namespace[Proposer]
    <2>1. cast = PastVotes(at) /\ cast # {} /\ tip = FatPointerFromParts(Hash(bytes), at, 0, entries)
        BY <1>3 DEF Init, PastCertificate, PastHash
    <2>2. IsFiniteSet(S)
        <3> DEFINE F == {g \in Finalizers : namespace[g] = ns}
                   vote(f) == [vote |-> Vote(f, {PastHash}, at, "Precommit", 0), namespace |-> ns]
                   entry(f) == [pub_key |-> vote(f).vote.validator, signature |-> SignatureOf(vote(f))]
        <3>1. IsFiniteSet(F)
            BY RelayAssumption, FS_Subset
        <3>2. cast = {vote(f) : f \in F}
            BY <2>1 DEF PastVotes
        <3> HIDE DEF F, vote
        <3>3. S = {entry(f) : f \in F}
            BY <3>2
        <3> DEFINE g == [f \in F |-> entry(f)]
        <3> HIDE DEF entry
        <3>4. g \in Surjection(F, S)
            BY <3>3 DEF Surjection
        <3> QED BY <3>1, <3>4, FS_Surjection
    <2>3. /\ entries \in [1 .. Cardinality(S) -> S] /\ Cardinality(S) \in Nat /\ Cardinality(S) # 0
        <3>1. Cardinality(S) \in Nat /\ ExistsBijection(1 .. Cardinality(S), S)
            BY <2>2, FS_CardinalityType
        <3>2. \E f \in [1 .. Cardinality(S) -> S] : IsInjective(f)
            BY <3>1 DEF ExistsBijection, Bijection, Injection, IsInjective
        <3>3. entries \in [1 .. Cardinality(S) -> S]
            BY <3>2 DEF SetToSeq
        <3>4. S # {}
            BY <2>1
        <3> HIDE DEF S
        <3>5. Cardinality(S) # 0
            BY <2>2, <3>4, FS_EmptySet
        <3> QED BY <3>1, <3>3, <3>5
    <2>4. ASSUME NEW entry \in S PROVE CertifiedBy(entry, bytes, at, 0, ns)
        <3>1. PICK c \in cast : entry = [pub_key |-> c.vote.validator, signature |-> SignatureOf(c)]
            BY <2>4
        <3>2. PICK f \in Finalizers :
                c = [vote |-> Vote(f, {PastHash}, at, "Precommit", 0), namespace |-> ns]
            BY <2>1, <3>1 DEF PastVotes
        <3>3. c.vote.validator = f
            BY <3>2 DEF Vote
        <3> QED BY <3>1, <3>2, <3>3 DEF CertifiedBy, PastHash
    <2> HIDE DEF S, at, bytes, ns
    <2>5. ToSet(entries) # {} /\ ToSet(entries) \subseteq S
        <3> HIDE DEF entries
        <3> QED BY <2>3 DEF ToSet
    <2>6. 0 \in Rounds
        BY MaxU32Type DEF Rounds
    <2> HIDE DEF entries
    <2>7. /\ PointerTyped(tip) /\ tip.height = at /\ Justified(tip, ns) /\ VerifySignatures(tip, ns)
        BY <2>1, <2>4, <2>5, <2>6, CertificateStands
    <2>8. TipStands
        BY <1>3, <2>7 DEF TipStands, Certifies, at, ns
    <2> QED BY <1>1, <2>8 DEF Init, ChainInv
<1> QED BY <1>2, <1>3

LEMMA ChainProposeStep ==
    ASSUME ChainInv, NEW choice \in BlockChoices, NEW headers \in HeaderChoices,
           Propose(choice[1], choice[2], headers), RelayInv'
    PROVE  ChainInv'
<1> DEFINE version == choice[1]
           finalizers == choice[2]
<1>1. UNCHANGED <<params, namespace, tip, height, round, cast, wires, accepted>>
    BY DEF Propose
<1>2. PICK hardforks \in Hardforks(finalizers) :
        \E block \in BlockNew(params, version, hardforks, 0, height, tip, headers) :
            BlockWrite(block) # {} /\ proposals' = [proposals EXCEPT ![round] = BlockWrite(block)]
    BY DEF Propose
<1>3. PICK block \in BlockNew(params, version, hardforks, 0, height, tip, headers) :
        BlockWrite(block) # {} /\ proposals' = [proposals EXCEPT ![round] = BlockWrite(block)]
    BY <1>2
<1>4. /\ block = Block(version, hardforks, 0, height, tip, headers)
      /\ ~(Len(hardforks) > MAX_HARDFORKS_PER_BLOCK) /\ CheckHeaders(params, headers)
    BY <1>3 DEF BlockNew
<1>5. ASSUME NEW wire \in BlockWrite(block) PROVE ProposalStands(wire)
    <2>1. PICK p \in FatPointerWrite(tip) :
            wire = Block(version, hardforks, 0, IF version = 1 THEN height + 1 ELSE height, p, headers)
        BY <1>4, BlockWritten
    <2>2. /\ wire.version = version /\ wire.hardforks = hardforks /\ wire.bound = 0
          /\ wire.previous = p /\ wire.headers = headers
        BY <2>1, BlockFields
    <2>3. version = 1 => height # MaxU32
        <3>1. block.version = version /\ block.height = height
            BY <1>4, BlockFields
        <3> QED BY <1>3, <3>1 DEF BlockWrite
    <2>4. HeadersTyped(headers)
        BY RelayAssumption DEF HeadersTyped
    <2>5. FatPointerWrite(tip) = {p}
        BY PointerReadsBack DEF ChainInv, TipStands
    <2>6. wire = Block(wire.version, wire.hardforks, wire.bound,
                       IF wire.version = 1 THEN height + 1 ELSE height, wire.previous, wire.headers)
        BY <2>1, <2>2
    <2> QED BY <1>4, <2>2, <2>3, <2>4, <2>5, <2>6 DEF ProposalStands
<1>6. ASSUME NEW r \in Rounds, NEW wire \in proposals'[r] PROVE ProposalStands(wire)
    BY <1>3, <1>5 DEF ChainInv, RelayInv, ProposalsTyped
<1>7. (\A r \in Rounds : \A wire \in proposals[r] : ProposalStands(wire))'
    BY <1>1, <1>6 DEF ProposalStands
<1>8. TipStands' /\ (\A w \in wires : BundleStands(w.bytes))' /\ (\A n \in accepted : Stands(n, namespace[Receiver]))'
    BY <1>1 DEF ChainInv, TipStands, BundleStands, Stands, Certifies, Justified, Valid
<1> QED BY <1>7, <1>8 DEF ChainInv

(* Steps that leave tip, height and proposals alone, and take away no vote. *)
LEMMA ChainIdleStep ==
    ASSUME ChainInv, RelayInv', cast \subseteq cast',
           UNCHANGED <<params, namespace, tip, height, proposals, wires, accepted>>
    PROVE  ChainInv'
<1>1. TipStands'
    BY CertificatesPersist DEF ChainInv, TipStands, Certifies, Justified
<1>2. (\A r \in Rounds : \A wire \in proposals[r] : ProposalStands(wire))'
    BY DEF ChainInv, ProposalStands
<1>3. (\A w \in wires : BundleStands(w.bytes))'
    BY CertificatesPersist DEF ChainInv
<1>4. (\A n \in accepted : Stands(n, namespace[Receiver]))'
    BY DEF ChainInv, Stands, Certifies, Justified, Valid
<1> QED BY <1>1, <1>2, <1>3, <1>4 DEF ChainInv

LEMMA ChainNotarizeStep ==
    ASSUME ChainInv, NEW r \in Rounds, NEW ballots \in SeqOf(cast, MaxSignatures),
           Notarize(r, ballots), RelayInv'
    PROVE  ChainInv'
<1> DEFINE entries == [i \in DOMAIN ballots |->
                          [pub_key |-> ballots[i].vote.validator,
                           signature |-> SignatureOf(ballots[i])]]
           ns == namespace[Proposer]
<1>1. /\ UNCHANGED <<params, namespace, sent, cast, accepted>>
      /\ height' = height + 1 /\ proposals' = [q \in Rounds |-> {}] /\ ballots # <<>>
    BY DEF Notarize
<1>2. PICK wire \in proposals[r] : \E block \in BlockRead(wire) :
        /\ \A c \in ToSet(ballots) : \E hash \in BlockHash(block) : Counts(c, r, hash)
        /\ \E notarized \in NotarizedFromParts(block, height, r, entries) :
              /\ wires' = wires \union {[bytes |-> b, hops |-> 0] : b \in NotarizedWrite(notarized)}
              /\ tip' = notarized.fat_ptr
    BY DEF Notarize
<1>3. PICK block \in BlockRead(wire) :
        /\ \A c \in ToSet(ballots) : \E hash \in BlockHash(block) : Counts(c, r, hash)
        /\ \E notarized \in NotarizedFromParts(block, height, r, entries) :
              /\ wires' = wires \union {[bytes |-> b, hops |-> 0] : b \in NotarizedWrite(notarized)}
              /\ tip' = notarized.fat_ptr
    BY <1>2
<1>4. PICK notarized \in NotarizedFromParts(block, height, r, entries) :
        /\ wires' = wires \union {[bytes |-> b, hops |-> 0] : b \in NotarizedWrite(notarized)}
        /\ tip' = notarized.fat_ptr
    BY <1>3
<1>5. height \in Nat /\ height' \in 0 .. MaxU32 + 1
    BY MaxU32Type DEF ChainInv, RelayInv
<1>6. height <= MaxU32 /\ MaxU32 \in Nat
    BY <1>1, <1>5, MaxU32Type
<1>7. ProposalStands(wire)
    BY <1>2 DEF ChainInv
<1>8. /\ BlockRead(wire) = {block} /\ BlockWrite(block) = {wire}
      /\ block = Block(wire.version, wire.hardforks, wire.bound, height, tip, wire.headers)
    BY <1>3, <1>5, <1>7, ProposalReadsBack DEF ChainInv, TipStands
<1>9. BlockHash(block) = {Hash(wire)}
    BY <1>8 DEF BlockHash
<1>10. block.height = height /\ block.previous = tip /\ block.headers = wire.headers
    BY <1>8, BlockFields
<1>11. PICK n \in Nat : ballots \in [1 .. n -> cast]
    BY DEF SeqOf
<1>12. ToSet(entries) # {} /\ \A entry \in ToSet(entries) : CertifiedBy(entry, wire, height, r, ns)
    <2>1. n # 0
        <3> SUFFICES ASSUME n = 0 PROVE FALSE
            OBVIOUS
        <3>1. ballots \in [{} -> cast]
            BY <1>11
        <3> QED BY <1>1, <3>1
    <2>2. \A i \in 1 .. n : ballots[i] \in cast /\ Counts(ballots[i], r, Hash(wire))
        BY <1>3, <1>9, <1>11 DEF ToSet
    <2>3. ASSUME NEW i \in 1 .. n
          PROVE  CertifiedBy([pub_key |-> ballots[i].vote.validator, signature |-> SignatureOf(ballots[i])],
                             wire, height, r, ns)
        <3> DEFINE c == ballots[i]
        <3>1. c \in cast /\ Counts(c, r, Hash(wire))
            BY <2>2
        <3> HIDE DEF c
        <3>2. c = [vote |-> Vote(c.vote.validator, {Hash(wire)}, height, "Precommit", r), namespace |-> ns]
            BY <3>1, CountedIsCast DEF ChainInv, RelayInv
        <3>3. CertifiedBy([pub_key |-> c.vote.validator, signature |-> SignatureOf(c)], wire, height, r, ns)
            BY <3>1, <3>2 DEF CertifiedBy
        <3> QED BY <3>3 DEF c
    <2>4. DOMAIN entries = 1 .. n
        BY <1>11
    <2>5. \A i \in 1 .. n : CertifiedBy(entries[i], wire, height, r, ns)
        BY <1>11, <2>3
    <2> HIDE DEF entries
    <2>6. 1 \in 1 .. n
        BY <2>1
    <2> QED BY <2>4, <2>5, <2>6 DEF ToSet
<1> HIDE DEF entries, ns
<1>13. /\ notarized = [block |-> block, fat_ptr |-> FatPointerFromParts(Hash(wire), height, r, entries)]
    BY <1>4, <1>9 DEF NotarizedFromParts
<1> DEFINE pointer == notarized.fat_ptr
<1>14. pointer = FatPointerFromParts(Hash(wire), height, r, entries) /\ notarized.block = block
    BY <1>13
<1> HIDE DEF pointer
<1>15. /\ PointerTyped(pointer) /\ pointer.height = height /\ pointer.block_hash = Hash(wire)
       /\ pointer.signatures = entries
       /\ Justified(pointer, ns) /\ VerifySignatures(pointer, ns)
    BY <1>12, <1>14, CertificateStands
<1>16. Stands(notarized, ns)
    <2>1. Valid(notarized, ns)
        BY <1>7, <1>10, <1>14, <1>15 DEF Valid, ProposalStands, pointer
    <2>2. Certifies(tip, height, ns)
        BY DEF ChainInv, TipStands, ns
    <2> QED BY <1>9, <1>10, <1>14, <1>15, <2>1, <2>2 DEF Stands, pointer
<1>17. ASSUME NEW b \in NotarizedWrite(notarized) PROVE BundleStands(b)
    <2>1. PICK fp \in FatPointerWrite(pointer) : b = [block |-> wire, fat_ptr |-> fp]
        BY <1>8, <1>14, <1>17 DEF NotarizedWrite, pointer
    <2>2. FatPointerWrite(pointer) = {fp} /\ FatPointerRead(fp) = {pointer}
        BY <1>6, <1>15, <2>1, PointerReadsBack, <1>5
    <2>3. NotarizedWrite(notarized) = {b}
        BY <1>8, <1>14, <2>1, <2>2 DEF NotarizedWrite, pointer
    <2>4. b.block = wire /\ b.fat_ptr = fp
        BY <2>1
    <2>5. NotarizedRead(b) = {[block |-> block, fat_ptr |-> pointer]}
        BY <1>8, <2>2, <2>4 DEF NotarizedRead
    <2>6. NotarizedRead(b) = {notarized}
        BY <1>13, <1>14, <2>5
    <2> QED BY <1>12, <1>15, <1>16, <2>3, <2>6 DEF BundleStands, pointer, ns
<1>18. TipStands'
    <2>1. tip' = pointer
        BY <1>4 DEF pointer
    <2>2. Justified(tip, namespace[Proposer])'
        BY <1>1, <1>15, <2>1 DEF Justified, ns
    <2>3. VerifySignatures(tip, namespace[Proposer])'
        BY <1>1, <1>15, <2>1 DEF ns
    <2>4. height' # 0 /\ tip'.height = height' - 1
        BY <1>1, <1>5, <1>15, <2>1
    <2>5. Certifies(tip, height, namespace[Proposer])'
        BY <2>2, <2>3, <2>4 DEF Certifies
    <2>6. PointerTyped(tip)'
        BY <1>15, <2>1
    <2> QED BY <2>5, <2>6 DEF TipStands
<1>19. (\A q \in Rounds : \A x \in proposals[q] : ProposalStands(x))'
    BY <1>1
<1>20. (\A w \in wires : BundleStands(w.bytes))'
    <2>1. \A bytes : BundleStands(bytes) => BundleStands(bytes)'
        BY <1>1, CertificatesPersist
    <2>2. \A w \in wires' : BundleStands(w.bytes)
        BY <1>4, <1>17 DEF ChainInv
    <2> QED BY <2>1, <2>2
<1>21. (\A x \in accepted : Stands(x, namespace[Receiver]))'
    BY <1>1 DEF ChainInv, Stands, Certifies, Justified, Valid
<1> QED BY <1>18, <1>19, <1>20, <1>21 DEF ChainInv

LEMMA ChainRelayStep ==
    ASSUME ChainInv, NEW w \in wires, Relay(w), RelayInv'
    PROVE  ChainInv'
<1>1. UNCHANGED <<params, namespace, tip, height, round, proposals, sent, cast, accepted>>
    BY DEF Relay
<1>2. PICK n \in NotarizedRead(w.bytes) : NotarizedRead(w.bytes) = {n} /\ NotarizedWrite(n) = {w.bytes}
    BY DEF ChainInv, BundleStands
<1>3. wires' = (wires \ {w}) \union {[bytes |-> w.bytes, hops |-> w.hops + 1]}
    BY <1>2 DEF Relay
<1>4. \A x \in wires' : BundleStands(x.bytes)
    BY <1>3 DEF ChainInv
<1>5. (\A x \in wires : BundleStands(x.bytes))'
    BY <1>1, <1>4, CertificatesPersist
<1>6. (\A x \in accepted : Stands(x, namespace[Receiver]))'
    BY <1>1 DEF ChainInv, Stands, Certifies, Justified, Valid
<1>7. TipStands' /\ (\A r \in Rounds : \A wire \in proposals[r] : ProposalStands(wire))'
    BY <1>1 DEF ChainInv, TipStands, Certifies, Justified, ProposalStands
<1> QED BY <1>5, <1>6, <1>7 DEF ChainInv

(* The receiver shares the namespace of whatever it accepts. *)
LEMMA NamespacesAgree ==
    ASSUME NEW pointer, NEW ns, NEW other, ToSet(pointer.signatures) # {},
           VerifySignatures(pointer, ns), VerifySignatures(pointer, other)
    PROVE  ns = other
<1>1. PICK entry \in ToSet(pointer.signatures) : TRUE
    OBVIOUS
<1>2. /\ entry.signature = Signature(entry.pub_key, VoteToBytes(InflateEntry(pointer, entry)), ns)
      /\ entry.signature = Signature(entry.pub_key, VoteToBytes(InflateEntry(pointer, entry)), other)
    BY <1>1 DEF VerifySignatures, VerifyWithNamespace
<1> QED BY <1>2 DEF Signature

LEMMA ChainAcceptStep ==
    ASSUME ChainInv, NEW w \in wires, Accept(w), RelayInv'
    PROVE  ChainInv'
<1>1. UNCHANGED <<params, namespace, tip, height, round, proposals, sent, cast, wires>>
    BY DEF Accept
<1>2. PICK n \in NotarizedRead(w.bytes) :
        Valid(n, namespace[Receiver]) /\ accepted' = accepted \union {n}
    BY DEF Accept
<1>3. ToSet(n.fat_ptr.signatures) # {} /\ Stands(n, namespace[Proposer])
    BY DEF ChainInv, BundleStands
<1>4. namespace[Receiver] = namespace[Proposer]
    BY <1>2, <1>3, NamespacesAgree DEF Stands, Valid
<1>5. \A x \in accepted' : Stands(x, namespace[Receiver])
    BY <1>2, <1>3, <1>4 DEF ChainInv
<1>6. (\A x \in accepted : Stands(x, namespace[Receiver]))'
    BY <1>1, <1>5 DEF Stands, Certifies, Justified, Valid
<1>7. (\A x \in wires : BundleStands(x.bytes))'
    BY <1>1, CertificatesPersist DEF ChainInv
<1>8. TipStands' /\ (\A r \in Rounds : \A wire \in proposals[r] : ProposalStands(wire))'
    BY <1>1 DEF ChainInv, TipStands, Certifies, Justified, ProposalStands
<1> QED BY <1>6, <1>7, <1>8 DEF ChainInv

LEMMA ChainNext == ASSUME ChainInv, [Next]_vars PROVE ChainInv'
<1>1. RelayInv'
    BY RelayNext DEF ChainInv
<1>2. CASE UNCHANGED vars
    BY <1>1, <1>2, ChainIdleStep DEF vars
<1>3. ASSUME NextRound PROVE ChainInv'
    BY <1>1, <1>3, ChainIdleStep DEF NextRound
<1>4. ASSUME NEW f, NEW kind, NEW r, CastVote(f, kind, r) PROVE ChainInv'
    <2>1. cast \subseteq cast' /\ UNCHANGED <<params, namespace, tip, height, proposals, wires, accepted>>
        BY <1>4 DEF CastVote
    <2> QED BY <1>1, <2>1, ChainIdleStep
<1>5. CASE Next
    BY <1>1, <1>3, <1>4, <1>5, ChainProposeStep, ChainNotarizeStep, ChainRelayStep, ChainAcceptStep
       DEF Next
<1> QED BY <1>2, <1>5

LEMMA ChainInvariant == Spec => []ChainInv
<1>1. Init => ChainInv
    BY ChainInit
<1>2. ChainInv /\ [Next]_vars => ChainInv'
    BY ChainNext
<1> QED BY <1>1, <1>2, PTL DEF Spec

(* NotarizedBftBlock::read compares nothing, and still the block and the     *)
(* fat pointer of what the receiver accepts belong together: the finalizers  *)
(* signed the hash that the receiver computes.                               *)
THEOREM CertificateMatchesBlock == Spec => []CertificateIsForItsBlock
<1>1. ChainInv => CertificateIsForItsBlock
    BY DEF ChainInv, Stands, CertificateIsForItsBlock
<1> QED BY <1>1, ChainInvariant, PTL

(* From an accepted block the receiver can walk back: the pointer inside is  *)
(* null at height 0 and elsewhere a certificate for the height below, which  *)
(* the receiver's own namespace verifies.                                    *)
THEOREM ChainCanBeWalked == Spec => []ChainOfCertificates
<1>1. ChainInv => ChainOfCertificates
    BY DEF ChainInv, Stands, Certifies, ChainOfCertificates
<1> QED BY <1>1, ChainInvariant, PTL

(* Reading and writing a bundle any number of times changes no byte of it,   *)
(* and it stays valid under the namespace it was made for.                   *)
THEOREM HonestBundlesSurvive == Spec => []BundlesStayValid
<1>1. ChainInv => BundlesStayValid
    BY DEF ChainInv, BundleStands, Stands, BundlesStayValid
<1> QED BY <1>1, ChainInvariant, PTL

----------------------------------------------------------------------------
(* HardForkConfig::new sorts: a list of keys is determined by its set.  A    *)
(* finite set of numbers has an increasing enumeration, by rank.             *)
LEMMA IncreasingExists ==
    ASSUME NEW S, S \subseteq Nat, IsFiniteSet(S)
    PROVE  \E s \in [1 .. Cardinality(S) -> S] : \A i, j \in DOMAIN s : i < j => s[i] < s[j]
<1> DEFINE n == Cardinality(S)
           below(x) == {y \in S : y <= x}
           rank == [x \in S |-> Cardinality(below(x))]
<1>1. n \in Nat
    BY FS_CardinalityType
<1>2. \A x \in S : IsFiniteSet(below(x)) /\ Cardinality(below(x)) \in Nat
                   /\ Cardinality(below(x)) <= n /\ Cardinality(below(x)) # 0
    <2> TAKE x \in S
    <2>1. below(x) \in SUBSET S /\ x \in below(x)
        OBVIOUS
    <2> HIDE DEF below
    <2>2. IsFiniteSet(below(x)) /\ Cardinality(below(x)) <= n
        BY <2>1, FS_Subset
    <2>3. Cardinality(below(x)) \in Nat
        BY <2>2, FS_CardinalityType
    <2>4. Cardinality(below(x)) # 0
        BY <2>1, <2>2, FS_EmptySet
    <2> QED BY <2>2, <2>3, <2>4
<1>3. \A x, y \in S : x < y => rank[x] < rank[y]
    <2> SUFFICES ASSUME NEW x \in S, NEW y \in S, x < y PROVE rank[x] < rank[y]
        OBVIOUS
    <2>a. x \in Nat /\ y \in Nat /\ S \subseteq Nat
        OBVIOUS
    <2>b. \A z \in S : z \in Nat /\ (z <= x => z <= y)
        BY <2>a
    <2>c. y <= y /\ ~(y <= x)
        BY <2>a
    <2>1. below(x) \in SUBSET below(y) /\ y \in below(y) /\ y \notin below(x)
        <3>1. \A z \in below(x) : z \in below(y)
            BY <2>b
        <3>2. y \in below(y) /\ y \notin below(x)
            BY <2>c
        <3> QED BY <3>1, <3>2
    <2>2. IsFiniteSet(below(y)) /\ Cardinality(below(x)) \in Nat /\ Cardinality(below(y)) \in Nat
        BY <1>2
    <2> HIDE DEF below
    <2>3. Cardinality(below(x)) <= Cardinality(below(y)) /\ Cardinality(below(y)) # Cardinality(below(x))
        BY <2>1, <2>2, FS_Subset
    <2> QED BY <2>2, <2>3
<1>4. rank \in [S -> 1 .. n]
    <2> HIDE DEF below
    <2> QED BY <1>1, <1>2
<1> HIDE DEF rank
<1>5. rank \in Injection(S, 1 .. n)
    BY <1>3, <1>4 DEF Injection, IsInjective
<1>6. IsFiniteSet(1 .. n) /\ Cardinality(1 .. n) = n
    BY <1>1, FS_Interval
<1>7. rank \in Surjection(S, 1 .. n)
    BY <1>5, <1>6, FS_Injection
<1> DEFINE s == [i \in 1 .. n |-> CHOOSE x \in S : rank[x] = i]
<1>8. \A i \in 1 .. n : s[i] \in S /\ rank[s[i]] = i
    BY <1>7 DEF Surjection
<1>9. s \in [1 .. n -> S]
    BY <1>8
<1> HIDE DEF s
<1>10. ASSUME NEW i \in 1 .. n, NEW j \in 1 .. n, i < j PROVE s[i] < s[j]
    <2>1. s[i] \in S /\ s[j] \in S /\ rank[s[i]] = i /\ rank[s[j]] = j
        BY <1>8
    <2>2. s[j] < s[i] => j < i
        BY <1>3, <2>1
    <2>3. s[i] # s[j]
        BY <1>10, <2>1
    <2>4. s[i] \in Nat /\ s[j] \in Nat
        BY <2>1
    <2>5. i \in Nat /\ j \in Nat
        OBVIOUS
    <2>6. ~(j < i)
        BY <1>10, <2>5
    <2> QED BY <2>2, <2>3, <2>4, <2>6
<1>11. \A i, j \in DOMAIN s : i < j => s[i] < s[j]
    BY <1>9, <1>10
<1> QED BY <1>9, <1>11

LEMMA IncreasingEnumerates ==
    ASSUME NEW S, S \subseteq Nat, IsFiniteSet(S)
    PROVE  ToSet(Increasing(S)) = S
<1> DEFINE s == Increasing(S)
           n == Cardinality(S)
<1>1. s \in [1 .. n -> S] /\ \A i, j \in DOMAIN s : i < j => s[i] < s[j]
    BY IncreasingExists DEF Increasing
<1>2. n \in Nat
    BY FS_CardinalityType
<1> HIDE DEF s
<1>3. \A i, j \in 1 .. n : s[i] = s[j] => i = j
    <2> SUFFICES ASSUME NEW i \in 1 .. n, NEW j \in 1 .. n, s[i] = s[j], i # j PROVE FALSE
        OBVIOUS
    <2>1. i < j \/ j < i
        BY <1>2
    <2>2. s[i] \in Nat /\ s[j] \in Nat /\ DOMAIN s = 1 .. n
        BY <1>1
    <2>3. s[i] < s[j] \/ s[j] < s[i]
        BY <1>1, <2>1, <2>2
    <2> QED BY <2>2, <2>3
<1>4. s \in Injection(1 .. n, S)
    BY <1>1, <1>3 DEF Injection, IsInjective
<1>5. IsFiniteSet(1 .. n) /\ Cardinality(1 .. n) = n
    BY <1>2, FS_Interval
<1>6. s \in Surjection(1 .. n, S)
    BY <1>4, <1>5, FS_Injection
<1> QED BY <1>1, <1>6 DEF Surjection, ToSet, s

(* The rules of a proposal are determined by the finalizers they list. *)
LEMMA RulesOfChoice ==
    ASSUME NEW choice \in BlockChoices, NEW hardforks \in Hardforks(choice[2])
    PROVE  \/ hardforks = <<>>
           \/ \E S : /\ ToSet(Increasing(S)) = S
                     /\ hardforks = <<HardForkConfig(0, 0, Increasing(S))>>
<1> DEFINE finalizers == choice[2]
           S == ToSet(finalizers)
<1>1. finalizers \in Seq(Nat)
    BY RelayAssumption
<1>2. S \subseteq Nat /\ IsFiniteSet(S)
    <2>1. PICK n \in Nat : finalizers \in [1 .. n -> Nat]
        BY <1>1, SeqDef
    <2>2. S \subseteq Nat
        BY <2>1 DEF ToSet
    <2>3. finalizers \in Surjection(1 .. n, S)
        BY <2>1 DEF ToSet, Surjection
    <2>4. IsFiniteSet(1 .. n)
        BY FS_Interval
    <2> QED BY <2>2, <2>3, <2>4, FS_Surjection
<1>3. ToSet(Increasing(S)) = S
    BY <1>2, IncreasingEnumerates
<1>4. CASE finalizers = <<>>
    BY <1>4 DEF Hardforks
<1>5. CASE finalizers # <<>>
    <2>1. PICK rule \in HardForkNew(0, 0, finalizers) : hardforks = <<rule>>
        BY <1>5 DEF Hardforks
    <2>2. rule = HardForkConfig(0, 0, Increasing(S))
        BY <2>1 DEF HardForkNew
    <2> HIDE DEF S
    <2> QED BY <1>3, <2>1, <2>2
<1> QED BY <1>4, <1>5

LEMMA RulesAreSets ==
    ASSUME NEW c1 \in BlockChoices, NEW h1 \in Hardforks(c1[2]),
           NEW c2 \in BlockChoices, NEW h2 \in Hardforks(c2[2]),
           [i \in DOMAIN h1 |-> ToSet(h1[i].terminated_finalizers)]
               = [i \in DOMAIN h2 |-> ToSet(h2[i].terminated_finalizers)]
    PROVE  h1 = h2
<1> DEFINE f1 == [i \in DOMAIN h1 |-> ToSet(h1[i].terminated_finalizers)]
           f2 == [i \in DOMAIN h2 |-> ToSet(h2[i].terminated_finalizers)]
<1>1. DOMAIN h1 = DOMAIN h2
    <2>1. DOMAIN f1 = DOMAIN h1 /\ DOMAIN f2 = DOMAIN h2 /\ f1 = f2
        OBVIOUS
    <2> QED BY <2>1
<1>2. \A i \in DOMAIN h1 : ToSet(h1[i].terminated_finalizers) = ToSet(h2[i].terminated_finalizers)
    <2> SUFFICES ASSUME NEW i \in DOMAIN h1
                 PROVE  ToSet(h1[i].terminated_finalizers) = ToSet(h2[i].terminated_finalizers)
        OBVIOUS
    <2>1. f1[i] = ToSet(h1[i].terminated_finalizers) /\ f2[i] = ToSet(h2[i].terminated_finalizers)
        BY <1>1
    <2>2. f1 = f2
        OBVIOUS
    <2> HIDE DEF f1, f2
    <2> QED BY <2>1, <2>2
<1>3. CASE h1 = <<>> \/ h2 = <<>>
    <2>1. h1 = <<>> => h2 = <<>>
        BY <1>1, RulesOfChoice
    <2>2. h2 = <<>> => h1 = <<>>
        BY <1>1, RulesOfChoice
    <2> QED BY <1>3, <2>1, <2>2
<1>4. CASE h1 # <<>> /\ h2 # <<>>
    <2>1. PICK S : ToSet(Increasing(S)) = S /\ h1 = <<HardForkConfig(0, 0, Increasing(S))>>
        BY <1>4, RulesOfChoice
    <2>2. PICK T : ToSet(Increasing(T)) = T /\ h2 = <<HardForkConfig(0, 0, Increasing(T))>>
        BY <1>4, RulesOfChoice
    <2>3. /\ 1 \in DOMAIN h1
          /\ h1[1].terminated_finalizers = Increasing(S)
          /\ h2[1].terminated_finalizers = Increasing(T)
        BY <2>1, <2>2 DEF HardForkConfig
    <2>4. S = T
        BY <1>2, <2>1, <2>2, <2>3
    <2> QED BY <2>1, <2>2, <2>4
<1> QED BY <1>3, <1>4

LEMMA RulesCompared ==
    ASSUME NEW ve, NEW hf, NEW bo, NEW he, NEW pr, NEW hs, NEW wire,
           wire = Block(ve, hf, bo, he, pr, hs)
    PROVE  Unordered(wire) = Block(ve, [i \in DOMAIN hf |-> ToSet(hf[i].terminated_finalizers)],
                                   bo, he, pr, hs)
<1> DEFINE sets == [i \in DOMAIN hf |-> ToSet(hf[i].terminated_finalizers)]
<1>1. wire.hardforks = hf
    BY BlockFields
<1>2. Unordered(wire) = [wire EXCEPT !.hardforks = sets]
    BY <1>1 DEF Unordered
<1> HIDE DEF sets
<1>3. [wire EXCEPT !.hardforks = sets] = Block(ve, sets, bo, he, pr, hs)
    BY DEF Block
<1> QED BY <1>2, <1>3 DEF sets

(* Two proposals that stand and list the same finalizers are the same. *)
LEMMA SameProposal ==
    ASSUME NEW v, ProposalStands(v), NEW w, ProposalStands(w), Unordered(v) = Unordered(w)
    PROVE  v = w
<1>1. PICK ve, hf, he, pr, hs :
        /\ v = Block(ve, hf, 0, he, pr, hs)
        /\ he = IF v.version = 1 THEN height + 1 ELSE height
    BY DEF ProposalStands
<1>2. PICK we, hg, hi, qr, ht :
        /\ w = Block(we, hg, 0, hi, qr, ht)
        /\ hi = IF w.version = 1 THEN height + 1 ELSE height
    BY DEF ProposalStands
<1>3. v.version = ve /\ v.hardforks = hf /\ w.version = we /\ w.hardforks = hg
    BY <1>1, <1>2, BlockFields
<1> DEFINE S == [i \in DOMAIN hf |-> ToSet(hf[i].terminated_finalizers)]
           T == [i \in DOMAIN hg |-> ToSet(hg[i].terminated_finalizers)]
<1>4. Unordered(v) = Block(ve, S, 0, he, pr, hs)
    BY <1>1, RulesCompared
<1>5. Unordered(w) = Block(we, T, 0, hi, qr, ht)
    BY <1>2, RulesCompared
<1>6. ve = we /\ S = T /\ he = hi /\ pr = qr /\ hs = ht
    <2> HIDE DEF S, T
    <2>1. Block(ve, S, 0, he, pr, hs) = Block(we, T, 0, hi, qr, ht)
        BY <1>4, <1>5
    <2> QED BY <2>1 DEF Block
<1>7. hf = hg
    <2>1. PICK c1 \in BlockChoices : hf \in Hardforks(c1[2])
        BY <1>3 DEF ProposalStands
    <2>2. PICK c2 \in BlockChoices : hg \in Hardforks(c2[2])
        BY <1>3 DEF ProposalStands
    <2> QED BY <1>6, <2>1, <2>2, RulesAreSets
<1> QED BY <1>1, <1>2, <1>6, <1>7

(* In every behaviour and for every choice of blocks and headers, two       *)
(* proposals of a height that terminate the same finalizers and agree on    *)
(* the rest are the same bytes: HardForkConfig::new orders the keys, and    *)
(* nothing else in a block depends on the round or on what was asked for.   *)
THEOREM ReproposalsAgree == Spec => []ReproposalKeepsItsHash
<1>1. ChainInv => ReproposalKeepsItsHash
    BY SameProposal DEF ChainInv, ReproposalKeepsItsHash
<1> QED BY <1>1, ChainInvariant, PTL
=============================================================================
