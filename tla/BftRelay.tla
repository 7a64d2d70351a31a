------------------------------ MODULE BftRelay ------------------------------
(***************************************************************************)
(* Blocks of the BFT chain on their way from a proposer to a receiver.     *)
(* The proposer builds a block and sends it; finalizers read it and sign   *)
(* its hash; the proposer collects precommits from the ballots that reach  *)
(* it, in any order and of any round, bundles them with the block, and     *)
(* builds on the result; other nodes read the bundle, write it again and   *)
(* pass it on, and the receiver validates what arrives.  Every party uses  *)
(* crates/bft_primitives for this.  The crate contains no signing and no   *)
(* stateful validation: who votes and when, and how many votes suffice,    *)
(* is up to its callers, and is left open here.                            *)
(*                                                                         *)
(* Votes may carry a namespace.  Each party has its own, so that parties   *)
(* on both sides of a fork can hear each other.                            *)
(***************************************************************************)
EXTENDS BftCodec

CONSTANTS
    Finalizers,       \* the keys that vote, natural numbers
    Namespaces,       \* the namespaces of votes, {} for none
    NamespaceChoices, \* who may have which: functions from the parties
    ParameterInputs,  \* pairs of a confirmation depth and a gap bound
    StartHeights,     \* the heights at which the proposer may take up the chain
    HeaderChoices,    \* sequences of headers that a proposer may have
    BlockChoices,     \* versions of blocks, with the finalizers a hard fork rule lists
    MaxProposals,     \* bounds on a behaviour: proposals,
    MaxVotes,         \*   votes,
    MaxHops           \*   and hops of a bundle

Proposer == -1
Receiver == -2
Parties == Finalizers \union {Proposer, Receiver}

ASSUME RelayAssumption ==
    /\ NamespaceChoices \subseteq [Parties -> Namespaces]
    /\ Finalizers \subseteq Nat /\ IsFiniteSet(Finalizers) /\ StartHeights \subseteq Heights
    /\ \A p \in ParameterInputs : p \in Nat \X Nat
    /\ \A n \in Namespaces : \A x, y \in n : x = y
    /\ \A headers \in HeaderChoices :
        /\ headers = [i \in DOMAIN headers |-> headers[i]]
        /\ \A i \in DOMAIN headers : IsHeader(headers[i])
    /\ \A choice \in BlockChoices : choice[2] \in Seq(Nat)
    /\ MaxProposals \in Nat /\ MaxVotes \in Nat /\ MaxHops \in Nat

VARIABLES
    params,      \* the ZcashCrosslinkParameters
    namespace,   \* the namespace of the proposer, of each finalizer and of the receiver
    tip,         \* the fat pointer that the proposer builds on
    height,      \* the height it builds at
    round,       \* the round it is in
    proposals,   \* what it has sent at this height: the bytes for each round, if any
    sent,        \* how many blocks it has proposed
    cast,        \* the votes that finalizers have signed, with their namespaces
    wires,       \* the bundles under way, with the hops they have made
    accepted     \* the notarized blocks that the receiver has validated

vars == <<params, namespace, tip, height, round, proposals, sent, cast, wires, accepted>>

TypeOK ==
    /\ params \in [sigma : Nat, gap : Nat]
    /\ namespace \in [Parties -> Namespaces]
    /\ height \in 0 .. MaxU32 + 1 /\ round \in Rounds
    /\ DOMAIN proposals = Rounds /\ sent \in 0 .. MaxProposals
    /\ \A c \in cast :
          /\ c.vote.validator \in Finalizers /\ c.namespace \in Namespaces
          /\ c.vote.height \in Heights /\ c.vote.round \in Rounds /\ c.vote.kind \in VoteKinds
    /\ \A w \in wires : w.hops \in 0 .. MaxHops

----------------------------------------------------------------------------
SignatureOf(c) == Signature(c.vote.validator, VoteToBytes(c.vote), c.namespace)

(* A block that was notarized before the proposer came, with a precommit of *)
(* each finalizer that has the proposer's namespace.                        *)
PastHash == Hash([version |-> 1])

PastVotes(at) ==
    {[vote |-> Vote(f, {PastHash}, at, "Precommit", 0), namespace |-> namespace[Proposer]]
        : f \in {g \in Finalizers : namespace[g] = namespace[Proposer]}}

PastCertificate(votes, at) ==
    FatPointerFromParts(PastHash, at, 0,
        SetToSeq({[pub_key |-> c.vote.validator, signature |-> SignatureOf(c)] : c \in votes}))

Init ==
    /\ params \in UNION {ParametersNew(p[1], p[2]) : p \in ParameterInputs}
    /\ namespace \in NamespaceChoices
    /\ height \in StartHeights
    /\ cast = IF height = 0 THEN {} ELSE PastVotes(height - 1)
    /\ height = 0 \/ cast # {}
    /\ tip = IF height = 0 THEN NullFatPointer ELSE PastCertificate(cast, height - 1)
    /\ round = 0 /\ proposals = [r \in Rounds |-> {}] /\ sent = 0
    /\ wires = {} /\ accepted = {}

(* A rule made by HardForkConfig::new, or no rule. *)
Hardforks(finalizers) ==
    IF finalizers = <<>> THEN {<<>>} ELSE {<<rule>> : rule \in HardForkNew(0, 0, finalizers)}

Propose(version, finalizers, headers) ==
    /\ sent < MaxProposals /\ height <= MaxU32 /\ proposals[round] = {}
    /\ \E hardforks \in Hardforks(finalizers) :
       \E block \in BlockNew(params, version, hardforks, 0, height, tip, headers) :
          /\ BlockWrite(block) # {}
          /\ proposals' = [proposals EXCEPT ![round] = BlockWrite(block)]
    /\ sent' = sent + 1
    /\ UNCHANGED <<params, namespace, tip, height, round, cast, wires, accepted>>

(* Mutant: the bound of Round::new is not checked. *)
NextRoundUnchecked ==
    /\ height <= MaxU32 /\ round < MaxU32
    /\ round' = round + 1
    /\ UNCHANGED <<params, namespace, tip, height, proposals, sent, cast, wires, accepted>>

(* The round times out. *)
NextRound ==
    /\ height <= MaxU32 /\ round + 1 \in Rounds
    /\ round' = round + 1
    /\ UNCHANGED <<params, namespace, tip, height, proposals, sent, cast, wires, accepted>>

(* The hash of the proposal, as a finalizer that has read it computes it,   *)
(* if the proposal is valid.                                                *)
ProposalHash(r) ==
    UNION {BlockHash(block) : block \in
              {b \in UNION {BlockRead(wire) : wire \in proposals[r]} :
                  CheckHeaders(params, b.headers)}}

(* A finalizer votes once in a round: for the proposal, or for Nil as long  *)
(* as there is none.                                                        *)
CastVote(f, kind, r) ==
    /\ Cardinality({c \in cast : c.vote.value # {PastHash}}) < MaxVotes
    /\ height <= MaxU32 /\ r <= round
    /\ ~\E c \in cast : /\ c.vote.validator = f /\ c.vote.kind = kind
                        /\ c.vote.height = height /\ c.vote.round = r
    /\ cast' = cast \union
           {[vote |-> Vote(f, ProposalHash(r), height, kind, r), namespace |-> namespace[f]]}
    /\ UNCHANGED <<params, namespace, tip, height, round, proposals, sent, wires, accepted>>

(* The ballots that the proposer may count for its proposal of a round: it  *)
(* parses the vote, verifies the signature and compares the fields.         *)
Counts(c, r, hash) ==
    \E vote \in VoteFromBytes(VoteToBytes(c.vote)) :
        /\ SignedVoteVerify(vote, SignatureOf(c), namespace[Proposer])
        /\ vote.value = {hash} /\ vote.height = height /\ vote.round = r
        /\ vote.kind = "Precommit"

(* Some of them, in any order and perhaps one more than once, make the      *)
(* certificate, and the proposer goes on to the next height.                *)
Notarize(r, ballots) ==
    /\ ballots # <<>>
    /\ \E wire \in proposals[r] : \E block \in BlockRead(wire) :
       LET entries == [i \in DOMAIN ballots |->
                          [pub_key |-> ballots[i].vote.validator,
                           signature |-> SignatureOf(ballots[i])]]
       IN  /\ \A c \in ToSet(ballots) : \E hash \in BlockHash(block) : Counts(c, r, hash)
           /\ \E notarized \in NotarizedFromParts(block, height, r, entries) :
                 /\ wires' = wires \union
                        {[bytes |-> b, hops |-> 0] : b \in NotarizedWrite(notarized)}
                 /\ tip' = notarized.fat_ptr
    /\ height' = height + 1 /\ round' = 0 /\ proposals' = [q \in Rounds |-> {}]
    /\ UNCHANGED <<params, namespace, sent, cast, accepted>>

(* A node reads a bundle and sends on what it has read. *)
Relay(w) ==
    /\ w.hops < MaxHops
    /\ wires' = (wires \ {w}) \union
           {[bytes |-> b, hops |-> w.hops + 1] :
               b \in UNION {NotarizedWrite(n) : n \in NotarizedRead(w.bytes)}}
    /\ UNCHANGED <<params, namespace, tip, height, round, proposals, sent, cast, accepted>>

Valid(notarized, ns) ==
    /\ CheckHeaders(params, notarized.block.headers)
    /\ VerifySignatures(notarized.fat_ptr, ns)

Accept(w) ==
    /\ \E notarized \in NotarizedRead(w.bytes) :
          /\ Valid(notarized, namespace[Receiver])
          /\ accepted' = accepted \union {notarized}
    /\ UNCHANGED <<params, namespace, tip, height, round, proposals, sent, cast, wires>>

Next ==
    \/ \E choice \in BlockChoices, headers \in HeaderChoices :
          Propose(choice[1], choice[2], headers)
    \/ NextRound
    \/ \E f \in Finalizers, kind \in VoteKinds, r \in Rounds : CastVote(f, kind, r)
    \/ \E r \in Rounds, ballots \in SeqOf(cast, MaxSignatures) : Notarize(r, ballots)
    \/ \E w \in wires : Relay(w) \/ Accept(w)

Spec == Init /\ [][Next]_vars

----------------------------------------------------------------------------
(* Every entry of the pointer is a precommit that its key has signed under  *)
(* the namespace, for the block, height and round that the pointer names.   *)
Justified(pointer, ns) ==
    /\ pointer.kind = "Precommit" /\ pointer.signatures # <<>>
    /\ \A entry \in ToSet(pointer.signatures) :
          [vote |-> Vote(entry.pub_key, {pointer.block_hash}, pointer.height,
                         "Precommit", pointer.round),
           namespace |-> ns] \in cast

(* What verify_signatures lets through, after any number of hops and on     *)
(* either side of a fork, was precommitted by each of the finalizers named: *)
(* the signatures of other rounds, of prevotes and of Nil votes, and those  *)
(* of the other namespace, never pass for it.                               *)
AcceptedIsPrecommitted ==
    \A n \in accepted : Justified(n.fat_ptr, namespace[Receiver])

(* NotarizedBftBlock::read does not compare the two parts of a bundle.      *)
(* Still, the hash that the finalizers signed is the one that the receiver  *)
(* computes from the block that it has read.                                *)
CertificateIsForItsBlock ==
    \A n \in accepted : BlockHash(n.block) = {n.fat_ptr.block_hash}

(* The chain can be walked back from an accepted block: the fat pointer     *)
(* inside it is null at height 0 and elsewhere a certificate of the block   *)
(* one height below, which the receiver would accept as well.               *)
ChainOfCertificates ==
    \A n \in accepted :
        LET previous == n.block.previous
        IN  /\ n.fat_ptr.height = n.block.height
            /\ IF n.block.height = 0 THEN previous = NullFatPointer
               ELSE /\ previous.height = n.block.height - 1
                    /\ Justified(previous, namespace[Receiver])
                    /\ VerifySignatures(previous, namespace[Receiver])

(* An honest bundle stays valid: however often it was read and written      *)
(* again, the next node can read it, writing it gives the same bytes, and   *)
(* both validations accept it under the namespace it was made for.          *)
BundlesStayValid ==
    \A w \in wires :
        \E n \in NotarizedRead(w.bytes) :
            NotarizedWrite(n) = {w.bytes} /\ Valid(n, namespace[Proposer])

(* A finalizer recognises a block that is proposed again: if two proposals  *)
(* of a height terminate the same finalizers and agree on the rest, they    *)
(* are the same bytes, in whatever order the finalizers were listed.        *)
Unordered(wire) ==
    [wire EXCEPT !.hardforks = [i \in DOMAIN @ |-> ToSet(@[i].terminated_finalizers)]]

ReproposalKeepsItsHash ==
    \A q, r \in Rounds : \A v \in proposals[q], w \in proposals[r] :
        Unordered(v) = Unordered(w) => v = w
=============================================================================
