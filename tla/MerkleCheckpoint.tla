-------------------------- MODULE MerkleCheckpoint --------------------------
(***************************************************************************)
(* zcash_primitives::merkle_tree: the serialised forms of note commitment  *)
(* trees, frontiers, witnesses and paths, under a wallet that appends note *)
(* commitments, follows one of its notes, saves its state in either format *)
(* and starts again from what it saved after a crash.                      *)
(*                                                                         *)
(* CommitmentTree, Frontier and IncrementalWitness belong to the crate     *)
(* incrementalmerkletree.  A leaf is <<n>>, n > 0, an inner node the pair  *)
(* of its children: hashing is taken to be free of collisions.  An Option  *)
(* is a set of at most one element, as is a result that may be an error.   *)
(***************************************************************************)
EXTENDS Integers, Sequences, FiniteSets

CONSTANTS
    DEPTH,       \* NOTE_COMMITMENT_TREE_DEPTH
    MaxCrashes   \* bound

ASSUME DepthAssumption == DEPTH \in Nat \ {0, 1} /\ MaxCrashes \in Nat

Combine(left, right) == <<left, right>>
EmptyRoot[level \in 0 .. DEPTH] ==
    IF level = 0 THEN <<0>> ELSE Combine(EmptyRoot[level - 1], EmptyRoot[level - 1])

Reversed(s) == [i \in DOMAIN s |-> s[Len(s) + 1 - i]]
The(option) == CHOOSE x \in option : TRUE
OrEmpty(option, level) == IF option = {} THEN EmptyRoot[level] ELSE The(option)

(* Where a climb of so many levels ends: each level combines the node with  *)
(* its sibling, which is to the left at the levels named.                   *)
Climb(node, siblings, lefts, levels) ==
    LET climbed[l \in 0 .. levels] ==
            IF l = 0 THEN node
            ELSE IF l \in lefts THEN Combine(siblings[l], climbed[l - 1])
            ELSE Combine(climbed[l - 1], siblings[l])
    IN  climbed[levels]

(* The index, in its level, of the node above a leaf. *)
Ancestor(position, level) ==
    LET above[l \in Nat] == IF l = 0 THEN position ELSE above[l - 1] \div 2
    IN  above[level]
IsRightChild(position) == position % 2 = 1

----------------------------------------------------------------------------
(* CommitmentTree: the last pair of leaves, and above it the completed left *)
(* siblings.                                                                *)

EmptyTree == [left |-> {}, right |-> {}, parents |-> <<>>]

IsComplete(tree, depth) ==
    /\ tree.left # {} /\ tree.right # {}
    /\ Len(tree.parents) = depth - 1
    /\ \A i \in DOMAIN tree.parents : tree.parents[i] # {}

Slot(tree, level) == IF level \in DOMAIN tree.parents THEN tree.parents[level] ELSE {}

(* What a full pair carries up to the first vacant level. *)
Carried(tree) ==
    LET vacant == CHOOSE j \in 1 .. Len(tree.parents) + 1 :
                    Slot(tree, j) = {} /\ \A i \in 1 .. j - 1 : Slot(tree, i) # {}
        below == 1 .. vacant - 1
        carry == Climb(Combine(The(tree.left), The(tree.right)),
                       [i \in below |-> The(Slot(tree, i))], below, vacant - 1)
    IN  [i \in 1 .. (IF vacant > Len(tree.parents) THEN vacant ELSE Len(tree.parents)) |->
            IF i < vacant THEN {} ELSE IF i = vacant THEN {carry} ELSE tree.parents[i]]

TreeAppend(tree, leaf) ==
    IF tree.left = {} THEN [tree EXCEPT !.left = {leaf}]
    ELSE IF tree.right = {} THEN [tree EXCEPT !.right = {leaf}]
    ELSE [left |-> {leaf}, right |-> {}, parents |-> Carried(tree)]

RootAtDepth(tree, depth) ==
    LET levels == 1 .. depth - 1
    IN  Climb(Combine(OrEmpty(tree.left, 0), OrEmpty(tree.right, 0)),
              [l \in levels |-> OrEmpty(Slot(tree, l), l)],
              {l \in levels : Slot(tree, l) # {}}, depth - 1)

(* A parent stands for twice the leaves of one a level below. *)
TreeSize(tree) ==
    LET one(option) == IF option = {} THEN 0 ELSE 1
        top == Len(tree.parents)
        pairs[i \in 0 .. top] ==
            IF i = 0 THEN 0 ELSE 2 * pairs[i - 1] + one(tree.parents[top + 1 - i])
    IN  2 * pairs[top] + one(tree.left) + one(tree.right)

(* write_commitment_tree and read_commitment_tree: the fields in order.     *)
(* from_parts refuses a parent above the root.                              *)
WriteCommitmentTree(tree) == <<tree.left, tree.right, tree.parents>>
ReadCommitmentTree(bytes) ==
    IF Len(bytes[3]) >= DEPTH THEN {}
    ELSE {[left |-> bytes[1], right |-> bytes[2], parents |-> bytes[3]]}

----------------------------------------------------------------------------
(* Frontier: the last leaf and the left siblings on its way to the root. *)

OmmerCount(position) == Cardinality({l \in 0 .. position : IsRightChild(Ancestor(position, l))})

FrontierFromParts(position, leaf, ommers) ==
    IF Len(ommers) # OmmerCount(position) THEN {}
    ELSE {[position |-> position, leaf |-> leaf, ommers |-> ommers]}

(* A left leaf follows the pairs it completes; they become one ommer. *)
FrontierAppend(frontier, leaf) ==
    IF frontier = {} THEN {[position |-> 0, leaf |-> leaf, ommers |-> <<>>]}
    ELSE LET f == The(frontier)
             merged == CHOOSE k \in 0 .. Len(f.ommers) :
                        /\ ~IsRightChild(Ancestor(f.position, k))
                        /\ \A i \in 0 .. k - 1 : IsRightChild(Ancestor(f.position, i))
             ommer == Climb(f.leaf, f.ommers, 1 .. merged, merged)
         IN  {[position |-> f.position + 1, leaf |-> leaf,
               ommers |-> <<ommer>> \o SubSeq(f.ommers, merged + 1, Len(f.ommers))]}

(* The values that there are among the first options, in order. *)
Present(options, n) ==
    LET found[i \in Nat] ==
            IF i = 0 THEN <<>>
            ELSE IF options[i] = {} THEN found[i - 1] ELSE Append(found[i - 1], The(options[i]))
    IN  found[n]

ToFrontier(tree) ==
    IF tree.left = {} THEN {}
    ELSE LET sibling == IF tree.right = {} THEN {} ELSE tree.left
         IN  {[position |-> TreeSize(tree) - 1,
               leaf |-> The(IF tree.right = {} THEN tree.left ELSE tree.right),
               ommers |-> Present(<<sibling>> \o tree.parents, Len(tree.parents) + 1)]}

(* read_frontier_v0: a frontier is saved as the tree it came from. *)
ReadFrontierV0(bytes) == {ToFrontier(tree) : tree \in ReadCommitmentTree(bytes)}

(* The sibling of a right leaf stands in the place of the leaf, and the     *)
(* leaf in an optional field.                                               *)
WriteNonEmptyFrontierV1(f) ==
    IF IsRightChild(f.position)
    THEN <<f.position, f.ommers[1], {f.leaf}, Tail(f.ommers)>>
    ELSE <<f.position, f.leaf, {}, f.ommers>>

(* Mutant: the sibling is put behind the other ommers. *)
ReadNonEmptyFrontierV1Appending(bytes) ==
    IF bytes[3] = {} THEN FrontierFromParts(bytes[1], bytes[2], bytes[4])
    ELSE FrontierFromParts(bytes[1], The(bytes[3]), Append(bytes[4], bytes[2]))

ReadNonEmptyFrontierV1(bytes) ==
    IF bytes[3] = {} THEN FrontierFromParts(bytes[1], bytes[2], bytes[4])
    ELSE FrontierFromParts(bytes[1], The(bytes[3]), <<bytes[2]>> \o bytes[4])

WriteFrontierV1(frontier) == {WriteNonEmptyFrontierV1(f) : f \in frontier}

ReadFrontierV1(bytes) ==
    IF bytes = {} THEN {{}}
    ELSE {{f} : f \in {g \in ReadNonEmptyFrontierV1(The(bytes)) : Ancestor(g.position, DEPTH) = 0}}

----------------------------------------------------------------------------
(* IncrementalWitness: the tree up to the note, the right siblings that are *)
(* complete, and the cursor that builds the next one.                       *)

(* The level of the next right sibling: the level of the vacancy in the     *)
(* note's tree that follows those filled.                                   *)
Vacant(tree, level) == IF level = 0 THEN tree.right = {} ELSE Slot(tree, level) = {}
FilledBelow(tree, level) == Cardinality({l \in 0 .. level - 1 : Vacant(tree, l)})
NextDepth(witness) ==
    LET levels == {l \in 0 .. DEPTH - 1 :
                     Vacant(witness.tree, l)
                     /\ FilledBelow(witness.tree, l) = Len(witness.filled)}
    IN  IF levels = {} THEN DEPTH ELSE The(levels)

Witness(tree, filled, cursor) == [tree |-> tree, filled |-> filled, cursor |-> cursor]

WitnessAppend(witness, leaf) ==
    LET depth == NextDepth(witness)
        tree == TreeAppend(IF witness.cursor = {} THEN EmptyTree ELSE The(witness.cursor), leaf)
    IN  IF depth = 0 THEN [witness EXCEPT !.filled = Append(@, leaf)]
        ELSE IF IsComplete(tree, depth)
        THEN [witness EXCEPT !.filled = Append(@, RootAtDepth(tree, depth)), !.cursor = {}]
        ELSE [witness EXCEPT !.cursor = {tree}]

WriteIncrementalWitness(witness) ==
    <<WriteCommitmentTree(witness.tree), witness.filled,
      {WriteCommitmentTree(cursor) : cursor \in witness.cursor}>>

(* from_parts refuses a witness of an empty tree, and computes the level of *)
(* the cursor, which is not written.                                        *)
ReadIncrementalWitness(bytes) ==
    {Witness(tree, bytes[2], cursor) :
        tree \in {t \in ReadCommitmentTree(bytes[1]) : t.left # {}},
        cursor \in IF bytes[3] = {} THEN {{}} ELSE {{c} : c \in ReadCommitmentTree(The(bytes[3]))}}

(* The sibling of each level: to the left what the note's tree holds, to    *)
(* the right what is filled, then the cursor, then empty subtrees.          *)
AuthPath(witness) ==
    LET sibling(level) ==
            LET next == FilledBelow(witness.tree, level) + 1
            IN  IF ~Vacant(witness.tree, level)
                THEN The(IF level = 0 THEN witness.tree.left ELSE witness.tree.parents[level])
                ELSE IF next <= Len(witness.filled) THEN witness.filled[next]
                ELSE IF next = Len(witness.filled) + 1 /\ witness.cursor # {}
                THEN RootAtDepth(The(witness.cursor), level) ELSE EmptyRoot[level]
    IN  [auth_path |-> [i \in 1 .. DEPTH |-> sibling(i - 1)],
         position |-> TreeSize(witness.tree) - 1]

PathRoot(path, leaf) ==
    Climb(leaf, path.auth_path,
          {l \in 1 .. DEPTH : IsRightChild(Ancestor(path.position, l - 1))}, DEPTH)

(* The slice that full nodes hand out: from the root down. *)
PathSlice(path) ==
    [depth |-> DEPTH, chunks |-> Reversed(path.auth_path), position |-> path.position]

(* Mutant: the elements are taken in the order of the slice. *)
MerklePathFromSliceForward(slice) ==
    IF slice.depth # DEPTH \/ Len(slice.chunks) # DEPTH THEN {}
    ELSE {[auth_path |-> slice.chunks, position |-> slice.position]}

MerklePathFromSlice(slice) ==
    IF slice.depth # DEPTH \/ Len(slice.chunks) # DEPTH THEN {}
    ELSE {[auth_path |-> Reversed(slice.chunks), position |-> slice.position]}

----------------------------------------------------------------------------
(* The wallet. *)

VARIABLES
    status,    \* "running", "down" or "failed": what was saved does not read
    count,     \* the note commitments that it has taken from the chain
    tree, frontier, witness,
    disk,      \* what it saved
    crashes

vars == <<status, count, tree, frontier, witness, disk, crashes>>

Saved(version) ==
    [count |-> count, tree |-> WriteCommitmentTree(tree),
     frontier |-> IF version = 1 THEN WriteFrontierV1(frontier) ELSE {},
     version |-> version,
     witness |-> {WriteIncrementalWitness(w) : w \in witness}]

Init ==
    /\ status = "running" /\ count = 0
    /\ tree = EmptyTree /\ frontier = {} /\ witness = {}
    /\ disk = Saved(0)
    /\ crashes = 0

(* The next commitment of the chain goes to all three; a full tree takes    *)
(* none.                                                                    *)
AppendCommitment ==
    LET leaf == <<count + 1>>
    IN  /\ status = "running" /\ ~IsComplete(tree, DEPTH)
        /\ count' = count + 1
        /\ tree' = TreeAppend(tree, leaf)
        /\ frontier' = FrontierAppend(frontier, leaf)
        /\ witness' = {WitnessAppend(w, leaf) : w \in witness}
        /\ UNCHANGED <<status, disk, crashes>>

(* The last commitment is a note of the wallet. *)
FollowNote ==
    /\ status = "running" /\ tree.left # {}
    /\ witness' = {Witness(tree, <<>>, {})}
    /\ UNCHANGED <<status, count, tree, frontier, disk, crashes>>

Save(version) ==
    /\ status = "running"
    /\ disk' = Saved(version)
    /\ UNCHANGED <<status, count, tree, frontier, witness, crashes>>

Crash ==
    /\ status = "running" /\ crashes < MaxCrashes
    /\ status' = "down" /\ crashes' = crashes + 1
    /\ count' = 0 /\ tree' = EmptyTree /\ frontier' = {} /\ witness' = {}
    /\ UNCHANGED disk

ReadFrontier ==
    IF disk.version = 1 THEN ReadFrontierV1(disk.frontier) ELSE ReadFrontierV0(disk.tree)
ReadWitness ==
    IF disk.witness = {} THEN {{}} ELSE {{w} : w \in ReadIncrementalWitness(The(disk.witness))}

Reads == {} \notin {ReadCommitmentTree(disk.tree), ReadFrontier, ReadWitness}

Restart ==
    /\ status = "down"
    /\ status' = IF Reads THEN "running" ELSE "failed"
    /\ count' = disk.count
    /\ tree' = IF Reads THEN The(ReadCommitmentTree(disk.tree)) ELSE tree
    /\ frontier' = IF Reads THEN The(ReadFrontier) ELSE frontier
    /\ witness' = IF Reads THEN The(ReadWitness) ELSE witness
    /\ UNCHANGED <<disk, crashes>>

Next ==
    \/ AppendCommitment
    \/ FollowNote
    \/ \E version \in {0, 1} : Save(version)
    \/ Crash
    \/ Restart

Spec == Init /\ [][Next]_vars

----------------------------------------------------------------------------
(* Properties.                                                              *)

(* The levels of the tree over a row of leaves, and the root over the first *)
(* commitments of the chain.                                                *)
Layers(leaves) ==
    LET layer[l \in 0 .. DEPTH] ==
            IF l = 0 THEN leaves
            ELSE [i \in Nat |-> Combine(layer[l - 1][2 * i], layer[l - 1][2 * i + 1])]
    IN  layer
ChainLeaves(n) == [i \in Nat |-> IF i < n THEN <<i + 1>> ELSE EmptyRoot[0]]
ChainRoot(n) == Layers(ChainLeaves(n))[DEPTH][0]

(* Every save, in either format, reads back, and a wallet that crashes and  *)
(* appends on has the tree and the frontier of the commitments it counts,   *)
(* as if it had never stopped.                                              *)
CheckpointsResume ==
    /\ status # "failed"
    /\ status = "running" =>
        /\ RootAtDepth(tree, DEPTH) = ChainRoot(count)
        /\ frontier = ToFrontier(tree)

(* The followed note has a path to the root of the tree at every moment,    *)
(* through saves, crashes and the export of the path as a slice.            *)
FollowedNoteHasPath ==
    status = "running" =>
        \A w \in witness :
            LET note == The(IF w.tree.right = {} THEN w.tree.left ELSE w.tree.right)
            IN  {PathRoot(path, note) : path \in MerklePathFromSlice(PathSlice(AuthPath(w)))}
                    = {ChainRoot(count)}
=============================================================================
