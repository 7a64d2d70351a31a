----------------------- MODULE MerkleCheckpointProofs -----------------------
(***************************************************************************)
(* A wallet that crashes resumes with the tree, the frontier and the path  *)
(* of its note, for every depth of the tree and every number of crashes.   *)
(*                                                                         *)
(* The nodes that are complete never change: they are those of the tree    *)
(* over the endless row of commitments (Whole).  What the wallet holds is  *)
(* told in terms of the last position alone: at each level its ancestor is *)
(* a left child, or it has a left sibling, which is complete.              *)
(***************************************************************************)
EXTENDS MerkleCheckpoint, FiniteSetTheorems, SequenceTheorems, WellFoundedInduction, TLAPS

Commitments == [i \in Nat |-> <<i + 1>>]
Whole(level, index) == Layers(Commitments)[level][index]

(* The ancestor of a position is a right child, and then its left sibling.  *)
Odd(position, level) == IsRightChild(Ancestor(position, level))
Sibling(position, level) ==
    IF Odd(position, level) THEN {Whole(level, Ancestor(position, level) - 1)} ELSE {}

(* The tree of so many levels that holds the leaves up to a position, from  *)
(* the first leaf of the subtree of that height that the position is in.    *)
TreeHolds(t, position, levels) ==
    /\ t = [left |-> IF Odd(position, 0) THEN Sibling(position, 0) ELSE {Whole(0, position)},
            right |-> IF Odd(position, 0) THEN {Whole(0, position)} ELSE {},
            parents |-> t.parents]
    /\ Len(t.parents) \in 0 .. levels - 1
    /\ t.parents = [i \in 1 .. Len(t.parents) |-> t.parents[i]]
    /\ \A i \in 1 .. levels - 1 : Slot(t, i) = Sibling(position, i)

Siblings(position) == [i \in 1 .. DEPTH |-> Sibling(position, i - 1)]

FrontierOf(position) ==
    {[position |-> position, leaf |-> Whole(0, position),
      ommers |-> Present(Siblings(position), DEPTH)]}

(* The levels below a given one at which a position has its sibling to the  *)
(* right.                                                                   *)
Rights(position, level) == {l \in 0 .. level - 1 : ~Odd(position, l)}

(* The witness of the note at a position when n leaves are there.  The next *)
(* leaf is below the right sibling of the note's ancestor at level next,    *)
(* and the siblings to the right below that level are complete.             *)
WitnessHolds(w, position, next, n) ==
    /\ w = [tree |-> w.tree, filled |-> w.filled, cursor |-> w.cursor]
    /\ Ancestor(position, DEPTH) = 0 /\ TreeHolds(w.tree, position, DEPTH)
    /\ Ancestor(n, next) = Ancestor(position, next) + 1
    /\ next # DEPTH => ~Odd(position, next)
    /\ Len(w.filled) = Cardinality(Rights(position, next))
    /\ w.filled = [i \in 1 .. Len(w.filled) |-> w.filled[i]]
    /\ \A l \in Rights(position, next) :
        w.filled[Cardinality(Rights(position, l)) + 1] = Whole(l, Ancestor(position, l) + 1)
    /\ IF Rights(n, next) = 0 .. next - 1 THEN w.cursor = {}
       ELSE \E c \in w.cursor : w.cursor = {c} /\ TreeHolds(c, n - 1, next)

(* What the wallet holds after n commitments. *)
Holds(n, t, f, ws) ==
    /\ n \in Nat
    /\ n = 0 => t = EmptyTree /\ f = {} /\ ws = {}
    /\ n # 0 =>
        /\ Ancestor(n - 1, DEPTH) = 0
        /\ TreeHolds(t, n - 1, DEPTH)
        /\ f = FrontierOf(n - 1)
        /\ ws = {} \/ \E w \in ws : ws = {w} /\ \E position \in 0 .. n - 1, next \in 0 .. DEPTH :
                                        WitnessHolds(w, position, next, n)

(* What is saved reads back as what a wallet holds. *)
DiskHolds ==
    /\ Reads
    /\ Holds(disk.count, The(ReadCommitmentTree(disk.tree)), The(ReadFrontier), The(ReadWitness))

CheckpointInv ==
    /\ status \in {"running", "down"}
    /\ status = "running" => Holds(count, tree, frontier, witness)
    /\ DiskHolds

----------------------------------------------------------------------------
(* Induction and iteration over the natural numbers. *)

LEMMA LeastNumber ==
    ASSUME NEW S, S \subseteq Nat, S # {}
    PROVE  \E n \in S : \A m \in S : n <= m
<1>1. PICK n \in S : \A m \in S : <<m, n>> \notin OpToRel(<, Nat)
    BY NatLessThanWellFounded, WFMin
<1>2. ASSUME NEW m \in S PROVE n <= m
    <2>1. m \in Nat /\ n \in Nat
        OBVIOUS
    <2>2. m < n => <<m, n>> \in OpToRel(<, Nat)
        BY <2>1 DEF OpToRel
    <2>3. ~(m < n)
        BY <1>1, <2>2
    <2> QED BY <2>1, <2>3
<1> QED BY <1>2

LEMMA Induction ==
    ASSUME NEW S, 0 \in S, \A n \in Nat : n \in S => n + 1 \in S
    PROVE  Nat \subseteq S
<1> SUFFICES ASSUME Nat \ S # {} PROVE FALSE
    OBVIOUS
<1>1. PICK n \in Nat \ S : \A m \in Nat \ S : n <= m
    BY LeastNumber
<1>2. n \in Nat /\ n # 0 /\ n - 1 \in Nat /\ ~(n <= n - 1) /\ (n - 1) + 1 = n
    BY <1>1
<1> QED BY <1>1, <1>2

(* The same up to a bound. *)
LEMMA BoundedInduction ==
    ASSUME NEW bound \in Nat, NEW S, 0 \in S,
           \A n \in Nat : n < bound /\ n \in S => n + 1 \in S
    PROVE  0 .. bound \subseteq S
<1> DEFINE T == {n \in Nat : n <= bound => n \in S}
<1>1. 0 \in T /\ \A n \in Nat : n \in T => n + 1 \in T
    <2>1. \A n \in Nat : n + 1 <= bound => n < bound /\ n <= bound
        OBVIOUS
    <2> QED BY <2>1
<1>2. Nat \subseteq T
    <2> HIDE DEF T
    <2> QED BY <1>1, Induction
<1> QED BY <1>2

(* A function that is defined by iterating a step. *)
Iterates(f, start, step) == f = [n \in Nat |-> IF n = 0 THEN start ELSE step[n][f[n - 1]]]

LEMMA Iterate ==
    ASSUME NEW V, NEW start \in V, NEW step \in [Nat -> [V -> V]]
    PROVE  \E f \in [Nat -> V] : Iterates(f, start, step)
<1> DEFINE Good(d, f) == f[0] = start /\ \A n \in Nat : n < d => f[n + 1] = step[n + 1][f[n]]
           S == {d \in Nat : \E f \in [Nat -> V] : Good(d, f)}
<1>1. 0 \in S
    <2>1. [n \in Nat |-> start] \in [Nat -> V] /\ Good(0, [n \in Nat |-> start])
        OBVIOUS
    <2> HIDE DEF Good
    <2> QED BY <2>1
<1>2. ASSUME NEW d \in Nat, d \in S PROVE d + 1 \in S
    <2>1. PICK f \in [Nat -> V] : Good(d, f)
        BY <1>2
    <2> DEFINE g == [f EXCEPT ![d + 1] = step[d + 1][f[d]]]
    <2>2. g \in [Nat -> V] /\ g[d + 1] = step[d + 1][f[d]]
          /\ \A k \in Nat : k # d + 1 => g[k] = f[k]
        OBVIOUS
    <2> HIDE DEF g
    <2>3. ASSUME NEW n \in Nat, n < d + 1 PROVE g[n + 1] = step[n + 1][g[n]]
        <3>1. n # d + 1 /\ g[n] = f[n]
            BY <2>2, <2>3
        <3>2. CASE n = d
            BY <2>2, <3>1, <3>2
        <3>3. CASE n # d
            <4>1. n < d /\ n + 1 # d + 1
                BY <2>3, <3>3
            <4> QED BY <2>1, <2>2, <3>1, <4>1
        <3> QED BY <3>2, <3>3
    <2>4. Good(d + 1, g)
        BY <2>1, <2>2, <2>3
    <2> HIDE DEF Good
    <2> QED BY <2>2, <2>4
<1>3. \A d \in Nat : \E f \in [Nat -> V] : Good(d, f)
    <2>1. Nat \subseteq S
        <3> HIDE DEF S
        <3> QED BY <1>1, <1>2, Induction
    <2> QED BY <2>1
<1>4. ASSUME NEW d \in Nat, NEW f, NEW g, Good(d, f), Good(d, g), NEW n \in Nat, n <= d
      PROVE  f[n] = g[n]
    <2> DEFINE T == {k \in Nat : f[k] = g[k]}
    <2>1. 0 \in T
        BY <1>4
    <2>2. \A k \in Nat : k < d /\ k \in T => k + 1 \in T
        BY <1>4
    <2>3. 0 .. d \subseteq T
        <3> HIDE DEF T
        <3> QED BY <2>1, <2>2, BoundedInduction
    <2> QED BY <1>4, <2>3
<1> DEFINE pick(n) == CHOOSE f \in [Nat -> V] : Good(n, f)
           F == [n \in Nat |-> pick(n)[n]]
<1>5. \A n \in Nat : pick(n) \in [Nat -> V] /\ Good(n, pick(n))
    <2> HIDE DEF Good
    <2> QED BY <1>3
<1> HIDE DEF pick
<1>6. F \in [Nat -> V]
    BY <1>5
<1>7. F[0] = start
    BY <1>5
<1>8. ASSUME NEW n \in Nat PROVE F[n + 1] = step[n + 1][F[n]]
    <2>1. Good(n, pick(n)) /\ Good(n, pick(n + 1)) /\ pick(n + 1)[n + 1] = step[n + 1][pick(n + 1)[n]]
        BY <1>5
    <2>2. pick(n)[n] = pick(n + 1)[n]
        <3> HIDE DEF Good
        <3> QED BY <1>4, <2>1
    <2> QED BY <2>1, <2>2
<1> HIDE DEF F
<1>9. ASSUME NEW n \in Nat PROVE F[n] = IF n = 0 THEN start ELSE step[n][F[n - 1]]
    <2>1. CASE n = 0
        BY <1>7, <2>1
    <2>2. CASE n # 0
        <3>1. n - 1 \in Nat /\ (n - 1) + 1 = n
            BY <2>2
        <3> QED BY <1>8, <2>2, <3>1
    <2> QED BY <2>1, <2>2
<1>10. Iterates(F, start, step)
    BY <1>6, <1>9 DEF Iterates
<1> QED BY <1>6, <1>10

----------------------------------------------------------------------------
(* The recursive functions of the model. *)

(* A function on an initial segment of the numbers is a sequence. *)
LEMMA SequenceOf ==
    ASSUME NEW n \in Nat, NEW f, f = [i \in 1 .. n |-> f[i]]
    PROVE  Len(f) = n /\ f \in Seq({f[i] : i \in 1 .. n})
<1> DEFINE S == {f[i] : i \in 1 .. n}
<1>1. f \in [1 .. n -> S]
    OBVIOUS
<1>2. f \in Seq(S)
    BY <1>1, SeqDef
<1>3. Len(f) \in Nat /\ DOMAIN f = 1 .. Len(f)
    BY <1>2, LenProperties
<1>4. DOMAIN f = 1 .. n
    BY <1>1
<1> QED BY <1>2, <1>3, <1>4

LEMMA AncestorDef ==
    ASSUME NEW position \in Nat
    PROVE  /\ Ancestor(position, 0) = position
           /\ \A l \in Nat : /\ Ancestor(position, l) \in Nat
                             /\ Ancestor(position, l + 1) = Ancestor(position, l) \div 2
<1> DEFINE step == [n \in Nat |-> [v \in Nat |-> v \div 2]]
           Body(f) == [l \in Nat |-> IF l = 0 THEN position ELSE f[l - 1] \div 2]
           above == CHOOSE f : f = Body(f)
<1>1. step \in [Nat -> [Nat -> Nat]]
    OBVIOUS
<1>2. \A n, v \in Nat : step[n][v] = v \div 2
    OBVIOUS
<1> HIDE DEF step
<1>4. PICK f \in [Nat -> Nat] : Iterates(f, position, step)
    BY <1>1, Iterate
<1>5. f = Body(f)
    <2>1. ASSUME NEW n \in Nat PROVE f[n] = IF n = 0 THEN position ELSE f[n - 1] \div 2
        <3>1. n # 0 => n - 1 \in Nat /\ f[n - 1] \in Nat
            OBVIOUS
        <3> QED BY <1>2, <1>4, <3>1 DEF Iterates
    <2> QED BY <2>1
<1>6. above = Body(above)
    <2> HIDE DEF Body
    <2> QED BY <1>5
<1>7. \A l : Ancestor(position, l) = above[l]
    BY DEF Ancestor
<1> HIDE DEF above
<1>8. above[0] = position /\ \A l \in Nat : l # 0 => above[l] = above[l - 1] \div 2
    BY <1>6
<1>9. \A l \in Nat : above[l + 1] = above[l] \div 2
    <2>1. \A l \in Nat : l + 1 \in Nat /\ l + 1 # 0 /\ (l + 1) - 1 = l
        OBVIOUS
    <2> QED BY <1>8, <2>1
<1> DEFINE S == {l \in Nat : above[l] \in Nat}
<1>10. Nat \subseteq S
    <2>1. 0 \in S /\ \A l \in Nat : l \in S => l + 1 \in S
        BY <1>8, <1>9
    <2> HIDE DEF S
    <2> QED BY <2>1, Induction
<1> QED BY <1>7, <1>8, <1>9, <1>10

LEMMA PresentDef ==
    ASSUME NEW options
    PROVE  /\ Present(options, 0) = <<>>
           /\ \A n \in Nat :
                /\ Present(options, n) \in Seq({The(options[i]) : i \in Nat})
                /\ Present(options, n + 1) =
                     IF options[n + 1] = {} THEN Present(options, n)
                     ELSE Append(Present(options, n), The(options[n + 1]))
<1> DEFINE V == Seq({The(options[i]) : i \in Nat})
           next(n, v) == IF options[n] = {} THEN v ELSE Append(v, The(options[n]))
           step == [n \in Nat |-> [v \in V |-> next(n, v)]]
           Body(f) == [i \in Nat |-> IF i = 0 THEN <<>>
                                     ELSE IF options[i] = {} THEN f[i - 1]
                                     ELSE Append(f[i - 1], The(options[i]))]
           found == CHOOSE f : f = Body(f)
<1>1. <<>> \in V
    OBVIOUS
<1>2. \A n \in Nat : \A v \in V : next(n, v) \in V
    OBVIOUS
<1>3. step \in [Nat -> [V -> V]] /\ \A n \in Nat : \A v \in V : step[n][v] = next(n, v)
    <2> HIDE DEF next, V
    <2> QED BY <1>2
<1> HIDE DEF step
<1>4. PICK f \in [Nat -> V] : Iterates(f, <<>>, step)
    <2> HIDE DEF V
    <2> QED BY <1>1, <1>3, Iterate
<1>5. f = Body(f)
    <2>1. ASSUME NEW n \in Nat PROVE f[n] = IF n = 0 THEN <<>> ELSE next(n, f[n - 1])
        <3>1. n # 0 => n - 1 \in Nat /\ f[n - 1] \in V
            OBVIOUS
        <3> HIDE DEF next, V
        <3> QED BY <1>3, <1>4, <3>1 DEF Iterates
    <2> QED BY <2>1
<1>6. found = Body(found)
    <2> HIDE DEF Body
    <2> QED BY <1>5
<1>7. \A n : Present(options, n) = found[n]
    BY DEF Present
<1> HIDE DEF found
<1>8. found[0] = <<>> /\ \A n \in Nat : n # 0 => found[n] = next(n, found[n - 1])
    BY <1>6
<1>9. \A n \in Nat : found[n + 1] = next(n + 1, found[n])
    <2>1. \A n \in Nat : n + 1 \in Nat /\ n + 1 # 0 /\ (n + 1) - 1 = n
        OBVIOUS
    <2> HIDE DEF next
    <2> QED BY <1>8, <2>1
<1> DEFINE S == {n \in Nat : found[n] \in V}
<1>10. Nat \subseteq S
    <2>1. 0 \in S
        BY <1>1, <1>8
    <2>2. \A n \in Nat : n \in S => n + 1 \in S
        <3>1. \A n \in Nat : n + 1 \in Nat
            OBVIOUS
        <3> HIDE DEF next, V
        <3> QED BY <1>2, <1>9, <3>1
    <2> HIDE DEF S
    <2> QED BY <2>1, <2>2, Induction
<1> QED BY <1>7, <1>8, <1>9, <1>10

LEMMA LayersDef ==
    ASSUME NEW leaves
    PROVE  /\ Layers(leaves)[0] = leaves
           /\ \A l, i \in Nat : l < DEPTH =>
                Layers(leaves)[l + 1][i] =
                    Combine(Layers(leaves)[l][2 * i], Layers(leaves)[l][2 * i + 1])
<1> DEFINE up(row) == [i \in Nat |-> Combine(row[2 * i], row[2 * i + 1])]
           Body(d, f) == [l \in 0 .. d |-> IF l = 0 THEN leaves ELSE up(f[l - 1])]
           S == {d \in Nat : \E f : f = Body(d, f)}
<1>1. 0 \in S
    <2>1. [l \in 0 .. 0 |-> leaves] = Body(0, [l \in 0 .. 0 |-> leaves])
        <3> HIDE DEF up
        <3> QED OBVIOUS
    <2> HIDE DEF Body
    <2> QED BY <2>1
<1>2. ASSUME NEW d \in Nat, d \in S PROVE d + 1 \in S
    <2>1. PICK f : f = Body(d, f)
        BY <1>2
    <2> DEFINE g == [l \in 0 .. d + 1 |-> IF l <= d THEN f[l] ELSE up(f[d])]
    <2> HIDE DEF up
    <2>2. \A l \in 0 .. d : g[l] = f[l] /\ f[l] = IF l = 0 THEN leaves ELSE up(f[l - 1])
        BY <2>1
    <2>3. g[d + 1] = up(f[d])
        OBVIOUS
    <2>4. ASSUME NEW l \in 0 .. d + 1 PROVE g[l] = IF l = 0 THEN leaves ELSE up(g[l - 1])
        <3>1. CASE l \in 0 .. d
            <4>1. l # 0 => l - 1 \in 0 .. d
                BY <3>1
            <4> HIDE DEF g
            <4> QED BY <2>2, <3>1, <4>1
        <3>2. CASE l = d + 1
            <4>1. l - 1 = d /\ l # 0 /\ d \in 0 .. d
                BY <3>2
            <4> HIDE DEF g
            <4> QED BY <2>2, <2>3, <3>2, <4>1
        <3> QED BY <3>1, <3>2
    <2>5. g = [l \in 0 .. d + 1 |-> g[l]]
        OBVIOUS
    <2> HIDE DEF g
    <2>6. g = Body(d + 1, g)
        BY <2>4, <2>5
    <2> HIDE DEF Body
    <2> QED BY <2>6
<1>3. DEPTH \in S
    <2> HIDE DEF S
    <2> QED BY <1>1, <1>2, Induction, DepthAssumption
<1> DEFINE layer == CHOOSE f : f = Body(DEPTH, f)
<1>4. layer = Body(DEPTH, layer)
    <2> HIDE DEF Body
    <2> QED BY <1>3
<1>5. Layers(leaves) = layer
    BY DEF Layers
<1> HIDE DEF layer, up
<1>6. DEPTH \in Nat
    BY DepthAssumption
<1>7. \A l \in 0 .. DEPTH : layer[l] = IF l = 0 THEN leaves ELSE up(layer[l - 1])
    BY <1>4
<1>8. \A l \in Nat : l < DEPTH => layer[l + 1] = up(layer[l])
    <2>1. \A l \in Nat : l < DEPTH => l + 1 \in 0 .. DEPTH /\ l + 1 # 0 /\ (l + 1) - 1 = l
        BY <1>6
    <2> QED BY <1>7, <2>1
<1>9. layer[0] = leaves
    BY <1>6, <1>7
<1>10. \A row : \A i \in Nat : up(row)[i] = Combine(row[2 * i], row[2 * i + 1])
    BY DEF up
<1> QED BY <1>5, <1>8, <1>9, <1>10

LEMMA LayersStep ==
    ASSUME NEW leaves, NEW l \in Nat, l < DEPTH, NEW i \in Nat
    PROVE  Layers(leaves)[l + 1][i] =
               Combine(Layers(leaves)[l][2 * i], Layers(leaves)[l][2 * i + 1])
<1> DEFINE L == Layers(leaves)
<1>1. \A m, j \in Nat : m < DEPTH => L[m + 1][j] = Combine(L[m][2 * j], L[m][2 * j + 1])
    BY LayersDef
<1> HIDE DEF L
<1>2. L[l + 1][i] = Combine(L[l][2 * i], L[l][2 * i + 1])
    BY <1>1
<1> QED BY <1>2 DEF L

(* A climb ends where every row of nodes ends that fits its steps. *)
Climbs(W, node, siblings, lefts, levels) ==
    /\ W[0] = node
    /\ \A l \in 1 .. levels :
         W[l] = IF l \in lefts THEN Combine(siblings[l], W[l - 1])
                ELSE Combine(W[l - 1], siblings[l])

LEMMA ClimbIs ==
    ASSUME NEW levels \in Nat, NEW node, NEW siblings, NEW lefts, NEW W,
           Climbs(W, node, siblings, lefts, levels)
    PROVE  Climb(node, siblings, lefts, levels) = W[levels]
<1>0. /\ W[0] = node
      /\ \A l \in 1 .. levels : W[l] = IF l \in lefts THEN Combine(siblings[l], W[l - 1])
                                       ELSE Combine(W[l - 1], siblings[l])
    BY DEF Climbs
<1> DEFINE next(l, v) == IF l \in lefts THEN Combine(siblings[l], v) ELSE Combine(v, siblings[l])
           Body(f) == [l \in 0 .. levels |->
                         IF l = 0 THEN node
                         ELSE IF l \in lefts THEN Combine(siblings[l], f[l - 1])
                         ELSE Combine(f[l - 1], siblings[l])]
           g == [l \in 0 .. levels |-> W[l]]
           climbed == CHOOSE f : f = Body(f)
<1>1. g = Body(g)
    <2>1. ASSUME NEW l \in 0 .. levels PROVE g[l] = IF l = 0 THEN node ELSE next(l, g[l - 1])
        <3>1. g[l] = W[l] /\ (l # 0 => l - 1 \in 0 .. levels /\ g[l - 1] = W[l - 1] /\ l \in 1 .. levels)
            OBVIOUS
        <3> HIDE DEF g
        <3> QED BY <1>0, <3>1
    <2>2. g = [l \in 0 .. levels |-> g[l]]
        OBVIOUS
    <2> HIDE DEF g
    <2> QED BY <2>1, <2>2
<1>2. climbed = Body(climbed)
    <2> HIDE DEF Body
    <2> QED BY <1>1
<1>3. Climb(node, siblings, lefts, levels) = climbed[levels]
    BY DEF Climb
<1> HIDE DEF climbed
<1>4. \A l \in 0 .. levels : climbed[l] = IF l = 0 THEN node ELSE next(l, climbed[l - 1])
    BY <1>2
<1> DEFINE S == {l \in Nat : climbed[l] = W[l]}
<1>5. 0 \in S
    BY <1>0, <1>4
<1>6. ASSUME NEW l \in Nat, l < levels, l \in S PROVE l + 1 \in S
    <2>1. l + 1 \in 0 .. levels /\ l + 1 \in 1 .. levels /\ l + 1 # 0 /\ (l + 1) - 1 = l
        BY <1>6
    <2>2. W[l + 1] = next(l + 1, W[l])
        BY <1>0, <2>1
    <2>3. climbed[l + 1] = next(l + 1, climbed[l])
        BY <1>4, <2>1
    <2> HIDE DEF next
    <2> QED BY <1>6, <2>2, <2>3
<1>7. 0 .. levels \subseteq S
    <2> HIDE DEF S
    <2> QED BY <1>5, <1>6, BoundedInduction
<1> QED BY <1>3, <1>7

----------------------------------------------------------------------------
(* The ancestors of a position: its binary digits. *)

LEMMA Halves ==
    ASSUME NEW position \in Nat, NEW l \in Nat
    PROVE  /\ Ancestor(position, l) \in Nat /\ Ancestor(position, l + 1) \in Nat
           /\ Odd(position, l) => Ancestor(position, l) = 2 * Ancestor(position, l + 1) + 1
           /\ ~Odd(position, l) => Ancestor(position, l) = 2 * Ancestor(position, l + 1)
           /\ Odd(position, l) \in BOOLEAN
<1> DEFINE a == Ancestor(position, l)
           b == Ancestor(position, l + 1)
<1>1. a \in Nat /\ b = a \div 2
    BY AncestorDef
<1>2. Odd(position, l) <=> a % 2 = 1
    BY DEF Odd, IsRightChild
<1> HIDE DEF a, b
<1>3. \A n \in Nat : /\ n \div 2 \in Nat
                     /\ n % 2 = 1 => n = 2 * (n \div 2) + 1
                     /\ n % 2 # 1 => n = 2 * (n \div 2)
    OBVIOUS
<1>4. b \in Nat /\ (Odd(position, l) => a = 2 * b + 1) /\ (~Odd(position, l) => a = 2 * b)
    BY <1>1, <1>2, <1>3
<1>5. Odd(position, l) \in BOOLEAN
    BY DEF Odd, IsRightChild
<1> QED BY <1>1, <1>4, <1>5 DEF a, b

LEMMA AncestorMonotone ==
    ASSUME NEW p \in Nat, NEW q \in Nat, p <= q, NEW l \in Nat
    PROVE  Ancestor(p, l) <= Ancestor(q, l)
<1> DEFINE S == {i \in Nat : Ancestor(p, i) <= Ancestor(q, i)}
<1>1. 0 \in S
    BY AncestorDef
<1>2. ASSUME NEW i \in Nat, i \in S PROVE i + 1 \in S
    <2>1. Ancestor(p, i) <= Ancestor(q, i)
        BY <1>2
    <2>2. /\ Ancestor(p, i) \in Nat /\ Ancestor(p, i + 1) = Ancestor(p, i) \div 2
          /\ Ancestor(q, i) \in Nat /\ Ancestor(q, i + 1) = Ancestor(q, i) \div 2
        BY AncestorDef
    <2>3. \A x, y \in Nat : x <= y => x \div 2 <= y \div 2
        OBVIOUS
    <2> QED BY <2>1, <2>2, <2>3
<1>3. Nat \subseteq S
    <2> HIDE DEF S
    <2> QED BY <1>1, <1>2, Induction
<1> QED BY <1>3

(* Two positions below one node have the same ancestors above it. *)
LEMMA CommonAncestors ==
    ASSUME NEW p \in Nat, NEW q \in Nat, NEW l \in Nat, Ancestor(p, l) = Ancestor(q, l),
           NEW m \in Nat, l <= m
    PROVE  Ancestor(p, m) = Ancestor(q, m) /\ (Odd(p, m) <=> Odd(q, m))
<1> DEFINE S == {i \in Nat : l <= i => Ancestor(p, i) = Ancestor(q, i)}
<1>1. 0 \in S
    OBVIOUS
<1>2. ASSUME NEW i \in Nat, i \in S PROVE i + 1 \in S
    <2>1. CASE l = i + 1
        BY <2>1
    <2>2. CASE l <= i
        BY <1>2, <2>2, AncestorDef
    <2>3. CASE ~(l <= i + 1)
        BY <2>3
    <2> QED BY <2>1, <2>2, <2>3
<1>3. Nat \subseteq S
    <2> HIDE DEF S
    <2> QED BY <1>1, <1>2, Induction
<1> QED BY <1>3 DEF Odd

(* Adding one carries as far as the digits are ones. *)
LEMMA Increment ==
    ASSUME NEW q \in Nat, NEW l \in Nat
    PROVE  Ancestor(q + 1, l) = IF \A i \in 0 .. l - 1 : Odd(q, i) THEN Ancestor(q, l) + 1
                                ELSE Ancestor(q, l)
<1> DEFINE carries(i) == \A j \in 0 .. i - 1 : Odd(q, j)
           S == {i \in Nat : Ancestor(q + 1, i) = IF carries(i) THEN Ancestor(q, i) + 1
                                                  ELSE Ancestor(q, i)}
<1>1. 0 \in S
    <2>1. q + 1 \in Nat /\ 0 .. 0 - 1 = {}
        OBVIOUS
    <2>2. Ancestor(q + 1, 0) = q + 1 /\ Ancestor(q, 0) = q
        BY <2>1, AncestorDef
    <2> QED BY <2>1, <2>2
<1>2. ASSUME NEW i \in Nat, i \in S PROVE i + 1 \in S
    <2>1. carries(i + 1) <=> carries(i) /\ Odd(q, i)
        <3>1. \A j : j \in 0 .. (i + 1) - 1 <=> j \in 0 .. i - 1 \/ j = i
            OBVIOUS
        <3> QED BY <3>1
    <2> HIDE DEF carries
    <2>2. q + 1 \in Nat
        OBVIOUS
    <2>3. Ancestor(q + 1, i + 1) = Ancestor(q + 1, i) \div 2
        BY <2>2, AncestorDef
    <2>4. CASE carries(i) /\ Odd(q, i)
        <3>1. Ancestor(q + 1, i) = 2 * Ancestor(q, i + 1) + 2 /\ Ancestor(q, i + 1) \in Nat
            BY <1>2, <2>4, Halves
        <3> QED BY <2>1, <2>3, <2>4, <3>1
    <2>5. CASE carries(i) /\ ~Odd(q, i)
        <3>1. Ancestor(q + 1, i) = 2 * Ancestor(q, i + 1) + 1 /\ Ancestor(q, i + 1) \in Nat
            BY <1>2, <2>5, Halves
        <3> QED BY <2>1, <2>3, <2>5, <3>1
    <2>6. CASE ~carries(i)
        <3>1. Ancestor(q, i + 1) = Ancestor(q, i) \div 2
            BY AncestorDef
        <3> QED BY <1>2, <2>1, <2>3, <2>6, <3>1
    <2> QED BY <2>4, <2>5, <2>6
<1>3. Nat \subseteq S
    <2> HIDE DEF S
    <2> QED BY <1>1, <1>2, Induction
<1> QED BY <1>3

(* The first level at which a position is below a left child. *)
FirstLeft(q, v) == v \in Nat /\ ~Odd(q, v) /\ \A i \in 0 .. v - 1 : Odd(q, i)

LEMMA FirstLeftExists ==
    ASSUME NEW q \in Nat, NEW l \in Nat, ~Odd(q, l)
    PROVE  \E v \in 0 .. l : FirstLeft(q, v)
<1> DEFINE S == {i \in Nat : ~Odd(q, i)}
<1>1. S \subseteq Nat /\ S # {}
    OBVIOUS
<1>2. PICK v \in S : \A m \in S : v <= m
    <2> HIDE DEF S
    <2> QED BY <1>1, LeastNumber
<1>3. v \in 0 .. l
    BY <1>2
<1>4. \A i \in 0 .. v - 1 : i \in Nat /\ ~(v <= i)
    BY <1>3
<1> QED BY <1>2, <1>3, <1>4 DEF FirstLeft

(* What adding one does below, at and above that level. *)
LEMMA CarryStops ==
    ASSUME NEW q \in Nat, NEW v, FirstLeft(q, v)
    PROVE  /\ \A i \in 0 .. v - 1 : ~Odd(q + 1, i)
           /\ Odd(q + 1, v) /\ Ancestor(q + 1, v) = Ancestor(q, v) + 1
           /\ \A i \in Nat : i > v => /\ Ancestor(q + 1, i) = Ancestor(q, i)
                                      /\ Odd(q + 1, i) <=> Odd(q, i)
<1>0. v \in Nat /\ q + 1 \in Nat
    BY DEF FirstLeft
<1>1. ASSUME NEW i \in 0 .. v PROVE Ancestor(q + 1, i) = Ancestor(q, i) + 1
    <2>1. i \in Nat /\ \A j \in 0 .. i - 1 : j \in 0 .. v - 1
        BY <1>0
    <2>2. \A j \in 0 .. i - 1 : Odd(q, j)
        BY <2>1 DEF FirstLeft
    <2> QED BY <2>1, <2>2, Increment
<1>2. ASSUME NEW i \in 0 .. v - 1 PROVE ~Odd(q + 1, i)
    <2>1. i \in 0 .. v /\ i \in Nat
        BY <1>0
    <2>2. Odd(q, i)
        BY DEF FirstLeft
    <2>3. Ancestor(q + 1, i) = 2 * Ancestor(q, i + 1) + 2 /\ Ancestor(q, i + 1) \in Nat
        BY <1>1, <2>1, <2>2, Halves
    <2> QED BY <2>3 DEF Odd, IsRightChild
<1>3. Odd(q + 1, v) /\ Ancestor(q + 1, v) = Ancestor(q, v) + 1
    <2>1. Ancestor(q + 1, v) = Ancestor(q, v) + 1
        BY <1>0, <1>1
    <2>2. Ancestor(q, v) = 2 * Ancestor(q, v + 1) /\ Ancestor(q, v + 1) \in Nat
        BY <1>0, Halves DEF FirstLeft
    <2>3. Ancestor(q + 1, v) % 2 = 1
        BY <2>1, <2>2
    <2> QED BY <2>1, <2>3 DEF Odd, IsRightChild
<1>4. ASSUME NEW i \in Nat, i > v PROVE Ancestor(q + 1, i) = Ancestor(q, i)
    <2>1. v \in 0 .. i - 1 /\ ~Odd(q, v)
        BY <1>0, <1>4 DEF FirstLeft
    <2> QED BY <2>1, Increment
<1> QED BY <1>2, <1>3, <1>4 DEF Odd

(* A position is the last of its subtree exactly when the next one is the   *)
(* first of the following subtree.                                          *)
LEMMA LastAndFirst ==
    ASSUME NEW q \in Nat, NEW l \in Nat
    PROVE  (\A i \in 0 .. l - 1 : Odd(q, i)) <=> Rights(q + 1, l) = 0 .. l - 1
<1>1. ASSUME \A i \in 0 .. l - 1 : Odd(q, i) PROVE \A i \in 0 .. l - 1 : ~Odd(q + 1, i)
    <2> SUFFICES ASSUME NEW i \in 0 .. l - 1 PROVE ~Odd(q + 1, i)
        OBVIOUS
    <2>1. i \in Nat /\ \A j \in 0 .. i - 1 : j \in 0 .. l - 1
        OBVIOUS
    <2>2. \A j \in 0 .. i - 1 : Odd(q, j)
        BY <1>1, <2>1
    <2>3. Ancestor(q + 1, i) = Ancestor(q, i) + 1
        BY <2>1, <2>2, Increment
    <2>4. Ancestor(q + 1, i) = 2 * Ancestor(q, i + 1) + 2 /\ Ancestor(q, i + 1) \in Nat
        BY <1>1, <2>1, <2>3, Halves
    <2> QED BY <2>4 DEF Odd, IsRightChild
<1>2. ASSUME NEW i \in 0 .. l - 1, ~Odd(q, i) PROVE \E v \in 0 .. l - 1 : Odd(q + 1, v)
    <2>1. i \in Nat
        OBVIOUS
    <2>2. PICK v \in 0 .. i : FirstLeft(q, v)
        BY <1>2, <2>1, FirstLeftExists
    <2>3. Odd(q + 1, v) /\ v \in 0 .. l - 1
        BY <2>2, CarryStops
    <2> QED BY <2>3
<1>3. Rights(q + 1, l) = 0 .. l - 1 <=> \A i \in 0 .. l - 1 : ~Odd(q + 1, i)
    BY DEF Rights
<1> QED BY <1>1, <1>2, <1>3

----------------------------------------------------------------------------
(* Nodes: complete, empty, and those of the chain after n commitments. *)

(* A node depends on the leaves below it only. *)
LEMMA LayersLocal ==
    ASSUME NEW a, NEW b, NEW l \in 0 .. DEPTH, NEW i \in Nat,
           \A k \in Nat : Ancestor(k, l) = i => a[k] = b[k]
    PROVE  Layers(a)[l][i] = Layers(b)[l][i]
<1> DEFINE same(m, j) == \A k \in Nat : Ancestor(k, m) = j => a[k] = b[k]
           S == {m \in Nat : \A j \in Nat : same(m, j) => Layers(a)[m][j] = Layers(b)[m][j]}
<1>1. 0 \in S
    <2>1. ASSUME NEW j \in Nat, same(0, j) PROVE Layers(a)[0][j] = Layers(b)[0][j]
        <3>1. Ancestor(j, 0) = j
            BY AncestorDef
        <3>2. a[j] = b[j]
            BY <2>1, <3>1
        <3> QED BY <3>2, LayersDef
    <2> HIDE DEF same
    <2> QED BY <2>1
<1>2. ASSUME NEW m \in Nat, m < DEPTH, m \in S PROVE m + 1 \in S
    <2>1. ASSUME NEW j \in Nat, same(m + 1, j) PROVE Layers(a)[m + 1][j] = Layers(b)[m + 1][j]
        <3>1. ASSUME NEW k \in Nat, Ancestor(k, m) = 2 * j \/ Ancestor(k, m) = 2 * j + 1
              PROVE  a[k] = b[k]
            <4>1. Ancestor(k, m + 1) = Ancestor(k, m) \div 2
                BY AncestorDef
            <4>2. Ancestor(k, m + 1) = j
                BY <3>1, <4>1
            <4> QED BY <2>1, <4>2
        <3>2. same(m, 2 * j) /\ same(m, 2 * j + 1)
            BY <3>1
        <3>3. 2 * j \in Nat /\ 2 * j + 1 \in Nat
            OBVIOUS
        <3> HIDE DEF same
        <3>4. Layers(a)[m][2 * j] = Layers(b)[m][2 * j]
              /\ Layers(a)[m][2 * j + 1] = Layers(b)[m][2 * j + 1]
            BY <1>2, <3>2, <3>3
        <3>5. Layers(a)[m + 1][j] = Combine(Layers(a)[m][2 * j], Layers(a)[m][2 * j + 1])
            BY <1>2, LayersStep
        <3>6. Layers(b)[m + 1][j] = Combine(Layers(b)[m][2 * j], Layers(b)[m][2 * j + 1])
            BY <1>2, LayersStep
        <3> QED BY <3>4, <3>5, <3>6
    <2> HIDE DEF same
    <2> QED BY <2>1
<1>3. 0 .. DEPTH \subseteq S
    <2> HIDE DEF S
    <2> QED BY <1>1, <1>2, BoundedInduction, DepthAssumption
<1>4. same(l, i)
    OBVIOUS
<1> HIDE DEF same
<1> QED BY <1>3, <1>4

Empties == [k \in Nat |-> <<0>>]

(* Over leaves that are all empty, the nodes of a level are all alike. *)
LEMMA EmptyLayers ==
    /\ EmptyRoot[0] = <<0>>
    /\ \A l \in 0 .. DEPTH : \A i \in Nat :
         Layers(Empties)[l][i] = EmptyRoot[l]
<1> DEFINE L == Layers(Empties)
           S == {l \in Nat : \A i \in Nat : L[l][i] = L[l][0]}
<1>d. DEPTH \in Nat
    BY DepthAssumption
<1>0. /\ \A i \in Nat : L[0][i] = <<0>>
      /\ \A l, i \in Nat : l < DEPTH => L[l + 1][i] = Combine(L[l][2 * i], L[l][2 * i + 1])
    <2>1. L[0] = Empties
        BY LayersDef
    <2>2. ASSUME NEW l \in Nat, NEW i \in Nat, l < DEPTH
          PROVE  L[l + 1][i] = Combine(L[l][2 * i], L[l][2 * i + 1])
        BY <2>2, LayersStep
    <2> HIDE DEF L
    <2> QED BY <2>1, <2>2 DEF Empties
<1> HIDE DEF L
<1>1. 0 \in S
    BY <1>0
<1>2. ASSUME NEW l \in Nat, l < DEPTH, l \in S PROVE l + 1 \in S
    <2>1. ASSUME NEW i \in Nat PROVE L[l + 1][i] = Combine(L[l][0], L[l][0])
        <3>1. 2 * i \in Nat /\ 2 * i + 1 \in Nat
            OBVIOUS
        <3> QED BY <1>0, <1>2, <3>1
    <2> QED BY <2>1
<1>3. 0 .. DEPTH \subseteq S
    <2> HIDE DEF S
    <2> QED BY <1>d, <1>1, <1>2, BoundedInduction
<1> DEFINE Body(f) == [level \in 0 .. DEPTH |->
                         IF level = 0 THEN <<0>> ELSE Combine(f[level - 1], f[level - 1])]
           g == [l \in 0 .. DEPTH |-> L[l][0]]
<1>4. ASSUME NEW l \in Nat, l < DEPTH PROVE L[l + 1][0] = Combine(L[l][0], L[l][0])
    <2>1. L[l + 1][0] = Combine(L[l][2 * 0], L[l][2 * 0 + 1])
        BY <1>0, <1>4
    <2>2. l \in 0 .. DEPTH /\ 2 * 0 = 0 /\ 2 * 0 + 1 = 1
        BY <1>d, <1>4
    <2>3. L[l][1] = L[l][0]
        BY <1>3, <2>2
    <2> QED BY <2>1, <2>2, <2>3
<1>5. g = Body(g)
    <2>1. ASSUME NEW l \in 0 .. DEPTH
          PROVE  g[l] = IF l = 0 THEN <<0>> ELSE Combine(g[l - 1], g[l - 1])
        <3>1. CASE l = 0
            BY <1>0, <3>1
        <3>2. CASE l # 0
            <4>1. l - 1 \in Nat /\ l - 1 < DEPTH /\ l - 1 \in 0 .. DEPTH /\ (l - 1) + 1 = l
                BY <1>d, <3>2
            <4> QED BY <1>4, <3>2, <4>1
        <3> QED BY <3>1, <3>2
    <2>2. g = [l \in 0 .. DEPTH |-> g[l]]
        OBVIOUS
    <2> HIDE DEF g
    <2> QED BY <2>1, <2>2
<1>6. EmptyRoot = CHOOSE f : f = Body(f)
    BY DEF EmptyRoot
<1>7. EmptyRoot = Body(EmptyRoot)
    <2> HIDE DEF Body
    <2> QED BY <1>5, <1>6
<1>8. EmptyRoot[0] = <<0>>
      /\ \A l \in 0 .. DEPTH : l # 0 => EmptyRoot[l] = Combine(EmptyRoot[l - 1], EmptyRoot[l - 1])
    BY <1>d, <1>7
<1> DEFINE T == {l \in Nat : EmptyRoot[l] = L[l][0]}
<1>9. 0 \in T
    BY <1>0, <1>8
<1>10. ASSUME NEW l \in Nat, l < DEPTH, l \in T PROVE l + 1 \in T
    <2>1. l + 1 \in 0 .. DEPTH /\ l + 1 # 0 /\ (l + 1) - 1 = l
        BY <1>d, <1>10
    <2>2. EmptyRoot[l + 1] = Combine(EmptyRoot[l], EmptyRoot[l])
        BY <1>8, <2>1
    <2> QED BY <1>4, <1>10, <2>2
<1>11. 0 .. DEPTH \subseteq T
    <2> HIDE DEF T
    <2> QED BY <1>d, <1>9, <1>10, BoundedInduction
<1> QED BY <1>3, <1>8, <1>11 DEF L

LEMMA WholeDef ==
    /\ \A i \in Nat : Whole(0, i) = <<i + 1>>
    /\ \A l \in Nat : l < DEPTH => \A i \in Nat :
         Whole(l + 1, i) = Combine(Whole(l, 2 * i), Whole(l, 2 * i + 1))
<1>1. Layers(Commitments)[0] = Commitments
    BY LayersDef
<1>2. \A i \in Nat : Whole(0, i) = <<i + 1>>
    BY <1>1 DEF Whole, Commitments
<1>3. ASSUME NEW l \in Nat, l < DEPTH, NEW i \in Nat
      PROVE  Whole(l + 1, i) = Combine(Whole(l, 2 * i), Whole(l, 2 * i + 1))
    BY <1>3, LayersStep DEF Whole
<1> QED BY <1>2, <1>3

Node(n, level, index) == Layers(ChainLeaves(n))[level][index]

LEMMA NodeDef ==
    ASSUME NEW n \in Nat
    PROVE  /\ \A i \in Nat : Node(n, 0, i) = IF i < n THEN Whole(0, i) ELSE EmptyRoot[0]
           /\ \A l \in Nat : l < DEPTH => \A i \in Nat :
                Node(n, l + 1, i) = Combine(Node(n, l, 2 * i), Node(n, l, 2 * i + 1))
<1>1. \A i \in Nat : ChainLeaves(n)[i] = IF i < n THEN Whole(0, i) ELSE EmptyRoot[0]
    BY WholeDef DEF ChainLeaves
<1>2. Layers(ChainLeaves(n))[0] = ChainLeaves(n)
    BY LayersDef
<1>3. ASSUME NEW l \in Nat, l < DEPTH, NEW i \in Nat
      PROVE  Node(n, l + 1, i) = Combine(Node(n, l, 2 * i), Node(n, l, 2 * i + 1))
    BY <1>3, LayersStep DEF Node
<1>4. \A i \in Nat : Node(n, 0, i) = IF i < n THEN Whole(0, i) ELSE EmptyRoot[0]
    BY <1>1, <1>2 DEF Node
<1> QED BY <1>3, <1>4

(* A node is complete when the next leaf is to the right of it. *)
LEMMA NodeComplete ==
    ASSUME NEW n \in Nat, NEW l \in 0 .. DEPTH, NEW i \in Nat, i < Ancestor(n, l)
    PROVE  Node(n, l, i) = Whole(l, i)
<1>l. l \in Nat
    BY DepthAssumption
<1>1. ASSUME NEW k \in Nat, Ancestor(k, l) = i PROVE ChainLeaves(n)[k] = Commitments[k]
    <2>1. ~(n <= k)
        <3> SUFFICES ASSUME n <= k PROVE FALSE
            OBVIOUS
        <3>1. Ancestor(n, l) <= Ancestor(k, l) /\ Ancestor(n, l) \in Nat
            BY <1>l, AncestorMonotone, AncestorDef
        <3> QED BY <1>1, <3>1
    <2> QED BY <2>1 DEF ChainLeaves, Commitments
<1> QED BY <1>1, LayersLocal DEF Node, Whole

(* A node is empty when the last leaf is to the left of it. *)
LEMMA NodeEmpty ==
    ASSUME NEW n \in Nat, NEW l \in 0 .. DEPTH, NEW i \in Nat, n # 0 => Ancestor(n - 1, l) < i
    PROVE  Node(n, l, i) = EmptyRoot[l]
<1>l. l \in Nat
    BY DepthAssumption
<1>1. ASSUME NEW k \in Nat, Ancestor(k, l) = i PROVE ChainLeaves(n)[k] = Empties[k]
    <2>1. ~(k < n)
        <3> SUFFICES ASSUME k < n PROVE FALSE
            OBVIOUS
        <3>1. n # 0 /\ n - 1 \in Nat /\ k <= n - 1
            OBVIOUS
        <3>2. Ancestor(k, l) <= Ancestor(n - 1, l) /\ Ancestor(n - 1, l) \in Nat
            BY <1>l, <3>1, AncestorMonotone, AncestorDef
        <3> QED BY <1>1, <3>1, <3>2
    <2> QED BY <2>1, EmptyLayers DEF ChainLeaves, Empties
<1> QED BY <1>1, LayersLocal, EmptyLayers DEF Node

(* The node above another one: the pair of it and its sibling. *)
LEMMA WholeAbove ==
    ASSUME NEW q \in Nat, NEW l \in Nat, l < DEPTH
    PROVE  /\ Odd(q, l) =>
                Whole(l + 1, Ancestor(q, l + 1)) =
                    Combine(Whole(l, Ancestor(q, l) - 1), Whole(l, Ancestor(q, l)))
           /\ ~Odd(q, l) =>
                Whole(l + 1, Ancestor(q, l + 1)) =
                    Combine(Whole(l, Ancestor(q, l)), Whole(l, Ancestor(q, l) + 1))
<1> DEFINE i == Ancestor(q, l + 1)
           a == Ancestor(q, l)
<1>1. i \in Nat /\ a \in Nat /\ (Odd(q, l) => a = 2 * i + 1) /\ (~Odd(q, l) => a = 2 * i)
    BY Halves
<1> HIDE DEF i, a
<1>2. Whole(l + 1, i) = Combine(Whole(l, 2 * i), Whole(l, 2 * i + 1))
    BY <1>1, WholeDef
<1>3. Odd(q, l) => a - 1 = 2 * i
    BY <1>1
<1>4. /\ Odd(q, l) => Whole(l + 1, i) = Combine(Whole(l, a - 1), Whole(l, a))
      /\ ~Odd(q, l) => Whole(l + 1, i) = Combine(Whole(l, a), Whole(l, a + 1))
    BY <1>1, <1>2, <1>3
<1> QED BY <1>4 DEF i, a

LEMMA NodeAbove ==
    ASSUME NEW n \in Nat, NEW q \in Nat, NEW l \in Nat, l < DEPTH
    PROVE  /\ Odd(q, l) =>
                Node(n, l + 1, Ancestor(q, l + 1)) =
                    Combine(Node(n, l, Ancestor(q, l) - 1), Node(n, l, Ancestor(q, l)))
           /\ ~Odd(q, l) =>
                Node(n, l + 1, Ancestor(q, l + 1)) =
                    Combine(Node(n, l, Ancestor(q, l)), Node(n, l, Ancestor(q, l) + 1))
<1> DEFINE i == Ancestor(q, l + 1)
           a == Ancestor(q, l)
<1>1. i \in Nat /\ a \in Nat /\ (Odd(q, l) => a = 2 * i + 1) /\ (~Odd(q, l) => a = 2 * i)
    BY Halves
<1> HIDE DEF i, a
<1>2. Node(n, l + 1, i) = Combine(Node(n, l, 2 * i), Node(n, l, 2 * i + 1))
    BY <1>1, NodeDef
<1>3. Odd(q, l) => a - 1 = 2 * i
    BY <1>1
<1>4. /\ Odd(q, l) => Node(n, l + 1, i) = Combine(Node(n, l, a - 1), Node(n, l, a))
      /\ ~Odd(q, l) => Node(n, l + 1, i) = Combine(Node(n, l, a), Node(n, l, a + 1))
    BY <1>1, <1>2, <1>3
<1> QED BY <1>4 DEF i, a

----------------------------------------------------------------------------
(* The tree that holds the leaves up to a position. *)

LEMMA TheOnly ==
    ASSUME NEW x PROVE The({x}) = x
BY DEF The

LEMMA SiblingIs ==
    ASSUME NEW q, NEW l
    PROVE  /\ Sibling(q, l) = {} <=> ~Odd(q, l)
           /\ Odd(q, l) => The(Sibling(q, l)) = Whole(l, Ancestor(q, l) - 1)
BY TheOnly DEF Sibling

LEMMA TreeStart ==
    ASSUME NEW q \in Nat, NEW d \in 1 .. DEPTH, \A i \in 0 .. d - 1 : ~Odd(q, i)
    PROVE  TreeHolds(TreeAppend(EmptyTree, Whole(0, q)), q, d)
<1> DEFINE t == [left |-> {Whole(0, q)}, right |-> {}, parents |-> <<>>]
<1>d. d \in Nat /\ d >= 1 /\ 0 \in 0 .. d - 1
    BY DepthAssumption
<1>1. TreeAppend(EmptyTree, Whole(0, q)) = t
    BY DEF TreeAppend, EmptyTree
<1>2. t.left = {Whole(0, q)} /\ t.right = {} /\ t.parents = <<>>
    OBVIOUS
<1>3. Len(t.parents) \in 0 .. d - 1 /\ t.parents = [i \in 1 .. Len(t.parents) |-> t.parents[i]]
    BY <1>d, <1>2
<1>4. ASSUME NEW i \in 1 .. d - 1 PROVE Slot(t, i) = Sibling(q, i)
    <2>1. ~Odd(q, i)
        BY <1>d
    <2>2. i \notin DOMAIN t.parents
        BY <1>2
    <2> QED BY <2>1, <2>2, SiblingIs DEF Slot
<1>5. ~Odd(q, 0)
    BY <1>d
<1>6. t = [left |-> IF Odd(q, 0) THEN Sibling(q, 0) ELSE {Whole(0, q)},
           right |-> IF Odd(q, 0) THEN {Whole(0, q)} ELSE {},
           parents |-> t.parents]
    BY <1>2, <1>5
<1> HIDE DEF t
<1>7. TreeHolds(t, q, d)
    BY <1>3, <1>4, <1>6 DEF TreeHolds
<1> QED BY <1>1, <1>7

LEMMA TreeFields ==
    ASSUME NEW t, NEW q, NEW d, TreeHolds(t, q, d)
    PROVE  /\ t.left = IF Odd(q, 0) THEN Sibling(q, 0) ELSE {Whole(0, q)}
           /\ t.right = IF Odd(q, 0) THEN {Whole(0, q)} ELSE {}
           /\ t.left # {} /\ (t.right = {} <=> ~Odd(q, 0))
           /\ Len(t.parents) \in 0 .. d - 1
           /\ DOMAIN t.parents = 1 .. Len(t.parents)
           /\ \A i \in 1 .. d - 1 : Slot(t, i) = Sibling(q, i)
<1>1. t = [left |-> IF Odd(q, 0) THEN Sibling(q, 0) ELSE {Whole(0, q)},
           right |-> IF Odd(q, 0) THEN {Whole(0, q)} ELSE {},
           parents |-> t.parents]
    BY DEF TreeHolds
<1>2. /\ t.left = IF Odd(q, 0) THEN Sibling(q, 0) ELSE {Whole(0, q)}
      /\ t.right = IF Odd(q, 0) THEN {Whole(0, q)} ELSE {}
    BY <1>1
<1>3. t.parents = [i \in 1 .. Len(t.parents) |-> t.parents[i]]
    BY DEF TreeHolds
<1>4. DOMAIN t.parents = 1 .. Len(t.parents)
    BY <1>3
<1>5. t.left # {} /\ (t.right = {} <=> ~Odd(q, 0))
    BY <1>2, SiblingIs
<1> QED BY <1>2, <1>4, <1>5 DEF TreeHolds

(* The completed pairs go up to the first level without a left sibling. *)
LEMMA CarriedIs ==
    ASSUME NEW t, NEW q \in Nat, NEW d \in 1 .. DEPTH, TreeHolds(t, q, d),
           NEW v \in 1 .. d - 1, FirstLeft(q, v)
    PROVE  \E n \in 0 .. d - 1 :
             /\ Carried(t) = [i \in 1 .. n |-> Carried(t)[i]]
             /\ \A i \in 1 .. d - 1 :
                  (IF i \in 1 .. n THEN Carried(t)[i] ELSE {}) = Sibling(q + 1, i)
<1> DEFINE top == Len(t.parents)
           vacates(j) == Slot(t, j) = {} /\ \A i \in 1 .. j - 1 : Slot(t, i) # {}
           vacant == CHOOSE j \in 1 .. top + 1 : vacates(j)
           below == 1 .. v - 1
           sibs == [i \in below |-> The(Slot(t, i))]
           pair == Combine(The(t.left), The(t.right))
           carry == Climb(pair, sibs, below, v - 1)
           n == IF v > top THEN v ELSE top
           P == [i \in 1 .. n |-> IF i < v THEN {} ELSE IF i = v THEN {carry} ELSE t.parents[i]]
<1>d. d \in Nat /\ d <= DEPTH /\ DEPTH \in Nat /\ v \in Nat /\ top \in Nat /\ top <= d - 1 /\ v <= d - 1
    <2>1. top \in 0 .. d - 1
        BY TreeFields
    <2> QED BY <2>1, DepthAssumption
<1>1. /\ \A i \in 1 .. d - 1 : Slot(t, i) = Sibling(q, i)
      /\ DOMAIN t.parents = 1 .. top
    BY TreeFields
<1> HIDE DEF top
<1>2. \A i \in 1 .. v - 1 : i \in 1 .. d - 1 /\ Odd(q, i) /\ Slot(t, i) = Sibling(q, i) /\ Slot(t, i) # {}
    <2>1. \A i \in 1 .. v - 1 : i \in 1 .. d - 1 /\ i \in 0 .. v - 1
        BY <1>d
    <2> QED BY <1>1, <2>1, SiblingIs DEF FirstLeft
<1>3. Slot(t, v) = {}
    BY <1>1, SiblingIs DEF FirstLeft
<1>4. v \in 1 .. top + 1
    <2> SUFFICES ASSUME v > top + 1 PROVE FALSE
        BY <1>d
    <2>1. top + 1 \in 1 .. v - 1 /\ top + 1 \notin 1 .. top
        BY <1>d
    <2> QED BY <1>1, <1>2, <2>1 DEF Slot
<1>5. vacates(v) /\ \A j \in 1 .. top + 1 : vacates(j) => j = v
    <2>1. ASSUME NEW j \in 1 .. top + 1, vacates(j), j # v PROVE FALSE
        <3>1. CASE j < v
            <4>1. j \in 1 .. v - 1
                BY <1>d, <3>1
            <4> QED BY <1>2, <2>1, <4>1
        <3>2. CASE v < j
            <4>1. v \in 1 .. j - 1
                BY <1>d, <3>2
            <4> QED BY <1>3, <2>1, <4>1
        <3> QED BY <1>d, <2>1, <3>1, <3>2
    <2> QED BY <1>2, <1>3, <2>1
<1>6. vacant = v
    <2> HIDE DEF vacates
    <2> QED BY <1>4, <1>5
<1>7. Carried(t) = P
    <2> HIDE DEF vacant
    <2>1. Carried(t) =
            LET b == 1 .. vacant - 1
                c == Climb(Combine(The(t.left), The(t.right)),
                           [i \in b |-> The(Slot(t, i))], b, vacant - 1)
            IN  [i \in 1 .. (IF vacant > top THEN vacant ELSE top) |->
                    IF i < vacant THEN {} ELSE IF i = vacant THEN {c} ELSE t.parents[i]]
        BY DEF Carried, vacant, top
    <2> QED BY <1>6, <2>1
<1>8. carry = Whole(v, Ancestor(q, v))
    <2> DEFINE W == [l \in Nat |-> Whole(l + 1, Ancestor(q, l + 1))]
    <2>1. W[0] = pair
        <3>1. Odd(q, 0)
            BY <1>d DEF FirstLeft
        <3>2. The(t.left) = Whole(0, Ancestor(q, 0) - 1) /\ The(t.right) = Whole(0, q)
            BY <3>1, TreeFields, SiblingIs, TheOnly
        <3>3. Ancestor(q, 0) = q
            BY AncestorDef
        <3>4. Whole(0 + 1, Ancestor(q, 0 + 1)) = pair
            BY <1>d, <3>1, <3>2, <3>3, WholeAbove
        <3> QED BY <3>4
    <2>2. ASSUME NEW l \in 1 .. v - 1 PROVE W[l] = Combine(sibs[l], W[l - 1])
        <3>1. l \in Nat /\ l - 1 \in Nat /\ (l - 1) + 1 = l /\ l < DEPTH
            BY <1>d
        <3>2. W[l] = Whole(l + 1, Ancestor(q, l + 1)) /\ W[l - 1] = Whole(l, Ancestor(q, l))
            BY <3>1
        <3>3. sibs[l] = Whole(l, Ancestor(q, l) - 1)
            BY <1>2, SiblingIs
        <3>4. Odd(q, l)
            BY <1>2
        <3> HIDE DEF W, sibs
        <3> QED BY <3>1, <3>2, <3>3, <3>4, WholeAbove
    <2>3. v - 1 \in Nat /\ (v - 1) + 1 = v /\ W[v - 1] = Whole(v, Ancestor(q, v))
        BY <1>d
    <2> HIDE DEF W, sibs, pair
    <2>4. \A l \in 1 .. v - 1 : W[l] = IF l \in below THEN Combine(sibs[l], W[l - 1])
                                       ELSE Combine(W[l - 1], sibs[l])
        BY <2>2
    <2> HIDE DEF below
    <2>5. Climbs(W, pair, sibs, below, v - 1)
        BY <2>1, <2>4 DEF Climbs
    <2>6. carry = W[v - 1]
        BY <2>3, <2>5, ClimbIs
    <2> QED BY <2>3, <2>6
<1> HIDE DEF carry
<1>9. n \in 0 .. d - 1 /\ v <= n /\ top <= n /\ (n # top => n = v)
    BY <1>d
<1>10. \A i \in 1 .. n : P[i] = IF i < v THEN {} ELSE IF i = v THEN {carry} ELSE t.parents[i]
    OBVIOUS
<1>11. P = [i \in 1 .. n |-> P[i]]
    OBVIOUS
<1> HIDE DEF P, n
<1>12. ASSUME NEW i \in 1 .. d - 1
       PROVE  (IF i \in 1 .. n THEN P[i] ELSE {}) = Sibling(q + 1, i)
    <2>1. CASE i < v
        <3>1. i \in 1 .. n /\ i \in 0 .. v - 1
            BY <1>d, <1>9, <2>1
        <3>2. ~Odd(q + 1, i)
            BY <3>1, CarryStops
        <3> QED BY <1>10, <2>1, <3>1, <3>2, SiblingIs
    <2>2. CASE i = v
        <3>1. Odd(q + 1, v) /\ Ancestor(q + 1, v) = Ancestor(q, v) + 1
            BY CarryStops
        <3>2. Ancestor(q, v) \in Nat
            BY <1>d, AncestorDef
        <3>3. Sibling(q + 1, v) = {carry}
            BY <1>8, <3>1, <3>2 DEF Sibling
        <3>4. i \in 1 .. n
            BY <1>d, <1>9, <2>2
        <3> QED BY <1>10, <2>2, <3>3, <3>4
    <2>3. CASE i > v
        <3>1. i \in Nat
            BY <1>d
        <3>2. Sibling(q + 1, i) = Sibling(q, i)
            BY <2>3, <3>1, CarryStops DEF Sibling
        <3>3. CASE i \in 1 .. n
            <4>1. i \in 1 .. top
                BY <1>d, <1>9, <2>3, <3>3
            <4>2. P[i] = t.parents[i]
                BY <1>10, <2>3, <3>3, <1>d
            <4> QED BY <1>1, <3>2, <3>3, <4>1, <4>2 DEF Slot
        <3>4. CASE i \notin 1 .. n
            <4>1. i \notin 1 .. top
                BY <1>d, <1>9, <3>4
            <4> QED BY <1>1, <3>2, <3>4, <4>1 DEF Slot
        <3> QED BY <3>3, <3>4
    <2> QED BY <1>d, <2>1, <2>2, <2>3
<1> QED BY <1>7, <1>9, <1>11, <1>12

(* Appending the next leaf, unless the subtree is full. *)
LEMMA TreeStep ==
    ASSUME NEW t, NEW q \in Nat, NEW d \in 1 .. DEPTH, TreeHolds(t, q, d),
           ~(\A i \in 0 .. d - 1 : Odd(q, i))
    PROVE  TreeHolds(TreeAppend(t, Whole(0, q + 1)), q + 1, d)
<1> DEFINE leaf == Whole(0, q + 1)
           u == TreeAppend(t, leaf)
<1>d. d \in Nat /\ DEPTH \in Nat /\ q + 1 \in Nat
    BY DepthAssumption
<1>1. PICK v \in 0 .. d - 1 : FirstLeft(q, v)
    <2>1. PICK l \in 0 .. d - 1 : ~Odd(q, l)
        OBVIOUS
    <2>2. PICK v \in 0 .. l : FirstLeft(q, v)
        BY <1>d, <2>1, FirstLeftExists
    <2> QED BY <1>d, <2>1, <2>2
<1>2. Ancestor(q, 0) = q /\ Ancestor(q + 1, 0) = q + 1
    BY <1>d, AncestorDef
<1> HIDE DEF leaf
<1>3. CASE v = 0
    <2>1. ~Odd(q, 0) /\ Odd(q + 1, 0)
        BY <1>1, <1>3, CarryStops DEF FirstLeft
    <2>2. t = [left |-> {Whole(0, q)}, right |-> {}, parents |-> t.parents]
        BY <2>1 DEF TreeHolds
    <2>3. t.left = {Whole(0, q)} /\ t.right = {}
        BY <2>1, TreeFields
    <2>4. u = [t EXCEPT !.right = {leaf}]
        BY <2>3 DEF TreeAppend
    <2>5. u = [left |-> {Whole(0, q)}, right |-> {leaf}, parents |-> t.parents]
        BY <2>2, <2>4
    <2>6. u.parents = t.parents
        BY <2>5
    <2>7. Sibling(q + 1, 0) = {Whole(0, q)}
        <3>1. (q + 1) - 1 = q
            OBVIOUS
        <3> QED BY <1>2, <2>1, <3>1 DEF Sibling
    <2>8. ASSUME NEW i \in 1 .. d - 1 PROVE Slot(u, i) = Sibling(q + 1, i)
        <3>1. Slot(u, i) = Slot(t, i)
            BY <2>6 DEF Slot
        <3>2. i \in Nat /\ i > v
            BY <1>d, <1>3
        <3>3. Sibling(q + 1, i) = Sibling(q, i)
            BY <1>1, <3>2, CarryStops DEF Sibling
        <3>4. Slot(t, i) = Sibling(q, i)
            BY TreeFields
        <3> QED BY <3>1, <3>3, <3>4
    <2>9. u = [left |-> Sibling(q + 1, 0), right |-> {Whole(0, q + 1)}, parents |-> u.parents]
        BY <2>5, <2>6, <2>7 DEF leaf
    <2> HIDE DEF u
    <2>10. TreeHolds(u, q + 1, d)
        BY <2>1, <2>6, <2>8, <2>9 DEF TreeHolds
    <2> QED BY <2>10 DEF u, leaf
<1>4. CASE v # 0
    <2>1. v \in 1 .. d - 1 /\ 0 \in 0 .. v - 1
        BY <1>d, <1>4
    <2>2. Odd(q, 0) /\ ~Odd(q + 1, 0)
        BY <1>1, <2>1, CarryStops DEF FirstLeft
    <2>3. t.left # {} /\ t.right # {}
        BY <2>2, TreeFields
    <2>4. u = [left |-> {leaf}, right |-> {}, parents |-> Carried(t)]
        BY <2>3 DEF TreeAppend
    <2>5. PICK n \in 0 .. d - 1 :
             /\ Carried(t) = [i \in 1 .. n |-> Carried(t)[i]]
             /\ \A i \in 1 .. d - 1 :
                  (IF i \in 1 .. n THEN Carried(t)[i] ELSE {}) = Sibling(q + 1, i)
        BY <1>1, <2>1, CarriedIs
    <2>6. u.parents = Carried(t)
        BY <2>4
    <2>7. n \in Nat /\ Len(Carried(t)) = n /\ DOMAIN Carried(t) = 1 .. n
        BY <1>d, <2>5, SequenceOf
    <2>8. \A i \in 1 .. d - 1 : Slot(u, i) = Sibling(q + 1, i)
        BY <2>5, <2>6, <2>7 DEF Slot
    <2>9. u = [left |-> {Whole(0, q + 1)}, right |-> {}, parents |-> u.parents]
        BY <2>4, <2>6 DEF leaf
    <2> HIDE DEF u
    <2>10. TreeHolds(u, q + 1, d)
        BY <2>2, <2>5, <2>6, <2>7, <2>8, <2>9 DEF TreeHolds
    <2> QED BY <2>10 DEF u, leaf
<1> QED BY <1>3, <1>4

(* The subtree is full at its last leaf. *)
LEMMA CompleteIff ==
    ASSUME NEW t, NEW q \in Nat, NEW d \in 1 .. DEPTH, TreeHolds(t, q, d)
    PROVE  IsComplete(t, d) <=> \A i \in 0 .. d - 1 : Odd(q, i)
<1> DEFINE top == Len(t.parents)
<1>d. d \in Nat /\ top \in Nat /\ top <= d - 1
    <2>1. top \in 0 .. d - 1
        BY TreeFields
    <2> QED BY <2>1, DepthAssumption
<1>1. /\ t.left # {} /\ (t.right = {} <=> ~Odd(q, 0))
      /\ DOMAIN t.parents = 1 .. top
      /\ \A i \in 1 .. d - 1 : Slot(t, i) = Sibling(q, i)
    BY TreeFields
<1>2. \A i \in 1 .. d - 1 : (i \in 1 .. top /\ t.parents[i] # {}) <=> Odd(q, i)
    BY <1>1, SiblingIs DEF Slot
<1>3. ASSUME IsComplete(t, d) PROVE \A i \in 0 .. d - 1 : Odd(q, i)
    <2>1. t.right # {} /\ top = d - 1 /\ \A i \in 1 .. top : t.parents[i] # {}
        BY <1>1, <1>3 DEF IsComplete
    <2>2. \A i \in 0 .. d - 1 : i = 0 \/ i \in 1 .. d - 1
        BY <1>d
    <2> QED BY <1>1, <1>2, <2>1, <2>2
<1>4. ASSUME \A i \in 0 .. d - 1 : Odd(q, i) PROVE IsComplete(t, d)
    <2>1. 0 \in 0 .. d - 1 /\ \A i \in 1 .. d - 1 : i \in 0 .. d - 1
        BY <1>d
    <2>2. \A i \in 1 .. d - 1 : i \in 1 .. top /\ t.parents[i] # {}
        BY <1>2, <1>4, <2>1
    <2>3. top = d - 1
        <3>1. d - 1 # 0 => d - 1 \in 1 .. d - 1
            BY <1>d
        <3> QED BY <1>d, <2>2, <3>1
    <2> QED BY <1>1, <1>4, <2>1, <2>2, <2>3 DEF IsComplete
<1> QED BY <1>3, <1>4

(* The siblings of the last leaf's ancestors, in the tree of the chain. *)
LEMMA SiblingNodes ==
    ASSUME NEW q \in Nat, NEW l \in 0 .. DEPTH
    PROVE  /\ Odd(q, l) => Node(q + 1, l, Ancestor(q, l) - 1) = Whole(l, Ancestor(q, l) - 1)
           /\ ~Odd(q, l) => Node(q + 1, l, Ancestor(q, l) + 1) = EmptyRoot[l]
<1> DEFINE a == Ancestor(q, l)
<1>0. l \in Nat /\ q + 1 \in Nat /\ q <= q + 1 /\ (q + 1) - 1 = q /\ q + 1 # 0
    BY DepthAssumption
<1>1. a \in Nat /\ a <= Ancestor(q + 1, l) /\ Ancestor(q + 1, l) \in Nat
    BY <1>0, AncestorDef, AncestorMonotone
<1>2. Odd(q, l) => a # 0
    BY DEF Odd, IsRightChild
<1>3. Ancestor((q + 1) - 1, l) = a
    BY <1>0
<1> HIDE DEF a
<1>4. Odd(q, l) => Node(q + 1, l, a - 1) = Whole(l, a - 1)
    <2>1. Odd(q, l) => a - 1 \in Nat /\ a - 1 < Ancestor(q + 1, l)
        BY <1>1, <1>2
    <2> QED BY <1>0, <2>1, NodeComplete
<1>5. Node(q + 1, l, a + 1) = EmptyRoot[l]
    <2>1. a + 1 \in Nat /\ Ancestor((q + 1) - 1, l) < a + 1
        BY <1>1, <1>3
    <2> QED BY <1>0, <2>1, NodeEmpty
<1> QED BY <1>4, <1>5 DEF a

(* The root of the tree is the node of the chain's tree above its leaves. *)
LEMMA RootOf ==
    ASSUME NEW t, NEW q \in Nat, NEW d \in 1 .. DEPTH, TreeHolds(t, q, d)
    PROVE  RootAtDepth(t, d) = Node(q + 1, d, Ancestor(q, d))
<1> DEFINE levels == 1 .. d - 1
           pair == Combine(OrEmpty(t.left, 0), OrEmpty(t.right, 0))
           sibs == [l \in levels |-> OrEmpty(Slot(t, l), l)]
           lefts == {l \in levels : Slot(t, l) # {}}
           W == [l \in Nat |-> Node(q + 1, l + 1, Ancestor(q, l + 1))]
<1>d. d \in Nat /\ d - 1 \in Nat /\ DEPTH \in Nat /\ d <= DEPTH /\ (d - 1) + 1 = d /\ q + 1 \in Nat
      /\ 0 \in 0 .. DEPTH /\ 0 < DEPTH
    BY DepthAssumption
<1>1. RootAtDepth(t, d) = Climb(pair, sibs, lefts, d - 1)
    BY DEF RootAtDepth
<1>2. W[0] = pair
    <2>1. Ancestor(q, 0) = q
        BY AncestorDef
    <2>2. Node(q + 1, 0, q) = Whole(0, q)
        <3>1. q < q + 1
            OBVIOUS
        <3> QED BY <1>d, <3>1, NodeDef
    <2>3. W[0] = Node(q + 1, 0 + 1, Ancestor(q, 0 + 1))
        OBVIOUS
    <2> HIDE DEF W
    <2>4. CASE Odd(q, 0)
        <3>1. t.left # {} /\ The(t.left) = Whole(0, q - 1)
            BY <2>1, <2>4, TreeFields, SiblingIs
        <3>2. t.right # {} /\ The(t.right) = Whole(0, q)
            BY <2>4, TreeFields, TheOnly
        <3>3. pair = Combine(Whole(0, q - 1), Whole(0, q))
            BY <3>1, <3>2 DEF OrEmpty
        <3>4. Node(q + 1, 0, q - 1) = Whole(0, q - 1)
            BY <1>d, <2>1, <2>4, SiblingNodes
        <3>5. Node(q + 1, 0 + 1, Ancestor(q, 0 + 1)) = Combine(Node(q + 1, 0, q - 1), Node(q + 1, 0, q))
            BY <1>d, <2>1, <2>4, NodeAbove
        <3> QED BY <2>2, <2>3, <3>3, <3>4, <3>5
    <2>5. CASE ~Odd(q, 0)
        <3>1. t.left # {} /\ The(t.left) = Whole(0, q)
            BY <2>5, TreeFields, TheOnly
        <3>2. t.right = {}
            BY <2>5, TreeFields
        <3>3. pair = Combine(Whole(0, q), EmptyRoot[0])
            BY <3>1, <3>2 DEF OrEmpty
        <3>4. Node(q + 1, 0, q + 1) = EmptyRoot[0]
            BY <1>d, <2>1, <2>5, SiblingNodes
        <3>5. Node(q + 1, 0 + 1, Ancestor(q, 0 + 1)) = Combine(Node(q + 1, 0, q), Node(q + 1, 0, q + 1))
            BY <1>d, <2>1, <2>5, NodeAbove
        <3> QED BY <2>2, <2>3, <3>3, <3>4, <3>5
    <2> QED BY <2>4, <2>5
<1>3. ASSUME NEW l \in 1 .. d - 1
      PROVE  W[l] = IF l \in lefts THEN Combine(sibs[l], W[l - 1]) ELSE Combine(W[l - 1], sibs[l])
    <2>1. l \in Nat /\ l - 1 \in Nat /\ (l - 1) + 1 = l /\ l < DEPTH /\ l \in 0 .. DEPTH
        BY <1>d
    <2>2. W[l] = Node(q + 1, l + 1, Ancestor(q, l + 1)) /\ W[l - 1] = Node(q + 1, l, Ancestor(q, l))
        BY <2>1
    <2>3. Slot(t, l) = Sibling(q, l)
        BY TreeFields
    <2>4. sibs[l] = OrEmpty(Sibling(q, l), l) /\ (l \in lefts <=> Sibling(q, l) # {})
        BY <2>3
    <2> HIDE DEF W, sibs, lefts
    <2>5. CASE Odd(q, l)
        <3>1. l \in lefts /\ sibs[l] = Whole(l, Ancestor(q, l) - 1)
            BY <2>4, <2>5, SiblingIs DEF OrEmpty
        <3>2. Node(q + 1, l, Ancestor(q, l) - 1) = Whole(l, Ancestor(q, l) - 1)
            BY <2>1, <2>5, SiblingNodes
        <3>3. W[l] = Combine(Node(q + 1, l, Ancestor(q, l) - 1), Node(q + 1, l, Ancestor(q, l)))
            BY <1>d, <2>1, <2>2, <2>5, NodeAbove
        <3> QED BY <2>2, <3>1, <3>2, <3>3
    <2>6. CASE ~Odd(q, l)
        <3>1. l \notin lefts /\ sibs[l] = EmptyRoot[l]
            BY <2>4, <2>6, SiblingIs DEF OrEmpty
        <3>2. Node(q + 1, l, Ancestor(q, l) + 1) = EmptyRoot[l]
            BY <2>1, <2>6, SiblingNodes
        <3>3. W[l] = Combine(Node(q + 1, l, Ancestor(q, l)), Node(q + 1, l, Ancestor(q, l) + 1))
            BY <1>d, <2>1, <2>2, <2>6, NodeAbove
        <3> QED BY <2>2, <3>1, <3>2, <3>3
    <2> QED BY <2>5, <2>6
<1>4. W[d - 1] = Node(q + 1, d, Ancestor(q, d))
    BY <1>d
<1> HIDE DEF W, sibs, lefts, pair
<1>5. Climb(pair, sibs, lefts, d - 1) = W[d - 1]
    <2>1. d - 1 \in Nat
        BY <1>d
    <2>2. \A l \in 1 .. d - 1 :
            W[l] = IF l \in lefts THEN Combine(sibs[l], W[l - 1]) ELSE Combine(W[l - 1], sibs[l])
        BY <1>3
    <2>3. Climbs(W, pair, sibs, lefts, d - 1)
        BY <1>2, <2>2 DEF Climbs
    <2> QED BY <2>1, <2>3, ClimbIs
<1> QED BY <1>1, <1>4, <1>5

(* That of a full subtree is complete. *)
LEMMA RootComplete ==
    ASSUME NEW t, NEW q \in Nat, NEW d \in 1 .. DEPTH, TreeHolds(t, q, d),
           \A i \in 0 .. d - 1 : Odd(q, i)
    PROVE  RootAtDepth(t, d) = Whole(d, Ancestor(q, d))
<1>1. d \in Nat /\ d \in 0 .. DEPTH /\ q + 1 \in Nat
    BY DepthAssumption
<1>2. Ancestor(q + 1, d) = Ancestor(q, d) + 1 /\ Ancestor(q, d) \in Nat
    BY <1>1, Increment, AncestorDef
<1>3. Ancestor(q, d) < Ancestor(q + 1, d)
    BY <1>2
<1> QED BY <1>1, <1>2, <1>3, RootOf, NodeComplete

LEMMA EmptyTreeRoot == RootAtDepth(EmptyTree, DEPTH) = ChainRoot(0)
<1> DEFINE levels == 1 .. DEPTH - 1
           pair == Combine(OrEmpty(EmptyTree.left, 0), OrEmpty(EmptyTree.right, 0))
           sibs == [l \in levels |-> OrEmpty(Slot(EmptyTree, l), l)]
           lefts == {l \in levels : Slot(EmptyTree, l) # {}}
           W == [l \in Nat |-> EmptyRoot[l + 1]]
<1>d. DEPTH \in Nat /\ DEPTH - 1 \in Nat /\ (DEPTH - 1) + 1 = DEPTH
    BY DepthAssumption
<1>1. ASSUME NEW l \in Nat, l < DEPTH PROVE EmptyRoot[l + 1] = Combine(EmptyRoot[l], EmptyRoot[l])
    <2>1. l \in 0 .. DEPTH /\ l + 1 \in 0 .. DEPTH /\ 0 \in Nat /\ 1 \in Nat /\ 2 * 0 = 0 /\ 2 * 0 + 1 = 1
        BY <1>d, <1>1
    <2>2. Layers(Empties)[l + 1][0] = Combine(Layers(Empties)[l][2 * 0], Layers(Empties)[l][2 * 0 + 1])
        BY <1>1, <2>1, LayersStep
    <2>3. Layers(Empties)[l + 1][0] = EmptyRoot[l + 1] /\ Layers(Empties)[l][0] = EmptyRoot[l]
          /\ Layers(Empties)[l][1] = EmptyRoot[l]
        BY <2>1, EmptyLayers
    <2> QED BY <2>1, <2>2, <2>3
<1>2. EmptyTree.left = {} /\ EmptyTree.right = {} /\ \A l : Slot(EmptyTree, l) = {}
    BY DEF EmptyTree, Slot
<1>3. W[0] = pair
    <2>1. EmptyRoot[0 + 1] = Combine(EmptyRoot[0], EmptyRoot[0])
        BY <1>1, DepthAssumption
    <2>2. pair = Combine(EmptyRoot[0], EmptyRoot[0])
        BY <1>2 DEF OrEmpty
    <2> QED BY <2>1, <2>2
<1>4. ASSUME NEW l \in 1 .. DEPTH - 1
      PROVE  W[l] = IF l \in lefts THEN Combine(sibs[l], W[l - 1]) ELSE Combine(W[l - 1], sibs[l])
    <2>1. l \in Nat /\ l - 1 \in Nat /\ (l - 1) + 1 = l /\ l < DEPTH
        BY <1>d
    <2>2. W[l] = EmptyRoot[l + 1] /\ W[l - 1] = EmptyRoot[l]
        BY <2>1
    <2>3. l \notin lefts /\ sibs[l] = EmptyRoot[l]
        BY <1>2 DEF OrEmpty
    <2> HIDE DEF W, sibs, lefts
    <2> QED BY <1>1, <2>1, <2>2, <2>3
<1>5. RootAtDepth(EmptyTree, DEPTH) = Climb(pair, sibs, lefts, DEPTH - 1)
    BY DEF RootAtDepth
<1>6. W[DEPTH - 1] = EmptyRoot[DEPTH]
    BY <1>d
<1> HIDE DEF W, sibs, lefts, pair
<1>7. Climb(pair, sibs, lefts, DEPTH - 1) = W[DEPTH - 1]
    <2>1. Climbs(W, pair, sibs, lefts, DEPTH - 1)
        BY <1>3, <1>4 DEF Climbs
    <2> QED BY <1>d, <2>1, ClimbIs
<1>8. Node(0, DEPTH, 0) = EmptyRoot[DEPTH]
    BY <1>d, NodeEmpty
<1> QED BY <1>5, <1>6, <1>7, <1>8 DEF Node, ChainRoot

(* Levels without a left sibling below an ancestor that is the first of its *)
(* level have the first ancestor too.                                       *)
LEMMA NothingAbove ==
    ASSUME NEW q \in Nat, NEW low \in Nat, NEW high \in Nat, low <= high, Ancestor(q, high) = 0,
           \A l \in Nat : low <= l /\ l < high => ~Odd(q, l)
    PROVE  Ancestor(q, low) = 0
<1> DEFINE S == {k \in Nat : low <= high - k => Ancestor(q, high - k) = 0}
<1>1. 0 \in S
    <2>1. high - 0 = high
        OBVIOUS
    <2> QED BY <2>1
<1>2. ASSUME NEW k \in Nat, k \in S PROVE k + 1 \in S
    <2> SUFFICES ASSUME low <= high - (k + 1) PROVE Ancestor(q, high - (k + 1)) = 0
        OBVIOUS
    <2> DEFINE l == high - (k + 1)
    <2>1. l \in Nat /\ low <= l /\ l < high /\ l + 1 = high - k /\ low <= high - k
        OBVIOUS
    <2>2. Ancestor(q, l + 1) = 0
        BY <1>2, <2>1
    <2> HIDE DEF l
    <2>3. Ancestor(q, l) = 2 * Ancestor(q, l + 1)
        BY <2>1, Halves
    <2>4. Ancestor(q, l) = 0
        BY <2>2, <2>3
    <2> QED BY <2>4 DEF l
<1>3. Nat \subseteq S
    <2> HIDE DEF S
    <2> QED BY <1>1, <1>2, Induction
<1>4. high - low \in Nat /\ high - (high - low) = low
    OBVIOUS
<1>5. high - low \in S
    BY <1>3, <1>4
<1> QED BY <1>4, <1>5

LEMMA SizeOf ==
    ASSUME NEW t, NEW q \in Nat, TreeHolds(t, q, DEPTH), Ancestor(q, DEPTH) = 0
    PROVE  TreeSize(t) = q + 1
<1> DEFINE one(option) == IF option = {} THEN 0 ELSE 1
           top == Len(t.parents)
           Body(f) == [i \in 0 .. top |->
                         IF i = 0 THEN 0 ELSE 2 * f[i - 1] + one(t.parents[top + 1 - i])]
           g == [i \in 0 .. top |-> Ancestor(q, top + 1 - i)]
           pairs == CHOOSE f : f = Body(f)
<1>d. DEPTH \in Nat /\ DEPTH >= 1
    BY DepthAssumption
<1>t. /\ top \in 0 .. DEPTH - 1
      /\ DOMAIN t.parents = 1 .. top
      /\ \A i \in 1 .. DEPTH - 1 : Slot(t, i) = Sibling(q, i)
    BY TreeFields
<1>1. TreeSize(t) = 2 * pairs[top] + one(t.left) + one(t.right)
    BY DEF TreeSize
<1> HIDE DEF top, one
<1>2. \A l \in 1 .. top : Ancestor(q, l) = 2 * Ancestor(q, l + 1) + one(t.parents[l])
    <2> SUFFICES ASSUME NEW l \in 1 .. top
                 PROVE  Ancestor(q, l) = 2 * Ancestor(q, l + 1) + one(t.parents[l])
        OBVIOUS
    <2>1. l \in Nat /\ l \in 1 .. DEPTH - 1
        BY <1>d, <1>t
    <2>2. t.parents[l] = Sibling(q, l)
        BY <1>t, <2>1 DEF Slot
    <2>3. Ancestor(q, l + 1) \in Nat
        BY <2>1, Halves
    <2>4. one(t.parents[l]) = IF Odd(q, l) THEN 1 ELSE 0
        BY <2>2, SiblingIs DEF one
    <2> QED BY <2>1, <2>3, <2>4, Halves
<1>3. Ancestor(q, top + 1) = 0
    <2>1. ASSUME NEW l \in Nat, top + 1 <= l, l < DEPTH PROVE ~Odd(q, l)
        <3>1. l \in 1 .. DEPTH - 1 /\ l \notin 1 .. top
            BY <1>d, <1>t, <2>1
        <3>2. Sibling(q, l) = {}
            BY <1>t, <3>1 DEF Slot
        <3> QED BY <3>2, SiblingIs
    <2>2. top + 1 \in Nat /\ top + 1 <= DEPTH
        BY <1>d, <1>t
    <2> QED BY <1>d, <2>1, <2>2, NothingAbove
<1>4. ASSUME NEW i \in 0 .. top
      PROVE  Ancestor(q, top + 1 - i) =
                 IF i = 0 THEN 0 ELSE 2 * Ancestor(q, top + 1 - (i - 1)) + one(t.parents[top + 1 - i])
    <2>1. CASE i = 0
        <3>1. top + 1 - i = top + 1
            BY <1>t, <2>1
        <3> QED BY <1>3, <2>1, <3>1
    <2>2. CASE i # 0
        <3>1. top + 1 - i \in 1 .. top /\ top + 1 - (i - 1) = (top + 1 - i) + 1
            BY <1>t, <2>2
        <3> QED BY <1>2, <2>2, <3>1
    <2> QED BY <2>1, <2>2
<1>5. g = Body(g)
    <2>1. ASSUME NEW i \in 0 .. top
          PROVE  g[i] = IF i = 0 THEN 0 ELSE 2 * g[i - 1] + one(t.parents[top + 1 - i])
        <3>1. i # 0 => i - 1 \in 0 .. top
            BY <1>t
        <3> QED BY <1>4, <3>1
    <2>2. g = [i \in 0 .. top |-> g[i]]
        OBVIOUS
    <2> HIDE DEF g
    <2> QED BY <2>1, <2>2
<1>6. pairs = Body(pairs)
    <2> HIDE DEF Body
    <2> QED BY <1>5
<1> HIDE DEF pairs
<1> DEFINE S == {i \in Nat : pairs[i] = Ancestor(q, top + 1 - i)}
<1>7. \A i \in 0 .. top : pairs[i] = IF i = 0 THEN 0 ELSE 2 * pairs[i - 1] + one(t.parents[top + 1 - i])
    BY <1>6
<1>8. 0 \in S
    <2>1. 0 \in 0 .. top
        BY <1>t
    <2> QED BY <1>4, <1>7, <2>1
<1>9. ASSUME NEW i \in Nat, i < top, i \in S PROVE i + 1 \in S
    <2>1. i + 1 \in 0 .. top /\ i + 1 # 0 /\ (i + 1) - 1 = i
        BY <1>t, <1>9
    <2>2. pairs[i + 1] = 2 * pairs[i] + one(t.parents[top + 1 - (i + 1)])
        BY <1>7, <2>1
    <2>3. Ancestor(q, top + 1 - (i + 1)) =
            2 * Ancestor(q, top + 1 - ((i + 1) - 1)) + one(t.parents[top + 1 - (i + 1)])
        BY <1>4, <2>1
    <2>4. pairs[i] = Ancestor(q, top + 1 - ((i + 1) - 1))
        BY <1>9, <2>1
    <2> QED BY <2>2, <2>3, <2>4
<1>10. 0 .. top \subseteq S
    <2>1. top \in Nat
        BY <1>d, <1>t
    <2> HIDE DEF S
    <2> QED BY <2>1, <1>8, <1>9, BoundedInduction
<1>11. pairs[top] = Ancestor(q, 1)
    <2>1. top \in 0 .. top /\ top + 1 - top = 1
        BY <1>d, <1>t
    <2> QED BY <1>10, <2>1
<1>12. one(t.left) = 1 /\ one(t.right) = IF Odd(q, 0) THEN 1 ELSE 0
    <2>1. t.left # {} /\ (t.right = {} <=> ~Odd(q, 0))
        BY TreeFields
    <2> QED BY <2>1 DEF one
<1>13. Ancestor(q, 0) = q /\ Ancestor(q, 0 + 1) \in Nat
       /\ (Odd(q, 0) => q = 2 * Ancestor(q, 0 + 1) + 1) /\ (~Odd(q, 0) => q = 2 * Ancestor(q, 0 + 1))
    <2>1. Ancestor(q, 0) = q
        BY AncestorDef
    <2>2. Ancestor(q, 0 + 1) \in Nat
          /\ (Odd(q, 0) => Ancestor(q, 0) = 2 * Ancestor(q, 0 + 1) + 1)
          /\ (~Odd(q, 0) => Ancestor(q, 0) = 2 * Ancestor(q, 0 + 1))
        BY Halves
    <2> QED BY <2>1, <2>2
<1>14. 0 + 1 = 1
    OBVIOUS
<1>15. Ancestor(q, 1) \in Nat
       /\ (Odd(q, 0) => q = 2 * Ancestor(q, 1) + 1) /\ (~Odd(q, 0) => q = 2 * Ancestor(q, 1))
    BY <1>13, <1>14
<1> QED BY <1>1, <1>11, <1>12, <1>15

----------------------------------------------------------------------------
(* The values present among options. *)

LEMMA PresentSame ==
    ASSUME NEW a, NEW b, NEW n \in Nat, \A i \in 1 .. n : a[i] = b[i]
    PROVE  Present(a, n) = Present(b, n)
<1> DEFINE S == {k \in Nat : Present(a, k) = Present(b, k)}
<1>1. 0 \in S
    BY PresentDef
<1>2. ASSUME NEW k \in Nat, k < n, k \in S PROVE k + 1 \in S
    <2>1. k + 1 \in 1 .. n
        BY <1>2
    <2>2. a[k + 1] = b[k + 1]
        BY <2>1
    <2>3. Present(a, k + 1) = IF a[k + 1] = {} THEN Present(a, k) ELSE Append(Present(a, k), The(a[k + 1]))
        BY PresentDef
    <2>4. Present(b, k + 1) = IF b[k + 1] = {} THEN Present(b, k) ELSE Append(Present(b, k), The(b[k + 1]))
        BY PresentDef
    <2> QED BY <1>2, <2>2, <2>3, <2>4
<1>3. 0 .. n \subseteq S
    <2> HIDE DEF S
    <2> QED BY <1>1, <1>2, BoundedInduction
<1> QED BY <1>3

LEMMA PresentPadding ==
    ASSUME NEW options, NEW m \in Nat, NEW n \in Nat, m <= n, \A i \in m + 1 .. n : options[i] = {}
    PROVE  Present(options, n) = Present(options, m)
<1> DEFINE S == {k \in Nat : m <= k => Present(options, k) = Present(options, m)}
<1>1. 0 \in S
    OBVIOUS
<1>2. ASSUME NEW k \in Nat, k < n, k \in S PROVE k + 1 \in S
    <2>1. CASE m = k + 1
        BY <2>1
    <2>2. CASE m <= k
        <3>1. k + 1 \in m + 1 .. n
            BY <1>2, <2>2
        <3>2. Present(options, k + 1) = Present(options, k)
            BY <3>1, PresentDef
        <3> QED BY <1>2, <2>2, <3>2
    <2>3. CASE ~(m <= k + 1)
        BY <2>3
    <2> QED BY <2>1, <2>2, <2>3
<1>3. 0 .. n \subseteq S
    <2> HIDE DEF S
    <2> QED BY <1>1, <1>2, BoundedInduction
<1> QED BY <1>3

LEMMA AppendFacts ==
    ASSUME NEW T, NEW s \in Seq(T), NEW x
    PROVE  /\ Append(s, x) \in Seq(T \cup {x})
           /\ Len(Append(s, x)) = Len(s) + 1
           /\ Append(s, x)[Len(s) + 1] = x
           /\ \A i \in 1 .. Len(s) : Append(s, x)[i] = s[i]
<1>1. s \in Seq(T \cup {x}) /\ x \in T \cup {x}
    OBVIOUS
<1> QED BY <1>1, AppendProperties

(* Options that are all there at first are the first values. *)
LEMMA PresentPrefix ==
    ASSUME NEW options, NEW v \in Nat, \A i \in 1 .. v : options[i] # {}, NEW n \in Nat, v <= n
    PROVE  /\ Len(Present(options, v)) = v
           /\ Len(Present(options, n)) >= v
           /\ \A i \in 1 .. v : Present(options, n)[i] = The(options[i])
<1> DEFINE T == {The(options[i]) : i \in Nat}
           P(k) == Present(options, k)
           good(k, m) == Len(P(k)) >= m /\ \A i \in 1 .. m : P(k)[i] = The(options[i])
           S == {k \in Nat : Len(P(k)) = k /\ good(k, k)}
           R == {k \in Nat : v <= k => good(k, v)}
<1>0. /\ P(0) = <<>>
      /\ \A k \in Nat : P(k) \in Seq(T)
      /\ \A k \in Nat : P(k + 1) = IF options[k + 1] = {} THEN P(k) ELSE Append(P(k), The(options[k + 1]))
    BY PresentDef
<1> HIDE DEF P, T
<1>1. 0 \in S
    <2>1. Len(P(0)) = 0 /\ 1 .. 0 = {}
        BY <1>0
    <2> QED BY <2>1
<1>2. ASSUME NEW k \in Nat, k < v, k \in S PROVE k + 1 \in S
    <2>1. k + 1 \in 1 .. v
        BY <1>2
    <2>2. P(k + 1) = Append(P(k), The(options[k + 1])) /\ P(k) \in Seq(T) /\ Len(P(k)) = k
        BY <1>0, <1>2, <2>1
    <2>3. /\ Len(P(k + 1)) = k + 1 /\ P(k + 1)[k + 1] = The(options[k + 1])
          /\ \A i \in 1 .. k : P(k + 1)[i] = P(k)[i]
        BY <2>2, AppendFacts
    <2>4. \A i \in 1 .. k + 1 : i \in 1 .. k \/ i = k + 1
        OBVIOUS
    <2>5. \A i \in 1 .. k + 1 : P(k + 1)[i] = The(options[i])
        BY <1>2, <2>3, <2>4
    <2> QED BY <2>3, <2>5
<1>3. v \in S
    <2>1. 0 .. v \subseteq S
        <3> HIDE DEF S
        <3> QED BY <1>1, <1>2, BoundedInduction
    <2> QED BY <2>1
<1>4. 0 \in R
    <2>1. v <= 0 => v = 0
        OBVIOUS
    <2> QED BY <1>3, <2>1
<1>5. ASSUME NEW k \in Nat, k < n, k \in R PROVE k + 1 \in R
    <2>1. CASE v = k + 1
        BY <1>3, <2>1
    <2>2. CASE v <= k
        <3>1. good(k, v) /\ P(k) \in Seq(T)
            BY <1>0, <1>5, <2>2
        <3>2. CASE options[k + 1] = {}
            <4>1. P(k + 1) = P(k)
                BY <1>0, <3>2
            <4>2. good(k + 1, v)
                BY <3>1, <4>1
            <4> QED BY <4>2
        <3>3. CASE options[k + 1] # {}
            <4>1. P(k + 1) = Append(P(k), The(options[k + 1]))
                BY <1>0, <3>3
            <4>2. Len(P(k + 1)) = Len(P(k)) + 1 /\ \A i \in 1 .. Len(P(k)) : P(k + 1)[i] = P(k)[i]
                <5> DEFINE x == The(options[k + 1])
                <5> HIDE DEF x, good
                <5>1. /\ Len(Append(P(k), x)) = Len(P(k)) + 1
                      /\ \A i \in 1 .. Len(P(k)) : Append(P(k), x)[i] = P(k)[i]
                    BY <3>1, AppendFacts
                <5>2. P(k + 1) = Append(P(k), x)
                    BY <4>1 DEF x
                <5> QED BY <5>1, <5>2
            <4>3. Len(P(k)) \in Nat /\ Len(P(k)) >= v
                BY <3>1, LenProperties
            <4>4. \A i \in 1 .. v : i \in 1 .. Len(P(k))
                BY <4>3
            <4>5. Len(P(k + 1)) >= v
                BY <4>2, <4>3
            <4>6. \A i \in 1 .. v : P(k + 1)[i] = The(options[i])
                <5> TAKE i \in 1 .. v
                <5>1. P(k + 1)[i] = P(k)[i]
                    BY <4>2, <4>4
                <5>2. P(k)[i] = The(options[i])
                    BY <3>1
                <5> QED BY <5>1, <5>2
            <4>7. good(k + 1, v)
                BY <4>5, <4>6
            <4> QED BY <4>7
        <3> QED BY <3>2, <3>3
    <2>3. CASE ~(v <= k + 1)
        BY <2>3
    <2> QED BY <2>1, <2>2, <2>3
<1>6. n \in R
    <2>1. 0 .. n \subseteq R
        <3> HIDE DEF R
        <3> QED BY <1>4, <1>5, BoundedInduction
    <2> QED BY <2>1
<1> QED BY <1>3, <1>6 DEF P

(* The levels below a given one at which a position has a left sibling. *)
Lefts(position, level) == {l \in 0 .. level - 1 : Odd(position, l)}

LEMMA CountsUp ==
    ASSUME NEW q, NEW l \in Nat
    PROVE  /\ IsFiniteSet(Lefts(q, l)) /\ Cardinality(Lefts(q, l)) \in Nat
           /\ IsFiniteSet(Rights(q, l)) /\ Cardinality(Rights(q, l)) \in Nat
           /\ Odd(q, l) => /\ Cardinality(Lefts(q, l + 1)) = Cardinality(Lefts(q, l)) + 1
                           /\ Rights(q, l + 1) = Rights(q, l)
           /\ ~Odd(q, l) => /\ Cardinality(Rights(q, l + 1)) = Cardinality(Rights(q, l)) + 1
                            /\ Rights(q, l + 1) = Rights(q, l) \cup {l}
                            /\ Lefts(q, l + 1) = Lefts(q, l)
<1>1. IsFiniteSet(0 .. l - 1)
    BY FS_Interval
<1>2. Lefts(q, l) \subseteq 0 .. l - 1 /\ Rights(q, l) \subseteq 0 .. l - 1
    BY DEF Lefts, Rights
<1>3. IsFiniteSet(Lefts(q, l)) /\ IsFiniteSet(Rights(q, l))
    BY <1>1, <1>2, FS_Subset
<1>4. Cardinality(Lefts(q, l)) \in Nat /\ Cardinality(Rights(q, l)) \in Nat
    BY <1>3, FS_CardinalityType
<1>5. l \notin Lefts(q, l) /\ l \notin Rights(q, l)
    BY DEF Lefts, Rights
<1>6. \A i : i \in 0 .. (l + 1) - 1 <=> i \in 0 .. l - 1 \/ i = l
    OBVIOUS
<1>7. CASE Odd(q, l)
    <2>1. Lefts(q, l + 1) = Lefts(q, l) \cup {l}
        BY <1>6, <1>7 DEF Lefts
    <2>2. Rights(q, l + 1) = Rights(q, l)
        BY <1>6, <1>7 DEF Rights
    <2>3. Cardinality(Lefts(q, l + 1)) = Cardinality(Lefts(q, l)) + 1
        BY <1>3, <1>5, <2>1, FS_AddElement
    <2> QED BY <1>3, <1>4, <1>7, <2>2, <2>3
<1>8. CASE ~Odd(q, l)
    <2>1. Rights(q, l + 1) = Rights(q, l) \cup {l}
        BY <1>6, <1>8 DEF Rights
    <2>2. Lefts(q, l + 1) = Lefts(q, l)
        BY <1>6, <1>8 DEF Lefts
    <2>3. Cardinality(Rights(q, l + 1)) = Cardinality(Rights(q, l)) + 1
        BY <1>3, <1>5, <2>1, FS_AddElement
    <2> QED BY <1>3, <1>4, <1>8, <2>1, <2>2, <2>3
<1> QED BY <1>7, <1>8

----------------------------------------------------------------------------
(* The frontier. *)

LEMMA ZeroAncestors ==
    ASSUME NEW q \in Nat, NEW l \in Nat, Ancestor(q, l) = 0, NEW m \in Nat, l <= m
    PROVE  Ancestor(q, m) = 0 /\ ~Odd(q, m)
<1> DEFINE S == {i \in Nat : l <= i => Ancestor(q, i) = 0}
<1>1. 0 \in S
    OBVIOUS
<1>2. ASSUME NEW i \in Nat, i \in S PROVE i + 1 \in S
    <2>1. CASE l = i + 1
        BY <2>1
    <2>2. CASE l <= i
        <3>1. Ancestor(q, i + 1) = Ancestor(q, i) \div 2 /\ Ancestor(q, i) = 0
            BY <1>2, <2>2, AncestorDef
        <3> QED BY <3>1
    <2>3. CASE ~(l <= i + 1)
        BY <2>3
    <2> QED BY <2>1, <2>2, <2>3
<1>3. Nat \subseteq S
    <2> HIDE DEF S
    <2> QED BY <1>1, <1>2, Induction
<1> QED BY <1>3 DEF Odd, IsRightChild

(* A position has no left sibling from the level of its own value on. *)
LEMMA OddIsLow ==
    ASSUME NEW q \in Nat, NEW l \in Nat, Odd(q, l)
    PROVE  l < q \/ l = 0
<1> DEFINE S == {i \in Nat : Ancestor(q, i) = 0 \/ Ancestor(q, i) + i <= q}
<1>1. 0 \in S
    BY AncestorDef
<1>2. ASSUME NEW i \in Nat, i \in S PROVE i + 1 \in S
    <2>1. Ancestor(q, i + 1) = Ancestor(q, i) \div 2 /\ Ancestor(q, i) \in Nat
        BY AncestorDef
    <2>2. \A a \in Nat : a = 0 \/ a + i <= q => a \div 2 = 0 \/ (a \div 2) + (i + 1) <= q
        OBVIOUS
    <2> QED BY <1>2, <2>1, <2>2
<1>3. Nat \subseteq S
    <2> HIDE DEF S
    <2> QED BY <1>1, <1>2, Induction
<1>4. Ancestor(q, l) \in Nat /\ Ancestor(q, l) # 0
    BY AncestorDef DEF Odd, IsRightChild
<1> QED BY <1>3, <1>4

LEMMA OmmersCounted ==
    ASSUME NEW q \in Nat, Ancestor(q, DEPTH) = 0
    PROVE  Len(Present(Siblings(q), DEPTH)) = OmmerCount(q)
<1> DEFINE P(k) == Present(Siblings(q), k)
           T == {The(Siblings(q)[i]) : i \in Nat}
           S == {k \in Nat : Len(P(k)) = Cardinality(Lefts(q, k))}
<1>d. DEPTH \in Nat
    BY DepthAssumption
<1>0. /\ P(0) = <<>>
      /\ \A k \in Nat : P(k) \in Seq(T)
      /\ \A k \in Nat : P(k + 1) = IF Siblings(q)[k + 1] = {} THEN P(k)
                                   ELSE Append(P(k), The(Siblings(q)[k + 1]))
    BY PresentDef
<1> HIDE DEF P, T
<1>1. 0 \in S
    <2>1. Lefts(q, 0) = {}
        BY DEF Lefts
    <2>2. Len(P(0)) = 0
        BY <1>0
    <2> QED BY <2>1, <2>2, FS_EmptySet
<1>2. ASSUME NEW k \in Nat, k < DEPTH, k \in S PROVE k + 1 \in S
    <2>1. Siblings(q)[k + 1] = Sibling(q, k)
        <3>1. k + 1 \in 1 .. DEPTH /\ (k + 1) - 1 = k
            BY <1>d, <1>2
        <3> QED BY <3>1 DEF Siblings
    <2>2. CASE Odd(q, k)
        <3>1. P(k + 1) = Append(P(k), The(Siblings(q)[k + 1])) /\ P(k) \in Seq(T)
            BY <1>0, <2>1, <2>2, SiblingIs
        <3>2. Len(P(k + 1)) = Len(P(k)) + 1
            BY <3>1, AppendFacts
        <3>3. Cardinality(Lefts(q, k + 1)) = Cardinality(Lefts(q, k)) + 1
            BY <2>2, CountsUp
        <3> QED BY <1>2, <3>2, <3>3
    <2>3. CASE ~Odd(q, k)
        <3>1. P(k + 1) = P(k)
            BY <1>0, <2>1, <2>3, SiblingIs
        <3>2. Lefts(q, k + 1) = Lefts(q, k)
            BY <2>3, CountsUp
        <3> QED BY <1>2, <3>1, <3>2
    <2> QED BY <2>2, <2>3
<1>3. 0 .. DEPTH \subseteq S
    <2> HIDE DEF S
    <2> QED BY <1>d, <1>1, <1>2, BoundedInduction
<1>4. Len(P(DEPTH)) = Cardinality(Lefts(q, DEPTH))
    BY <1>d, <1>3
<1>5. Lefts(q, DEPTH) = {l \in 0 .. q : Odd(q, l)}
    <2>1. ASSUME NEW l \in Nat, Odd(q, l) PROVE l \in 0 .. DEPTH - 1 /\ l \in 0 .. q
        <3>1. ~(DEPTH <= l)
            BY <1>d, <2>1, ZeroAncestors
        <3>2. l < q \/ l = 0
            BY <2>1, OddIsLow
        <3> QED BY <1>d, <3>1, <3>2
    <2>2. \A l : (l \in 0 .. DEPTH - 1 \/ l \in 0 .. q) => l \in Nat
        BY <1>d
    <2> QED BY <2>1, <2>2 DEF Lefts
<1> QED BY <1>4, <1>5 DEF P, OmmerCount, Odd

LEMMA FirstFrontier == FrontierAppend({}, Whole(0, 0)) = FrontierOf(0)
<1>d. DEPTH \in Nat
    BY DepthAssumption
<1>1. ASSUME NEW i \in 0 + 1 .. DEPTH PROVE Siblings(0)[i] = {}
    <2>1. i \in 1 .. DEPTH /\ i - 1 \in Nat
        BY <1>d
    <2>2. Ancestor(0, 0) = 0
        BY AncestorDef
    <2>3. ~Odd(0, i - 1)
        BY <2>1, <2>2, ZeroAncestors
    <2> QED BY <2>1, <2>3, SiblingIs DEF Siblings
<1>2. Present(Siblings(0), DEPTH) = Present(Siblings(0), 0)
    BY <1>d, <1>1, PresentPadding
<1>3. Present(Siblings(0), 0) = <<>>
    BY PresentDef
<1> QED BY <1>2, <1>3 DEF FrontierAppend, FrontierOf

(* The first so many elements of a sequence merged into one. *)
Merged(x, s, v) == <<x>> \o SubSeq(s, v + 1, Len(s))

LEMMA TailAppend ==
    ASSUME NEW T, NEW s \in Seq(T), NEW x \in T, NEW y \in T, NEW v \in Nat, v <= Len(s)
    PROVE  Merged(x, Append(s, y), v) = Append(Merged(x, s, v), y)
<1> DEFINE z == Append(s, y)
           n == Len(s)
           r == SubSeq(s, v + 1, n)
<1>1. n \in Nat /\ z \in Seq(T) /\ Len(z) = n + 1 /\ z[n + 1] = y /\ \A i \in 1 .. n : z[i] = s[i]
    BY AppendProperties
<1>2. \A i \in 1 .. n : s[i] \in T
    OBVIOUS
<1> HIDE DEF z, n
<1>3. SubSeq(z, v + 1, n) = r
    <2>1. \A i \in v + 1 .. n : i \in 1 .. n /\ s[i] \in T /\ z[i] = s[i]
        BY <1>1, <1>2
    <2>2. v + 1 \in Int /\ n \in Int
        BY <1>1
    <2>3. /\ r \in Seq(T) /\ Len(r) = IF v + 1 <= n THEN n - (v + 1) + 1 ELSE 0
          /\ \A i \in 1 .. n - (v + 1) + 1 : r[i] = s[(v + 1) + i - 1]
        BY <2>1, <2>2, SubSeqProperties
    <2>4. \A i \in v + 1 .. n : z[i] \in T
        BY <2>1
    <2> DEFINE k == SubSeq(z, v + 1, n)
    <2>5. /\ k \in Seq(T) /\ Len(k) = IF v + 1 <= n THEN n - (v + 1) + 1 ELSE 0
          /\ \A i \in 1 .. n - (v + 1) + 1 : k[i] = z[(v + 1) + i - 1]
        BY <2>2, <2>4, SubSeqProperties
    <2> HIDE DEF r, k
    <2>6. ASSUME NEW i \in 1 .. Len(k) PROVE k[i] = r[i]
        <3>1. i \in 1 .. n - (v + 1) + 1 /\ (v + 1) + i - 1 \in v + 1 .. n
            BY <1>1, <2>5
        <3> QED BY <2>1, <2>3, <2>5, <3>1
    <2>7. k = r
        BY <2>3, <2>5, <2>6, SeqEqual
    <2> QED BY <2>7 DEF k
<1>4. r \in Seq(T)
    <2>1. \A i \in v + 1 .. n : s[i] \in T
        BY <1>1, <1>2
    <2>2. v + 1 \in Int /\ n \in Int
        BY <1>1
    <2> QED BY <2>1, <2>2, SubSeqProperties
<1>5. SubSeq(z, v + 1, n + 1) = r \o <<y>>
    <2>1. v + 1 \in 1 .. Len(z) /\ n + 1 \in v + 1 .. Len(z) /\ (n + 1) - 1 = n
        BY <1>1 DEF n
    <2>2. SubSeq(z, v + 1, n + 1) = SubSeq(z, v + 1, (n + 1) - 1) \o <<z[n + 1]>>
        BY <1>1, <2>1, SubSeqRecursiveSecond
    <2> QED BY <1>1, <1>3, <2>1, <2>2
<1> HIDE DEF r
<1>6. <<x>> \in Seq(T) /\ <<y>> \in Seq(T)
    OBVIOUS
<1>7. <<x>> \o (r \o <<y>>) = (<<x>> \o r) \o <<y>> /\ <<x>> \o r \in Seq(T)
    BY <1>4, <1>6, ConcatAssociative, ConcatProperties
<1>8. Append(<<x>> \o r, y) = (<<x>> \o r) \o <<y>>
    BY <1>7, AppendIsConcat
<1>9. <<x>> \o SubSeq(z, v + 1, Len(z)) = Append(<<x>> \o r, y)
    BY <1>1, <1>5, <1>7, <1>8
<1> QED BY <1>9 DEF z, r, n, Merged

(* The ommers of the next position: the pairs that it follows are merged. *)
LEMMA NextOmmers ==
    ASSUME NEW q \in Nat, NEW v \in 0 .. DEPTH - 1, FirstLeft(q, v)
    PROVE  LET O == Present(Siblings(q), DEPTH)
           IN  /\ Len(O) \in Nat /\ v <= Len(O)
               /\ \A i \in 1 .. v : O[i] = Whole(i - 1, Ancestor(q, i - 1) - 1)
               /\ Present(Siblings(q + 1), DEPTH)
                    = Merged(Whole(v, Ancestor(q, v)), O, v)
<1> DEFINE P(k) == Present(Siblings(q), k)
           N(k) == Present(Siblings(q + 1), k)
           A == {The(Siblings(q)[i]) : i \in Nat}
           X == Whole(v, Ancestor(q, v))
           T == A \cup {X}
           S == {k \in Nat : v + 1 <= k => N(k) = Merged(X, P(k), v)}
<1>d. DEPTH \in Nat /\ v \in Nat /\ v < DEPTH /\ v <= DEPTH /\ v + 1 <= DEPTH
    BY DepthAssumption
<1>0. /\ P(0) = <<>>
      /\ \A k \in Nat : P(k) \in Seq(A)
      /\ \A k \in Nat : P(k + 1) = IF Siblings(q)[k + 1] = {} THEN P(k)
                                   ELSE Append(P(k), The(Siblings(q)[k + 1]))
    BY PresentDef
<1>1. /\ N(0) = <<>>
      /\ \A k \in Nat : N(k + 1) = IF Siblings(q + 1)[k + 1] = {} THEN N(k)
                                   ELSE Append(N(k), The(Siblings(q + 1)[k + 1]))
    BY PresentDef
<1>2. ASSUME NEW k \in Nat, k < DEPTH
      PROVE  Siblings(q)[k + 1] = Sibling(q, k) /\ Siblings(q + 1)[k + 1] = Sibling(q + 1, k)
    <2>1. k + 1 \in 1 .. DEPTH /\ (k + 1) - 1 = k
        BY <1>d, <1>2
    <2> QED BY <2>1 DEF Siblings
<1>3. ASSUME NEW i \in 1 .. v
      PROVE  /\ Siblings(q)[i] # {} /\ The(Siblings(q)[i]) = Whole(i - 1, Ancestor(q, i - 1) - 1)
             /\ Siblings(q + 1)[i] = {}
    <2>1. i - 1 \in 0 .. v - 1 /\ i - 1 \in Nat /\ i - 1 < DEPTH /\ (i - 1) + 1 = i
        BY <1>d
    <2>2. Siblings(q)[i] = Sibling(q, i - 1) /\ Siblings(q + 1)[i] = Sibling(q + 1, i - 1)
        BY <1>2, <2>1
    <2>3. Odd(q, i - 1) /\ ~Odd(q + 1, i - 1)
        BY <2>1, CarryStops DEF FirstLeft
    <2> QED BY <2>2, <2>3, SiblingIs
<1>4. /\ Len(P(v)) = v
      /\ \A k \in Nat : v <= k => Len(P(k)) \in Nat /\ v <= Len(P(k))
                                  /\ \A i \in 1 .. v : P(k)[i] = Whole(i - 1, Ancestor(q, i - 1) - 1)
    <2>1. \A i \in 1 .. v : Siblings(q)[i] # {}
        BY <1>3
    <2>2. Len(P(v)) = v
        BY <1>d, <2>1, PresentPrefix
    <2>3. ASSUME NEW k \in Nat, v <= k
          PROVE  Len(P(k)) \in Nat /\ v <= Len(P(k))
                 /\ \A i \in 1 .. v : P(k)[i] = Whole(i - 1, Ancestor(q, i - 1) - 1)
        <3>1. Len(P(k)) >= v /\ \A i \in 1 .. v : P(k)[i] = The(Siblings(q)[i])
            BY <1>d, <2>1, <2>3, PresentPrefix
        <3>2. P(k) \in Seq(A)
            BY <1>0
        <3>3. Len(P(k)) \in Nat
            BY <3>2, LenProperties
        <3> HIDE DEF P
        <3> QED BY <1>d, <1>3, <3>1, <3>3
    <2> HIDE DEF P
    <2> QED BY <2>2, <2>3
<1>5. N(v + 1) = <<X>> /\ P(v + 1) = P(v)
    <2>1. N(v) = N(0)
        <3>1. \A i \in 0 + 1 .. v : Siblings(q + 1)[i] = {}
            BY <1>3
        <3> QED BY <1>d, <3>1, PresentPadding
    <2>2. ~Odd(q, v) /\ Odd(q + 1, v) /\ Ancestor(q + 1, v) = Ancestor(q, v) + 1
        BY CarryStops DEF FirstLeft
    <2>3. Siblings(q)[v + 1] = {} /\ Siblings(q + 1)[v + 1] = Sibling(q + 1, v)
        BY <1>d, <1>2, <2>2, SiblingIs
    <2>4. Sibling(q + 1, v) # {} /\ The(Sibling(q + 1, v)) = X
        <3>1. Ancestor(q, v) \in Nat
            BY <1>d, AncestorDef
        <3>2. Ancestor(q + 1, v) - 1 = Ancestor(q, v)
            BY <2>2, <3>1
        <3> QED BY <2>2, <3>2, SiblingIs
    <2>5. N(v + 1) = Append(<<>>, X)
        <3> HIDE DEF N
        <3> QED BY <1>d, <1>1, <2>1, <2>3, <2>4
    <2>6. P(v + 1) = P(v)
        <3> HIDE DEF P
        <3> QED BY <1>d, <1>0, <2>3
    <2> QED BY <2>5, <2>6
<1> HIDE DEF P, N, X, A
<1>6. 0 \in S
    BY <1>d
<1>7. ASSUME NEW k \in Nat, k < DEPTH, k \in S PROVE k + 1 \in S
    <2>1. CASE v + 1 = k + 1
        <3>1. P(v) \in Seq(A) /\ Len(P(v + 1)) = v
            BY <1>0, <1>d, <1>4, <1>5
        <3>2. SubSeq(P(v), v + 1, v) = <<>>
            BY <1>d, <3>1
        <3>3. N(v + 1) = Merged(X, P(v + 1), v)
            <4>1. <<X>> \in Seq({X})
                OBVIOUS
            <4>2. <<X>> \o <<>> = <<X>>
                BY <4>1, ConcatEmptySeq
            <4> QED BY <1>5, <3>1, <3>2, <4>2 DEF Merged
        <3> QED BY <2>1, <3>3
    <2>2. CASE v + 1 <= k
        <3>1. N(k) = Merged(X, P(k), v)
            BY <1>7, <2>2
        <3>2. P(k) \in Seq(T) /\ Len(P(k)) \in Nat /\ v <= Len(P(k)) /\ X \in T
            <4>1. P(k) \in Seq(A)
                BY <1>0
            <4>2. P(k) \in Seq(T)
                BY <4>1
            <4>3. v <= k
                BY <1>d, <2>2
            <4> QED BY <1>4, <4>2, <4>3
        <3>3. Sibling(q + 1, k) = Sibling(q, k)
            <4>1. k > v
                BY <1>d, <2>2
            <4> QED BY <4>1, CarryStops DEF Sibling
        <3>4. Siblings(q + 1)[k + 1] = Siblings(q)[k + 1]
            BY <1>2, <1>7, <3>3
        <3> DEFINE o == Siblings(q)[k + 1]
        <3>5. CASE o = {}
            <4>1. P(k + 1) = P(k) /\ N(k + 1) = N(k)
                BY <1>0, <1>1, <3>4, <3>5
            <4> QED BY <3>1, <4>1
        <3>6. CASE o # {}
            <4>1. P(k + 1) = Append(P(k), The(o)) /\ N(k + 1) = Append(N(k), The(o))
                BY <1>0, <1>1, <3>4, <3>6
            <4>2. The(o) \in T
                <5>1. k + 1 \in Nat
                    OBVIOUS
                <5> QED BY <5>1 DEF A
            <4> HIDE DEF o, T
            <4>3. Merged(X, Append(P(k), The(o)), v) = Append(Merged(X, P(k), v), The(o))
                <5>1. v \in Nat
                    BY <1>d
                <5> QED BY <3>2, <4>2, <5>1, TailAppend
            <4>4. N(k + 1) = Merged(X, P(k + 1), v)
                BY <3>1, <4>1, <4>3
            <4> QED BY <4>4
        <3> QED BY <3>5, <3>6
    <2>3. CASE ~(v + 1 <= k + 1)
        BY <2>3
    <2> QED BY <1>d, <2>1, <2>2, <2>3
<1>8. 0 .. DEPTH \subseteq S
    <2> HIDE DEF S
    <2> QED BY <1>d, <1>6, <1>7, BoundedInduction
<1>9. N(DEPTH) = Merged(X, P(DEPTH), v)
    BY <1>d, <1>8
<1>10. Len(P(DEPTH)) \in Nat /\ v <= Len(P(DEPTH))
       /\ \A i \in 1 .. v : P(DEPTH)[i] = Whole(i - 1, Ancestor(q, i - 1) - 1)
    BY <1>d, <1>4
<1> QED BY <1>9, <1>10 DEF P, N, X

LEMMA FirstLeftUnique ==
    ASSUME NEW q, NEW v, NEW w, FirstLeft(q, v), FirstLeft(q, w)
    PROVE  v = w
<1>1. v \in Nat /\ w \in Nat
    BY DEF FirstLeft
<1>2. v < w => v \in 0 .. w - 1
    BY <1>1
<1>3. w < v => w \in 0 .. v - 1
    BY <1>1
<1> QED BY <1>1, <1>2, <1>3 DEF FirstLeft

LEMMA FrontierStep ==
    ASSUME NEW q \in Nat, ~(\A i \in 0 .. DEPTH - 1 : Odd(q, i))
    PROVE  FrontierAppend(FrontierOf(q), Whole(0, q + 1)) = FrontierOf(q + 1)
<1> DEFINE O == Present(Siblings(q), DEPTH)
           leaf == Whole(0, q + 1)
           f == [position |-> q, leaf |-> Whole(0, q), ommers |-> O]
           merged == CHOOSE k \in 0 .. Len(O) : /\ ~Odd(q, k)
                                                /\ \A i \in 0 .. k - 1 : Odd(q, i)
<1>d. DEPTH \in Nat
    BY DepthAssumption
<1>1. PICK v \in 0 .. DEPTH - 1 : FirstLeft(q, v)
    <2>1. PICK l \in 0 .. DEPTH - 1 : ~Odd(q, l)
        OBVIOUS
    <2>2. PICK v \in 0 .. l : FirstLeft(q, v)
        BY <1>d, <2>1, FirstLeftExists
    <2> QED BY <1>d, <2>1, <2>2
<1>v. v \in Nat /\ v <= DEPTH
    BY <1>d
<1>2. /\ Len(O) \in Nat /\ v <= Len(O)
      /\ \A i \in 1 .. v : O[i] = Whole(i - 1, Ancestor(q, i - 1) - 1)
      /\ Present(Siblings(q + 1), DEPTH) = Merged(Whole(v, Ancestor(q, v)), O, v)
    BY <1>1, NextOmmers
<1>3. FrontierOf(q) = {f} /\ The(FrontierOf(q)) = f
    BY TheOnly DEF FrontierOf
<1> HIDE DEF O
<1>4. f.position = q /\ f.leaf = Whole(0, q) /\ f.ommers = O
    OBVIOUS
<1> HIDE DEF f
<1>5. FrontierAppend(FrontierOf(q), leaf) =
        {[position |-> q + 1, leaf |-> leaf,
          ommers |-> Merged(Climb(Whole(0, q), O, 1 .. merged, merged), O, merged)]}
    <2>1. FrontierOf(q) # {}
        BY <1>3
    <2> QED BY <1>3, <1>4, <2>1 DEF FrontierAppend, Odd, Merged
<1>6. merged = v
    <2>1. v \in 0 .. Len(O) /\ ~Odd(q, v) /\ \A i \in 0 .. v - 1 : Odd(q, i)
        BY <1>1, <1>2, <1>v DEF FirstLeft
    <2>2. merged \in 0 .. Len(O) /\ ~Odd(q, merged) /\ \A i \in 0 .. merged - 1 : Odd(q, i)
        BY <2>1
    <2> HIDE DEF merged
    <2>3. FirstLeft(q, merged)
        BY <1>2, <2>2 DEF FirstLeft
    <2> QED BY <1>1, <2>3, FirstLeftUnique
<1> HIDE DEF merged
<1>7. Climb(Whole(0, q), O, 1 .. v, v) = Whole(v, Ancestor(q, v))
    <2> DEFINE W == [l \in Nat |-> Whole(l, Ancestor(q, l))]
               lefts == 1 .. v
    <2>1. W[0] = Whole(0, q)
        BY AncestorDef
    <2>2. ASSUME NEW l \in 1 .. v
          PROVE  W[l] = IF l \in lefts THEN Combine(O[l], W[l - 1]) ELSE Combine(W[l - 1], O[l])
        <3>1. l \in Nat /\ l - 1 \in Nat /\ (l - 1) + 1 = l /\ l - 1 < DEPTH /\ l - 1 \in 0 .. v - 1
            BY <1>v, <1>d
        <3>2. W[l] = Whole(l, Ancestor(q, l)) /\ W[l - 1] = Whole(l - 1, Ancestor(q, l - 1))
            BY <3>1
        <3>3. Odd(q, l - 1)
            BY <1>1, <3>1 DEF FirstLeft
        <3> HIDE DEF W
        <3>4. W[l] = Combine(Whole(l - 1, Ancestor(q, l - 1) - 1), W[l - 1])
            <4>1. Whole((l - 1) + 1, Ancestor(q, (l - 1) + 1)) =
                    Combine(Whole(l - 1, Ancestor(q, l - 1) - 1), Whole(l - 1, Ancestor(q, l - 1)))
                BY <3>1, <3>3, WholeAbove
            <4> QED BY <3>1, <3>2, <4>1
        <3> QED BY <1>2, <3>4
    <2>3. W[v] = Whole(v, Ancestor(q, v))
        BY <1>v
    <2> HIDE DEF W, lefts
    <2>4. \A l \in 1 .. v :
            W[l] = IF l \in lefts THEN Combine(O[l], W[l - 1]) ELSE Combine(W[l - 1], O[l])
        BY <2>2
    <2>5. Climbs(W, Whole(0, q), O, lefts, v)
        BY <2>1, <2>4 DEF Climbs
    <2>6. Climb(Whole(0, q), O, lefts, v) = W[v]
        BY <1>v, <2>5, ClimbIs
    <2> QED BY <2>3, <2>6 DEF lefts
<1>8. FrontierAppend(FrontierOf(q), leaf) =
        {[position |-> q + 1, leaf |-> leaf, ommers |-> Merged(Whole(v, Ancestor(q, v)), O, v)]}
    BY <1>5, <1>6, <1>7
<1> QED BY <1>2, <1>8 DEF FrontierOf

(* The frontier is that of the tree. *)
LEMMA FrontierOfTree ==
    ASSUME NEW t, NEW q \in Nat, TreeHolds(t, q, DEPTH), Ancestor(q, DEPTH) = 0
    PROVE  ToFrontier(t) = FrontierOf(q)
<1> DEFINE top == Len(t.parents)
           sibling == IF t.right = {} THEN {} ELSE t.left
           options == <<sibling>> \o t.parents
<1>d. DEPTH \in Nat
    BY DepthAssumption
<1>1. /\ t.left = IF Odd(q, 0) THEN Sibling(q, 0) ELSE {Whole(0, q)}
      /\ t.right = IF Odd(q, 0) THEN {Whole(0, q)} ELSE {}
      /\ t.left # {} /\ (t.right = {} <=> ~Odd(q, 0))
      /\ top \in 0 .. DEPTH - 1
      /\ DOMAIN t.parents = 1 .. top
      /\ \A i \in 1 .. DEPTH - 1 : Slot(t, i) = Sibling(q, i)
    BY TreeFields
<1>2. t.parents = [i \in 1 .. top |-> t.parents[i]]
    BY DEF TreeHolds
<1>3. top \in Nat /\ t.parents \in Seq({t.parents[i] : i \in 1 .. top})
    BY <1>d, <1>1, <1>2, SequenceOf
<1> HIDE DEF top
<1>4. sibling = Sibling(q, 0)
    BY <1>1, SiblingIs
<1> HIDE DEF sibling
<1>5. options[1] = sibling /\ \A i \in 1 .. top : options[i + 1] = t.parents[i]
    <2> DEFINE T == {t.parents[i] : i \in 1 .. top} \cup {sibling}
    <2>1. t.parents \in Seq(T) /\ <<sibling>> \in Seq(T) /\ Len(<<sibling>>) = 1 /\ <<sibling>>[1] = sibling
        BY <1>3
    <2>2. \A i \in 1 .. 1 + top : options[i] = IF i <= 1 THEN <<sibling>>[i] ELSE t.parents[i - 1]
        BY <2>1, ConcatProperties DEF top
    <2>3. \A i \in 1 .. top : i + 1 \in 1 .. 1 + top /\ ~(i + 1 <= 1) /\ (i + 1) - 1 = i
        BY <1>3
    <2>4. 1 \in 1 .. 1 + top
        BY <1>3
    <2> HIDE DEF options
    <2>5. options[1] = sibling
        BY <2>1, <2>2, <2>4
    <2>6. ASSUME NEW i \in 1 .. top PROVE options[i + 1] = t.parents[i]
        BY <2>2, <2>3
    <2> QED BY <2>5, <2>6
<1> HIDE DEF options
<1>6. ASSUME NEW i \in 1 .. top + 1 PROVE options[i] = Siblings(q)[i]
    <2>1. i \in 1 .. DEPTH
        BY <1>d, <1>1
    <2>2. Siblings(q)[i] = Sibling(q, i - 1)
        BY <2>1 DEF Siblings
    <2>3. CASE i = 1
        BY <1>4, <1>5, <2>2, <2>3
    <2>4. CASE i # 1
        <3>1. i - 1 \in 1 .. top /\ (i - 1) + 1 = i /\ i - 1 \in 1 .. DEPTH - 1
            BY <1>d, <1>1, <2>4
        <3>2. options[i] = t.parents[i - 1]
            BY <1>5, <3>1
        <3>3. t.parents[i - 1] = Sibling(q, i - 1)
            BY <1>1, <3>1 DEF Slot
        <3> QED BY <2>2, <3>2, <3>3
    <2> QED BY <2>3, <2>4
<1>7. Present(options, top + 1) = Present(Siblings(q), top + 1)
    BY <1>3, <1>6, PresentSame
<1>8. Present(Siblings(q), DEPTH) = Present(Siblings(q), top + 1)
    <2>1. ASSUME NEW i \in (top + 1) + 1 .. DEPTH PROVE Siblings(q)[i] = {}
        <3>1. i \in 1 .. DEPTH /\ i - 1 \in 1 .. DEPTH - 1 /\ i - 1 \notin 1 .. top
            BY <1>d, <1>3
        <3>2. Sibling(q, i - 1) = {}
            BY <1>1, <3>1 DEF Slot
        <3> QED BY <3>1, <3>2 DEF Siblings
    <2>2. top + 1 \in Nat /\ top + 1 <= DEPTH
        BY <1>d, <1>1
    <2> QED BY <1>d, <2>1, <2>2, PresentPadding
<1>9. TreeSize(t) - 1 = q
    BY SizeOf
<1>10. The(IF t.right = {} THEN t.left ELSE t.right) = Whole(0, q)
    BY <1>1, TheOnly
<1>11. ToFrontier(t) =
        {[position |-> TreeSize(t) - 1, leaf |-> The(IF t.right = {} THEN t.left ELSE t.right),
          ommers |-> Present(options, top + 1)]}
    BY <1>1 DEF ToFrontier, options, sibling, top
<1> QED BY <1>7, <1>8, <1>9, <1>10, <1>11 DEF FrontierOf

----------------------------------------------------------------------------
(* What is written reads back. *)

LEMMA TreeReadsBack ==
    ASSUME NEW t, NEW q, NEW d \in 1 .. DEPTH, TreeHolds(t, q, d)
    PROVE  ReadCommitmentTree(WriteCommitmentTree(t)) = {t}
<1>1. Len(t.parents) \in 0 .. d - 1
    BY TreeFields
<1>2. ~(Len(t.parents) >= DEPTH)
    BY <1>1, DepthAssumption
<1>3. t = [left |-> t.left, right |-> t.right, parents |-> t.parents]
    BY DEF TreeHolds
<1> QED BY <1>2, <1>3 DEF ReadCommitmentTree, WriteCommitmentTree

LEMMA EmptyTreeReadsBack == ReadCommitmentTree(WriteCommitmentTree(EmptyTree)) = {EmptyTree}
<1>1. EmptyTree.left = {} /\ EmptyTree.right = {} /\ EmptyTree.parents = <<>>
    BY DEF EmptyTree
<1>2. ~(Len(<<>>) >= DEPTH)
    BY DepthAssumption
<1> QED BY <1>1, <1>2 DEF ReadCommitmentTree, WriteCommitmentTree, EmptyTree

LEMMA FrontierReadsBack ==
    ASSUME NEW q \in Nat, Ancestor(q, DEPTH) = 0
    PROVE  ReadFrontierV1(WriteFrontierV1(FrontierOf(q))) = {FrontierOf(q)}
<1> DEFINE O == Present(Siblings(q), DEPTH)
           A == {The(Siblings(q)[i]) : i \in Nat}
           f == [position |-> q, leaf |-> Whole(0, q), ommers |-> O]
           bytes == WriteNonEmptyFrontierV1(f)
<1>d. DEPTH \in Nat /\ 1 <= DEPTH
    BY DepthAssumption
<1>1. O \in Seq(A)
    BY <1>d, PresentDef
<1>2. Len(O) = OmmerCount(q)
    BY OmmersCounted
<1>3. IsRightChild(q) => Len(O) >= 1
    <2>1. ASSUME IsRightChild(q) PROVE \A i \in 1 .. 1 : Siblings(q)[i] # {}
        <3>1. Ancestor(q, 0) = q
            BY AncestorDef
        <3>2. Odd(q, 0)
            BY <2>1, <3>1 DEF Odd
        <3>3. Siblings(q)[1] = Sibling(q, 0)
            <4>1. 1 \in 1 .. DEPTH /\ 1 - 1 = 0
                BY <1>d
            <4> QED BY <4>1 DEF Siblings
        <3>4. \A i \in 1 .. 1 : i = 1
            OBVIOUS
        <3> QED BY <3>2, <3>3, <3>4, SiblingIs
    <2> QED BY <1>d, <2>1, PresentPrefix
<1>4. FrontierOf(q) = {f}
    BY DEF FrontierOf
<1> HIDE DEF O, A
<1>5. f.position = q /\ f.leaf = Whole(0, q) /\ f.ommers = O
    OBVIOUS
<1>6. FrontierFromParts(q, Whole(0, q), O) = {f}
    BY <1>2 DEF FrontierFromParts
<1> HIDE DEF f
<1>7. ReadNonEmptyFrontierV1(bytes) = {f}
    <2>1. CASE IsRightChild(q)
        <3>1. bytes = <<q, O[1], {Whole(0, q)}, Tail(O)>>
            BY <1>5, <2>1 DEF WriteNonEmptyFrontierV1
        <3>2. <<O[1]>> \o Tail(O) = O
            <4>1. O # <<>>
                BY <1>3, <2>1
            <4> QED BY <1>1, <4>1, HeadTailProperties
        <3> HIDE DEF bytes
        <3>3. ReadNonEmptyFrontierV1(bytes) = FrontierFromParts(q, The({Whole(0, q)}), <<O[1]>> \o Tail(O))
            BY <3>1 DEF ReadNonEmptyFrontierV1
        <3> QED BY <1>6, <3>2, <3>3, TheOnly
    <2>2. CASE ~IsRightChild(q)
        <3>1. bytes = <<q, Whole(0, q), {}, O>>
            BY <1>5, <2>2 DEF WriteNonEmptyFrontierV1
        <3> HIDE DEF bytes
        <3>2. ReadNonEmptyFrontierV1(bytes) = FrontierFromParts(q, Whole(0, q), O)
            BY <3>1 DEF ReadNonEmptyFrontierV1
        <3> QED BY <1>6, <3>2
    <2> QED BY <2>1, <2>2
<1>8. WriteFrontierV1(FrontierOf(q)) = {bytes}
    BY <1>4 DEF WriteFrontierV1
<1> HIDE DEF bytes
<1>9. ReadFrontierV1({bytes}) = {{g} : g \in {h \in {f} : Ancestor(h.position, DEPTH) = 0}}
    BY <1>7, TheOnly DEF ReadFrontierV1
<1>10. {h \in {f} : Ancestor(h.position, DEPTH) = 0} = {f}
    BY <1>5
<1>11. ReadFrontierV1({bytes}) = {{f}}
    <2>1. {{g} : g \in {f}} = {{f}}
        OBVIOUS
    <2> QED BY <1>9, <1>10, <2>1
<1> QED BY <1>4, <1>8, <1>11

----------------------------------------------------------------------------
(* The witness. *)

LEMMA RightsGrow ==
    ASSUME NEW p, NEW a \in Nat, NEW b \in Nat, a <= b
    PROVE  /\ Cardinality(Rights(p, a)) <= Cardinality(Rights(p, b))
           /\ ~Odd(p, a) /\ a < b => Cardinality(Rights(p, a)) + 1 <= Cardinality(Rights(p, b))
<1>1. ASSUME NEW c \in Nat, c <= b PROVE Cardinality(Rights(p, c)) <= Cardinality(Rights(p, b))
    <2>1. Rights(p, c) \subseteq Rights(p, b)
        BY <1>1 DEF Rights
    <2>2. IsFiniteSet(Rights(p, b))
        BY CountsUp
    <2> QED BY <2>1, <2>2, FS_Subset
<1>2. ASSUME ~Odd(p, a), a < b PROVE Cardinality(Rights(p, a)) + 1 <= Cardinality(Rights(p, b))
    <2>1. a + 1 \in Nat /\ a + 1 <= b
        BY <1>2
    <2>2. Cardinality(Rights(p, a + 1)) = Cardinality(Rights(p, a)) + 1
        BY <1>2, CountsUp
    <2> QED BY <1>1, <2>1, <2>2
<1> QED BY <1>1, <1>2

LEMMA VacantIff ==
    ASSUME NEW t, NEW p, TreeHolds(t, p, DEPTH)
    PROVE  /\ \A l \in 0 .. DEPTH - 1 : Vacant(t, l) <=> ~Odd(p, l)
           /\ \A l \in 0 .. DEPTH : FilledBelow(t, l) = Cardinality(Rights(p, l))
<1>d. DEPTH \in Nat
    BY DepthAssumption
<1>1. ASSUME NEW l \in 0 .. DEPTH - 1 PROVE Vacant(t, l) <=> ~Odd(p, l)
    <2>1. CASE l = 0
        <3>1. t.right = {} <=> ~Odd(p, 0)
            BY TreeFields
        <3> QED BY <2>1, <3>1 DEF Vacant
    <2>2. CASE l # 0
        <3>1. l \in 1 .. DEPTH - 1
            BY <1>d, <2>2
        <3>2. Slot(t, l) = Sibling(p, l)
            BY <3>1, TreeFields
        <3> QED BY <2>2, <3>2, SiblingIs DEF Vacant
    <2> QED BY <2>1, <2>2
<1>2. ASSUME NEW l \in 0 .. DEPTH PROVE FilledBelow(t, l) = Cardinality(Rights(p, l))
    <2>1. \A i \in 0 .. l - 1 : i \in 0 .. DEPTH - 1
        BY <1>d
    <2>2. {i \in 0 .. l - 1 : Vacant(t, i)} = {i \in 0 .. l - 1 : ~Odd(p, i)}
        BY <1>1, <2>1
    <2> QED BY <2>2 DEF FilledBelow, Rights
<1> QED BY <1>1, <1>2

LEMMA NextDepthIs ==
    ASSUME NEW w, NEW p \in Nat, NEW next \in 0 .. DEPTH, NEW n, WitnessHolds(w, p, next, n)
    PROVE  NextDepth(w) = next
<1> DEFINE levels == {l \in 0 .. DEPTH - 1 :
                        Vacant(w.tree, l) /\ FilledBelow(w.tree, l) = Len(w.filled)}
           C(l) == Cardinality(Rights(p, l))
<1>d. DEPTH \in Nat /\ next \in Nat /\ next <= DEPTH
    BY DepthAssumption
<1>1. TreeHolds(w.tree, p, DEPTH) /\ Len(w.filled) = C(next) /\ (next # DEPTH => ~Odd(p, next))
    BY DEF WitnessHolds
<1>2. \A l \in 0 .. DEPTH - 1 : l \in Nat /\ l \in 0 .. DEPTH
    BY <1>d
<1>3. \A l \in 0 .. DEPTH - 1 : l \in levels <=> ~Odd(p, l) /\ C(l) = C(next)
    BY <1>1, <1>2, VacantIff
<1>4. ASSUME NEW l \in levels PROVE l = next
    <2>1. l \in 0 .. DEPTH - 1 /\ l \in Nat /\ ~Odd(p, l) /\ C(l) = C(next)
        BY <1>2, <1>3
    <2>2. C(l) \in Nat
        BY <2>1, CountsUp
    <2> HIDE DEF C
    <2>3. ~(l < next)
        <3> SUFFICES ASSUME l < next PROVE FALSE
            OBVIOUS
        <3>1. C(l) + 1 <= C(next)
            BY <1>d, <2>1, RightsGrow DEF C
        <3> QED BY <2>1, <2>2, <3>1
    <2>4. ~(next < l)
        <3> SUFFICES ASSUME next < l PROVE FALSE
            OBVIOUS
        <3>1. next # DEPTH
            BY <1>d, <2>1
        <3>2. C(next) + 1 <= C(l)
            BY <1>1, <1>d, <2>1, <3>1, RightsGrow DEF C
        <3> QED BY <2>1, <2>2, <3>2
    <2> QED BY <1>d, <2>1, <2>3, <2>4
<1>5. NextDepth(w) = IF levels = {} THEN DEPTH ELSE The(levels)
    BY DEF NextDepth
<1>6. CASE next = DEPTH
    <2>1. levels = {}
        <3> SUFFICES ASSUME NEW l \in levels PROVE FALSE
            OBVIOUS
        <3>1. l = next /\ l \in 0 .. DEPTH - 1
            BY <1>4
        <3> QED BY <1>6, <1>d, <3>1
    <2> QED BY <1>5, <1>6, <2>1
<1>7. CASE next # DEPTH
    <2>1. next \in levels
        <3>1. next \in 0 .. DEPTH - 1
            BY <1>d, <1>7
        <3> QED BY <1>1, <1>3, <1>7, <3>1
    <2> HIDE DEF levels
    <2>2. levels = {next}
        BY <1>4, <2>1
    <2> QED BY <1>5, <2>2, TheOnly
<1> QED BY <1>6, <1>7

(* The next level, from a given one on, at which a position has its sibling *)
(* to the right, or the top.                                                *)
LEMMA NextLeft ==
    ASSUME NEW p \in Nat, NEW from \in 0 .. DEPTH
    PROVE  \E v \in from .. DEPTH : /\ v # DEPTH => ~Odd(p, v)
                                    /\ \A i \in from .. v - 1 : Odd(p, i)
<1>d. DEPTH \in Nat /\ from \in Nat
    BY DepthAssumption
<1> DEFINE S == {i \in from .. DEPTH : i # DEPTH => ~Odd(p, i)}
<1>1. S \subseteq Nat /\ DEPTH \in S
    BY <1>d
<1>2. PICK v \in S : \A m \in S : v <= m
    <2> HIDE DEF S
    <2> QED BY <1>1, LeastNumber
<1>3. \A i \in from .. v - 1 : i \in from .. DEPTH /\ i # DEPTH /\ ~(v <= i)
    BY <1>d, <1>2
<1> QED BY <1>2, <1>3

LEMMA FollowHolds ==
    ASSUME NEW t, NEW q \in Nat, TreeHolds(t, q, DEPTH), Ancestor(q, DEPTH) = 0
    PROVE  \E next \in 0 .. DEPTH : WitnessHolds(Witness(t, <<>>, {}), q, next, q + 1)
<1> DEFINE w == Witness(t, <<>>, {})
<1>d. DEPTH \in Nat /\ 0 \in 0 .. DEPTH
    BY DepthAssumption
<1>1. PICK v \in 0 .. DEPTH : (v # DEPTH => ~Odd(q, v)) /\ \A i \in 0 .. v - 1 : Odd(q, i)
    BY <1>d, NextLeft
<1>2. v \in Nat
    BY <1>d
<1>3. w.tree = t /\ w.filled = <<>> /\ w.cursor = {}
      /\ w = [tree |-> w.tree, filled |-> w.filled, cursor |-> w.cursor]
    BY DEF Witness
<1> HIDE DEF w
<1>4. Ancestor(q + 1, v) = Ancestor(q, v) + 1
    BY <1>1, <1>2, Increment
<1>5. Rights(q, v) = {}
    BY <1>1 DEF Rights
<1>6. Len(w.filled) = Cardinality(Rights(q, v))
    <2>1. Len(w.filled) = 0
        BY <1>3
    <2> QED BY <1>5, <2>1, FS_EmptySet
<1>7. w.filled = [i \in 1 .. Len(w.filled) |-> w.filled[i]]
    BY <1>3
<1>8. Rights(q + 1, v) = 0 .. v - 1
    BY <1>1, <1>2, LastAndFirst
<1>9. WitnessHolds(w, q, v, q + 1)
    BY <1>1, <1>3, <1>4, <1>5, <1>6, <1>7, <1>8 DEF WitnessHolds
<1> QED BY <1>9 DEF w

(* The tree that the cursor becomes with the next leaf. *)
LEMMA CursorStep ==
    ASSUME NEW w, NEW p \in Nat, NEW next \in 1 .. DEPTH, NEW n \in Nat, n # 0,
           WitnessHolds(w, p, next, n)
    PROVE  TreeHolds(TreeAppend(IF w.cursor = {} THEN EmptyTree ELSE The(w.cursor), Whole(0, n)),
                     n, next)
<1>d. next \in Nat /\ n - 1 \in Nat /\ (n - 1) + 1 = n
    BY DepthAssumption
<1>1. CASE Rights(n, next) = 0 .. next - 1
    <2>1. w.cursor = {}
        BY <1>1 DEF WitnessHolds
    <2>2. \A i \in 0 .. next - 1 : ~Odd(n, i)
        BY <1>1 DEF Rights
    <2>3. TreeHolds(TreeAppend(EmptyTree, Whole(0, n)), n, next)
        BY <2>2, TreeStart
    <2> QED BY <2>1, <2>3
<1>2. CASE Rights(n, next) # 0 .. next - 1
    <2>1. PICK c : w.cursor = {c} /\ TreeHolds(c, n - 1, next)
        BY <1>2 DEF WitnessHolds
    <2>2. w.cursor # {} /\ The(w.cursor) = c
        BY <2>1, TheOnly
    <2>3. ~(\A i \in 0 .. next - 1 : Odd(n - 1, i))
        BY <1>d, <1>2, LastAndFirst
    <2>4. TreeHolds(TreeAppend(c, Whole(0, (n - 1) + 1)), (n - 1) + 1, next)
        BY <1>d, <2>1, <2>3, TreeStep
    <2> QED BY <1>d, <2>2, <2>4
<1> QED BY <1>1, <1>2

(* When the sibling at a level is complete, the next one starts: it is at   *)
(* the next level at which the note has its sibling to the right.           *)
LEMMA NextSibling ==
    ASSUME NEW p \in Nat, NEW n \in Nat, NEW next \in 0 .. DEPTH - 1, ~Odd(p, next),
           Ancestor(n, next) = Ancestor(p, next) + 1, \A i \in 0 .. next - 1 : Odd(n, i),
           NEW v \in next + 1 .. DEPTH, \A i \in next + 1 .. v - 1 : Odd(p, i)
    PROVE  /\ Ancestor(n + 1, v) = Ancestor(p, v) + 1
           /\ Rights(n + 1, v) = 0 .. v - 1
           /\ Rights(p, v) = Rights(p, next) \cup {next}
<1>d. DEPTH \in Nat /\ next \in Nat /\ v \in Nat /\ n + 1 \in Nat /\ next + 1 \in Nat /\ next + 1 <= v
    BY DepthAssumption
<1>1. Ancestor(n + 1, next) = Ancestor(p, next) + 2
    <2>1. Ancestor(n + 1, next) = Ancestor(n, next) + 1 /\ Ancestor(p, next) \in Nat
        BY <1>d, Increment, AncestorDef
    <2> QED BY <2>1
<1>2. ~Odd(n + 1, next) /\ Ancestor(n + 1, next + 1) = Ancestor(p, next + 1) + 1
    <2>1. Ancestor(p, next) = 2 * Ancestor(p, next + 1) /\ Ancestor(p, next + 1) \in Nat
        BY <1>d, Halves
    <2>2. Ancestor(n + 1, next + 1) = Ancestor(n + 1, next) \div 2
        BY <1>d, AncestorDef
    <2>3. ~Odd(n + 1, next)
        BY <1>1, <2>1 DEF Odd, IsRightChild
    <2> QED BY <1>1, <2>1, <2>2, <2>3
<1> DEFINE S == {l \in Nat : next + 1 <= l =>
                    /\ Ancestor(n + 1, l) = Ancestor(p, l) + 1
                    /\ \A i \in next .. l - 1 : ~Odd(n + 1, i)
                    /\ Rights(p, l) = Rights(p, next) \cup {next}}
<1>3. next + 1 \in S
    <2>1. \A i \in next .. (next + 1) - 1 : i = next
        BY <1>d
    <2>2. Rights(p, next + 1) = Rights(p, next) \cup {next}
        BY <1>d, CountsUp
    <2> QED BY <1>d, <1>2, <2>1, <2>2
<1>4. 0 \in S
    BY <1>d
<1>5. ASSUME NEW l \in Nat, l < v, l \in S PROVE l + 1 \in S
    <2>1. CASE next + 1 = l + 1
        BY <1>3, <2>1
    <2>2. CASE next + 1 <= l
        <3>1. l \in next + 1 .. v - 1
            BY <1>d, <1>5, <2>2
        <3>2. Odd(p, l)
            BY <3>1
        <3>3. Ancestor(p, l) = 2 * Ancestor(p, l + 1) + 1 /\ Ancestor(p, l + 1) \in Nat
            BY <3>2, Halves
        <3>4. Ancestor(n + 1, l) = Ancestor(p, l) + 1
            BY <1>5, <2>2
        <3>5. Ancestor(n + 1, l + 1) = Ancestor(n + 1, l) \div 2
            BY <1>d, AncestorDef
        <3>6. Ancestor(n + 1, l + 1) = Ancestor(p, l + 1) + 1
            BY <3>3, <3>4, <3>5
        <3>7. ~Odd(n + 1, l)
            BY <3>3, <3>4 DEF Odd, IsRightChild
        <3>8. \A i \in next .. (l + 1) - 1 : i \in next .. l - 1 \/ i = l
            BY <1>d
        <3>9. \A i \in next .. (l + 1) - 1 : ~Odd(n + 1, i)
            BY <1>5, <2>2, <3>7, <3>8
        <3>10. Rights(p, l + 1) = Rights(p, l)
            BY <3>2, CountsUp
        <3>11. Rights(p, l) = Rights(p, next) \cup {next}
            BY <1>5, <2>2
        <3> QED BY <3>6, <3>9, <3>10, <3>11
    <2>3. CASE ~(next + 1 <= l + 1)
        BY <2>3
    <2> QED BY <1>d, <2>1, <2>2, <2>3
<1>6. v \in S
    <2>1. 0 .. v \subseteq S
        <3> HIDE DEF S
        <3> QED BY <1>d, <1>4, <1>5, BoundedInduction
    <2> QED BY <1>d, <2>1
<1>7. Rights(n + 1, v) = 0 .. v - 1
    <2>1. Rights(n + 1, next) = 0 .. next - 1
        BY <1>d, LastAndFirst
    <2>2. \A i \in 0 .. next - 1 : ~Odd(n + 1, i)
        BY <2>1 DEF Rights
    <2>3. \A i \in next .. v - 1 : ~Odd(n + 1, i)
        BY <1>d, <1>6
    <2>4. \A i \in 0 .. v - 1 : i \in 0 .. next - 1 \/ i \in next .. v - 1
        BY <1>d
    <2>5. \A i \in 0 .. v - 1 : ~Odd(n + 1, i)
        BY <2>2, <2>3, <2>4
    <2> QED BY <2>5 DEF Rights
<1> QED BY <1>d, <1>6, <1>7

(* The witness after the leaf that completes its sibling. *)
LEMMA WitnessFills ==
    ASSUME NEW w, NEW p \in Nat, NEW next \in 0 .. DEPTH - 1, NEW n \in Nat,
           WitnessHolds(w, p, next, n), \A i \in 0 .. next - 1 : Odd(n, i),
           NEW u, u = [tree |-> w.tree, filled |-> Append(w.filled, Whole(next, Ancestor(n, next))),
                       cursor |-> {}]
    PROVE  \E v \in 0 .. DEPTH : WitnessHolds(u, p, v, n + 1)
<1>d. DEPTH \in Nat /\ next \in Nat /\ next # DEPTH /\ next + 1 \in 0 .. DEPTH
    BY DepthAssumption
<1> DEFINE F == w.filled
           G == u.filled
           x == Whole(next, Ancestor(n, next))
           C(l) == Cardinality(Rights(p, l))
<1>1. /\ Ancestor(p, DEPTH) = 0 /\ TreeHolds(w.tree, p, DEPTH)
      /\ Ancestor(n, next) = Ancestor(p, next) + 1
      /\ ~Odd(p, next)
      /\ Len(F) = C(next)
      /\ F = [i \in 1 .. Len(F) |-> F[i]]
      /\ \A l \in Rights(p, next) : F[C(l) + 1] = Whole(l, Ancestor(p, l) + 1)
    BY <1>d DEF WitnessHolds
<1>2. u.tree = w.tree /\ u.cursor = {} /\ G = Append(F, x)
      /\ u = [tree |-> u.tree, filled |-> u.filled, cursor |-> u.cursor]
    OBVIOUS
<1>3. PICK v \in next + 1 .. DEPTH : (v # DEPTH => ~Odd(p, v)) /\ \A i \in next + 1 .. v - 1 : Odd(p, i)
    BY <1>d, NextLeft
<1>4. /\ Ancestor(n + 1, v) = Ancestor(p, v) + 1
      /\ Rights(n + 1, v) = 0 .. v - 1
      /\ Rights(p, v) = Rights(p, next) \cup {next}
    BY <1>1, <1>3, NextSibling
<1>5. C(next) \in Nat /\ C(v) = C(next) + 1
    <2>1. C(next) \in Nat /\ C(next + 1) = C(next) + 1 /\ Rights(p, next + 1) = Rights(p, next) \cup {next}
        BY <1>d, <1>1, CountsUp
    <2>2. C(v) = C(next + 1)
        BY <1>4, <2>1
    <2> HIDE DEF C
    <2> QED BY <2>1, <2>2
<1>6. ASSUME NEW l \in Rights(p, next) PROVE C(l) + 1 \in 1 .. C(next)
    <2>1. l \in Nat /\ l < next /\ ~Odd(p, l)
        BY <1>d DEF Rights
    <2>2. C(l) \in Nat /\ C(l) + 1 <= C(next)
        BY <1>d, <2>1, CountsUp, RightsGrow
    <2> HIDE DEF C
    <2> QED BY <1>5, <2>2
<1> HIDE DEF C, F, G
<1>7. /\ Len(G) = C(v) /\ G[C(next) + 1] = x
      /\ \A i \in 1 .. C(next) : G[i] = F[i]
      /\ G = [i \in 1 .. Len(G) |-> G[i]]
    <2> DEFINE T == {F[i] : i \in 1 .. Len(F)}
    <2>1. F \in Seq(T) /\ Len(F) \in Nat
        <3>1. Len(F) \in Nat
            BY <1>1, <1>5
        <3>2. F = [i \in 1 .. Len(F) |-> F[i]]
            BY <1>1
        <3> QED BY <3>1, <3>2, SequenceOf
    <2> HIDE DEF T, x
    <2>2. /\ G \in Seq(T \cup {x}) /\ Len(G) = Len(F) + 1 /\ G[Len(F) + 1] = x
          /\ \A i \in 1 .. Len(F) : G[i] = F[i]
        <3>1. /\ Append(F, x) \in Seq(T \cup {x}) /\ Len(Append(F, x)) = Len(F) + 1
              /\ Append(F, x)[Len(F) + 1] = x
              /\ \A i \in 1 .. Len(F) : Append(F, x)[i] = F[i]
            BY <2>1, AppendFacts
        <3>2. G = Append(F, x)
            BY <1>2
        <3> QED BY <3>1, <3>2
    <2>3. G = [i \in 1 .. Len(G) |-> G[i]]
        BY <2>2
    <2> QED BY <1>1, <1>5, <2>2, <2>3
<1>8. ASSUME NEW l \in Rights(p, v) PROVE G[C(l) + 1] = Whole(l, Ancestor(p, l) + 1)
    <2>1. CASE l \in Rights(p, next)
        BY <1>1, <1>6, <1>7, <2>1
    <2>2. CASE l = next
        BY <1>1, <1>7, <2>2
    <2> QED BY <1>4, <2>1, <2>2
<1>9. WitnessHolds(u, p, v, n + 1)
    BY <1>1, <1>2, <1>3, <1>4, <1>7, <1>8 DEF WitnessHolds, C, G
<1> QED BY <1>d, <1>9

LEMMA WitnessStep ==
    ASSUME NEW w, NEW p \in Nat, NEW next \in 0 .. DEPTH, NEW n \in Nat, n # 0,
           WitnessHolds(w, p, next, n), Ancestor(n, DEPTH) = 0
    PROVE  \E v \in 0 .. DEPTH : WitnessHolds(WitnessAppend(w, Whole(0, n)), p, v, n + 1)
<1> DEFINE leaf == Whole(0, n)
           t == TreeAppend(IF w.cursor = {} THEN EmptyTree ELSE The(w.cursor), leaf)
           x == Whole(next, Ancestor(n, next))
           full == [tree |-> w.tree, filled |-> Append(w.filled, x), cursor |-> {}]
<1>d. DEPTH \in Nat /\ next \in Nat
    BY DepthAssumption
<1>1. NextDepth(w) = next
    BY NextDepthIs
<1>2. next \in 0 .. DEPTH - 1
    <2>1. next # DEPTH
        <3> SUFFICES ASSUME next = DEPTH PROVE FALSE
            OBVIOUS
        <3>1. 0 = 0 + 1
            BY DEF WitnessHolds
        <3> QED BY <3>1
    <2> QED BY <1>d, <2>1
<1>3. w = [tree |-> w.tree, filled |-> w.filled, cursor |-> w.cursor]
    BY DEF WitnessHolds
<1>4. WitnessAppend(w, leaf) =
        IF next = 0 THEN [w EXCEPT !.filled = Append(@, leaf)]
        ELSE IF IsComplete(t, next)
        THEN [w EXCEPT !.filled = Append(@, RootAtDepth(t, next)), !.cursor = {}]
        ELSE [w EXCEPT !.cursor = {t}]
    BY <1>1 DEF WitnessAppend
<1> HIDE DEF t
<1>5. CASE next = 0
    <2>1. 0 .. next - 1 = {} /\ Rights(n, next) = {}
        BY <1>5 DEF Rights
    <2>2. w.cursor = {}
        BY <2>1 DEF WitnessHolds
    <2>3. x = leaf
        BY <1>5, AncestorDef
    <2> HIDE DEF leaf, x
    <2>4. WitnessAppend(w, leaf) = full
        BY <1>3, <1>4, <1>5, <2>2, <2>3
    <2>5. \A i \in 0 .. next - 1 : Odd(n, i)
        BY <2>1
    <2>6. full = [tree |-> w.tree, filled |-> Append(w.filled, Whole(next, Ancestor(n, next))), cursor |-> {}]
        BY DEF x
    <2> HIDE DEF full
    <2>7. \E v \in 0 .. DEPTH : WitnessHolds(full, p, v, n + 1)
        BY <1>2, <2>5, <2>6, WitnessFills
    <2> QED BY <2>4, <2>7 DEF leaf
<1>6. CASE next # 0
    <2>0. next \in 1 .. DEPTH
        BY <1>d, <1>2, <1>6
    <2>1. TreeHolds(t, n, next)
        BY <2>0, CursorStep DEF t
    <2>2. IsComplete(t, next) <=> \A i \in 0 .. next - 1 : Odd(n, i)
        BY <2>0, <2>1, CompleteIff
    <2>3. CASE IsComplete(t, next)
        <3>1. RootAtDepth(t, next) = x
            BY <2>0, <2>1, <2>2, <2>3, RootComplete
        <3>2. WitnessAppend(w, leaf) = [w EXCEPT !.filled = Append(@, x), !.cursor = {}]
            BY <1>4, <1>6, <2>3, <3>1
        <3> HIDE DEF leaf, x
        <3>3. WitnessAppend(w, leaf) = full
            BY <1>3, <3>2
        <3>4. full = [tree |-> w.tree, filled |-> Append(w.filled, Whole(next, Ancestor(n, next))), cursor |-> {}]
            BY DEF x
        <3> HIDE DEF full
        <3>5. \E v \in 0 .. DEPTH : WitnessHolds(full, p, v, n + 1)
            BY <1>2, <2>2, <2>3, <3>4, WitnessFills
        <3> QED BY <3>3, <3>5 DEF leaf
    <2>4. CASE ~IsComplete(t, next)
        <3> DEFINE u == [tree |-> w.tree, filled |-> w.filled, cursor |-> {t}]
        <3> HIDE DEF leaf
        <3>1. WitnessAppend(w, leaf) = u
            <4>1. WitnessAppend(w, leaf) = [w EXCEPT !.cursor = {t}]
                BY <1>4, <1>6, <2>4
            <4> QED BY <1>3, <4>1
        <3>2. u.tree = w.tree /\ u.filled = w.filled /\ u.cursor = {t}
              /\ u = [tree |-> u.tree, filled |-> u.filled, cursor |-> u.cursor]
            OBVIOUS
        <3>3. Ancestor(n + 1, next) = Ancestor(n, next)
            BY <1>d, <2>2, <2>4, Increment
        <3>4. Rights(n + 1, next) # 0 .. next - 1
            BY <1>d, <2>2, <2>4, LastAndFirst
        <3>5. (n + 1) - 1 = n
            OBVIOUS
        <3>6. \E c \in u.cursor : u.cursor = {c} /\ TreeHolds(c, (n + 1) - 1, next)
            BY <2>1, <3>2, <3>5
        <3> HIDE DEF u
        <3>7. WitnessHolds(u, p, next, n + 1)
            BY <3>2, <3>3, <3>4, <3>6 DEF WitnessHolds
        <3> QED BY <3>1, <3>7 DEF leaf
    <2> QED BY <2>3, <2>4
<1> QED BY <1>5, <1>6

(* The other child of the parent of a position's ancestor. *)
Neighbour(p, l) == IF Odd(p, l) THEN Ancestor(p, l) - 1 ELSE Ancestor(p, l) + 1

(* Until the level of the sibling in the making, what follows the note's    *)
(* siblings is there.                                                       *)
LEMMA Beyond ==
    ASSUME NEW p \in Nat, NEW n \in Nat, p <= n, NEW next \in Nat,
           Ancestor(n, next) = Ancestor(p, next) + 1, NEW l \in Nat, l < next, ~Odd(p, l)
    PROVE  Ancestor(p, l) + 1 < Ancestor(n, l)
<1>1. l + 1 \in Nat /\ l + 1 <= next
    OBVIOUS
<1> DEFINE a == Ancestor(p, l + 1)
           b == Ancestor(n, l + 1)
<1>2. a \in Nat /\ b \in Nat /\ a <= b /\ Ancestor(p, next) \in Nat
    BY <1>1, AncestorDef, AncestorMonotone
<1>3. a # b
    <2> SUFFICES ASSUME a = b PROVE FALSE
        OBVIOUS
    <2>1. Ancestor(p, next) = Ancestor(n, next)
        BY <1>1, CommonAncestors
    <2> QED BY <1>2, <2>1
<1>4. Ancestor(p, l) = 2 * a
    BY Halves
<1>5. Ancestor(n, l) \in Nat /\ (Ancestor(n, l) = 2 * b \/ Ancestor(n, l) = 2 * b + 1)
    BY Halves
<1> HIDE DEF a, b
<1> QED BY <1>2, <1>3, <1>4, <1>5

(* The path has the siblings of the note's ancestors, as the chain has them. *)
LEMMA PathIs ==
    ASSUME NEW w, NEW n \in Nat, NEW p \in 0 .. n - 1, NEW next \in 0 .. DEPTH, WitnessHolds(w, p, next, n)
    PROVE  /\ AuthPath(w) = [auth_path |-> AuthPath(w).auth_path, position |-> p]
           /\ AuthPath(w).auth_path = [i \in 1 .. DEPTH |-> Node(n, i - 1, Neighbour(p, i - 1))]
<1> DEFINE sibling(level) ==
              LET following == FilledBelow(w.tree, level) + 1
              IN  IF ~Vacant(w.tree, level)
                  THEN The(IF level = 0 THEN w.tree.left ELSE w.tree.parents[level])
                  ELSE IF following <= Len(w.filled) THEN w.filled[following]
                  ELSE IF following = Len(w.filled) + 1 /\ w.cursor # {}
                  THEN RootAtDepth(The(w.cursor), level) ELSE EmptyRoot[level]
           C(l) == Cardinality(Rights(p, l))
<1>d. /\ DEPTH \in Nat /\ next \in Nat /\ next <= DEPTH /\ p \in Nat /\ p <= n
      /\ n - 1 \in Nat /\ n # 0 /\ (n - 1) + 1 = n /\ n - 1 <= n
    BY DepthAssumption
<1>1. /\ Ancestor(p, DEPTH) = 0 /\ TreeHolds(w.tree, p, DEPTH)
      /\ Ancestor(n, next) = Ancestor(p, next) + 1
      /\ next # DEPTH => ~Odd(p, next)
      /\ Len(w.filled) = C(next)
      /\ \A l \in Rights(p, next) : w.filled[C(l) + 1] = Whole(l, Ancestor(p, l) + 1)
    BY DEF WitnessHolds
<1>2. AuthPath(w) = [auth_path |-> [i \in 1 .. DEPTH |-> sibling(i - 1)], position |-> TreeSize(w.tree) - 1]
    BY DEF AuthPath
<1>3. TreeSize(w.tree) - 1 = p
    <2>1. TreeSize(w.tree) = p + 1
        BY <1>d, <1>1, SizeOf
    <2> QED BY <1>d, <2>1
<1>4. ASSUME NEW l \in 0 .. DEPTH - 1 PROVE sibling(l) = Node(n, l, Neighbour(p, l))
    <2>d. l \in Nat /\ l \in 0 .. DEPTH /\ l < DEPTH
        BY <1>d
    <2>1. (Vacant(w.tree, l) <=> ~Odd(p, l)) /\ FilledBelow(w.tree, l) = C(l)
        BY <1>1, <2>d, VacantIff
    <2>2. Ancestor(p, l) \in Nat /\ Ancestor(n, l) \in Nat /\ Ancestor(p, l) <= Ancestor(n, l)
        BY <1>d, <2>d, AncestorDef, AncestorMonotone
    <2>3. C(l) \in Nat /\ C(next) \in Nat
        BY <1>d, <2>d, CountsUp
    <2>4. CASE Odd(p, l)
        <3>1. sibling(l) = Whole(l, Ancestor(p, l) - 1)
            <4>1. CASE l = 0
                <5>1. w.tree.left = Sibling(p, 0)
                    BY <1>1, <2>4, <4>1, TreeFields
                <5> QED BY <2>1, <2>4, <4>1, <5>1, SiblingIs
            <4>2. CASE l # 0
                <5>1. l \in 1 .. DEPTH - 1
                    BY <1>d, <4>2
                <5>2. Slot(w.tree, l) = Sibling(p, l)
                    <6>1. \A i \in 1 .. DEPTH - 1 : Slot(w.tree, i) = Sibling(p, i)
                        <7>1. TreeHolds(w.tree, p, DEPTH)
                            BY <1>1
                        <7> QED BY <7>1 DEF TreeHolds
                    <6> QED BY <5>1, <6>1
                <5>3. w.tree.parents[l] = Sibling(p, l)
                    BY <2>4, <5>2, SiblingIs DEF Slot
                <5> QED BY <2>1, <2>4, <4>2, <5>3, SiblingIs
            <4> QED BY <4>1, <4>2
        <3>2. Ancestor(p, l) # 0
            BY <2>4 DEF Odd, IsRightChild
        <3>3. Ancestor(p, l) - 1 \in Nat /\ Ancestor(p, l) - 1 < Ancestor(n, l)
            BY <2>2, <3>2
        <3>4. Node(n, l, Ancestor(p, l) - 1) = Whole(l, Ancestor(p, l) - 1)
            BY <2>d, <3>3, NodeComplete
        <3> QED BY <2>4, <3>1, <3>4 DEF Neighbour
    <2>5. CASE ~Odd(p, l)
        <3>0. Neighbour(p, l) = Ancestor(p, l) + 1 /\ Ancestor(p, l) + 1 \in Nat
            BY <2>2, <2>5 DEF Neighbour
        <3>1. sibling(l) = IF C(l) + 1 <= C(next) THEN w.filled[C(l) + 1]
                           ELSE IF C(l) + 1 = C(next) + 1 /\ w.cursor # {}
                           THEN RootAtDepth(The(w.cursor), l) ELSE EmptyRoot[l]
            BY <1>1, <2>1, <2>5
        <3> HIDE DEF sibling
        <3>2. CASE l < next
            <4>1. C(l) + 1 <= C(next)
                BY <1>d, <2>d, <2>5, <3>2, RightsGrow
            <4>2. l \in Rights(p, next)
                BY <1>d, <2>d, <2>5, <3>2 DEF Rights
            <4>3. sibling(l) = Whole(l, Ancestor(p, l) + 1)
                BY <1>1, <3>1, <4>1, <4>2
            <4>4. Ancestor(p, l) + 1 < Ancestor(n, l)
                BY <1>d, <1>1, <2>d, <2>5, <3>2, Beyond
            <4>5. Node(n, l, Ancestor(p, l) + 1) = Whole(l, Ancestor(p, l) + 1)
                BY <2>d, <3>0, <4>4, NodeComplete
            <4> QED BY <3>0, <4>3, <4>5
        <3>3. CASE l = next
            <4>1. ~(C(l) + 1 <= C(next)) /\ C(l) + 1 = C(next) + 1
                BY <2>3, <3>3
            <4>2. CASE Rights(n, next) = 0 .. next - 1
                <5>1. w.cursor = {}
                    BY <4>2 DEF WitnessHolds
                <5>2. sibling(l) = EmptyRoot[l]
                    BY <3>1, <4>1, <5>1
                <5>3. \A i \in 0 .. next - 1 : Odd(n - 1, i)
                    BY <1>d, <4>2, LastAndFirst
                <5>4. Ancestor(n, next) = Ancestor(n - 1, next) + 1 /\ Ancestor(n - 1, next) \in Nat
                    BY <1>d, <5>3, Increment, AncestorDef
                <5>5. Ancestor(n - 1, l) < Ancestor(p, l) + 1
                    BY <1>1, <2>2, <3>3, <5>4
                <5>6. Node(n, l, Ancestor(p, l) + 1) = EmptyRoot[l]
                    BY <2>d, <3>0, <5>5, NodeEmpty
                <5> QED BY <3>0, <5>2, <5>6
            <4>3. CASE Rights(n, next) # 0 .. next - 1
                <5>1. PICK c : w.cursor = {c} /\ TreeHolds(c, n - 1, next)
                    BY <4>3 DEF WitnessHolds
                <5>2. w.cursor # {} /\ The(w.cursor) = c
                    BY <5>1, TheOnly
                <5>3. sibling(l) = RootAtDepth(c, next)
                    BY <3>1, <3>3, <4>1, <5>2
                <5>4. next \in 1 .. DEPTH
                    <6>1. next # 0
                        BY <4>3 DEF Rights
                    <6> QED BY <1>d, <6>1
                <5>5. RootAtDepth(c, next) = Node((n - 1) + 1, next, Ancestor(n - 1, next))
                    BY <1>d, <5>1, <5>4, RootOf
                <5>6. ~(\A i \in 0 .. next - 1 : Odd(n - 1, i))
                    BY <1>d, <4>3, LastAndFirst
                <5>7. Ancestor((n - 1) + 1, next) = Ancestor(n - 1, next)
                    BY <1>d, <5>6, Increment
                <5>8. Ancestor(n - 1, next) = Ancestor(p, l) + 1
                    BY <1>d, <1>1, <3>3, <5>7
                <5> QED BY <1>d, <3>0, <3>3, <5>3, <5>5, <5>8
            <4> QED BY <4>2, <4>3
        <3>4. CASE l > next
            <4>1. ~Odd(p, next) /\ next + 1 \in Nat /\ next + 1 <= l /\ next < DEPTH
                BY <1>d, <1>1, <2>d, <3>4
            <4>2. C(next) + 1 <= C(l)
                BY <1>d, <2>d, <3>4, <4>1, RightsGrow
            <4> HIDE DEF C
            <4>3. sibling(l) = EmptyRoot[l]
                BY <2>3, <3>1, <4>2
            <4>4. Ancestor(n, next + 1) = Ancestor(p, next + 1)
                <5>1. Ancestor(p, next) = 2 * Ancestor(p, next + 1) /\ Ancestor(p, next + 1) \in Nat
                    BY <1>d, <4>1, Halves
                <5>2. Ancestor(n, next + 1) = Ancestor(n, next) \div 2
                    BY <1>d, AncestorDef
                <5> QED BY <1>1, <5>1, <5>2
            <4>5. Ancestor(n, l) = Ancestor(p, l)
                BY <1>d, <2>d, <4>1, <4>4, CommonAncestors
            <4>6. Ancestor(n - 1, l) <= Ancestor(n, l) /\ Ancestor(n - 1, l) \in Nat
                BY <1>d, <2>d, AncestorDef, AncestorMonotone
            <4>7. Ancestor(n - 1, l) < Ancestor(p, l) + 1
                BY <2>2, <4>5, <4>6
            <4>8. Node(n, l, Ancestor(p, l) + 1) = EmptyRoot[l]
                BY <2>d, <3>0, <4>7, NodeEmpty
            <4> QED BY <3>0, <4>3, <4>8
        <3> QED BY <1>d, <2>d, <3>2, <3>3, <3>4
    <2> QED BY <2>4, <2>5
<1> HIDE DEF sibling
<1>5. \A i \in 1 .. DEPTH : i - 1 \in 0 .. DEPTH - 1
    BY <1>d
<1>6. [i \in 1 .. DEPTH |-> sibling(i - 1)] = [i \in 1 .. DEPTH |-> Node(n, i - 1, Neighbour(p, i - 1))]
    BY <1>4, <1>5
<1> DEFINE B == [i \in 1 .. DEPTH |-> Node(n, i - 1, Neighbour(p, i - 1))]
<1>7. AuthPath(w) = [auth_path |-> B, position |-> p]
    BY <1>2, <1>3, <1>6
<1> HIDE DEF B
<1>8. AuthPath(w).auth_path = B
    BY <1>7
<1> QED BY <1>7, <1>8 DEF B

LEMMA ReversedTwice ==
    ASSUME NEW f, f = [i \in 1 .. DEPTH |-> f[i]]
    PROVE  Len(Reversed(f)) = DEPTH /\ Reversed(Reversed(f)) = f
<1>d. DEPTH \in Nat
    BY DepthAssumption
<1> DEFINE r == Reversed(f)
<1>1. Len(f) = DEPTH /\ DOMAIN f = 1 .. DEPTH
    BY <1>d, SequenceOf
<1>2. r = [i \in 1 .. DEPTH |-> f[DEPTH + 1 - i]]
    BY <1>1 DEF Reversed
<1>3. r = [i \in 1 .. DEPTH |-> r[i]] /\ DOMAIN r = 1 .. DEPTH
      /\ \A i \in 1 .. DEPTH : r[i] = f[DEPTH + 1 - i]
    BY <1>2
<1> HIDE DEF r
<1>4. Len(r) = DEPTH
    BY <1>d, <1>3, SequenceOf
<1>5. Reversed(r) = [i \in 1 .. DEPTH |-> r[DEPTH + 1 - i]]
    BY <1>3, <1>4 DEF Reversed
<1>6. \A i \in 1 .. DEPTH : r[DEPTH + 1 - i] = f[i]
    <2> SUFFICES ASSUME NEW i \in 1 .. DEPTH PROVE r[DEPTH + 1 - i] = f[i]
        OBVIOUS
    <2>1. DEPTH + 1 - i \in 1 .. DEPTH /\ DEPTH + 1 - (DEPTH + 1 - i) = i
        BY <1>d
    <2> QED BY <1>3, <2>1
<1>7. Reversed(r) = f
    BY <1>5, <1>6
<1> QED BY <1>4, <1>7 DEF r

(* The path, exported as a slice and read, leads from the note to the root  *)
(* of the chain.                                                            *)
LEMMA PathLeadsToRoot ==
    ASSUME NEW w, NEW n \in Nat, NEW p \in 0 .. n - 1, NEW next \in 0 .. DEPTH, WitnessHolds(w, p, next, n)
    PROVE  LET note == The(IF w.tree.right = {} THEN w.tree.left ELSE w.tree.right)
           IN  {PathRoot(path, note) : path \in MerklePathFromSlice(PathSlice(AuthPath(w)))}
                 = {ChainRoot(n)}
<1> DEFINE path == AuthPath(w)
           A == path.auth_path
           note == The(IF w.tree.right = {} THEN w.tree.left ELSE w.tree.right)
           lefts == {l \in 1 .. DEPTH : IsRightChild(Ancestor(p, l - 1))}
           W == [l \in Nat |-> Node(n, l, Ancestor(p, l))]
<1>d. DEPTH \in Nat /\ p \in Nat /\ p < n
    BY DepthAssumption
<1>1. path = [auth_path |-> A, position |-> p]
      /\ A = [i \in 1 .. DEPTH |-> Node(n, i - 1, Neighbour(p, i - 1))]
    BY PathIs
<1> HIDE DEF path
<1>2. path.position = p /\ A = [i \in 1 .. DEPTH |-> A[i]]
      /\ \A i \in 1 .. DEPTH : A[i] = Node(n, i - 1, Neighbour(p, i - 1))
    BY <1>1
<1> HIDE DEF A
<1>3. MerklePathFromSlice(PathSlice(path)) = {path}
    <2> DEFINE slice == PathSlice(path)
    <2>1. Len(Reversed(A)) = DEPTH /\ Reversed(Reversed(A)) = A
        BY <1>2, ReversedTwice
    <2>2. slice.depth = DEPTH /\ slice.chunks = Reversed(A) /\ slice.position = p
        BY <1>2 DEF PathSlice, A
    <2> HIDE DEF slice
    <2>3. MerklePathFromSlice(slice) = {[auth_path |-> Reversed(Reversed(A)), position |-> p]}
        BY <2>1, <2>2 DEF MerklePathFromSlice
    <2>4. MerklePathFromSlice(slice) = {path}
        BY <1>1, <2>1, <2>3
    <2> QED BY <2>4 DEF slice
<1>4. note = Whole(0, p)
    <2>1. TreeHolds(w.tree, p, DEPTH)
        BY DEF WitnessHolds
    <2>2. /\ w.tree.left = IF Odd(p, 0) THEN Sibling(p, 0) ELSE {Whole(0, p)}
          /\ w.tree.right = IF Odd(p, 0) THEN {Whole(0, p)} ELSE {}
        BY <2>1, TreeFields
    <2>3. (IF w.tree.right = {} THEN w.tree.left ELSE w.tree.right) = {Whole(0, p)}
        BY <2>2
    <2> QED BY <2>3, TheOnly
<1> HIDE DEF note
<1>5. W[0] = note
    <2>1. Ancestor(p, 0) = p /\ Node(n, 0, p) = Whole(0, p)
        BY <1>d, AncestorDef, NodeDef
    <2> QED BY <1>4, <2>1
<1>6. ASSUME NEW l \in 1 .. DEPTH
      PROVE  W[l] = IF l \in lefts THEN Combine(A[l], W[l - 1]) ELSE Combine(W[l - 1], A[l])
    <2>1. l \in Nat /\ l - 1 \in Nat /\ (l - 1) + 1 = l /\ l - 1 < DEPTH
        BY <1>d
    <2>2. W[l] = Node(n, l, Ancestor(p, l)) /\ W[l - 1] = Node(n, l - 1, Ancestor(p, l - 1))
        BY <2>1
    <2>3. l \in lefts <=> Odd(p, l - 1)
        BY DEF Odd
    <2>4. A[l] = Node(n, l - 1, Neighbour(p, l - 1))
        BY <1>2
    <2> HIDE DEF W, lefts
    <2>5. /\ Odd(p, l - 1) =>
                Node(n, (l - 1) + 1, Ancestor(p, (l - 1) + 1)) =
                    Combine(Node(n, l - 1, Ancestor(p, l - 1) - 1), Node(n, l - 1, Ancestor(p, l - 1)))
          /\ ~Odd(p, l - 1) =>
                Node(n, (l - 1) + 1, Ancestor(p, (l - 1) + 1)) =
                    Combine(Node(n, l - 1, Ancestor(p, l - 1)), Node(n, l - 1, Ancestor(p, l - 1) + 1))
        BY <1>d, <2>1, NodeAbove
    <2> QED BY <2>1, <2>2, <2>3, <2>4, <2>5 DEF Neighbour
<1>7. W[DEPTH] = ChainRoot(n)
    <2>1. Ancestor(p, DEPTH) = 0
        BY DEF WitnessHolds
    <2> QED BY <1>d, <2>1 DEF Node, ChainRoot
<1>8. PathRoot(path, note) = Climb(note, A, lefts, DEPTH)
    BY <1>2 DEF PathRoot, A
<1> HIDE DEF W, lefts
<1>9. \A l \in 1 .. DEPTH :
        W[l] = IF l \in lefts THEN Combine(A[l], W[l - 1]) ELSE Combine(W[l - 1], A[l])
    BY <1>6
<1>10. Climb(note, A, lefts, DEPTH) = W[DEPTH]
    <2>1. Climbs(W, note, A, lefts, DEPTH)
        BY <1>5, <1>9 DEF Climbs
    <2> QED BY <1>d, <2>1, ClimbIs
<1>11. {PathRoot(q, note) : q \in MerklePathFromSlice(PathSlice(path))} = {ChainRoot(n)}
    BY <1>3, <1>7, <1>8, <1>10
<1> QED BY <1>11 DEF path, note

LEMMA WitnessReadsBack ==
    ASSUME NEW w, NEW p, NEW next \in 0 .. DEPTH, NEW n, WitnessHolds(w, p, next, n)
    PROVE  ReadIncrementalWitness(WriteIncrementalWitness(w)) = {w}
<1> DEFINE cursors == {WriteCommitmentTree(c) : c \in w.cursor}
           bytes == <<WriteCommitmentTree(w.tree), w.filled, cursors>>
           trees == {t \in ReadCommitmentTree(bytes[1]) : t.left # {}}
           read == IF bytes[3] = {} THEN {{}} ELSE {{c} : c \in ReadCommitmentTree(The(bytes[3]))}
<1>d. DEPTH \in Nat /\ DEPTH \in 1 .. DEPTH /\ next \in Nat
    BY DepthAssumption
<1>1. w = [tree |-> w.tree, filled |-> w.filled, cursor |-> w.cursor] /\ TreeHolds(w.tree, p, DEPTH)
    BY DEF WitnessHolds
<1>2. bytes[1] = WriteCommitmentTree(w.tree) /\ bytes[2] = w.filled /\ bytes[3] = cursors
    OBVIOUS
<1>3. trees = {w.tree}
    <2>1. ReadCommitmentTree(bytes[1]) = {w.tree}
        BY <1>d, <1>1, <1>2, TreeReadsBack
    <2>2. w.tree.left # {}
        BY <1>1, TreeFields
    <2> QED BY <2>1, <2>2
<1>4. read = {w.cursor}
    <2>1. CASE Rights(n, next) = 0 .. next - 1
        <3>1. w.cursor = {}
            BY <2>1 DEF WitnessHolds
        <3> QED BY <1>2, <3>1
    <2>2. CASE Rights(n, next) # 0 .. next - 1
        <3>1. PICK c : w.cursor = {c} /\ TreeHolds(c, n - 1, next)
            BY <2>2 DEF WitnessHolds
        <3>2. next \in 1 .. DEPTH
            <4>1. next # 0
                BY <2>2 DEF Rights
            <4> QED BY <1>d, <4>1
        <3>3. cursors = {WriteCommitmentTree(c)} /\ The(cursors) = WriteCommitmentTree(c)
            BY <3>1, TheOnly
        <3>4. ReadCommitmentTree(WriteCommitmentTree(c)) = {c}
            BY <3>1, <3>2, TreeReadsBack
        <3> HIDE DEF cursors, bytes
        <3>5. read = {{d} : d \in {c}}
            BY <1>2, <3>3, <3>4
        <3> QED BY <3>1, <3>5
    <2> QED BY <2>1, <2>2
<1>5. WriteIncrementalWitness(w) = bytes
    BY DEF WriteIncrementalWitness
<1> HIDE DEF bytes
<1>6. ReadIncrementalWitness(bytes) = {Witness(t, bytes[2], c) : t \in trees, c \in read}
    BY DEF ReadIncrementalWitness
<1>7. ReadIncrementalWitness(bytes) = {Witness(w.tree, w.filled, w.cursor)}
    <2> HIDE DEF trees, read
    <2> QED BY <1>2, <1>3, <1>4, <1>6
<1>8. Witness(w.tree, w.filled, w.cursor) = w
    BY <1>1 DEF Witness
<1> QED BY <1>5, <1>7, <1>8

----------------------------------------------------------------------------
(* The steps of the wallet. *)

LEMMA HoldsAtFirst == Holds(0, EmptyTree, {}, {})
BY DEF Holds

LEMMA HoldsAppend ==
    ASSUME NEW n, NEW t, NEW f, NEW ws, Holds(n, t, f, ws), ~IsComplete(t, DEPTH)
    PROVE  Holds(n + 1, TreeAppend(t, <<n + 1>>), FrontierAppend(f, <<n + 1>>),
                 {WitnessAppend(w, <<n + 1>>) : w \in ws})
<1> DEFINE leaf == <<n + 1>>
           us == {WitnessAppend(w, leaf) : w \in ws}
<1>d. DEPTH \in Nat /\ DEPTH \in 1 .. DEPTH
    BY DepthAssumption
<1>1. n \in Nat /\ leaf = Whole(0, n)
    BY WholeDef DEF Holds
<1>2. n + 1 \in Nat /\ n + 1 # 0 /\ (n + 1) - 1 = n
    BY <1>1
<1> HIDE DEF leaf
<1>3. SUFFICES /\ Ancestor(n, DEPTH) = 0
               /\ TreeHolds(TreeAppend(t, leaf), n, DEPTH)
               /\ FrontierAppend(f, leaf) = FrontierOf(n)
               /\ us = {} \/ \E u \in us : us = {u} /\ \E p \in 0 .. n, next \in 0 .. DEPTH :
                                                         WitnessHolds(u, p, next, n + 1)
    BY <1>2 DEF Holds, leaf
<1>4. CASE n = 0
    <2>1. t = EmptyTree /\ f = {} /\ ws = {}
        BY <1>4 DEF Holds
    <2>2. Ancestor(n, 0) = 0
        BY <1>1, <1>4, AncestorDef
    <2>3. Ancestor(n, DEPTH) = 0
        BY <1>1, <1>d, <2>2, ZeroAncestors
    <2>4. \A i \in 0 .. DEPTH - 1 : ~Odd(n, i)
        <3>1. \A i \in 0 .. DEPTH - 1 : i \in Nat /\ 0 <= i
            BY <1>d
        <3> QED BY <1>1, <2>2, <3>1, ZeroAncestors
    <2>5. TreeHolds(TreeAppend(t, leaf), n, DEPTH)
        BY <1>1, <1>d, <2>1, <2>4, TreeStart
    <2>6. FrontierAppend(f, leaf) = FrontierOf(n)
        BY <1>1, <1>4, <2>1, FirstFrontier
    <2>7. us = {}
        BY <2>1
    <2> QED BY <2>3, <2>5, <2>6, <2>7
<1>5. CASE n # 0
    <2>1. n - 1 \in Nat /\ (n - 1) + 1 = n
        BY <1>1, <1>5
    <2>2. /\ Ancestor(n - 1, DEPTH) = 0 /\ TreeHolds(t, n - 1, DEPTH) /\ f = FrontierOf(n - 1)
          /\ ws = {} \/ \E w \in ws : ws = {w} /\ \E p \in 0 .. n - 1, next \in 0 .. DEPTH :
                                                    WitnessHolds(w, p, next, n)
        BY <1>5 DEF Holds
    <2>3. ~(\A i \in 0 .. DEPTH - 1 : Odd(n - 1, i))
        BY <1>d, <2>1, <2>2, CompleteIff
    <2>4. Ancestor((n - 1) + 1, DEPTH) = Ancestor(n - 1, DEPTH)
        BY <1>d, <2>1, <2>3, Increment
    <2>5. Ancestor(n, DEPTH) = 0
        BY <2>1, <2>2, <2>4
    <2>6. TreeHolds(TreeAppend(t, Whole(0, (n - 1) + 1)), (n - 1) + 1, DEPTH)
        BY <1>d, <2>1, <2>2, <2>3, TreeStep
    <2>7. FrontierAppend(f, Whole(0, (n - 1) + 1)) = FrontierOf((n - 1) + 1)
        BY <2>1, <2>2, <2>3, FrontierStep
    <2>8. CASE ws = {}
        <3>1. us = {}
            BY <2>8
        <3> QED BY <1>1, <2>1, <2>5, <2>6, <2>7, <3>1
    <2>9. CASE ws # {}
        <3>1. PICK w \in ws : ws = {w} /\ \E p \in 0 .. n - 1, next \in 0 .. DEPTH :
                                            WitnessHolds(w, p, next, n)
            BY <2>2, <2>9
        <3>2. PICK p \in 0 .. n - 1, next \in 0 .. DEPTH : WitnessHolds(w, p, next, n)
            BY <3>1
        <3>3. p \in Nat /\ p \in 0 .. n
            BY <1>1
        <3>4. PICK v \in 0 .. DEPTH : WitnessHolds(WitnessAppend(w, leaf), p, v, n + 1)
            BY <1>1, <1>5, <2>5, <3>2, <3>3, WitnessStep
        <3>5. us = {WitnessAppend(w, leaf)}
            BY <3>1
        <3> HIDE DEF us
        <3> QED BY <1>1, <2>1, <2>5, <2>6, <2>7, <3>3, <3>4, <3>5
    <2> QED BY <2>8, <2>9
<1> QED BY <1>1, <1>4, <1>5

LEMMA HoldsFollow ==
    ASSUME NEW n, NEW t, NEW f, NEW ws, Holds(n, t, f, ws), t.left # {}
    PROVE  Holds(n, t, f, {Witness(t, <<>>, {})})
<1> DEFINE w == Witness(t, <<>>, {})
<1>1. n \in Nat /\ n # 0
    BY DEF Holds, EmptyTree
<1>2. n - 1 \in Nat /\ (n - 1) + 1 = n /\ n - 1 \in 0 .. n - 1
    BY <1>1
<1>3. Ancestor(n - 1, DEPTH) = 0 /\ TreeHolds(t, n - 1, DEPTH) /\ f = FrontierOf(n - 1)
    BY <1>1 DEF Holds
<1>4. PICK next \in 0 .. DEPTH : WitnessHolds(w, n - 1, next, (n - 1) + 1)
    BY <1>2, <1>3, FollowHolds
<1> HIDE DEF w
<1>5. \E u \in {w} : {w} = {u} /\ \E p \in 0 .. n - 1, next_ \in 0 .. DEPTH : WitnessHolds(u, p, next_, n)
    BY <1>2, <1>4
<1>6. Holds(n, t, f, {w})
    BY <1>1, <1>3, <1>5 DEF Holds
<1> QED BY <1>6 DEF w

(* What a save of what the wallet holds reads back as. *)
ReadsAs(d, n, t, f, ws) ==
    /\ d.count = n
    /\ ReadCommitmentTree(d.tree) = {t}
    /\ (IF d.version = 1 THEN ReadFrontierV1(d.frontier) ELSE ReadFrontierV0(d.tree)) = {f}
    /\ (IF d.witness = {} THEN {{}} ELSE {{w} : w \in ReadIncrementalWitness(The(d.witness))}) = {ws}

LEMMA HoldsSave ==
    ASSUME NEW n, NEW t, NEW f, NEW ws, Holds(n, t, f, ws), NEW version, NEW d,
           d = [count |-> n, tree |-> WriteCommitmentTree(t),
                frontier |-> IF version = 1 THEN WriteFrontierV1(f) ELSE {}, version |-> version,
                witness |-> {WriteIncrementalWitness(w) : w \in ws}]
    PROVE  ReadsAs(d, n, t, f, ws)
<1>d. DEPTH \in Nat /\ DEPTH \in 1 .. DEPTH
    BY DepthAssumption
<1>0. n \in Nat
    BY DEF Holds
<1>1. /\ d.count = n /\ d.tree = WriteCommitmentTree(t) /\ d.version = version
      /\ d.frontier = IF version = 1 THEN WriteFrontierV1(f) ELSE {}
      /\ d.witness = {WriteIncrementalWitness(w) : w \in ws}
    OBVIOUS
<1>2. ReadCommitmentTree(d.tree) = {t} /\ ReadFrontierV1(WriteFrontierV1(f)) = {f} /\ ToFrontier(t) = f
    <2>1. CASE n = 0
        <3>1. t = EmptyTree /\ f = {}
            BY <2>1 DEF Holds
        <3>2. ToFrontier(EmptyTree) = {}
            BY DEF ToFrontier, EmptyTree
        <3>3. ReadFrontierV1(WriteFrontierV1({})) = {{}}
            BY DEF ReadFrontierV1, WriteFrontierV1
        <3> QED BY <1>1, <3>1, <3>2, <3>3, EmptyTreeReadsBack
    <2>2. CASE n # 0
        <3>1. n - 1 \in Nat /\ Ancestor(n - 1, DEPTH) = 0 /\ TreeHolds(t, n - 1, DEPTH) /\ f = FrontierOf(n - 1)
            BY <1>0, <2>2 DEF Holds
        <3>2. ReadCommitmentTree(WriteCommitmentTree(t)) = {t}
            BY <1>d, <3>1, TreeReadsBack
        <3> QED BY <1>1, <3>1, <3>2, FrontierReadsBack, FrontierOfTree
    <2> QED BY <2>1, <2>2
<1>3. (IF d.version = 1 THEN ReadFrontierV1(d.frontier) ELSE ReadFrontierV0(d.tree)) = {f}
    <2>1. CASE version = 1
        BY <1>1, <1>2, <2>1
    <2>2. CASE version # 1
        <3>1. ReadFrontierV0(d.tree) = {f}
            BY <1>2 DEF ReadFrontierV0
        <3> QED BY <1>1, <2>2, <3>1
    <2> QED BY <2>1, <2>2
<1>4. (IF d.witness = {} THEN {{}} ELSE {{w} : w \in ReadIncrementalWitness(The(d.witness))}) = {ws}
    <2>1. CASE ws = {}
        BY <1>1, <2>1
    <2>2. CASE ws # {}
        <3>1. n # 0
            BY <2>2 DEF Holds
        <3>2. PICK w : ws = {w} /\ \E p \in 0 .. n - 1, next \in 0 .. DEPTH : WitnessHolds(w, p, next, n)
            BY <2>2, <3>1 DEF Holds
        <3>3. ReadIncrementalWitness(WriteIncrementalWitness(w)) = {w}
            BY <3>2, WitnessReadsBack
        <3>4. d.witness = {WriteIncrementalWitness(w)}
            BY <1>1, <3>2
        <3>5. d.witness # {} /\ The(d.witness) = WriteIncrementalWitness(w)
            BY <3>4, TheOnly
        <3>6. {{u} : u \in ReadIncrementalWitness(The(d.witness))} = {{w}}
            BY <3>3, <3>5
        <3> QED BY <3>2, <3>5, <3>6
    <2> QED BY <2>1, <2>2
<1> QED BY <1>1, <1>2, <1>3, <1>4 DEF ReadsAs

(* What the properties say of what the wallet holds. *)
LEMMA HoldsRoot ==
    ASSUME NEW n, NEW t, NEW f, NEW ws, Holds(n, t, f, ws)
    PROVE  RootAtDepth(t, DEPTH) = ChainRoot(n) /\ f = ToFrontier(t)
<1>d. DEPTH \in Nat /\ DEPTH \in 1 .. DEPTH
    BY DepthAssumption
<1>0. n \in Nat
    BY DEF Holds
<1>1. CASE n = 0
    <2>1. t = EmptyTree /\ f = {}
        BY <1>1 DEF Holds
    <2>2. ToFrontier(EmptyTree) = {}
        BY DEF ToFrontier, EmptyTree
    <2> QED BY <1>1, <2>1, <2>2, EmptyTreeRoot
<1>2. CASE n # 0
    <2>1. n - 1 \in Nat /\ (n - 1) + 1 = n /\ Ancestor(n - 1, DEPTH) = 0 /\ TreeHolds(t, n - 1, DEPTH)
          /\ f = FrontierOf(n - 1)
        BY <1>0, <1>2 DEF Holds
    <2>2. RootAtDepth(t, DEPTH) = Node((n - 1) + 1, DEPTH, Ancestor(n - 1, DEPTH))
        BY <1>d, <2>1, RootOf
    <2>3. RootAtDepth(t, DEPTH) = ChainRoot(n)
        BY <2>1, <2>2 DEF Node, ChainRoot
    <2> QED BY <2>1, <2>3, FrontierOfTree
<1> QED BY <1>1, <1>2

(* Init establishes CheckpointInv and every step keeps it. *)
LEMMA CheckpointInit == Init => CheckpointInv
<1> SUFFICES ASSUME Init PROVE CheckpointInv
    OBVIOUS
<1>1. Holds(count, tree, frontier, witness)
    BY HoldsAtFirst DEF Init
<1>2. ReadsAs(disk, count, tree, frontier, witness)
    <2>1. disk = [count |-> count, tree |-> WriteCommitmentTree(tree),
                  frontier |-> IF 0 = 1 THEN WriteFrontierV1(frontier) ELSE {}, version |-> 0,
                  witness |-> {WriteIncrementalWitness(w) : w \in witness}]
        BY DEF Init, Saved
    <2> QED BY <1>1, <2>1, HoldsSave
<1>3. ReadCommitmentTree(disk.tree) = {tree} /\ ReadFrontier = {frontier} /\ ReadWitness = {witness}
      /\ disk.count = count
    BY <1>2 DEF ReadsAs, ReadFrontier, ReadWitness
<1>4. Reads
    BY <1>3 DEF Reads
<1>5. DiskHolds
    <2>1. The(ReadCommitmentTree(disk.tree)) = tree /\ The(ReadFrontier) = frontier
          /\ The(ReadWitness) = witness
        BY <1>3, TheOnly
    <2> QED BY <1>1, <1>3, <1>4, <2>1 DEF DiskHolds
<1> QED BY <1>1, <1>5 DEF CheckpointInv, Init

LEMMA CheckpointStep == CheckpointInv /\ [Next]_vars => CheckpointInv'
<1> SUFFICES ASSUME CheckpointInv, [Next]_vars PROVE CheckpointInv'
    OBVIOUS
<1>i. status \in {"running", "down"} /\ DiskHolds
      /\ (status = "running" => Holds(count, tree, frontier, witness))
    BY DEF CheckpointInv
<1>1. disk' = disk => DiskHolds'
    BY <1>i DEF DiskHolds, Reads, ReadFrontier, ReadWitness
<1>2. CASE AppendCommitment
    <2>1. status = "running" /\ status' = "running" /\ disk' = disk
        BY <1>2 DEF AppendCommitment
    <2>2. /\ ~IsComplete(tree, DEPTH) /\ count' = count + 1
          /\ tree' = TreeAppend(tree, <<count + 1>>)
          /\ frontier' = FrontierAppend(frontier, <<count + 1>>)
          /\ witness' = {WitnessAppend(w, <<count + 1>>) : w \in witness}
        BY <1>2 DEF AppendCommitment
    <2>3. Holds(count + 1, TreeAppend(tree, <<count + 1>>), FrontierAppend(frontier, <<count + 1>>),
                {WitnessAppend(w, <<count + 1>>) : w \in witness})
        BY <1>i, <2>1, <2>2, HoldsAppend
    <2>4. Holds(count', tree', frontier', witness')
        BY <2>2, <2>3
    <2> QED BY <1>1, <2>1, <2>4 DEF CheckpointInv
<1>3. CASE FollowNote
    <2>1. status = "running" /\ status' = "running" /\ disk' = disk /\ tree.left # {}
          /\ count' = count /\ tree' = tree /\ frontier' = frontier /\ witness' = {Witness(tree, <<>>, {})}
        BY <1>3 DEF FollowNote
    <2>2. Holds(count', tree', frontier', witness')
        BY <1>i, <2>1, HoldsFollow
    <2> QED BY <1>1, <2>1, <2>2 DEF CheckpointInv
<1>4. ASSUME NEW version \in {0, 1}, Save(version) PROVE CheckpointInv'
    <2>1. /\ status = "running" /\ status' = "running" /\ disk' = Saved(version)
          /\ count' = count /\ tree' = tree /\ frontier' = frontier /\ witness' = witness
        BY <1>4 DEF Save
    <2>2. Holds(count, tree, frontier, witness)
        BY <1>i, <2>1
    <2>3. disk' = [count |-> count, tree |-> WriteCommitmentTree(tree),
                   frontier |-> IF version = 1 THEN WriteFrontierV1(frontier) ELSE {}, version |-> version,
                   witness |-> {WriteIncrementalWitness(w) : w \in witness}]
        BY <2>1 DEF Saved
    <2>4. ReadsAs(disk', count, tree, frontier, witness)
        BY <2>2, <2>3, HoldsSave
    <2>5. ReadCommitmentTree(disk'.tree) = {tree} /\ ReadFrontier' = {frontier} /\ ReadWitness' = {witness}
          /\ disk'.count = count
        BY <2>4 DEF ReadsAs, ReadFrontier, ReadWitness
    <2>6. Reads'
        BY <2>5 DEF Reads
    <2>7. DiskHolds'
        <3>1. The(ReadCommitmentTree(disk'.tree)) = tree /\ The(ReadFrontier') = frontier
              /\ The(ReadWitness') = witness
            BY <2>5, TheOnly
        <3> QED BY <2>2, <2>5, <2>6, <3>1 DEF DiskHolds
    <2> QED BY <2>1, <2>2, <2>7 DEF CheckpointInv
<1>5. CASE Crash
    BY <1>1, <1>5 DEF Crash, CheckpointInv
<1>6. CASE Restart
    <2>1. Reads /\ Holds(disk.count, The(ReadCommitmentTree(disk.tree)), The(ReadFrontier), The(ReadWitness))
        BY <1>i DEF DiskHolds
    <2>2. /\ status' = "running" /\ disk' = disk /\ count' = disk.count
          /\ tree' = The(ReadCommitmentTree(disk.tree)) /\ frontier' = The(ReadFrontier)
          /\ witness' = The(ReadWitness)
        BY <1>6, <2>1 DEF Restart
    <2>3. Holds(count', tree', frontier', witness')
        BY <2>1, <2>2
    <2> QED BY <1>1, <2>2, <2>3 DEF CheckpointInv
<1>7. CASE UNCHANGED vars
    BY <1>1, <1>i, <1>7 DEF vars, CheckpointInv
<1> QED BY <1>2, <1>3, <1>4, <1>5, <1>6, <1>7 DEF Next

(* What the wallet holds, and what it would read of its last save, is the   *)
(* tree, the frontier and the witness of the commitments it counts: the     *)
(* reference, in terms of the complete nodes of the chain alone.            *)
THEOREM CheckpointInvariant == Spec => []CheckpointInv
<1>1. Init => CheckpointInv
    BY CheckpointInit
<1>2. CheckpointInv /\ [Next]_vars => CheckpointInv'
    BY CheckpointStep
<1> QED BY <1>1, <1>2, PTL DEF Spec

(* For every depth of the tree and every number of crashes: every save of   *)
(* write_commitment_tree and of either frontier format reads back, and the  *)
(* wallet that appends on has the root of the chain.                        *)
THEOREM WalletResumes == Spec => []CheckpointsResume
<1>1. CheckpointInv => CheckpointsResume
    <2> SUFFICES ASSUME CheckpointInv PROVE CheckpointsResume
        OBVIOUS
    <2>1. status # "failed"
        BY DEF CheckpointInv
    <2>2. ASSUME status = "running"
          PROVE  RootAtDepth(tree, DEPTH) = ChainRoot(count) /\ frontier = ToFrontier(tree)
        <3>1. Holds(count, tree, frontier, witness)
            BY <2>2 DEF CheckpointInv
        <3> QED BY <3>1, HoldsRoot
    <2> QED BY <2>1, <2>2 DEF CheckpointsResume
<1> QED BY <1>1, CheckpointInvariant, PTL

(* The same for the note that the wallet follows: the path that its witness *)
(* gives, read by merkle_path_from_slice, leads to the root of the chain,   *)
(* whatever was saved, lost and read again since.                           *)
THEOREM NoteKeepsItsPath == Spec => []FollowedNoteHasPath
<1>1. CheckpointInv => FollowedNoteHasPath
    <2> SUFFICES ASSUME CheckpointInv, status = "running", NEW w \in witness
                 PROVE  LET note == The(IF w.tree.right = {} THEN w.tree.left ELSE w.tree.right)
                        IN  {PathRoot(path, note) : path \in MerklePathFromSlice(PathSlice(AuthPath(w)))}
                              = {ChainRoot(count)}
        BY DEF FollowedNoteHasPath
    <2>1. Holds(count, tree, frontier, witness)
        BY DEF CheckpointInv
    <2>2. count \in Nat /\ count # 0
        BY <2>1 DEF Holds
    <2>3. PICK p \in 0 .. count - 1, next \in 0 .. DEPTH : WitnessHolds(w, p, next, count)
        BY <2>1, <2>2 DEF Holds
    <2> QED BY <2>2, <2>3, PathLeadsToRoot
<1> QED BY <1>1, CheckpointInvariant, PTL
=============================================================================
