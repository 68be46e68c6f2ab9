--------------------------- MODULE IncrementalTree ---------------------------
(***************************************************************************)
(* contracts/shield/GoldilocksIncrementalTree.sol: the append-only tree of  *)
(* note commitments with its frontier, the deferred inserts of absorb and   *)
(* settleBatch, the root that commitRoot publishes, and the ring of the     *)
(* last ROOT_WINDOW roots a spend may use.                                  *)
(*                                                                         *)
(* The hash is a free constructor: two digests are equal only if their      *)
(* preimages are, which is what the contract assumes of Poseidon.  leaves   *)
(* and published are history variables: every leaf in order, and the root   *)
(* of every publication.                                                   *)
(***************************************************************************)
EXTENDS Integers, Sequences, FiniteSets

CONSTANTS
    Leaf,               \* commitments, never the zero word
    Zero,               \* bytes32(0): the empty leaf, and an empty ring slot
    TREE_DEPTH, ROOT_WINDOW,
    MAX_BATCH           \* bound: leaves of one batch

ASSUME TreeAssumption ==
    /\ Zero \notin Leaf
    /\ TREE_DEPTH \in Nat \ {0} /\ ROOT_WINDOW \in Nat \ {0} /\ MAX_BATCH \in Nat \ {0}

VARIABLES
    frontier, nextLeafIndex, currentRoot,
    rootRing, rootRingIndex, knownRoot,
    leaves, published

treeVars == <<frontier, nextLeafIndex, currentRoot, rootRing, rootRingIndex, knownRoot,
              leaves, published>>

Level == 0 .. TREE_DEPTH - 1

\* 1 << t
shifted == LET power[t \in 0 .. TREE_DEPTH] == IF t = 0 THEN 1 ELSE 2 * power[t - 1]
           IN power

MAX_LEAVES == shifted[TREE_DEPTH] - 1

hash2(l, r) == <<l, r>>

zeros == LET z[t \in 0 .. TREE_DEPTH] == IF t = 0 THEN Zero ELSE hash2(z[t - 1], z[t - 1])
         IN z

\* The index halved level by level; at level t it is that of the node above the leaf.
above(n) == LET path[t \in 0 .. TREE_DEPTH] == IF t = 0 THEN n ELSE path[t - 1] \div 2
            IN path

bit(n, t) == above(n)[t] % 2

-----------------------------------------------------------------------------
(* Roots and the ring.                                                     *)

evict(known, ring, slot) == known \ {ring[slot]}

pushRoot(root) ==
    LET slot == (rootRingIndex + 1) % ROOT_WINDOW
    IN /\ currentRoot' = root
       /\ rootRingIndex' = slot
       /\ rootRing' = [rootRing EXCEPT ![slot] = root]
       /\ knownRoot' = evict(knownRoot, rootRing, slot) \cup {root}
       /\ published' = Append(published, root)

\* The constructor starts the cursor one before slot 0 and publishes the empty root.
TreeInit ==
    /\ frontier = [t \in Level |-> zeros[t]]
    /\ nextLeafIndex = 0
    /\ currentRoot = zeros[TREE_DEPTH]
    /\ rootRing = [s \in 0 .. ROOT_WINDOW - 1 |-> IF s = 0 THEN zeros[TREE_DEPTH] ELSE Zero]
    /\ rootRingIndex = 0
    /\ knownRoot = {zeros[TREE_DEPTH]}
    /\ leaves = <<>>
    /\ published = <<zeros[TREE_DEPTH]>>

isKnownRoot(root) == root # Zero /\ root \in knownRoot

-----------------------------------------------------------------------------
(* Inserts.                                                                *)

\* Where the carry of an insert at index ends: the lowest clear bit.  hasRoom keeps
\* it within the frontier, where the last leaf of 2^TREE_DEPTH would not end.
carryEnd(index) ==
    CHOOSE t \in 0 .. TREE_DEPTH : bit(index, t) = 0 /\ \A u \in 0 .. t - 1 : bit(index, u) = 1

\* The frontier after a leaf at index: the complete subtrees it closes, hashed up
\* to the level where the carry ends.
carried(f, index, leaf) ==
    LET node[t \in 0 .. TREE_DEPTH] == IF t = 0 THEN leaf ELSE hash2(f[t - 1], node[t - 1])
    IN [f EXCEPT ![carryEnd(index)] = node[carryEnd(index)]]

\* The same for a batch from index first.
carriedAll_sameIndex(f, first, batch) ==
    LET after[k \in 0 .. Len(batch)] ==
            IF k = 0 THEN f ELSE carried(after[k - 1], first, batch[k])
    IN after[Len(batch)]
carriedAll(f, first, batch) ==
    LET after[k \in 0 .. Len(batch)] ==
            IF k = 0 THEN f ELSE carried(after[k - 1], first + k - 1, batch[k])
    IN after[Len(batch)]

\* A walk of the full depth from a leaf at index.
walk_oneShort(f, index, leaf) ==
    LET node[t \in 0 .. TREE_DEPTH] ==
            IF t = 0 THEN leaf
            ELSE IF t = TREE_DEPTH THEN node[t - 1]
            ELSE IF bit(index, t - 1) = 0 THEN hash2(node[t - 1], zeros[t - 1])
            ELSE hash2(f[t - 1], node[t - 1])
    IN node
walk(f, index, leaf) ==
    LET node[t \in 0 .. TREE_DEPTH] ==
            IF t = 0 THEN leaf
            ELSE IF bit(index, t - 1) = 0 THEN hash2(node[t - 1], zeros[t - 1])
            ELSE hash2(f[t - 1], node[t - 1])
    IN node

\* The eager walk leaves a node at every level whose index bit is clear.
walked(f, index, leaf) ==
    [t \in Level |-> IF bit(index, t) = 0 THEN walk(f, index, leaf)[t] ELSE f[t]]

hasRoom(k) == nextLeafIndex + k <= MAX_LEAVES

\* absorb
insertLeafDeferred(leaf) ==
    /\ hasRoom(1)
    /\ frontier' = carried(frontier, nextLeafIndex, leaf)
    /\ nextLeafIndex' = nextLeafIndex + 1
    /\ leaves' = Append(leaves, leaf)
    /\ UNCHANGED <<currentRoot, rootRing, rootRingIndex, knownRoot, published>>

\* settleBatch
insertLeavesDeferred(batch) ==
    /\ batch # <<>>
    /\ hasRoom(Len(batch))
    /\ frontier' = carriedAll(frontier, nextLeafIndex, batch)
    /\ nextLeafIndex' = nextLeafIndex + Len(batch)
    /\ leaves' = leaves \o batch
    /\ UNCHANGED <<currentRoot, rootRing, rootRingIndex, knownRoot, published>>

\* The eager inserts publish a root at once; the pool uses neither.
insertLeaf(leaf) ==
    /\ hasRoom(1)
    /\ frontier' = walked(frontier, nextLeafIndex, leaf)
    /\ nextLeafIndex' = nextLeafIndex + 1
    /\ leaves' = Append(leaves, leaf)
    /\ pushRoot(walk(frontier, nextLeafIndex, leaf)[TREE_DEPTH])

insertLeaves(batch) ==
    LET last == nextLeafIndex + Len(batch) - 1
        before == carriedAll(frontier, nextLeafIndex, SubSeq(batch, 1, Len(batch) - 1))
    IN /\ batch # <<>>
       /\ hasRoom(Len(batch))
       /\ frontier' = walked(before, last, batch[Len(batch)])
       /\ nextLeafIndex' = last + 1
       /\ leaves' = leaves \o batch
       /\ pushRoot(walk(before, last, batch[Len(batch)])[TREE_DEPTH])

\* The root of the leaves inserted so far: where the count has a bit the frontier
\* is the left sibling, elsewhere an empty subtree is the right one.
foldFrontier(count) ==
    LET node[t \in 0 .. TREE_DEPTH] ==
            IF t = 0 THEN zeros[0]
            ELSE IF bit(count, t - 1) = 1 THEN hash2(frontier[t - 1], node[t - 1])
            ELSE hash2(node[t - 1], zeros[t - 1])
    IN node[TREE_DEPTH]

\* A commit that does not move the root uses no slot of the ring.
moved_always(root) == TRUE
moved(root) == root # currentRoot

commitRoot ==
    /\ nextLeafIndex # 0
    /\ LET root == foldFrontier(nextLeafIndex)
       IN IF moved(root)
          THEN pushRoot(root) /\ UNCHANGED <<frontier, nextLeafIndex, leaves>>
          ELSE UNCHANGED treeVars

Batches == UNION {[1 .. k -> Leaf] : k \in 1 .. MAX_BATCH}

TreeNext ==
    \/ \E leaf \in Leaf : insertLeafDeferred(leaf) \/ insertLeaf(leaf)
    \/ \E batch \in Batches : insertLeavesDeferred(batch) \/ insertLeaves(batch)
    \/ commitRoot

TreeSpec == TreeInit /\ [][TreeNext]_treeVars

-----------------------------------------------------------------------------
(* Properties.                                                             *)

\* The digests of the tree over a sequence of leaves, level by level: docs/09.
nodesOf(L) ==
    LET node[t \in 0 .. TREE_DEPTH] ==
            [j \in 0 .. shifted[TREE_DEPTH - t] - 1 |->
                IF t = 0 THEN (IF j < Len(L) THEN L[j + 1] ELSE Zero)
                ELSE hash2(node[t - 1][2 * j], node[t - 1][2 * j + 1])]
    IN node
rootOf(L) == nodesOf(L)[TREE_DEPTH][0]

\* docs/09, "Invariant": wherever the count has a bit set, the frontier holds the
\* root of the complete subtree that the leaves below that bit fill, whatever
\* mixture of single, batch, eager and deferred inserts put them there; and the count
\* is the leaves', never so large that a carry would write past the frontier.
FrontierIsComplete ==
    /\ nextLeafIndex = Len(leaves) /\ nextLeafIndex <= MAX_LEAVES
    /\ \A t \in Level : bit(nextLeafIndex, t) = 1 =>
          frontier[t] = nodesOf(leaves)[t][above(nextLeafIndex)[t] - 1]

\* Every root ever published is the Merkle root of the leaves of its moment.
PublishedRootIsTree ==
    [][published' # published => currentRoot' = rootOf(leaves')]_treeVars

\* The known roots are the last ROOT_WINDOW roots the tree had, all different,
\* neither fewer, so that a spend proved against one of them lands, nor more:
\* nobody can age a root out by committing again and again.
KnownRootsAreTheLast ==
    /\ \A i \in DOMAIN published :
          isKnownRoot(published[i]) <=> i > Len(published) - ROOT_WINDOW
    /\ Cardinality(knownRoot) =
          IF Len(published) < ROOT_WINDOW THEN Len(published) ELSE ROOT_WINDOW
=============================================================================
