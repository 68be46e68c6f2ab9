---------------------------- MODULE NullifierTree ----------------------------
(***************************************************************************)
(* script/tools/nullifier_tree.py: the Merkle tree over the nullifiers the  *)
(* pool recorded in a window of time, read from a node while its chain      *)
(* grows.  The window's first and last block are found by binary search,    *)
(* the logs are read page by page, the spends of one asset are picked out   *)
(* by decoding their transactions, and the tree is built as the pool builds *)
(* its note tree, which IncrementalTree models.                            *)
(*                                                                         *)
(* Block b is chain[b + 1].  A transaction is whether it calls settleBatch  *)
(* directly, and the asset of each of its intents; an intent spends two     *)
(* notes, and a nullifier is named by where it was recorded.  closed is a   *)
(* history variable: the window was over when the tool read the first head. *)
(***************************************************************************)
EXTENDS IncrementalTree, FiniteSetsExt

CONSTANTS
    fromTime, toTime, fromBlock, asset,     \* the arguments
    PAGE,
    Contents,           \* what a block may hold: sequences of transactions
    MaxGap, MaxBlocks   \* bounds: seconds between two blocks, blocks of the chain

ASSUME ToolAssumption ==
    /\ fromTime \in Nat /\ toTime \in Nat /\ fromTime < toTime
    /\ fromBlock \in Nat /\ PAGE \in Nat \ {0}
    /\ MaxGap \in Nat \ {0} /\ MaxBlocks \in Nat
    /\ \A txs \in Contents : IsFiniteSet(DOMAIN txs)

VARIABLES
    chain,              \* the node's chain: [time, txs]
    tool,               \* [pc, goal, lo, hi, start, stop, page]
    evs,                \* the logs read so far
    found,              \* the leaves of the tree
    closed

toolVars == <<chain, tool, evs, found, closed>>

-----------------------------------------------------------------------------
(* The tree: levels of digests over the leaves, padded with empty subtrees, *)
(* and the siblings on the way up from each leaf.                          *)

\* level[d] holds only the nodes with a leaf below them, and the leftmost one.
nodeAt(level, d, i) == IF i \in DOMAIN level THEN level[i] ELSE zeros[d]

levelsOver(L) ==
    LET level[d \in 0 .. TREE_DEPTH] ==
            IF d = 0 THEN [i \in 0 .. Len(L) - 1 |-> L[i + 1]]
            ELSE LET below == level[d - 1]
                     pairs == (Max({1, Cardinality(DOMAIN below)}) + 1) \div 2
                 IN [i \in 0 .. pairs - 1 |->
                       IF DOMAIN below = {} THEN zeros[d]
                       ELSE hash2(nodeAt(below, d - 1, 2 * i), nodeAt(below, d - 1, 2 * i + 1))]
    IN level

toolRoot(L) == IF L = <<>> THEN zeros[TREE_DEPTH] ELSE levelsOver(L)[TREE_DEPTH][0]

sibling_next(pos) == pos + 1
sibling(pos) == IF pos % 2 = 0 THEN pos + 1 ELSE pos - 1

path(L, k) ==
    [d \in Level |-> nodeAt(levelsOver(L)[d], d, sibling(above(k)[d]))]

-----------------------------------------------------------------------------
(* What the chain answers.                                                 *)

head == Len(chain) - 1
timeOf(b) == chain[b + 1].time

\* The NullifierSpent logs of a block, numbered through its transactions.
spendsOf(b) ==
    {[block |-> b, tx |-> t, intent |-> i, note |-> n] :
        t \in DOMAIN chain[b + 1].txs, i \in 1 .. 2, n \in 0 .. 1}
logsOf(b) == {l \in spendsOf(b) : l.intent \in DOMAIN chain[b + 1].txs[l.tx].assets}
txOf(l) == chain[l.block + 1].txs[l.tx]

logIndex(l) == <<l.tx, l.intent, l.note>>
precedes(x, y) ==
    \E k \in 1 .. 3 : x[k] < y[k] /\ \A m \in 1 .. k - 1 : x[m] = y[m]
earlier(l, m) == l.block < m.block \/ (l.block = m.block /\ precedes(logIndex(l), logIndex(m)))
sorted(logs) ==
    [k \in 1 .. Cardinality(logs) |->
        CHOOSE l \in logs : Cardinality({m \in logs : earlier(m, l)}) = k - 1]

-----------------------------------------------------------------------------
(* The tool, one call to the node per step.                                *)

ToolInit ==
    /\ chain = <<[time |-> 1, txs |-> <<>>]>>
    /\ tool = [pc |-> "head", goal |-> fromTime, lo |-> 0, hi |-> 0,
               start |-> 0, stop |-> 0, page |-> 0]
    /\ evs = {} /\ found = <<>> /\ closed = FALSE

\* block_at: the search for the first block at or after a time, bounded by the head
\* as it was when the search began.
readHead ==
    /\ tool.pc = "head"
    /\ tool' = [tool EXCEPT !.pc = "search", !.lo = 0, !.hi = head]
    /\ closed' = (closed \/ (tool.goal = fromTime /\ timeOf(head) >= toTime))
    /\ UNCHANGED <<chain, evs, found>>

tooEarly_orEqual(b, t) == timeOf(b) <= t
tooEarly(b, t) == timeOf(b) < t

probe ==
    LET mid == (tool.lo + tool.hi) \div 2
    IN /\ tool.pc = "search" /\ tool.lo < tool.hi
       /\ tool' = IF tooEarly(mid, tool.goal) THEN [tool EXCEPT !.lo = mid + 1]
                  ELSE [tool EXCEPT !.hi = mid]
       /\ UNCHANGED <<chain, evs, found, closed>>

searched ==
    /\ tool.pc = "search" /\ tool.lo = tool.hi
    /\ tool' = IF tool.goal = fromTime
               THEN [tool EXCEPT !.pc = "head", !.goal = toTime, !.start = Max({tool.lo, fromBlock})]
               ELSE [tool EXCEPT !.pc = "logs", !.stop = tool.lo - 1, !.page = tool.start]
    /\ UNCHANGED <<chain, evs, found, closed>>

readPage ==
    LET last == Min({tool.page + PAGE - 1, tool.stop})
    IN /\ tool.pc = "logs" /\ tool.page <= tool.stop
       /\ evs' = evs \cup UNION {logsOf(b) : b \in tool.page .. last}
       /\ tool' = [tool EXCEPT !.page = last + 1]
       /\ UNCHANGED <<chain, found, closed>>

\* assets_of and main's filter: a spend in a transaction that is no direct
\* settleBatch call cannot be attributed, and ends the run.
attributed(l) == txOf(l).direct
ofAsset(l) == txOf(l).assets[l.intent] = asset
kept == sorted({l \in evs : ofAsset(l)})

build ==
    /\ tool.pc = "logs" /\ tool.page > tool.stop
    /\ IF (\A l \in evs : attributed(l)) /\ Len(kept) <= shifted[TREE_DEPTH]
       THEN found' = kept /\ tool' = [tool EXCEPT !.pc = "done"]
       ELSE found' = <<>> /\ tool' = [tool EXCEPT !.pc = "refused"]
    /\ UNCHANGED <<chain, evs, closed>>

\* The chain grows between any two calls; the pool is not there before fromBlock.
mine ==
    /\ Len(chain) <= MaxBlocks
    /\ \E gap \in 1 .. MaxGap, txs \in Contents :
         /\ txs # <<>> => Len(chain) >= fromBlock
         /\ chain' = Append(chain, [time |-> timeOf(head) + gap, txs |-> txs])
    /\ UNCHANGED <<tool, evs, found, closed>>

ToolNext == readHead \/ probe \/ searched \/ readPage \/ build \/ mine

ToolSpec == ToolInit /\ [][ToolNext]_toolVars

-----------------------------------------------------------------------------
(* Properties.                                                             *)

\* nullifier_tree.py:3, "built exactly as the pool builds its note tree": over the
\* leaves of the pool's own tree the tool has the root the pool would commit, and
\* the siblings it writes for each leaf lead from that leaf to that root.
climb(leaf, k, siblings) ==
    LET node[t \in 0 .. TREE_DEPTH] ==
            IF t = 0 THEN leaf
            ELSE IF bit(k, t - 1) = 0 THEN hash2(node[t - 1], siblings[t - 1])
            ELSE hash2(siblings[t - 1], node[t - 1])
    IN node[TREE_DEPTH]
BuiltAsThePool ==
    LET root == toolRoot(leaves)
    IN /\ root = foldFrontier(nextLeafIndex)
       /\ \A k \in DOMAIN leaves : climb(leaves[k], k - 1, path(leaves, k - 1)) = root

\* A tool started after the window closed has exactly the window's spends of the
\* asset in chain order, however the chain grows between its calls, and gives up
\* only when a spend of the window cannot be attributed or the tree is too small.
windowSpends ==
    UNION {logsOf(b) : b \in {x \in 0 .. head : timeOf(x) \in fromTime .. toTime - 1}}
TreeHoldsTheWindow ==
    closed =>
        /\ tool.pc = "done" =>
              found = sorted({l \in windowSpends : ofAsset(l)})
        /\ tool.pc = "refused" =>
              \/ \E l \in windowSpends : ~txOf(l).direct
              \/ Cardinality({l \in windowSpends : ofAsset(l)}) > shifted[TREE_DEPTH]
=============================================================================
