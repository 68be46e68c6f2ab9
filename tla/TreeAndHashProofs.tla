-------------------------- MODULE TreeAndHashProofs -------------------------
(***************************************************************************)
(* Proofs about the note tree, for any depth, window, leaves and hash, about *)
(* the tool that builds a tree like it, and about the arithmetic of the     *)
(* hash as its generator computes it: for every prime field, matrix, round  *)
(* constants and widths that meet the bound the generator asserts.          *)
(***************************************************************************)
EXTENDS NullifierTree, Recursion, SequenceTheorems, Poseidon

D == TREE_DEPTH

-----------------------------------------------------------------------------
(* Recursion level by level.  Digests have no set of their own to recur in, *)
(* so the steps of every recursion of the tree are the cases of one         *)
(* operator, and one induction shows that all of them have a function.      *)

pairsOver(below, d) ==
    LET pairs == (Max({1, Cardinality(DOMAIN below)}) + 1) \div 2
    IN [i \in 0 .. pairs - 1 |->
          IF DOMAIN below = {} THEN zeros[d]
          ELSE hash2(nodeAt(below, d - 1, 2 * i), nodeAt(below, d - 1, 2 * i + 1))]

next(kind, data, t, v) ==
    CASE kind = "half" -> v \div 2
      [] kind = "double" -> 2 * v
      [] kind = "zeros" -> hash2(v, v)
      [] kind = "walk" -> IF data.side[t - 1] = 1 THEN hash2(data.at[t - 1], v) ELSE hash2(v, data.at[t - 1])
      [] kind = "nodes" -> [j \in 0 .. shifted[D - t] - 1 |-> hash2(v[2 * j], v[2 * j + 1])]
      [] kind = "levels" -> pairsOver(v, t)
      [] kind = "batch" -> carried(v, data.first + t - 1, data.batch[t])

runs(g, n, kind, data, base) ==
    g = [t \in 0 .. n |-> IF t = 0 THEN base ELSE next(kind, data, t, g[t - 1])]

LEMMA RunsExist ==
    ASSUME NEW n \in Nat, NEW kind, NEW data, NEW base
    PROVE  \E g : runs(g, n, kind, data, base)
  <1> DEFINE has(m) == \E g : runs(g, m, kind, data, base)
             S == {m \in 0 .. n : has(m)}
  <1>1. 0 \in S
    <2> DEFINE g == [t \in 0 .. 0 |-> base]
    <2>1. runs(g, 0, kind, data, base)
      BY DEF runs
    <2> QED
      BY <2>1
  <1>2. ASSUME NEW m \in 0 .. n - 1, m \in S
        PROVE  m + 1 \in S
    <2>1. PICK g : runs(g, m, kind, data, base)
      BY <1>2
    <2> DEFINE h == [t \in 0 .. m + 1 |-> IF t = m + 1 THEN next(kind, data, t, g[m]) ELSE g[t]]
    <2>2. \A t \in 0 .. m : g[t] = IF t = 0 THEN base ELSE next(kind, data, t, g[t - 1])
      BY <2>1 DEF runs
    <2>3. ASSUME NEW t \in 0 .. m + 1
          PROVE  h[t] = IF t = 0 THEN base ELSE next(kind, data, t, h[t - 1])
      <3>1. CASE t = m + 1
        BY <3>1
      <3>2. CASE t # m + 1
        <4>1. t \in 0 .. m /\ (t # 0 => t - 1 \in 0 .. m)
          BY <3>2
        <4>2. h[t] = g[t] /\ (t # 0 => h[t - 1] = g[t - 1])
          BY <3>2, <4>1
        <4> QED
          BY <2>2, <4>1, <4>2
      <3> QED
        BY <3>1, <3>2
    <2>4. runs(h, m + 1, kind, data, base)
      <3> DEFINE k == [t \in 0 .. m + 1 |-> IF t = 0 THEN base ELSE next(kind, data, t, h[t - 1])]
      <3>1. h = k
        BY <2>3
      <3> QED
        BY <3>1 DEF runs
    <2>5. m + 1 \in 0 .. n
      OBVIOUS
    <2> HIDE DEF h
    <2> QED
      BY <2>4, <2>5
  <1>3. 0 .. n \subseteq S
    <2> HIDE DEF S
    <2> QED
      BY <1>1, <1>2, UpToInduction
  <1>4. n \in 0 .. n
    OBVIOUS
  <1> QED
    BY <1>3, <1>4

-----------------------------------------------------------------------------
(* Positions.                                                              *)

LEMMA DepthIsNat ==
    /\ D \in Nat \ {0} /\ 0 \in 0 .. D /\ D \in 0 .. D /\ Level = 0 .. D - 1
    /\ \A t \in 1 .. D : t - 1 \in Level /\ t - 1 \in 0 .. D /\ t \in 0 .. D /\ D - t \in 0 .. D
                         /\ D - (t - 1) \in 1 .. D /\ (D - (t - 1)) - 1 = D - t
    /\ \A t \in Level : t + 1 \in 1 .. D /\ t \in 0 .. D /\ (t + 1) - 1 = t
    /\ \A t \in 0 .. D : D - t \in 0 .. D
  BY TreeAssumption DEF D, Level

LEMMA AboveStepByStep ==
    ASSUME NEW n \in Nat
    PROVE  /\ above(n)[0] = n
           /\ \A t \in 1 .. D : above(n)[t] = above(n)[t - 1] \div 2
           /\ \A t \in 0 .. D : above(n)[t] \in Nat
  <1> DEFINE rec(f) == [t \in 0 .. D |-> IF t = 0 THEN n ELSE f[t - 1] \div 2]
             a == above(n)
  <1>1. PICK g : runs(g, D, "half", n, n)
    BY RunsExist, DepthIsNat
  <1>2. g = rec(g)
    BY <1>1 DEF runs, next
  <1>3. a = CHOOSE f : f = rec(f)
    BY DEF above, D
  <1> HIDE DEF a
  <1>4. a = rec(a)
    <2> HIDE DEF rec
    <2> QED
      BY <1>2, <1>3
  <1>5. a[0] = n /\ \A t \in 1 .. D : a[t] = a[t - 1] \div 2
    <2>1. \A t \in 0 .. D : a[t] = rec(a)[t]
      BY <1>4
    <2> QED
      BY <2>1, DepthIsNat
  <1>6. 0 .. D \subseteq {t \in 0 .. D : a[t] \in Nat}
    <2> DEFINE S == {t \in 0 .. D : a[t] \in Nat}
    <2>1. 0 \in S
      BY <1>5, DepthIsNat
    <2>2. ASSUME NEW t \in 0 .. D - 1, t \in S
          PROVE  t + 1 \in S
      BY <1>5, <2>2, DepthIsNat
    <2> HIDE DEF S
    <2> QED
      BY <2>1, <2>2, UpToInduction, DepthIsNat DEF S
  <1> QED
    BY <1>5, <1>6 DEF a

LEMMA ShiftedStepByStep ==
    /\ shifted[0] = 1
    /\ \A t \in 1 .. D : shifted[t] = 2 * shifted[t - 1]
    /\ \A t \in 0 .. D : shifted[t] \in Nat \ {0}
  <1> DEFINE rec(f) == [t \in 0 .. D |-> IF t = 0 THEN 1 ELSE 2 * f[t - 1]]
             a == shifted
  <1>1. PICK g : runs(g, D, "double", 1, 1)
    BY RunsExist, DepthIsNat
  <1>2. g = rec(g)
    BY <1>1 DEF runs, next
  <1>3. a = CHOOSE f : f = rec(f)
    BY DEF shifted, D
  <1> HIDE DEF a
  <1>4. a = rec(a)
    <2> HIDE DEF rec
    <2> QED
      BY <1>2, <1>3
  <1>5. a[0] = 1 /\ \A t \in 1 .. D : a[t] = 2 * a[t - 1]
    <2>1. \A t \in 0 .. D : a[t] = rec(a)[t]
      BY <1>4
    <2> QED
      BY <2>1, DepthIsNat
  <1>6. 0 .. D \subseteq {t \in 0 .. D : a[t] \in Nat \ {0}}
    <2> DEFINE S == {t \in 0 .. D : a[t] \in Nat \ {0}}
    <2>1. 0 \in S
      BY <1>5, DepthIsNat
    <2>2. ASSUME NEW t \in 0 .. D - 1, t \in S
          PROVE  t + 1 \in S
      BY <1>5, <2>2, DepthIsNat
    <2> HIDE DEF S
    <2> QED
      BY <2>1, <2>2, UpToInduction, DepthIsNat DEF S
  <1> QED
    BY <1>5, <1>6 DEF a

\* A node's index is twice its parent's, and one more on the right.
LEMMA Halves ==
    ASSUME NEW n \in Nat, NEW t \in Level
    PROVE  /\ bit(n, t) \in {0, 1} /\ above(n)[t + 1] \in Nat /\ above(n)[t] \in Nat
           /\ above(n)[t] = 2 * above(n)[t + 1] + bit(n, t)
  <1>1. above(n)[t] \in Nat /\ above(n)[t + 1] = above(n)[t] \div 2
    BY AboveStepByStep, DepthIsNat
  <1> QED
    BY <1>1 DEF bit

LEMMA InWidth ==
    ASSUME NEW n \in Nat, n < shifted[D]
    PROVE  \A t \in 0 .. D : above(n)[t] < shifted[D - t]
  <1> DEFINE S == {t \in 0 .. D : above(n)[t] < shifted[D - t]}
  <1>1. 0 \in S
    BY AboveStepByStep, DepthIsNat
  <1>2. ASSUME NEW t \in 0 .. D - 1, t \in S
        PROVE  t + 1 \in S
    <2>1. t \in Level /\ t + 1 \in 0 .. D /\ D - t \in 1 .. D /\ (D - t) - 1 = D - (t + 1)
          /\ D - (t + 1) \in 0 .. D
      BY DepthIsNat
    <2>2. shifted[D - t] = 2 * shifted[D - (t + 1)]
      BY <2>1, ShiftedStepByStep
    <2>3. shifted[D - (t + 1)] \in Nat /\ above(n)[t] < shifted[D - t]
      BY <1>2, <2>1, ShiftedStepByStep
    <2>4. above(n)[t + 1] < shifted[D - (t + 1)]
      BY <2>1, <2>2, <2>3, Halves
    <2> QED
      BY <2>1, <2>4
  <1>3. 0 .. D \subseteq S
    <2> HIDE DEF S
    <2> QED
      BY <1>1, <1>2, UpToInduction, DepthIsNat
  <1> QED
    BY <1>3

\* Where the bits below are all set the next index is in the next node.
LEMMA NextNode ==
    ASSUME NEW n \in Nat, NEW c \in 0 .. D, \A u \in 0 .. c - 1 : bit(n, u) = 1
    PROVE  \A t \in 0 .. c : above(n + 1)[t] = above(n)[t] + 1
  <1> DEFINE S == {t \in 0 .. c : above(n + 1)[t] = above(n)[t] + 1}
  <1>1. 0 \in S
    BY AboveStepByStep, DepthIsNat
  <1>2. ASSUME NEW t \in 0 .. c - 1, t \in S
        PROVE  t + 1 \in S
    <2>1. t \in Level /\ n + 1 \in Nat /\ t + 1 \in 0 .. c /\ bit(n, t) = 1
      BY DepthIsNat
    <2>2. above(n)[t] = 2 * above(n)[t + 1] + 1 /\ above(n)[t + 1] \in Nat
      BY <2>1, Halves
    <2>3. above(n + 1)[t] = 2 * above(n + 1)[t + 1] + bit(n + 1, t) /\ above(n + 1)[t + 1] \in Nat
          /\ bit(n + 1, t) \in {0, 1}
      BY <2>1, Halves
    <2>4. above(n + 1)[t] = above(n)[t] + 1
      BY <1>2
    <2>5. above(n + 1)[t + 1] = above(n)[t + 1] + 1
      BY <2>2, <2>3, <2>4
    <2> QED
      BY <2>1, <2>5
  <1>3. 0 .. c \subseteq S
    <2> HIDE DEF S
    <2> QED
      BY <1>1, <1>2, UpToInduction, DepthIsNat
  <1> QED
    BY <1>3

\* Past the level where the carry ends it is in the same one.
LEMMA SameNode ==
    ASSUME NEW n \in Nat, NEW c \in Level, bit(n, c) = 0, \A u \in 0 .. c - 1 : bit(n, u) = 1
    PROVE  \A t \in c + 1 .. D : above(n + 1)[t] = above(n)[t]
  <1> DEFINE S == {t \in 0 .. D : t >= c + 1 => above(n + 1)[t] = above(n)[t]}
  <1>1. 0 \in S
    BY DepthIsNat
  <1>2. ASSUME NEW t \in 0 .. D - 1, t \in S
        PROVE  t + 1 \in S
    <2>1. t \in Level /\ n + 1 \in Nat /\ t + 1 \in 0 .. D /\ c \in 0 .. D /\ c \in 0 .. c
      BY DepthIsNat
    <2>2. above(n)[t] = 2 * above(n)[t + 1] + bit(n, t) /\ above(n)[t + 1] \in Nat /\ bit(n, t) \in {0, 1}
      BY <2>1, Halves
    <2>3. above(n + 1)[t] = 2 * above(n + 1)[t + 1] + bit(n + 1, t) /\ above(n + 1)[t + 1] \in Nat
          /\ bit(n + 1, t) \in {0, 1}
      BY <2>1, Halves
    <2>4. CASE t = c
      <3>1. above(n + 1)[t] = above(n)[t] + 1
        BY <2>1, <2>4, NextNode
      <3>2. above(n + 1)[t + 1] = above(n)[t + 1]
        BY <2>2, <2>3, <2>4, <3>1
      <3> QED
        BY <2>1, <3>2
    <2>5. CASE t > c
      <3>1. above(n + 1)[t] = above(n)[t]
        <4>1. t >= c + 1
          BY <2>5, DepthIsNat
        <4> QED
          BY <1>2, <4>1
      <3>2. above(n + 1)[t + 1] = above(n)[t + 1]
        BY <2>2, <2>3, <3>1
      <3> QED
        BY <2>1, <3>2
    <2>6. CASE t < c
      BY <2>1, <2>6
    <2> QED
      BY <2>1, <2>4, <2>5, <2>6
  <1>3. 0 .. D \subseteq S
    <2> HIDE DEF S
    <2> QED
      BY <1>1, <1>2, UpToInduction, DepthIsNat
  <1> QED
    BY <1>3, DepthIsNat

\* A carry that starts below the capacity ends within the frontier.
LEMMA CarryEnds ==
    ASSUME NEW n \in Nat, n < MAX_LEAVES
    PROVE  /\ carryEnd(n) \in Level /\ bit(n, carryEnd(n)) = 0
           /\ \A u \in 0 .. carryEnd(n) - 1 : bit(n, u) = 1
  <1> DEFINE ends(c) == bit(n, c) = 0 /\ \A u \in 0 .. c - 1 : bit(n, u) = 1
  <1>1. \E c \in Level : ends(c)
    <2> SUFFICES ASSUME ~ \E c \in Level : ends(c)
                 PROVE  FALSE
      OBVIOUS
    <2> DEFINE S == {t \in 0 .. D : \A u \in 0 .. t - 1 : bit(n, u) = 1}
    <2>1. 0 \in S
      BY DepthIsNat
    <2>2. ASSUME NEW t \in 0 .. D - 1, t \in S
          PROVE  t + 1 \in S
      <3>1. t \in Level /\ t + 1 \in 0 .. D /\ \A u \in 0 .. t - 1 : bit(n, u) = 1
        BY <2>2, DepthIsNat
      <3>2. bit(n, t) = 1
        BY <3>1, Halves
      <3>3. \A u \in 0 .. (t + 1) - 1 : u \in 0 .. t - 1 \/ u = t
        OBVIOUS
      <3> QED
        BY <3>1, <3>2, <3>3
    <2>3. 0 .. D \subseteq S
      <3> HIDE DEF S
      <3> QED
        BY <2>1, <2>2, UpToInduction, DepthIsNat
    <2>4. \A u \in 0 .. D - 1 : bit(n, u) = 1
      BY <2>3, DepthIsNat
    <2>5. above(n + 1)[D] = above(n)[D] + 1 /\ above(n)[D] \in Nat
      <3>1. D \in 0 .. D
        BY DepthIsNat
      <3>2. \A t \in 0 .. D : above(n + 1)[t] = above(n)[t] + 1
        BY <2>4, <3>1, NextNode
      <3> QED
        BY <3>1, <3>2, AboveStepByStep
    <2>6. n + 1 \in Nat /\ n + 1 < shifted[D]
      BY ShiftedStepByStep, DepthIsNat DEF MAX_LEAVES, D
    <2>7. above(n + 1)[D] < shifted[D - D] /\ D - D = 0
      BY <2>6, InWidth, DepthIsNat
    <2> QED
      BY <2>5, <2>7, ShiftedStepByStep
  <1>2. carryEnd(n) = CHOOSE c \in 0 .. D : ends(c)
    BY DEF carryEnd, D
  <1>3. carryEnd(n) \in 0 .. D /\ ends(carryEnd(n))
    <2> HIDE DEF ends
    <2> QED
      BY <1>1, <1>2, DepthIsNat
  <1>4. carryEnd(n) # D
    <2>1. PICK c \in Level : ends(c)
      BY <1>1
    <2> QED
      BY <1>3, <2>1, DepthIsNat
  <1> QED
    BY <1>3, <1>4, DepthIsNat

-----------------------------------------------------------------------------
(* What the recursive definitions of the tree say, level by level.          *)

LEMMA ZerosStepByStep ==
    zeros[0] = Zero /\ \A t \in 1 .. D : zeros[t] = hash2(zeros[t - 1], zeros[t - 1])
  <1> DEFINE rec(f) == [t \in 0 .. D |-> IF t = 0 THEN Zero ELSE hash2(f[t - 1], f[t - 1])]
             a == zeros
  <1>1. PICK g : runs(g, D, "zeros", Zero, Zero)
    BY RunsExist, DepthIsNat
  <1>2. g = rec(g)
    BY <1>1 DEF runs, next
  <1>3. a = CHOOSE f : f = rec(f)
    BY DEF zeros, D
  <1> HIDE DEF a
  <1>4. a = rec(a)
    <2> HIDE DEF rec
    <2> QED
      BY <1>2, <1>3
  <1>5. \A t \in 0 .. D : a[t] = rec(a)[t]
    BY <1>4
  <1> QED
    BY <1>5, DepthIsNat DEF a

\* What a walk up from base gives, with a sibling on each level and the side it is on.
climbs(g, base, side, sib) ==
    /\ g[0] = base
    /\ \A t \in 1 .. D : g[t] = IF side[t - 1] = 1 THEN hash2(sib[t - 1], g[t - 1])
                                ELSE hash2(g[t - 1], sib[t - 1])

LEMMA CarriedStepByStep ==
    ASSUME NEW f, NEW index, NEW leaf
    PROVE  \E g : /\ climbs(g, leaf, [t \in Level |-> 1], f)
                  /\ carried(f, index, leaf) = [f EXCEPT ![carryEnd(index)] = g[carryEnd(index)]]
  <1> DEFINE rec(h) == [t \in 0 .. D |-> IF t = 0 THEN leaf ELSE hash2(f[t - 1], h[t - 1])]
             a == CHOOSE h : h = rec(h)
             side == [t \in Level |-> 1]
             data == [side |-> side, at |-> f]
  <1>1. PICK g : runs(g, D, "walk", data, leaf)
    BY RunsExist, DepthIsNat
  <1>2. g = rec(g)
    <2>1. g = [t \in 0 .. D |-> IF t = 0 THEN leaf ELSE next("walk", data, t, g[t - 1])]
      BY <1>1 DEF runs
    <2>2. \A t \in 0 .. D : t # 0 => next("walk", data, t, g[t - 1]) = hash2(f[t - 1], g[t - 1])
      <3>1. \A t \in 1 .. D : side[t - 1] = 1
        BY DepthIsNat
      <3>2. data.side = side /\ data.at = f
        OBVIOUS
      <3>3. \A t \in 0 .. D : t # 0 => t \in 1 .. D
        BY DepthIsNat
      <3> HIDE DEF data, side
      <3> QED
        BY <3>1, <3>2, <3>3 DEF next
    <2> QED
      BY <2>1, <2>2
  <1>3. carried(f, index, leaf) = [f EXCEPT ![carryEnd(index)] = a[carryEnd(index)]]
    BY DEF carried, D
  <1>4. a = rec(a)
    <2> HIDE DEF rec
    <2> QED
      BY <1>2
  <1> HIDE DEF a
  <1>5. climbs(a, leaf, side, f)
    <2>1. \A t \in 0 .. D : a[t] = rec(a)[t]
      BY <1>4
    <2>2. \A t \in 1 .. D : side[t - 1] = 1
      BY DepthIsNat
    <2> QED
      BY <2>1, <2>2, DepthIsNat DEF climbs
  <1> QED
    BY <1>3, <1>5

\* The side and the sibling of a walk that reads f to the left and pads to the right.
sideAt(n) == [t \in Level |-> bit(n, t)]
padded(f, n) == [t \in Level |-> IF bit(n, t) = 1 THEN f[t] ELSE zeros[t]]

LEMMA WalkStepByStep ==
    ASSUME NEW f, NEW index \in Nat, NEW leaf
    PROVE  climbs(walk(f, index, leaf), leaf, sideAt(index), padded(f, index))
  <1> DEFINE rec(h) == [t \in 0 .. D |->
                          IF t = 0 THEN leaf
                          ELSE IF bit(index, t - 1) = 0 THEN hash2(h[t - 1], zeros[t - 1])
                          ELSE hash2(f[t - 1], h[t - 1])]
             a == walk(f, index, leaf)
             data == [side |-> sideAt(index), at |-> padded(f, index)]
  <1>1. PICK g : runs(g, D, "walk", data, leaf)
    BY RunsExist, DepthIsNat
  <1>2. \A t \in 1 .. D : /\ bit(index, t - 1) \in {0, 1}
                          /\ sideAt(index)[t - 1] = bit(index, t - 1)
                          /\ padded(f, index)[t - 1] = IF bit(index, t - 1) = 1 THEN f[t - 1] ELSE zeros[t - 1]
    BY Halves, DepthIsNat DEF sideAt, padded
  <1>3. g = rec(g)
    <2>1. g = [t \in 0 .. D |-> IF t = 0 THEN leaf ELSE next("walk", data, t, g[t - 1])]
      BY <1>1 DEF runs
    <2>2. \A t \in 0 .. D : t # 0 => next("walk", data, t, g[t - 1])
                              = IF bit(index, t - 1) = 0 THEN hash2(g[t - 1], zeros[t - 1])
                                ELSE hash2(f[t - 1], g[t - 1])
      <3>1. /\ data.side = sideAt(index) /\ data.at = padded(f, index)
            /\ \A t \in 0 .. D : t # 0 => t \in 1 .. D
        BY DepthIsNat
      <3> HIDE DEF data
      <3> QED
        BY <1>2, <3>1 DEF next
    <2> QED
      BY <2>1, <2>2
  <1>4. a = CHOOSE h : h = rec(h)
    BY DEF walk, D
  <1> HIDE DEF a
  <1>5. a = rec(a)
    <2> HIDE DEF rec
    <2> QED
      BY <1>3, <1>4
  <1>6. climbs(a, leaf, sideAt(index), padded(f, index))
    <2>1. \A t \in 0 .. D : a[t] = rec(a)[t]
      BY <1>5
    <2>2. a[0] = leaf /\ \A t \in 1 .. D : t # 0 /\ t \in 0 .. D
      BY <2>1, DepthIsNat
    <2> QED
      BY <1>2, <2>1, <2>2 DEF climbs
  <1> QED
    BY <1>6 DEF a

LEMMA FoldStepByStep ==
    ASSUME NEW count \in Nat
    PROVE  \E g : /\ climbs(g, Zero, sideAt(count), padded(frontier, count))
                  /\ foldFrontier(count) = g[D]
  <1> DEFINE rec(h) == [t \in 0 .. D |->
                          IF t = 0 THEN zeros[0]
                          ELSE IF bit(count, t - 1) = 1 THEN hash2(frontier[t - 1], h[t - 1])
                          ELSE hash2(h[t - 1], zeros[t - 1])]
             a == CHOOSE h : h = rec(h)
             data == [side |-> sideAt(count), at |-> padded(frontier, count)]
  <1>1. PICK g : runs(g, D, "walk", data, zeros[0])
    BY RunsExist, DepthIsNat
  <1>2. \A t \in 1 .. D : /\ bit(count, t - 1) \in {0, 1}
                          /\ sideAt(count)[t - 1] = bit(count, t - 1)
                          /\ padded(frontier, count)[t - 1]
                               = IF bit(count, t - 1) = 1 THEN frontier[t - 1] ELSE zeros[t - 1]
    BY Halves, DepthIsNat DEF sideAt, padded
  <1>3. g = rec(g)
    <2>1. g = [t \in 0 .. D |-> IF t = 0 THEN zeros[0] ELSE next("walk", data, t, g[t - 1])]
      BY <1>1 DEF runs
    <2>2. \A t \in 0 .. D : t # 0 => next("walk", data, t, g[t - 1])
                              = IF bit(count, t - 1) = 1 THEN hash2(frontier[t - 1], g[t - 1])
                                ELSE hash2(g[t - 1], zeros[t - 1])
      <3>1. /\ data.side = sideAt(count) /\ data.at = padded(frontier, count)
            /\ \A t \in 0 .. D : t # 0 => t \in 1 .. D
        BY DepthIsNat
      <3> HIDE DEF data
      <3> QED
        BY <1>2, <3>1 DEF next
    <2> QED
      BY <2>1, <2>2
  <1>4. foldFrontier(count) = a[D]
    BY DEF foldFrontier, D
  <1>5. a = rec(a)
    <2> HIDE DEF rec
    <2> QED
      BY <1>3
  <1> HIDE DEF a
  <1>6. climbs(a, Zero, sideAt(count), padded(frontier, count))
    <2>1. \A t \in 0 .. D : a[t] = rec(a)[t]
      BY <1>5
    <2>2. a[0] = Zero /\ \A t \in 1 .. D : t # 0 /\ t \in 0 .. D
      BY <2>1, ZerosStepByStep, DepthIsNat
    <2> QED
      BY <1>2, <2>1, <2>2 DEF climbs
  <1> QED
    BY <1>4, <1>6

\* The levels of the reference tree.
Width(t) == 0 .. shifted[D - t] - 1

LEMMA NodesStepByStep ==
    ASSUME NEW given
    PROVE  /\ \A j \in Width(0) : nodesOf(given)[0][j] = IF j < Len(given) THEN given[j + 1] ELSE Zero
           /\ \A t \in 1 .. D : \A j \in Width(t) :
                 nodesOf(given)[t][j] = hash2(nodesOf(given)[t - 1][2 * j], nodesOf(given)[t - 1][2 * j + 1])
           /\ \A t \in 0 .. D : nodesOf(given)[t] = [j \in Width(t) |-> nodesOf(given)[t][j]]
  <1> DEFINE rec(f) == [t \in 0 .. D |-> [j \in 0 .. shifted[D - t] - 1 |->
                          IF t = 0 THEN (IF j < Len(given) THEN given[j + 1] ELSE Zero)
                          ELSE hash2(f[t - 1][2 * j], f[t - 1][2 * j + 1])]]
             a == nodesOf(given)
             base == [j \in 0 .. shifted[D - 0] - 1 |-> IF j < Len(given) THEN given[j + 1] ELSE Zero]
  <1>1. PICK g : runs(g, D, "nodes", 0, base)
    BY RunsExist, DepthIsNat
  <1>2. g = rec(g)
    <2>1. g = [t \in 0 .. D |-> IF t = 0 THEN base ELSE next("nodes", 0, t, g[t - 1])]
      BY <1>1 DEF runs
    <2>2. \A t \in 0 .. D : (IF t = 0 THEN base ELSE next("nodes", 0, t, g[t - 1]))
             = [j \in 0 .. shifted[D - t] - 1 |->
                  IF t = 0 THEN (IF j < Len(given) THEN given[j + 1] ELSE Zero)
                  ELSE hash2(g[t - 1][2 * j], g[t - 1][2 * j + 1])]
      <3> TAKE t \in 0 .. D
      <3>1. CASE t = 0
        BY <3>1
      <3>2. CASE t # 0
        <4>1. next("nodes", 0, t, g[t - 1])
                = [j \in 0 .. shifted[D - t] - 1 |-> hash2(g[t - 1][2 * j], g[t - 1][2 * j + 1])]
          BY DEF next
        <4> QED
          BY <3>2, <4>1
      <3> QED
        BY <3>1, <3>2
    <2> QED
      BY <2>1, <2>2
  <1>3. a = CHOOSE f : f = rec(f)
    BY DEF nodesOf, D
  <1> HIDE DEF a
  <1>4. a = rec(a)
    <2> HIDE DEF rec
    <2> QED
      BY <1>2, <1>3
  <1>5. \A t \in 0 .. D : a[t] = rec(a)[t]
    BY <1>4
  <1>6. \A t \in 0 .. D : \A j \in Width(t) : a[t][j] = rec(a)[t][j]
    BY <1>5 DEF Width
  <1>7. \A j \in Width(0) : a[0][j] = IF j < Len(given) THEN given[j + 1] ELSE Zero
    BY <1>6, DepthIsNat DEF Width
  <1>8. \A t \in 1 .. D : \A j \in Width(t) : a[t][j] = hash2(a[t - 1][2 * j], a[t - 1][2 * j + 1])
    <2>1. \A t \in 1 .. D : t \in 0 .. D /\ t # 0
      BY DepthIsNat
    <2>2. \A t \in 1 .. D : \A j \in Width(t) : rec(a)[t][j] = hash2(a[t - 1][2 * j], a[t - 1][2 * j + 1])
      BY <2>1 DEF Width
    <2> QED
      BY <1>6, <2>1, <2>2, ZenonT(60)
  <1>9. \A t \in 0 .. D : a[t] = [j \in Width(t) |-> a[t][j]]
    BY <1>5 DEF Width
  <1> QED
    BY <1>7, <1>8, <1>9 DEF a

-----------------------------------------------------------------------------
(* Nodes of the reference tree.                                            *)

LEMMA Children ==
    ASSUME NEW t \in 1 .. D, NEW j \in Width(t)
    PROVE  j \in Nat /\ 2 * j \in Width(t - 1) /\ 2 * j + 1 \in Width(t - 1)
  <1>1. D - t \in 0 .. D /\ D - (t - 1) \in 1 .. D /\ (D - (t - 1)) - 1 = D - t
    BY DepthIsNat
  <1>2. shifted[D - (t - 1)] = 2 * shifted[D - t] /\ shifted[D - t] \in Nat
    BY <1>1, ShiftedStepByStep
  <1>3. j \in 0 .. shifted[D - t] - 1
    BY DEF Width
  <1>4. /\ 2 * j \in 0 .. (2 * shifted[D - t]) - 1
        /\ 2 * j + 1 \in 0 .. (2 * shifted[D - t]) - 1
    BY <1>2, <1>3
  <1> QED
    BY <1>2, <1>3, <1>4 DEF Width

LEMMA AboveInWidth ==
    ASSUME NEW n \in Nat, n < shifted[D], NEW t \in 0 .. D
    PROVE  above(n)[t] \in Width(t)
  <1>1. above(n)[t] \in Nat /\ above(n)[t] < shifted[D - t] /\ shifted[D - t] \in Nat
    BY InWidth, AboveStepByStep, ShiftedStepByStep, DepthIsNat
  <1> QED
    BY <1>1 DEF Width

\* Two trees that differ in one leaf differ in the nodes above it only.
LEMMA OthersStay ==
    ASSUME NEW given, NEW M, NEW n \in Nat,
           \A j \in Width(0) : j # n => nodesOf(given)[0][j] = nodesOf(M)[0][j]
    PROVE  \A t \in 0 .. D : \A j \in Width(t) :
              j # above(n)[t] => nodesOf(given)[t][j] = nodesOf(M)[t][j]
  <1> DEFINE same(t) == \A j \in Width(t) : j # above(n)[t] => nodesOf(given)[t][j] = nodesOf(M)[t][j]
             S == {t \in 0 .. D : same(t)}
  <1>1. 0 \in S
    BY AboveStepByStep, DepthIsNat
  <1>2. ASSUME NEW t \in 0 .. D - 1, t \in S
        PROVE  t + 1 \in S
    <2>1. t \in Level /\ t + 1 \in 1 .. D /\ (t + 1) - 1 = t /\ t + 1 \in 0 .. D
      BY DepthIsNat
    <2>2. ASSUME NEW j \in Width(t + 1), j # above(n)[t + 1]
          PROVE  nodesOf(given)[t + 1][j] = nodesOf(M)[t + 1][j]
      <3>1. j \in Nat /\ 2 * j \in Width(t) /\ 2 * j + 1 \in Width(t)
        BY <2>1, Children
      <3>2. 2 * j # above(n)[t] /\ 2 * j + 1 # above(n)[t]
        <4>1. above(n)[t] = 2 * above(n)[t + 1] + bit(n, t) /\ bit(n, t) \in {0, 1}
              /\ above(n)[t + 1] \in Nat
          BY <2>1, Halves
        <4> QED
          BY <2>2, <3>1, <4>1
      <3>3. /\ nodesOf(given)[t][2 * j] = nodesOf(M)[t][2 * j]
            /\ nodesOf(given)[t][2 * j + 1] = nodesOf(M)[t][2 * j + 1]
        BY <1>2, <3>1, <3>2
      <3>4. /\ nodesOf(given)[t + 1][j] = hash2(nodesOf(given)[t][2 * j], nodesOf(given)[t][2 * j + 1])
            /\ nodesOf(M)[t + 1][j] = hash2(nodesOf(M)[t][2 * j], nodesOf(M)[t][2 * j + 1])
        BY <2>1, NodesStepByStep
      <3> QED
        BY <3>3, <3>4
    <2> QED
      BY <2>1, <2>2
  <1>3. 0 .. D \subseteq S
    <2> HIDE DEF S
    <2> QED
      BY <1>1, <1>2, UpToInduction, DepthIsNat
  <1> QED
    BY <1>3

\* To the right of the last leaf every subtree is empty.
LEMMA EmptyBeyond ==
    ASSUME NEW given, NEW n \in Nat, \A j \in Width(0) : j > n => nodesOf(given)[0][j] = Zero
    PROVE  \A t \in 0 .. D : \A j \in Width(t) : j > above(n)[t] => nodesOf(given)[t][j] = zeros[t]
  <1> DEFINE empty(t) == \A j \in Width(t) : j > above(n)[t] => nodesOf(given)[t][j] = zeros[t]
             S == {t \in 0 .. D : empty(t)}
  <1>1. 0 \in S
    BY AboveStepByStep, ZerosStepByStep, DepthIsNat
  <1>2. ASSUME NEW t \in 0 .. D - 1, t \in S
        PROVE  t + 1 \in S
    <2>1. t \in Level /\ t + 1 \in 1 .. D /\ (t + 1) - 1 = t /\ t + 1 \in 0 .. D
      BY DepthIsNat
    <2>2. ASSUME NEW j \in Width(t + 1), j > above(n)[t + 1]
          PROVE  nodesOf(given)[t + 1][j] = zeros[t + 1]
      <3>1. j \in Nat /\ 2 * j \in Width(t) /\ 2 * j + 1 \in Width(t)
        BY <2>1, Children
      <3>2. 2 * j > above(n)[t] /\ 2 * j + 1 > above(n)[t]
        BY <2>1, <2>2, <3>1, Halves
      <3>3. nodesOf(given)[t][2 * j] = zeros[t] /\ nodesOf(given)[t][2 * j + 1] = zeros[t]
        BY <1>2, <3>1, <3>2
      <3>4. nodesOf(given)[t + 1][j] = hash2(nodesOf(given)[t][2 * j], nodesOf(given)[t][2 * j + 1])
        BY <2>1, NodesStepByStep
      <3> QED
        BY <2>1, <3>3, <3>4, ZerosStepByStep
    <2> QED
      BY <2>1, <2>2
  <1>3. 0 .. D \subseteq S
    <2> HIDE DEF S
    <2> QED
      BY <1>1, <1>2, UpToInduction, DepthIsNat
  <1> QED
    BY <1>3

\* A walk from a leaf that meets the right siblings passes through the nodes above it.
siblingOf(given, n, t) ==
    IF bit(n, t) = 1 THEN nodesOf(given)[t][above(n)[t] - 1] ELSE nodesOf(given)[t][above(n)[t] + 1]

meets(given, n, c, side, sib) == \A t \in 0 .. c - 1 : side[t] = bit(n, t) /\ sib[t] = siblingOf(given, n, t)
onPath(given, n, c, g) == \A t \in 0 .. c : g[t] = nodesOf(given)[t][above(n)[t]]

LEMMA WalkMeetsNodes ==
    ASSUME NEW given, NEW n \in Nat, n < shifted[D], NEW g, NEW side, NEW sib,
           climbs(g, nodesOf(given)[0][n], side, sib), NEW c \in 0 .. D, meets(given, n, c, side, sib)
    PROVE  onPath(given, n, c, g)
  <1> DEFINE S == {t \in 0 .. c : g[t] = nodesOf(given)[t][above(n)[t]]}
  <1>0. \A t \in 0 .. c - 1 : side[t] = bit(n, t) /\ sib[t] = siblingOf(given, n, t)
    BY Zenon DEF meets
  <1>1. 0 \in S
    BY AboveStepByStep, DepthIsNat DEF climbs
  <1>2. ASSUME NEW t \in 0 .. c - 1, t \in S
        PROVE  t + 1 \in S
    <2> DEFINE p == above(n)[t + 1]
    <2>1. t \in Level /\ t + 1 \in 1 .. D /\ (t + 1) - 1 = t /\ t + 1 \in 0 .. D /\ t + 1 \in 0 .. c
      <3>1. D \in Nat /\ Level = 0 .. D - 1
        BY DepthIsNat
      <3> QED
        BY <3>1
    <2>2. p \in Nat /\ bit(n, t) \in {0, 1} /\ above(n)[t] = 2 * p + bit(n, t)
      BY <2>1, Halves
    <2>3. nodesOf(given)[t + 1][p] = hash2(nodesOf(given)[t][2 * p], nodesOf(given)[t][2 * p + 1])
      BY <2>1, AboveInWidth, NodesStepByStep
    <2>4. g[t + 1] = IF side[t] = 1 THEN hash2(sib[t], g[t]) ELSE hash2(g[t], sib[t])
      BY <2>1 DEF climbs
    <2>5. g[t] = nodesOf(given)[t][2 * p + bit(n, t)]
      BY <1>2, <2>2
    <2>6. CASE bit(n, t) = 1
      <3>1. above(n)[t] - 1 = 2 * p
        BY <2>2, <2>6
      <3>2. sib[t] = nodesOf(given)[t][2 * p]
        BY <1>0, <2>6, <3>1 DEF siblingOf
      <3> QED
        BY <1>0, <2>1, <2>3, <2>4, <2>5, <2>6, <3>2
    <2>7. CASE bit(n, t) = 0
      <3>1. above(n)[t] + 1 = 2 * p + 1 /\ 2 * p + bit(n, t) = 2 * p
        BY <2>2, <2>7
      <3>2. sib[t] = nodesOf(given)[t][2 * p + 1]
        BY <1>0, <2>7, <3>1 DEF siblingOf
      <3> QED
        BY <1>0, <2>1, <2>3, <2>4, <2>5, <2>7, <3>1, <3>2
    <2> QED
      BY <2>2, <2>6, <2>7
  <1>3. 0 .. c \subseteq S
    <2> HIDE DEF S
    <2>1. c \in Nat
      BY DepthIsNat
    <2>2. \A t \in 0 .. c - 1 : t \in S => t + 1 \in S
      BY <1>2, Zenon
    <2> QED
      BY <1>1, <2>1, <2>2, UpToInduction, Zenon
  <1> QED
    BY <1>3 DEF onPath

\* What one more leaf changes.
LEMMA OneMoreLeaf ==
    ASSUME NEW given \in Seq(Leaf), NEW leaf \in Leaf, Len(given) < MAX_LEAVES
    PROVE  /\ Len(given) \in Nat /\ Len(given) < shifted[D] /\ Len(Append(given, leaf)) = Len(given) + 1
           /\ Append(given, leaf) \in Seq(Leaf)
           /\ nodesOf(Append(given, leaf))[0][Len(given)] = leaf
           /\ \A t \in 0 .. D : \A j \in Width(t) :
                 j # above(Len(given))[t] => nodesOf(Append(given, leaf))[t][j] = nodesOf(given)[t][j]
           /\ \A t \in 0 .. D : \A j \in Width(t) :
                 j > above(Len(given))[t] => nodesOf(Append(given, leaf))[t][j] = zeros[t]
  <1> DEFINE n == Len(given)
             M == Append(given, leaf)
  <1>1. n \in Nat /\ Len(M) = n + 1 /\ M[n + 1] = leaf /\ M \in Seq(Leaf)
        /\ \A j \in 1 .. n : M[j] = given[j]
    OBVIOUS
  <1>2. n < shifted[D] /\ shifted[D] \in Nat
    BY ShiftedStepByStep, DepthIsNat DEF MAX_LEAVES, D
  <1>3. n \in Width(0) /\ Width(0) = 0 .. shifted[D] - 1
    BY <1>1, <1>2, DepthIsNat DEF Width
  <1> HIDE DEF n, M
  <1>4. \A j \in Width(0) : /\ nodesOf(given)[0][j] = IF j < n THEN given[j + 1] ELSE Zero
                            /\ nodesOf(M)[0][j] = IF j < n + 1 THEN M[j + 1] ELSE Zero
    BY <1>1, NodesStepByStep DEF n
  <1>5. nodesOf(M)[0][n] = leaf
    BY <1>1, <1>3, <1>4
  <1>6. ASSUME NEW j \in Width(0), j # n
        PROVE  nodesOf(M)[0][j] = nodesOf(given)[0][j]
    <2>1. j \in Nat
      BY <1>2, <1>3
    <2>2. j < n => j + 1 \in 1 .. n
      BY <1>1, <2>1
    <2>3. (j < n + 1) = (j < n)
      BY <1>1, <1>6, <2>1
    <2> QED
      BY <1>1, <1>4, <2>2, <2>3
  <1>7. \A j \in Width(0) : j > n => nodesOf(M)[0][j] = Zero
    BY <1>1, <1>3, <1>4
  <1>8. \A t \in 0 .. D : \A j \in Width(t) : j # above(n)[t] => nodesOf(M)[t][j] = nodesOf(given)[t][j]
    BY <1>1, <1>6, OthersStay
  <1>9. \A t \in 0 .. D : \A j \in Width(t) : j > above(n)[t] => nodesOf(M)[t][j] = zeros[t]
    BY <1>1, <1>7, EmptyBeyond
  <1> QED
    BY <1>1, <1>2, <1>5, <1>8, <1>9 DEF n, M

-----------------------------------------------------------------------------
(* The frontier holds the left siblings, and the walks give nodes.          *)

Complete(f, given) ==
    /\ DOMAIN f = Level
    /\ \A t \in Level : bit(Len(given), t) = 1 => f[t] = nodesOf(given)[t][above(Len(given))[t] - 1]

\* A set bit has a node to its left.
LEMMA HasLeft ==
    ASSUME NEW n \in Nat, n < shifted[D], NEW t \in Level, bit(n, t) = 1
    PROVE  above(n)[t] \in Nat \ {0} /\ above(n)[t] - 1 \in Width(t)
  <1>1. above(n)[t] \in Width(t) /\ t \in 0 .. D
    BY AboveInWidth, DepthIsNat
  <1>2. above(n)[t] = 2 * above(n)[t + 1] + 1 /\ above(n)[t + 1] \in Nat /\ above(n)[t] \in Nat
    BY Halves
  <1>3. shifted[D - t] \in Nat
    BY <1>1, ShiftedStepByStep, DepthIsNat
  <1> QED
    BY <1>1, <1>2, <1>3 DEF Width

\* A clear bit has a node to its right.
LEMMA HasRight ==
    ASSUME NEW n \in Nat, n < shifted[D], NEW t \in Level, bit(n, t) = 0
    PROVE  above(n)[t] + 1 \in Width(t)
  <1>1. t + 1 \in 1 .. D /\ (t + 1) - 1 = t /\ t + 1 \in 0 .. D
    BY DepthIsNat
  <1>2. above(n)[t + 1] \in Width(t + 1)
    BY <1>1, AboveInWidth
  <1>3. above(n)[t] = 2 * above(n)[t + 1] /\ above(n)[t + 1] \in Nat
    BY Halves
  <1>4. 2 * above(n)[t + 1] + 1 \in Width(t)
    BY <1>1, <1>2, Children
  <1> QED
    BY <1>3, <1>4

LEMMA CarriedComplete ==
    ASSUME NEW given \in Seq(Leaf), NEW leaf \in Leaf, Len(given) < MAX_LEAVES, NEW f, Complete(f, given)
    PROVE  Complete(carried(f, Len(given), leaf), Append(given, leaf))
  <1> DEFINE n == Len(given)
             M == Append(given, leaf)
             c == carryEnd(n)
             new == carried(f, n, leaf)
  <1>1. /\ n \in Nat /\ n < shifted[D] /\ Len(M) = n + 1 /\ nodesOf(M)[0][n] = leaf
        /\ \A t \in 0 .. D : \A j \in Width(t) : j # above(n)[t] => nodesOf(M)[t][j] = nodesOf(given)[t][j]
    BY OneMoreLeaf
  <1>2. c \in Level /\ bit(n, c) = 0 /\ \A u \in 0 .. c - 1 : bit(n, u) = 1
    BY <1>1, CarryEnds
  <1>3. PICK g : climbs(g, leaf, [t \in Level |-> 1], f) /\ new = [f EXCEPT ![c] = g[c]]
    BY CarriedStepByStep
  <1>4. DOMAIN f = Level /\ \A t \in Level : bit(n, t) = 1 => f[t] = nodesOf(given)[t][above(n)[t] - 1]
    BY DEF Complete
  <1>5. c \in 0 .. D /\ \A t \in 0 .. c - 1 : t \in Level
    BY <1>2, DepthIsNat
  <1> HIDE DEF n, M, c, new
  <1>6. \A t \in Level : bit(n, t) = 1 =>
          above(n)[t] \in Nat \ {0} /\ nodesOf(M)[t][above(n)[t] - 1] = nodesOf(given)[t][above(n)[t] - 1]
    <2> TAKE t \in Level
    <2> HAVE bit(n, t) = 1
    <2>1. above(n)[t] \in Nat \ {0} /\ above(n)[t] - 1 \in Width(t) /\ t \in 0 .. D
      BY <1>1, HasLeft, DepthIsNat
    <2>2. above(n)[t] - 1 # above(n)[t]
      BY <2>1
    <2> QED
      BY <1>1, <2>1, <2>2
  <1>7. g[c] = nodesOf(M)[c][above(n)[c]]
    <2> DEFINE side == [t \in Level |-> 1]
    <2>1. \A t \in 0 .. c - 1 : side[t] = bit(n, t) /\ f[t] = siblingOf(M, n, t)
      BY <1>2, <1>4, <1>5, <1>6, SMTT(60) DEF siblingOf
    <2>2. climbs(g, nodesOf(M)[0][n], side, f)
      BY <1>1, <1>3
    <2>3. c \in 0 .. c
      BY <1>5, DepthIsNat
    <2> HIDE DEF side
    <2>4. meets(M, n, c, side, f) /\ n \in Nat /\ n < shifted[D] /\ c \in 0 .. D
      BY <1>1, <1>5, <2>1 DEF meets
    <2>5. onPath(M, n, c, g)
      BY <2>2, <2>4, WalkMeetsNodes, Zenon
    <2> QED
      BY <2>3, <2>5, Zenon DEF onPath
  <1>8. ASSUME NEW t \in Level, bit(n + 1, t) = 1
        PROVE  new[t] = nodesOf(M)[t][above(n + 1)[t] - 1]
    <2>1. /\ above(n)[t] = 2 * above(n)[t + 1] + bit(n, t) /\ above(n)[t + 1] \in Nat
          /\ bit(n, t) \in {0, 1} /\ above(n)[t] \in Nat
          /\ above(n + 1)[t] = 2 * above(n + 1)[t + 1] + bit(n + 1, t) /\ above(n + 1)[t + 1] \in Nat
      <3>1. n + 1 \in Nat
        BY <1>1
      <3> QED
        BY <1>1, <3>1, Halves
    <2>2. CASE t = c
      <3>1. above(n + 1)[t] = above(n)[t] + 1
        <4>1. t \in 0 .. c
          BY <1>5, <2>2, DepthIsNat
        <4> QED
          BY <1>1, <1>2, <1>5, <4>1, NextNode
      <3>2. above(n + 1)[t] - 1 = above(n)[t]
        BY <2>1, <3>1
      <3> QED
        BY <1>3, <1>4, <1>7, <2>2, <3>2
    <2>3. CASE t < c
      <3>1. above(n + 1)[t] = above(n)[t] + 1 /\ bit(n, t) = 1
        <4>1. t \in 0 .. c /\ t \in 0 .. c - 1
          BY <1>5, <2>3, DepthIsNat
        <4> QED
          BY <1>1, <1>2, <1>5, <4>1, NextNode
      <3> QED
        BY <1>8, <2>1, <3>1
    <2>4. CASE t > c
      <3>1. t \in c + 1 .. D /\ t + 1 \in c + 1 .. D
        BY <1>5, <2>4, DepthIsNat
      <3>2. above(n + 1)[t] = above(n)[t] /\ above(n + 1)[t + 1] = above(n)[t + 1]
        BY <1>1, <1>2, <3>1, SameNode
      <3>3. bit(n, t) = 1
        BY <1>8, <2>1, <3>2
      <3>4. new[t] = f[t]
        BY <1>2, <1>3, <1>4, <2>4, DepthIsNat
      <3> QED
        BY <1>4, <1>6, <3>2, <3>3, <3>4
    <2> QED
      BY <1>5, <2>2, <2>3, <2>4, DepthIsNat
  <1>9. DOMAIN new = Level
    BY <1>3, <1>4
  <1> QED
    BY <1>1, <1>8, <1>9 DEF Complete, n, M, new

\* The walk of the full depth passes the nodes above its leaf, and ends in the root.
LEMMA WalkOfLeaf ==
    ASSUME NEW given \in Seq(Leaf), NEW leaf \in Leaf, Len(given) < MAX_LEAVES, NEW f, Complete(f, given)
    PROVE  \A t \in 0 .. D : walk(f, Len(given), leaf)[t] = nodesOf(Append(given, leaf))[t][above(Len(given))[t]]
  <1> DEFINE n == Len(given)
             M == Append(given, leaf)
  <1>1. /\ n \in Nat /\ n < shifted[D] /\ nodesOf(M)[0][n] = leaf
        /\ \A t \in 0 .. D : \A j \in Width(t) : j # above(n)[t] => nodesOf(M)[t][j] = nodesOf(given)[t][j]
        /\ \A t \in 0 .. D : \A j \in Width(t) : j > above(n)[t] => nodesOf(M)[t][j] = zeros[t]
    BY OneMoreLeaf
  <1>2. climbs(walk(f, n, leaf), leaf, sideAt(n), padded(f, n))
    BY <1>1, WalkStepByStep
  <1>3. \A t \in Level : bit(n, t) = 1 => f[t] = nodesOf(given)[t][above(n)[t] - 1]
    BY DEF Complete
  <1> HIDE DEF n, M
  <1>4. ASSUME NEW t \in 0 .. D - 1
        PROVE  sideAt(n)[t] = bit(n, t) /\ padded(f, n)[t] = siblingOf(M, n, t)
    <2>1. t \in Level /\ t \in 0 .. D /\ bit(n, t) \in {0, 1} /\ above(n)[t] \in Nat
      BY <1>1, Halves, DepthIsNat
    <2>2. sideAt(n)[t] = bit(n, t) /\ padded(f, n)[t] = IF bit(n, t) = 1 THEN f[t] ELSE zeros[t]
      BY <2>1 DEF sideAt, padded
    <2>3. CASE bit(n, t) = 1
      <3>1. above(n)[t] - 1 \in Width(t) /\ above(n)[t] - 1 # above(n)[t]
        BY <1>1, <2>1, <2>3, HasLeft
      <3>2. nodesOf(M)[t][above(n)[t] - 1] = nodesOf(given)[t][above(n)[t] - 1]
        BY <1>1, <2>1, <3>1
      <3> QED
        BY <1>3, <2>1, <2>2, <2>3, <3>2 DEF siblingOf
    <2>4. CASE bit(n, t) = 0
      <3>1. above(n)[t] + 1 \in Width(t) /\ above(n)[t] + 1 > above(n)[t]
        BY <1>1, <2>1, <2>4, HasRight
      <3>2. nodesOf(M)[t][above(n)[t] + 1] = zeros[t]
        BY <1>1, <2>1, <3>1
      <3> QED
        BY <2>1, <2>2, <2>4, <3>2 DEF siblingOf
    <2> QED
      BY <2>1, <2>3, <2>4
  <1>5. \A t \in 0 .. D : walk(f, n, leaf)[t] = nodesOf(M)[t][above(n)[t]]
    <2>1. climbs(walk(f, n, leaf), nodesOf(M)[0][n], sideAt(n), padded(f, n)) /\ D \in 0 .. D
      BY <1>1, <1>2, DepthIsNat
    <2>2. \A t \in 0 .. D - 1 : sideAt(n)[t] = bit(n, t) /\ padded(f, n)[t] = siblingOf(M, n, t)
      BY <1>4
    <2> DEFINE g == walk(f, n, leaf)  side == sideAt(n)  sib == padded(f, n)
    <2>3. n \in Nat /\ n < shifted[D]
      BY <1>1
    <2>4. climbs(g, nodesOf(M)[0][n], side, sib) /\ D \in 0 .. D
      BY <2>1
    <2>5. \A t \in 0 .. D - 1 : side[t] = bit(n, t) /\ sib[t] = siblingOf(M, n, t)
      BY <2>2
    <2> HIDE DEF g, side, sib
    <2>6. \A t \in 0 .. D : g[t] = nodesOf(M)[t][above(n)[t]]
      <3>1. meets(M, n, D, side, sib)
        BY <2>5, Zenon DEF meets
      <3>2. onPath(M, n, D, g)
        BY <2>3, <2>4, <3>1, WalkMeetsNodes, Zenon
      <3> QED
        BY <3>2, Zenon DEF onPath
    <2> QED
      BY <2>6 DEF g
  <1> QED
    BY <1>5 DEF n, M

LEMMA RootIsTop ==
    ASSUME NEW n \in Nat, n < shifted[D], NEW given
    PROVE  nodesOf(given)[D][above(n)[D]] = rootOf(given)
  <1>1. above(n)[D] < shifted[D - D] /\ D - D = 0 /\ above(n)[D] \in Nat
    BY InWidth, AboveStepByStep, DepthIsNat
  <1>2. above(n)[D] = 0
    BY <1>1, ShiftedStepByStep
  <1> QED
    BY <1>2 DEF rootOf, D

LEMMA WalkedComplete ==
    ASSUME NEW given \in Seq(Leaf), NEW leaf \in Leaf, Len(given) < MAX_LEAVES, NEW f, Complete(f, given)
    PROVE  /\ Complete(walked(f, Len(given), leaf), Append(given, leaf))
           /\ walk(f, Len(given), leaf)[TREE_DEPTH] = rootOf(Append(given, leaf))
  <1> DEFINE n == Len(given)
             M == Append(given, leaf)
             c == carryEnd(n)
             new == walked(f, n, leaf)
  <1>1. /\ n \in Nat /\ n < shifted[D] /\ Len(M) = n + 1
        /\ \A t \in 0 .. D : \A j \in Width(t) : j # above(n)[t] => nodesOf(M)[t][j] = nodesOf(given)[t][j]
    BY OneMoreLeaf
  <1>2. c \in Level /\ bit(n, c) = 0 /\ \A u \in 0 .. c - 1 : bit(n, u) = 1
    BY <1>1, CarryEnds
  <1>3. \A t \in 0 .. D : walk(f, n, leaf)[t] = nodesOf(M)[t][above(n)[t]]
    BY WalkOfLeaf
  <1>4. \A t \in Level : bit(n, t) = 1 => f[t] = nodesOf(given)[t][above(n)[t] - 1]
    BY DEF Complete
  <1>5. DOMAIN new = Level
        /\ \A t \in Level : new[t] = IF bit(n, t) = 0 THEN walk(f, n, leaf)[t] ELSE f[t]
    BY DEF walked
  <1>6. c \in 0 .. D /\ \A t \in 0 .. c - 1 : t \in Level
    BY <1>2, DepthIsNat
  <1> HIDE DEF n, M, c, new
  <1>7. ASSUME NEW t \in Level, bit(n + 1, t) = 1
        PROVE  new[t] = nodesOf(M)[t][above(n + 1)[t] - 1]
    <2>1. /\ above(n)[t] = 2 * above(n)[t + 1] + bit(n, t) /\ above(n)[t + 1] \in Nat
          /\ bit(n, t) \in {0, 1} /\ above(n)[t] \in Nat
          /\ above(n + 1)[t] = 2 * above(n + 1)[t + 1] + bit(n + 1, t) /\ above(n + 1)[t + 1] \in Nat
      <3>1. n + 1 \in Nat
        BY <1>1
      <3> QED
        BY <1>1, <3>1, Halves
    <2>2. CASE t = c
      <3>1. above(n + 1)[t] = above(n)[t] + 1
        <4>1. t \in 0 .. c
          BY <1>6, <2>2, DepthIsNat
        <4> QED
          BY <1>1, <1>2, <1>6, <4>1, NextNode
      <3>2. above(n + 1)[t] - 1 = above(n)[t]
        BY <2>1, <3>1
      <3> QED
        BY <1>2, <1>3, <1>5, <1>6, <2>2, <3>2
    <2>3. CASE t < c
      <3>1. above(n + 1)[t] = above(n)[t] + 1 /\ bit(n, t) = 1
        <4>1. t \in 0 .. c /\ t \in 0 .. c - 1
          BY <1>6, <2>3, DepthIsNat
        <4> QED
          BY <1>1, <1>2, <1>6, <4>1, NextNode
      <3> QED
        BY <1>7, <2>1, <3>1
    <2>4. CASE t > c
      <3>1. t \in c + 1 .. D /\ t + 1 \in c + 1 .. D
        BY <1>6, <2>4, DepthIsNat
      <3>2. above(n + 1)[t] = above(n)[t] /\ above(n + 1)[t + 1] = above(n)[t + 1]
        BY <1>1, <1>2, <3>1, SameNode
      <3>3. bit(n, t) = 1
        BY <1>7, <2>1, <3>2
      <3>4. above(n)[t] - 1 \in Width(t) /\ above(n)[t] - 1 # above(n)[t] /\ t \in 0 .. D
        BY <1>1, <2>1, <3>3, HasLeft, DepthIsNat, SMTT(60)
      <3> QED
        BY <1>1, <1>4, <1>5, <3>2, <3>3, <3>4
    <2> QED
      BY <1>6, <2>2, <2>3, <2>4, DepthIsNat
  <1>8. walk(f, n, leaf)[TREE_DEPTH] = rootOf(M)
    BY <1>1, <1>3, RootIsTop, DepthIsNat DEF D
  <1> QED
    BY <1>1, <1>5, <1>7, <1>8 DEF Complete, n, M, new

-----------------------------------------------------------------------------
(* Batches, and the fold of the frontier.                                  *)

LEMMA OneLonger ==
    ASSUME NEW M \in Seq(Leaf), NEW m \in 0 .. Len(M) - 1
    PROVE  /\ SubSeq(M, 1, m) \in Seq(Leaf) /\ Len(SubSeq(M, 1, m)) = m /\ M[m + 1] \in Leaf
           /\ Append(SubSeq(M, 1, m), M[m + 1]) = SubSeq(M, 1, m + 1)
  <1>1. /\ Len(M) \in Nat /\ m \in Nat /\ m + 1 \in 1 .. Len(M) /\ (m - 1) + 1 = m
        /\ \A i \in 1 .. Len(M) : M[i] \in Leaf
    OBVIOUS
  <1>2. \A i \in 1 .. m : M[i] \in Leaf
    BY <1>1
  <1>3. \A i \in 1 .. m + 1 : M[i] \in Leaf
    BY <1>1
  <1>4. /\ SubSeq(M, 1, m) \in Seq(Leaf) /\ Len(SubSeq(M, 1, m)) = m
        /\ \A i \in 1 .. m : SubSeq(M, 1, m)[i] = M[i]
    BY <1>1, <1>2, SubSeqProperties
  <1>5. /\ SubSeq(M, 1, m + 1) \in Seq(Leaf) /\ Len(SubSeq(M, 1, m + 1)) = m + 1
        /\ \A i \in 1 .. m + 1 : SubSeq(M, 1, m + 1)[i] = M[i]
    BY <1>1, <1>3, SubSeqProperties
  <1>6. Append(SubSeq(M, 1, m), M[m + 1]) = SubSeq(M, 1, m + 1)
    BY <1>1, <1>4, <1>5
  <1> QED
    BY <1>1, <1>4, <1>6

carries(g, f, from, batch) ==
    /\ g[0] = f
    /\ \A k \in 1 .. Len(batch) : g[k] = carried(g[k - 1], from + k - 1, batch[k])

LEMMA CarriedAllStepByStep ==
    ASSUME NEW f, NEW first0 \in Nat, NEW batch, Len(batch) \in Nat
    PROVE  \E g : carries(g, f, first0, batch) /\ carriedAll(f, first0, batch) = g[Len(batch)]
  <1> DEFINE m == Len(batch)
             rec(h) == [k \in 0 .. m |-> IF k = 0 THEN f ELSE carried(h[k - 1], first0 + k - 1, batch[k])]
             a == CHOOSE h : h = rec(h)
             data == [first |-> first0, batch |-> batch]
  <1>1. PICK g : runs(g, m, "batch", data, f)
    BY RunsExist
  <1>2. g = rec(g)
    <2>1. data.first = first0 /\ data.batch = batch
      OBVIOUS
    <2> HIDE DEF data
    <2>2. \A k \in 0 .. m : k # 0 => next("batch", data, k, g[k - 1]) = carried(g[k - 1], first0 + k - 1, batch[k])
      BY <2>1 DEF next
    <2> QED
      BY <1>1, <2>2 DEF runs
  <1>3. carriedAll(f, first0, batch) = a[m]
    BY DEF carriedAll
  <1>4. a = rec(a)
    <2> HIDE DEF rec
    <2> QED
      BY <1>2
  <1> HIDE DEF a
  <1>5. \A k \in 0 .. m : a[k] = rec(a)[k]
    BY <1>4
  <1>6. carries(a, f, first0, batch)
    BY <1>5 DEF carries
  <1> QED
    BY <1>3, <1>6

LEMMA BatchComplete ==
    ASSUME NEW given \in Seq(Leaf), NEW batch \in Seq(Leaf), Len(given) + Len(batch) <= MAX_LEAVES,
           NEW f, Complete(f, given)
    PROVE  Complete(carriedAll(f, Len(given), batch), given \o batch)
  <1> DEFINE n == Len(given)
             m == Len(batch)
             M == given \o batch
  <1>1. /\ n \in Nat /\ m \in Nat /\ M \in Seq(Leaf) /\ Len(M) = n + m
        /\ \A k \in 1 .. m : M[n + k] = batch[k]
    OBVIOUS
  <1>2. SubSeq(M, 1, n) = given /\ SubSeq(M, 1, n + m) = M
    <2>1. \A i \in 1 .. n : M[i] \in Leaf /\ M[i] = given[i]
      OBVIOUS
    <2>2. /\ SubSeq(M, 1, n) \in Seq(Leaf) /\ Len(SubSeq(M, 1, n)) = n
          /\ \A i \in 1 .. n : SubSeq(M, 1, n)[i] = M[i]
      BY <1>1, <2>1, SubSeqProperties
    <2>3. SubSeq(M, 1, n) = given
      BY <2>1, <2>2
    <2>4. SubSeq(M, 1, Len(M)) = M
      BY <1>1, SubSeqFull
    <2> QED
      BY <1>1, <2>3, <2>4
  <1>3. PICK g : carries(g, f, n, batch) /\ carriedAll(f, n, batch) = g[m]
    BY <1>1, CarriedAllStepByStep
  <1>4. MAX_LEAVES \in Int
    BY ShiftedStepByStep, DepthIsNat DEF MAX_LEAVES, D
  <1>5. n + m <= MAX_LEAVES /\ Complete(f, given)
    OBVIOUS
  <1> HIDE DEF n, m, M
  <1> DEFINE S == {k \in 0 .. m : Complete(g[k], SubSeq(M, 1, n + k))}
  <1>6. 0 \in S
    <2>1. n + 0 = n /\ 0 \in 0 .. m /\ g[0] = f
      BY <1>1, <1>3 DEF carries
    <2> QED
      BY <1>2, <1>5, <2>1
  <1>7. ASSUME NEW k \in 0 .. m - 1, k \in S
        PROVE  k + 1 \in S
    <2>1. k + 1 \in 1 .. m /\ k + 1 \in 0 .. m /\ (k + 1) - 1 = k /\ n + (k + 1) - 1 = n + k
          /\ n + k \in 0 .. Len(M) - 1 /\ n + (k + 1) = (n + k) + 1 /\ n + k < MAX_LEAVES
      BY <1>1, <1>4, <1>5
    <2>2. /\ SubSeq(M, 1, n + k) \in Seq(Leaf) /\ Len(SubSeq(M, 1, n + k)) = n + k
          /\ M[(n + k) + 1] \in Leaf
          /\ Append(SubSeq(M, 1, n + k), M[(n + k) + 1]) = SubSeq(M, 1, (n + k) + 1)
      BY <1>1, <2>1, OneLonger
    <2>3. M[(n + k) + 1] = batch[k + 1]
      BY <1>1, <2>1
    <2>4. g[k + 1] = carried(g[k], n + k, batch[k + 1])
      <3>1. g[k + 1] = carried(g[(k + 1) - 1], n + (k + 1) - 1, batch[k + 1])
        BY <1>3, <2>1 DEF carries, m
      <3> QED
        BY <2>1, <3>1
    <2>5. Complete(g[k], SubSeq(M, 1, n + k))
      BY <1>7
    <2>6. Complete(carried(g[k], n + k, batch[k + 1]), Append(SubSeq(M, 1, n + k), batch[k + 1]))
      BY <2>1, <2>2, <2>3, <2>5, CarriedComplete
    <2>7. Complete(g[k + 1], SubSeq(M, 1, n + (k + 1)))
      BY <2>1, <2>2, <2>3, <2>4, <2>6
    <2> QED
      BY <2>1, <2>7
  <1>8. 0 .. m \subseteq S
    <2> HIDE DEF S
    <2> QED
      BY <1>1, <1>6, <1>7, UpToInduction
  <1>9. Complete(g[m], M)
    <2>1. m \in 0 .. m
      BY <1>1
    <2>2. Complete(g[m], SubSeq(M, 1, n + m))
      BY <1>8, <2>1
    <2> QED
      BY <1>2, <2>2
  <1> QED
    BY <1>3, <1>9 DEF n, M

LEMMA FoldIsRoot ==
    ASSUME NEW given \in Seq(Leaf), Len(given) <= MAX_LEAVES, Complete(frontier, given)
    PROVE  foldFrontier(Len(given)) = rootOf(given)
  <1> DEFINE n == Len(given)
  <1>1. n \in Nat /\ n < shifted[D] /\ shifted[D] \in Nat
    BY ShiftedStepByStep, DepthIsNat DEF MAX_LEAVES, D
  <1>2. n \in Width(0) /\ \A j \in Width(0) : j \in Nat
    BY <1>1, DepthIsNat DEF Width
  <1>3. \A t \in Level : bit(n, t) = 1 => frontier[t] = nodesOf(given)[t][above(n)[t] - 1]
    BY DEF Complete
  <1>4. nodesOf(given)[0][n] = Zero /\ \A j \in Width(0) : j > n => nodesOf(given)[0][j] = Zero
    <2>1. \A j \in Width(0) : nodesOf(given)[0][j] = IF j < n THEN given[j + 1] ELSE Zero
      BY NodesStepByStep
    <2>2. \A j \in Width(0) : j > n => ~(j < n)
      BY <1>1, <1>2
    <2>3. ~(n < n)
      BY <1>1
    <2> QED
      BY <1>2, <2>1, <2>2, <2>3
  <1> HIDE DEF n
  <1>5. \A t \in 0 .. D : \A j \in Width(t) : j > above(n)[t] => nodesOf(given)[t][j] = zeros[t]
    BY <1>1, <1>4, EmptyBeyond
  <1>6. PICK g : climbs(g, Zero, sideAt(n), padded(frontier, n)) /\ foldFrontier(n) = g[D]
    BY <1>1, FoldStepByStep
  <1> DEFINE side == sideAt(n)  sib == padded(frontier, n)
  <1>7. ASSUME NEW t \in 0 .. D - 1
        PROVE  side[t] = bit(n, t) /\ sib[t] = siblingOf(given, n, t)
    <2>1. t \in Level /\ t \in 0 .. D /\ bit(n, t) \in {0, 1} /\ above(n)[t] \in Nat
      BY <1>1, Halves, DepthIsNat
    <2>2. side[t] = bit(n, t) /\ sib[t] = IF bit(n, t) = 1 THEN frontier[t] ELSE zeros[t]
      BY <2>1 DEF sideAt, padded
    <2>3. CASE bit(n, t) = 1
      BY <1>3, <2>1, <2>2, <2>3 DEF siblingOf
    <2>4. CASE bit(n, t) = 0
      <3>1. above(n)[t] + 1 \in Width(t) /\ above(n)[t] + 1 > above(n)[t]
        BY <1>1, <2>1, <2>4, HasRight
      <3>2. nodesOf(given)[t][above(n)[t] + 1] = zeros[t]
        BY <1>5, <2>1, <3>1
      <3> QED
        BY <2>1, <2>2, <2>4, <3>2 DEF siblingOf
    <2> QED
      BY <2>1, <2>3, <2>4
  <1>8. climbs(g, nodesOf(given)[0][n], side, sib) /\ D \in 0 .. D
    BY <1>4, <1>6, DepthIsNat
  <1> HIDE DEF side, sib
  <1>9. \A t \in 0 .. D : g[t] = nodesOf(given)[t][above(n)[t]]
    <2>1. \A t \in 0 .. D - 1 : side[t] = bit(n, t) /\ sib[t] = siblingOf(given, n, t)
      BY <1>7
    <2>2. meets(given, n, D, side, sib)
      BY <2>1, Zenon DEF meets
    <2>3. n \in Nat /\ n < shifted[D]
      BY <1>1
    <2>4. onPath(given, n, D, g)
      BY <1>8, <2>2, <2>3, WalkMeetsNodes, Zenon
    <2> QED
      BY <2>4, Zenon DEF onPath
  <1>10. g[D] = rootOf(given)
    BY <1>1, <1>8, <1>9, RootIsTop
  <1> QED
    BY <1>6, <1>10 DEF n

-----------------------------------------------------------------------------
(* The frontier and the roots.                                             *)

TreeInv ==
    /\ leaves \in Seq(Leaf) /\ nextLeafIndex = Len(leaves) /\ nextLeafIndex <= MAX_LEAVES
    /\ Complete(frontier, leaves)

LEMMA CapacityIsNat == MAX_LEAVES \in Nat /\ MAX_LEAVES < shifted[D] /\ shifted[D] \in Nat
  BY ShiftedStepByStep, DepthIsNat DEF MAX_LEAVES, D

LEMMA EmptyComplete ==
    ASSUME NEW f, DOMAIN f = Level
    PROVE  Complete(f, <<>>)
  <1>1. \A t \in 0 .. D : above(0)[t] = 0
    <2> DEFINE S == {t \in 0 .. D : above(0)[t] = 0}
    <2>1. 0 \in S
      BY AboveStepByStep, DepthIsNat
    <2>2. ASSUME NEW t \in 0 .. D - 1, t \in S
          PROVE  t + 1 \in S
      BY <2>2, AboveStepByStep, DepthIsNat
    <2>3. 0 .. D \subseteq S
      <3> HIDE DEF S
      <3> QED
        BY <2>1, <2>2, UpToInduction, DepthIsNat
    <2> QED
      BY <2>3
  <1>2. \A t \in Level : bit(0, t) = 0
    BY <1>1, DepthIsNat DEF bit
  <1> QED
    BY <1>2 DEF Complete

LEMMA BatchIsSeq ==
    ASSUME NEW batch \in Batches
    PROVE  batch \in Seq(Leaf) /\ Len(batch) \in Nat \ {0} /\ batch # <<>>
  <1>1. PICK k \in 1 .. MAX_BATCH : batch \in [1 .. k -> Leaf]
    BY DEF Batches
  <1>2. k \in Nat \ {0} /\ batch \in Seq(Leaf) /\ Len(batch) = k
    BY <1>1, TreeAssumption
  <1> QED
    BY <1>2

\* A batch is its front, inserted with carries, and its last leaf, which walks.
LEMMA FrontAndLast ==
    ASSUME NEW batch \in Seq(Leaf), batch # <<>>
    PROVE  LET front == SubSeq(batch, 1, Len(batch) - 1)  last == batch[Len(batch)] IN
           /\ front \in Seq(Leaf) /\ last \in Leaf /\ Len(front) = Len(batch) - 1
           /\ \A given \in Seq(Leaf) : Append(given \o front, last) = given \o batch
                                   /\ given \o front \in Seq(Leaf)
                                   /\ Len(given \o front) = Len(given) + Len(batch) - 1
  <1> DEFINE m == Len(batch)
             front == SubSeq(batch, 1, m - 1)
             last == batch[m]
  <1>1. m \in Nat \ {0} /\ m - 1 \in 0 .. m - 1 /\ (m - 1) + 1 = m
    OBVIOUS
  <1>2. /\ front \in Seq(Leaf) /\ Len(front) = m - 1 /\ last \in Leaf
        /\ Append(front, last) = SubSeq(batch, 1, m)
    BY <1>1, OneLonger
  <1>3. SubSeq(batch, 1, m) = batch
    BY SubSeqFull
  <1>4. ASSUME NEW given \in Seq(Leaf)
        PROVE  /\ Append(given \o front, last) = given \o batch /\ given \o front \in Seq(Leaf)
               /\ Len(given \o front) = Len(given) + m - 1
    <2>1. Append(front, last) = batch
      BY <1>2, <1>3
    <2> HIDE DEF front, last, m
    <2>2. given \o front \in Seq(Leaf) /\ Len(given \o front) = Len(given) + (m - 1)
      BY <1>1, <1>2, SMTT(60)
    <2>3. Append(given \o front, last) = given \o Append(front, last)
      <3>1. <<last>> \in Seq(Leaf)
        BY <1>2
      <3>2. /\ Append(given \o front, last) = (given \o front) \o <<last>>
            /\ Append(front, last) = front \o <<last>>
        BY <1>2, <2>2, AppendIsConcat
      <3>3. (given \o front) \o <<last>> = given \o (front \o <<last>>)
        BY <1>2, <3>1, ConcatAssociative
      <3> QED
        BY <3>2, <3>3
    <2> QED
      BY <1>1, <2>1, <2>2, <2>3
  <1> QED
    BY <1>2, <1>4

LEMMA TreeInitInv == TreeInit => TreeInv
  <1> SUFFICES ASSUME TreeInit
               PROVE  TreeInv
    OBVIOUS
  <1>1. leaves = <<>> /\ nextLeafIndex = 0 /\ DOMAIN frontier = Level
    BY DEF TreeInit
  <1>2. leaves \in Seq(Leaf) /\ Len(leaves) = 0
    BY <1>1
  <1> QED
    BY <1>1, <1>2, EmptyComplete, CapacityIsNat DEF TreeInv

LEMMA OneDeferred ==
    ASSUME TreeInv, NEW leaf \in Leaf, insertLeafDeferred(leaf)
    PROVE  TreeInv' /\ leaves' = Append(leaves, leaf) /\ UNCHANGED <<currentRoot, published>>
  <1>1. /\ nextLeafIndex + 1 <= MAX_LEAVES /\ nextLeafIndex' = nextLeafIndex + 1
        /\ frontier' = carried(frontier, nextLeafIndex, leaf) /\ leaves' = Append(leaves, leaf)
    BY DEF insertLeafDeferred, hasRoom
  <1>2. /\ Len(leaves) \in Nat /\ Len(leaves) < MAX_LEAVES
        /\ Append(leaves, leaf) \in Seq(Leaf) /\ Len(Append(leaves, leaf)) = Len(leaves) + 1
    BY <1>1, CapacityIsNat DEF TreeInv
  <1>3. Complete(carried(frontier, Len(leaves), leaf), Append(leaves, leaf))
    BY <1>2, CarriedComplete DEF TreeInv
  <1>4. TreeInv'
    BY <1>1, <1>2, <1>3 DEF TreeInv
  <1> QED
    BY <1>1, <1>4 DEF insertLeafDeferred

LEMMA BatchDeferred ==
    ASSUME TreeInv, NEW batch \in Batches, insertLeavesDeferred(batch)
    PROVE  TreeInv' /\ leaves' = leaves \o batch /\ UNCHANGED <<currentRoot, published>>
  <1>1. /\ nextLeafIndex + Len(batch) <= MAX_LEAVES /\ nextLeafIndex' = nextLeafIndex + Len(batch)
        /\ frontier' = carriedAll(frontier, nextLeafIndex, batch) /\ leaves' = leaves \o batch
    BY DEF insertLeavesDeferred, hasRoom
  <1>2. batch \in Seq(Leaf) /\ leaves \in Seq(Leaf) /\ Len(leaves) \in Nat /\ Len(batch) \in Nat
    BY BatchIsSeq DEF TreeInv
  <1>3. leaves \o batch \in Seq(Leaf) /\ Len(leaves \o batch) = Len(leaves) + Len(batch)
    BY <1>2
  <1>4. Complete(carriedAll(frontier, Len(leaves), batch), leaves \o batch)
    BY <1>1, <1>2, BatchComplete DEF TreeInv
  <1>5. TreeInv'
    BY <1>1, <1>3, <1>4 DEF TreeInv
  <1> QED
    BY <1>1, <1>5 DEF insertLeavesDeferred

LEMMA OneEager ==
    ASSUME TreeInv, NEW leaf \in Leaf, insertLeaf(leaf)
    PROVE  TreeInv' /\ leaves' = Append(leaves, leaf) /\ pushRoot(rootOf(leaves'))
  <1>1. /\ nextLeafIndex + 1 <= MAX_LEAVES /\ nextLeafIndex' = nextLeafIndex + 1
        /\ frontier' = walked(frontier, nextLeafIndex, leaf) /\ leaves' = Append(leaves, leaf)
        /\ pushRoot(walk(frontier, nextLeafIndex, leaf)[TREE_DEPTH])
    BY DEF insertLeaf, hasRoom
  <1>2. /\ Len(leaves) \in Nat /\ Len(leaves) < MAX_LEAVES
        /\ Append(leaves, leaf) \in Seq(Leaf) /\ Len(Append(leaves, leaf)) = Len(leaves) + 1
    BY <1>1, CapacityIsNat DEF TreeInv
  <1>3. /\ Complete(walked(frontier, Len(leaves), leaf), Append(leaves, leaf))
        /\ walk(frontier, Len(leaves), leaf)[TREE_DEPTH] = rootOf(Append(leaves, leaf))
    BY <1>2, WalkedComplete DEF TreeInv
  <1>4. TreeInv'
    BY <1>1, <1>2, <1>3 DEF TreeInv
  <1>5. walk(frontier, nextLeafIndex, leaf)[TREE_DEPTH] = rootOf(leaves')
    BY <1>1, <1>3 DEF TreeInv
  <1> QED
    BY <1>1, <1>4, <1>5

LEMMA BatchEager ==
    ASSUME TreeInv, NEW batch \in Batches, insertLeaves(batch)
    PROVE  TreeInv' /\ leaves' = leaves \o batch /\ pushRoot(rootOf(leaves'))
  <1> DEFINE n == Len(leaves)
             m == Len(batch)
             front == SubSeq(batch, 1, m - 1)
             lastLeaf == batch[m]
             before0 == carriedAll(frontier, nextLeafIndex, front)
  <1>1. /\ nextLeafIndex + m <= MAX_LEAVES /\ nextLeafIndex' = (nextLeafIndex + m - 1) + 1
        /\ frontier' = walked(before0, nextLeafIndex + m - 1, lastLeaf) /\ leaves' = leaves \o batch
        /\ pushRoot(walk(before0, nextLeafIndex + m - 1, lastLeaf)[TREE_DEPTH])
    BY DEF insertLeaves, hasRoom
  <1>2. batch \in Seq(Leaf) /\ m \in Nat \ {0} /\ batch # <<>> /\ leaves \in Seq(Leaf) /\ n \in Nat
        /\ nextLeafIndex = n /\ Complete(frontier, leaves)
    BY BatchIsSeq DEF TreeInv
  <1>3. /\ front \in Seq(Leaf) /\ lastLeaf \in Leaf /\ Len(front) = m - 1
        /\ Append(leaves \o front, lastLeaf) = leaves \o batch
        /\ leaves \o front \in Seq(Leaf) /\ Len(leaves \o front) = n + m - 1
    BY <1>2, FrontAndLast
  <1>4. leaves \o batch \in Seq(Leaf) /\ Len(leaves \o batch) = n + m
    BY <1>2
  <1> HIDE DEF n, m, front, lastLeaf
  <1>5. n + Len(front) <= MAX_LEAVES /\ Len(leaves \o front) < MAX_LEAVES
    BY <1>1, <1>2, <1>3, CapacityIsNat
  <1>6. Complete(before0, leaves \o front)
    BY <1>2, <1>3, <1>5, BatchComplete DEF n
  <1> HIDE DEF before0
  <1>7. /\ Complete(walked(before0, n + m - 1, lastLeaf), leaves \o batch)
        /\ walk(before0, n + m - 1, lastLeaf)[TREE_DEPTH] = rootOf(leaves \o batch)
    BY <1>3, <1>5, <1>6, WalkedComplete
  <1>8. TreeInv'
    <2>1. nextLeafIndex' = n + m
      BY <1>1, <1>2
    <2> QED
      BY <1>1, <1>2, <1>4, <1>7, <2>1 DEF TreeInv
  <1>9. pushRoot(rootOf(leaves'))
    BY <1>1, <1>2, <1>7
  <1> QED
    BY <1>1, <1>8, <1>9

LEMMA CommitPublishes ==
    ASSUME TreeInv, commitRoot
    PROVE  /\ TreeInv' /\ UNCHANGED leaves
           /\ \/ UNCHANGED treeVars
              \/ rootOf(leaves) # currentRoot /\ pushRoot(rootOf(leaves'))
  <1>1. foldFrontier(nextLeafIndex) = rootOf(leaves)
    BY FoldIsRoot DEF TreeInv
  <1>2. CASE UNCHANGED treeVars
    BY <1>2 DEF TreeInv, treeVars
  <1>3. CASE ~UNCHANGED treeVars
    <2>1. rootOf(leaves) # currentRoot /\ pushRoot(rootOf(leaves))
          /\ UNCHANGED <<frontier, nextLeafIndex, leaves>>
      BY <1>1, <1>3 DEF commitRoot, moved
    <2>2. pushRoot(rootOf(leaves'))
      BY <2>1
    <2>3. TreeInv'
      BY <2>1 DEF TreeInv
    <2> QED
      BY <2>1, <2>2, <2>3
  <1> QED
    BY <1>2, <1>3

LEMMA TreeNextInv == TreeInv /\ [TreeNext]_treeVars => TreeInv'
  <1>1. TreeInv /\ UNCHANGED treeVars => TreeInv'
    BY DEF TreeInv, treeVars
  <1> QED
    BY <1>1, OneDeferred, OneEager, BatchDeferred, BatchEager, CommitPublishes DEF TreeNext

\* docs/09, "Invariant"; GoldilocksIncrementalTree.sol:77-200: whatever mixture of single and batched,
\* eager and deferred inserts put the leaves there, for any depth and any leaves.
THEOREM FrontierStaysComplete == TreeSpec => []FrontierIsComplete
  <1>1. TreeInv => FrontierIsComplete
    BY DEF TreeInv, Complete, FrontierIsComplete
  <1> QED
    BY TreeInitInv, TreeNextInv, <1>1, PTL DEF TreeSpec

\* GoldilocksIncrementalTree.sol:63: a root that enters the ring is the Merkle root of the leaves of its
\* moment, be it folded from the frontier or walked up to by an eager insert.
THEOREM PublishedRootsAreTrees == TreeSpec => PublishedRootIsTree
  <1>1. TreeInv /\ [TreeNext]_treeVars =>
          [published' # published => currentRoot' = rootOf(leaves')]_treeVars
    <2> SUFFICES ASSUME TreeInv, TreeNext, published' # published
                 PROVE  currentRoot' = rootOf(leaves')
      OBVIOUS
    <2>1. ASSUME pushRoot(rootOf(leaves'))
          PROVE  currentRoot' = rootOf(leaves')
      BY <2>1 DEF pushRoot
    <2>2. ASSUME UNCHANGED treeVars
          PROVE  FALSE
      BY <2>2 DEF treeVars
    <2> QED
      BY <2>1, <2>2, OneDeferred, OneEager, BatchDeferred, BatchEager, CommitPublishes DEF TreeNext
  <1> QED
    BY TreeInitInv, TreeNextInv, <1>1, PTL DEF TreeSpec, PublishedRootIsTree

-----------------------------------------------------------------------------
(* The window of roots.                                                    *)

LEMMA HashTells ==
    \A a, b, c, d : hash2(a, b) = hash2(c, d) => a = c /\ b = d
  BY DEF hash2

\* A root is not that of any other leaves.
LEMMA RootTellsLeaves ==
    ASSUME NEW given \in Seq(Leaf), NEW M \in Seq(Leaf), Len(given) <= MAX_LEAVES, Len(M) <= MAX_LEAVES,
           rootOf(given) = rootOf(M)
    PROVE  Len(given) = Len(M)
  <1> DEFINE same(t) == \A j \in Width(t) : nodesOf(given)[t][j] = nodesOf(M)[t][j]
             S == {k \in 0 .. D : same(D - k)}
  <1>1. 0 \in S
    <2>1. D - 0 = D /\ 0 \in 0 .. D /\ D - D = 0
      BY DepthIsNat
    <2>2. Width(D) = 0 .. 0
      BY <2>1, ShiftedStepByStep DEF Width
    <2>3. \A j \in 0 .. 0 : j = 0
      OBVIOUS
    <2>4. same(D)
      BY <2>2, <2>3 DEF rootOf, D
    <2> QED
      BY <2>1, <2>4
  <1>2. ASSUME NEW k \in 0 .. D - 1, k \in S
        PROVE  k + 1 \in S
    <2> DEFINE t == D - k
    <2>1. /\ k + 1 \in 0 .. D /\ t \in 1 .. D /\ D - (k + 1) = t - 1 /\ t - 1 \in 0 .. D
          /\ D - t \in 0 .. D /\ D - (t - 1) \in 1 .. D /\ (D - (t - 1)) - 1 = D - t
      BY DepthIsNat
    <2>2. same(t)
      BY <1>2
    <2> HIDE DEF t
    <2>3. shifted[D - (t - 1)] = 2 * shifted[D - t] /\ shifted[D - t] \in Nat
      BY <2>1, ShiftedStepByStep
    <2>4. ASSUME NEW i \in Width(t - 1)
          PROVE  nodesOf(given)[t - 1][i] = nodesOf(M)[t - 1][i]
      <3> DEFINE j == i \div 2
      <3>1. i \in 0 .. (2 * shifted[D - t]) - 1
        BY <2>3 DEF Width
      <3>2. j \in 0 .. shifted[D - t] - 1 /\ (i = 2 * j \/ i = 2 * j + 1)
        BY <2>3, <3>1
      <3> HIDE DEF j
      <3>3. nodesOf(given)[t][j] = nodesOf(M)[t][j] /\ j \in Width(t)
        BY <2>2, <3>2 DEF Width
      <3>4. /\ nodesOf(given)[t][j] = hash2(nodesOf(given)[t - 1][2 * j], nodesOf(given)[t - 1][2 * j + 1])
            /\ nodesOf(M)[t][j] = hash2(nodesOf(M)[t - 1][2 * j], nodesOf(M)[t - 1][2 * j + 1])
        BY <2>1, <3>3, NodesStepByStep
      <3>5. /\ nodesOf(given)[t - 1][2 * j] = nodesOf(M)[t - 1][2 * j]
            /\ nodesOf(given)[t - 1][2 * j + 1] = nodesOf(M)[t - 1][2 * j + 1]
        <4> DEFINE a == nodesOf(given)[t - 1][2 * j]
                   b == nodesOf(given)[t - 1][2 * j + 1]
                   c == nodesOf(M)[t - 1][2 * j]
                   d == nodesOf(M)[t - 1][2 * j + 1]
        <4>1. hash2(a, b) = hash2(c, d)
          BY <3>3, <3>4
        <4> HIDE DEF a, b, c, d
        <4>2. a = c /\ b = d
          BY <4>1, HashTells
        <4> QED
          BY <4>2 DEF a, b, c, d
      <3> QED
        BY <3>2, <3>5
    <2>5. same(t - 1)
      BY <2>4
    <2> QED
      BY <2>1, <2>5
  <1>3. 0 .. D \subseteq S
    <2> HIDE DEF S
    <2> QED
      BY <1>1, <1>2, UpToInduction, DepthIsNat
  <1>4. same(0)
    <2>1. D \in S /\ D - D = 0
      BY <1>3, DepthIsNat
    <2> QED
      BY <2>1
  <1>5. \A j \in Width(0) : (IF j < Len(given) THEN given[j + 1] ELSE Zero) = (IF j < Len(M) THEN M[j + 1] ELSE Zero)
    BY <1>4, NodesStepByStep
  <1>6. /\ Len(given) \in Nat /\ Len(M) \in Nat /\ Len(given) \in Width(0) /\ Len(M) \in Width(0)
    <2>1. D - 0 = D
      BY DepthIsNat
    <2> QED
      BY <2>1, CapacityIsNat DEF Width
  <1>7. CASE Len(given) < Len(M)
    <2>1. Len(given) + 1 \in 1 .. Len(M) /\ ~(Len(given) < Len(given))
      BY <1>6, <1>7
    <2>2. M[Len(given) + 1] = Zero
      BY <1>5, <1>6, <1>7, <2>1
    <2>3. M[Len(given) + 1] \in Leaf
      BY <2>1
    <2> QED
      BY <2>2, <2>3, TreeAssumption
  <1>8. CASE Len(M) < Len(given)
    <2>1. Len(M) + 1 \in 1 .. Len(given) /\ ~(Len(M) < Len(M))
      BY <1>6, <1>8
    <2>2. given[Len(M) + 1] = Zero
      BY <1>5, <1>6, <1>8, <2>1
    <2>3. given[Len(M) + 1] \in Leaf
      BY <2>1
    <2> QED
      BY <2>2, <2>3, TreeAssumption
  <1> QED
    BY <1>6, <1>7, <1>8

rootAt(n) == rootOf(SubSeq(leaves, 1, n))

LEMMA PrefixOf ==
    ASSUME NEW given \in Seq(Leaf), NEW n \in 0 .. Len(given)
    PROVE  /\ SubSeq(given, 1, n) \in Seq(Leaf) /\ Len(SubSeq(given, 1, n)) = n
           /\ \A i \in 1 .. n : SubSeq(given, 1, n)[i] = given[i]
  <1>1. Len(given) \in Nat /\ \A i \in 1 .. n : given[i] \in Leaf
    OBVIOUS
  <1> QED
    BY <1>1, SubSeqProperties

LEMMA RootsAtDiffer ==
    ASSUME TreeInv, NEW m \in 0 .. Len(leaves), NEW n \in 0 .. Len(leaves), rootAt(m) = rootAt(n)
    PROVE  m = n
  <1>1. leaves \in Seq(Leaf) /\ Len(leaves) \in Nat /\ Len(leaves) <= MAX_LEAVES
    BY DEF TreeInv
  <1>2. /\ SubSeq(leaves, 1, m) \in Seq(Leaf) /\ Len(SubSeq(leaves, 1, m)) = m
        /\ SubSeq(leaves, 1, n) \in Seq(Leaf) /\ Len(SubSeq(leaves, 1, n)) = n
    BY <1>1, PrefixOf
  <1>3. m <= MAX_LEAVES /\ n <= MAX_LEAVES
    BY <1>1, CapacityIsNat
  <1> QED
    BY <1>2, <1>3, RootTellsLeaves DEF rootAt

LEMMA RootNow ==
    ASSUME TreeInv
    PROVE  rootAt(Len(leaves)) = rootOf(leaves) /\ Len(leaves) \in Nat
  <1>1. leaves \in Seq(Leaf) /\ Len(leaves) \in Nat
    BY DEF TreeInv
  <1>2. SubSeq(leaves, 1, Len(leaves)) = leaves
    BY <1>1, SubSeqFull
  <1> QED
    BY <1>1, <1>2 DEF rootAt

\* Leaves are only added, so the roots of the past stay what they were.
Extends ==
    /\ Len(leaves) <= Len(leaves')
    /\ \A i \in 1 .. Len(leaves) : leaves'[i] = leaves[i]

LEMMA RootsStay ==
    ASSUME TreeInv, TreeInv', Extends, NEW n \in 0 .. Len(leaves)
    PROVE  rootAt(n)' = rootAt(n) /\ n \in 0 .. Len(leaves')
  <1>1. leaves \in Seq(Leaf) /\ leaves' \in Seq(Leaf) /\ Len(leaves) \in Nat /\ Len(leaves') \in Nat
    BY DEF TreeInv
  <1>2. n \in 0 .. Len(leaves')
    BY <1>1 DEF Extends
  <1>3. /\ SubSeq(leaves, 1, n) \in Seq(Leaf) /\ Len(SubSeq(leaves, 1, n)) = n
        /\ \A i \in 1 .. n : SubSeq(leaves, 1, n)[i] = leaves[i]
    BY <1>1, PrefixOf
  <1>4. /\ SubSeq(leaves', 1, n) \in Seq(Leaf) /\ Len(SubSeq(leaves', 1, n)) = n
        /\ \A i \in 1 .. n : SubSeq(leaves', 1, n)[i] = leaves'[i]
    BY <1>1, <1>2, PrefixOf
  <1>5. \A i \in 1 .. n : leaves'[i] = leaves[i]
    BY <1>1 DEF Extends
  <1>6. SubSeq(leaves', 1, n) = SubSeq(leaves, 1, n)
    BY <1>3, <1>4, <1>5
  <1> QED
    BY <1>2, <1>6 DEF rootAt

\* The roots were published in the order of the leaves they are of.
Rooted(i, n) == n \in 0 .. Len(leaves) /\ published[i] = rootAt(n)
OrderInv ==
    /\ \E X : published \in Seq(X)
    /\ Len(published) \in Nat \ {0} /\ currentRoot = published[Len(published)]
    /\ \A i \in 1 .. Len(published) : \E n : Rooted(i, n)
    /\ \A i \in 1 .. Len(published) : \A k \in 1 .. i - 1 :
          \E m, n : Rooted(k, m) /\ Rooted(i, n) /\ m < n

LEMMA PublishedDiffer ==
    ASSUME TreeInv, OrderInv, NEW i \in 1 .. Len(published), NEW k \in 1 .. Len(published), i # k
    PROVE  published[i] # published[k]
  <1>1. ASSUME NEW a \in 1 .. Len(published), NEW b \in 1 .. a - 1, published[a] = published[b]
        PROVE  FALSE
    <2>1. PICK m, n : Rooted(b, m) /\ Rooted(a, n) /\ m < n
      BY DEF OrderInv
    <2>2. rootAt(m) = rootAt(n) /\ m \in 0 .. Len(leaves) /\ n \in 0 .. Len(leaves)
      BY <1>1, <2>1 DEF Rooted
    <2>3. m = n
      BY <2>2, RootsAtDiffer
    <2> QED
      BY <2>1, <2>2, <2>3
  <1>2. Len(published) \in Nat
    BY DEF OrderInv
  <1>3. i \in 1 .. k - 1 \/ k \in 1 .. i - 1
    BY <1>2
  <1> QED
    BY <1>1, <1>3

\* Every transition of the tree: leaves only grow, and a root goes into the ring only if leaves came
\* or it is not the root that is there.
Publishes ==
    /\ pushRoot(rootOf(leaves'))
    /\ Len(leaves) < Len(leaves') \/ rootOf(leaves') # currentRoot
KeepsRoots == UNCHANGED <<currentRoot, rootRing, rootRingIndex, knownRoot, published>>

LEMMA Grows ==
    ASSUME TreeInv, NEW more \in Seq(Leaf), leaves' = leaves \o more
    PROVE  Extends /\ Len(leaves') = Len(leaves) + Len(more)
  <1>1. leaves \in Seq(Leaf) /\ Len(leaves) \in Nat /\ Len(more) \in Nat
    BY DEF TreeInv
  <1>2. /\ Len(leaves \o more) = Len(leaves) + Len(more)
        /\ \A i \in 1 .. Len(leaves) : (leaves \o more)[i] = leaves[i]
    BY <1>1
  <1> QED
    BY <1>1, <1>2 DEF Extends

LEMMA GrowsByOne ==
    ASSUME TreeInv, NEW leaf \in Leaf, leaves' = Append(leaves, leaf)
    PROVE  Extends /\ Len(leaves') = Len(leaves) + 1
  <1>1. leaves \in Seq(Leaf) /\ Len(leaves) \in Nat
    BY DEF TreeInv
  <1>2. /\ Len(Append(leaves, leaf)) = Len(leaves) + 1
        /\ \A i \in 1 .. Len(leaves) : Append(leaves, leaf)[i] = leaves[i]
    BY <1>1
  <1> QED
    BY <1>1, <1>2 DEF Extends

LEMMA EveryStep ==
    ASSUME TreeInv, [TreeNext]_treeVars
    PROVE  TreeInv' /\ Extends /\ (Publishes \/ KeepsRoots)
  <1>1. TreeInv'
    BY TreeNextInv
  <1>2. Len(leaves) \in Nat
    BY DEF TreeInv
  <1>3. ASSUME UNCHANGED leaves
        PROVE  Extends
    BY <1>2, <1>3 DEF Extends
  <1>4. CASE UNCHANGED treeVars
    BY <1>1, <1>3, <1>4 DEF treeVars, KeepsRoots
  <1>5. ASSUME NEW leaf \in Leaf, insertLeafDeferred(leaf)
        PROVE  Extends /\ KeepsRoots
    BY <1>5, OneDeferred, GrowsByOne DEF KeepsRoots, insertLeafDeferred
  <1>6. ASSUME NEW leaf \in Leaf, insertLeaf(leaf)
        PROVE  Extends /\ Publishes
    <2>1. leaves' = Append(leaves, leaf) /\ pushRoot(rootOf(leaves'))
      BY <1>6, OneEager
    <2>2. Extends /\ Len(leaves') = Len(leaves) + 1
      BY <2>1, GrowsByOne
    <2>3. Len(leaves) < Len(leaves')
      BY <1>2, <2>2
    <2> QED
      BY <2>1, <2>2, <2>3 DEF Publishes
  <1>7. ASSUME NEW batch \in Batches, insertLeavesDeferred(batch)
        PROVE  Extends /\ KeepsRoots
    <2>1. leaves' = leaves \o batch /\ batch \in Seq(Leaf)
      BY <1>7, BatchDeferred, BatchIsSeq
    <2> QED
      BY <1>7, <2>1, Grows DEF KeepsRoots, insertLeavesDeferred
  <1>8. ASSUME NEW batch \in Batches, insertLeaves(batch)
        PROVE  Extends /\ Publishes
    <2>1. leaves' = leaves \o batch /\ pushRoot(rootOf(leaves'))
      BY <1>8, BatchEager
    <2>2. batch \in Seq(Leaf) /\ Len(batch) \in Nat \ {0}
      BY BatchIsSeq
    <2>3. Extends /\ Len(leaves') = Len(leaves) + Len(batch)
      BY <2>1, <2>2, Grows
    <2>4. Len(leaves) < Len(leaves')
      BY <1>2, <2>2, <2>3
    <2> QED
      BY <2>1, <2>3, <2>4 DEF Publishes
  <1>9. ASSUME commitRoot
        PROVE  Extends /\ (Publishes \/ KeepsRoots)
    <2>1. UNCHANGED leaves
      BY <1>9, CommitPublishes
    <2>2. CASE UNCHANGED treeVars
      BY <2>1, <2>2, <1>3 DEF treeVars, KeepsRoots
    <2>3. CASE rootOf(leaves) # currentRoot /\ pushRoot(rootOf(leaves'))
      BY <2>1, <2>3, <1>3 DEF Publishes
    <2> QED
      BY <1>9, <2>2, <2>3, CommitPublishes
  <1> QED
    BY <1>1, <1>4, <1>5, <1>6, <1>7, <1>8, <1>9 DEF TreeNext

LEMMA Pushed ==
    ASSUME OrderInv, NEW root, pushRoot(root)
    PROVE  /\ Len(published) \in Nat \ {0} /\ Len(published') = Len(published) + 1
           /\ \A i \in 1 .. Len(published) : published'[i] = published[i]
           /\ published'[Len(published) + 1] = root
           /\ \E X : published' \in Seq(X)
  <1>1. PICK X : published \in Seq(X)
    BY DEF OrderInv
  <1>2. published \in Seq(X \cup {root}) /\ root \in X \cup {root}
    BY <1>1
  <1>3. published' = Append(published, root) /\ Len(published) \in Nat \ {0}
    BY DEF pushRoot, OrderInv
  <1> QED
    BY <1>2, <1>3, AppendProperties

LEMMA OrderKept ==
    ASSUME TreeInv, TreeInv', OrderInv, Extends, Publishes
    PROVE  OrderInv'
  <1>0. PICK np, n1 : np = Len(published) /\ n1 = Len(leaves')
    OBVIOUS
  <1>1. /\ np \in Nat \ {0} /\ Len(published') = np + 1
        /\ \A i \in 1 .. np : published'[i] = published[i]
        /\ published'[np + 1] = rootOf(leaves')
        /\ \E X : published' \in Seq(X)
    BY <1>0, Pushed DEF Publishes
  <1>2. Len(leaves) \in Nat /\ n1 \in Nat /\ Len(leaves) <= n1
    BY <1>0 DEF TreeInv, Extends
  <1>3. ASSUME NEW i \in 1 .. np, NEW n, Rooted(i, n)
        PROVE  Rooted(i, n)' /\ n \in 0 .. Len(leaves)
    <2>1. n \in 0 .. Len(leaves) /\ published[i] = rootAt(n)
      BY <1>3 DEF Rooted
    <2>2. rootAt(n)' = rootAt(n) /\ n \in 0 .. Len(leaves')
      BY <2>1, RootsStay
    <2>3. published'[i] = published[i]
      BY <1>1
    <2> QED
      BY <2>1, <2>2, <2>3 DEF Rooted
  <1>4. rootAt(n1)' = rootOf(leaves')
    <2>1. leaves' \in Seq(Leaf) /\ Len(leaves') \in Nat
      BY DEF TreeInv
    <2>2. SubSeq(leaves', 1, Len(leaves')) = leaves'
      BY <2>1, SubSeqFull
    <2>3. SubSeq(leaves', 1, n1) = leaves'
      BY <1>0, <2>2
    <2> QED
      BY <2>3 DEF rootAt
  <1>5. Rooted(np + 1, n1)'
    <2>1. n1 \in 0 .. Len(leaves')
      BY <1>0, <1>2
    <2> QED
      BY <1>1, <1>4, <2>1 DEF Rooted
  <1>6. ASSUME NEW k \in 1 .. np, NEW m, Rooted(k, m)
        PROVE  m < n1
    <2>1. m \in 0 .. Len(leaves) /\ published[k] = rootAt(m)
      BY <1>6 DEF Rooted
    <2>2. CASE Len(leaves) < n1
      BY <1>2, <2>1, <2>2
    <2>3. CASE ~(Len(leaves) < n1)
      <3>1. Len(leaves) = n1
        BY <1>2, <2>3
      <3>2. rootOf(leaves') # currentRoot /\ currentRoot = published[np] /\ np \in 1 .. np
        BY <1>0, <1>1, <2>3 DEF Publishes, OrderInv
      <3>3. rootAt(n1)' = rootAt(n1)
        <4>1. n1 \in 0 .. Len(leaves)
          BY <3>1, <1>2
        <4> QED
          BY <4>1, RootsStay
      <3>4. ASSUME m = n1
            PROVE  FALSE
        <4>1. published[k] # published[np]
          BY <1>4, <2>1, <3>2, <3>3, <3>4
        <4>2. k \in 1 .. np - 1
          BY <1>1, <4>1
        <4>3. PICK m2, n2 : Rooted(k, m2) /\ Rooted(np, n2) /\ m2 < n2
          BY <1>0, <3>2, <4>2 DEF OrderInv
        <4>4. m2 \in 0 .. Len(leaves) /\ n2 \in 0 .. Len(leaves) /\ rootAt(m2) = rootAt(m)
          BY <2>1, <4>3 DEF Rooted
        <4>5. m2 = m
          BY <2>1, <4>4, RootsAtDiffer
        <4> QED
          BY <1>2, <3>1, <3>4, <4>3, <4>4, <4>5
      <3> QED
        BY <1>2, <2>1, <3>1, <3>4
    <2> QED
      BY <2>2, <2>3
  <1>7. ASSUME NEW i \in 1 .. np + 1
        PROVE  \E n : Rooted(i, n)'
    <2>1. CASE i = np + 1
      BY <1>5, <2>1
    <2>2. CASE i \in 1 .. np
      <3>1. PICK n : Rooted(i, n)
        BY <1>0, <2>2 DEF OrderInv
      <3> QED
        BY <1>3, <2>2, <3>1
    <2> QED
      BY <1>1, <2>1, <2>2
  <1>8. ASSUME NEW i \in 1 .. np + 1, NEW k \in 1 .. i - 1
        PROVE  \E m, n : Rooted(k, m)' /\ Rooted(i, n)' /\ m < n
    <2>1. k \in 1 .. np
      BY <1>1
    <2>2. CASE i = np + 1
      <3>1. PICK m : Rooted(k, m)
        BY <1>0, <2>1 DEF OrderInv
      <3> QED
        <4>1. Rooted(k, m)' /\ m < n1
          BY <1>3, <1>6, <2>1, <3>1
        <4>2. Rooted(i, n1)'
          BY <1>5, <2>2
        <4> QED
          BY <4>1, <4>2
    <2>3. CASE i \in 1 .. np
      <3>1. PICK m, n : Rooted(k, m) /\ Rooted(i, n) /\ m < n
        BY <1>0, <2>3 DEF OrderInv
      <3> QED
        BY <1>3, <2>1, <2>3, <3>1
    <2> QED
      BY <1>1, <2>2, <2>3
  <1>9. /\ Len(published') = np + 1 /\ np + 1 \in Nat \ {0} /\ currentRoot' = published'[np + 1]
        /\ \E X : published' \in Seq(X)
    BY <1>1 DEF Publishes, pushRoot
  <1> QED
    BY <1>7, <1>8, <1>9 DEF OrderInv

LEMMA EmptyRoot == rootOf(<<>>) = zeros[TREE_DEPTH]
  <1> DEFINE S == {t \in 0 .. D : \A j \in Width(t) : nodesOf(<<>>)[t][j] = zeros[t]}
  <1>1. 0 \in S
    <2>1. \A j \in Width(0) : j \in Nat /\ nodesOf(<<>>)[0][j] = IF j < Len(<<>>) THEN <<>>[j + 1] ELSE Zero
      BY NodesStepByStep DEF Width
    <2>2. Len(<<>>) = 0 /\ \A j \in Nat : ~(j < 0)
      OBVIOUS
    <2>3. zeros[0] = Zero /\ 0 \in 0 .. D
      BY ZerosStepByStep, DepthIsNat
    <2> QED
      BY <2>1, <2>2, <2>3
  <1>2. ASSUME NEW t \in 0 .. D - 1, t \in S
        PROVE  t + 1 \in S
    <2>1. t + 1 \in 1 .. D /\ t + 1 \in 0 .. D /\ (t + 1) - 1 = t
      BY DepthIsNat
    <2>2. ASSUME NEW j \in Width(t + 1)
          PROVE  nodesOf(<<>>)[t + 1][j] = zeros[t + 1]
      <3>1. 2 * j \in Width(t) /\ 2 * j + 1 \in Width(t)
        BY <2>1, Children
      <3>2. nodesOf(<<>>)[t + 1][j] = hash2(nodesOf(<<>>)[t][2 * j], nodesOf(<<>>)[t][2 * j + 1])
        BY <2>1, NodesStepByStep
      <3>3. nodesOf(<<>>)[t][2 * j] = zeros[t] /\ nodesOf(<<>>)[t][2 * j + 1] = zeros[t]
        BY <1>2, <3>1
      <3>4. zeros[t + 1] = hash2(zeros[t], zeros[t])
        BY <2>1, ZerosStepByStep
      <3> QED
        BY <3>2, <3>3, <3>4
    <2> QED
      BY <2>1, <2>2
  <1>3. D \in S
    <2>1. 0 .. D \subseteq S
      <3> HIDE DEF S
      <3> QED
        BY <1>1, <1>2, UpToInduction, DepthIsNat
    <2>2. D \in 0 .. D
      BY DepthIsNat
    <2> QED
      BY <2>1, <2>2
  <1>4. 0 \in Width(D)
    <2>1. D - D = 0 /\ 0 \in 0 .. 1 - 1
      BY DepthIsNat
    <2> QED
      BY <2>1, ShiftedStepByStep DEF Width
  <1> QED
    BY <1>3, <1>4 DEF rootOf, D

\* A root is a digest.
LEMMA NeverZero ==
    ASSUME TreeInv, OrderInv, \A l, r : Zero # hash2(l, r), NEW i \in 1 .. Len(published)
    PROVE  published[i] # Zero
  <1>1. PICK n : Rooted(i, n)
    BY DEF OrderInv
  <1>2. published[i] = rootOf(SubSeq(leaves, 1, n))
    BY <1>1 DEF Rooted, rootAt
  <1> DEFINE given == SubSeq(leaves, 1, n)
  <1>3. rootOf(given) = nodesOf(given)[D][0]
    BY DEF rootOf, D
  <1> HIDE DEF given
  <1>4. D \in 1 .. D /\ D - D = 0 /\ 0 \in 0 .. 1 - 1
    BY TreeAssumption DEF D
  <1>5. 0 \in Width(D)
    BY <1>4, ShiftedStepByStep DEF Width
  <1>6. nodesOf(given)[D][0] = hash2(nodesOf(given)[D - 1][2 * 0], nodesOf(given)[D - 1][2 * 0 + 1])
    BY <1>4, <1>5, NodesStepByStep
  <1>7. nodesOf(given)[D][0] # Zero
    BY <1>6
  <1> QED
    BY <1>2, <1>3, <1>7 DEF given

LEMMA OrderStays ==
    ASSUME TreeInv, OrderInv, Extends, KeepsRoots, TreeInv'
    PROVE  OrderInv'
  <1>1. published' = published /\ currentRoot' = currentRoot
    BY DEF KeepsRoots
  <1>2. ASSUME NEW i, NEW n, Rooted(i, n)
        PROVE  Rooted(i, n)'
    <2>1. n \in 0 .. Len(leaves) /\ published[i] = rootAt(n)
      BY <1>2 DEF Rooted
    <2> QED
      BY <1>1, <2>1, RootsStay DEF Rooted
  <1>3. ASSUME NEW i \in 1 .. Len(published)
        PROVE  \E n : Rooted(i, n)'
    BY <1>2 DEF OrderInv
  <1>4. ASSUME NEW i \in 1 .. Len(published), NEW k \in 1 .. i - 1
        PROVE  \E m, n : Rooted(k, m)' /\ Rooted(i, n)' /\ m < n
    BY <1>2 DEF OrderInv
  <1>5. Len(published') \in Nat \ {0} /\ (\E X : published' \in Seq(X)) /\ currentRoot' = published'[Len(published')]
    BY <1>1 DEF OrderInv
  <1> QED
    BY <1>1, <1>3, <1>4, <1>5 DEF OrderInv

LEMMA OrderInit == TreeInit => OrderInv
  <1> SUFFICES ASSUME TreeInit
               PROVE  OrderInv
    OBVIOUS
  <1> DEFINE e == zeros[TREE_DEPTH]
  <1>1. /\ leaves = <<>> /\ nextLeafIndex = 0 /\ published = <<e>> /\ currentRoot = e
    BY DEF TreeInit
  <1>2. TreeInv
    BY TreeInitInv
  <1>3. rootOf(leaves) = e
    BY <1>1, <1>2, EmptyRoot
  <1> HIDE DEF e
  <1>4. /\ published \in Seq({e}) /\ Len(published) = 1 /\ published[1] = e
    BY <1>1
  <1>5. rootAt(Len(leaves)) = rootOf(leaves) /\ Len(leaves) = 0
    BY <1>1, <1>2, RootNow
  <1>6. Rooted(1, 0)
    BY <1>3, <1>4, <1>5 DEF Rooted
  <1>7. \A i \in 1 .. 1 : i = 1 /\ 1 .. i - 1 = {}
    OBVIOUS
  <1> QED
    <2>1. \E X : published \in Seq(X)
      BY <1>4
    <2>2. Len(published) \in Nat \ {0} /\ currentRoot = published[Len(published)]
      BY <1>1, <1>4
    <2>3. \A i \in 1 .. Len(published) : \E m : Rooted(i, m)
      BY <1>4, <1>6, <1>7
    <2>4. \A i \in 1 .. Len(published) : \A k \in 1 .. i - 1 :
            \E m, n : Rooted(k, m) /\ Rooted(i, n) /\ m < n
      BY <1>4, <1>7
    <2> QED
      BY <2>1, <2>2, <2>3, <2>4 DEF OrderInv

-----------------------------------------------------------------------------
(* The ring.                                                               *)

wide == ROOT_WINDOW

\* The slot of the root published d roots ago.
back(d) == IF d <= rootRingIndex THEN rootRingIndex - d ELSE rootRingIndex - d + wide

\* The ring holds the last wide roots, newest at its cursor, and knownRoot is what the ring holds.
RingInv ==
    /\ rootRingIndex \in 0 .. wide - 1 /\ DOMAIN rootRing = 0 .. wide - 1
    /\ rootRing = [s \in DOMAIN rootRing |-> rootRing[s]]
    /\ \A d \in 0 .. wide - 1 :
          rootRing[back(d)] = IF d < Len(published) THEN published[Len(published) - d] ELSE Zero
    /\ \A root : root \in knownRoot <=>
          \E i \in 1 .. Len(published) : i > Len(published) - wide /\ published[i] = root

LEMMA RingInit == TreeInit => RingInv
  <1> SUFFICES ASSUME TreeInit
               PROVE  RingInv
    OBVIOUS
  <1> DEFINE e == zeros[TREE_DEPTH]
  <1>1. /\ rootRing = [s \in 0 .. wide - 1 |-> IF s = 0 THEN e ELSE Zero]
        /\ rootRingIndex = 0 /\ knownRoot = {e} /\ published = <<e>>
    BY DEF TreeInit, wide
  <1> HIDE DEF e
  <1>2. wide \in Nat \ {0}
    BY TreeAssumption DEF wide
  <1>3. Len(published) = 1 /\ published[1] = e
    BY <1>1
  <1>4. ASSUME NEW d \in 0 .. wide - 1
        PROVE  rootRing[back(d)] = IF d < Len(published) THEN published[Len(published) - d] ELSE Zero
    <2>1. CASE d = 0
      <3>1. back(d) = 0 /\ 0 \in 0 .. wide - 1
        BY <1>1, <1>2, <2>1 DEF back
      <3> QED
        BY <1>1, <1>3, <2>1, <3>1
    <2>2. CASE d # 0
      <3>1. back(d) = wide - d /\ wide - d \in 0 .. wide - 1 /\ wide - d # 0 /\ ~(d < 1)
        BY <1>1, <1>2, <2>2 DEF back
      <3> QED
        BY <1>1, <1>3, <3>1
    <2> QED
      BY <2>1, <2>2
  <1>5. \A root : root \in knownRoot <=>
          \E i \in 1 .. Len(published) : i > Len(published) - wide /\ published[i] = root
    <2>1. 1 \in 1 .. 1 /\ 1 > 1 - wide
      BY <1>2
    <2>2. \A i \in 1 .. 1 : i = 1
      OBVIOUS
    <2> QED
      BY <1>1, <1>3, <2>1, <2>2
  <1> QED
    BY <1>1, <1>2, <1>4, <1>5 DEF RingInv

\* A push moves the cursor on: every root in the ring is one further back, and the oldest gives way.
LEMMA SlotsMove ==
    ASSUME RingInv, rootRingIndex' = (rootRingIndex + 1) % wide
    PROVE  /\ rootRingIndex' \in 0 .. wide - 1 /\ back(0)' = rootRingIndex' /\ back(wide - 1) = rootRingIndex'
           /\ \A d \in 1 .. wide - 1 : /\ back(d)' = back(d - 1) /\ back(d)' # rootRingIndex'
                                    /\ back(d)' \in 0 .. wide - 1
  <1>1. wide \in Nat \ {0} /\ rootRingIndex \in 0 .. wide - 1
    BY TreeAssumption DEF wide, RingInv
  <1>2. rootRingIndex' = IF rootRingIndex + 1 = wide THEN 0 ELSE rootRingIndex + 1
    BY <1>1
  <1>3. rootRingIndex' \in 0 .. wide - 1 /\ back(0)' = rootRingIndex' /\ back(wide - 1) = rootRingIndex'
    BY <1>1, <1>2 DEF back, wide
  <1>4. ASSUME NEW d \in 1 .. wide - 1
        PROVE  /\ back(d)' = back(d - 1) /\ back(d)' # rootRingIndex' /\ back(d)' \in 0 .. wide - 1
    <2>1. back(d)' = IF d <= rootRingIndex' THEN rootRingIndex' - d ELSE rootRingIndex' - d + wide
      BY DEF back, wide
    <2>2. back(d - 1) = IF d - 1 <= rootRingIndex THEN rootRingIndex - (d - 1) ELSE rootRingIndex - (d - 1) + wide
      BY DEF back
    <2> QED
      BY <1>1, <1>2, <2>1, <2>2
  <1> QED
    BY <1>3, <1>4

LEMMA RingStays ==
    ASSUME RingInv, KeepsRoots
    PROVE  RingInv'
  BY DEF RingInv, KeepsRoots, back, wide

LEMMA RingKept ==
    ASSUME TreeInv, OrderInv, RingInv, NEW root, pushRoot(root), \A l, r : Zero # hash2(l, r)
    PROVE  RingInv'
  <1>0. PICK np, slot : np = Len(published) /\ slot = rootRingIndex'
    OBVIOUS
  <1>1. /\ np \in Nat \ {0} /\ Len(published') = np + 1
        /\ \A i \in 1 .. np : published'[i] = published[i]
        /\ published'[np + 1] = root
    BY <1>0, Pushed
  <1>2. wide \in Nat \ {0}
    BY TreeAssumption DEF wide
  <1>3. /\ rootRingIndex' = (rootRingIndex + 1) % wide /\ rootRing' = [rootRing EXCEPT ![slot] = root]
        /\ knownRoot' = (knownRoot \ {rootRing[slot]}) \cup {root}
    BY <1>0 DEF pushRoot, evict, wide
  <1>4. /\ slot \in 0 .. wide - 1 /\ back(0)' = slot /\ back(wide - 1) = slot
        /\ \A d \in 1 .. wide - 1 : /\ back(d)' = back(d - 1) /\ back(d)' # slot /\ back(d)' \in 0 .. wide - 1
    BY <1>0, <1>3, SlotsMove
  <1>5. /\ DOMAIN rootRing = 0 .. wide - 1 /\ DOMAIN rootRing' = 0 .. wide - 1
        /\ rootRing' = [s \in DOMAIN rootRing' |-> rootRing'[s]]
        /\ rootRing'[slot] = root
        /\ \A s \in 0 .. wide - 1 : s # slot => rootRing'[s] = rootRing[s]
    BY <1>3, <1>4 DEF RingInv
  <1>6. ASSUME NEW d \in 0 .. wide - 1
        PROVE  rootRing'[back(d)'] = IF d < np + 1 THEN published'[np + 1 - d] ELSE Zero
    <2>1. CASE d = 0
      BY <1>1, <1>4, <1>5, <2>1
    <2>2. CASE d # 0
      <3>1. d \in 1 .. wide - 1 /\ d - 1 \in 0 .. wide - 1
        BY <2>2, <1>2
      <3>2. rootRing'[back(d)'] = rootRing[back(d - 1)]
        BY <1>4, <1>5, <3>1
      <3>3. rootRing[back(d - 1)] = IF d - 1 < np THEN published[np - (d - 1)] ELSE Zero
        BY <1>0, <3>1 DEF RingInv
      <3>4. /\ (d < np + 1) <=> (d - 1 < np)
            /\ d - 1 < np => np + 1 - d = np - (d - 1) /\ np + 1 - d \in 1 .. np
        BY <1>1, <3>1
      <3> QED
        BY <1>1, <3>2, <3>3, <3>4
    <2> QED
      BY <2>1, <2>2
  <1>7. rootRing[slot] = IF wide - 1 < np THEN published[np - (wide - 1)] ELSE Zero
    <2>1. wide - 1 \in 0 .. wide - 1
      BY <1>2
    <2> QED
      BY <1>0, <1>4, <2>1 DEF RingInv
  <1>8. \A i \in 1 .. np : published[i] # Zero
    BY <1>0, NeverZero
  <1>9. \A i, k \in 1 .. np : i # k => published[i] # published[k]
    BY <1>0, PublishedDiffer
  <1>10. ASSUME NEW r
         PROVE  r \in knownRoot' <=> \E i \in 1 .. np + 1 : i > np + 1 - wide /\ published'[i] = r
    <2>1. r \in knownRoot <=> \E i \in 1 .. np : i > np - wide /\ published[i] = r
      BY <1>0 DEF RingInv
    <2>2. CASE r = root
      <3>1. np + 1 \in 1 .. np + 1 /\ np + 1 > np + 1 - wide
        BY <1>1, <1>2
      <3> QED
        BY <1>1, <1>3, <2>2, <3>1
    <2>3. ASSUME r # root, r \in knownRoot'
          PROVE  \E i \in 1 .. np + 1 : i > np + 1 - wide /\ published'[i] = r
      <3>1. PICK i \in 1 .. np : i > np - wide /\ published[i] = r
        BY <1>3, <2>1, <2>3
      <3>2. r # rootRing[slot]
        BY <1>3, <2>3
      <3>3. i # np + 1 - wide
        <4> SUFFICES ASSUME i = np + 1 - wide
                     PROVE  FALSE
          OBVIOUS
        <4>1. wide - 1 < np /\ np - (wide - 1) = i
          BY <1>1, <1>2
        <4> QED
          BY <1>7, <3>1, <3>2, <4>1
      <3>4. i \in 1 .. np + 1 /\ i > np + 1 - wide
        BY <1>1, <1>2, <3>1, <3>3
      <3> QED
        BY <1>1, <3>1, <3>4
    <2>4. ASSUME r # root, NEW i \in 1 .. np + 1, i > np + 1 - wide, published'[i] = r
          PROVE  r \in knownRoot'
      <3>1. i \in 1 .. np /\ i > np - wide
        BY <1>1, <1>2, <2>4
      <3>2. published[i] = r
        BY <1>1, <2>4, <3>1
      <3>3. r # rootRing[slot]
        <4>1. CASE wide - 1 < np
          <5>1. np - (wide - 1) \in 1 .. np /\ np - (wide - 1) # i
            BY <1>1, <1>2, <2>4, <4>1
          <5>2. published[np - (wide - 1)] # published[i]
            BY <1>9, <3>1, <5>1
          <5> QED
            BY <1>7, <3>2, <4>1, <5>2
        <4>2. CASE ~(wide - 1 < np)
          BY <1>7, <1>8, <3>1, <3>2, <4>2
        <4> QED
          BY <4>1, <4>2
      <3> QED
        BY <1>3, <2>1, <3>1, <3>2, <3>3
    <2> QED
      BY <2>2, <2>3, <2>4
  <1>11. rootRingIndex' \in 0 .. wide - 1
    BY <1>0, <1>4
  <1> QED
    <2>0. wide' = wide
      BY DEF wide
    <2>1. Len(published') = np + 1
      BY <1>1
    <2>2. \A d \in 0 .. wide' - 1 :
            rootRing'[back(d)'] = IF d < Len(published') THEN published'[Len(published') - d] ELSE Zero
      <3> TAKE d \in 0 .. wide' - 1
      <3>1. d \in 0 .. wide - 1
        BY <2>0
      <3>2. rootRing'[back(d)'] = IF d < np + 1 THEN published'[np + 1 - d] ELSE Zero
        BY <1>6, <3>1
      <3>3. Len(published') - d = np + 1 - d /\ (d < Len(published') <=> d < np + 1)
        BY <1>1, <2>1, <3>1
      <3> QED
        BY <3>2, <3>3
    <2>3. \A r : r \in knownRoot' <=>
            \E i \in 1 .. Len(published') : i > Len(published') - wide' /\ published'[i] = r
      <3> TAKE r
      <3>1. r \in knownRoot' <=> \E i \in 1 .. np + 1 : i > np + 1 - wide /\ published'[i] = r
        BY <1>10
      <3> QED
        BY <1>1, <1>2, <2>0, <2>1, <3>1
    <2>4. rootRingIndex' \in 0 .. wide' - 1 /\ DOMAIN rootRing' = 0 .. wide' - 1
          /\ rootRing' = [s \in DOMAIN rootRing' |-> rootRing'[s]]
      BY <1>5, <1>11 DEF wide
    <2> QED
      BY <2>2, <2>3, <2>4 DEF RingInv

LEMMA WindowIsLast ==
    ASSUME TreeInv, OrderInv, RingInv, \A l, r : Zero # hash2(l, r)
    PROVE  KnownRootsAreTheLast
  <1> DEFINE np == Len(published)
             lo == IF np < wide THEN 1 ELSE np - wide + 1
             f == [i \in lo .. np |-> published[i]]
  <1>1. np \in Nat \ {0} /\ DOMAIN published = 1 .. np
    BY DEF OrderInv
  <1>2. wide \in Nat \ {0}
    BY TreeAssumption DEF wide
  <1>3. /\ \A i \in 1 .. np : published[i] # Zero
        /\ \A i, k \in 1 .. np : i # k => published[i] # published[k]
    BY NeverZero, PublishedDiffer
  <1>4. \A root : root \in knownRoot <=> \E i \in 1 .. np : i > np - wide /\ published[i] = root
    BY DEF RingInv
  <1> HIDE DEF np
  <1>5. \A i \in 1 .. np : isKnownRoot(published[i]) <=> i > np - wide
    BY <1>3, <1>4 DEF isKnownRoot
  <1>6. lo \in Int /\ \A i : i \in lo .. np <=> i \in 1 .. np /\ i > np - wide
    BY <1>1, <1>2
  <1>7. Cardinality(lo .. np) = (IF np < wide THEN np ELSE wide) /\ IsFiniteSet(lo .. np)
    BY <1>1, <1>2, <1>6, FS_Interval
  <1> HIDE DEF lo
  <1>8. f \in [lo .. np -> knownRoot]
    BY <1>4, <1>6
  <1>9. \A i, k \in lo .. np : f[i] = f[k] => i = k
    BY <1>3, <1>6
  <1>10. \A root \in knownRoot : \E i \in lo .. np : f[i] = root
    BY <1>4, <1>6
  <1> HIDE DEF f
  <1>11. f \in Surjection(lo .. np, knownRoot) /\ f \in Injection(lo .. np, knownRoot)
    BY <1>8, <1>9, <1>10 DEF Surjection, Injection, IsInjective
  <1>12. Cardinality(knownRoot) = Cardinality(lo .. np)
    BY <1>7, <1>11, FS_Surjection
  <1> QED
    BY <1>1, <1>5, <1>7, <1>12 DEF KnownRootsAreTheLast, np, wide

\* GoldilocksIncrementalTree.sol:63-73: a spend proved against one of the last ROOT_WINDOW roots lands,
\* one proved against an older root does not, and committing again ages nothing out.  As the contract
\* does, this takes it that no digest is the zero word.
THEOREM WindowStaysTheLast ==
    ASSUME \A l, r : Zero # hash2(l, r)
    PROVE  TreeSpec => []KnownRootsAreTheLast
  <1> DEFINE I == TreeInv /\ OrderInv /\ RingInv
  <1>1. TreeInit => I
    BY TreeInitInv, OrderInit, RingInit
  <1>2. I /\ [TreeNext]_treeVars => I'
    <2> SUFFICES ASSUME I, [TreeNext]_treeVars
                 PROVE  I'
      OBVIOUS
    <2>1. TreeInv' /\ Extends /\ (Publishes \/ KeepsRoots)
      BY EveryStep
    <2>2. CASE Publishes
      <3>1. pushRoot(rootOf(leaves'))
        BY <2>2 DEF Publishes
      <3> QED
        BY <2>1, <2>2, <3>1, OrderKept, RingKept
    <2>3. CASE KeepsRoots
      BY <2>1, <2>3, OrderStays, RingStays
    <2> QED
      BY <2>1, <2>2, <2>3
  <1>3. I => KnownRootsAreTheLast
    BY WindowIsLast
  <1> QED
    BY <1>1, <1>2, <1>3, PTL DEF TreeSpec

-----------------------------------------------------------------------------
(* The tool's tree over the same leaves.                                   *)

LEMMA LevelsStepByStep ==
    ASSUME NEW given
    PROVE  /\ levelsOver(given)[0] = [i \in 0 .. Len(given) - 1 |-> given[i + 1]]
           /\ \A d \in 1 .. D : levelsOver(given)[d] = pairsOver(levelsOver(given)[d - 1], d)
  <1> DEFINE base == [i \in 0 .. Len(given) - 1 |-> given[i + 1]]
             rec(f) == [d \in 0 .. D |-> IF d = 0 THEN base ELSE pairsOver(f[d - 1], d)]
             a == levelsOver(given)
  <1>1. PICK g : runs(g, D, "levels", 0, base)
    BY RunsExist, DepthIsNat
  <1>2. g = rec(g)
    <2>1. g = [d \in 0 .. D |-> IF d = 0 THEN base ELSE next("levels", 0, d, g[d - 1])]
      BY <1>1 DEF runs
    <2>2. \A d \in 0 .. D : next("levels", 0, d, g[d - 1]) = pairsOver(g[d - 1], d)
      BY DEF next
    <2> QED
      BY <2>1, <2>2
  <1>3. a = CHOOSE f : f = rec(f)
    BY DEF levelsOver, pairsOver, D
  <1> HIDE DEF a
  <1>4. a = rec(a)
    <2> HIDE DEF rec
    <2> QED
      BY <1>2, <1>3
  <1>5. \A d \in 0 .. D : a[d] = rec(a)[d]
    BY <1>4
  <1>6. a[0] = base
    BY <1>5, DepthIsNat
  <1>7. \A d \in 1 .. D : a[d] = pairsOver(a[d - 1], d)
    <2>1. \A d \in 1 .. D : d \in 0 .. D /\ d # 0
      BY DepthIsNat
    <2> QED
      BY <1>5, <2>1
  <1> QED
    BY <1>6, <1>7 DEF a

\* Pairs of a level that goes up to node m.
LEMMA PairsOfLevel ==
    ASSUME NEW below, NEW m \in Nat, DOMAIN below = 0 .. m, NEW d
    PROVE  pairsOver(below, d) = [i \in 0 .. m \div 2 |->
              hash2(nodeAt(below, d - 1, 2 * i), nodeAt(below, d - 1, 2 * i + 1))]
  <1>1. Cardinality(DOMAIN below) = m + 1 /\ DOMAIN below # {}
    <2>1. Cardinality(0 .. m) = m + 1 /\ 0 \in 0 .. m
      BY FS_Interval
    <2> QED
      BY <2>1
  <1>2. Max({1, m + 1}) = m + 1
    <2> DEFINE best == CHOOSE x \in {1, m + 1} : \A y \in {1, m + 1} : x >= y
    <2>1. m + 1 \in {1, m + 1} /\ \A y \in {1, m + 1} : m + 1 >= y
      OBVIOUS
    <2>2. best \in {1, m + 1} /\ \A y \in {1, m + 1} : best >= y
      BY <2>1
    <2> HIDE DEF best
    <2>3. best = m + 1
      BY <2>2
    <2> QED
      BY <2>3 DEF best, Max
  <1>3. ((m + 1) + 1) \div 2 - 1 = m \div 2
    OBVIOUS
  <1> QED
    BY <1>1, <1>2, <1>3 DEF pairsOver

LEMMA LevelsAreNodes ==
    ASSUME NEW given \in Seq(Leaf), given # <<>>, Len(given) <= MAX_LEAVES, NEW d \in 0 .. D
    PROVE  /\ 0 \in DOMAIN levelsOver(given)[d]
           /\ \A j \in Width(d) : nodeAt(levelsOver(given)[d], d, j) = nodesOf(given)[d][j]
  <1> DEFINE n == Len(given) - 1
             lev == levelsOver(given)
             right(t) == /\ DOMAIN lev[t] = 0 .. above(n)[t]
                         /\ \A j \in Width(t) : nodeAt(lev[t], t, j) = nodesOf(given)[t][j]
             S == {t \in 0 .. D : right(t)}
  <1>1. n \in Nat /\ n < shifted[D] /\ Len(given) \in Nat /\ Len(given) = n + 1 /\ shifted[D] \in Nat
    BY CapacityIsNat
  <1>2. \A j \in Width(0) : j \in Nat /\ nodesOf(given)[0][j] = IF j < n + 1 THEN given[j + 1] ELSE Zero
    BY <1>1, NodesStepByStep DEF Width
  <1>3. lev[0] = [i \in 0 .. n |-> given[i + 1]]
    BY LevelsStepByStep
  <1>4. \A t \in 1 .. D : lev[t] = pairsOver(lev[t - 1], t)
    BY LevelsStepByStep
  <1> HIDE DEF n, lev
  <1>5. \A t \in 0 .. D : \A j \in Width(t) : j > above(n)[t] => nodesOf(given)[t][j] = zeros[t]
    <2>1. \A j \in Width(0) : j > n => nodesOf(given)[0][j] = Zero
      BY <1>1, <1>2
    <2> QED
      BY <1>1, <2>1, EmptyBeyond
  <1>6. 0 \in S
    <2>1. above(n)[0] = n /\ 0 \in 0 .. D /\ zeros[0] = Zero
      BY <1>1, AboveStepByStep, ZerosStepByStep, DepthIsNat
    <2>2. ASSUME NEW j \in Width(0)
          PROVE  nodeAt(lev[0], 0, j) = nodesOf(given)[0][j]
      <3>1. j \in Nat /\ (j \in 0 .. n <=> j < n + 1)
        BY <1>1, <1>2
      <3> QED
        BY <1>2, <1>3, <2>1, <3>1 DEF nodeAt
    <2> QED
      BY <1>3, <2>1, <2>2
  <1>7. ASSUME NEW t \in 0 .. D - 1, t \in S
        PROVE  t + 1 \in S
    <2>1. t \in Level /\ t + 1 \in 1 .. D /\ (t + 1) - 1 = t /\ t + 1 \in 0 .. D
      BY DepthIsNat
    <2>2. above(n)[t] \in Nat /\ above(n)[t + 1] = above(n)[t] \div 2 /\ above(n)[t + 1] \in Nat
      <3>1. above(n)[t] \in Nat
        BY <1>1, <2>1, AboveStepByStep, DepthIsNat
      <3>2. above(n)[t + 1] = above(n)[t] \div 2
        BY <1>1, <2>1, AboveStepByStep
      <3> QED
        BY <3>1, <3>2
    <2>3. lev[t + 1] = [i \in 0 .. above(n)[t + 1] |->
                          hash2(nodeAt(lev[t], t, 2 * i), nodeAt(lev[t], t, 2 * i + 1))]
      <3>1. DOMAIN lev[t] = 0 .. above(n)[t]
        BY <1>7
      <3>2. lev[t + 1] = pairsOver(lev[t], t + 1)
        BY <1>4, <2>1
      <3> QED
        <4> DEFINE m == above(n)[t]  below == lev[t]
        <4>1. m \in Nat /\ DOMAIN below = 0 .. m
          BY <2>2, <3>1
        <4> HIDE DEF m, below
        <4>2. pairsOver(below, t + 1) = [i \in 0 .. m \div 2 |->
                 hash2(nodeAt(below, (t + 1) - 1, 2 * i), nodeAt(below, (t + 1) - 1, 2 * i + 1))]
          BY <4>1, PairsOfLevel, SMTT(60)
        <4> QED
          BY <2>1, <2>2, <3>2, <4>2 DEF m, below
    <2>4. ASSUME NEW j \in Width(t + 1)
          PROVE  nodeAt(lev[t + 1], t + 1, j) = nodesOf(given)[t + 1][j]
      <3>1. j \in Nat /\ 2 * j \in Width(t) /\ 2 * j + 1 \in Width(t)
        BY <2>1, Children
      <3>2. CASE j \in 0 .. above(n)[t + 1]
        <4>1. /\ nodeAt(lev[t], t, 2 * j) = nodesOf(given)[t][2 * j]
              /\ nodeAt(lev[t], t, 2 * j + 1) = nodesOf(given)[t][2 * j + 1]
          BY <1>7, <3>1
        <4>2. nodesOf(given)[t + 1][j] = hash2(nodesOf(given)[t][2 * j], nodesOf(given)[t][2 * j + 1])
          BY <2>1, NodesStepByStep
        <4> QED
          BY <2>3, <3>2, <4>1, <4>2 DEF nodeAt
      <3>3. CASE j \notin 0 .. above(n)[t + 1]
        <4>1. j > above(n)[t + 1]
          BY <2>2, <3>1, <3>3
        <4> QED
          BY <1>5, <2>1, <2>3, <3>3, <4>1 DEF nodeAt
      <3> QED
        BY <3>2, <3>3
    <2>5. DOMAIN lev[t + 1] = 0 .. above(n)[t + 1]
      BY <2>3
    <2> QED
      BY <2>1, <2>4, <2>5
  <1>8. 0 .. D \subseteq S
    <2> HIDE DEF S
    <2> QED
      BY <1>6, <1>7, UpToInduction, DepthIsNat
  <1>9. above(n)[d] \in Nat
    BY <1>1, AboveStepByStep
  <1>10. right(d)
    BY <1>8
  <1> QED
    BY <1>9, <1>10 DEF lev

LEMMA ToolRootIsRoot ==
    ASSUME NEW given \in Seq(Leaf), Len(given) <= MAX_LEAVES
    PROVE  toolRoot(given) = rootOf(given)
  <1>1. CASE given = <<>>
    BY <1>1, EmptyRoot DEF toolRoot
  <1>2. CASE given # <<>>
    <2>1. D - D = 0 /\ 0 \in 0 .. 1 - 1 /\ D \in 0 .. D
      BY DepthIsNat
    <2>2. 0 \in Width(D)
      BY <2>1, ShiftedStepByStep DEF Width
    <2>3. 0 \in DOMAIN levelsOver(given)[D] /\ nodeAt(levelsOver(given)[D], D, 0) = nodesOf(given)[D][0]
      BY <1>2, <2>1, <2>2, LevelsAreNodes
    <2> QED
      BY <1>2, <2>3 DEF toolRoot, rootOf, nodeAt, D
  <1> QED
    BY <1>1, <1>2

LEMMA ClimbStepByStep ==
    ASSUME NEW leaf, NEW k \in Nat, NEW siblings
    PROVE  \E g : climbs(g, leaf, sideAt(k), siblings) /\ climb(leaf, k, siblings) = g[D]
  <1> DEFINE rec(h) == [t \in 0 .. D |->
                          IF t = 0 THEN leaf
                          ELSE IF bit(k, t - 1) = 0 THEN hash2(h[t - 1], siblings[t - 1])
                          ELSE hash2(siblings[t - 1], h[t - 1])]
             a == CHOOSE h : h = rec(h)
             data == [side |-> sideAt(k), at |-> siblings]
  <1>1. PICK g : runs(g, D, "walk", data, leaf)
    BY RunsExist, DepthIsNat
  <1>2. \A t \in 1 .. D : bit(k, t - 1) \in {0, 1} /\ sideAt(k)[t - 1] = bit(k, t - 1)
    BY Halves, DepthIsNat DEF sideAt
  <1>3. g = rec(g)
    <2>1. g = [t \in 0 .. D |-> IF t = 0 THEN leaf ELSE next("walk", data, t, g[t - 1])]
      BY <1>1 DEF runs
    <2>2. \A t \in 0 .. D : t # 0 => next("walk", data, t, g[t - 1])
                              = IF bit(k, t - 1) = 0 THEN hash2(g[t - 1], siblings[t - 1])
                                ELSE hash2(siblings[t - 1], g[t - 1])
      <3>1. /\ data.side = sideAt(k) /\ data.at = siblings
            /\ \A t \in 0 .. D : t # 0 => t \in 1 .. D
        BY DepthIsNat
      <3> HIDE DEF data
      <3> QED
        BY <1>2, <3>1 DEF next
    <2> QED
      BY <2>1, <2>2
  <1>4. climb(leaf, k, siblings) = a[D]
    BY DEF climb, D
  <1>5. a = rec(a)
    <2> HIDE DEF rec
    <2> QED
      BY <1>3
  <1> HIDE DEF a
  <1>6. climbs(a, leaf, sideAt(k), siblings)
    <2>1. \A t \in 0 .. D : a[t] = rec(a)[t]
      BY <1>5
    <2>2. a[0] = leaf /\ \A t \in 1 .. D : t # 0 /\ t \in 0 .. D
      BY <2>1, DepthIsNat
    <2> QED
      BY <1>2, <2>1, <2>2 DEF climbs
  <1> QED
    BY <1>4, <1>6

LEMMA PathLeadsToRoot ==
    ASSUME NEW given \in Seq(Leaf), given # <<>>, Len(given) <= MAX_LEAVES, NEW k \in 0 .. Len(given) - 1
    PROVE  climb(given[k + 1], k, path(given, k)) = rootOf(given)
  <1>1. k \in Nat /\ k < shifted[D] /\ Len(given) \in Nat /\ k < Len(given) /\ shifted[D] \in Nat
    BY CapacityIsNat
  <1>2. nodesOf(given)[0][k] = given[k + 1]
    <2>1. D - 0 = D
      BY DepthIsNat
    <2>2. k \in Width(0)
      BY <1>1, <2>1 DEF Width
    <2> QED
      BY <1>1, <2>2, NodesStepByStep
  <1>3. ASSUME NEW t \in 0 .. D - 1
        PROVE  sideAt(k)[t] = bit(k, t) /\ path(given, k)[t] = siblingOf(given, k, t)
    <2>1. t \in Level /\ t \in 0 .. D /\ bit(k, t) \in {0, 1} /\ above(k)[t] \in Nat
      BY <1>1, Halves, DepthIsNat
    <2>2. sideAt(k)[t] = bit(k, t)
      BY <2>1 DEF sideAt
    <2>3. path(given, k)[t] = nodeAt(levelsOver(given)[t], t, sibling(above(k)[t]))
      BY <2>1 DEF path
    <2>4. \A j \in Width(t) : nodeAt(levelsOver(given)[t], t, j) = nodesOf(given)[t][j]
      BY <2>1, LevelsAreNodes
    <2>5. CASE bit(k, t) = 1
      <3>1. above(k)[t] - 1 \in Width(t)
        BY <1>1, <2>1, <2>5, HasLeft
      <3>2. sibling(above(k)[t]) = above(k)[t] - 1
        BY <2>5 DEF sibling, bit
      <3> QED
        BY <2>2, <2>3, <2>4, <2>5, <3>1, <3>2 DEF siblingOf
    <2>6. CASE bit(k, t) = 0
      <3>1. above(k)[t] + 1 \in Width(t)
        BY <1>1, <2>1, <2>6, HasRight
      <3>2. sibling(above(k)[t]) = above(k)[t] + 1
        BY <2>6 DEF sibling, bit
      <3> QED
        BY <2>2, <2>3, <2>4, <2>6, <3>1, <3>2 DEF siblingOf
    <2> QED
      BY <2>1, <2>5, <2>6
  <1> DEFINE side == sideAt(k)  sib == path(given, k)
  <1>4. PICK g : climbs(g, given[k + 1], side, sib) /\ climb(given[k + 1], k, path(given, k)) = g[D]
    BY <1>1, ClimbStepByStep
  <1>5. climbs(g, nodesOf(given)[0][k], side, sib) /\ D \in 0 .. D
    BY <1>2, <1>4, DepthIsNat
  <1>6. \A t \in 0 .. D - 1 : side[t] = bit(k, t) /\ sib[t] = siblingOf(given, k, t)
    BY <1>3
  <1> HIDE DEF side, sib
  <1>7. \A t \in 0 .. D : g[t] = nodesOf(given)[t][above(k)[t]]
    <2>1. \A t \in 0 .. D - 1 : side[t] = bit(k, t) /\ sib[t] = siblingOf(given, k, t)
      BY <1>6
    <2>2. meets(given, k, D, side, sib)
      BY <2>1, Zenon DEF meets
    <2>3. k \in Nat /\ k < shifted[D]
      BY <1>1
    <2>4. onPath(given, k, D, g)
      BY <1>5, <2>2, <2>3, WalkMeetsNodes, Zenon
    <2> QED
      BY <2>4, Zenon DEF onPath
  <1>8. g[D] = rootOf(given)
    BY <1>1, <1>5, <1>7, RootIsTop
  <1> QED
    BY <1>4, <1>8

\* nullifier_tree.py:3: whatever the leaves and however they got there, the tool's root is the one the
\* pool commits, and every path it writes leads from its leaf to that root.
THEOREM ToolBuildsThePoolsTree == TreeSpec => []BuiltAsThePool
  <1>1. TreeInv => BuiltAsThePool
    <2> SUFFICES ASSUME TreeInv
                 PROVE  BuiltAsThePool
      OBVIOUS
    <2>1. leaves \in Seq(Leaf) /\ nextLeafIndex = Len(leaves) /\ Len(leaves) <= MAX_LEAVES
          /\ Complete(frontier, leaves) /\ Len(leaves) \in Nat
      BY DEF TreeInv
    <2>2. toolRoot(leaves) = rootOf(leaves) /\ foldFrontier(nextLeafIndex) = rootOf(leaves)
      BY <2>1, ToolRootIsRoot, FoldIsRoot
    <2>3. ASSUME NEW k \in DOMAIN leaves
          PROVE  climb(leaves[k], k - 1, path(leaves, k - 1)) = rootOf(leaves)
      <3>1. leaves # <<>> /\ k - 1 \in 0 .. Len(leaves) - 1 /\ (k - 1) + 1 = k
        BY <2>1
      <3> DEFINE j == k - 1
      <3>2. j \in 0 .. Len(leaves) - 1 /\ j + 1 = k
        BY <3>1
      <3> HIDE DEF j
      <3>3. climb(leaves[j + 1], j, path(leaves, j)) = rootOf(leaves)
        BY <2>1, <3>1, <3>2, PathLeadsToRoot
      <3> QED
        BY <3>2, <3>3 DEF j
    <2> QED
      BY <2>2, <2>3 DEF BuiltAsThePool
  <1> QED
    BY TreeInitInv, TreeNextInv, <1>1, PTL DEF TreeSpec

-----------------------------------------------------------------------------
(* The spends the tool collects.                                           *)

\* A chain in order of time, empty before the pool is there, and a tool between two of its calls.
ChainInv ==
    /\ chain \in Seq([time : Nat, txs : Contents \cup {<<>>}]) /\ Len(chain) \in Nat \ {0}
    /\ \A b, c \in 0 .. head : b < c => timeOf(b) < timeOf(c)
    /\ \A b \in 0 .. head : chain[b + 1].txs # <<>> => b >= fromBlock

ToolType ==
    /\ tool \in [pc : {"head", "search", "logs", "done", "refused"}, goal : {fromTime, toTime},
                 lo : Nat, hi : Nat, start : Nat, stop : Int, page : Nat]
    /\ closed \in BOOLEAN
    /\ tool.pc \in {"head", "search"} => evs = {}

collected == tool.pc \in {"logs", "done", "refused"}

\* The blocks of the window from the pool's first on are start .. stop.
StartsRight ==
    /\ tool.start >= fromBlock /\ (tool.start = fromBlock \/ tool.start <= head)
    /\ \A b \in 0 .. head : b >= tool.start <=> b >= fromBlock /\ timeOf(b) >= fromTime
StopsRight ==
    /\ tool.goal = toTime
    /\ \A b \in 0 .. head : b <= tool.stop <=> timeOf(b) < toTime

SearchIsOn ==
    /\ tool.lo <= tool.hi /\ tool.hi <= head /\ timeOf(tool.hi) >= tool.goal
    /\ \A b \in 0 .. head : b < tool.lo => timeOf(b) < tool.goal

\* The pages before tool.page have been read.
PagesAreRead ==
    /\ tool.start <= tool.page /\ (tool.page <= tool.stop + 1 \/ tool.page = tool.start)
    /\ evs = UNION {logsOf(b) : b \in tool.start .. tool.page - 1}

Ended ==
    /\ tool.page > tool.stop
    /\ tool.pc = "done" => found = sorted({l \in evs : ofAsset(l)})
    /\ tool.pc = "refused" =>
          \/ \E l \in evs : ~attributed(l)
          \/ Cardinality({l \in evs : ofAsset(l)}) > shifted[TREE_DEPTH]

WindowInv ==
    closed =>
        /\ ~(tool.pc = "head" /\ tool.goal = fromTime) /\ timeOf(head) >= toTime
        /\ tool.pc = "search" => SearchIsOn
        /\ tool.goal = toTime => StartsRight
        /\ collected => StopsRight /\ PagesAreRead
        /\ tool.pc \in {"done", "refused"} => Ended

ToolInv == ChainInv /\ ToolType /\ WindowInv

\* The logs of a block are those of its transactions.
logsIn(b, txs) ==
    {l \in {[block |-> b, tx |-> t, intent |-> i, note |-> n] : t \in DOMAIN txs, i \in 1 .. 2, n \in 0 .. 1} :
        l.intent \in DOMAIN txs[l.tx].assets}

LEMMA LogsAreIn == \A b : logsOf(b) = logsIn(b, chain[b + 1].txs)
  BY DEF logsOf, spendsOf, logsIn

LEMMA LogsAreInNext == \A b : logsOf(b)' = logsIn(b, chain'[b + 1].txs)
  BY DEF logsOf, spendsOf, logsIn

LEMMA BlockOfLog ==
    ASSUME NEW b, NEW l \in logsOf(b)
    PROVE  l.block = b
  <1>1. l \in {[block |-> b, tx |-> t, intent |-> i, note |-> n] :
                  t \in DOMAIN chain[b + 1].txs, i \in 1 .. 2, n \in 0 .. 1}
    BY DEF logsOf, spendsOf
  <1> QED
    BY <1>1

LEMMA NoTxsNoLogs ==
    ASSUME NEW b, chain[b + 1].txs = <<>>
    PROVE  logsOf(b) = {}
  <1>1. DOMAIN chain[b + 1].txs = {}
    <2>1. DOMAIN <<>> = {}
      OBVIOUS
    <2> QED
      BY <2>1
  <1>2. spendsOf(b) = {}
    BY <1>1 DEF spendsOf
  <1> QED
    BY <1>2 DEF logsOf

LEMMA HeadIsNat == ChainInv => head \in Nat
  BY DEF ChainInv, head

LEMMA TimeIsNat ==
    ASSUME ChainInv, NEW b \in 0 .. head
    PROVE  timeOf(b) \in Nat /\ b + 1 \in 1 .. Len(chain) /\ chain[b + 1].txs \in Contents \cup {<<>>}
  <1>1. b + 1 \in 1 .. Len(chain)
    BY DEF ChainInv, head
  <1>2. chain[b + 1] \in [time : Nat, txs : Contents \cup {<<>>}]
    <2> DEFINE S == [time : Nat, txs : Contents \cup {<<>>}]
    <2>1. chain \in Seq(S)
      BY DEF ChainInv
    <2> HIDE DEF S
    <2>2. chain[b + 1] \in S
      BY <1>1, <2>1
    <2> QED
      BY <2>2 DEF S
  <1> QED
    BY <1>1, <1>2 DEF timeOf

LEMMA LogsFinite ==
    ASSUME ChainInv, NEW b \in 0 .. head
    PROVE  IsFiniteSet(logsOf(b))
  <1> DEFINE T == DOMAIN chain[b + 1].txs
             np == (T \X (1 .. 2)) \X (0 .. 1)
             f == [p \in np |-> [block |-> b, tx |-> p[1][1], intent |-> p[1][2], note |-> p[2]]]
  <1>1. IsFiniteSet(T)
    <2>1. chain[b + 1].txs \in Contents \cup {<<>>}
      BY TimeIsNat
    <2>2. DOMAIN <<>> = {} /\ IsFiniteSet({})
      BY FS_EmptySet
    <2> QED
      BY <2>1, <2>2, ToolAssumption
  <1> HIDE DEF T
  <1>2. IsFiniteSet(1 .. 2) /\ IsFiniteSet(0 .. 1)
    <2>1. \A a, c \in Int : IsFiniteSet(a .. c)
      BY FS_Interval
    <2>2. 0 \in Int /\ 1 \in Int /\ 2 \in Int
      OBVIOUS
    <2> QED
      BY <2>1, <2>2, Zenon
  <1>3. IsFiniteSet(T \X (1 .. 2))
    BY <1>1, <1>2, FS_Product
  <1>4. IsFiniteSet(np)
    BY <1>2, <1>3, FS_Product
  <1>5. f \in Surjection(np, spendsOf(b))
    <2>1. spendsOf(b) = {[block |-> b, tx |-> t, intent |-> i, note |-> n] : t \in T, i \in 1 .. 2, n \in 0 .. 1}
      BY DEF spendsOf, T
    <2>2. ASSUME NEW p \in np
          PROVE  f[p] \in spendsOf(b)
      <3>1. p[1][1] \in T /\ p[1][2] \in 1 .. 2 /\ p[2] \in 0 .. 1
        OBVIOUS
      <3>2. f[p] = [block |-> b, tx |-> p[1][1], intent |-> p[1][2], note |-> p[2]]
        OBVIOUS
      <3> QED
        BY <2>1, <3>1, <3>2
    <2>3. ASSUME NEW l \in spendsOf(b)
          PROVE  \E p \in np : f[p] = l
      <3>1. PICK t \in T, i \in 1 .. 2, n \in 0 .. 1 : l = [block |-> b, tx |-> t, intent |-> i, note |-> n]
        BY <2>1
      <3> DEFINE p == <<<<t, i>>, n>>
      <3>2. p \in np /\ p[1][1] = t /\ p[1][2] = i /\ p[2] = n
        OBVIOUS
      <3>3. f[p] = l
        BY <3>1, <3>2
      <3> QED
        BY <3>2, <3>3
    <2>4. f \in [np -> spendsOf(b)]
      BY <2>2
    <2> QED
      BY <2>3, <2>4 DEF Surjection
  <1>6. IsFiniteSet(spendsOf(b))
    <2> HIDE DEF np, f
    <2> QED
      BY <1>4, <1>5, FS_Surjection
  <1>7. logsOf(b) \subseteq spendsOf(b)
    BY DEF logsOf
  <1> QED
    BY <1>6, <1>7, FS_Subset

LEMMA ReadFinite ==
    ASSUME ChainInv, NEW a \in Nat, NEW c \in Int, c <= head
    PROVE  IsFiniteSet(UNION {logsOf(b) : b \in a .. c})
  <1> DEFINE f == [b \in a .. c |-> logsOf(b)]
             S == {logsOf(b) : b \in a .. c}
  <1>1. \A b \in a .. c : b \in 0 .. head
    BY HeadIsNat
  <1>2. f \in Surjection(a .. c, S) /\ IsFiniteSet(a .. c)
    BY FS_Interval DEF Surjection
  <1>3. \A T \in S : IsFiniteSet(T)
    BY <1>1, LogsFinite
  <1> HIDE DEF f, S
  <1>4. IsFiniteSet(S)
    BY <1>2, FS_Surjection
  <1>5. IsFiniteSet(UNION S)
    BY <1>3, <1>4, FS_UNION
  <1> QED
    BY <1>5 DEF S

\* A step that leaves the chain alone.
LEMMA SameChain ==
    ASSUME chain' = chain
    PROVE  /\ head' = head
           /\ \A b : timeOf(b)' = timeOf(b) /\ logsOf(b)' = logsOf(b)
           /\ \A l : txOf(l)' = txOf(l) /\ ofAsset(l)' = ofAsset(l) /\ attributed(l)' = attributed(l)
           /\ ChainInv => ChainInv'
  BY DEF head, timeOf, logsOf, spendsOf, txOf, ofAsset, attributed, ChainInv

LEMMA MaxOfTwo ==
    ASSUME NEW a \in Nat, NEW b \in Nat
    PROVE  Max({a, b}) = IF a >= b THEN a ELSE b
  <1> DEFINE m == CHOOSE x \in {a, b} : \A y \in {a, b} : x >= y
             e == IF a >= b THEN a ELSE b
  <1>1. e \in {a, b} /\ \A y \in {a, b} : e >= y
    OBVIOUS
  <1>2. m \in {a, b} /\ \A y \in {a, b} : m >= y
    BY <1>1
  <1> HIDE DEF m
  <1>3. m = e
    BY <1>2
  <1> QED
    BY <1>3 DEF m, Max

LEMMA MinOfTwo ==
    ASSUME NEW a \in Int, NEW b \in Int
    PROVE  Min({a, b}) = IF a <= b THEN a ELSE b
  <1> DEFINE m == CHOOSE x \in {a, b} : \A y \in {a, b} : x <= y
             e == IF a <= b THEN a ELSE b
  <1>1. e \in {a, b} /\ \A y \in {a, b} : e <= y
    OBVIOUS
  <1>2. m \in {a, b} /\ \A y \in {a, b} : m <= y
    BY <1>1
  <1> HIDE DEF m
  <1>3. m = e
    BY <1>2
  <1> QED
    BY <1>3 DEF m, Min

\* The shape of each step, its guards told apart from its assignments.
LEMMA ToolInitInv == ToolInit => ToolInv
  <1> SUFFICES ASSUME ToolInit
               PROVE  ToolInv
    OBVIOUS
  <1> DEFINE genesis == [time |-> 1, txs |-> <<>>]
             S == [time : Nat, txs : Contents \cup {<<>>}]
  <1>1. /\ chain = <<genesis>> /\ evs = {} /\ closed = FALSE
        /\ tool = [pc |-> "head", goal |-> fromTime, lo |-> 0, hi |-> 0,
                   start |-> 0, stop |-> 0, page |-> 0]
    BY DEF ToolInit
  <1>2. genesis \in S /\ genesis.txs = <<>>
    OBVIOUS
  <1> HIDE DEF genesis, S
  <1>3. chain \in Seq(S) /\ Len(chain) = 1 /\ chain[1] = genesis
    BY <1>1, <1>2
  <1>4. head = 0
    BY <1>3 DEF head
  <1>5. \A b \in 0 .. head : chain[b + 1].txs = <<>>
    BY <1>2, <1>3, <1>4
  <1>6. \A b, c \in 0 .. head : ~(b < c)
    BY <1>4
  <1>7. ChainInv
    BY <1>3, <1>5, <1>6 DEF ChainInv, S
  <1>8. ToolType
    <2>1. tool \in [pc : {"head", "search", "logs", "done", "refused"}, goal : {fromTime, toTime},
                    lo : Nat, hi : Nat, start : Nat, stop : Int, page : Nat]
      BY <1>1
    <2> QED
      BY <1>1, <2>1 DEF ToolType
  <1> QED
    BY <1>1, <1>7, <1>8 DEF ToolInv, WindowInv

LEMMA ReadHeadStep ==
    ASSUME ToolInv, readHead
    PROVE  ToolInv'
  <1>1. /\ tool.pc = "head" /\ tool' = [tool EXCEPT !.pc = "search", !.lo = 0, !.hi = head]
        /\ closed' = (closed \/ (tool.goal = fromTime /\ timeOf(head) >= toTime))
        /\ chain' = chain /\ evs' = evs
    BY DEF readHead
  <1>2. ChainInv /\ ToolType /\ WindowInv /\ head \in Nat
    BY HeadIsNat DEF ToolInv
  <1>3. /\ tool'.pc = "search" /\ tool'.goal = tool.goal /\ tool'.lo = 0 /\ tool'.hi = head
        /\ tool'.start = tool.start
    BY <1>1, <1>2 DEF ToolType
  <1>4. ToolType'
    BY <1>1, <1>2 DEF ToolType
  <1>5. ASSUME closed'
        PROVE  timeOf(head) >= toTime /\ (tool.goal = toTime => StartsRight)
    <2>1. CASE closed
      BY <1>2, <2>1 DEF WindowInv
    <2>2. CASE ~closed
      <3>1. tool.goal = fromTime /\ timeOf(head) >= toTime
        BY <1>1, <1>5, <2>2, Zenon
      <3>2. fromTime # toTime
        BY ToolAssumption
      <3> QED
        BY <3>1, <3>2
    <2> QED
      BY <2>1, <2>2
  <1>6. timeOf(head) \in Nat
    BY <1>2, TimeIsNat
  <1>7. ChainInv' /\ head' = head /\ \A b : timeOf(b)' = timeOf(b)
    BY <1>1, <1>2, SameChain
  <1>8. ASSUME closed'
        PROVE  SearchIsOn'
    <2>1. timeOf(tool.hi)' = timeOf(head)
      BY <1>1, <1>3 DEF timeOf
    <2>2. tool.goal \in {fromTime, toTime} /\ fromTime \in Nat /\ toTime \in Nat /\ fromTime < toTime
      BY <1>2, ToolAssumption DEF ToolType
    <2>3. timeOf(tool.hi)' >= tool'.goal
      BY <1>3, <1>5, <1>6, <1>8, <2>1, <2>2
    <2>4. tool'.lo <= tool'.hi /\ tool'.hi <= head' /\ \A b \in 0 .. head' : ~(b < tool'.lo)
      BY <1>2, <1>3, <1>7
    <2> QED
      BY <2>3, <2>4 DEF SearchIsOn
  <1>9. ASSUME closed', tool'.goal = toTime
        PROVE  StartsRight'
    BY <1>3, <1>5, <1>7, <1>9 DEF StartsRight
  <1>10. timeOf(head)' = timeOf(head)
    BY <1>1, <1>7 DEF timeOf
  <1>11. WindowInv'
    BY <1>3, <1>5, <1>8, <1>9, <1>10 DEF WindowInv, collected
  <1> QED
    BY <1>4, <1>7, <1>11 DEF ToolInv

LEMMA ProbeStep ==
    ASSUME ToolInv, probe
    PROVE  ToolInv'
  <1> DEFINE mid == (tool.lo + tool.hi) \div 2
  <1>1. /\ tool.pc = "search" /\ tool.lo < tool.hi
        /\ tool' = IF tooEarly(mid, tool.goal) THEN [tool EXCEPT !.lo = mid + 1]
                   ELSE [tool EXCEPT !.hi = mid]
        /\ closed' = closed /\ chain' = chain /\ evs' = evs
    BY DEF probe
  <1>2. ChainInv /\ ToolType /\ WindowInv /\ head \in Nat
    BY HeadIsNat DEF ToolInv
  <1>3. tool.lo \in Nat /\ tool.hi \in Nat /\ mid \in Nat /\ tool.lo <= mid /\ mid < tool.hi
    BY <1>1, <1>2 DEF ToolType
  <1> HIDE DEF mid
  <1>4. /\ tool'.pc = "search" /\ tool'.goal = tool.goal /\ tool'.start = tool.start
        /\ tooEarly(mid, tool.goal) => tool'.lo = mid + 1 /\ tool'.hi = tool.hi
        /\ ~tooEarly(mid, tool.goal) => tool'.lo = tool.lo /\ tool'.hi = mid
    BY <1>1, <1>2 DEF ToolType
  <1>5. ToolType'
    BY <1>1, <1>2, <1>3 DEF ToolType
  <1>6. ChainInv' /\ head' = head /\ \A b : timeOf(b)' = timeOf(b)
    BY <1>1, <1>2, SameChain
  <1>7. timeOf(head)' = timeOf(head)
    BY <1>1, <1>6 DEF timeOf
  <1>8. ASSUME closed
        PROVE  SearchIsOn'
    <2>1. /\ tool.hi <= head /\ timeOf(tool.hi) >= tool.goal
          /\ \A b \in 0 .. head : b < tool.lo => timeOf(b) < tool.goal
      BY <1>1, <1>2, <1>8 DEF WindowInv, SearchIsOn
    <2>2. mid \in 0 .. head /\ timeOf(mid) \in Nat /\ tool.goal \in Nat
      <3>1. mid \in 0 .. head
        BY <1>2, <1>3, <2>1
      <3>2. tool.goal \in Nat
        BY <1>2, ToolAssumption DEF ToolType
      <3> QED
        BY <1>2, <3>1, <3>2, TimeIsNat
    <2>3. CASE tooEarly(mid, tool.goal)
      <3>1. timeOf(mid) < tool.goal
        BY <2>3 DEF tooEarly
      <3>2. ASSUME NEW b \in 0 .. head, b < mid + 1
            PROVE  timeOf(b) < tool.goal
        <4>1. CASE b = mid
          BY <3>1, <4>1
        <4>2. CASE b # mid
          <5>1. b < mid /\ timeOf(b) \in Nat
            BY <1>2, <1>3, <3>2, <4>2, TimeIsNat
          <5>2. timeOf(b) < timeOf(mid)
            BY <1>2, <2>2, <5>1 DEF ChainInv
          <5> QED
            BY <2>2, <3>1, <5>1, <5>2
        <4> QED
          BY <4>1, <4>2
      <3>3. timeOf(tool.hi)' = timeOf(tool.hi)
        BY <1>1, <1>4, <2>3 DEF timeOf
      <3>4. tool'.lo <= tool'.hi /\ tool'.hi <= head' /\ timeOf(tool.hi)' >= tool'.goal
        BY <1>3, <1>4, <1>6, <2>1, <2>3, <3>3
      <3>5. \A b \in 0 .. head' : b < tool'.lo => timeOf(b)' < tool'.goal
        BY <1>4, <1>6, <2>3, <3>2
      <3> QED
        BY <3>4, <3>5 DEF SearchIsOn
    <2>4. CASE ~tooEarly(mid, tool.goal)
      <3>1. timeOf(mid) >= tool.goal
        BY <2>2, <2>4 DEF tooEarly
      <3>2. timeOf(tool.hi)' = timeOf(mid)
        BY <1>1, <1>4, <2>4 DEF timeOf
      <3>3. tool'.lo <= tool'.hi /\ tool'.hi <= head' /\ timeOf(tool.hi)' >= tool'.goal
        BY <1>3, <1>4, <1>6, <2>2, <2>4, <3>1, <3>2
      <3>4. \A b \in 0 .. head' : b < tool'.lo => timeOf(b)' < tool'.goal
        BY <1>4, <1>6, <2>1, <2>4
      <3> QED
        BY <3>3, <3>4 DEF SearchIsOn
    <2> QED
      BY <2>3, <2>4
  <1>9. ASSUME closed, tool'.goal = toTime
        PROVE  StartsRight'
    <2>1. StartsRight
      BY <1>2, <1>4, <1>9 DEF WindowInv
    <2> QED
      BY <1>4, <1>6, <2>1 DEF StartsRight
  <1>10. closed => timeOf(head)' >= toTime
    BY <1>2, <1>7 DEF WindowInv
  <1>11. WindowInv'
    BY <1>1, <1>4, <1>8, <1>9, <1>10 DEF WindowInv, collected
  <1> QED
    BY <1>5, <1>6, <1>11 DEF ToolInv

LEMMA SearchedStep ==
    ASSUME ToolInv, searched
    PROVE  ToolInv'
  <1>1. /\ tool.pc = "search" /\ tool.lo = tool.hi
        /\ tool' = IF tool.goal = fromTime
                   THEN [tool EXCEPT !.pc = "head", !.goal = toTime, !.start = Max({tool.lo, fromBlock})]
                   ELSE [tool EXCEPT !.pc = "logs", !.stop = tool.lo - 1, !.page = tool.start]
        /\ closed' = closed /\ chain' = chain /\ evs' = evs
    BY DEF searched
  <1>2. ChainInv /\ ToolType /\ WindowInv /\ head \in Nat
    BY HeadIsNat DEF ToolInv
  <1>3. tool.lo \in Nat /\ fromBlock \in Nat /\ fromTime # toTime /\ fromTime \in Nat /\ toTime \in Nat
    BY <1>2, ToolAssumption DEF ToolType
  <1> DEFINE from == Max({tool.lo, fromBlock})
  <1>4. from = (IF tool.lo >= fromBlock THEN tool.lo ELSE fromBlock) /\ from \in Nat
    BY <1>3, MaxOfTwo
  <1> HIDE DEF from
  <1>5. ChainInv' /\ head' = head /\ (\A b : timeOf(b)' = timeOf(b)) /\ evs = {}
    BY <1>1, <1>2, SameChain DEF ToolType
  <1>6. timeOf(head)' = timeOf(head)
    BY <1>1, <1>5 DEF timeOf
  <1>7. closed => timeOf(head)' >= toTime
    BY <1>2, <1>6 DEF WindowInv
  <1>8. closed => SearchIsOn
    BY <1>1, <1>2 DEF WindowInv
  <1>9. ASSUME closed, NEW b \in 0 .. head
        PROVE  b < tool.lo <=> timeOf(b) < tool.goal
    <2>1. /\ tool.lo <= head /\ timeOf(tool.lo) >= tool.goal
          /\ b < tool.lo => timeOf(b) < tool.goal
      BY <1>1, <1>8, <1>9 DEF SearchIsOn
    <2>2. tool.lo \in 0 .. head /\ timeOf(tool.lo) \in Nat /\ timeOf(b) \in Nat /\ tool.goal \in Nat
      BY <1>2, <1>3, <2>1, TimeIsNat, SMTT(60) DEF ToolType
    <2>3. tool.lo < b => timeOf(tool.lo) < timeOf(b)
      BY <1>2, <2>2 DEF ChainInv
    <2> QED
      BY <1>3, <2>1, <2>2, <2>3
  <1>10. CASE tool.goal = fromTime
    <2>1. tool' = [tool EXCEPT !.pc = "head", !.goal = toTime, !.start = from]
      BY <1>1, <1>10 DEF from
    <2>2. tool'.pc = "head" /\ tool'.goal = toTime /\ tool'.start = from
      BY <1>2, <2>1 DEF ToolType
    <2>3. ToolType'
      BY <1>1, <1>2, <1>4, <1>5, <2>1 DEF ToolType
    <2>4. ASSUME closed
          PROVE  StartsRight'
      <3>1. tool.lo <= head
        BY <1>1, <1>8, <2>4 DEF SearchIsOn
      <3>2. from >= fromBlock /\ (from = fromBlock \/ from <= head)
        BY <1>3, <1>4, <3>1
      <3>3. ASSUME NEW b \in 0 .. head
            PROVE  b >= from <=> b >= fromBlock /\ timeOf(b) >= fromTime
        <4>1. timeOf(b) \in Nat /\ (b < tool.lo <=> timeOf(b) < fromTime)
          BY <1>2, <1>9, <1>10, <2>4, TimeIsNat
        <4> QED
          BY <1>3, <1>4, <4>1
      <3> QED
        BY <1>5, <2>2, <3>2, <3>3 DEF StartsRight
    <2>5. WindowInv'
      BY <1>1, <1>3, <1>7, <2>2, <2>4 DEF WindowInv, collected
    <2> QED
      BY <1>5, <2>3, <2>5 DEF ToolInv
  <1>11. CASE tool.goal # fromTime
    <2>1. tool' = [tool EXCEPT !.pc = "logs", !.stop = tool.lo - 1, !.page = tool.start]
          /\ tool.goal = toTime
      BY <1>1, <1>2, <1>11 DEF ToolType
    <2>2. /\ tool'.pc = "logs" /\ tool'.goal = toTime /\ tool'.start = tool.start
          /\ tool'.stop = tool.lo - 1 /\ tool'.page = tool.start /\ tool.start \in Nat
      BY <1>2, <2>1 DEF ToolType
    <2>3. ToolType'
      <3>1. tool.lo - 1 \in Int
        BY <1>3
      <3>2. tool' \in [pc : {"head", "search", "logs", "done", "refused"}, goal : {fromTime, toTime},
                       lo : Nat, hi : Nat, start : Nat, stop : Int, page : Nat]
        BY <1>2, <2>1, <2>2, <3>1 DEF ToolType
      <3> QED
        BY <1>1, <1>2, <2>2, <3>2 DEF ToolType
    <2>4. ASSUME closed
          PROVE  StartsRight' /\ StopsRight'
      <3>1. StartsRight
        BY <1>2, <2>1, <2>4 DEF WindowInv
      <3>2. StartsRight'
        BY <1>5, <2>2, <3>1 DEF StartsRight
      <3>3. ASSUME NEW b \in 0 .. head
            PROVE  b <= tool.lo - 1 <=> timeOf(b) < toTime
        <4>1. b < tool.lo <=> timeOf(b) < toTime
          BY <1>9, <2>1, <2>4
        <4> QED
          BY <1>3, <4>1
      <3> QED
        BY <1>5, <2>2, <3>2, <3>3 DEF StopsRight
    <2>5. PagesAreRead'
      <3>1. {logsOf(b)' : b \in tool'.start .. tool'.page - 1} = {}
        BY <2>2
      <3>2. tool'.start <= tool'.page /\ tool'.page = tool'.start
        BY <2>2
      <3> QED
        BY <1>1, <1>5, <3>1, <3>2 DEF PagesAreRead
    <2>6. WindowInv'
      BY <1>1, <1>7, <2>2, <2>4, <2>5 DEF WindowInv, collected
    <2> QED
      BY <1>5, <2>3, <2>6 DEF ToolInv
  <1> QED
    BY <1>10, <1>11

LEMMA PagesJoin ==
    ASSUME NEW a \in Int, NEW p \in Int, NEW l \in Int, a <= p, p <= l + 1
    PROVE  (UNION {logsOf(b) : b \in a .. p - 1}) \cup (UNION {logsOf(b) : b \in p .. l})
             = UNION {logsOf(b) : b \in a .. l}
  <1>1. \A b : b \in a .. l <=> b \in a .. p - 1 \/ b \in p .. l
    OBVIOUS
  <1> DEFINE X == UNION {logsOf(b) : b \in a .. l}
             Y == UNION {logsOf(b) : b \in a .. p - 1}
             Z == UNION {logsOf(b) : b \in p .. l}
  <1>2. \A x : x \in X <=> \E b \in a .. l : x \in logsOf(b)
    OBVIOUS
  <1>3. \A x : x \in Y <=> \E b \in a .. p - 1 : x \in logsOf(b)
    OBVIOUS
  <1>4. \A x : x \in Z <=> \E b \in p .. l : x \in logsOf(b)
    OBVIOUS
  <1> HIDE DEF X, Y, Z
  <1>5. Y \cup Z = X
    BY <1>1, <1>2, <1>3, <1>4
  <1> QED
    BY <1>5 DEF X, Y, Z

LEMMA ReadPageStep ==
    ASSUME ToolInv, readPage
    PROVE  ToolInv'
  <1> DEFINE last == Min({tool.page + PAGE - 1, tool.stop})
  <1>1. /\ tool.pc = "logs" /\ tool.page <= tool.stop
        /\ evs' = evs \cup UNION {logsOf(b) : b \in tool.page .. last}
        /\ tool' = [tool EXCEPT !.page = last + 1]
        /\ closed' = closed /\ chain' = chain
    BY DEF readPage
  <1>2. ChainInv /\ ToolType /\ WindowInv /\ head \in Nat
    BY HeadIsNat DEF ToolInv
  <1>3. tool.page \in Nat /\ tool.stop \in Int /\ tool.start \in Nat /\ PAGE \in Nat \ {0}
    BY <1>2, ToolAssumption DEF ToolType
  <1>4. last = (IF tool.page + PAGE - 1 <= tool.stop THEN tool.page + PAGE - 1 ELSE tool.stop)
    BY <1>3, MinOfTwo
  <1> HIDE DEF last
  <1>5. last \in Nat /\ tool.page <= last /\ last <= tool.stop
    BY <1>1, <1>3, <1>4
  <1>6. /\ tool'.pc = "logs" /\ tool'.page = last + 1 /\ tool'.start = tool.start
        /\ tool'.stop = tool.stop /\ tool'.goal = tool.goal
    BY <1>1, <1>2 DEF ToolType
  <1>7. ToolType'
    BY <1>1, <1>2, <1>5 DEF ToolType
  <1>8. ChainInv' /\ head' = head /\ \A b : timeOf(b)' = timeOf(b) /\ logsOf(b)' = logsOf(b)
    BY <1>1, <1>2, SameChain
  <1>9. ASSUME closed
        PROVE  timeOf(head)' >= toTime /\ StartsRight' /\ StopsRight' /\ PagesAreRead'
    <2>1. timeOf(head) >= toTime /\ StartsRight /\ StopsRight /\ PagesAreRead
      BY <1>1, <1>2, <1>9 DEF WindowInv, collected, StopsRight
    <2>2. timeOf(head)' = timeOf(head)
      BY <1>1, <1>8 DEF timeOf
    <2>3. StartsRight' /\ StopsRight'
      BY <1>6, <1>8, <2>1 DEF StartsRight, StopsRight
    <2>4. evs = UNION {logsOf(b) : b \in tool.start .. tool.page - 1} /\ tool.start <= tool.page
      BY <2>1 DEF PagesAreRead
    <2>5. evs' = UNION {logsOf(b) : b \in tool.start .. last}
      BY <1>1, <1>3, <1>5, <2>4, PagesJoin
    <2>6. tool'.page - 1 = last /\ tool'.start <= tool'.page /\ tool'.page <= tool'.stop + 1
      BY <1>3, <1>5, <1>6, <2>4
    <2>7. {logsOf(b)' : b \in tool'.start .. tool'.page - 1} = {logsOf(b) : b \in tool.start .. last}
      BY <1>6, <1>8, <2>6
    <2>8. PagesAreRead'
      BY <2>5, <2>6, <2>7 DEF PagesAreRead
    <2> QED
      BY <2>1, <2>2, <2>3, <2>8
  <1>10. WindowInv'
    BY <1>1, <1>6, <1>9 DEF WindowInv, collected
  <1> QED
    BY <1>7, <1>8, <1>10 DEF ToolInv

\* What has been read lies below the head.
LEMMA ReadBlocks ==
    ASSUME ToolInv, closed, collected
    PROVE  /\ tool.start \in Nat /\ tool.page \in Nat /\ tool.stop \in Int /\ tool.stop < head
           /\ \A b \in tool.start .. tool.page - 1 : b \in 0 .. head /\ b <= tool.stop
           /\ \A l \in evs : \E b \in 0 .. head : b \in tool.start .. tool.page - 1 /\ l \in logsOf(b) /\ l.block = b
           /\ IsFiniteSet(evs)
  <1>1. ChainInv /\ ToolType /\ WindowInv /\ head \in Nat
    BY HeadIsNat DEF ToolInv
  <1>2. timeOf(head) >= toTime /\ StopsRight /\ PagesAreRead
    BY <1>1 DEF WindowInv
  <1>3. tool.start \in Nat /\ tool.page \in Nat /\ tool.stop \in Int /\ toTime \in Nat
    BY <1>1, ToolAssumption DEF ToolType
  <1>4. head \in 0 .. head /\ timeOf(head) \in Nat
    BY <1>1, TimeIsNat
  <1>5. tool.stop < head
    BY <1>1, <1>2, <1>3, <1>4 DEF StopsRight
  <1>6. \A b \in tool.start .. tool.page - 1 : b \in 0 .. head /\ b <= tool.stop
    BY <1>1, <1>2, <1>3, <1>5 DEF PagesAreRead
  <1>7. evs = UNION {logsOf(b) : b \in tool.start .. tool.page - 1}
    BY <1>2 DEF PagesAreRead
  <1>8. \A l \in evs : \E b \in 0 .. head : b \in tool.start .. tool.page - 1 /\ l \in logsOf(b) /\ l.block = b
    BY <1>6, <1>7, BlockOfLog
  <1>9. IsFiniteSet(evs)
    <2>1. tool.page - 1 \in Int
      BY <1>3
    <2>2. CASE tool.page - 1 <= head
      BY <1>1, <1>3, <1>7, <2>1, <2>2, ReadFinite
    <2>3. CASE tool.page - 1 > head
      <3>1. tool.start .. tool.page - 1 = {}
        BY <1>1, <1>2, <1>3, <1>5, <2>3 DEF PagesAreRead
      <3>2. evs = {}
        BY <1>7, <3>1
      <3> QED
        BY <3>2, FS_EmptySet
    <2> QED
      BY <1>1, <1>3, <2>2, <2>3
  <1> QED
    BY <1>3, <1>5, <1>6, <1>8, <1>9

LEMMA BuildStep ==
    ASSUME ToolInv, build
    PROVE  ToolInv'
  <1> DEFINE mine0 == {l \in evs : ofAsset(l)}
             good == (\A l \in evs : attributed(l)) /\ Len(kept) <= shifted[TREE_DEPTH]
  <1>1. /\ tool.pc = "logs" /\ tool.page > tool.stop
        /\ IF good THEN found' = kept /\ tool' = [tool EXCEPT !.pc = "done"]
           ELSE found' = <<>> /\ tool' = [tool EXCEPT !.pc = "refused"]
        /\ closed' = closed /\ chain' = chain /\ evs' = evs
    BY DEF build
  <1>2. ChainInv /\ ToolType /\ WindowInv /\ head \in Nat
    BY HeadIsNat DEF ToolInv
  <1>3. kept = sorted(mine0)
    BY DEF kept
  <1> HIDE DEF mine0
  <1>4. ASSUME closed, ~good
        PROVE  (\E l \in evs : ~attributed(l)) \/ Cardinality(mine0) > shifted[TREE_DEPTH]
    <2>1. IsFiniteSet(evs)
      BY <1>1, <1>4, ReadBlocks DEF collected
    <2>2. Cardinality(mine0) \in Nat
      BY <2>1, FS_Subset, FS_CardinalityType DEF mine0
    <2>3. Len(kept) = Cardinality(mine0)
      <3> DEFINE n == Cardinality(mine0)
      <3>1. n \in Nat
        BY <2>2
      <3>2. sorted(mine0) = [k \in 1 .. n |-> CHOOSE l \in mine0 : Cardinality({m \in mine0 : earlier(m, l)}) = k - 1]
        BY DEF sorted
      <3> HIDE DEF n
      <3>3. Len(sorted(mine0)) = n
        BY <3>1, <3>2
      <3> QED
        BY <1>3, <3>3 DEF n
    <2>4. shifted[TREE_DEPTH] \in Nat
      BY CapacityIsNat DEF D
    <2>5. (\E l \in evs : ~attributed(l)) \/ ~(Len(kept) <= shifted[TREE_DEPTH])
      BY <1>4
    <2> QED
      BY <2>2, <2>3, <2>4, <2>5
  <1> HIDE DEF good
  <1>5. /\ tool'.pc \in {"done", "refused"} /\ tool'.page = tool.page /\ tool'.start = tool.start
        /\ tool'.stop = tool.stop /\ tool'.goal = tool.goal
        /\ tool'.pc = "done" => found' = kept
        /\ tool'.pc = "refused" => ~good
    <2>1. CASE good
      BY <1>1, <1>2, <2>1 DEF ToolType
    <2>2. CASE ~good
      BY <1>1, <1>2, <2>2 DEF ToolType
    <2> QED
      BY <2>1, <2>2
  <1>6. ToolType'
    BY <1>1, <1>2 DEF ToolType
  <1>7. /\ ChainInv' /\ head' = head /\ \A b : timeOf(b)' = timeOf(b) /\ logsOf(b)' = logsOf(b)
        /\ \A l : ofAsset(l)' = ofAsset(l) /\ attributed(l)' = attributed(l)
    BY <1>1, <1>2, SameChain
  <1>8. {l \in evs : ofAsset(l)}' = mine0
    BY <1>1, <1>7 DEF mine0
  <1>9. ASSUME closed
        PROVE  timeOf(head)' >= toTime /\ StartsRight' /\ StopsRight' /\ PagesAreRead' /\ Ended'
    <2>1. timeOf(head) >= toTime /\ StartsRight /\ StopsRight /\ PagesAreRead
      BY <1>1, <1>2, <1>9 DEF WindowInv, collected, StopsRight
    <2>2. timeOf(head)' = timeOf(head)
      BY <1>1, <1>7 DEF timeOf
    <2>3. StartsRight' /\ StopsRight'
      BY <1>5, <1>7, <2>1 DEF StartsRight, StopsRight
    <2>4. {logsOf(b)' : b \in tool'.start .. tool'.page - 1} = {logsOf(b) : b \in tool.start .. tool.page - 1}
      BY <1>5, <1>7
    <2>5. PagesAreRead'
      BY <1>1, <1>5, <2>1, <2>4 DEF PagesAreRead
    <2>6. tool'.pc = "done" => found' = sorted({l \in evs : ofAsset(l)}')
      BY <1>3, <1>5, <1>8
    <2>7. tool'.pc = "refused" =>
            (\E l \in evs' : ~attributed(l)') \/ Cardinality({l \in evs : ofAsset(l)}') > shifted[TREE_DEPTH]
      BY <1>1, <1>4, <1>5, <1>7, <1>8, <1>9
    <2>8. Ended'
      BY <1>1, <1>5, <2>6, <2>7 DEF Ended
    <2> QED
      BY <2>1, <2>2, <2>3, <2>5, <2>8
  <1>10. WindowInv'
    BY <1>1, <1>5, <1>9 DEF WindowInv, collected
  <1> QED
    BY <1>6, <1>7, <1>10 DEF ToolInv

\* The chain grows at its end only: what was read of it stays as it was.
LEMMA MineStep ==
    ASSUME ToolInv, mine
    PROVE  ToolInv'
  <1>1. PICK gap \in 1 .. MaxGap, txs \in Contents :
          /\ txs # <<>> => Len(chain) >= fromBlock
          /\ chain' = Append(chain, [time |-> timeOf(head) + gap, txs |-> txs])
    BY DEF mine
  <1>2. tool' = tool /\ evs' = evs /\ found' = found /\ closed' = closed
    BY DEF mine
  <1>3. ChainInv /\ ToolType /\ WindowInv /\ head \in Nat
    BY HeadIsNat DEF ToolInv
  <1>4. PICK h, n : h = head /\ n = h + 1
    OBVIOUS
  <1> DEFINE S == [time : Nat, txs : Contents \cup {<<>>}]
             blk == [time |-> timeOf(head) + gap, txs |-> txs]
  <1>5. timeOf(h) \in Nat /\ gap \in Nat \ {0} /\ h \in Nat /\ n \in Nat
    BY <1>3, <1>4, TimeIsNat, ToolAssumption
  <1>6. chain \in Seq(S) /\ Len(chain) = n /\ blk \in S /\ blk.time = timeOf(h) + gap /\ blk.txs = txs
    BY <1>3, <1>4, <1>5 DEF ChainInv, head
  <1> HIDE DEF S, blk
  <1>7. /\ chain' \in Seq(S) /\ Len(chain') = n + 1 /\ chain'[n + 1] = blk
        /\ \A k \in 1 .. n : chain'[k] = chain[k]
    BY <1>1, <1>6, AppendProperties DEF blk
  <1>8. head' = n
    BY <1>5, <1>7 DEF head
  <1>9. \A b \in 0 .. h : b + 1 \in 1 .. n /\ chain'[b + 1] = chain[b + 1]
    BY <1>4, <1>5, <1>7
  <1>10. \A b \in 0 .. h : timeOf(b)' = timeOf(b) /\ logsOf(b)' = logsOf(b)
    BY <1>9, LogsAreIn, LogsAreInNext DEF timeOf
  <1>11. timeOf(n)' = timeOf(h) + gap /\ timeOf(head)' = timeOf(h) + gap
    BY <1>6, <1>7, <1>8 DEF timeOf
  <1>12. \A b \in 0 .. n : b \in 0 .. h \/ b = n
    BY <1>4, <1>5
  <1>13. ASSUME NEW b \in 0 .. h
         PROVE  timeOf(b) \in Nat /\ timeOf(b) <= timeOf(h)
    <2>1. timeOf(b) \in Nat /\ timeOf(h) \in Nat /\ (b < h => timeOf(b) < timeOf(h))
      BY <1>3, <1>4, <1>5, TimeIsNat DEF ChainInv
    <2> QED
      BY <1>5, <2>1
  <1>14. ChainInv'
    <2>1. ASSUME NEW b \in 0 .. n, NEW c \in 0 .. n, b < c
          PROVE  timeOf(b)' < timeOf(c)'
      <3>1. b \in 0 .. h /\ (c \in 0 .. h \/ c = n)
        BY <1>4, <1>5, <2>1
      <3>2. CASE c \in 0 .. h
        BY <1>3, <1>4, <1>10, <2>1, <3>1, <3>2 DEF ChainInv
      <3>3. CASE c = n
        <4>1. timeOf(b) < timeOf(h) + gap
          BY <1>5, <1>13, <3>1
        <4> QED
          BY <1>10, <1>11, <3>1, <3>3, <4>1
      <3> QED
        BY <3>1, <3>2, <3>3
    <2>2. ASSUME NEW b \in 0 .. n, chain'[b + 1].txs # <<>>
          PROVE  b >= fromBlock
      <3>1. CASE b \in 0 .. h
        BY <1>3, <1>4, <1>9, <2>2, <3>1 DEF ChainInv
      <3>2. CASE b = n
        BY <1>1, <1>6, <1>7, <2>2, <3>2
      <3> QED
        BY <1>12, <3>1, <3>2
    <2>3. chain' \in Seq(S) /\ Len(chain') \in Nat \ {0}
      BY <1>5, <1>7
    <2> QED
      BY <1>8, <2>1, <2>2, <2>3 DEF ChainInv, S
  <1>15. ToolType'
    BY <1>2, <1>3 DEF ToolType
  <1>16. /\ tool.start \in Nat /\ tool.lo \in Nat /\ tool.hi \in Nat /\ tool.stop \in Int
         /\ fromTime \in Nat /\ toTime \in Nat /\ fromTime < toTime /\ fromBlock \in Nat
    BY <1>3, ToolAssumption DEF ToolType
  <1>17. ASSUME closed
         PROVE  timeOf(h) >= toTime /\ timeOf(n)' >= toTime /\ timeOf(head)' >= toTime
    <2>1. timeOf(h) >= toTime
      BY <1>3, <1>4, <1>17 DEF WindowInv
    <2> QED
      BY <1>5, <1>11, <1>16, <2>1
  <1>18. ASSUME closed, SearchIsOn
         PROVE  SearchIsOn'
    <2>1. /\ tool.lo <= tool.hi /\ tool.hi \in 0 .. h /\ timeOf(tool.hi) >= tool.goal
          /\ \A b \in 0 .. h : b < tool.lo => timeOf(b) < tool.goal
      BY <1>4, <1>5, <1>16, <1>18 DEF SearchIsOn
    <2>2. timeOf(tool.hi)' = timeOf(tool.hi)
      BY <1>2, <1>9, <2>1 DEF timeOf
    <2>3. ~(n < tool.lo) /\ tool.hi <= n
      BY <1>4, <1>5, <1>16, <2>1
    <2>4. \A b \in 0 .. n : b < tool.lo => timeOf(b)' < tool.goal
      BY <1>10, <1>12, <2>1, <2>3
    <2> QED
      BY <1>2, <1>8, <2>1, <2>2, <2>3, <2>4 DEF SearchIsOn
  <1>19. ASSUME closed, StartsRight
         PROVE  StartsRight'
    <2>1. /\ tool.start >= fromBlock /\ (tool.start = fromBlock \/ tool.start <= h)
          /\ \A b \in 0 .. h : b >= tool.start <=> b >= fromBlock /\ timeOf(b) >= fromTime
      BY <1>4, <1>19 DEF StartsRight
    <2>2. n >= tool.start <=> n >= fromBlock /\ timeOf(n)' >= fromTime
      <3>1. timeOf(n)' >= fromTime
        BY <1>5, <1>11, <1>16, <1>17, <1>19
      <3> QED
        BY <1>4, <1>5, <1>16, <2>1, <3>1
    <2>3. \A b \in 0 .. n : b >= tool.start <=> b >= fromBlock /\ timeOf(b)' >= fromTime
      BY <1>10, <1>12, <2>1, <2>2
    <2>4. tool.start = fromBlock \/ tool.start <= n
      BY <1>4, <1>5, <1>16, <2>1
    <2> QED
      BY <1>2, <1>8, <2>1, <2>3, <2>4 DEF StartsRight
  <1>20. ASSUME closed, StopsRight
         PROVE  StopsRight'
    <2>1. tool.goal = toTime /\ \A b \in 0 .. h : b <= tool.stop <=> timeOf(b) < toTime
      BY <1>4, <1>20 DEF StopsRight
    <2>2. ~(n <= tool.stop) /\ ~(timeOf(n)' < toTime)
      <3>1. ~(h <= tool.stop)
        BY <1>5, <1>16, <1>17, <1>20, <2>1
      <3> QED
        BY <1>4, <1>5, <1>11, <1>16, <1>17, <1>20, <3>1
    <2>3. \A b \in 0 .. n : b <= tool.stop <=> timeOf(b)' < toTime
      BY <1>10, <1>12, <2>1, <2>2
    <2> QED
      BY <1>2, <1>8, <2>1, <2>3 DEF StopsRight
  <1>21. ASSUME closed, collected
         PROVE  /\ PagesAreRead' /\ (Ended => Ended')
    <2>1. PagesAreRead
      BY <1>3, <1>21 DEF WindowInv
    <2>2. /\ \A b \in tool.start .. tool.page - 1 : b \in 0 .. h
          /\ \A l \in evs : l.block \in 0 .. h
      BY <1>4, <1>21, ReadBlocks
    <2>3. {logsOf(b)' : b \in tool.start .. tool.page - 1} = {logsOf(b) : b \in tool.start .. tool.page - 1}
      BY <1>10, <2>2
    <2>4. PagesAreRead'
      BY <1>2, <2>1, <2>3 DEF PagesAreRead
    <2>5. \A l \in evs : ofAsset(l)' = ofAsset(l) /\ attributed(l)' = attributed(l)
      <3>1. \A l \in evs : chain'[l.block + 1] = chain[l.block + 1]
        BY <1>9, <2>2
      <3> QED
        BY <3>1 DEF ofAsset, attributed, txOf
    <2>6. {l \in evs : ofAsset(l)}' = {l \in evs : ofAsset(l)}
      BY <1>2, <2>5
    <2>7. ASSUME Ended
          PROVE  Ended'
      <3>1. tool.page > tool.stop /\ (tool.pc = "done" => found = sorted({l \in evs : ofAsset(l)}))
        BY <2>7 DEF Ended
      <3>2. tool'.pc = "done" => found' = sorted({l \in evs : ofAsset(l)}')
        BY <1>2, <2>6, <3>1
      <3>3. tool.pc = "refused" =>
              (\E l \in evs : ~attributed(l)) \/ Cardinality({l \in evs : ofAsset(l)}) > shifted[TREE_DEPTH]
        BY <2>7 DEF Ended
      <3>4. tool'.pc = "refused" =>
              (\E l \in evs' : ~attributed(l)') \/ Cardinality({l \in evs : ofAsset(l)}') > shifted[TREE_DEPTH]
        BY <1>2, <2>5, <2>6, <3>3
      <3> QED
        BY <1>2, <3>1, <3>2, <3>4 DEF Ended
    <2> QED
      BY <2>4, <2>7
  <1>22. WindowInv'
    BY <1>2, <1>3, <1>17, <1>18, <1>19, <1>20, <1>21 DEF WindowInv, collected
  <1> QED
    BY <1>14, <1>15, <1>22 DEF ToolInv

LEMMA ToolNextInv == ToolInv /\ [ToolNext]_toolVars => ToolInv'
  <1> SUFFICES ASSUME ToolInv, [ToolNext]_toolVars
               PROVE  ToolInv'
    OBVIOUS
  <1>1. CASE UNCHANGED toolVars
    <2>1. chain' = chain /\ tool' = tool /\ evs' = evs /\ found' = found /\ closed' = closed
      BY <1>1 DEF toolVars
    <2>2. /\ head' = head /\ (\A b : timeOf(b)' = timeOf(b) /\ logsOf(b)' = logsOf(b))
          /\ \A l : ofAsset(l)' = ofAsset(l) /\ attributed(l)' = attributed(l)
          /\ ChainInv'
      BY <2>1, SameChain DEF ToolInv
    <2>3. ToolType' /\ (collected' <=> collected)
      BY <2>1 DEF ToolInv, ToolType, collected
    <2>4. /\ timeOf(head)' = timeOf(head) /\ (SearchIsOn => SearchIsOn')
          /\ (StartsRight => StartsRight') /\ (StopsRight => StopsRight')
      BY <2>1, <2>2 DEF SearchIsOn, StartsRight, StopsRight, timeOf
    <2>5. PagesAreRead => PagesAreRead'
      <3>1. {logsOf(b)' : b \in tool'.start .. tool'.page - 1} = {logsOf(b) : b \in tool.start .. tool.page - 1}
        BY <2>1, <2>2
      <3> QED
        BY <2>1, <3>1 DEF PagesAreRead
    <2>6. Ended => Ended'
      <3>1. {l \in evs : ofAsset(l)}' = {l \in evs : ofAsset(l)}
        BY <2>1, <2>2
      <3>2. (\E l \in evs : ~attributed(l)) => \E l \in evs' : ~attributed(l)'
        BY <2>1, <2>2
      <3> QED
        BY <2>1, <3>1, <3>2 DEF Ended
    <2>7. WindowInv'
      BY <2>1, <2>3, <2>4, <2>5, <2>6 DEF ToolInv, WindowInv
    <2> QED
      BY <2>2, <2>3, <2>7 DEF ToolInv
  <1> QED
    BY <1>1, ReadHeadStep, ProbeStep, SearchedStep, ReadPageStep, BuildStep, MineStep DEF ToolNext

\* At the end the tool has read the window, no more and no less.
LEMMA WindowIsRead ==
    ASSUME ToolInv, closed, collected, tool.page > tool.stop
    PROVE  evs = windowSpends
  <1>1. ChainInv /\ ToolType /\ WindowInv /\ head \in Nat
    BY HeadIsNat DEF ToolInv
  <1>2. StartsRight /\ StopsRight /\ PagesAreRead
    BY <1>1 DEF WindowInv, StopsRight
  <1>3. /\ tool.start \in Nat /\ tool.page \in Nat /\ tool.stop \in Int /\ tool.stop < head
        /\ \A b \in tool.start .. tool.page - 1 : b \in 0 .. head /\ b <= tool.stop
    BY ReadBlocks
  <1>4. fromTime \in Nat /\ toTime \in Nat
    BY ToolAssumption
  <1>5. evs = UNION {logsOf(b) : b \in tool.start .. tool.page - 1}
    BY <1>2 DEF PagesAreRead
  <1>6. ASSUME NEW l \in evs
        PROVE  l \in windowSpends
    <2>1. PICK b \in tool.start .. tool.page - 1 : l \in logsOf(b)
      BY <1>5
    <2>2. b \in 0 .. head /\ b <= tool.stop /\ b >= tool.start
      BY <1>3
    <2>3. timeOf(b) \in Nat /\ timeOf(b) >= fromTime /\ timeOf(b) < toTime
      BY <1>1, <1>2, <2>2, TimeIsNat DEF StartsRight, StopsRight
    <2>4. timeOf(b) \in fromTime .. toTime - 1
      BY <1>4, <2>3
    <2> QED
      BY <2>1, <2>2, <2>4 DEF windowSpends
  <1>7. ASSUME NEW l \in windowSpends
        PROVE  l \in evs
    <2>1. PICK b \in 0 .. head : timeOf(b) \in fromTime .. toTime - 1 /\ l \in logsOf(b)
      BY DEF windowSpends
    <2>2. timeOf(b) >= fromTime /\ timeOf(b) < toTime
      BY <1>1, <1>4, <2>1, TimeIsNat
    <2>3. b >= fromBlock
      BY <1>1, <2>1, NoTxsNoLogs DEF ChainInv
    <2>4. b >= tool.start /\ b <= tool.stop
      BY <1>2, <2>2, <2>3 DEF StartsRight, StopsRight
    <2>5. b \in tool.start .. tool.page - 1
      BY <1>3, <2>4
    <2> QED
      BY <1>5, <2>1, <2>5
  <1> QED
    BY <1>6, <1>7

\* nullifier_tree.py:62-127: for any window, page size, chain and growth of it, a run that starts after
\* the window closed has exactly the window's spends of the asset, in order, or a reason to refuse.
THEOREM ToolHoldsTheWindow == ToolSpec => []TreeHoldsTheWindow
  <1>1. ToolInv => TreeHoldsTheWindow
    <2> SUFFICES ASSUME ToolInv, closed, tool.pc \in {"done", "refused"}
                 PROVE  /\ tool.pc = "done" => found = sorted({l \in windowSpends : ofAsset(l)})
                        /\ tool.pc = "refused" =>
                              \/ \E l \in windowSpends : ~txOf(l).direct
                              \/ Cardinality({l \in windowSpends : ofAsset(l)}) > shifted[TREE_DEPTH]
      BY DEF TreeHoldsTheWindow
    <2>1. collected /\ Ended
      BY DEF collected, ToolInv, WindowInv
    <2>2. evs = windowSpends
      BY <2>1, WindowIsRead DEF Ended
    <2> HIDE DEF windowSpends
    <2> QED
      BY <2>1, <2>2 DEF Ended, attributed
  <1> QED
    BY ToolInitInv, ToolNextInv, <1>1, PTL DEF ToolSpec

-----------------------------------------------------------------------------
(* The hash.  The lanes of the packed permutation are, round by round, the  *)
(* state of the reference permutation times the scale of the round.  The    *)
(* induction behind both theorems at the end is LanesFollow.                *)

(* Residues.                                                               *)

Z == 0 .. P - 1
same(a, b) == a % P = b % P
mul(a, b) == (a * b) % P

\* Euclid's division by a positive number, and that its remainder is unique.
LEMMA Division ==
    ASSUME NEW n \in Nat, NEW e \in Nat \ {0}
    PROVE  /\ (n % e) \in 0 .. e - 1
           /\ n \div e \in Nat
           /\ n = e * (n \div e) + (n % e)
  OBVIOUS

LEMMA Remainder ==
    ASSUME NEW n \in Nat, NEW e \in Nat \ {0}, NEW q \in Int, NEW r \in 0 .. e - 1,
           n = e * q + r
    PROVE  n % e = r /\ n \div e = q
  <1> DEFINE d == n \div e
             m == n % e
  <1>1. n = e * d + m /\ d \in Int /\ m \in 0 .. e - 1
    BY Division
  <1> HIDE DEF d, m
  <1>2. e * (q - d) = m - r
    BY <1>1
  <1>3. ASSUME q - d >= 1
        PROVE  FALSE
    <2>1. e * (q - d) >= e
      BY <1>1, <1>3
    <2> QED
      BY <1>1, <1>2, <2>1
  <1>4. ASSUME q - d <= -1
        PROVE  FALSE
    <2>1. e * (q - d) <= -e
      BY <1>1, <1>4
    <2> QED
      BY <1>1, <1>2, <2>1
  <1>5. q = d
    BY <1>1, <1>3, <1>4
  <1>6. m = r
    BY <1>1, <1>5
  <1> QED
    BY <1>5, <1>6 DEF d, m

LEMMA Residue ==
    /\ P \in Nat \ {0} /\ 0 \in Z /\ 1 \in Z /\ Z \subseteq Nat
    /\ \A a \in Nat : a % P \in Z /\ a \div P \in Nat /\ a = P * (a \div P) + (a % P)
    /\ \A a \in Z : a % P = a
  <1>1. P \in Nat \ {0} /\ P > 1
    BY FieldAssumption
  <1>2. ASSUME NEW a \in Z
        PROVE  a % P = a
    <2>1. a \in Nat /\ a \in 0 .. P - 1 /\ a = P * 0 + a
      BY <1>1 DEF Z
    <2> QED
      BY <1>1, <2>1, Remainder
  <1>3. 0 \in Z /\ 1 \in Z /\ Z \subseteq Nat
    BY <1>1 DEF Z
  <1>4. \A a \in Nat : a % P \in Z /\ a \div P \in Nat /\ a = P * (a \div P) + (a % P)
    BY <1>1, Division DEF Z
  <1> QED
    BY <1>1, <1>2, <1>3, <1>4, Zenon

LEMMA MulTyped == \A a, b \in Nat : a * b \in Nat /\ mul(a, b) \in Z /\ mul(a, b) \in Nat
  <1>1. ASSUME NEW a \in Nat, NEW b \in Nat
        PROVE  a * b \in Nat
    OBVIOUS
  <1>2. ASSUME NEW a \in Nat, NEW b \in Nat
        PROVE  (a * b) % P \in Z /\ (a * b) % P \in Nat
    <2> DEFINE c == a * b
    <2>1. c \in Nat
      BY <1>1
    <2> HIDE DEF c
    <2>2. c % P \in Z /\ c % P \in Nat
      BY <2>1, Residue
    <2> QED
      BY <2>2 DEF c
  <1> QED
    BY <1>1, <1>2, Zenon DEF mul

LEMMA Shifted ==
    ASSUME NEW a \in Nat, NEW b \in Nat, NEW q \in Nat, a = b + P * q
    PROVE  same(a, b)
  <1>1. b % P \in Z /\ b \div P \in Nat /\ b = P * (b \div P) + (b % P) /\ P \in Nat \ {0}
    BY Residue
  <1>2. a = P * ((b \div P) + q) + (b % P) /\ (b \div P) + q \in Int
    BY <1>1
  <1>4. b % P \in 0 .. P - 1
    BY <1>1 DEF Z
  <1>3. a % P = b % P
    BY <1>1, <1>2, <1>4, Remainder, Zenon
  <1> QED
    BY <1>3 DEF same

LEMMA SumOfResidue ==
    ASSUME NEW a \in Nat, NEW b \in Nat
    PROVE  same(a + b, (a % P) + b)
  <1>1. a % P \in Nat /\ a \div P \in Nat /\ a = P * (a \div P) + (a % P) /\ P \in Nat
    BY Residue
  <1>2. a + b = ((a % P) + b) + P * (a \div P) /\ a + b \in Nat /\ (a % P) + b \in Nat
    BY <1>1
  <1> QED
    BY <1>1, <1>2, Shifted, Zenon

LEMMA ProductOfResidue ==
    ASSUME NEW a \in Nat, NEW b \in Nat
    PROVE  same(a * b, (a % P) * b)
  <1>1. a % P \in Nat /\ a \div P \in Nat /\ a = P * (a \div P) + (a % P) /\ P \in Nat
    BY Residue
  <1> DEFINE r == a % P
             q == a \div P
  <1>2. a * b = (P * q + r) * b
    BY <1>1
  <1> HIDE DEF r, q
  <1>3. r \in Nat /\ q \in Nat
    BY <1>1 DEF r, q
  <1>4. (P * q + r) * b = r * b + P * (q * b) /\ q * b \in Nat /\ r * b \in Nat /\ a * b \in Nat
    BY <1>1, <1>3
  <1>5. a * b = r * b + P * (q * b)
    BY <1>2, <1>4
  <1>6. same(a * b, r * b)
    BY <1>4, <1>5, Shifted
  <1> QED
    BY <1>6 DEF r

LEMMA SumsAlike ==
    ASSUME NEW a \in Nat, NEW b \in Nat, NEW c \in Nat, NEW d \in Nat, same(a, b), same(c, d)
    PROVE  a + c \in Nat /\ b + d \in Nat /\ same(a + c, b + d)
  <1>0. a + c \in Nat /\ b + d \in Nat
    OBVIOUS
  <1>1. a % P \in Nat /\ b % P \in Nat /\ c % P \in Nat /\ d % P \in Nat
    BY Residue
  <1>2. same(a + c, (a % P) + c) /\ same(c + (a % P), (c % P) + (a % P))
    BY <1>1, SumOfResidue
  <1>3. same(b + d, (b % P) + d) /\ same(d + (b % P), (d % P) + (b % P))
    BY <1>1, SumOfResidue
  <1>4. (a % P) + c = c + (a % P) /\ (b % P) + d = d + (b % P)
    BY <1>1
  <1> QED
    BY <1>0, <1>2, <1>3, <1>4 DEF same

LEMMA ProductsAlike ==
    ASSUME NEW a \in Nat, NEW b \in Nat, NEW c \in Nat, NEW d \in Nat, same(a, b), same(c, d)
    PROVE  a * c \in Nat /\ b * d \in Nat /\ same(a * c, b * d)
  <1>0. a * c \in Nat /\ b * d \in Nat
    BY MulTyped
  <1>1. a % P \in Nat /\ b % P \in Nat /\ c % P \in Nat /\ d % P \in Nat
    BY Residue
  <1>2. same(a * c, (a % P) * c) /\ same(c * (a % P), (c % P) * (a % P))
    BY <1>1, ProductOfResidue
  <1>3. same(b * d, (b % P) * d) /\ same(d * (b % P), (d % P) * (b % P))
    BY <1>1, ProductOfResidue
  <1>4. (a % P) * c = c * (a % P) /\ (b % P) * d = d * (b % P)
    BY <1>1
  <1> QED
    BY <1>0, <1>2, <1>3, <1>4 DEF same

LEMMA TotalsAlike ==
    ASSUME NEW x \in [1 .. 8 -> Nat], NEW y \in [1 .. 8 -> Nat], \A k \in 1 .. 8 : same(x[k], y[k])
    PROVE  Total(x) \in Nat /\ Total(y) \in Nat /\ same(Total(x), Total(y))
  <1> DEFINE x2 == x[1] + x[2]
             x3 == x2 + x[3]
             x4 == x3 + x[4]
             x5 == x4 + x[5]
             x6 == x5 + x[6]
             x7 == x6 + x[7]
             y2 == y[1] + y[2]
             y3 == y2 + y[3]
             y4 == y3 + y[4]
             y5 == y4 + y[5]
             y6 == y5 + y[6]
             y7 == y6 + y[7]
  <1>0. \A k \in 1 .. 8 : x[k] \in Nat /\ y[k] \in Nat
    OBVIOUS
  <1>i. 1 \in 1 .. 8 /\ 2 \in 1 .. 8 /\ 3 \in 1 .. 8 /\ 4 \in 1 .. 8 /\ 5 \in 1 .. 8 /\ 6 \in 1 .. 8
        /\ 7 \in 1 .. 8 /\ 8 \in 1 .. 8
    OBVIOUS
  <1>1. Total(x) = x7 + x[8] /\ Total(y) = y7 + y[8]
    BY DEF Total
  <1>2. x2 \in Nat /\ y2 \in Nat /\ same(x2, y2)
    BY <1>0, <1>i, SumsAlike, Zenon
  <1> HIDE DEF x2, y2
  <1>3. x3 \in Nat /\ y3 \in Nat /\ same(x3, y3)
    BY <1>0, <1>i, <1>2, SumsAlike, Zenon
  <1> HIDE DEF x3, y3
  <1>4. x4 \in Nat /\ y4 \in Nat /\ same(x4, y4)
    BY <1>0, <1>i, <1>3, SumsAlike, Zenon
  <1> HIDE DEF x4, y4
  <1>5. x5 \in Nat /\ y5 \in Nat /\ same(x5, y5)
    BY <1>0, <1>i, <1>4, SumsAlike, Zenon
  <1> HIDE DEF x5, y5
  <1>6. x6 \in Nat /\ y6 \in Nat /\ same(x6, y6)
    BY <1>0, <1>i, <1>5, SumsAlike, Zenon
  <1> HIDE DEF x6, y6
  <1>7. x7 \in Nat /\ y7 \in Nat /\ same(x7, y7)
    BY <1>0, <1>i, <1>6, SumsAlike, Zenon
  <1> HIDE DEF x7, y7
  <1>8. x7 + x[8] \in Nat /\ y7 + y[8] \in Nat /\ same(x7 + x[8], y7 + y[8])
    BY <1>0, <1>i, <1>7, SumsAlike, Zenon
  <1> QED
    BY <1>1, <1>8, Zenon
-----------------------------------------------------------------------------
(* Products of residues, and their seventh powers.                         *)

LEMMA MulComm ==
    ASSUME NEW a \in Nat, NEW b \in Nat
    PROVE  mul(a, b) = mul(b, a)
  <1>1. a * b = b * a
    OBVIOUS
  <1> QED
    BY <1>1 DEF mul

LEMMA MulAlike ==
    ASSUME NEW a \in Nat, NEW b \in Nat, NEW c \in Nat, NEW d \in Nat, same(a, b), same(c, d)
    PROVE  mul(a, c) = mul(b, d)
  BY ProductsAlike DEF same, mul

LEMMA ResidueAlike ==
    ASSUME NEW a \in Nat
    PROVE  same(a % P, a) /\ same(a, a)
  BY Residue, Zenon DEF same

LEMMA MulAssoc ==
    ASSUME NEW a \in Nat, NEW b \in Nat, NEW c \in Nat
    PROVE  mul(mul(a, b), c) = mul(a, mul(b, c))
  <1>1. a * b \in Nat /\ b * c \in Nat /\ mul(a, b) \in Nat /\ mul(b, c) \in Nat
    BY MulTyped, Zenon
  <1>2. same(mul(a, b), a * b) /\ same(mul(b, c), b * c) /\ same(a, a) /\ same(c, c)
    BY <1>1, ResidueAlike, Zenon DEF mul
  <1>3. mul(mul(a, b), c) = mul(a * b, c) /\ mul(a, mul(b, c)) = mul(a, b * c)
    <2> DEFINE ab == mul(a, b)
               bc == mul(b, c)
    <2>1. ab \in Nat /\ bc \in Nat /\ a * b \in Nat /\ b * c \in Nat
          /\ same(ab, a * b) /\ same(bc, b * c) /\ same(a, a) /\ same(c, c)
      BY <1>1, <1>2, Zenon
    <2> HIDE DEF ab, bc
    <2>2. mul(ab, c) = mul(a * b, c)
      BY <2>1, MulAlike
    <2>3. mul(a, bc) = mul(a, b * c)
      BY <2>1, MulAlike
    <2> QED
      BY <2>2, <2>3, Zenon DEF ab, bc
  <1>4. (a * b) * c = a * (b * c)
    OBVIOUS
  <1> QED
    BY <1>3, <1>4, Zenon DEF mul

LEMMA Interchange ==
    ASSUME NEW a \in Nat, NEW b \in Nat, NEW c \in Nat, NEW d \in Nat
    PROVE  mul(mul(a, b), mul(c, d)) = mul(mul(a, c), mul(b, d))
  <1>1. /\ mul(c, d) \in Nat /\ mul(b, d) \in Nat /\ mul(b, c) \in Nat /\ mul(c, b) \in Nat
        /\ mul(a, b) \in Nat /\ mul(a, c) \in Nat
    BY MulTyped, Zenon
  <1>2. mul(mul(a, b), mul(c, d)) = mul(a, mul(b, mul(c, d)))
    BY <1>1, MulAssoc
  <1>3. mul(b, mul(c, d)) = mul(mul(b, c), d)
    BY MulAssoc
  <1>4. mul(mul(b, c), d) = mul(mul(c, b), d)
    BY MulComm
  <1>5. mul(mul(c, b), d) = mul(c, mul(b, d))
    BY MulAssoc
  <1>6. mul(a, mul(c, mul(b, d))) = mul(mul(a, c), mul(b, d))
    BY <1>1, MulAssoc
  <1> QED
    BY <1>2, <1>3, <1>4, <1>5, <1>6, Zenon

LEMMA MulUnits ==
    ASSUME NEW a \in Z
    PROVE  mul(a, 1) = a /\ mul(1, a) = a /\ mul(a, 0) = 0 /\ mul(0, a) = 0
  <1>1. a \in Nat /\ a % P = a /\ 0 % P = 0
    BY Residue, Zenon
  <1>2. a * 1 = a /\ 1 * a = a /\ a * 0 = 0 /\ 0 * a = 0
    BY <1>1
  <1> QED
    BY <1>1, <1>2, Zenon DEF mul

cube(x) == mul(mul(x, x), x)

LEMMA PowerIs ==
    ASSUME NEW x \in Nat
    PROVE  pow7(x) = mul(mul(cube(x), cube(x)), x) /\ cube(x) \in Nat /\ pow7(x) \in Z /\ pow7(x) \in Nat
  <1>1. pow7(x) = mul(mul(cube(x), cube(x)), x)
    BY Zenon DEF pow7, cube, mul
  <1>2. mul(x, x) \in Nat
    BY MulTyped, Zenon
  <1>3. cube(x) \in Nat
    BY <1>2, MulTyped, Zenon DEF cube
  <1>4. mul(cube(x), cube(x)) \in Nat
    BY <1>3, MulTyped, Zenon
  <1> QED
    BY <1>1, <1>3, <1>4, MulTyped, Zenon

LEMMA CubeOfProduct ==
    ASSUME NEW a \in Nat, NEW b \in Nat
    PROVE  cube(mul(a, b)) = mul(cube(a), cube(b))
  <1>1. mul(a, b) \in Nat /\ mul(a, a) \in Nat /\ mul(b, b) \in Nat
    BY MulTyped, Zenon
  <1>2. mul(mul(a, b), mul(a, b)) = mul(mul(a, a), mul(b, b))
    BY Interchange, Zenon
  <1>3. mul(mul(mul(a, a), mul(b, b)), mul(a, b)) = mul(mul(mul(a, a), a), mul(mul(b, b), b))
    BY <1>1, Interchange
  <1> QED
    BY <1>2, <1>3, Zenon DEF cube

\* The power of a product is the product of the powers.
LEMMA PowerOfProduct ==
    ASSUME NEW a \in Nat, NEW b \in Nat
    PROVE  pow7(mul(a, b)) = mul(pow7(a), pow7(b))
  <1> DEFINE ca == cube(a)
             cb == cube(b)
  <1>1. mul(a, b) \in Nat /\ ca \in Nat /\ cb \in Nat
    BY MulTyped, PowerIs, Zenon
  <1>2. pow7(mul(a, b)) = mul(mul(mul(ca, cb), mul(ca, cb)), mul(a, b))
    BY <1>1, PowerIs, CubeOfProduct, Zenon
  <1>3. pow7(a) = mul(mul(ca, ca), a) /\ pow7(b) = mul(mul(cb, cb), b)
    BY PowerIs, Zenon
  <1> HIDE DEF ca, cb
  <1>4. mul(ca, ca) \in Nat /\ mul(cb, cb) \in Nat
    BY <1>1, MulTyped, Zenon
  <1>5. mul(mul(ca, cb), mul(ca, cb)) = mul(mul(ca, ca), mul(cb, cb))
    BY <1>1, Interchange
  <1>6. mul(mul(mul(ca, ca), mul(cb, cb)), mul(a, b)) = mul(mul(mul(ca, ca), a), mul(mul(cb, cb), b))
    BY <1>4, Interchange
  <1> QED
    BY <1>2, <1>3, <1>5, <1>6, Zenon

\* The packed round takes the same power of a lane that is not yet reduced.
LEMMA SboxIsPower ==
    ASSUME NEW l \in Nat
    PROVE  fast_sbox(l) = pow7(l % P)
  <1> DEFINE t == l % P
  <1>1. t \in Nat /\ same(l, t)
    BY Residue, Zenon DEF same
  <1>2. mul(l, l) = mul(t, t)
    BY <1>1, MulAlike, Zenon
  <1>3. fast_sbox(l) = mul(mul(mul(mul(l, l), t), mul(mul(l, l), t)), t)
    BY Zenon DEF fast_sbox, mul
  <1> HIDE DEF t
  <1>4. fast_sbox(l) = pow7(t)
    BY <1>1, <1>2, <1>3, PowerIs, Zenon DEF cube
  <1> QED
    BY <1>4 DEF t

-----------------------------------------------------------------------------
(* The scales.                                                             *)

Units == 1 .. P - 1

\* The non-zero residues.
LEMMA UnitsAre == Units \subseteq Z /\ Units \subseteq Nat /\ (\A x \in Z : x # 0 => x \in Units) /\ 0 \notin Units /\ 1 \in Units
  <1>1. P \in Nat /\ P > 1
    BY FieldAssumption
  <1> QED
    BY <1>1 DEF Units, Z

\* Every unit has the inverse that inverse() chooses.
LEMMA Inverted ==
    ASSUME NEW x \in Units
    PROVE  inverse(x) \in Units /\ mul(x, inverse(x)) = 1
  <1>1. \E y \in 1 .. P - 1 : (x * y) % P = 1
    BY FieldAssumption, Zenon DEF Units
  <1> QED
    BY <1>1, Zenon DEF inverse, Units, mul

LEMMA ProductOfUnits ==
    ASSUME NEW a \in Units, NEW b \in Units
    PROVE  mul(a, b) \in Units
  <1> DEFINE i == inverse(a)
  <1>1. a \in Nat /\ b \in Nat /\ i \in Nat /\ b \in Z /\ b # 0 /\ i \in Z /\ mul(a, i) = 1
    BY UnitsAre, Inverted, Zenon
  <1> HIDE DEF i
  <1>2. mul(i, a) = 1 /\ mul(mul(i, a), b) = mul(i, mul(a, b))
    BY <1>1, MulComm, MulAssoc, Zenon
  <1>3. mul(1, b) = b /\ mul(i, 0) = 0
    BY <1>1, MulUnits, Zenon
  <1>4. mul(a, b) # 0
    BY <1>1, <1>2, <1>3, Zenon
  <1> QED
    BY <1>1, <1>4, UnitsAre, MulTyped, Zenon

LEMMA PowerOfUnit ==
    ASSUME NEW x \in Units
    PROVE  pow7(x) \in Units
  <1>1. x \in Nat
    BY UnitsAre, Zenon
  <1>2. cube(x) \in Units
    BY ProductOfUnits, Zenon DEF cube
  <1>3. mul(mul(cube(x), cube(x)), x) \in Units
    BY <1>2, ProductOfUnits, Zenon
  <1> QED
    BY <1>1, <1>3, PowerIs, Zenon

LEMMA ScaleIsUnit == F \in Units /\ L \in Nat
  <1>1. P \in Nat /\ P > 1 /\ L \in Nat /\ L % P # 0
    BY FieldAssumption, ScaleFound
  <1>2. L % P \in Z
    BY <1>1, Residue, Zenon
  <1>3. L % P \in Units
    BY <1>1, <1>2, UnitsAre, Zenon
  <1> DEFINE i == inverse(L % P)
  <1>4. i \in Units
    BY <1>3, Inverted, Zenon
  <1> HIDE DEF i
  <1>5. P - i \in Units
    BY <1>1, <1>4 DEF Units
  <1>6. (P - i) % P = P - i
    BY <1>5, UnitsAre, Residue, Zenon
  <1> QED
    BY <1>1, <1>5, <1>6, Zenon DEF F, i

\* The integer matrix is the MDS matrix over F.
LEMMA SmallEntries == \A j, k \in 1 .. 8 : MP[j][k] \in Nat /\ MDS[j][k] \in Z /\ same(MDS[j][k], F * MP[j][k])
  <1> SUFFICES ASSUME NEW j \in 1 .. 8, NEW k \in 1 .. 8
               PROVE  MP[j][k] \in Nat /\ MDS[j][k] \in Z /\ same(MDS[j][k], F * MP[j][k])
    OBVIOUS
  <1>1. MP[j][k] = L \div denominator(j, k)
    BY DEF MP, Vector
  <1>2. denominator(j, k) \in 1 .. 63
    BY ScaleFound DEF WIDTH
  <1>3. MP[j][k] \in Nat
    <2> DEFINE d == denominator(j, k)
    <2>1. d \in Nat \ {0} /\ L \in Nat
      BY <1>2, ScaleIsUnit
    <2> HIDE DEF d
    <2>2. L \div d \in Nat
      BY <2>1, Division
    <2> QED
      BY <1>1, <2>2 DEF d
  <1>4. MDS[j][k] = (F * MP[j][k]) % P
    BY IntegerMDS DEF WIDTH
  <1>5. F * MP[j][k] \in Nat
    BY <1>3, ScaleIsUnit, UnitsAre, MulTyped
  <1>6. MDS[j][k] \in Z
    BY <1>4, <1>5, Residue, Zenon
  <1> QED
    BY <1>3, <1>4, <1>5, <1>6, ResidueAlike, Zenon

\* The scales: each the seventh power of the one before it, over F.
LEMMA Scales ==
    /\ C \in [-1 .. ROUNDS - 1 -> Units] /\ C[-1] = 1
    /\ \A r \in 0 .. ROUNDS - 1 : C[r] = mul(pow7(C[r - 1]), inverse(F))
  <1> DEFINE nextScale == [x \in Units |-> mul(pow7(x), inverse(F))]
             step == [r \in 1 .. ROUNDS |-> nextScale]
  <1>1. ROUNDS \in Nat \ {0}
    BY FieldAssumption
  <1>2. ASSUME NEW x \in Units
        PROVE  mul(pow7(x), inverse(F)) \in Units
    BY PowerOfUnit, ScaleIsUnit, Inverted, ProductOfUnits, Zenon
  <1>3. step \in [1 .. ROUNDS -> [Units -> Units]] /\ 1 \in Units
    BY <1>2, UnitsAre
  <1>4. PICK g : runsAlong(g, ROUNDS, Units, 1, step)
    <2> HIDE DEF step
    <2> QED
      BY <1>1, <1>3, RecursionAlong
  <1>5. /\ g \in [0 .. ROUNDS -> Units] /\ g[0] = 1
        /\ \A r \in 1 .. ROUNDS : g[r] = mul(pow7(g[r - 1]), inverse(F))
    <2>1. g \in [0 .. ROUNDS -> Units] /\ g[0] = 1 /\ \A r \in 1 .. ROUNDS : g[r] = step[r][g[r - 1]]
      BY <1>4 DEF runsAlong
    <2>2. \A r \in 1 .. ROUNDS : g[r - 1] \in Units
      BY <1>1, <2>1
    <2> QED
      BY <2>1, <2>2
  <1> DEFINE rec(f) == [r \in -1 .. ROUNDS - 1 |-> IF r = -1 THEN 1 ELSE (pow7(f[r - 1]) * inverse(F)) % P]
             c == [r \in -1 .. ROUNDS - 1 |-> g[r + 1]]
  <1>6. c = rec(c)
    <2>1. ASSUME NEW r \in -1 .. ROUNDS - 1
          PROVE  c[r] = rec(c)[r]
      <3>1. CASE r = -1
        BY <1>5, <3>1
      <3>2. CASE r # -1
        <4>1. r + 1 \in 1 .. ROUNDS /\ (r + 1) - 1 = r /\ r - 1 \in -1 .. ROUNDS - 1 /\ (r - 1) + 1 = r
          BY <1>1, <3>2
        <4>2. c[r] = g[r + 1] /\ c[r - 1] = g[r]
          BY <4>1
        <4>3. g[r + 1] = mul(pow7(g[r]), inverse(F))
          BY <1>5, <4>1
        <4>4. rec(c)[r] = (pow7(c[r - 1]) * inverse(F)) % P
          <5> HIDE DEF c
          <5> QED
            BY <3>2
        <4> QED
          BY <4>2, <4>3, <4>4, Zenon DEF mul
      <3> QED
        BY <3>1, <3>2
    <2>2. DOMAIN c = -1 .. ROUNDS - 1 /\ c = [r \in -1 .. ROUNDS - 1 |-> c[r]]
      OBVIOUS
    <2> HIDE DEF c
    <2> QED
      BY <2>1, <2>2
  <1> HIDE DEF c
  <1>7. C = rec(C)
    <2>1. C = CHOOSE f : f = rec(f)
      BY DEF C
    <2> HIDE DEF rec
    <2> QED
      BY <1>6, <2>1
  <1>8. /\ \A r \in -1 .. ROUNDS - 1 : C[r] = IF r = -1 THEN 1 ELSE (pow7(C[r - 1]) * inverse(F)) % P
        /\ C = [r \in -1 .. ROUNDS - 1 |-> C[r]]
    <2> DEFINE c1 == C
    <2>1. c1 = rec(c1)
      BY <1>7
    <2> HIDE DEF c1
    <2>2. \A r \in -1 .. ROUNDS - 1 : c1[r] = IF r = -1 THEN 1 ELSE (pow7(c1[r - 1]) * inverse(F)) % P
      BY <2>1
    <2>3. c1 = [r \in -1 .. ROUNDS - 1 |-> c1[r]]
      BY <2>1
    <2> QED
      BY <2>2, <2>3 DEF c1
  <1>9. C[-1] = 1 /\ \A r \in 0 .. ROUNDS - 1 : C[r] = mul(pow7(C[r - 1]), inverse(F))
    <2>1. -1 \in -1 .. ROUNDS - 1 /\ \A r \in 0 .. ROUNDS - 1 : r \in -1 .. ROUNDS - 1 /\ r # -1
      BY <1>1
    <2> QED
      BY <1>8, <2>1 DEF mul
  <1>10. \A m \in 0 .. ROUNDS : C[m - 1] \in Units
    <2> DEFINE S == {m \in 0 .. ROUNDS : C[m - 1] \in Units}
    <2>1. 0 \in S
      BY <1>1, <1>3, <1>9
    <2>2. ASSUME NEW m \in 0 .. ROUNDS - 1, m \in S
          PROVE  m + 1 \in S
      <3>1. m + 1 \in 0 .. ROUNDS /\ (m + 1) - 1 = m /\ C[m - 1] \in Units
        BY <1>1, <2>2
      <3>2. C[m] = mul(pow7(C[m - 1]), inverse(F))
        BY <1>9
      <3>3. C[m] \in Units
        BY <1>2, <3>1, <3>2, Zenon
      <3> QED
        BY <3>1, <3>3
    <2>3. 0 .. ROUNDS \subseteq S
      <3> HIDE DEF S
      <3> QED
        BY <1>1, <2>1, <2>2, UpToInduction
    <2> QED
      BY <2>3
  <1>11. \A r \in -1 .. ROUNDS - 1 : C[r] \in Units
    <2>1. ASSUME NEW r \in -1 .. ROUNDS - 1
          PROVE  C[r] \in Units
      <3>1. r + 1 \in 0 .. ROUNDS /\ (r + 1) - 1 = r
        BY <1>1
      <3> QED
        BY <1>10, <3>1
    <2> QED
      BY <2>1
  <1> QED
    BY <1>8, <1>9, <1>11

\* A scale times F is the seventh power of the scale before it.
LEMMA ScaleStep ==
    ASSUME NEW r \in 0 .. ROUNDS - 1
    PROVE  /\ C[r] \in Units /\ C[r - 1] \in Units /\ C[r] \in Nat /\ C[r - 1] \in Nat /\ F \in Nat
           /\ mul(C[r], F) = pow7(C[r - 1])
           /\ CINV(r) \in Units /\ mul(C[r], CINV(r)) = 1
  <1>1. r \in -1 .. ROUNDS - 1 /\ r - 1 \in -1 .. ROUNDS - 1
    BY FieldAssumption
  <1>2. C[r] \in Units /\ C[r - 1] \in Units
    BY <1>1, Scales
  <1> DEFINE p == pow7(C[r - 1])
             i == inverse(F)
  <1>3. C[r] = mul(p, i)
    BY Scales
  <1>4. p \in Z /\ p \in Nat /\ i \in Nat /\ F \in Nat /\ mul(F, i) = 1
    BY <1>2, PowerOfUnit, ScaleIsUnit, Inverted, UnitsAre, Zenon
  <1> HIDE DEF p, i
  <1>5. mul(mul(p, i), F) = mul(p, mul(i, F)) /\ mul(i, F) = mul(F, i)
    <2>1. mul(mul(p, i), F) = mul(p, mul(i, F))
      BY <1>4, MulAssoc
    <2>2. mul(i, F) = mul(F, i)
      BY <1>4, MulComm
    <2> QED
      BY <2>1, <2>2
  <1>6. mul(C[r], F) = p
    BY <1>3, <1>4, <1>5, MulUnits, Zenon
  <1>7. C[r] \in Nat /\ C[r - 1] \in Nat
    BY <1>2, UnitsAre
  <1>8. CINV(r) \in Units /\ mul(C[r], CINV(r)) = 1
    BY <1>2, Inverted, Zenon DEF CINV
  <1> QED
    BY <1>2, <1>4, <1>6, <1>7, <1>8, Zenon DEF p

-----------------------------------------------------------------------------
(* One row of a round.                                                     *)

fourFactors(m, x, f, p) == mul(m, mul(mul(x, f), p)) = mul(x, mul(mul(f, m), p))

LEMMA FourFactors ==
    ASSUME NEW m \in Nat, NEW x \in Nat, NEW f \in Nat, NEW p \in Nat
    PROVE  fourFactors(m, x, f, p)
  <1>1. mul(x, f) \in Nat /\ mul(f, p) \in Nat /\ mul(m, x) \in Nat /\ mul(f, m) \in Nat /\ mul(m, f) \in Nat
    BY MulTyped, Zenon
  <1>2. mul(mul(x, f), p) = mul(x, mul(f, p))
    BY MulAssoc
  <1>3. mul(m, mul(x, mul(f, p))) = mul(mul(m, x), mul(f, p))
    BY <1>1, MulAssoc
  <1>4. mul(m, x) = mul(x, m) /\ mul(m, f) = mul(f, m)
    BY MulComm
  <1>5. mul(mul(x, m), mul(f, p)) = mul(x, mul(m, mul(f, p)))
    BY <1>1, MulAssoc
  <1>6. mul(m, mul(f, p)) = mul(mul(m, f), p)
    BY MulAssoc
  <1> QED
    BY <1>2, <1>3, <1>4, <1>5, <1>6, Zenon DEF fourFactors

LEMMA Distribute ==
    ASSUME NEW c \in Nat, NEW a \in Nat, NEW b \in Nat
    PROVE  c * (a + b) = c * a + c * b /\ c * a \in Nat /\ c * b \in Nat /\ a + b \in Nat
  OBVIOUS

LEMMA TotalTimes ==
    ASSUME NEW c \in Nat, NEW x \in [1 .. 8 -> Nat]
    PROVE  c * Total(x) = Total([k \in 1 .. 8 |-> c * x[k]])
  <1> DEFINE x2 == x[1] + x[2]
             x3 == x2 + x[3]
             x4 == x3 + x[4]
             x5 == x4 + x[5]
             x6 == x5 + x[6]
             x7 == x6 + x[7]
  <1>0. x[1] \in Nat /\ x[2] \in Nat /\ x[3] \in Nat /\ x[4] \in Nat /\ x[5] \in Nat /\ x[6] \in Nat
        /\ x[7] \in Nat /\ x[8] \in Nat
    OBVIOUS
  <1>1. Total(x) = x7 + x[8]
    BY DEF Total
  <1>2. Total([k \in 1 .. 8 |-> c * x[k]])
          = c * x[1] + c * x[2] + c * x[3] + c * x[4] + c * x[5] + c * x[6] + c * x[7] + c * x[8]
    BY DEF Total
  <1>3. c * x2 = c * x[1] + c * x[2] /\ x2 \in Nat
    BY <1>0, Distribute
  <1> HIDE DEF x2
  <1>4. c * x3 = c * x2 + c * x[3] /\ x3 \in Nat
    BY <1>0, <1>3, Distribute
  <1> HIDE DEF x3
  <1>5. c * x4 = c * x3 + c * x[4] /\ x4 \in Nat
    BY <1>0, <1>4, Distribute
  <1> HIDE DEF x4
  <1>6. c * x5 = c * x4 + c * x[5] /\ x5 \in Nat
    BY <1>0, <1>5, Distribute
  <1> HIDE DEF x5
  <1>7. c * x6 = c * x5 + c * x[6] /\ x6 \in Nat
    BY <1>0, <1>6, Distribute
  <1> HIDE DEF x6
  <1>8. c * x7 = c * x6 + c * x[7] /\ x7 \in Nat
    BY <1>0, <1>7, Distribute
  <1> HIDE DEF x7
  <1>9. c * (x7 + x[8]) = c * x7 + c * x[8]
    BY <1>0, <1>8, Distribute
  <1> QED
    BY <1>1, <1>2, <1>3, <1>4, <1>5, <1>6, <1>7, <1>8, <1>9, Zenon

\* One entry of a round of the reference permutation.
LEMMA RowOfRound ==
    ASSUME NEW r, NEW j \in 1 .. 8, NEW s
    PROVE  ref_round(s, r)[j]
             = (RC[r][j] + Total([k \in 1 .. 8 |-> MDS[j][k] * [i \in 1 .. 8 |-> pow7(s[i])][k]])) % P
  <1> DEFINE t == Vector(LAMBDA k : pow7(s[k]))
             row(i) == Vector(LAMBDA k : MDS[i][k] * t[k])
             y == [k \in 1 .. 8 |-> MDS[j][k] * [i \in 1 .. 8 |-> pow7(s[i])][k]]
  <1>1. \A k \in 1 .. 8 : t[k] = pow7(s[k])
    BY DEF Vector
  <1>2. ref_round(s, r)
          = <<(RC[r][1] + Total(row(1))) % P, (RC[r][2] + Total(row(2))) % P, (RC[r][3] + Total(row(3))) % P,
              (RC[r][4] + Total(row(4))) % P, (RC[r][5] + Total(row(5))) % P, (RC[r][6] + Total(row(6))) % P,
              (RC[r][7] + Total(row(7))) % P, (RC[r][8] + Total(row(8))) % P>>
    BY DEF ref_round, Vector
  <1> HIDE DEF t
  <1>3. Total(row(j)) = Total(y)
    <2>2. \A k \in 1 .. 8 : row(j)[k] = MDS[j][k] * t[k]
      BY DEF Vector
    <2>3. \A k \in 1 .. 8 : row(j)[k] = y[k]
      BY <1>1, <2>2
    <2> HIDE DEF row, y
    <2> QED
      BY <2>3 DEF Total
  <1> HIDE DEF row, y
  <1>4. ref_round(s, r)[j] = (RC[r][j] + Total(row(j))) % P
    BY <1>2
  <1> QED
    BY <1>3, <1>4 DEF y

\* What a lane holds after round r, unreduced: t are the powers of the lanes before it.
rowSum(r, j, t) == ((C[r] * RC[r][j]) % P) + Total([k \in 1 .. 8 |-> MP[j][k] * t[k]])

\* The lanes hold the state of the reference times a scale.
scaledBy(c, lanes, s) == \A k \in 1 .. 8 : lanes[k] % P = mul(c, s[k])

powers(lanes) == [k \in 1 .. 8 |-> fast_sbox(lanes[k])]

LEMMA PowersTyped ==
    ASSUME NEW lanes \in [1 .. 8 -> Nat]
    PROVE  powers(lanes) \in [1 .. 8 -> Z]
  <1>1. ASSUME NEW k \in 1 .. 8
        PROVE  fast_sbox(lanes[k]) \in Z
    <2>1. lanes[k] \in Nat
      OBVIOUS
    <2>2. lanes[k] % P \in Nat
      BY <2>1, Residue, Zenon
    <2> QED
      BY <2>1, <2>2, SboxIsPower, PowerIs, Zenon
  <1> QED
    BY <1>1 DEF powers

LEMMA ConstantsTyped ==
    ASSUME NEW r \in 0 .. ROUNDS - 1, NEW j \in 1 .. 8
    PROVE  RC[r][j] \in Z /\ RC[r][j] \in Nat
  <1>1. RC[r] \in [1 .. 8 -> 0 .. P - 1]
    BY FieldAssumption
  <1> QED
    BY <1>1, Residue DEF Z

\* A row of the packed round, from lanes that are a state times the scale before it, is
\* the row of the reference round from that state, times the scale after it.
LEMMA ScaledRow ==
    ASSUME NEW r \in 0 .. ROUNDS - 1, NEW j \in 1 .. 8, NEW lanes \in [1 .. 8 -> Nat], NEW s \in [1 .. 8 -> Z],
           scaledBy(C[r - 1], lanes, s)
    PROVE  /\ ref_round(s, r)[j] \in Z
           /\ rowSum(r, j, powers(lanes)) % P = mul(C[r], ref_round(s, r)[j])
  <1> DEFINE c == C[r]
             b == C[r - 1]
             t == powers(lanes)
             p == [k \in 1 .. 8 |-> pow7(s[k])]
             y == [k \in 1 .. 8 |-> MDS[j][k] * p[k]]
             z == [k \in 1 .. 8 |-> MP[j][k] * t[k]]
             cy == [k \in 1 .. 8 |-> c * y[k]]
             rc == RC[r][j]
             ref == rc + Total(y)
  <1>1. ref_round(s, r)[j] = ref % P
    BY RowOfRound
  <1>2. rowSum(r, j, t) = ((c * rc) % P) + Total(z)
    BY Zenon DEF rowSum
  <1>3. c \in Nat /\ b \in Nat /\ F \in Nat /\ mul(c, F) = pow7(b) /\ pow7(b) \in Nat
    BY ScaleStep, PowerIs, Zenon
  <1>4. rc \in Nat
    BY ConstantsTyped
  <1>5. ASSUME NEW k \in 1 .. 8
        PROVE  /\ p[k] \in Nat /\ t[k] \in Nat /\ MP[j][k] \in Nat /\ MDS[j][k] \in Nat
               /\ t[k] = mul(mul(c, F), p[k]) /\ same(MDS[j][k], F * MP[j][k])
    <2>1. s[k] \in Nat /\ lanes[k] \in Nat
      BY Residue
    <2>2. p[k] = pow7(s[k]) /\ t[k] = fast_sbox(lanes[k])
      BY DEF powers
    <2>3. p[k] \in Nat
      BY <2>1, <2>2, PowerIs, Zenon
    <2>4. t[k] = pow7(mul(b, s[k]))
      BY <2>1, <2>2, SboxIsPower, Zenon DEF scaledBy
    <2>5. t[k] = mul(pow7(b), pow7(s[k]))
      BY <1>3, <2>1, <2>4, PowerOfProduct, Zenon
    <2>6. t[k] \in Nat
      BY <1>3, <2>2, <2>3, <2>5, MulTyped, Zenon
    <2>7. MP[j][k] \in Nat /\ MDS[j][k] \in Nat /\ same(MDS[j][k], F * MP[j][k])
      BY SmallEntries, Residue
    <2> QED
      BY <1>3, <2>2, <2>3, <2>5, <2>6, <2>7, Zenon
  <1> HIDE DEF c, b, t, p, rc
  <1>6. ASSUME NEW k \in 1 .. 8
        PROVE  /\ y[k] \in Nat /\ z[k] \in Nat /\ cy[k] \in Nat /\ same(z[k], cy[k])
    <2> DEFINE m == MP[j][k]
               d == MDS[j][k]
               q == p[k]
    <2>1. m \in Nat /\ d \in Nat /\ q \in Nat /\ t[k] \in Nat /\ t[k] = mul(mul(c, F), q) /\ same(d, F * m)
      BY <1>5, Zenon
    <2>2. y[k] = d * q /\ z[k] = m * t[k] /\ cy[k] = c * (d * q)
      OBVIOUS
    <2> HIDE DEF m, d, q, y, z, cy
    <2>3. d * q \in Nat /\ m * t[k] \in Nat /\ c * (d * q) \in Nat /\ F * m \in Nat /\ mul(F, m) \in Nat
      BY <1>3, <2>1, MulTyped, Zenon
    <2>4. mul(m, t[k]) = mul(c, mul(mul(F, m), q))
      <3>1. fourFactors(m, c, F, q)
        BY <1>3, <2>1, FourFactors, Zenon
      <3> QED
        BY <2>1, <3>1, Zenon DEF fourFactors
    <2>5. same(mul(F, m), d)
      BY <2>1, <2>3, ResidueAlike, Zenon DEF mul, same
    <2>6. same(mul(F, m) * q, d * q) /\ mul(F, m) * q \in Nat
      BY <2>1, <2>3, <2>5, ProductsAlike, ResidueAlike, Zenon
    <2>7. same(mul(mul(F, m), q), d * q) /\ mul(mul(F, m), q) \in Nat
      BY <2>1, <2>3, <2>6, ResidueAlike, MulTyped, Zenon DEF mul, same
    <2>8. same(c * mul(mul(F, m), q), c * (d * q))
      BY <1>3, <2>3, <2>7, ProductsAlike, ResidueAlike, Zenon
    <2>9. same(m * t[k], c * (d * q))
      BY <2>4, <2>8, Zenon DEF same, mul
    <2> QED
      BY <2>2, <2>3, <2>9, Zenon
  <1>7. y \in [1 .. 8 -> Nat] /\ z \in [1 .. 8 -> Nat] /\ cy \in [1 .. 8 -> Nat]
        /\ \A k \in 1 .. 8 : same(z[k], cy[k])
    <2>1. y = [k \in 1 .. 8 |-> y[k]] /\ z = [k \in 1 .. 8 |-> z[k]] /\ cy = [k \in 1 .. 8 |-> cy[k]]
      OBVIOUS
    <2> HIDE DEF y, z, cy
    <2> QED
      BY <1>6, <2>1
  <1>8. Total(cy) = c * Total(y)
    <2> HIDE DEF y
    <2> QED
      BY <1>3, <1>7, TotalTimes, Zenon
  <1> HIDE DEF y, z, cy
  <1>9. Total(z) \in Nat /\ Total(cy) \in Nat /\ Total(y) \in Nat /\ same(Total(z), Total(cy))
    BY <1>7, TotalsAlike, ResidueAlike
  <1>10. c * rc \in Nat /\ (c * rc) % P \in Nat /\ same((c * rc) % P, c * rc)
    BY <1>3, <1>4, MulTyped, Residue, ResidueAlike DEF mul
  <1>11. same(((c * rc) % P) + Total(z), c * rc + Total(cy))
    BY <1>9, <1>10, SumsAlike, Zenon
  <1>12. c * rc + Total(cy) = c * ref /\ ref \in Nat
    BY <1>3, <1>4, <1>8, <1>9, Distribute
  <1> HIDE DEF ref
  <1>13. ref % P \in Nat /\ ref % P \in Z /\ same(ref, ref % P) /\ same(c, c)
    BY <1>12, Residue, ResidueAlike DEF same
  <1>14. same(c * ref, c * (ref % P))
    BY <1>3, <1>12, <1>13, ProductsAlike, Zenon
  <1>15. rowSum(r, j, t) % P = mul(c, ref % P)
    BY <1>2, <1>11, <1>12, <1>14, Zenon DEF same, mul
  <1> QED
    BY <1>1, <1>13, <1>15 DEF c, t

-----------------------------------------------------------------------------
(* Packed rows.                                                            *)

U == 2^W
weigh(a, b, c) == a + b * U + c * (U * U)

\* The places of the lanes in a word weigh 1, U and U * U.
LEMMA Weights ==
    /\ U \in Nat \ {0} /\ 2^offset(1) = 1 /\ 2^offset(2) = U /\ 2^offset(3) = U * U
    /\ offset(1) \in 0 .. WORDBITS /\ offset(2) \in 0 .. WORDBITS /\ offset(3) \in 0 .. WORDBITS
  <1>1. W \in Nat /\ WORDBITS \in Nat /\ 2 * W < WORDBITS
    BY FieldAssumption
  <1>2. offset(1) = 0 /\ offset(2) = W /\ offset(3) = W + W
    BY <1>1 DEF offset
  <1>3. 0 \in 0 .. WORDBITS /\ W \in 0 .. WORDBITS /\ W + W \in 0 .. WORDBITS /\ W + W <= WORDBITS
    BY <1>1
  <1>4. 2^W \in Nat \ {0} /\ 2^(W + W) = 2^W * 2^W /\ 2^0 = 1
    BY <1>3, PowersOfTwo, Zenon
  <1> QED
    BY <1>2, <1>3, <1>4, Zenon DEF U

LEMMA WeighTyped ==
    ASSUME NEW a \in Nat, NEW b \in Nat, NEW c \in Nat
    PROVE  weigh(a, b, c) \in Nat
  <1>1. U \in Nat
    BY Weights
  <1>2. b * U \in Nat /\ U * U \in Nat
    BY <1>1, MulTyped, Zenon
  <1>3. c * (U * U) \in Nat
    BY <1>2, MulTyped, Zenon
  <1> QED
    BY <1>2, <1>3 DEF weigh

packsAs(g, entry, n, part) ==
    \E f \in [0 .. n -> Nat] :
       f[0] = 0 /\ (\A i \in 1 .. n : f[i] = f[i - 1] + part[i]) /\ packedRows(g, entry) = f[n]

\* Packing adds its parts up one after the other.
LEMMA PackedAlong ==
    ASSUME NEW g, NEW entry, NEW rows, rows = GROUPS[g], NEW n \in Nat, n = Len(rows),
           NEW part \in [1 .. n -> Nat], \A i \in 1 .. n : part[i] = entry[rows[i]] * 2^offset(i)
    PROVE  packsAs(g, entry, n, part)
  <1> DEFINE step == [i \in 1 .. n |-> [x \in Nat |-> x + part[i]]]
  <1>1. step \in [1 .. n -> [Nat -> Nat]]
    OBVIOUS
  <1>2. PICK f : runsAlong(f, n, Nat, 0, step)
    <2> HIDE DEF step
    <2> QED
      BY <1>1, RecursionAlong
  <1>3. f \in [0 .. n -> Nat] /\ f[0] = 0 /\ \A i \in 1 .. n : f[i] = f[i - 1] + part[i]
    <2>1. f \in [0 .. n -> Nat] /\ f[0] = 0 /\ \A i \in 1 .. n : f[i] = step[i][f[i - 1]]
      BY <1>2 DEF runsAlong
    <2>2. \A i \in 1 .. n : f[i - 1] \in Nat
      BY <2>1
    <2> QED
      BY <2>1, <2>2
  <1> DEFINE rec(h) == [i \in 0 .. n |-> IF i = 0 THEN 0 ELSE h[i - 1] + entry[rows[i]] * 2^offset(i)]
             k == CHOOSE h : h = rec(h)
  <1>4. f = rec(f)
    <2>1. f = [i \in 0 .. n |-> f[i]]
      BY <1>3
    <2>2. \A i \in 0 .. n : i # 0 => i \in 1 .. n
      OBVIOUS
    <2>3. \A i \in 0 .. n : f[i] = IF i = 0 THEN 0 ELSE f[i - 1] + entry[rows[i]] * 2^offset(i)
      BY <1>3, <2>2, Zenon
    <2> QED
      BY <2>1, <2>3
  <1>5. packedRows(g, entry) = k[n]
    BY Zenon DEF packedRows
  <1>6. k = rec(k)
    <2> HIDE DEF rec
    <2> QED
      BY <1>4
  <1>7. \A i \in 0 .. n : k[i] = IF i = 0 THEN 0 ELSE k[i - 1] + entry[rows[i]] * 2^offset(i)
    <2> HIDE DEF k
    <2> QED
      BY <1>6
  <1> HIDE DEF k
  <1>8. \A i \in 0 .. n : k[i] = f[i]
    <2> DEFINE S == {i \in 0 .. n : k[i] = f[i]}
    <2>1. 0 \in S
      BY <1>3, <1>7
    <2>2. ASSUME NEW i \in 0 .. n - 1, i \in S
          PROVE  i + 1 \in S
      <3>1. i + 1 \in 1 .. n /\ i + 1 \in 0 .. n /\ (i + 1) - 1 = i /\ i + 1 # 0 /\ k[i] = f[i]
        BY <2>2
      <3>2. k[i + 1] = k[i] + part[i + 1]
        BY <1>7, <3>1, Zenon
      <3>3. f[i + 1] = f[i] + part[i + 1]
        BY <1>3, <3>1, Zenon
      <3> QED
        BY <3>1, <3>2, <3>3
    <2>3. 0 .. n \subseteq S
      <3> HIDE DEF S
      <3> QED
        BY <2>1, <2>2, UpToInduction
    <2> QED
      BY <2>3
  <1>9. packedRows(g, entry) = f[n]
    <2>1. n \in 0 .. n
      OBVIOUS
    <2> QED
      BY <1>5, <1>8, <2>1, Zenon
  <1> HIDE DEF k, rec
  <1> QED
    BY <1>3, <1>9, Zenon DEF packsAs

packsThree(g, entry, x, y, z) == packedRows(g, entry) = weigh(x, y, z)

LEMMA PackedThree ==
    ASSUME NEW g \in 1 .. 2, NEW entry, NEW a \in Nat, a = 3 * g - 2,
           NEW x \in Nat, NEW y \in Nat, NEW z \in Nat, x = entry[a], y = entry[a + 1], z = entry[a + 2]
    PROVE  packsThree(g, entry, x, y, z)
  <1> DEFINE rows == GROUPS[g]
             part == [i \in 1 .. 3 |-> IF i = 1 THEN x ELSE IF i = 2 THEN y * U ELSE z * (U * U)]
  <1>1. Len(rows) = 3 /\ rows[1] = a /\ rows[2] = a + 1 /\ rows[3] = a + 2
    BY DEF GROUPS
  <1>2. U \in Nat /\ y * U \in Nat /\ U * U \in Nat /\ z * (U * U) \in Nat
    BY Weights, MulTyped
  <1>3. part \in [1 .. 3 -> Nat] /\ part[1] = x /\ part[2] = y * U /\ part[3] = z * (U * U)
    BY <1>2
  <1> HIDE DEF part
  <1>4. \A i \in 1 .. 3 : part[i] = entry[rows[i]] * 2^offset(i)
    <2>1. part[1] = entry[rows[1]] * 2^offset(1)
      <3>1. x * 1 = x
        OBVIOUS
      <3> QED
        BY <1>1, <1>3, <3>1, Weights, Zenon
    <2>2. part[2] = entry[rows[2]] * 2^offset(2) /\ part[3] = entry[rows[3]] * 2^offset(3)
      BY <1>1, <1>3, Weights, Zenon
    <2>3. \A i \in 1 .. 3 : i = 1 \/ i = 2 \/ i = 3
      OBVIOUS
    <2> QED
      BY <2>1, <2>2, <2>3, Zenon
  <1> DEFINE n == 3
  <1>5. /\ n \in Nat /\ n = Len(rows) /\ part \in [1 .. n -> Nat]
        /\ \A i \in 1 .. n : part[i] = entry[rows[i]] * 2^offset(i)
    <2> HIDE DEF rows
    <2> QED
      BY <1>1, <1>3, <1>4
  <1>9. rows = GROUPS[g]
    OBVIOUS
  <1> HIDE DEF n, rows
  <1>6. packsAs(g, entry, n, part)
    BY <1>5, <1>9, PackedAlong, Zenon
  <1>7. packedRows(g, entry) = part[1] + part[2] + part[3]
    BY <1>3, <1>6 DEF n, packsAs
  <1> QED
    BY <1>2, <1>3, <1>7 DEF weigh, packsThree

LEMMA PackedTwo ==
    ASSUME NEW entry, NEW x \in Nat, NEW y \in Nat, x = entry[7], y = entry[8]
    PROVE  packedRows(3, entry) = weigh(x, y, 0)
  <1> DEFINE rows == GROUPS[3]
             part == [i \in 1 .. 2 |-> IF i = 1 THEN x ELSE y * U]
  <1>1. Len(rows) = 2 /\ rows[1] = 7 /\ rows[2] = 8
    BY DEF GROUPS
  <1>2. U \in Nat /\ y * U \in Nat /\ U * U \in Nat /\ 0 * (U * U) = 0
    <2>1. U \in Nat /\ y * U \in Nat /\ U * U \in Nat
      BY Weights, MulTyped
    <2>2. \A v \in Nat : 0 * v = 0
      OBVIOUS
    <2> QED
      BY <2>1, <2>2, Zenon
  <1>3. part \in [1 .. 2 -> Nat] /\ part[1] = x /\ part[2] = y * U
    BY <1>2
  <1> HIDE DEF part
  <1>4. \A i \in 1 .. 2 : part[i] = entry[rows[i]] * 2^offset(i)
    <2>1. part[1] = entry[rows[1]] * 2^offset(1)
      <3>1. x * 1 = x
        OBVIOUS
      <3> QED
        BY <1>1, <1>3, <3>1, Weights, Zenon
    <2>2. part[2] = entry[rows[2]] * 2^offset(2)
      BY <1>1, <1>3, Weights, Zenon
    <2>3. \A i \in 1 .. 2 : i = 1 \/ i = 2
      OBVIOUS
    <2> QED
      BY <2>1, <2>2, <2>3, Zenon
  <1> DEFINE n == 2
  <1>5. /\ n \in Nat /\ n = Len(rows) /\ part \in [1 .. n -> Nat]
        /\ \A i \in 1 .. n : part[i] = entry[rows[i]] * 2^offset(i)
    <2> HIDE DEF rows
    <2> QED
      BY <1>1, <1>3, <1>4
  <1>9. rows = GROUPS[3]
    OBVIOUS
  <1> HIDE DEF n, rows
  <1>6. packsAs(3, entry, n, part)
    BY <1>5, <1>9, PackedAlong, Zenon
  <1>7. packedRows(3, entry) = part[1] + part[2]
    BY <1>3, <1>6 DEF n, packsAs
  <1> QED
    BY <1>2, <1>3, <1>7 DEF weigh

LEMMA TotalPlus ==
    ASSUME NEW x \in [1 .. 8 -> Nat], NEW y \in [1 .. 8 -> Nat]
    PROVE  /\ Total([k \in 1 .. 8 |-> x[k] + y[k]]) = Total(x) + Total(y)
           /\ Total(x) \in Nat /\ Total(y) \in Nat
  BY DEF Total

LEMMA TotalTimesRight ==
    ASSUME NEW c \in Nat, NEW x \in [1 .. 8 -> Nat]
    PROVE  Total([k \in 1 .. 8 |-> x[k] * c]) = Total(x) * c
  <1> DEFINE y == [k \in 1 .. 8 |-> x[k] * c]
             z == [k \in 1 .. 8 |-> c * x[k]]
  <1>1. \A k \in 1 .. 8 : x[k] * c = c * x[k]
    OBVIOUS
  <1>2. y = z
    BY <1>1
  <1>3. Total(x) \in Nat
    BY DEF Total
  <1>4. Total(x) * c = c * Total(x)
    BY <1>3
  <1> HIDE DEF y, z
  <1> QED
    BY <1>2, <1>4, TotalTimes DEF y, z

threeTimes(a, b, c, t) == weigh(a, b, c) * t = weigh(a * t, b * t, c * t)
threePlus(a, b, c, d, e, f) == weigh(a, b, c) + weigh(d, e, f) = weigh(a + d, b + e, c + f)

LEMMA ThreeTimes ==
    ASSUME NEW a \in Nat, NEW b \in Nat, NEW c \in Nat, NEW t \in Nat
    PROVE  threeTimes(a, b, c, t)
  <1> DEFINE v == U
             w == U * U
  <1>1. v \in Nat /\ w \in Nat
    BY Weights, MulTyped
  <1> HIDE DEF v, w
  <1>2. (a + b * v + c * w) * t = a * t + (b * t) * v + (c * t) * w
    <2>1. b * v \in Nat /\ c * w \in Nat
      BY <1>1, MulTyped
    <2>2. (a + b * v + c * w) * t = a * t + (b * v) * t + (c * w) * t
      BY <2>1
    <2>3. (b * v) * t = (b * t) * v
      BY <1>1
    <2>4. (c * w) * t = (c * t) * w
      BY <1>1
    <2> QED
      BY <2>2, <2>3, <2>4, Zenon
  <1> QED
    BY <1>2 DEF weigh, v, w, threeTimes

LEMMA ThreePlus ==
    ASSUME NEW a \in Nat, NEW b \in Nat, NEW c \in Nat, NEW d \in Nat, NEW e \in Nat, NEW f \in Nat
    PROVE  threePlus(a, b, c, d, e, f)
  <1> DEFINE v == U
             w == U * U
  <1>1. v \in Nat /\ w \in Nat
    BY Weights, MulTyped
  <1> HIDE DEF v, w
  <1>2. (b + e) * v = b * v + e * v /\ (c + f) * w = c * w + f * w
    BY <1>1
  <1>3. b * v \in Nat /\ e * v \in Nat /\ c * w \in Nat /\ f * w \in Nat
    BY <1>1, MulTyped
  <1>4. (a + b * v + c * w) + (d + e * v + f * w) = (a + d) + (b + e) * v + (c + f) * w
    BY <1>2, <1>3
  <1> QED
    BY <1>4 DEF weigh, v, w, threePlus

LEMMA WeighedTotal ==
    ASSUME NEW x \in [1 .. 8 -> Nat], NEW y \in [1 .. 8 -> Nat], NEW z \in [1 .. 8 -> Nat]
    PROVE  Total([k \in 1 .. 8 |-> weigh(x[k], y[k], z[k])]) = weigh(Total(x), Total(y), Total(z))
  <1> DEFINE v == U
             w == U * U
             yv == [k \in 1 .. 8 |-> y[k] * v]
             zw == [k \in 1 .. 8 |-> z[k] * w]
             xy == [k \in 1 .. 8 |-> x[k] + yv[k]]
             all == [k \in 1 .. 8 |-> xy[k] + zw[k]]
  <1>1. v \in Nat /\ w \in Nat
    BY Weights, MulTyped
  <1> HIDE DEF v, w
  <1>2. yv \in [1 .. 8 -> Nat] /\ zw \in [1 .. 8 -> Nat]
    BY <1>1, MulTyped
  <1>3. Total(yv) = Total(y) * v /\ Total(zw) = Total(z) * w
    BY <1>1, TotalTimesRight
  <1>4. all = [k \in 1 .. 8 |-> x[k] + y[k] * v + z[k] * w]
    OBVIOUS
  <1> HIDE DEF yv, zw
  <1>5. xy \in [1 .. 8 -> Nat] /\ Total(xy) = Total(x) + Total(yv)
    <2>1. xy \in [1 .. 8 -> Nat]
      BY <1>2
    <2>2. Total(xy) = Total(x) + Total(yv)
      BY <1>2, TotalPlus, Zenon
    <2> QED
      BY <2>1, <2>2, Zenon
  <1> HIDE DEF xy
  <1>6. Total(all) = Total(xy) + Total(zw)
    BY <1>2, <1>5, TotalPlus
  <1>7. Total(all) = Total(x) + Total(y) * v + Total(z) * w
    BY <1>3, <1>5, <1>6, Zenon
  <1> QED
    BY <1>4, <1>7 DEF weigh, v, w

\* Three packed rows times the powers, over their constants: the three row sums packed.
timesRow(i, m, t) == i + Total([k \in 1 .. 8 |-> m[k] * t[k]])
weighedRows(i1, i2, i3, m1, m2, m3, t) ==
    weigh(i1, i2, i3) + Total([k \in 1 .. 8 |-> weigh(m1[k], m2[k], m3[k]) * t[k]])
      = weigh(timesRow(i1, m1, t), timesRow(i2, m2, t), timesRow(i3, m3, t))

\* Packed rows add up lane by lane, in whole numbers: nothing is lost before lanes are cut.
LEMMA WeighedRows ==
    ASSUME NEW i1 \in Nat, NEW i2 \in Nat, NEW i3 \in Nat, NEW t \in [1 .. 8 -> Nat],
           NEW m1 \in [1 .. 8 -> Nat], NEW m2 \in [1 .. 8 -> Nat], NEW m3 \in [1 .. 8 -> Nat]
    PROVE  weighedRows(i1, i2, i3, m1, m2, m3, t)
  <1> DEFINE x == [k \in 1 .. 8 |-> m1[k] * t[k]]
             y == [k \in 1 .. 8 |-> m2[k] * t[k]]
             z == [k \in 1 .. 8 |-> m3[k] * t[k]]
             p == [k \in 1 .. 8 |-> weigh(m1[k], m2[k], m3[k]) * t[k]]
             q == [k \in 1 .. 8 |-> weigh(x[k], y[k], z[k])]
  <1>1. x \in [1 .. 8 -> Nat] /\ y \in [1 .. 8 -> Nat] /\ z \in [1 .. 8 -> Nat]
    BY MulTyped
  <1>2. \A k \in 1 .. 8 : weigh(m1[k], m2[k], m3[k]) * t[k] = weigh(x[k], y[k], z[k])
    <2>1. ASSUME NEW k \in 1 .. 8
          PROVE  weigh(m1[k], m2[k], m3[k]) * t[k] = weigh(m1[k] * t[k], m2[k] * t[k], m3[k] * t[k])
      <3>1. m1[k] \in Nat /\ m2[k] \in Nat /\ m3[k] \in Nat /\ t[k] \in Nat
        OBVIOUS
      <3>2. threeTimes(m1[k], m2[k], m3[k], t[k])
        BY <3>1, ThreeTimes, Zenon
      <3> QED
        BY <3>2, Zenon DEF threeTimes
    <2>2. \A k \in 1 .. 8 : x[k] = m1[k] * t[k] /\ y[k] = m2[k] * t[k] /\ z[k] = m3[k] * t[k]
      OBVIOUS
    <2> HIDE DEF x, y, z
    <2> QED
      BY <2>1, <2>2, Zenon
  <1> HIDE DEF x, y, z
  <1>3. p = q
    BY <1>2
  <1>4. Total(q) = weigh(Total(x), Total(y), Total(z))
    BY <1>1, WeighedTotal, Zenon
  <1>5. Total(x) \in Nat /\ Total(y) \in Nat /\ Total(z) \in Nat
    BY <1>1, TotalPlus
  <1>6. weigh(i1, i2, i3) + weigh(Total(x), Total(y), Total(z)) = weigh(i1 + Total(x), i2 + Total(y), i3 + Total(z))
    <2>1. threePlus(i1, i2, i3, Total(x), Total(y), Total(z))
      BY <1>5, ThreePlus, Zenon
    <2> QED
      BY <2>1, Zenon DEF threePlus
  <1> HIDE DEF p, q
  <1>7. weigh(i1, i2, i3) + Total(p) = weigh(i1 + Total(x), i2 + Total(y), i3 + Total(z))
    BY <1>3, <1>4, <1>6, Zenon
  <1> QED
    BY <1>7, Zenon DEF p, x, y, z, weighedRows, timesRow

RowsOf(r, g, t) ==
    IF g = 3 THEN weigh(rowSum(r, 7, t), rowSum(r, 8, t), 0)
    ELSE weigh(rowSum(r, 3 * g - 2, t), rowSum(r, 3 * g - 1, t), rowSum(r, 3 * g, t))

inits(r) == [j \in 1 .. 8 |-> (C[r] * RC[r][j]) % P]
column(k) == [j \in 1 .. 8 |-> MP[j][k]]

LEMMA PackedParts ==
    ASSUME NEW r \in 0 .. ROUNDS - 1
    PROVE  /\ inits(r) \in [1 .. 8 -> Z]
           /\ \A k \in 1 .. 8 : column(k) \in [1 .. 8 -> Nat]
  <1>1. ASSUME NEW j \in 1 .. 8
        PROVE  (C[r] * RC[r][j]) % P \in Z
    <2>1. C[r] \in Nat /\ RC[r][j] \in Nat
      BY ScaleStep, ConstantsTyped
    <2> QED
      BY <2>1, MulTyped, Zenon DEF mul
  <1> QED
    BY <1>1, SmallEntries DEF inits, column

\* Each accumulator of a packed round holds its rows' sums, weighed by their lanes.
LEMMA AccumulatorsWeigh ==
    ASSUME NEW r \in 0 .. ROUNDS - 1, NEW lanes \in [1 .. 8 -> Nat], NEW g \in 1 .. 3
    PROVE  fast_round(lanes, r)[g] = RowsOf(r, g, powers(lanes))
  <1> DEFINE t == powers(lanes)
             init == packed_init(g, r)
             cols == [k \in 1 .. 8 |-> packed_col(g, k) * t[k]]
             entry == Vector(LAMBDA j : (C[r] * RC[r][j]) % P)
             e == inits(r)
             m(j) == [k \in 1 .. 8 |-> MP[j][k]]
             products(j) == [k \in 1 .. 8 |-> MP[j][k] * t[k]]
  <1>1. fast_round(lanes, r)[g] = init + Total(cols)
    <2> DEFINE tv == Vector(LAMBDA k : fast_sbox(lanes[k]))
               acc(h) == packed_init(h, r) + Total(Vector(LAMBDA k : packed_col(h, k) * tv[k]))
    <2>1. fast_round(lanes, r) = <<acc(1), acc(2), acc(3)>>
      BY Zenon DEF fast_round
    <2>2. \A k \in 1 .. 8 : tv[k] = t[k]
      BY DEF Vector, powers
    <2> HIDE DEF tv, t
    <2>3. acc(g) = init + Total(cols)
      <3>1. \A k \in 1 .. 8 : Vector(LAMBDA i : packed_col(g, i) * tv[i])[k] = packed_col(g, k) * tv[k]
        BY DEF Vector
      <3> DEFINE v == Vector(LAMBDA i : packed_col(g, i) * tv[i])
      <3>2. \A k \in 1 .. 8 : v[k] = cols[k]
        BY <2>2, <3>1
      <3> HIDE DEF v, cols
      <3>3. Total(v) = Total(cols)
        BY <3>2 DEF Total
      <3> QED
        BY <3>3, Zenon DEF v
    <2> HIDE DEF acc
    <2> QED
      BY <2>1, <2>3
  <1>2. \A j \in 1 .. 8 : entry[j] = e[j]
    BY DEF Vector, inits
  <1>3. e \in [1 .. 8 -> Z] /\ e \in [1 .. 8 -> Nat] /\ t \in [1 .. 8 -> Nat]
    BY PackedParts, PowersTyped, Residue
  <1>4. init = packedRows(g, entry)
    BY Zenon DEF packed_init
  <1>5. ASSUME NEW j \in 1 .. 8
        PROVE  m(j) \in [1 .. 8 -> Nat] /\ e[j] \in Nat /\ rowSum(r, j, t) = e[j] + Total(products(j))
    <2>1. m(j) \in [1 .. 8 -> Nat]
      BY SmallEntries
    <2>2. e[j] \in Nat /\ e[j] = (C[r] * RC[r][j]) % P
      BY <1>3 DEF inits
    <2> QED
      BY <2>1, <2>2, Zenon DEF rowSum
  <1>6. ASSUME NEW k \in 1 .. 8, NEW col, col = Vector(LAMBDA j : MP[j][k])
        PROVE  packed_col(g, k) = packedRows(g, col) /\ \A j \in 1 .. 8 : col[j] = MP[j][k] /\ MP[j][k] \in Nat
    <2>1. packed_col(g, k) = packedRows(g, col)
      BY <1>6, Zenon DEF packed_col
    <2>2. \A j \in 1 .. 8 : col[j] = MP[j][k]
      BY <1>6 DEF Vector
    <2> QED
      BY <2>1, <2>2, SmallEntries
  <1> HIDE DEF e, entry, init, t
  <1>7. CASE g = 3
    <2> DEFINE m0 == [k \in 1 .. 8 |-> 0]
               p0 == [k \in 1 .. 8 |-> m0[k] * t[k]]
               packed == [k \in 1 .. 8 |-> weigh(m(7)[k], m(8)[k], m0[k]) * t[k]]
    <2>1. init = weigh(e[7], e[8], 0)
      BY <1>2, <1>4, <1>5, <1>7, PackedTwo
    <2>2. \A k \in 1 .. 8 : packed_col(g, k) = weigh(MP[7][k], MP[8][k], 0)
      <3>1. ASSUME NEW k \in 1 .. 8
            PROVE  packed_col(g, k) = weigh(MP[7][k], MP[8][k], 0)
        <4> DEFINE col == Vector(LAMBDA j : MP[j][k])
        <4>1. packed_col(g, k) = packedRows(g, col) /\ \A j \in 1 .. 8 : col[j] = MP[j][k] /\ MP[j][k] \in Nat
          BY <1>6
        <4> HIDE DEF col
        <4> QED
          BY <1>7, <4>1, PackedTwo
      <3> QED
        BY <3>1
    <2>3. cols = packed
      BY <2>2
    <2>4. m0 \in [1 .. 8 -> Nat] /\ Total(p0) = 0
      <3>1. \A k \in 1 .. 8 : p0[k] = 0
        BY <1>3
      <3> HIDE DEF p0
      <3> QED
        BY <3>1 DEF Total
    <2> HIDE DEF m0, m, cols, packed
    <2>5. e[7] \in Nat /\ e[8] \in Nat /\ 0 \in Nat /\ m(7) \in [1 .. 8 -> Nat] /\ m(8) \in [1 .. 8 -> Nat]
      BY <1>5
    <2>w. weighedRows(e[7], e[8], 0, m(7), m(8), m0, t)
      BY <1>3, <2>4, <2>5, WeighedRows, Zenon
    <2>6. weigh(e[7], e[8], 0) + Total(packed)
            = weigh(e[7] + Total([k \in 1 .. 8 |-> m(7)[k] * t[k]]),
                    e[8] + Total([k \in 1 .. 8 |-> m(8)[k] * t[k]]),
                    0 + Total(p0))
      BY <2>w, Zenon DEF packed, weighedRows, timesRow
    <2>7. [k \in 1 .. 8 |-> m(7)[k] * t[k]] = products(7) /\ [k \in 1 .. 8 |-> m(8)[k] * t[k]] = products(8)
      BY DEF m
    <2>8. init + Total(cols) = weigh(rowSum(r, 7, t), rowSum(r, 8, t), 0)
      <3>1. 7 \in 1 .. 8 /\ 8 \in 1 .. 8 /\ 0 + 0 = 0
        OBVIOUS
      <3> HIDE DEF products, p0
      <3> QED
        BY <1>5, <2>1, <2>3, <2>4, <2>6, <2>7, <3>1, Zenon
    <2> QED
      BY <1>1, <1>7, <2>8, Zenon DEF RowsOf, t
  <1>8. CASE g # 3
    <2> DEFINE a == 3 * g - 2
               packed == [k \in 1 .. 8 |-> weigh(m(a)[k], m(a + 1)[k], m(a + 2)[k]) * t[k]]
    <2>0. g \in 1 .. 2 /\ a \in Nat /\ a \in 1 .. 8 /\ a + 1 \in 1 .. 8 /\ a + 2 \in 1 .. 8
          /\ a + 1 = 3 * g - 1 /\ a + 2 = 3 * g
      BY <1>8
    <2> HIDE DEF m, cols
    <2>a. a = 3 * g - 2
      OBVIOUS
    <2> HIDE DEF a
    <2>1. init = weigh(e[a], e[a + 1], e[a + 2])
      <3>1. /\ e[a] \in Nat /\ e[a + 1] \in Nat /\ e[a + 2] \in Nat
            /\ e[a] = entry[a] /\ e[a + 1] = entry[a + 1] /\ e[a + 2] = entry[a + 2]
        BY <1>2, <1>5, <2>0
      <3>2. packsThree(g, entry, e[a], e[a + 1], e[a + 2])
        BY <2>0, <2>a, <3>1, PackedThree, Zenon
      <3> QED
        BY <1>4, <3>2, Zenon DEF packsThree
    <2>2. \A k \in 1 .. 8 : packed_col(g, k) = weigh(MP[a][k], MP[a + 1][k], MP[a + 2][k])
      <3>1. ASSUME NEW k \in 1 .. 8
            PROVE  packed_col(g, k) = weigh(MP[a][k], MP[a + 1][k], MP[a + 2][k])
        <4> DEFINE col == Vector(LAMBDA j : MP[j][k])
        <4>1. packed_col(g, k) = packedRows(g, col) /\ \A j \in 1 .. 8 : col[j] = MP[j][k] /\ MP[j][k] \in Nat
          BY <1>6
        <4> HIDE DEF col
        <4> QED
          <5>1. /\ MP[a][k] \in Nat /\ MP[a + 1][k] \in Nat /\ MP[a + 2][k] \in Nat
                /\ MP[a][k] = col[a] /\ MP[a + 1][k] = col[a + 1] /\ MP[a + 2][k] = col[a + 2]
            BY <2>0, <4>1
          <5>2. packsThree(g, col, MP[a][k], MP[a + 1][k], MP[a + 2][k])
            BY <2>0, <2>a, <5>1, PackedThree, Zenon
          <5> QED
            BY <4>1, <5>2, Zenon DEF packsThree
      <3> QED
        BY <3>1
    <2>3. cols = packed
      BY <2>0, <2>2 DEF cols, m
    <2> HIDE DEF packed
    <2>5. /\ e[a] \in Nat /\ e[a + 1] \in Nat /\ e[a + 2] \in Nat
          /\ m(a) \in [1 .. 8 -> Nat] /\ m(a + 1) \in [1 .. 8 -> Nat] /\ m(a + 2) \in [1 .. 8 -> Nat]
      BY <1>5, <2>0
    <2>w. weighedRows(e[a], e[a + 1], e[a + 2], m(a), m(a + 1), m(a + 2), t)
      BY <1>3, <2>5, WeighedRows, Zenon
    <2>6. weigh(e[a], e[a + 1], e[a + 2]) + Total(packed)
            = weigh(e[a] + Total([k \in 1 .. 8 |-> m(a)[k] * t[k]]),
                    e[a + 1] + Total([k \in 1 .. 8 |-> m(a + 1)[k] * t[k]]),
                    e[a + 2] + Total([k \in 1 .. 8 |-> m(a + 2)[k] * t[k]]))
      BY <2>w, Zenon DEF packed, weighedRows, timesRow
    <2>7. \A j \in 1 .. 8 : [k \in 1 .. 8 |-> m(j)[k] * t[k]] = products(j)
      BY DEF m
    <2>8. init + Total(cols) = weigh(rowSum(r, a, t), rowSum(r, a + 1, t), rowSum(r, a + 2, t))
      <3> HIDE DEF products
      <3> QED
        BY <1>5, <2>0, <2>1, <2>3, <2>6, <2>7, Zenon
    <2> QED
      BY <1>1, <1>8, <2>0, <2>a, <2>8, Zenon DEF RowsOf, t
  <1> QED
    BY <1>7, <1>8, Zenon

-----------------------------------------------------------------------------
(* No row reaches the nextScale lane, and none the end of the word.             *)

LEMMA TotalAtMost ==
    ASSUME NEW x \in [1 .. 8 -> Nat], NEW y \in [1 .. 8 -> Nat], \A k \in 1 .. 8 : x[k] <= y[k]
    PROVE  Total(x) <= Total(y)
  BY DEF Total

LEMMA ProductAtMost ==
    ASSUME NEW m \in Nat, NEW a \in Nat, NEW b \in Nat, a <= b
    PROVE  m * a <= m * b
  OBVIOUS

widest(j) == (P - 1) * (1 + Total(MP[j]))

\* A row is at most what the generator's bound says of it.
LEMMA RowBound ==
    ASSUME NEW r \in 0 .. ROUNDS - 1, NEW j \in 1 .. 8, NEW t \in [1 .. 8 -> Z]
    PROVE  rowSum(r, j, t) \in Nat /\ rowSum(r, j, t) <= widest(j)
  <1> DEFINE q == P - 1
             m == [k \in 1 .. 8 |-> MP[j][k]]
             x == [k \in 1 .. 8 |-> MP[j][k] * t[k]]
             y == [k \in 1 .. 8 |-> m[k] * q]
             i == inits(r)[j]
  <1>1. q \in Nat /\ i \in 0 .. q
    <2>1. inits(r) \in [1 .. 8 -> Z]
      BY PackedParts
    <2>2. i \in Z
      BY <2>1
    <2>3. P \in Nat /\ P > 1
      BY FieldAssumption, Zenon
    <2> HIDE DEF i
    <2> QED
      BY <2>2, <2>3 DEF Z
  <1>2. rowSum(r, j, t) = i + Total(x)
    <2>1. i = (C[r] * RC[r][j]) % P
      BY DEF inits
    <2> QED
      BY <2>1, Zenon DEF rowSum
  <1> HIDE DEF i
  <1>3. m \in [1 .. 8 -> Nat]
    BY SmallEntries
  <1>4. ASSUME NEW k \in 1 .. 8
        PROVE  x[k] \in Nat /\ y[k] \in Nat /\ x[k] <= y[k]
    <2>1. MP[j][k] \in Nat /\ t[k] \in Nat /\ t[k] <= q
      <3>1. MP[j][k] \in Nat
        BY SmallEntries, Zenon
      <3>2. t[k] \in Z
        OBVIOUS
      <3>3. t[k] \in Nat /\ t[k] <= q
        <4>1. P \in Nat /\ P > 1
          BY FieldAssumption, Zenon
        <4> QED
          BY <3>2, <4>1 DEF Z
      <3> QED
        BY <3>1, <3>3
    <2>2. x[k] = MP[j][k] * t[k] /\ y[k] = MP[j][k] * q
      OBVIOUS
    <2> HIDE DEF x, y, q
    <2>3. MP[j][k] * t[k] <= MP[j][k] * q
      BY <1>1, <2>1, ProductAtMost, Zenon
    <2>4. MP[j][k] * t[k] \in Nat /\ MP[j][k] * q \in Nat
      BY <1>1, <2>1, MulTyped, Zenon
    <2> QED
      BY <2>2, <2>3, <2>4, Zenon
  <1>5. x \in [1 .. 8 -> Nat] /\ y \in [1 .. 8 -> Nat]
    <2>1. x = [k \in 1 .. 8 |-> x[k]] /\ y = [k \in 1 .. 8 |-> y[k]]
      OBVIOUS
    <2> HIDE DEF x, y
    <2> QED
      BY <1>4, <2>1
  <1>6. Total(x) <= Total(y) /\ Total(x) \in Nat /\ Total(y) \in Nat
    <2> HIDE DEF x, y
    <2> QED
      BY <1>4, <1>5, TotalAtMost, TotalPlus
  <1>7. Total(y) = Total(m) * q /\ Total(m) \in Nat
    <2> HIDE DEF m, q
    <2> QED
      BY <1>1, <1>3, TotalTimesRight, TotalPlus
  <1>8. Total(m) = Total(MP[j])
    BY DEF Total
  <1>9. widest(j) = q * (1 + Total(m))
    BY <1>8, Zenon DEF widest
  <1> HIDE DEF x, y, m, q
  <1>10. q * (1 + Total(m)) = q + Total(m) * q
    BY <1>1, <1>7
  <1>11. i + Total(x) \in Nat /\ i + Total(x) <= q + Total(y)
    BY <1>1, <1>6
  <1> QED
    BY <1>2, <1>7, <1>9, <1>10, <1>11, Zenon

LEMMA WidthsFit ==
    ASSUME NEW g \in 1 .. 3, NEW i \in DOMAIN GROUPS[g]
    PROVE  widest(GROUPS[g][i]) < (IF top(g, i) THEN 2^(WORDBITS - offset(i)) ELSE U)
  <1>1. widest(GROUPS[g][i]) < 2^(IF top(g, i) THEN WORDBITS - offset(i) ELSE W)
    BY LanesFit, Zenon DEF laneBound, widest
  <1>2. CASE top(g, i)
    BY <1>1, <1>2, Zenon
  <1>3. CASE ~top(g, i)
    BY <1>1, <1>3, Zenon DEF U
  <1> QED
    BY <1>2, <1>3

\* The lane of a row, and whether it is the top one of its word.
LEMMA RowFits ==
    ASSUME NEW r \in 0 .. ROUNDS - 1, NEW t \in [1 .. 8 -> Z]
    PROVE  /\ \A j \in {1, 2, 4, 5, 7} : rowSum(r, j, t) < U
           /\ \A j \in {3, 6} : rowSum(r, j, t) < 2^(WORDBITS - offset(3))
           /\ rowSum(r, 8, t) < 2^(WORDBITS - offset(2))
           /\ 2^(WORDBITS - offset(3)) \in Nat /\ 2^(WORDBITS - offset(2)) \in Nat
           /\ 2^WORDBITS = 2^(WORDBITS - offset(3)) * (U * U) /\ 2^WORDBITS = 2^(WORDBITS - offset(2)) * U
  <1> DEFINE v == 2^(WORDBITS - offset(3))
             w == 2^(WORDBITS - offset(2))
  <1>1. U \in Nat /\ v \in Nat /\ w \in Nat /\ 2^WORDBITS = v * (U * U) /\ 2^WORDBITS = w * U
    <2>1. WORDBITS \in Nat /\ offset(2) \in 0 .. WORDBITS /\ offset(3) \in 0 .. WORDBITS
      BY FieldAssumption, Weights
    <2>2. /\ WORDBITS - offset(3) \in 0 .. WORDBITS /\ (WORDBITS - offset(3)) + offset(3) = WORDBITS
          /\ WORDBITS - offset(2) \in 0 .. WORDBITS /\ (WORDBITS - offset(2)) + offset(2) = WORDBITS
          /\ WORDBITS <= WORDBITS
      BY <2>1
    <2>3. v \in Nat /\ w \in Nat
      BY <2>2, PowersOfTwo, Zenon
    <2>4. 2^WORDBITS = v * 2^offset(3) /\ 2^WORDBITS = w * 2^offset(2)
      BY <2>1, <2>2, PowersOfTwo, Zenon
    <2> QED
      BY <2>3, <2>4, Weights, Zenon
  <1>2. /\ widest(1) < U /\ widest(2) < U /\ widest(4) < U /\ widest(5) < U /\ widest(7) < U
        /\ widest(3) < v /\ widest(6) < v /\ widest(8) < w
    <2>1. /\ DOMAIN GROUPS[1] = {1, 2, 3} /\ DOMAIN GROUPS[2] = {1, 2, 3} /\ DOMAIN GROUPS[3] = {1, 2}
          /\ GROUPS[1][1] = 1 /\ GROUPS[1][2] = 2 /\ GROUPS[1][3] = 3
          /\ GROUPS[2][1] = 4 /\ GROUPS[2][2] = 5 /\ GROUPS[2][3] = 6
          /\ GROUPS[3][1] = 7 /\ GROUPS[3][2] = 8
      BY DEF GROUPS
    <2>2. /\ ~top(1, 1) /\ ~top(1, 2) /\ top(1, 3) /\ ~top(2, 1) /\ ~top(2, 2) /\ top(2, 3)
          /\ ~top(3, 1) /\ top(3, 2)
      BY DEF top, GROUPS
    <2>3. 1 \in 1 .. 3 /\ 2 \in 1 .. 3 /\ 3 \in 1 .. 3
      OBVIOUS
    <2>4. widest(1) < U /\ widest(2) < U /\ widest(3) < v
      BY <2>1, <2>2, <2>3, WidthsFit
    <2>5. widest(4) < U /\ widest(5) < U /\ widest(6) < v
      BY <2>1, <2>2, <2>3, WidthsFit
    <2>6. widest(7) < U /\ widest(8) < w
      BY <2>1, <2>2, <2>3, WidthsFit
    <2> QED
      BY <2>4, <2>5, <2>6, Zenon
  <1>3. \A j \in 1 .. 8 : rowSum(r, j, t) \in Nat /\ rowSum(r, j, t) <= widest(j) /\ widest(j) \in Nat
    <2>1. ASSUME NEW j \in 1 .. 8
          PROVE  widest(j) \in Nat
      <3> DEFINE m == [k \in 1 .. 8 |-> MP[j][k]]
      <3>a. m \in [1 .. 8 -> Nat]
        BY SmallEntries
      <3>b. Total(m) = Total(MP[j])
        BY DEF Total
      <3>1. m \in [1 .. 8 -> Nat] /\ Total(m) = Total(MP[j])
        BY <3>a, <3>b
      <3> HIDE DEF m
      <3>2. Total(MP[j]) \in Nat
        BY <3>1, TotalPlus
      <3>3. P - 1 \in Nat
        <4>1. P \in Nat /\ P > 1
          BY FieldAssumption, Zenon
        <4> QED
          BY <4>1
      <3>4. 1 + Total(MP[j]) \in Nat
        BY <3>2
      <3>5. (P - 1) * (1 + Total(MP[j])) \in Nat
        BY <3>3, <3>4, MulTyped, Zenon
      <3> QED
        BY <3>5, Zenon DEF widest
    <2> QED
      BY <2>1, RowBound, Zenon
  <1> HIDE DEF v, w
  <1>4. \A j \in {1, 2, 4, 5, 7} : rowSum(r, j, t) < U
    BY <1>1, <1>2, <1>3
  <1>5. \A j \in {3, 6} : rowSum(r, j, t) < v
    BY <1>1, <1>2, <1>3
  <1>6. rowSum(r, 8, t) < w
    BY <1>1, <1>2, <1>3
  <1> QED
    BY <1>1, <1>4, <1>5, <1>6, Zenon DEF v, w

-----------------------------------------------------------------------------
(* Unpacking: what the lanes of the accumulators are.                      *)

holdsApart(a, b, c) ==
    /\ weigh(a, b, c) \in Nat
    /\ (weigh(a, b, c) \div 1) % U = a
    /\ (weigh(a, b, c) \div U) % U = b
    /\ weigh(a, b, c) \div (U * U) = c

\* A word holds its lanes apart when the ones below the top fit their width.
LEMMA LanesOfWeight ==
    ASSUME NEW a \in Nat, NEW b \in Nat, NEW c \in Nat, a < U, b < U
    PROVE  holdsApart(a, b, c)
  <1> DEFINE n == weigh(a, b, c)
             q == b + c * U
  <1>1. U \in Nat \ {0} /\ U \in Nat /\ U * U \in Nat /\ c * U \in Nat /\ b * U \in Nat
    BY Weights, MulTyped
  <1>2. n \in Nat
    BY WeighTyped
  <1>3. q \in Nat /\ q \in Int
    BY <1>1
  <1>4. a \in 0 .. U - 1 /\ b \in 0 .. U - 1
    BY <1>1
  <1>5. c * (U * U) = U * (c * U)
    BY <1>1
  <1>6. U * q = U * b + U * (c * U)
    BY <1>1, <1>3, Distribute
  <1>7. b * U = U * b
    BY <1>1
  <1>8. n = U * q + a
    <2>1. n = a + b * U + c * (U * U)
      BY Zenon DEF weigh
    <2> HIDE DEF n, q
    <2>2. U * b \in Nat /\ U * (c * U) \in Nat
      BY <1>1, MulTyped, Zenon
    <2>3. n = a + U * b + U * (c * U)
      BY <1>5, <1>7, <2>1, Zenon
    <2> QED
      BY <1>6, <2>2, <2>3
  <1> HIDE DEF n, q
  <1>9. n % U = a /\ n \div U = q
    BY <1>1, <1>2, <1>3, <1>4, <1>8, Remainder, Zenon
  <1>10. q = U * c + b
    BY <1>1 DEF q
  <1>11. q % U = b /\ q \div U = c
    <2>1. c \in Int
      OBVIOUS
    <2> QED
      BY <1>1, <1>3, <1>4, <1>10, <2>1, Remainder, Zenon
  <1>12. n \div 1 = n
    BY <1>2
  <1>13. n \div (U * U) = c
    <2> DEFINE e == U * U
               m == U * b + a
    <2>1. e \in Nat \ {0} /\ c \in Int
      BY <1>1
    <2>2. U * b <= U * (U - 1) /\ U * b \in Nat /\ U * (U - 1) = U * U - U
      <3>1. U - 1 \in Nat /\ b <= U - 1
        BY <1>1, <1>4
      <3>2. U * b <= U * (U - 1)
        BY <1>1, <3>1, ProductAtMost, Zenon
      <3>3. U * b \in Nat
        BY <1>1, MulTyped, Zenon
      <3>4. U * (U - 1) = U * U - U
        BY <1>1
      <3> QED
        BY <3>2, <3>3, <3>4
    <2>3. m \in 0 .. e - 1
      BY <1>1, <1>4, <2>2
    <2>4. n = e * c + m
      <3>1. U * q = U * b + U * (c * U)
        BY <1>6 DEF q
      <3>2. U * (c * U) = e * c
        BY <1>1
      <3>3. e * c \in Nat
        BY <1>1, MulTyped
      <3> HIDE DEF e
      <3>4. n = (U * b + e * c) + a
        BY <1>8, <3>1, <3>2, Zenon
      <3> QED
        BY <2>2, <3>3, <3>4
    <2> HIDE DEF e, m
    <2>5. n \div e = c
      BY <1>2, <2>1, <2>3, <2>4, Remainder, Zenon
    <2> QED
      BY <2>5, Zenon DEF e
  <1>15. (n \div 1) % U = a /\ (n \div U) % U = b
    BY <1>9, <1>11, <1>12, Zenon
  <1> QED
    BY <1>2, <1>13, <1>15, Zenon DEF n, holdsApart

LEMMA LanesOfPair ==
    ASSUME NEW a \in Nat, NEW b \in Nat, a < U
    PROVE  (weigh(a, b, 0) \div 1) % U = a /\ weigh(a, b, 0) \div U = b
  <1> DEFINE n == weigh(a, b, 0)
  <1>1. U \in Nat \ {0} /\ b \in Int
    BY Weights
  <1>2. n \in Nat
    BY WeighTyped
  <1>3. n = a + b * U + 0 * (U * U)
    BY Zenon DEF weigh
  <1> HIDE DEF n
  <1>4. n = U * b + a /\ a \in 0 .. U - 1
    BY <1>1, <1>3
  <1>5. n % U = a /\ n \div U = b
    BY <1>1, <1>2, <1>4, Remainder, Zenon
  <1>6. n \div 1 = n
    BY <1>2
  <1> QED
    BY <1>5, <1>6, Zenon DEF n

\* Each lane of a word, by its place.
LEMMA LanesByPlace ==
    ASSUME NEW word
    PROVE  /\ \A g \in 1 .. 3 : lane(word, g, 1) = (word \div 1) % U
           /\ \A g \in 1 .. 2 : lane(word, g, 2) = (word \div U) % U /\ lane(word, g, 3) = word \div (U * U)
           /\ lane(word, 3, 2) = word \div U
  <1>1. /\ \A g \in 1 .. 3 : ~top(g, 1)
        /\ \A g \in 1 .. 2 : ~top(g, 2) /\ top(g, 3)
        /\ top(3, 2)
    BY DEF top, GROUPS
  <1>2. ASSUME NEW g \in 1 .. 3
        PROVE  lane(word, g, 1) = (word \div 1) % U
    BY <1>1, Weights, Zenon DEF lane, U
  <1>3. ASSUME NEW g \in 1 .. 2
        PROVE  lane(word, g, 2) = (word \div U) % U /\ lane(word, g, 3) = word \div (U * U)
    BY <1>1, Weights, Zenon DEF lane, U
  <1>4. lane(word, 3, 2) = word \div U
    BY <1>1, Weights, Zenon DEF lane
  <1> QED
    BY <1>2, <1>3, <1>4, Zenon

LEMMA UnpackedLanes ==
    ASSUME NEW accs
    PROVE  /\ unpack(accs) = [j \in 1 .. 8 |-> unpack(accs)[j]]
           /\ unpack(accs)[1] = lane(accs[1], 1, 1) /\ unpack(accs)[2] = lane(accs[1], 1, 2)
           /\ unpack(accs)[3] = lane(accs[1], 1, 3) /\ unpack(accs)[4] = lane(accs[2], 2, 1)
           /\ unpack(accs)[5] = lane(accs[2], 2, 2) /\ unpack(accs)[6] = lane(accs[2], 2, 3)
           /\ unpack(accs)[7] = lane(accs[3], 3, 1) /\ unpack(accs)[8] = lane(accs[3], 3, 2)
  <1> DEFINE v == <<lane(accs[1], 1, 1), lane(accs[1], 1, 2), lane(accs[1], 1, 3), lane(accs[2], 2, 1),
                    lane(accs[2], 2, 2), lane(accs[2], 2, 3), lane(accs[3], 3, 1), lane(accs[3], 3, 2)>>
             at(j, g) == lane(accs[g], g, j - 3 * (g - 1))
             w == <<at(1, (1 + 2) \div 3), at(2, (2 + 2) \div 3), at(3, (3 + 2) \div 3), at(4, (4 + 2) \div 3),
                    at(5, (5 + 2) \div 3), at(6, (6 + 2) \div 3), at(7, (7 + 2) \div 3), at(8, (8 + 2) \div 3)>>
  <1>1. unpack(accs) = w
    BY Zenon DEF unpack, Vector
  <1>2. /\ (1 + 2) \div 3 = 1 /\ (2 + 2) \div 3 = 1 /\ (3 + 2) \div 3 = 1 /\ (4 + 2) \div 3 = 2
        /\ (5 + 2) \div 3 = 2 /\ (6 + 2) \div 3 = 2 /\ (7 + 2) \div 3 = 3 /\ (8 + 2) \div 3 = 3
    OBVIOUS
  <1>3. /\ 1 - 3 * (1 - 1) = 1 /\ 2 - 3 * (1 - 1) = 2 /\ 3 - 3 * (1 - 1) = 3
        /\ 4 - 3 * (2 - 1) = 1 /\ 5 - 3 * (2 - 1) = 2 /\ 6 - 3 * (2 - 1) = 3
        /\ 7 - 3 * (3 - 1) = 1 /\ 8 - 3 * (3 - 1) = 2
    OBVIOUS
  <1>4. w = v
    BY <1>2, <1>3, Zenon
  <1>5. unpack(accs) = v
    BY <1>1, <1>4, Zenon
  <1> DEFINE l(g, i) == lane(accs[g], g, i)
  <1>6. v = <<l(1, 1), l(1, 2), l(1, 3), l(2, 1), l(2, 2), l(2, 3), l(3, 1), l(3, 2)>>
    OBVIOUS
  <1> HIDE DEF v, l
  <1>7. v = [j \in 1 .. 8 |-> v[j]]
    BY <1>6
  <1>8. /\ v[1] = l(1, 1) /\ v[2] = l(1, 2) /\ v[3] = l(1, 3) /\ v[4] = l(2, 1)
        /\ v[5] = l(2, 2) /\ v[6] = l(2, 3) /\ v[7] = l(3, 1) /\ v[8] = l(3, 2)
    BY <1>6
  <1> QED
    BY <1>5, <1>7, <1>8, Zenon DEF l

\* What a round leaves in its lanes are the sums of its rows, and the words hold them.
LEMMA RoundUnpacks ==
    ASSUME NEW r \in 0 .. ROUNDS - 1, NEW lanes \in [1 .. 8 -> Nat]
    PROVE  /\ unpack(fast_round(lanes, r)) \in [1 .. 8 -> Nat]
           /\ \A j \in 1 .. 8 : unpack(fast_round(lanes, r))[j] = rowSum(r, j, powers(lanes))
  <1> DEFINE t == powers(lanes)
             accs == fast_round(lanes, r)
             n(j) == rowSum(r, j, t)
             u == unpack(accs)
  <1>1. t \in [1 .. 8 -> Z]
    BY PowersTyped
  <1> HIDE DEF t
  <1>2. \A j \in 1 .. 8 : n(j) \in Nat
    BY <1>1, RowBound
  <1>3. n(1) < U /\ n(2) < U /\ n(4) < U /\ n(5) < U /\ n(7) < U
    BY <1>1, RowFits
  <1> HIDE DEF n
  <1>4. /\ n(1) \in Nat /\ n(2) \in Nat /\ n(3) \in Nat /\ n(4) \in Nat
        /\ n(5) \in Nat /\ n(6) \in Nat /\ n(7) \in Nat /\ n(8) \in Nat /\ 0 \in Nat
    BY <1>2
  <1>5. /\ accs[1] = weigh(n(1), n(2), n(3)) /\ accs[2] = weigh(n(4), n(5), n(6))
        /\ accs[3] = weigh(n(7), n(8), 0)
    <2>1. /\ 1 \in 1 .. 3 /\ 2 \in 1 .. 3 /\ 3 \in 1 .. 3 /\ 1 # 3 /\ 2 # 3
          /\ 3 * 1 - 2 = 1 /\ 3 * 1 - 1 = 2 /\ 3 * 1 = 3 /\ 3 * 2 - 2 = 4 /\ 3 * 2 - 1 = 5 /\ 3 * 2 = 6
      OBVIOUS
    <2>2. accs[1] = RowsOf(r, 1, t) /\ accs[2] = RowsOf(r, 2, t) /\ accs[3] = RowsOf(r, 3, t)
      BY <2>1, AccumulatorsWeigh, Zenon DEF t
    <2>3. RowsOf(r, 1, t) = weigh(n(1), n(2), n(3))
      BY <2>1, Zenon DEF RowsOf, n
    <2>4. RowsOf(r, 2, t) = weigh(n(4), n(5), n(6))
      BY <2>1, Zenon DEF RowsOf, n
    <2>5. RowsOf(r, 3, t) = weigh(n(7), n(8), 0)
      BY Zenon DEF RowsOf, n
    <2> QED
      BY <2>2, <2>3, <2>4, <2>5, Zenon
  <1> HIDE DEF accs
  <1>6. /\ u[1] = lane(accs[1], 1, 1) /\ u[2] = lane(accs[1], 1, 2) /\ u[3] = lane(accs[1], 1, 3)
        /\ u[4] = lane(accs[2], 2, 1) /\ u[5] = lane(accs[2], 2, 2) /\ u[6] = lane(accs[2], 2, 3)
        /\ u[7] = lane(accs[3], 3, 1) /\ u[8] = lane(accs[3], 3, 2)
        /\ u = [j \in 1 .. 8 |-> u[j]]
    BY UnpackedLanes, Zenon
  <1> HIDE DEF u
  <1>7. u[1] = n(1) /\ u[2] = n(2) /\ u[3] = n(3)
    <2>1. 1 \in 1 .. 3 /\ 1 \in 1 .. 2
      OBVIOUS
    <2>2. /\ lane(accs[1], 1, 1) = (accs[1] \div 1) % U
          /\ lane(accs[1], 1, 2) = (accs[1] \div U) % U
          /\ lane(accs[1], 1, 3) = accs[1] \div (U * U)
      BY <2>1, LanesByPlace, Zenon
    <2>3. holdsApart(n(1), n(2), n(3))
      BY <1>3, <1>4, LanesOfWeight, Zenon
    <2> QED
      BY <1>5, <1>6, <2>2, <2>3, Zenon DEF holdsApart
  <1>8. u[4] = n(4) /\ u[5] = n(5) /\ u[6] = n(6)
    <2>1. 2 \in 1 .. 3 /\ 2 \in 1 .. 2
      OBVIOUS
    <2>2. /\ lane(accs[2], 2, 1) = (accs[2] \div 1) % U
          /\ lane(accs[2], 2, 2) = (accs[2] \div U) % U
          /\ lane(accs[2], 2, 3) = accs[2] \div (U * U)
      BY <2>1, LanesByPlace, Zenon
    <2>3. holdsApart(n(4), n(5), n(6))
      BY <1>3, <1>4, LanesOfWeight, Zenon
    <2> QED
      BY <1>5, <1>6, <2>2, <2>3, Zenon DEF holdsApart
  <1>9. u[7] = n(7) /\ u[8] = n(8)
    <2>1. 3 \in 1 .. 3
      OBVIOUS
    <2>2. lane(accs[3], 3, 1) = (accs[3] \div 1) % U /\ lane(accs[3], 3, 2) = accs[3] \div U
      BY <2>1, LanesByPlace, Zenon
    <2>3. (weigh(n(7), n(8), 0) \div 1) % U = n(7) /\ weigh(n(7), n(8), 0) \div U = n(8)
      BY <1>3, <1>4, LanesOfPair, Zenon
    <2> QED
      BY <1>5, <1>6, <2>2, <2>3, Zenon
  <1>10. \A j \in 1 .. 8 : u[j] = n(j)
    BY <1>7, <1>8, <1>9
  <1>11. u \in [1 .. 8 -> Nat]
    BY <1>2, <1>6, <1>10
  <1> QED
    BY <1>10, <1>11, Zenon DEF u, n, accs, t

-----------------------------------------------------------------------------
(* The rounds one after the other.                                         *)

\* A round of the reference permutation stays within the field.
LEMMA RoundTyped ==
    ASSUME NEW r \in 0 .. ROUNDS - 1, NEW s \in [1 .. 8 -> Z]
    PROVE  ref_round(s, r) \in [1 .. 8 -> Z]
  <1> DEFINE c == C[r - 1]
             lanes == [k \in 1 .. 8 |-> mul(c, s[k])]
             v == ref_round(s, r)
  <1>1. c \in Nat
    BY ScaleStep, Zenon
  <1>2. \A k \in 1 .. 8 : s[k] \in Z /\ s[k] \in Nat
    BY Residue
  <1>3. \A k \in 1 .. 8 : mul(c, s[k]) \in Z /\ mul(c, s[k]) \in Nat
    BY <1>1, <1>2, MulTyped, Zenon
  <1>4. lanes \in [1 .. 8 -> Nat] /\ \A k \in 1 .. 8 : lanes[k] = mul(c, s[k])
    BY <1>3
  <1> HIDE DEF lanes
  <1>5. scaledBy(c, lanes, s)
    <2>1. \A k \in 1 .. 8 : mul(c, s[k]) % P = mul(c, s[k])
      BY <1>3, Residue, Zenon
    <2> QED
      BY <1>4, <2>1, Zenon DEF scaledBy
  <1>6. \A j \in 1 .. 8 : v[j] \in Z
    BY <1>4, <1>5, ScaledRow, Zenon
  <1>7. v = [j \in 1 .. 8 |-> v[j]]
    <2> DEFINE t == Vector(LAMBDA k : pow7(s[k]))
               row(j) == (RC[r][j] + Total(Vector(LAMBDA k : MDS[j][k] * t[k]))) % P
    <2>1. v = <<row(1), row(2), row(3), row(4), row(5), row(6), row(7), row(8)>>
      BY Zenon DEF ref_round, Vector
    <2> HIDE DEF row, v
    <2> QED
      BY <2>1
  <1> HIDE DEF v
  <1> QED
    BY <1>6, <1>7 DEF v

\* The states of the reference permutation, the first of them its input.
referenceStates(s, n) ==
    LET after[r \in 0 .. n] == IF r = 0 THEN s ELSE ref_round(after[r - 1], r - 1)
    IN after

LEMMA ReferenceStates ==
    ASSUME NEW n \in 0 .. ROUNDS, NEW s \in [1 .. 8 -> Z]
    PROVE  /\ referenceStates(s, n)[0] = s
           /\ \A r \in 0 .. n - 1 : referenceStates(s, n)[r + 1] = ref_round(referenceStates(s, n)[r], r)
           /\ ref_perm(s, n) = referenceStates(s, n)[n]
  <1> DEFINE V == [1 .. 8 -> Z]
             step == [k \in 1 .. n |-> [v \in V |-> ref_round(v, k - 1)]]
             rec(f) == [r \in 0 .. n |-> IF r = 0 THEN s ELSE ref_round(f[r - 1], r - 1)]
  <1>1. n \in Nat /\ \A k \in 1 .. n : k - 1 \in 0 .. ROUNDS - 1 /\ k - 1 \in 0 .. n
    BY FieldAssumption
  <1>2. ASSUME NEW k \in 1 .. n, NEW v \in V
        PROVE  ref_round(v, k - 1) \in V
    BY <1>1, RoundTyped, Zenon
  <1>3. s \in V
    OBVIOUS
  <1> HIDE DEF V
  <1>4. step \in [1 .. n -> [V -> V]]
    BY <1>2
  <1>5. PICK g : runsAlong(g, n, V, s, step)
    <2> HIDE DEF step
    <2> QED
      BY <1>1, <1>3, <1>4, RecursionAlong
  <1>6. /\ g \in [0 .. n -> V] /\ g[0] = s
        /\ \A k \in 1 .. n : g[k] = ref_round(g[k - 1], k - 1)
    <2>1. g \in [0 .. n -> V] /\ g[0] = s /\ \A k \in 1 .. n : g[k] = step[k][g[k - 1]]
      BY <1>5 DEF runsAlong
    <2>2. \A k \in 1 .. n : g[k - 1] \in V
      BY <1>1, <2>1
    <2> QED
      BY <2>1, <2>2
  <1>7. g = rec(g)
    <2>1. ASSUME NEW r \in 0 .. n
          PROVE  g[r] = rec(g)[r]
      <3>1. CASE r = 0
        BY <1>6, <3>1
      <3>2. CASE r # 0
        <4>1. r \in 1 .. n
          BY <3>2
        <4> QED
          BY <1>6, <3>2, <4>1
      <3> QED
        BY <3>1, <3>2
    <2>2. g = [r \in 0 .. n |-> g[r]]
      BY <1>6
    <2> QED
      BY <2>1, <2>2
  <1> DEFINE a == referenceStates(s, n)
  <1>8. a = rec(a)
    <2>1. a = CHOOSE f : f = rec(f)
      BY DEF referenceStates
    <2> HIDE DEF rec, a
    <2> QED
      BY <1>7, <2>1
  <1>9. ref_perm(s, n) = a[n]
    BY DEF ref_perm, referenceStates
  <1> HIDE DEF a
  <1>10. \A r \in 0 .. n : a[r] = IF r = 0 THEN s ELSE ref_round(a[r - 1], r - 1)
    BY <1>8
  <1>11. a[0] = s
    BY <1>1, <1>10
  <1>12. ASSUME NEW r \in 0 .. n - 1
         PROVE  a[r + 1] = ref_round(a[r], r)
    <2>1. r + 1 \in 0 .. n /\ r + 1 # 0 /\ (r + 1) - 1 = r
      BY <1>1
    <2> QED
      BY <1>10, <2>1
  <1> QED
    BY <1>9, <1>11, <1>12, Zenon DEF a

\* The lanes a round of the packed permutation starts from.
lanesBefore(x, acc, r) == IF r = 0 THEN x ELSE unpack(acc[r - 1])

LEMMA Accumulators ==
    ASSUME NEW n \in 1 .. ROUNDS, NEW x \in [1 .. 8 -> Nat]
    PROVE  \A r \in 0 .. n - 1 :
             accumulators(x, n)[r] = fast_round(lanesBefore(x, accumulators(x, n), r), r)
  <1> DEFINE V == [1 .. 8 -> Nat]
             step == [k \in 1 .. n |-> [v \in V |-> unpack(fast_round(v, k - 1))]]
             rec(f) == [r \in 0 .. n - 1 |-> fast_round(IF r = 0 THEN x ELSE unpack(f[r - 1]), r)]
  <1>1. n \in Nat /\ \A k \in 1 .. n : k - 1 \in 0 .. ROUNDS - 1 /\ k - 1 \in 0 .. n
    BY FieldAssumption
  <1>2. ASSUME NEW k \in 1 .. n, NEW v \in V
        PROVE  unpack(fast_round(v, k - 1)) \in V
    BY <1>1, RoundUnpacks, Zenon
  <1>3. x \in V
    OBVIOUS
  <1> HIDE DEF V
  <1>4. step \in [1 .. n -> [V -> V]]
    BY <1>2
  <1>5. PICK g : runsAlong(g, n, V, x, step)
    <2> HIDE DEF step
    <2> QED
      BY <1>1, <1>3, <1>4, RecursionAlong
  <1>6. g[0] = x /\ \A k \in 1 .. n : g[k] = unpack(fast_round(g[k - 1], k - 1))
    <2>1. g \in [0 .. n -> V] /\ g[0] = x /\ \A k \in 1 .. n : g[k] = step[k][g[k - 1]]
      BY <1>5 DEF runsAlong
    <2>2. \A k \in 1 .. n : g[k - 1] \in V
      BY <1>1, <2>1
    <2> QED
      BY <2>1, <2>2
  <1> DEFINE h == [r \in 0 .. n - 1 |-> fast_round(g[r], r)]
  <1>7. h = rec(h)
    <2>1. ASSUME NEW r \in 0 .. n - 1
          PROVE  h[r] = rec(h)[r]
      <3>1. h[r] = fast_round(g[r], r)
        OBVIOUS
      <3>2. g[r] = IF r = 0 THEN x ELSE unpack(h[r - 1])
        <4>1. CASE r = 0
          BY <1>6, <4>1
        <4>2. CASE r # 0
          <5>1. r \in 1 .. n /\ r - 1 \in 0 .. n - 1
            BY <1>1, <4>2
          <5>2. h[r - 1] = fast_round(g[r - 1], r - 1)
            BY <5>1
          <5> QED
            BY <1>6, <4>2, <5>1, <5>2, Zenon
        <4> QED
          BY <4>1, <4>2
      <3> HIDE DEF h
      <3>3. rec(h)[r] = fast_round(IF r = 0 THEN x ELSE unpack(h[r - 1]), r)
        OBVIOUS
      <3> QED
        BY <3>1, <3>2, <3>3, Zenon
    <2>2. h = [r \in 0 .. n - 1 |-> h[r]]
      OBVIOUS
    <2> HIDE DEF h
    <2> QED
      BY <2>1, <2>2
  <1> HIDE DEF h
  <1> DEFINE a == accumulators(x, n)
  <1>8. a = rec(a)
    <2>1. a = CHOOSE f : f = rec(f)
      BY DEF accumulators
    <2> HIDE DEF rec, a
    <2> QED
      BY <1>7, <2>1
  <1> HIDE DEF a
  <1>9. \A r \in 0 .. n - 1 : a[r] = fast_round(IF r = 0 THEN x ELSE unpack(a[r - 1]), r)
    BY <1>8
  <1> QED
    BY <1>9, Zenon DEF a, lanesBefore

\* Round by round the lanes are the reference state, times the scale of the round.
LEMMA LanesFollow ==
    ASSUME NEW n \in 1 .. ROUNDS, NEW x \in [1 .. 8 -> Z]
    PROVE  \A r \in 0 .. n :
             LET lanes == lanesBefore(x, accumulators(x, n), r)
                 state == referenceStates(x, n)[r]
             IN lanes \in [1 .. 8 -> Nat] /\ state \in [1 .. 8 -> Z] /\ scaledBy(C[r - 1], lanes, state)
  <1> DEFINE acc == accumulators(x, n)
             lanes(r) == lanesBefore(x, acc, r)
             state(r) == referenceStates(x, n)[r]
             holds(r) == /\ lanes(r) \in [1 .. 8 -> Nat] /\ state(r) \in [1 .. 8 -> Z]
                         /\ scaledBy(C[r - 1], lanes(r), state(r))
             S == {r \in 0 .. n : holds(r)}
  <1>1. n \in Nat /\ n \in 0 .. ROUNDS /\ \A r \in 0 .. n - 1 : r \in 0 .. ROUNDS - 1
    BY FieldAssumption
  <1>2. x \in [1 .. 8 -> Nat]
    BY Residue
  <1>3. 0 \in S
    <2>1. lanes(0) = x
      BY Zenon DEF lanesBefore
    <2>2. state(0) = x
      BY <1>1, ReferenceStates, Zenon
    <2>3. scaledBy(1, x, x)
      <3>1. ASSUME NEW k \in 1 .. 8
            PROVE  x[k] % P = mul(1, x[k])
        <4>1. x[k] \in Z
          OBVIOUS
        <4> QED
          BY <4>1, Residue, MulUnits, Zenon
      <3> QED
        BY <3>1, Zenon DEF scaledBy
    <2>4. 0 - 1 = -1 /\ 0 \in 0 .. n
      BY <1>1
    <2>5. C[0 - 1] = 1
      BY <2>4, Scales, Zenon
    <2> HIDE DEF lanes, state
    <2>6. holds(0)
      BY <1>2, <2>1, <2>2, <2>3, <2>5, Zenon
    <2> QED
      BY <2>4, <2>6, Zenon
  <1>4. ASSUME NEW r \in 0 .. n - 1, r \in S
        PROVE  r + 1 \in S
    <2>1. r \in 0 .. ROUNDS - 1 /\ r + 1 \in 0 .. n /\ (r + 1) - 1 = r /\ r + 1 # 0
      BY <1>1
    <2>2. holds(r)
      BY <1>4, Zenon
    <2>3. acc[r] = fast_round(lanes(r), r)
      BY <1>2, Accumulators, Zenon
    <2>4. lanes(r + 1) = unpack(acc[r])
      BY <2>1, Zenon DEF lanesBefore
    <2>5. state(r + 1) = ref_round(state(r), r)
      <3>1. \A q \in 0 .. n - 1 : state(q + 1) = ref_round(state(q), q)
        BY <1>1, ReferenceStates, Zenon
      <3> QED
        BY <3>1, Zenon
    <2> HIDE DEF lanes, state, acc
    <2> DEFINE l == lanes(r)
               s == state(r)
               u == unpack(fast_round(l, r))
    <2>6. l \in [1 .. 8 -> Nat] /\ s \in [1 .. 8 -> Z] /\ scaledBy(C[r - 1], l, s)
      BY <2>2, Zenon
    <2>7. lanes(r + 1) = u
      BY <2>3, <2>4, Zenon
    <2> HIDE DEF l, s
    <2>8. u \in [1 .. 8 -> Nat] /\ \A j \in 1 .. 8 : u[j] = rowSum(r, j, powers(l))
      BY <2>1, <2>6, RoundUnpacks, Zenon
    <2>9. ref_round(s, r) \in [1 .. 8 -> Z]
      BY <2>1, <2>6, RoundTyped, Zenon
    <2>10. \A j \in 1 .. 8 : rowSum(r, j, powers(l)) % P = mul(C[r], ref_round(s, r)[j])
      BY <2>1, <2>6, ScaledRow, Zenon
    <2> HIDE DEF u
    <2>11. scaledBy(C[r], u, ref_round(s, r))
      BY <2>8, <2>10, Zenon DEF scaledBy
    <2>12. state(r + 1) = ref_round(s, r)
      BY <2>5, Zenon DEF s
    <2>13. scaledBy(C[(r + 1) - 1], lanes(r + 1), state(r + 1))
      BY <2>1, <2>7, <2>11, <2>12, Zenon
    <2>14. holds(r + 1)
      BY <2>7, <2>8, <2>9, <2>12, <2>13, Zenon
    <2> QED
      BY <2>1, <2>14, Zenon
  <1>5. 0 .. n \subseteq S
    <2> HIDE DEF S
    <2> QED
      BY <1>1, <1>3, <1>4, UpToInduction
  <1> HIDE DEF lanes, state
  <1>6. \A r \in 0 .. n : holds(r)
    BY <1>5
  <1> QED
    BY <1>6, Zenon DEF lanes, state, acc

\* The permutation that the generated program computes, with its integer matrix, its
\* packed rows and its rolling scale, is the reference permutation: on every input
\* and for every number of rounds (ref_compress takes ROUNDS, ref_hash4 one less).
\* The generator asserts it on two hundred random inputs (gen.py:184-188).
THEOREM FastPermIsReference ==
    ASSUME NEW n \in 1 .. ROUNDS, NEW x \in [1 .. 8 -> Z]
    PROVE  fast_perm(x, n) = SubSeq(ref_perm(x, n), 1, 4)
  <1> DEFINE acc == accumulators(x, n)
             lanes == lanesBefore(x, acc, n)
             state == referenceStates(x, n)[n]
             c == C[n - 1]
             d == CINV(n - 1)
  <1>1. n \in 0 .. ROUNDS /\ n \in 0 .. n /\ n # 0 /\ n - 1 \in 0 .. ROUNDS - 1
    BY FieldAssumption
  <1>2. lanes \in [1 .. 8 -> Nat] /\ state \in [1 .. 8 -> Z] /\ scaledBy(c, lanes, state)
    BY <1>1, LanesFollow, Zenon
  <1>3. ref_perm(x, n) = state
    BY <1>1, ReferenceStates, Zenon
  <1>4. c \in Nat /\ d \in Units /\ mul(c, d) = 1
    BY <1>1, ScaleStep, Zenon
  <1>5. d \in Nat
    BY <1>4, UnitsAre
  <1>6. fast_perm(x, n) = [i \in Limbs |-> mul(lanes[i], d)]
    <2>1. lanes = unpack(acc[n - 1])
      BY <1>1, Zenon DEF lanesBefore
    <2> HIDE DEF lanes
    <2> QED
      BY <2>1, Zenon DEF fast_perm, mul
  <1> HIDE DEF lanes, state, c, d
  <1>7. ASSUME NEW i \in 1 .. 4
        PROVE  mul(lanes[i], d) = state[i]
    <2> DEFINE l == lanes[i]
               s == state[i]
    <2>1. i \in 1 .. 8
      OBVIOUS
    <2>2. l \in Nat /\ s \in Z
      BY <1>2, <2>1
    <2>3. l % P = mul(c, s)
      BY <1>2, <2>1, Zenon DEF scaledBy
    <2> HIDE DEF l, s
    <2>4. s \in Nat
      BY <2>2, Residue
    <2>5. mul(c, s) \in Nat /\ mul(c, s) \in Z
      BY <1>4, <2>4, MulTyped, Zenon
    <2>6. mul(l, d) = mul(mul(c, s), d)
      <3>1. same(l, mul(c, s)) /\ same(d, d)
        BY <2>3, <2>5, Residue, Zenon DEF same
      <3> QED
        BY <1>5, <2>2, <2>5, <3>1, MulAlike
    <2>7. mul(c, s) = mul(s, c) /\ mul(mul(s, c), d) = mul(s, mul(c, d))
      BY <1>4, <1>5, <2>4, MulComm, MulAssoc, Zenon
    <2>8. mul(s, 1) = s
      BY <2>2, MulUnits, Zenon
    <2>9. mul(l, d) = s
      BY <1>4, <2>6, <2>7, <2>8, Zenon
    <2> QED
      BY <2>9, Zenon DEF l, s
  <1>8. fast_perm(x, n) = [i \in 1 .. 4 |-> state[i]]
    BY <1>6, <1>7 DEF Limbs
  <1>9. SubSeq(state, 1, 4) = [i \in 1 .. 4 |-> state[i]]
    BY <1>2
  <1> QED
    BY <1>3, <1>8, <1>9, Zenon

\* No accumulator of any round carries out of its word, and no row of one reaches the
\* row packed above it, whatever the input: the ADD and MUL that add a round up drop
\* a carry and say nothing (gen.py:158 asserts the first on the inputs it tries).
THEOREM WordsNeverOverflow ==
    ASSUME NEW n \in 1 .. ROUNDS, NEW x \in [1 .. 8 -> Z], NEW r \in 0 .. n - 1
    PROVE  /\ \A g \in 1 .. 3 : accumulators(x, n)[r][g] \in 0 .. 2^WORDBITS - 1
           /\ \A j \in {1, 2, 4, 5, 7} : unpack(accumulators(x, n)[r])[j] < 2^W
  <1> DEFINE lanes == lanesBefore(x, accumulators(x, n), r)
             t == powers(lanes)
             v == 2^(WORDBITS - offset(3))
             w == 2^(WORDBITS - offset(2))
             a(j) == rowSum(r, j, t)
             accs == accumulators(x, n)[r]
             word == 2^WORDBITS
  <1>1. r \in 0 .. ROUNDS - 1 /\ r \in 0 .. n
    BY FieldAssumption
  <1>2. x \in [1 .. 8 -> Nat]
    BY Residue
  <1>3. lanes \in [1 .. 8 -> Nat]
    BY <1>1, LanesFollow, Zenon
  <1>4. accs = fast_round(lanes, r)
    BY <1>2, Accumulators, Zenon
  <1> HIDE DEF lanes, accs
  <1>5. t \in [1 .. 8 -> Z]
    BY <1>3, PowersTyped, Zenon
  <1>6. \A g \in 1 .. 3 : accs[g] = RowsOf(r, g, t)
    BY <1>1, <1>3, <1>4, AccumulatorsWeigh, Zenon
  <1>7. \A j \in 1 .. 8 : unpack(accs)[j] = a(j)
    BY <1>1, <1>3, <1>4, RoundUnpacks, Zenon
  <1> HIDE DEF t
  <1>8. \A j \in 1 .. 8 : a(j) \in Nat
    BY <1>1, <1>5, RowBound, Zenon
  <1>9. /\ \A j \in {1, 2, 4, 5, 7} : a(j) < U
        /\ \A j \in {3, 6} : a(j) < v
        /\ a(8) < w
        /\ v \in Nat /\ w \in Nat
        /\ word = v * (U * U) /\ word = w * U
    BY <1>1, <1>5, RowFits, Zenon
  <1> HIDE DEF a, v, w, word
  <1>10. U \in Nat \ {0}
    BY Weights, Zenon
  <1>11. ASSUME NEW p \in Nat, NEW q \in Nat, NEW s \in Nat, p < U, q < U, s < v
         PROVE  weigh(p, q, s) \in 0 .. word - 1
    <2> DEFINE uu == U * U
    <2>1. weigh(p, q, s) = p + q * U + s * uu /\ weigh(p, q, s) \in Nat
      BY <1>11, WeighTyped, Zenon DEF weigh
    <2>2. q * U <= uu - U
      <3>1. U - 1 \in Nat /\ q <= U - 1
        BY <1>10, <1>11
      <3>2. U * q <= U * (U - 1)
        BY <1>10, <3>1, ProductAtMost
      <3>3. q * U = U * q /\ U * (U - 1) = uu - U
        BY <1>10
      <3> QED
        BY <3>2, <3>3, Zenon
    <2>3. q * U \in Nat /\ uu \in Nat /\ s * uu \in Nat
      <3>1. U \in Nat
        BY <1>10
      <3>2. uu \in Nat
        BY <3>1, MulTyped, Zenon
      <3> QED
        BY <1>11, <3>1, <3>2, MulTyped, Zenon
    <2> HIDE DEF uu
    <2>4. uu * (s + 1) <= uu * v
      <3>1. s + 1 \in Nat /\ s + 1 <= v
        BY <1>9, <1>11
      <3> QED
        BY <1>9, <2>3, <3>1, ProductAtMost, Zenon
    <2>5. uu * (s + 1) = s * uu + uu /\ uu * v = word
      <3>1. uu * (s + 1) = s * uu + uu
        BY <2>3
      <3>2. uu * v = v * uu
        BY <1>9, <2>3
      <3> QED
        BY <1>9, <3>1, <3>2, Zenon DEF uu
    <2>6. s * uu + uu <= word
      BY <2>4, <2>5
    <2>7. word \in Nat
      <3>1. uu \in Nat /\ v \in Nat
        BY <1>9, <2>3
      <3>2. uu * v \in Nat
        BY <3>1, MulTyped, Zenon
      <3> QED
        BY <2>5, <3>2
    <2>8. p + q * U < uu
      BY <1>10, <1>11, <2>2, <2>3
    <2>9. (p + q * U) + s * uu < word
      BY <1>11, <2>3, <2>6, <2>7, <2>8
    <2> DEFINE m == weigh(p, q, s)
    <2> HIDE DEF m
    <2>10. m \in Nat /\ m < word
      BY <2>1, <2>9, Zenon DEF m
    <2>11. m \in 0 .. word - 1
      BY <2>7, <2>10
    <2> QED
      BY <2>11, Zenon DEF m
  <1>12. /\ accs[1] = weigh(a(1), a(2), a(3)) /\ accs[2] = weigh(a(4), a(5), a(6))
         /\ accs[3] = weigh(a(7), a(8), 0)
    <2>1. /\ 1 \in 1 .. 3 /\ 2 \in 1 .. 3 /\ 3 \in 1 .. 3 /\ 1 # 3 /\ 2 # 3
          /\ 3 * 1 - 2 = 1 /\ 3 * 1 - 1 = 2 /\ 3 * 1 = 3 /\ 3 * 2 - 2 = 4 /\ 3 * 2 - 1 = 5 /\ 3 * 2 = 6
      OBVIOUS
    <2>2. RowsOf(r, 1, t) = weigh(a(1), a(2), a(3))
      BY <2>1, Zenon DEF RowsOf, a
    <2>3. RowsOf(r, 2, t) = weigh(a(4), a(5), a(6))
      BY <2>1, Zenon DEF RowsOf, a
    <2>4. RowsOf(r, 3, t) = weigh(a(7), a(8), 0)
      BY Zenon DEF RowsOf, a
    <2> QED
      BY <1>6, <2>1, <2>2, <2>3, <2>4, Zenon
  <1>13. /\ a(1) \in Nat /\ a(2) \in Nat /\ a(3) \in Nat /\ a(4) \in Nat
         /\ a(5) \in Nat /\ a(6) \in Nat /\ a(7) \in Nat /\ a(8) \in Nat
         /\ a(1) < U /\ a(2) < U /\ a(4) < U /\ a(5) < U /\ a(7) < U /\ a(3) < v /\ a(6) < v
    <2>1. /\ a(1) \in Nat /\ a(2) \in Nat /\ a(3) \in Nat /\ a(4) \in Nat
          /\ a(5) \in Nat /\ a(6) \in Nat /\ a(7) \in Nat /\ a(8) \in Nat
      BY <1>8
    <2>2. a(1) < U /\ a(2) < U /\ a(4) < U /\ a(5) < U /\ a(7) < U
      <3>1. \A j \in {1, 2, 4, 5, 7} : a(j) < U
        BY <1>9, Zenon
      <3> QED
        BY <3>1
    <2>3. a(3) < v /\ a(6) < v
      <3>1. \A j \in {3, 6} : a(j) < v
        BY <1>9, Zenon
      <3> QED
        BY <3>1
    <2> QED
      BY <2>1, <2>2, <2>3, Zenon
  <1>14. accs[1] \in 0 .. word - 1 /\ accs[2] \in 0 .. word - 1
    <2>1. weigh(a(1), a(2), a(3)) \in 0 .. word - 1
      BY <1>11, <1>13, Zenon
    <2>2. weigh(a(4), a(5), a(6)) \in 0 .. word - 1
      BY <1>11, <1>13, Zenon
    <2> QED
      BY <1>12, <2>1, <2>2, Zenon
  <1>15. accs[3] \in 0 .. word - 1
    <2> DEFINE p == a(7)
               q == a(8)
               m == weigh(p, q, 0)
    <2>1. p \in Nat /\ q \in Nat /\ p < U /\ q < w
      BY <1>9, <1>13, Zenon
    <2> HIDE DEF p, q
    <2>2. m = p + q * U + 0 * (U * U) /\ m \in Nat
      BY <2>1, WeighTyped, Zenon DEF weigh
    <2>3. U * (q + 1) <= U * w
      <3>1. q + 1 \in Nat /\ q + 1 <= w
        BY <1>9, <2>1
      <3>2. U \in Nat
        BY <1>10
      <3> QED
        BY <1>9, <3>1, <3>2, ProductAtMost, Zenon
    <2>4. U * (q + 1) = q * U + U /\ U * w = w * U /\ 0 * (U * U) = 0 /\ q * U \in Nat
      BY <1>9, <1>10, <2>1
    <2>5. q * U + U <= word
      BY <1>9, <2>3, <2>4, Zenon
    <2>6. word \in Nat
      <3>1. U \in Nat
        BY <1>10
      <3> QED
        BY <1>9, <3>1, MulTyped, Zenon
    <2> HIDE DEF m
    <2>7. m = p + q * U + 0
      BY <2>2, <2>4, Zenon
    <2>8. m \in 0 .. word - 1
      BY <1>10, <2>1, <2>2, <2>4, <2>5, <2>6, <2>7
    <2> QED
      BY <1>12, <2>8, Zenon DEF m, p, q
  <1>16. \A g \in 1 .. 3 : accs[g] \in 0 .. word - 1
    BY <1>14, <1>15
  <1>17. \A j \in {1, 2, 4, 5, 7} : unpack(accs)[j] < U
    <2>1. \A j \in {1, 2, 4, 5, 7} : j \in 1 .. 8
      OBVIOUS
    <2> QED
      BY <1>7, <1>9, <2>1, Zenon
  <1> QED
    BY <1>16, <1>17, Zenon DEF accs, word, U
=============================================================================
