----------------------------- MODULE Recursion ------------------------------
(***************************************************************************)
(* Induction over the subsets of a finite set, over the natural numbers and  *)
(* over an interval, stated as facts about sets; the functions that a       *)
(* recursion along an interval defines; and what SumFunctionOnSet of the    *)
(* community modules sums: it is a fold that takes the elements in an order *)
(* of its own, and the lemmas say that the order does not matter.          *)
(***************************************************************************)
EXTENDS Integers, Sequences, FiniteSets, Functions, FiniteSetTheorems, WellFoundedInduction, TLAPS

-----------------------------------------------------------------------------
(* Induction.                                                              *)

\* What holds of a set when it holds of the set less any one element holds of
\* every subset.
LEMMA SubsetInduction ==
    ASSUME NEW S, IsFiniteSet(S), NEW F,
           \A T \in SUBSET S : (\A x \in T : T \ {x} \in F) => T \in F
    PROVE  SUBSET S \subseteq F
  <1> DEFINE Bad == (SUBSET S) \ F
  <1>1. IsWellFoundedOn(StrictSubsetOrdering(S), SUBSET S)
    BY FS_StrictSubsetOrderingWellFounded, FS_FiniteSubsetsOfFinite
  <1>2. ASSUME Bad # {}
        PROVE  FALSE
    <2>1. Bad \subseteq SUBSET S
      OBVIOUS
    <2>2. PICK T \in Bad : \A U \in Bad : <<U, T>> \notin StrictSubsetOrdering(S)
      <3> HIDE DEF Bad
      <3> QED
        BY <1>1, <1>2, <2>1, WFMin
    <2>3. ASSUME NEW x \in T
          PROVE  T \ {x} \in F
      <3>1. <<T \ {x}, T>> \in StrictSubsetOrdering(S)
        BY <2>1, <2>2 DEF StrictSubsetOrdering
      <3>2. T \ {x} \in SUBSET S
        BY <2>1, <2>2
      <3> QED
        BY <2>2, <3>1, <3>2
    <2> QED
      BY <2>2, <2>3
  <1> QED
    BY <1>2

\* The same, one element added at a time.
LEMMA SetInduction ==
    ASSUME NEW S, IsFiniteSet(S), NEW F, {} \in F,
           \A T \in SUBSET S, x \in S : T \in F /\ x \notin T => T \cup {x} \in F
    PROVE  S \in F
  <1>1. ASSUME NEW T \in SUBSET S, \A x \in T : T \ {x} \in F
        PROVE  T \in F
    <2>1. CASE T = {}
      BY <2>1
    <2>2. CASE T # {}
      <3>1. PICK x \in T : TRUE
        BY <2>2
      <3>2. T \ {x} \in SUBSET S /\ x \notin T \ {x} /\ (T \ {x}) \cup {x} = T
        BY <3>1
      <3>3. (T \ {x}) \cup {x} \in F
        BY <1>1, <3>1, <3>2
      <3> QED
        BY <3>2, <3>3
    <2> QED
      BY <2>1, <2>2
  <1>2. \A T \in SUBSET S : (\A x \in T : T \ {x} \in F) => T \in F
    BY <1>1
  <1>3. SUBSET S \subseteq F
    BY <1>2, SubsetInduction
  <1> QED
    BY <1>3

\* Induction over an initial interval of the natural numbers.
LEMMA NatInductionOn ==
    ASSUME NEW S \in SUBSET Nat, 0 \in S, \A n \in S : n + 1 \in S
    PROVE  S = Nat
  <1> DEFINE Bad == Nat \ S
             Less == {ss \in Nat \X Nat : ss[1] < ss[2]}
  <1>1. IsWellFoundedOn(Less, Nat)
    BY NatLessThanWellFounded, Zenon DEF OpToRel
  <1>2. ASSUME Bad # {}
        PROVE  FALSE
    <2>1. Bad \subseteq Nat
      OBVIOUS
    <2>2. PICK n \in Bad : \A m \in Bad : <<m, n>> \notin Less
      <3> HIDE DEF Bad, Less
      <3> QED
        BY <1>1, <1>2, <2>1, WFMin
    <2>3. \A m \in Bad : ~(m < n)
      BY <2>2
    <2>4. n # 0 /\ n - 1 \in Nat /\ n - 1 \in S
      BY <2>2, <2>3
    <2>5. (n - 1) + 1 = n
      BY <2>2
    <2> QED
      BY <2>2, <2>4, <2>5
  <1> QED
    BY <1>2

\* The same up to a bound.
LEMMA UpToInduction ==
    ASSUME NEW n \in Nat, NEW S, 0 \in S, \A k \in 0 .. n - 1 : k \in S => k + 1 \in S
    PROVE  0 .. n \subseteq S
  <1> DEFINE T == {m \in Nat : m <= n => m \in S}
  <1>1. 0 \in T /\ T \in SUBSET Nat
    OBVIOUS
  <1>2. ASSUME NEW m \in T
        PROVE  m + 1 \in T
    <2>1. CASE m + 1 <= n
      <3>1. m \in 0 .. n - 1 /\ m \in S
        BY <2>1
      <3> QED
        BY <3>1
    <2>2. CASE ~(m + 1 <= n)
      BY <2>2
    <2> QED
      BY <2>1, <2>2
  <1>3. T = Nat
    <2> HIDE DEF T
    <2> QED
      BY <1>1, <1>2, NatInductionOn
  <1> QED
    BY <1>3

\* A recursion along an interval has a function, which stays in the set its steps
\* stay in.
runsAlong(g, n, V, base, step) ==
    /\ g \in [0 .. n -> V]
    /\ g[0] = base
    /\ \A k \in 1 .. n : g[k] = step[k][g[k - 1]]

LEMMA RecursionAlong ==
    ASSUME NEW n \in Nat, NEW V, NEW base \in V, NEW step \in [1 .. n -> [V -> V]]
    PROVE  \E g : runsAlong(g, n, V, base, step)
  <1> DEFINE has(m) == \E g \in [0 .. m -> V] :
                          g[0] = base /\ \A k \in 1 .. m : g[k] = step[k][g[k - 1]]
             S == {m \in 0 .. n : has(m)}
  <1>1. 0 \in S
    <2> DEFINE g == [k \in 0 .. 0 |-> base]
    <2>1. g \in [0 .. 0 -> V] /\ g[0] = base /\ \A k \in 1 .. 0 : g[k] = step[k][g[k - 1]]
      OBVIOUS
    <2> HIDE DEF g
    <2> QED
      BY <2>1
  <1>2. ASSUME NEW m \in 0 .. n - 1, m \in S
        PROVE  m + 1 \in S
    <2>1. PICK g \in [0 .. m -> V] : g[0] = base /\ \A k \in 1 .. m : g[k] = step[k][g[k - 1]]
      BY <1>2
    <2> DEFINE h == [k \in 0 .. m + 1 |-> IF k = m + 1 THEN step[m + 1][g[m]] ELSE g[k]]
    <2>2. step[m + 1][g[m]] \in V
      <3>1. m + 1 \in 1 .. n /\ m \in 0 .. m
        OBVIOUS
      <3> QED
        BY <3>1
    <2>3. h \in [0 .. m + 1 -> V] /\ h[0] = base
      BY <2>1, <2>2
    <2>4. ASSUME NEW k \in 1 .. m + 1
          PROVE  h[k] = step[k][h[k - 1]]
      <3>1. CASE k = m + 1
        BY <3>1
      <3>2. CASE k # m + 1
        BY <2>1, <3>2
      <3> QED
        BY <3>1, <3>2
    <2>5. m + 1 \in 0 .. n
      OBVIOUS
    <2> HIDE DEF h
    <2> QED
      BY <2>3, <2>4, <2>5
  <1>3. 0 .. n \subseteq S
    <2> HIDE DEF S
    <2> QED
      BY <1>1, <1>2, UpToInduction
  <1>4. n \in 0 .. n
    OBVIOUS
  <1> QED
    BY <1>3, <1>4 DEF runsAlong

-----------------------------------------------------------------------------
(* The fold that SumFunctionOnSet is.                                      *)

first(s) == CHOOSE x \in s : TRUE
sums(f, S, g) ==
    g = [s \in SUBSET S |-> IF s = {} THEN 0 ELSE f[first(s)] + g[s \ {first(s)}]]
sumsOf(f, S) == CHOOSE g : sums(f, S, g)

LEMMA SumIsFold ==
    ASSUME NEW f, NEW S
    PROVE  SumFunctionOnSet(f, S) = sumsOf(f, S)[S]
  BY DEF SumFunctionOnSet, FoldFunctionOnSet, MapThenFoldSet, sumsOf, sums, first

LEMMA FirstIn ==
    ASSUME NEW s, s # {}
    PROVE  first(s) \in s
  BY DEF first

\* Sums over the subsets of S and of a subset T of it agree on what both sum.
LEMMA SumsAgree ==
    ASSUME NEW f, NEW S, IsFiniteSet(S), NEW T \in SUBSET S, NEW g, NEW h,
           sums(f, S, g), sums(f, T, h)
    PROVE  \A s \in SUBSET T : g[s] = h[s]
  <1> DEFINE F == {s \in SUBSET T : g[s] = h[s]}
  <1>1. ASSUME NEW s \in SUBSET T, \A x \in s : s \ {x} \in F
        PROVE  s \in F
    <2>1. s \in SUBSET S
      OBVIOUS
    <2>2. g[s] = IF s = {} THEN 0 ELSE f[first(s)] + g[s \ {first(s)}]
      BY <2>1 DEF sums
    <2>3. h[s] = IF s = {} THEN 0 ELSE f[first(s)] + h[s \ {first(s)}]
      BY DEF sums
    <2>4. s # {} => g[s \ {first(s)}] = h[s \ {first(s)}]
      BY <1>1, FirstIn
    <2> QED
      BY <2>2, <2>3, <2>4
  <1>2. IsFiniteSet(T)
    BY FS_Subset
  <1>3. SUBSET T \subseteq F
    <2> HIDE DEF F
    <2> QED
      BY <1>1, <1>2, SubsetInduction
  <1> QED
    BY <1>3

\* There are such sums: those of a set extend those of its proper subsets.
LEMMA SumsExist ==
    ASSUME NEW f, NEW S, IsFiniteSet(S)
    PROVE  sums(f, S, sumsOf(f, S))
  <1> DEFINE F == {T \in SUBSET S : \A U \in SUBSET T : \E g : sums(f, U, g)}
  <1>1. ASSUME NEW T \in SUBSET S, \A x \in T : T \ {x} \in F
        PROVE  T \in F
    <2> DEFINE h == [s \in SUBSET T |->
                       IF s = {} THEN 0
                       ELSE f[first(s)] + sumsOf(f, s \ {first(s)})[s \ {first(s)}]]
    <2>1. ASSUME NEW U \in SUBSET T, U # T
          PROVE  sums(f, U, sumsOf(f, U)) /\ IsFiniteSet(U)
      <3>1. PICK x \in T : x \notin U
        BY <2>1
      <3>2. U \in SUBSET (T \ {x}) /\ T \ {x} \in F
        BY <1>1, <3>1
      <3>3. \E g : sums(f, U, g)
        BY <3>2
      <3>4. IsFiniteSet(U)
        BY FS_Subset
      <3> QED
        BY <3>3, <3>4 DEF sumsOf
    <2>2. ASSUME NEW U \in SUBSET T, U # T
          PROVE  h[U] = sumsOf(f, U)[U]
      <3> DEFINE u == U \ {first(U)}
      <3>1. CASE U = {}
        BY <2>1, <2>2, <3>1 DEF sums
      <3>2. CASE U # {}
        <4>1. u \in SUBSET T /\ u # T /\ u \in SUBSET U
          BY <2>2
        <4>2. sums(f, u, sumsOf(f, u)) /\ sums(f, U, sumsOf(f, U)) /\ IsFiniteSet(U)
          BY <2>1, <2>2, <4>1
        <4>3. sumsOf(f, U)[u] = sumsOf(f, u)[u]
          BY <4>1, <4>2, SumsAgree
        <4>4. sumsOf(f, U)[U] = f[first(U)] + sumsOf(f, U)[u]
          BY <3>2, <4>2 DEF sums
        <4>5. h[U] = f[first(U)] + sumsOf(f, u)[u]
          BY <3>2
        <4> QED
          BY <4>3, <4>4, <4>5
      <3> QED
        BY <3>1, <3>2
    <2>3. ASSUME NEW s \in SUBSET T, s # {}
          PROVE  h[s] = f[first(s)] + h[s \ {first(s)}]
      <3>1. s \ {first(s)} \in SUBSET T /\ s \ {first(s)} # T
        BY <2>3, FirstIn
      <3>2. h[s \ {first(s)}] = sumsOf(f, s \ {first(s)})[s \ {first(s)}]
        <4> HIDE DEF h
        <4> QED
          BY <2>2, <3>1
      <3> QED
        BY <2>3, <3>2
    <2>4. h[{}] = 0
      OBVIOUS
    <2>5. h = [s \in SUBSET T |-> h[s]]
      OBVIOUS
    <2>6. sums(f, T, h)
      <3> HIDE DEF h
      <3>1. \A s \in SUBSET T : h[s] = IF s = {} THEN 0 ELSE f[first(s)] + h[s \ {first(s)}]
        BY <2>3, <2>4
      <3> QED
        BY <2>5, <3>1 DEF sums
    <2>7. \A U \in SUBSET T : \E g : sums(f, U, g)
      BY <2>1, <2>6
    <2> QED
      BY <2>7
  <1>2. SUBSET S \subseteq F
    <2> HIDE DEF F
    <2> QED
      BY <1>1, SubsetInduction
  <1>3. \E g : sums(f, S, g)
    BY <1>2
  <1> QED
    BY <1>3 DEF sumsOf

LEMMA SumEmpty ==
    ASSUME NEW f
    PROVE  SumFunctionOnSet(f, {}) = 0
  <1>1. sums(f, {}, sumsOf(f, {}))
    BY SumsExist, FS_EmptySet
  <1> QED
    BY <1>1, SumIsFold DEF sums

LEMMA SumTakesFirst ==
    ASSUME NEW f, NEW S, IsFiniteSet(S), S # {}
    PROVE  SumFunctionOnSet(f, S) = f[first(S)] + SumFunctionOnSet(f, S \ {first(S)})
  <1> DEFINE s == S \ {first(S)}
  <1>1. IsFiniteSet(s) /\ s \in SUBSET S
    BY FS_Subset
  <1>2. sums(f, S, sumsOf(f, S)) /\ sums(f, s, sumsOf(f, s))
    BY <1>1, SumsExist
  <1>3. sumsOf(f, S)[s] = sumsOf(f, s)[s]
    BY <1>1, <1>2, SumsAgree
  <1>4. sumsOf(f, S)[S] = f[first(S)] + sumsOf(f, S)[s]
    BY <1>2 DEF sums
  <1> QED
    BY <1>3, <1>4, SumIsFold

-----------------------------------------------------------------------------
(* Sums of integers.                                                       *)

LEMMA SumInt ==
    ASSUME NEW f, NEW S, IsFiniteSet(S), \A x \in S : f[x] \in Int
    PROVE  SumFunctionOnSet(f, S) \in Int
  <1> DEFINE F == {T \in SUBSET S : SumFunctionOnSet(f, T) \in Int}
  <1>1. ASSUME NEW T \in SUBSET S, \A x \in T : T \ {x} \in F
        PROVE  T \in F
    <2>1. CASE T = {}
      BY <2>1, SumEmpty
    <2>2. CASE T # {}
      <3>1. IsFiniteSet(T) /\ first(T) \in T
        BY <2>2, FS_Subset, FirstIn
      <3>2. SumFunctionOnSet(f, T \ {first(T)}) \in Int /\ f[first(T)] \in Int
        BY <1>1, <3>1
      <3> QED
        BY <2>2, <3>1, <3>2, SumTakesFirst
    <2> QED
      BY <2>1, <2>2
  <1>2. SUBSET S \subseteq F
    <2> HIDE DEF F
    <2> QED
      BY <1>1, SubsetInduction
  <1> QED
    BY <1>2

\* Any element may be taken out first.
LEMMA SumTakes ==
    ASSUME NEW f, NEW S, IsFiniteSet(S), \A x \in S : f[x] \in Int, NEW x \in S
    PROVE  SumFunctionOnSet(f, S) = f[x] + SumFunctionOnSet(f, S \ {x})
  <1> DEFINE sum(T) == SumFunctionOnSet(f, T)
             F == {T \in SUBSET S : \A y \in T : sum(T) = f[y] + sum(T \ {y})}
  <1>1. ASSUME NEW T \in SUBSET S, \A y \in T : T \ {y} \in F
        PROVE  T \in F
    <2>1. ASSUME NEW y \in T
          PROVE  sum(T) = f[y] + sum(T \ {y})
      <3> DEFINE c == first(T)
      <3>1. c \in T /\ IsFiniteSet(T) /\ T # {}
        BY FirstIn, FS_Subset
      <3>2. sum(T) = f[c] + sum(T \ {c})
        BY <3>1, SumTakesFirst
      <3>3. CASE y = c
        BY <3>2, <3>3
      <3>4. CASE y # c
        <4> HIDE DEF c
        <4>1. y \in T \ {c} /\ c \in T \ {y} /\ (T \ {c}) \ {y} = (T \ {y}) \ {c}
          BY <3>1, <3>4
        <4>2. sum(T \ {c}) = f[y] + sum((T \ {c}) \ {y})
          BY <1>1, <3>1, <4>1
        <4>3. sum(T \ {y}) = f[c] + sum((T \ {y}) \ {c})
          BY <1>1, <4>1
        <4>4. f[c] \in Int /\ f[y] \in Int /\ sum((T \ {c}) \ {y}) \in Int
          <5>1. (T \ {c}) \ {y} \in SUBSET S /\ IsFiniteSet((T \ {c}) \ {y})
            BY FS_Subset
          <5> QED
            BY <3>1, <5>1, SumInt
        <4>5. sum((T \ {y}) \ {c}) = sum((T \ {c}) \ {y})
          BY <4>1
        <4> HIDE DEF sum
        <4> QED
          BY <3>2, <4>2, <4>3, <4>4, <4>5
      <3> QED
        BY <3>3, <3>4
    <2> QED
      BY <2>1
  <1>2. SUBSET S \subseteq F
    <2> HIDE DEF F
    <2> QED
      BY <1>1, SubsetInduction
  <1> QED
    BY <1>2

\* What an element outside adds.
LEMMA SumAdds ==
    ASSUME NEW f, NEW S, IsFiniteSet(S), NEW x, x \notin S, \A y \in S \cup {x} : f[y] \in Int
    PROVE  SumFunctionOnSet(f, S \cup {x}) = SumFunctionOnSet(f, S) + f[x]
  <1>1. IsFiniteSet(S \cup {x}) /\ (S \cup {x}) \ {x} = S
    BY FS_AddElement
  <1>2. SumFunctionOnSet(f, S) \in Int
    BY SumInt
  <1> QED
    BY <1>1, <1>2, SumTakes

\* A sum depends on the summands only.
LEMMA SumSame ==
    ASSUME NEW f, NEW g, NEW S, IsFiniteSet(S),
           \A x \in S : f[x] \in Int, \A x \in S : g[x] = f[x]
    PROVE  SumFunctionOnSet(g, S) = SumFunctionOnSet(f, S)
  <1> DEFINE F == {T \in SUBSET S : SumFunctionOnSet(g, T) = SumFunctionOnSet(f, T)}
  <1>1. {} \in F
    BY SumEmpty
  <1>2. ASSUME NEW T \in SUBSET S, NEW x \in S, T \in F, x \notin T
        PROVE  T \cup {x} \in F
    <2>1. IsFiniteSet(T)
      BY FS_Subset
    <2>2. SumFunctionOnSet(f, T \cup {x}) = SumFunctionOnSet(f, T) + f[x]
      BY <1>2, <2>1, SumAdds
    <2>3. SumFunctionOnSet(g, T \cup {x}) = SumFunctionOnSet(g, T) + g[x]
      BY <1>2, <2>1, SumAdds
    <2> QED
      BY <1>2, <2>2, <2>3
  <1>3. S \in F
    <2> HIDE DEF F
    <2> QED
      BY <1>1, <1>2, SetInduction
  <1> QED
    BY <1>3

LEMMA SumAtMost ==
    ASSUME NEW f, NEW g, NEW S, IsFiniteSet(S),
           \A x \in S : f[x] \in Int /\ g[x] \in Int /\ f[x] <= g[x]
    PROVE  SumFunctionOnSet(f, S) <= SumFunctionOnSet(g, S)
  <1> DEFINE F == {T \in SUBSET S : SumFunctionOnSet(f, T) <= SumFunctionOnSet(g, T)}
  <1>1. {} \in F
    BY SumEmpty
  <1>2. ASSUME NEW T \in SUBSET S, NEW x \in S, T \in F, x \notin T
        PROVE  T \cup {x} \in F
    <2>1. IsFiniteSet(T)
      BY FS_Subset
    <2>2. SumFunctionOnSet(f, T \cup {x}) = SumFunctionOnSet(f, T) + f[x]
      BY <1>2, <2>1, SumAdds
    <2>3. SumFunctionOnSet(g, T \cup {x}) = SumFunctionOnSet(g, T) + g[x]
      BY <1>2, <2>1, SumAdds
    <2>4. SumFunctionOnSet(f, T) \in Int /\ SumFunctionOnSet(g, T) \in Int
      BY <2>1, SumInt
    <2> QED
      BY <1>2, <2>2, <2>3, <2>4
  <1>3. S \in F
    <2> HIDE DEF F
    <2> QED
      BY <1>1, <1>2, SetInduction
  <1> QED
    BY <1>3

\* A sum of zeros.
LEMMA SumZero ==
    ASSUME NEW f, NEW S, IsFiniteSet(S), \A x \in S : f[x] = 0
    PROVE  SumFunctionOnSet(f, S) = 0
  <1> DEFINE F == {T \in SUBSET S : SumFunctionOnSet(f, T) = 0}
  <1>1. {} \in F
    BY SumEmpty
  <1>2. ASSUME NEW T \in SUBSET S, NEW x \in S, T \in F, x \notin T
        PROVE  T \cup {x} \in F
    <2>1. IsFiniteSet(T)
      BY FS_Subset
    <2>2. SumFunctionOnSet(f, T \cup {x}) = SumFunctionOnSet(f, T) + f[x]
      BY <1>2, <2>1, SumAdds
    <2> QED
      BY <1>2, <2>2
  <1>3. S \in F
    <2> HIDE DEF F
    <2> QED
      BY <1>1, <1>2, SetInduction
  <1> QED
    BY <1>3

LEMMA SumNat ==
    ASSUME NEW f, NEW S, IsFiniteSet(S), \A x \in S : f[x] \in Nat
    PROVE  SumFunctionOnSet(f, S) \in Nat
  <1> DEFINE z == [x \in S |-> 0]
  <1>1. SumFunctionOnSet(z, S) = 0
    BY SumZero
  <1>2. \A x \in S : z[x] \in Int /\ f[x] \in Int /\ z[x] <= f[x]
    OBVIOUS
  <1>3. SumFunctionOnSet(z, S) <= SumFunctionOnSet(f, S)
    <2> HIDE DEF z
    <2> QED
      BY <1>2, SumAtMost
  <1>4. SumFunctionOnSet(f, S) \in Int
    BY SumInt
  <1> QED
    BY <1>1, <1>3, <1>4

\* Changing one summand changes the sum by as much.
LEMMA SumChanges ==
    ASSUME NEW f, NEW g, NEW S, IsFiniteSet(S), NEW x \in S,
           \A y \in S : f[y] \in Int /\ g[y] \in Int, \A y \in S \ {x} : g[y] = f[y]
    PROVE  SumFunctionOnSet(g, S) = SumFunctionOnSet(f, S) + (g[x] - f[x])
  <1> DEFINE T == S \ {x}
  <1>1. IsFiniteSet(T)
    BY FS_Subset
  <1>2. SumFunctionOnSet(f, S) = f[x] + SumFunctionOnSet(f, T)
    BY SumTakes
  <1>3. SumFunctionOnSet(g, S) = g[x] + SumFunctionOnSet(g, T)
    BY SumTakes
  <1>4. SumFunctionOnSet(g, T) = SumFunctionOnSet(f, T) /\ SumFunctionOnSet(f, T) \in Int
    <2>1. \A y \in T : f[y] \in Int
      OBVIOUS
    <2>2. \A y \in T : g[y] = f[y]
      OBVIOUS
    <2> HIDE DEF T
    <2> QED
      BY <1>1, <2>1, <2>2, SumSame, SumInt
  <1> HIDE DEF T
  <1> QED
    BY <1>2, <1>3, <1>4

\* The sum over two sets with nothing in common.
LEMMA SumDisjoint ==
    ASSUME NEW f, NEW S, IsFiniteSet(S), NEW T, IsFiniteSet(T), S \cap T = {},
           \A x \in S \cup T : f[x] \in Int
    PROVE  SumFunctionOnSet(f, S \cup T) = SumFunctionOnSet(f, S) + SumFunctionOnSet(f, T)
  <1> DEFINE sum(U) == SumFunctionOnSet(f, U)
             F == {U \in SUBSET T : sum(S \cup U) = sum(S) + sum(U)}
  <1>1. {} \in F
    <2>1. S \cup {} = S /\ sum(S) \in Int
      BY SumInt
    <2> QED
      BY <2>1, SumEmpty
  <1>2. ASSUME NEW U \in SUBSET T, NEW x \in T, U \in F, x \notin U
        PROVE  U \cup {x} \in F
    <2>1. IsFiniteSet(U) /\ IsFiniteSet(S \cup U)
      BY FS_Subset, FS_Union
    <2>2. x \notin S \cup U /\ S \cup (U \cup {x}) = (S \cup U) \cup {x}
      BY <1>2
    <2>3. \A y \in (S \cup U) \cup {x} : f[y] \in Int
      OBVIOUS
    <2>4. sum((S \cup U) \cup {x}) = sum(S \cup U) + f[x]
      BY <2>1, <2>2, <2>3, SumAdds
    <2>5. sum(U \cup {x}) = sum(U) + f[x]
      BY <1>2, <2>1, SumAdds
    <2>6. sum(S) \in Int /\ sum(U) \in Int /\ f[x] \in Int
      BY <2>1, SumInt
    <2>7. sum(S \cup U) = sum(S) + sum(U)
      BY <1>2
    <2>8. sum(S \cup (U \cup {x})) = sum((S \cup U) \cup {x})
      BY <2>2
    <2>9. sum(S \cup (U \cup {x})) = sum(S) + sum(U \cup {x})
      <3> HIDE DEF sum
      <3> QED
        BY <2>4, <2>5, <2>6, <2>7, <2>8
    <2> QED
      BY <2>9
  <1>3. T \in F
    <2> HIDE DEF F
    <2> QED
      BY <1>1, <1>2, SetInduction
  <1> QED
    BY <1>3

\* The sum of a function that is the sum of two.
LEMMA SumOfSums ==
    ASSUME NEW f, NEW g, NEW h, NEW S, IsFiniteSet(S),
           \A x \in S : f[x] \in Int /\ g[x] \in Int /\ h[x] = f[x] + g[x]
    PROVE  SumFunctionOnSet(h, S) = SumFunctionOnSet(f, S) + SumFunctionOnSet(g, S)
  <1> DEFINE F == {T \in SUBSET S :
                     SumFunctionOnSet(h, T) = SumFunctionOnSet(f, T) + SumFunctionOnSet(g, T)}
  <1>1. {} \in F
    BY SumEmpty
  <1>2. ASSUME NEW T \in SUBSET S, NEW x \in S, T \in F, x \notin T
        PROVE  T \cup {x} \in F
    <2>1. IsFiniteSet(T)
      BY FS_Subset
    <2>2. \A y \in T \cup {x} : f[y] \in Int /\ g[y] \in Int /\ h[y] \in Int
      OBVIOUS
    <2>3. /\ SumFunctionOnSet(h, T \cup {x}) = SumFunctionOnSet(h, T) + h[x]
          /\ SumFunctionOnSet(f, T \cup {x}) = SumFunctionOnSet(f, T) + f[x]
          /\ SumFunctionOnSet(g, T \cup {x}) = SumFunctionOnSet(g, T) + g[x]
      BY <1>2, <2>1, <2>2, SumAdds
    <2>4. SumFunctionOnSet(f, T) \in Int /\ SumFunctionOnSet(g, T) \in Int
      BY <2>1, <2>2, SumInt
    <2>5. SumFunctionOnSet(h, T) = SumFunctionOnSet(f, T) + SumFunctionOnSet(g, T)
      BY <1>2
    <2>6. f[x] \in Int /\ g[x] \in Int /\ h[x] = f[x] + g[x]
      OBVIOUS
    <2>7. SumFunctionOnSet(h, T \cup {x})
            = SumFunctionOnSet(f, T \cup {x}) + SumFunctionOnSet(g, T \cup {x})
      BY <2>3, <2>4, <2>5, <2>6
    <2> QED
      BY <2>7
  <1>3. S \in F
    <2> HIDE DEF F
    <2> QED
      BY <1>1, <1>2, SetInduction
  <1> QED
    BY <1>3

\* The sum of ones over a part of a set is the size of the part.
LEMMA CountOfPart ==
    ASSUME NEW h, NEW S, IsFiniteSet(S), NEW T \in SUBSET S,
           \A x \in T : h[x] = 1, \A x \in S \ T : h[x] = 0
    PROVE  SumFunctionOnSet(h, S) = Cardinality(T)
  <1> DEFINE F == {U \in SUBSET T : SumFunctionOnSet(h, U) = Cardinality(U)}
  <1>1. IsFiniteSet(T) /\ IsFiniteSet(S \ T)
    BY FS_Subset
  <1>2. {} \in F
    BY SumEmpty, FS_EmptySet
  <1>3. ASSUME NEW U \in SUBSET T, NEW x \in T, U \in F, x \notin U
        PROVE  U \cup {x} \in F
    <2>1. IsFiniteSet(U)
      BY <1>1, FS_Subset
    <2>2. \A y \in U \cup {x} : h[y] \in Int
      OBVIOUS
    <2>3. SumFunctionOnSet(h, U \cup {x}) = SumFunctionOnSet(h, U) + h[x]
      BY <1>3, <2>1, <2>2, SumAdds
    <2>4. Cardinality(U \cup {x}) = Cardinality(U) + 1
      BY <1>3, <2>1, FS_AddElement
    <2> QED
      BY <1>3, <2>3, <2>4
  <1>4. T \in F
    <2> HIDE DEF F
    <2> QED
      BY <1>1, <1>2, <1>3, SetInduction
  <1>5. SumFunctionOnSet(h, S \ T) = 0
    BY <1>1, SumZero
  <1>6. T \cup (S \ T) = S /\ T \cap (S \ T) = {} /\ \A x \in T \cup (S \ T) : h[x] \in Int
    OBVIOUS
  <1>7. SumFunctionOnSet(h, T \cup (S \ T)) = SumFunctionOnSet(h, T) + SumFunctionOnSet(h, S \ T)
    BY <1>1, <1>6, SumDisjoint
  <1>8. Cardinality(T) \in Nat /\ SumFunctionOnSet(h, T) = Cardinality(T)
    BY <1>1, <1>4, FS_CardinalityType
  <1>9. SumFunctionOnSet(h, T \cup (S \ T)) = SumFunctionOnSet(h, S)
    BY <1>6
  <1> QED
    BY <1>5, <1>7, <1>8, <1>9
=============================================================================
