--------------------------- MODULE ProgramTapeProofs ---------------------------
(***************************************************************************)
(* Proofs about the tape, for any set of tapes the contract would take: both *)
(* readers of the blob read back what was written, no cell is overwritten     *)
(* while its value is still to be read, and the cells are as few as can be.  *)
(***************************************************************************)
EXTENDS ProgramTape, Recursion, SequenceTheorems

-----------------------------------------------------------------------------
(* Recursion.  The steps of every recursion of the tape are the cases of one *)
(* operator, and one induction shows that all of them have a function.      *)

next(kind, data, i, prev) ==
    CASE kind = "concat" -> prev \o data[i]
      [] kind = "order" -> IF i \in data THEN Append(prev, i) ELSE prev
      [] kind = "outs" -> read(prev, data.outs[i], data.n + 1)
      [] kind = "scan" -> scanned(data.ops, prev, data.n + 1 - i)
      [] kind = "parse" -> LET met == opAt(data, prev.next)
                           IN [ops |-> Append(prev.ops, met.op), next |-> met.next]
      [] kind = "split" -> prev + OP_LEN[unpack(data, prev, 1) + 1]
      [] kind = "pins" -> prev + (IF unpack(data, prev + 3, 1) = 1 THEN 5 ELSE 12)
      [] OTHER -> prev

runs(g, n, kind, data, base) ==
    g = [i \in 0 .. n |-> IF i = 0 THEN base ELSE next(kind, data, i, g[i - 1])]

LEMMA RunsExist ==
    ASSUME NEW n \in Nat, NEW kind, NEW data, NEW base
    PROVE  \E g : runs(g, n, kind, data, base)
  <1> DEFINE has(m) == \E g : runs(g, m, kind, data, base)
             S == {m \in 0 .. n : has(m)}
  <1>1. 0 \in S
    <2> DEFINE g == [i \in 0 .. 0 |-> base]
    <2>1. runs(g, 0, kind, data, base)
      BY DEF runs
    <2> QED
      BY <2>1
  <1>2. ASSUME NEW m \in 0 .. n - 1, m \in S
        PROVE  m + 1 \in S
    <2>1. PICK g : runs(g, m, kind, data, base)
      BY <1>2
    <2> DEFINE h == [i \in 0 .. m + 1 |-> IF i = m + 1 THEN next(kind, data, i, g[m]) ELSE g[i]]
    <2>2. \A i \in 0 .. m : g[i] = IF i = 0 THEN base ELSE next(kind, data, i, g[i - 1])
      BY <2>1 DEF runs
    <2>3. ASSUME NEW i \in 0 .. m + 1
          PROVE  h[i] = IF i = 0 THEN base ELSE next(kind, data, i, h[i - 1])
      <3>1. CASE i = m + 1
        BY <3>1
      <3>2. CASE i # m + 1
        <4>1. i \in 0 .. m /\ (i # 0 => i - 1 \in 0 .. m)
          BY <3>2
        <4>2. h[i] = g[i] /\ (i # 0 => h[i - 1] = g[i - 1])
          BY <3>2, <4>1
        <4> QED
          BY <2>2, <4>1, <4>2
      <3> QED
        BY <3>1, <3>2
    <2>4. runs(h, m + 1, kind, data, base)
      <3> DEFINE k == [i \in 0 .. m + 1 |-> IF i = 0 THEN base ELSE next(kind, data, i, h[i - 1])]
      <3>1. h = k
        BY <2>3
      <3> QED
        BY <3>1 DEF runs
    <2>5. m + 1 \in 0 .. n
      OBVIOUS
    <2> HIDE DEF h
    <2> QED
      BY <2>4, <2>5
  <1>3. 0 .. n \subseteq S
    <2> HIDE DEF S
    <2> QED
      BY <1>1, <1>2, UpToInduction
  <1>4. n \in 0 .. n
    OBVIOUS
  <1> QED
    BY <1>3, <1>4

\* A run, step by step.
LEMMA RunSteps ==
    ASSUME NEW n \in Nat, NEW kind, NEW data, NEW base, NEW g, runs(g, n, kind, data, base)
    PROVE  /\ g[0] = base
           /\ \A i \in 1 .. n : g[i] = next(kind, data, i, g[i - 1])
           /\ \A i \in 0 .. n - 1 : g[i + 1] = next(kind, data, i + 1, g[i])
  <1> DEFINE rec(f) == [i \in 0 .. n |-> IF i = 0 THEN base ELSE next(kind, data, i, f[i - 1])]
  <1>1. \A i \in 0 .. n : g[i] = rec(g)[i]
    BY DEF runs
  <1>2. \A i \in 0 .. n - 1 : i + 1 \in 1 .. n /\ (i + 1) - 1 = i
    OBVIOUS
  <1>3. g[0] = base /\ \A i \in 1 .. n : g[i] = next(kind, data, i, g[i - 1])
    BY <1>1
  <1> QED
    BY <1>2, <1>3

LEMMA LeastOf ==
    ASSUME NEW S \in SUBSET Nat, S # {}
    PROVE  \E m \in S : \A n \in S : m <= n
  <1> DEFINE Less == {ss \in Nat \X Nat : ss[1] < ss[2]}
  <1>1. IsWellFoundedOn(Less, Nat)
    BY NatLessThanWellFounded, Zenon DEF OpToRel
  <1>2. PICK m \in S : \A n \in S : <<n, m>> \notin Less
    <2> HIDE DEF Less
    <2> QED
      BY <1>1, WFMin
  <1>3. \A n \in S : ~(n < m)
    BY <1>2
  <1> QED
    BY <1>2, <1>3

-----------------------------------------------------------------------------
(* Sequences.                                                              *)

LEMMA Joined ==
    ASSUME NEW X, NEW s \in Seq(X), NEW r \in Seq(X)
    PROVE  /\ s \o r \in Seq(X) /\ Len(s \o r) = Len(s) + Len(r)
           /\ \A i \in 1 .. Len(s) : (s \o r)[i] = s[i]
           /\ \A j \in 1 .. Len(r) : (s \o r)[Len(s) + j] = r[j]
  OBVIOUS

LEMMA Elements ==
    ASSUME NEW X, NEW s \in Seq(X)
    PROVE  /\ Len(s) \in Nat /\ DOMAIN s = 1 .. Len(s) /\ \A i \in 1 .. Len(s) : s[i] \in X
  OBVIOUS

LEMMA Listed ==
    ASSUME NEW X, NEW n \in Nat, NEW f, DOMAIN f = 1 .. n, f = [i \in 1 .. n |-> f[i]],
           \A i \in 1 .. n : f[i] \in X
    PROVE  f \in Seq(X) /\ Len(f) = n
  <1>1. f \in [1 .. n -> X]
    OBVIOUS
  <1> QED
    BY <1>1

LEMMA ConcatStepByStep ==
    ASSUME NEW n \in Nat, NEW parts, Len(parts) = n
    PROVE  \E g : /\ g[0] = <<>> /\ concat(parts) = g[n]
                  /\ \A i \in 0 .. n - 1 : g[i + 1] = g[i] \o parts[i + 1]
  <1> DEFINE rec(f) == [i \in 0 .. n |-> IF i = 0 THEN <<>> ELSE f[i - 1] \o parts[i]]
             a == CHOOSE f : f = rec(f)
  <1>1. PICK g : runs(g, n, "concat", parts, <<>>)
    BY RunsExist
  <1>2. \A f : runs(f, n, "concat", parts, <<>>) <=> f = rec(f)
    BY DEF runs, next
  <1>3. concat(parts) = a[n]
    BY DEF concat
  <1>4. a = rec(a)
    <2> HIDE DEF rec
    <2> QED
      BY <1>1, <1>2
  <1>5. runs(a, n, "concat", parts, <<>>)
    <2> HIDE DEF rec, a
    <2> QED
      BY <1>2, <1>4
  <1> HIDE DEF a
  <1>6. a[0] = <<>> /\ \A i \in 0 .. n - 1 : a[i + 1] = next("concat", parts, i + 1, a[i])
    BY <1>5, RunSteps
  <1>7. \A i \in 0 .. n - 1 : a[i + 1] = a[i] \o parts[i + 1]
    BY <1>6 DEF next
  <1> QED
    BY <1>3, <1>6, <1>7

LEMMA OrderStepByStep ==
    ASSUME NEW n \in Nat, NEW picked
    PROVE  \E g : /\ g[0] = <<>> /\ inOrder(n, picked) = g[n]
                  /\ \A i \in 0 .. n - 1 : g[i + 1] = IF i + 1 \in picked THEN Append(g[i], i + 1) ELSE g[i]
  <1> DEFINE rec(f) == [i \in 0 .. n |-> IF i = 0 THEN <<>>
                                         ELSE IF i \in picked THEN Append(f[i - 1], i) ELSE f[i - 1]]
             a == CHOOSE f : f = rec(f)
  <1>1. PICK g : runs(g, n, "order", picked, <<>>)
    BY RunsExist
  <1>2. \A f : runs(f, n, "order", picked, <<>>) <=> f = rec(f)
    BY DEF runs, next
  <1>3. inOrder(n, picked) = a[n]
    BY DEF inOrder
  <1>4. a = rec(a)
    <2> HIDE DEF rec
    <2> QED
      BY <1>1, <1>2
  <1>5. runs(a, n, "order", picked, <<>>)
    <2> HIDE DEF rec, a
    <2> QED
      BY <1>2, <1>4
  <1> HIDE DEF a
  <1>6. a[0] = <<>> /\ \A i \in 0 .. n - 1 : a[i + 1] = next("order", picked, i + 1, a[i])
    BY <1>5, RunSteps
  <1>7. \A i \in 0 .. n - 1 : a[i + 1] = IF i + 1 \in picked THEN Append(a[i], i + 1) ELSE a[i]
    BY <1>6 DEF next
  <1> QED
    BY <1>3, <1>6, <1>7

-----------------------------------------------------------------------------
(* What stands where in a sequence put together from parts.               *)

laid(all, p, s) ==
    p + Len(s) <= Len(all) /\ \A j \in 1 .. Len(s) : all[p + j] = s[j]

LEMMA LaidWithin ==
    ASSUME NEW X, NEW all \in Seq(X), NEW s \in Seq(X), NEW r \in Seq(X),
           NEW p \in Nat, NEW q \in Nat, laid(all, p, s), laid(s, q, r)
    PROVE  laid(all, p + q, r)
  <1>1. ASSUME NEW j \in 1 .. Len(r)
        PROVE  all[p + q + j] = r[j]
    <2>1. q + j \in 1 .. Len(s) /\ s[q + j] = r[j]
      BY SMTT(40) DEF laid
    <2>2. all[p + (q + j)] = s[q + j]
      BY <2>1 DEF laid
    <2>3. p + (q + j) = p + q + j
      BY <2>1
    <2> QED
      BY <2>1, <2>2, <2>3
  <1>2. p + q + Len(r) <= Len(all)
    BY DEF laid
  <1> QED
    BY <1>1, <1>2 DEF laid

LEMMA LaidJoined ==
    ASSUME NEW X, NEW s \in Seq(X), NEW r \in Seq(X)
    PROVE  s \o r \in Seq(X) /\ laid(s \o r, 0, s) /\ laid(s \o r, Len(s), r)
  BY Joined DEF laid

\* The offsets of the parts of a concatenation.
offsets(at, n, parts) ==
    at \in [0 .. n -> Nat] /\ at[0] = 0 /\ \A i \in 0 .. n - 1 : at[i + 1] = at[i] + Len(parts[i + 1])

LEMMA ConcatLaid ==
    ASSUME NEW X, NEW n \in Nat, NEW parts, Len(parts) = n, \A i \in 1 .. n : parts[i] \in Seq(X)
    PROVE  /\ concat(parts) \in Seq(X)
           /\ \E at : /\ offsets(at, n, parts) /\ Len(concat(parts)) = at[n]
                      /\ \A i \in 0 .. n - 1 : laid(concat(parts), at[i], parts[i + 1])
  <1>1. PICK g : /\ g[0] = <<>> /\ concat(parts) = g[n]
                 /\ \A i \in 0 .. n - 1 : g[i + 1] = g[i] \o parts[i + 1]
    BY ConcatStepByStep, ZenonT(60)
  <1>2. \A i \in 0 .. n - 1 : i + 1 \in 1 .. n /\ parts[i + 1] \in Seq(X)
    OBVIOUS
  <1>3. \A m \in 0 .. n : g[m] \in Seq(X)
    <2> DEFINE S == {m \in 0 .. n : g[m] \in Seq(X)}
    <2>1. 0 \in S
      <3>1. 0 \in 0 .. n /\ <<>> \in Seq(X)
        OBVIOUS
      <3> QED
        BY <1>1, <3>1, Zenon
    <2>2. ASSUME NEW m \in 0 .. n - 1, m \in S
          PROVE  m + 1 \in S
      <3>1. g[m] \in Seq(X) /\ g[m + 1] = g[m] \o parts[m + 1] /\ parts[m + 1] \in Seq(X)
        BY <1>1, <1>2, <2>2, Zenon
      <3>2. g[m] \o parts[m + 1] \in Seq(X)
        BY <3>1, Joined
      <3>3. m + 1 \in 0 .. n
        OBVIOUS
      <3> QED
        BY <3>1, <3>2, <3>3, Zenon
    <2>3. 0 .. n \subseteq S
      <3> HIDE DEF S
      <3> QED
        BY <2>1, <2>2, UpToInduction
    <2> QED
      BY <2>3
  <1> DEFINE at == [i \in 0 .. n |-> Len(g[i])]
  <1>4. at \in [0 .. n -> Nat] /\ at[0] = 0
    BY <1>1, <1>3
  <1>5. ASSUME NEW i \in 0 .. n - 1
        PROVE  /\ at[i + 1] = at[i] + Len(parts[i + 1])
               /\ laid(g[i + 1], 0, g[i]) /\ laid(g[i + 1], at[i], parts[i + 1])
    <2>1. i \in 0 .. n /\ i + 1 \in 0 .. n
      OBVIOUS
    <2>2. /\ at[i] = Len(g[i]) /\ at[i + 1] = Len(g[i + 1])
          /\ g[i + 1] = g[i] \o parts[i + 1] /\ g[i] \in Seq(X) /\ parts[i + 1] \in Seq(X)
      BY <1>1, <1>2, <1>3, <2>1, Zenon
    <2> DEFINE s == g[i]
               r == parts[i + 1]
    <2> HIDE DEF s, r
    <2>3. s \in Seq(X) /\ r \in Seq(X) /\ g[i + 1] = s \o r /\ at[i] = Len(s) /\ at[i + 1] = Len(s \o r)
      BY <2>2, Zenon DEF s, r
    <2>4. Len(s \o r) = Len(s) + Len(r) /\ laid(s \o r, 0, s) /\ laid(s \o r, Len(s), r)
      BY <2>3, Joined, LaidJoined
    <2>5. at[i + 1] = at[i] + Len(r) /\ laid(g[i + 1], 0, s) /\ laid(g[i + 1], at[i], r)
      BY <2>3, <2>4, Zenon
    <2> QED
      BY <2>5, Zenon DEF s, r
  <1> HIDE DEF at
  <1> DEFINE good(m) == \A i \in 0 .. m - 1 : laid(g[m], at[i], parts[i + 1])
             T == {m \in 0 .. n : good(m)}
  <1>6. 0 \in T
    OBVIOUS
  <1>7. ASSUME NEW m \in 0 .. n - 1, m \in T
        PROVE  m + 1 \in T
    <2>1. ASSUME NEW i \in 0 .. m
          PROVE  laid(g[m + 1], at[i], parts[i + 1])
      <3>1. CASE i = m
        BY <1>5, <3>1
      <3>2. CASE i # m
        <4>1. i \in 0 .. m - 1 /\ i \in 0 .. n - 1 /\ i \in 0 .. n /\ m \in 0 .. n /\ m + 1 \in 0 .. n
          BY <3>2
        <4>2. laid(g[m], at[i], parts[i + 1]) /\ laid(g[m + 1], 0, g[m])
          BY <1>5, <1>7, <4>1
        <4>3. g[m] \in Seq(X) /\ g[m + 1] \in Seq(X) /\ parts[i + 1] \in Seq(X) /\ at[i] \in Nat
          BY <1>2, <1>3, <1>4, <4>1
        <4>4. laid(g[m + 1], 0 + at[i], parts[i + 1])
          BY <4>2, <4>3, LaidWithin
        <4> QED
          BY <4>3, <4>4
      <3> QED
        BY <3>1, <3>2
    <2>2. m + 1 \in 0 .. n /\ (m + 1) - 1 = m
      OBVIOUS
    <2> QED
      BY <2>1, <2>2
  <1>8. 0 .. n \subseteq T
    <2> HIDE DEF T
    <2> QED
      BY <1>6, <1>7, UpToInduction
  <1>9. n \in 0 .. n
    OBVIOUS
  <1>10. good(n) /\ g[n] \in Seq(X) /\ Len(g[n]) = at[n] /\ offsets(at, n, parts)
    BY <1>3, <1>4, <1>5, <1>8, <1>9 DEF at, offsets
  <1> QED
    BY <1>1, <1>10

\* Parts of one length, a word's or a field element's.
Sizes == {2, 8}

LEMMA EvenOffsets ==
    ASSUME NEW n \in Nat, NEW parts, NEW at, offsets(at, n, parts), NEW size \in Sizes,
           \A i \in 1 .. n : Len(parts[i]) = size
    PROVE  \A i \in 0 .. n : at[i] = size * i
  <1> DEFINE S == {i \in 0 .. n : at[i] = size * i}
  <1>1. 0 \in S
    BY DEF offsets
  <1>2. ASSUME NEW i \in 0 .. n - 1, i \in S
        PROVE  i + 1 \in S
    <2>1. i + 1 \in 1 .. n /\ i + 1 \in 0 .. n /\ i \in 0 .. n
      OBVIOUS
    <2>2. at[i + 1] = at[i] + size /\ at[i] = size * i
      BY <1>2, <2>1 DEF offsets
    <2>3. CASE size = 2
      BY <2>1, <2>2, <2>3
    <2>4. CASE size = 8
      BY <2>1, <2>2, <2>4
    <2> QED
      BY <2>3, <2>4 DEF Sizes
  <1>3. 0 .. n \subseteq S
    <2> HIDE DEF S
    <2> QED
      BY <1>1, <1>2, UpToInduction
  <1> QED
    BY <1>3

LEMMA LaidThree ==
    ASSUME NEW X, NEW a \in Seq(X), NEW b \in Seq(X), NEW c \in Seq(X)
    PROVE  /\ a \o b \o c \in Seq(X) /\ Len(a \o b \o c) = Len(a) + Len(b) + Len(c)
           /\ laid(a \o b \o c, 0, a) /\ laid(a \o b \o c, Len(a), b)
           /\ laid(a \o b \o c, Len(a) + Len(b), c)
  <1> DEFINE ab == a \o b
             abc == ab \o c
  <1>1. ab \in Seq(X) /\ Len(ab) = Len(a) + Len(b) /\ laid(ab, 0, a) /\ laid(ab, Len(a), b)
    BY Joined, LaidJoined
  <1> HIDE DEF ab
  <1>2. abc \in Seq(X) /\ Len(abc) = Len(ab) + Len(c) /\ laid(abc, 0, ab) /\ laid(abc, Len(ab), c)
    BY <1>1, Joined, LaidJoined
  <1> HIDE DEF abc
  <1>3. laid(abc, 0 + 0, a) /\ laid(abc, 0 + Len(a), b)
    <2>1. 0 \in Nat /\ Len(a) \in Nat
      OBVIOUS
    <2> QED
      BY <1>1, <1>2, <2>1, LaidWithin
  <1>4. 0 + 0 = 0 /\ 0 + Len(a) = Len(a)
    OBVIOUS
  <1>5. /\ abc \in Seq(X) /\ Len(abc) = Len(a) + Len(b) + Len(c)
        /\ laid(abc, 0, a) /\ laid(abc, Len(a), b) /\ laid(abc, Len(a) + Len(b), c)
    BY <1>1, <1>2, <1>3, <1>4
  <1> QED
    BY <1>5 DEF abc, ab

LEMMA LaidFour ==
    ASSUME NEW X, NEW a \in Seq(X), NEW b \in Seq(X), NEW c \in Seq(X), NEW d \in Seq(X)
    PROVE  /\ a \o b \o c \o d \in Seq(X) /\ Len(a \o b \o c \o d) = Len(a) + Len(b) + Len(c) + Len(d)
           /\ laid(a \o b \o c \o d, Len(a) + Len(b), c)
  <1> DEFINE abc == a \o b \o c
             abcd == abc \o d
  <1>1. /\ abc \in Seq(X) /\ Len(abc) = Len(a) + Len(b) + Len(c)
        /\ laid(abc, Len(a) + Len(b), c)
    BY LaidThree
  <1> HIDE DEF abc
  <1>2. abcd \in Seq(X) /\ Len(abcd) = Len(abc) + Len(d) /\ laid(abcd, 0, abc)
    BY <1>1, Joined, LaidJoined
  <1> HIDE DEF abcd
  <1>3. laid(abcd, 0 + (Len(a) + Len(b)), c)
    <2>1. 0 \in Nat /\ Len(a) + Len(b) \in Nat
      OBVIOUS
    <2> HIDE DEF laid
    <2> QED
      BY <1>1, <1>2, <2>1, LaidWithin
  <1>4. 0 + (Len(a) + Len(b)) = Len(a) + Len(b)
    OBVIOUS
  <1>5. /\ abcd \in Seq(X) /\ Len(abcd) = Len(a) + Len(b) + Len(c) + Len(d)
        /\ laid(abcd, Len(a) + Len(b), c)
    BY <1>1, <1>2, <1>3, <1>4
  <1> QED
    BY <1>5 DEF abcd, abc

\* The indices picked, in order.
LEMMA OrderPicks ==
    ASSUME NEW n \in Nat, NEW picked
    PROVE  LET s == inOrder(n, picked)
           IN /\ s \in Seq(1 .. n)
              /\ \A j \in 1 .. Len(s) : s[j] \in picked
              /\ \A i \in 1 .. n : i \in picked => \E j \in 1 .. Len(s) : s[j] = i
              /\ \A h \in 1 .. Len(s) : \A j \in 1 .. Len(s) : h < j => s[h] < s[j]
  <1>1. PICK g : /\ g[0] = <<>> /\ inOrder(n, picked) = g[n]
                 /\ \A i \in 0 .. n - 1 : g[i + 1] = IF i + 1 \in picked THEN Append(g[i], i + 1) ELSE g[i]
    BY OrderStepByStep, SMTT(40)
  <1> DEFINE good(s, m) == /\ s \in Seq(1 .. m)
                           /\ \A j \in 1 .. Len(s) : s[j] \in picked
                           /\ \A i \in 1 .. m : i \in picked => \E j \in 1 .. Len(s) : s[j] = i
                           /\ \A h \in 1 .. Len(s) : \A j \in 1 .. Len(s) : h < j => s[h] < s[j]
             S == {m \in 0 .. n : good(g[m], m)}
  <1>2. 0 \in S
    <2>1. good(<<>>, 0)
      OBVIOUS
    <2>2. 0 \in 0 .. n
      OBVIOUS
    <2> HIDE DEF good
    <2> QED
      BY <1>1, <2>1, <2>2, Zenon
  <1>3. ASSUME NEW m \in 0 .. n - 1, m \in S
        PROVE  m + 1 \in S
    <2> DEFINE s == g[m]
               r == IF m + 1 \in picked THEN Append(s, m + 1) ELSE s
    <2>1. good(s, m)
      BY <1>3
    <2>2. g[m + 1] = r
      BY <1>1, Zenon
    <2> HIDE DEF s
    <2>3. s \in Seq(1 .. m + 1) /\ Len(s) \in Nat /\ \A j \in 1 .. Len(s) : s[j] \in 1 .. m
      BY <2>1
    <2>4. CASE m + 1 \in picked
      <3> DEFINE q == Append(s, m + 1)
      <3>1. /\ q \in Seq(1 .. m + 1) /\ Len(q) = Len(s) + 1 /\ q[Len(s) + 1] = m + 1
            /\ \A j \in 1 .. Len(s) : q[j] = s[j]
        BY <2>3
      <3> HIDE DEF q
      <3>2. ASSUME NEW j \in 1 .. Len(q)
            PROVE  q[j] \in picked
        <4>1. CASE j = Len(s) + 1
          BY <2>4, <3>1, <4>1
        <4>2. CASE j # Len(s) + 1
          <5>1. j \in 1 .. Len(s) /\ q[j] = s[j] /\ s[j] \in picked
            BY <2>1, <2>3, <3>1, <4>2
          <5> QED
            BY <5>1
        <4> QED
          BY <4>1, <4>2
      <3>3. ASSUME NEW i \in 1 .. m + 1, i \in picked
            PROVE  \E j \in 1 .. Len(q) : q[j] = i
        <4>1. CASE i = m + 1
          <5>1. Len(s) + 1 \in 1 .. Len(q)
            BY <2>3, <3>1
          <5> QED
            BY <3>1, <4>1, <5>1
        <4>2. CASE i # m + 1
          <5>1. PICK j \in 1 .. Len(s) : s[j] = i
            BY <2>1, <3>3, <4>2
          <5>2. j \in 1 .. Len(q) /\ q[j] = i
            BY <2>3, <3>1, <5>1
          <5> QED
            BY <5>2
        <4> QED
          BY <4>1, <4>2
      <3>4. ASSUME NEW h \in 1 .. Len(q), NEW j \in 1 .. Len(q), h < j
            PROVE  q[h] < q[j]
        <4>1. h \in 1 .. Len(s) /\ q[h] = s[h] /\ s[h] \in 1 .. m
          BY <2>3, <3>1, <3>4
        <4>2. CASE j = Len(s) + 1
          BY <3>1, <4>1, <4>2
        <4>3. CASE j # Len(s) + 1
          <5>1. j \in 1 .. Len(s) /\ q[j] = s[j]
            BY <2>3, <3>1, <4>3
          <5> QED
            BY <2>1, <3>4, <4>1, <5>1
        <4> QED
          BY <4>2, <4>3
      <3>5. good(q, m + 1)
        BY <3>1, <3>2, <3>3, <3>4
      <3>6. r = q
        BY <2>4 DEF q
      <3>7. m + 1 \in 0 .. n
        OBVIOUS
      <3> HIDE DEF good, r
      <3> QED
        BY <2>2, <3>5, <3>6, <3>7
    <2>5. CASE m + 1 \notin picked
      <3>1. \A i \in 1 .. m + 1 : i \in picked => i \in 1 .. m
        BY <2>5
      <3>2. good(s, m + 1)
        BY <2>1, <2>3, <3>1
      <3>3. r = s /\ m + 1 \in 0 .. n
        BY <2>5
      <3> HIDE DEF good, r
      <3> QED
        BY <2>2, <3>2, <3>3
    <2> QED
      BY <2>4, <2>5
  <1>4. 0 .. n \subseteq S
    <2> HIDE DEF S
    <2> QED
      BY <1>2, <1>3, UpToInduction
  <1>5. good(g[n], n)
    <2>1. n \in 0 .. n
      OBVIOUS
    <2> HIDE DEF good
    <2> QED
      BY <1>4, <2>1
  <1> QED
    BY <1>1, <1>5

-----------------------------------------------------------------------------
(* The blob.                                                               *)

LEMMA FieldStands ==
    ASSUME NEW V, 0 \in V, NEW bytes \in Nat \ {0}, NEW v \in V
    PROVE  /\ u(bytes, v) \in Seq([w : Nat, v : V]) /\ Len(u(bytes, v)) = bytes
           /\ u(bytes, v)[1] = [w |-> bytes, v |-> v]
  <1> DEFINE X == [w : Nat, v : V]
             head == <<[w |-> bytes, v |-> v]>>
             tail == [i \in 1 .. bytes - 1 |-> rest]
  <1>1. [w |-> bytes, v |-> v] \in X /\ rest \in X
    BY DEF rest
  <1>2. head \in Seq(X) /\ Len(head) = 1 /\ head[1] = [w |-> bytes, v |-> v]
    BY <1>1
  <1>3. tail \in Seq(X) /\ Len(tail) = bytes - 1
    BY <1>1
  <1> HIDE DEF X, head, tail
  <1>4. /\ head \o tail \in Seq(X) /\ Len(head \o tail) = bytes
        /\ \A i \in 1 .. Len(head) : (head \o tail)[i] = head[i]
    <2>1. /\ head \o tail \in Seq(X) /\ Len(head \o tail) = Len(head) + Len(tail)
          /\ \A i \in 1 .. Len(head) : (head \o tail)[i] = head[i]
      BY <1>2, <1>3, Joined, ZenonT(40)
    <2> QED
      BY <1>2, <1>3, <2>1
  <1>5. (head \o tail)[1] = [w |-> bytes, v |-> v]
    <2>1. 1 \in 1 .. Len(head)
      BY <1>2
    <2> QED
      BY <1>2, <1>4, <2>1, Zenon
  <1> QED
    BY <1>4, <1>5 DEF X, head, tail, u

LEMMA FieldReads ==
    ASSUME NEW V, 0 \in V, NEW bytes \in Nat \ {0}, NEW v \in V, NEW all, NEW p \in Nat,
           laid(all, p, u(bytes, v))
    PROVE  unpack(all, p, bytes) = v
  <1>1. Len(u(bytes, v)) = bytes /\ u(bytes, v)[1] = [w |-> bytes, v |-> v]
    BY FieldStands
  <1>2. all[p + 1] = [w |-> bytes, v |-> v]
    <2>1. 1 \in 1 .. bytes
      OBVIOUS
    <2> QED
      BY <1>1, <2>1 DEF laid
  <1> QED
    BY <1>2 DEF unpack

LEMMA ThirteenParts ==
    ASSUME NEW X, NEW parts, Len(parts) = 13, parts[1] \in Seq(X)
    PROVE  concat(parts)
             = parts[1] \o parts[2] \o parts[3] \o parts[4] \o parts[5] \o parts[6] \o parts[7] \o parts[8]
               \o parts[9] \o parts[10] \o parts[11] \o parts[12] \o parts[13]
  <1>2. PICK g : /\ g[0] = <<>> /\ concat(parts) = g[13]
                 /\ \A i \in 0 .. 13 - 1 : g[i + 1] = g[i] \o parts[i + 1]
    <2>1. PICK n \in Nat : n = 13
      OBVIOUS
    <2>2. Len(parts) = n
      BY <2>1
    <2>3. \E g : /\ g[0] = <<>> /\ concat(parts) = g[n]
                 /\ \A i \in 0 .. n - 1 : g[i + 1] = g[i] \o parts[i + 1]
      BY <2>1, <2>2, ConcatStepByStep, ZenonT(60)
    <2> QED
      BY <2>1, <2>3, Zenon
  <1>4. /\ g[1] = <<>> \o parts[1] /\ g[2] = g[1] \o parts[2] /\ g[3] = g[2] \o parts[3] /\ g[4] = g[3] \o parts[4]
        /\ g[5] = g[4] \o parts[5] /\ g[6] = g[5] \o parts[6] /\ g[7] = g[6] \o parts[7] /\ g[8] = g[7] \o parts[8]
        /\ g[9] = g[8] \o parts[9] /\ g[10] = g[9] \o parts[10] /\ g[11] = g[10] \o parts[11]
        /\ g[12] = g[11] \o parts[12] /\ g[13] = g[12] \o parts[13]
    <2>1. \A i \in 0 .. 13 - 1 : i \in Int
      OBVIOUS
    <2>2. g[1] = g[0] \o parts[1]
      <3>1. 0 \in 0 .. 13 - 1 /\ 0 + 1 = 1
        OBVIOUS
      <3>2. g[0 + 1] = g[0] \o parts[0 + 1]
        BY <1>2, <3>1, Zenon
      <3> QED
        BY <3>1, <3>2, Zenon
    <2>3. g[2] = g[1] \o parts[2]
      <3>1. 1 \in 0 .. 13 - 1 /\ 1 + 1 = 2
        OBVIOUS
      <3>2. g[1 + 1] = g[1] \o parts[1 + 1]
        BY <1>2, <3>1, Zenon
      <3> QED
        BY <3>1, <3>2, Zenon
    <2>4. g[3] = g[2] \o parts[3]
      <3>1. 2 \in 0 .. 13 - 1 /\ 2 + 1 = 3
        OBVIOUS
      <3>2. g[2 + 1] = g[2] \o parts[2 + 1]
        BY <1>2, <3>1, Zenon
      <3> QED
        BY <3>1, <3>2, Zenon
    <2>5. g[4] = g[3] \o parts[4]
      <3>1. 3 \in 0 .. 13 - 1 /\ 3 + 1 = 4
        OBVIOUS
      <3>2. g[3 + 1] = g[3] \o parts[3 + 1]
        BY <1>2, <3>1, Zenon
      <3> QED
        BY <3>1, <3>2, Zenon
    <2>6. g[5] = g[4] \o parts[5]
      <3>1. 4 \in 0 .. 13 - 1 /\ 4 + 1 = 5
        OBVIOUS
      <3>2. g[4 + 1] = g[4] \o parts[4 + 1]
        BY <1>2, <3>1, Zenon
      <3> QED
        BY <3>1, <3>2, Zenon
    <2>7. g[6] = g[5] \o parts[6]
      <3>1. 5 \in 0 .. 13 - 1 /\ 5 + 1 = 6
        OBVIOUS
      <3>2. g[5 + 1] = g[5] \o parts[5 + 1]
        BY <1>2, <3>1, Zenon
      <3> QED
        BY <3>1, <3>2, Zenon
    <2>8. g[7] = g[6] \o parts[7]
      <3>1. 6 \in 0 .. 13 - 1 /\ 6 + 1 = 7
        OBVIOUS
      <3>2. g[6 + 1] = g[6] \o parts[6 + 1]
        BY <1>2, <3>1, Zenon
      <3> QED
        BY <3>1, <3>2, Zenon
    <2>9. g[8] = g[7] \o parts[8]
      <3>1. 7 \in 0 .. 13 - 1 /\ 7 + 1 = 8
        OBVIOUS
      <3>2. g[7 + 1] = g[7] \o parts[7 + 1]
        BY <1>2, <3>1, Zenon
      <3> QED
        BY <3>1, <3>2, Zenon
    <2>10. g[9] = g[8] \o parts[9]
      <3>1. 8 \in 0 .. 13 - 1 /\ 8 + 1 = 9
        OBVIOUS
      <3>2. g[8 + 1] = g[8] \o parts[8 + 1]
        BY <1>2, <3>1, Zenon
      <3> QED
        BY <3>1, <3>2, Zenon
    <2>11. g[10] = g[9] \o parts[10]
      <3>1. 9 \in 0 .. 13 - 1 /\ 9 + 1 = 10
        OBVIOUS
      <3>2. g[9 + 1] = g[9] \o parts[9 + 1]
        BY <1>2, <3>1, Zenon
      <3> QED
        BY <3>1, <3>2, Zenon
    <2>12. g[11] = g[10] \o parts[11]
      <3>1. 10 \in 0 .. 13 - 1 /\ 10 + 1 = 11
        OBVIOUS
      <3>2. g[10 + 1] = g[10] \o parts[10 + 1]
        BY <1>2, <3>1, Zenon
      <3> QED
        BY <3>1, <3>2, Zenon
    <2>13. g[12] = g[11] \o parts[12]
      <3>1. 11 \in 0 .. 13 - 1 /\ 11 + 1 = 12
        OBVIOUS
      <3>2. g[11 + 1] = g[11] \o parts[11 + 1]
        BY <1>2, <3>1, Zenon
      <3> QED
        BY <3>1, <3>2, Zenon
    <2>14. g[13] = g[12] \o parts[13]
      <3>1. 12 \in 0 .. 13 - 1 /\ 12 + 1 = 13
        OBVIOUS
      <3>2. g[12 + 1] = g[12] \o parts[12 + 1]
        BY <1>2, <3>1, Zenon
      <3> QED
        BY <3>1, <3>2, Zenon
    <2> QED
      BY <1>2, <2>2, <2>3, <2>4, <2>5, <2>6, <2>7, <2>8, <2>9, <2>10, <2>11, <2>12, <2>13, <2>14, Zenon
  <1>5. <<>> \o parts[1] = parts[1]
    OBVIOUS
  <1>6. g[13] = parts[1] \o parts[2] \o parts[3] \o parts[4] \o parts[5] \o parts[6] \o parts[7] \o parts[8] \o parts[9] \o parts[10] \o parts[11] \o parts[12] \o parts[13]
    BY <1>4, <1>5, Zenon
  <1> QED
    BY <1>2, <1>6

\* The values written in a blob.
Value(tp) == Nat \cup {pow(r) : r \in Nat} \cup {row_idx(tp.bnd, tp.bnd[i].row) : i \in DOMAIN tp.bnd}
Cell(tp) == [w : Nat, v : Value(tp)]

rowParts(tp) == LET rows == rowsOf(tp.bnd) IN [i \in DOMAIN rows |-> u(8, pow(rows[i]))]
exemptParts(tp) == [i \in DOMAIN tp.exempt |-> u(8, pow(tp.exempt[i]))]
opParts(tp) == [i \in DOMAIN tp.ops |-> blobOp(tp.ops[i])]
outParts(tp) == [i \in DOMAIN tp.outs |-> u(2, tp.outs[i])]
bndParts(tp) == [i \in DOMAIN tp.bnd |-> blobBoundary(tp.bnd, tp.bnd[i])]

LEMMA RowsAreRows ==
    ASSUME NEW tp \in Tapes
    PROVE  LET rows == rowsOf(tp.bnd)
           IN /\ rows \in Seq(Nat)
              /\ \A i \in DOMAIN tp.bnd : \E n \in DOMAIN rows : rows[n] = tp.bnd[i].row
  <1> DEFINE bnd == tp.bnd
             new(i) == \A h \in 1 .. i - 1 : bnd[h].row # bnd[i].row
             picked == {i \in DOMAIN bnd : new(i)}
             firsts == inOrder(Len(bnd), picked)
             rows == [n \in DOMAIN firsts |-> bnd[firsts[n]].row]
  <1>1. bnd \in Seq([col : Nat, row : Nat, src : 0 .. 1, value : Nat])
    BY TapeAssumption
  <1> HIDE DEF bnd
  <1>2. Len(bnd) \in Nat /\ DOMAIN bnd = 1 .. Len(bnd) /\ \A i \in 1 .. Len(bnd) : bnd[i].row \in Nat
    <2>1. Len(bnd) \in Nat /\ DOMAIN bnd = 1 .. Len(bnd)
      BY <1>1
    <2>2. ASSUME NEW i \in 1 .. Len(bnd)
          PROVE  bnd[i].row \in Nat
      <3>1. bnd[i] \in [col : Nat, row : Nat, src : 0 .. 1, value : Nat]
        BY <1>1, Elements
      <3> QED
        BY <3>1
    <2> QED
      BY <2>1, <2>2
  <1>3. /\ firsts \in Seq(1 .. Len(bnd))
        /\ \A i \in 1 .. Len(bnd) : i \in picked => \E j \in 1 .. Len(firsts) : firsts[j] = i
    <2> HIDE DEF picked
    <2> QED
      BY <1>2, OrderPicks
  <1> HIDE DEF firsts
  <1>4. rows \in Seq(Nat) /\ DOMAIN rows = 1 .. Len(firsts)
    <2>1. /\ Len(firsts) \in Nat /\ DOMAIN firsts = 1 .. Len(firsts)
          /\ \A n \in 1 .. Len(firsts) : firsts[n] \in 1 .. Len(bnd)
      BY <1>3, Elements
    <2>2. \A n \in 1 .. Len(firsts) : bnd[firsts[n]].row \in Nat
      BY <1>2, <2>1
    <2> QED
      BY <2>1, <2>2
  <1>5. ASSUME NEW i \in 1 .. Len(bnd)
        PROVE  \E n \in DOMAIN rows : rows[n] = bnd[i].row
    <2> DEFINE same == {h \in 1 .. Len(bnd) : bnd[h].row = bnd[i].row}
    <2>1. i \in same /\ same \subseteq Nat
      OBVIOUS
    <2>2. PICK h \in same : \A k \in same : h <= k
      <3> HIDE DEF same
      <3> QED
        BY <2>1, LeastOf
    <2>3. h \in picked /\ h \in 1 .. Len(bnd) /\ bnd[h].row = bnd[i].row
      BY <1>2, <2>2
    <2>4. PICK j \in 1 .. Len(firsts) : firsts[j] = h
      BY <1>3, <2>3
    <2> QED
      BY <1>4, <2>3, <2>4
  <1>6. rowsOf(bnd) = rows
    BY DEF rowsOf, firsts
  <1> HIDE DEF rows
  <1> QED
    BY <1>2, <1>4, <1>5, <1>6 DEF bnd

LEMMA OpBytes ==
    ASSUME NEW V, Nat \subseteq V, NEW o \in [k : CONST .. INV, a : Nat, b : Nat]
    PROVE  /\ blobOp(o) \in Seq([w : Nat, v : V])
           /\ laid(blobOp(o), 0, u(1, o.k))
           /\ o.k = CONST => Len(blobOp(o)) = 17
           /\ o.k \in {INPUT, INV} => Len(blobOp(o)) = 3 /\ laid(blobOp(o), 1, u(2, o.a))
           /\ o.k \in {ADD, SUB, MUL} => /\ Len(blobOp(o)) = 5
                                         /\ laid(blobOp(o), 1, u(2, o.a)) /\ laid(blobOp(o), 3, u(2, o.b))
  <1> DEFINE X == [w : Nat, v : V]
  <1>1. /\ o.k \in Nat /\ o.a \in Nat /\ o.b \in Nat /\ 0 \in V /\ o.k \in V /\ o.a \in V /\ o.b \in V
        /\ 1 \in Nat \ {0} /\ 2 \in Nat \ {0} /\ 8 \in Nat \ {0} /\ o.k \in 0 .. 5
    BY DEF CONST, INV
  <1>2. /\ u(1, o.k) \in Seq(X) /\ Len(u(1, o.k)) = 1
        /\ u(2, o.a) \in Seq(X) /\ Len(u(2, o.a)) = 2
        /\ u(2, o.b) \in Seq(X) /\ Len(u(2, o.b)) = 2
        /\ u(8, o.a) \in Seq(X) /\ Len(u(8, o.a)) = 8
        /\ u(8, o.b) \in Seq(X) /\ Len(u(8, o.b)) = 8
    <2> HIDE DEF X
    <2>1. \A n \in Nat \ {0}, v \in V : u(n, v) \in Seq(X) /\ Len(u(n, v)) = n
      BY <1>1, FieldStands, Zenon DEF X
    <2> QED
      BY <1>1, <2>1, Zenon
  <1> DEFINE uk == u(1, o.k)
             ua == u(2, o.a)
             ub == u(2, o.b)
             va == u(8, o.a)
             vb == u(8, o.b)
  <1>7. /\ uk \in Seq(X) /\ ua \in Seq(X) /\ ub \in Seq(X) /\ va \in Seq(X) /\ vb \in Seq(X)
        /\ Len(uk) = 1 /\ Len(ua) = 2 /\ Len(ub) = 2 /\ Len(va) = 8 /\ Len(vb) = 8
    BY <1>2
  <1> HIDE DEF X, uk, ua, ub, va, vb
  <1>8. \A a \in Seq(X), b \in Seq(X), c \in Seq(X) :
           /\ a \o b \o c \in Seq(X) /\ Len(a \o b \o c) = Len(a) + Len(b) + Len(c)
           /\ laid(a \o b \o c, 0, a) /\ laid(a \o b \o c, Len(a), b)
           /\ laid(a \o b \o c, Len(a) + Len(b), c)
    BY LaidThree
  <1>3. CASE o.k = CONST
    <2>4. o.k \notin {INPUT, INV} /\ o.k \notin {ADD, SUB, MUL}
      BY <1>3 DEF CONST, INPUT, INV, ADD, SUB, MUL
    <2>1. blobOp(o) = uk \o va \o vb
      <3>1. blobOp(o) = u(1, CONST) \o u(8, o.a) \o u(8, o.b)
        BY <1>3, <2>4 DEF blobOp
      <3> QED
        BY <1>3, <3>1, Zenon DEF uk, va, vb
    <2>2. /\ uk \o va \o vb \in Seq(X)
          /\ Len(uk \o va \o vb) = Len(uk) + Len(va) + Len(vb)
          /\ laid(uk \o va \o vb, 0, uk)
      BY <1>7, <1>8, ZenonT(40)
    <2>3. Len(blobOp(o)) = 17
      BY <1>7, <2>1, <2>2
    <2> QED
      BY <2>1, <2>2, <2>3, <2>4, Zenon DEF X, uk, ua, ub
  <1>4. CASE o.k \in {INPUT, INV}
    <2>0. o.k # CONST /\ o.k \notin {ADD, SUB, MUL}
      BY <1>4 DEF CONST, INPUT, INV, ADD, SUB, MUL
    <2>1. blobOp(o) = uk \o ua
      BY <1>4, <2>0 DEF blobOp, uk, ua
    <2>2. /\ uk \o ua \in Seq(X)
          /\ Len(uk \o ua) = Len(uk) + Len(ua)
          /\ laid(uk \o ua, 0, uk)
          /\ laid(uk \o ua, Len(uk), ua)
      BY <1>7, LaidJoined, Joined
    <2>3. Len(blobOp(o)) = 3
      BY <1>7, <2>1, <2>2
    <2> QED
      BY <1>7, <2>0, <2>1, <2>2, <2>3, Zenon DEF X, uk, ua, ub
  <1>5. CASE o.k \in {ADD, SUB, MUL}
    <2>0. o.k # CONST /\ o.k \notin {INPUT, INV}
      BY <1>5 DEF CONST, INPUT, INV, ADD, SUB, MUL
    <2>1. blobOp(o) = uk \o ua \o ub
      BY <1>5, <2>0 DEF blobOp, uk, ua, ub
    <2> DEFINE s == uk \o ua \o ub
    <2>2. /\ s \in Seq(X)
          /\ Len(s) = Len(uk) + Len(ua) + Len(ub)
          /\ laid(s, 0, uk) /\ laid(s, Len(uk), ua)
          /\ laid(s, Len(uk) + Len(ua), ub)
      BY <1>7, <1>8, ZenonT(40)
    <2> HIDE DEF s
    <2>3. Len(s) = 5 /\ Len(uk) + Len(ua) = 3
      BY <1>7, <2>2
    <2>4. laid(s, 0, uk) /\ laid(s, 1, ua) /\ laid(s, 3, ub)
      BY <1>7, <2>2, <2>3
    <2>5. blobOp(o) = s
      BY <2>1 DEF s
    <2> QED
      BY <2>0, <2>2, <2>3, <2>4, <2>5, Zenon DEF X, uk, ua, ub
  <1>6. o.k = CONST \/ o.k \in {INPUT, INV} \/ o.k \in {ADD, SUB, MUL}
    BY <1>1 DEF CONST, INPUT, INV, ADD, SUB, MUL
  <1> QED
    BY <1>3, <1>4, <1>5, <1>6

LEMMA BoundaryBytes ==
    ASSUME NEW V, Nat \subseteq V, NEW bnd, NEW b \in [col : Nat, row : Nat, src : 0 .. 1, value : Nat],
           row_idx(bnd, b.row) \in V
    PROVE  /\ blobBoundary(bnd, b) \in Seq([w : Nat, v : V])
           /\ Len(blobBoundary(bnd, b)) = IF b.src = 1 THEN 5 ELSE 12
           /\ laid(blobBoundary(bnd, b), 3, u(1, b.src))
  <1> DEFINE X == [w : Nat, v : V]
             last == IF b.src = 0 THEN 8 ELSE 1
             row == row_idx(bnd, b.row)
  <1>1. /\ b.col \in V /\ row \in V /\ b.src \in V /\ b.value \in V /\ 0 \in V /\ b.src \in 0 .. 1
        /\ 1 \in Nat \ {0} /\ 2 \in Nat \ {0} /\ last \in Nat \ {0}
    <2>1. b.col \in Nat /\ b.src \in 0 .. 1 /\ b.value \in Nat
      OBVIOUS
    <2> QED
      BY <2>1
  <1>2. /\ u(1, b.col) \in Seq(X) /\ Len(u(1, b.col)) = 1
        /\ u(2, row) \in Seq(X) /\ Len(u(2, row)) = 2
        /\ u(1, b.src) \in Seq(X) /\ Len(u(1, b.src)) = 1
        /\ u(last, b.value) \in Seq(X) /\ Len(u(last, b.value)) = last
    <2> HIDE DEF X, last, row
    <2>1. \A n \in Nat \ {0}, v \in V : u(n, v) \in Seq(X) /\ Len(u(n, v)) = n
      BY <1>1, FieldStands, Zenon DEF X
    <2> QED
      BY <1>1, <2>1, Zenon
  <1> DEFINE uc == u(1, b.col)
             ur == u(2, row)
             us == u(1, b.src)
             uv == u(last, b.value)
  <1>7. /\ uc \in Seq(X) /\ ur \in Seq(X) /\ us \in Seq(X) /\ uv \in Seq(X)
        /\ Len(uc) = 1 /\ Len(ur) = 2 /\ Len(us) = 1 /\ Len(uv) = last
    BY <1>2
  <1> HIDE DEF X, row, last, uc, ur, us, uv
  <1> DEFINE s == uc \o ur \o us \o uv
  <1>3. blobBoundary(bnd, b) = s
    BY DEF blobBoundary, row, uc, ur, us, uv, last
  <1>4. /\ s \in Seq(X)
        /\ Len(s) = Len(uc) + Len(ur) + Len(us) + Len(uv)
        /\ laid(s, Len(uc) + Len(ur), us)
    <2>1. \A a \in Seq(X), b1 \in Seq(X), c \in Seq(X), d \in Seq(X) :
             /\ a \o b1 \o c \o d \in Seq(X)
             /\ Len(a \o b1 \o c \o d) = Len(a) + Len(b1) + Len(c) + Len(d)
             /\ laid(a \o b1 \o c \o d, Len(a) + Len(b1), c)
      BY LaidFour
    <2> QED
      BY <1>7, <2>1, Zenon DEF s
  <1> HIDE DEF s
  <1>5. Len(s) = 4 + last /\ laid(s, 3, us)
    <2>1. Len(uc) + Len(ur) = 3
      BY <1>7
    <2>2. Len(s) = 4 + last
      BY <1>1, <1>7, <1>4
    <2> QED
      BY <1>4, <2>1, <2>2
  <1>6. 4 + last = IF b.src = 1 THEN 5 ELSE 12
    BY <1>1 DEF last
  <1> QED
    BY <1>3, <1>4, <1>5, <1>6, Zenon DEF X, us

LEMMA EightParts ==
    ASSUME NEW X, NEW n \in Nat, NEW parts, Len(parts) = n,
           \A i \in 1 .. n : parts[i] \in Seq(X) /\ Len(parts[i]) = 8
    PROVE  /\ concat(parts) \in Seq(X) /\ Len(concat(parts)) = 8 * n
           /\ \A i \in 0 .. n - 1 : laid(concat(parts), 8 * i, parts[i + 1])
  <1>1. PICK size \in Sizes : size = 8
    BY DEF Sizes
  <1>2. \A i \in 1 .. n : parts[i] \in Seq(X)
    OBVIOUS
  <1>3. concat(parts) \in Seq(X)
    BY <1>2, ConcatLaid
  <1>4. PICK at : /\ offsets(at, n, parts) /\ Len(concat(parts)) = at[n]
                  /\ \A i \in 0 .. n - 1 : laid(concat(parts), at[i], parts[i + 1])
    BY <1>2, ConcatLaid
  <1>5. \A i \in 0 .. n : at[i] = size * i
    <2>1. \A i \in 1 .. n : Len(parts[i]) = size
      BY <1>1
    <2>2. offsets(at, n, parts)
      BY <1>4
    <2> QED
      BY <2>1, <2>2, EvenOffsets, SMTT(30)
  <1>6. \A i \in 0 .. n : at[i] = 8 * i
    BY <1>1, <1>5
  <1>7. n \in 0 .. n /\ \A i \in 0 .. n - 1 : i \in 0 .. n
    OBVIOUS
  <1> QED
    BY <1>3, <1>4, <1>6, <1>7

LEMMA TwoParts ==
    ASSUME NEW X, NEW n \in Nat, NEW parts, Len(parts) = n,
           \A i \in 1 .. n : parts[i] \in Seq(X) /\ Len(parts[i]) = 2
    PROVE  /\ concat(parts) \in Seq(X) /\ Len(concat(parts)) = 2 * n
           /\ \A i \in 0 .. n - 1 : laid(concat(parts), 2 * i, parts[i + 1])
  <1>1. PICK size \in Sizes : size = 2
    BY DEF Sizes
  <1>2. \A i \in 1 .. n : parts[i] \in Seq(X)
    OBVIOUS
  <1>3. concat(parts) \in Seq(X)
    BY <1>2, ConcatLaid
  <1>4. PICK at : /\ offsets(at, n, parts) /\ Len(concat(parts)) = at[n]
                  /\ \A i \in 0 .. n - 1 : laid(concat(parts), at[i], parts[i + 1])
    BY <1>2, ConcatLaid, ZenonT(60)
  <1>5. \A i \in 0 .. n : at[i] = size * i
    <2>1. \A i \in 1 .. n : Len(parts[i]) = size
      BY <1>1
    <2>2. offsets(at, n, parts)
      BY <1>4
    <2> QED
      BY <2>1, <2>2, EvenOffsets, SMTT(30)
  <1>6. \A i \in 0 .. n : at[i] = 2 * i
    BY <1>1, <1>5
  <1>7. n \in 0 .. n /\ \A i \in 0 .. n - 1 : i \in 0 .. n
    OBVIOUS
  <1> QED
    BY <1>3, <1>4, <1>6, <1>7

\* A tape the contract would take, field by field.
LEMMA TapeTyped ==
    ASSUME NEW tp \in Tapes
    PROVE  /\ Len(tp.ops) \in Nat /\ DOMAIN tp.ops = 1 .. Len(tp.ops)
           /\ Len(tp.outs) \in Nat /\ DOMAIN tp.outs = 1 .. Len(tp.outs)
           /\ Len(tp.bnd) \in Nat /\ DOMAIN tp.bnd = 1 .. Len(tp.bnd)
           /\ Len(tp.exempt) \in Nat /\ DOMAIN tp.exempt = 1 .. Len(tp.exempt)
           /\ \A i \in 1 .. Len(tp.ops) :
                /\ tp.ops[i] \in [k : CONST .. INV, a : Nat, b : Nat]
                /\ tp.ops[i].k >= ADD => /\ tp.ops[i].a \in 1 .. i - 1 /\ tp.ops[i].b \in 1 .. i - 1
                                         /\ tp.ops[i].k = INV => tp.ops[i].a = tp.ops[i].b
           /\ \A i \in 1 .. Len(tp.outs) : tp.outs[i] \in 1 .. Len(tp.ops)
           /\ \A i \in 1 .. Len(tp.bnd) : tp.bnd[i] \in [col : Nat, row : Nat, src : 0 .. 1, value : Nat]
           /\ \A i \in 1 .. Len(tp.exempt) : tp.exempt[i] \in Nat
           /\ tp.logT \in Nat /\ tp.frame \in Nat /\ tp.periodic \in Nat
           /\ tp.outs = [i \in 1 .. Len(tp.outs) |-> tp.outs[i]]
  <1>1. /\ tp.ops \in Seq([k : CONST .. INV, a : Nat, b : Nat]) /\ tp.outs \in Seq(DOMAIN tp.ops)
        /\ tp.bnd \in Seq([col : Nat, row : Nat, src : 0 .. 1, value : Nat]) /\ tp.exempt \in Seq(Nat)
        /\ tp.logT \in Nat /\ tp.frame \in Nat /\ tp.periodic \in Nat
    BY TapeAssumption
  <1>2. \A i \in DOMAIN tp.ops :
           tp.ops[i].k >= ADD => /\ tp.ops[i].a \in 1 .. i - 1 /\ tp.ops[i].b \in 1 .. i - 1
                                 /\ tp.ops[i].k = INV => tp.ops[i].a = tp.ops[i].b
    BY TapeAssumption
  <1>3. /\ Len(tp.ops) \in Nat /\ DOMAIN tp.ops = 1 .. Len(tp.ops)
        /\ \A i \in 1 .. Len(tp.ops) : tp.ops[i] \in [k : CONST .. INV, a : Nat, b : Nat]
    BY <1>1, Elements, Zenon
  <1>4. /\ Len(tp.outs) \in Nat /\ DOMAIN tp.outs = 1 .. Len(tp.outs)
        /\ \A i \in 1 .. Len(tp.outs) : tp.outs[i] \in DOMAIN tp.ops
    BY <1>1, Elements, Zenon
  <1>5. /\ Len(tp.bnd) \in Nat /\ DOMAIN tp.bnd = 1 .. Len(tp.bnd)
        /\ \A i \in 1 .. Len(tp.bnd) : tp.bnd[i] \in [col : Nat, row : Nat, src : 0 .. 1, value : Nat]
    BY <1>1, Elements, Zenon
  <1>6. /\ Len(tp.exempt) \in Nat /\ DOMAIN tp.exempt = 1 .. Len(tp.exempt)
        /\ \A i \in 1 .. Len(tp.exempt) : tp.exempt[i] \in Nat
    BY <1>1, Elements, Zenon
  <1>7. tp.outs = [i \in 1 .. Len(tp.outs) |-> tp.outs[i]]
    BY <1>1, <1>4
  <1> QED
    BY <1>1, <1>2, <1>3, <1>4, <1>5, <1>6, <1>7, Zenon

\* Every list of the blob, item by item.
LEMMA PartsTyped ==
    ASSUME NEW tp \in Tapes
    PROVE  LET X == Cell(tp)
           IN /\ Len(exemptParts(tp)) = Len(tp.exempt)
              /\ \A i \in 1 .. Len(tp.exempt) :
                   exemptParts(tp)[i] \in Seq(X) /\ Len(exemptParts(tp)[i]) = 8
              /\ Len(opParts(tp)) = Len(tp.ops)
              /\ \A i \in 1 .. Len(tp.ops) :
                   opParts(tp)[i] \in Seq(X) /\ opParts(tp)[i] = blobOp(tp.ops[i])
              /\ Len(outParts(tp)) = Len(tp.outs)
              /\ \A i \in 1 .. Len(tp.outs) :
                   /\ outParts(tp)[i] \in Seq(X) /\ Len(outParts(tp)[i]) = 2
                   /\ outParts(tp)[i] = u(2, tp.outs[i])
              /\ Len(rowParts(tp)) = Len(rowsOf(tp.bnd)) /\ Len(rowsOf(tp.bnd)) \in Nat
              /\ \A i \in 1 .. Len(rowsOf(tp.bnd)) :
                   rowParts(tp)[i] \in Seq(X) /\ Len(rowParts(tp)[i]) = 8
              /\ Len(bndParts(tp)) = Len(tp.bnd)
              /\ \A i \in 1 .. Len(tp.bnd) :
                   bndParts(tp)[i] \in Seq(X) /\ bndParts(tp)[i] = blobBoundary(tp.bnd, tp.bnd[i])
  <1> DEFINE V == Value(tp)
             X == [w : Nat, v : V]
             rows == rowsOf(tp.bnd)
  <1>1. /\ Nat \subseteq V /\ 0 \in V /\ \A r \in Nat : pow(r) \in V
        /\ \A i \in 1 .. Len(tp.bnd) : row_idx(tp.bnd, tp.bnd[i].row) \in V
    BY TapeTyped DEF Value
  <1>2. rows \in Seq(Nat)
    BY RowsAreRows
  <1>3. Len(rows) \in Nat /\ DOMAIN rows = 1 .. Len(rows) /\ \A i \in 1 .. Len(rows) : rows[i] \in Nat
    BY <1>2, Elements
  <1> HIDE DEF rows, V
  <1>4. \A n \in Nat \ {0}, v \in V : u(n, v) \in Seq(X) /\ Len(u(n, v)) = n
    BY <1>1, FieldStands, Zenon
  <1>5. 2 \in Nat \ {0} /\ 8 \in Nat \ {0}
    OBVIOUS
  <1> DEFINE ne == Len(tp.exempt)
             no == Len(tp.ops)
             nt == Len(tp.outs)
             nb == Len(tp.bnd)
  <1>6. /\ ne \in Nat /\ DOMAIN tp.exempt = 1 .. ne /\ no \in Nat /\ DOMAIN tp.ops = 1 .. no
        /\ nt \in Nat /\ DOMAIN tp.outs = 1 .. nt /\ nb \in Nat /\ DOMAIN tp.bnd = 1 .. nb
    BY TapeTyped
  <1>7. /\ \A i \in 1 .. ne : tp.exempt[i] \in Nat
        /\ \A i \in 1 .. no : tp.ops[i] \in [k : CONST .. INV, a : Nat, b : Nat]
        /\ \A i \in 1 .. nt : tp.outs[i] \in 1 .. no
        /\ \A i \in 1 .. nb : tp.bnd[i] \in [col : Nat, row : Nat, src : 0 .. 1, value : Nat]
    BY TapeTyped
  <1> HIDE DEF ne, no, nt, nb, X
  <1>8. /\ Len(exemptParts(tp)) = ne /\ Len(opParts(tp)) = no /\ Len(outParts(tp)) = nt
        /\ Len(rowParts(tp)) = Len(rows) /\ Len(bndParts(tp)) = nb
    BY <1>3, <1>6 DEF exemptParts, opParts, outParts, rowParts, bndParts, rows
  <1>9. ASSUME NEW i \in 1 .. ne
        PROVE  exemptParts(tp)[i] \in Seq(X) /\ Len(exemptParts(tp)[i]) = 8
    <2>1. exemptParts(tp)[i] = u(8, pow(tp.exempt[i]))
      BY <1>6 DEF exemptParts
    <2>2. pow(tp.exempt[i]) \in V
      BY <1>1, <1>7, Zenon
    <2> QED
      BY <1>4, <1>5, <2>1, <2>2, Zenon
  <1>10. ASSUME NEW i \in 1 .. no
         PROVE  opParts(tp)[i] \in Seq(X) /\ opParts(tp)[i] = blobOp(tp.ops[i])
    <2>1. opParts(tp)[i] = blobOp(tp.ops[i])
      BY <1>6 DEF opParts
    <2>2. blobOp(tp.ops[i]) \in Seq(X)
      BY <1>1, <1>7, OpBytes DEF X
    <2> QED
      BY <2>1, <2>2
  <1>11. ASSUME NEW i \in 1 .. nt
         PROVE  /\ outParts(tp)[i] \in Seq(X) /\ Len(outParts(tp)[i]) = 2
                /\ outParts(tp)[i] = u(2, tp.outs[i])
    <2>1. outParts(tp)[i] = u(2, tp.outs[i])
      BY <1>6 DEF outParts
    <2>2. tp.outs[i] \in V
      <3>1. tp.outs[i] \in Nat
        BY <1>6, <1>7
      <3> QED
        BY <1>1, <3>1
    <2> QED
      BY <1>4, <1>5, <2>1, <2>2, Zenon
  <1>12. ASSUME NEW i \in 1 .. Len(rows)
         PROVE  rowParts(tp)[i] \in Seq(X) /\ Len(rowParts(tp)[i]) = 8
    <2>1. rowParts(tp)[i] = u(8, pow(rows[i]))
      BY <1>3 DEF rowParts, rows
    <2>2. pow(rows[i]) \in V
      BY <1>1, <1>3, Zenon
    <2> QED
      BY <1>4, <1>5, <2>1, <2>2, Zenon
  <1>13. ASSUME NEW i \in 1 .. nb
         PROVE  bndParts(tp)[i] \in Seq(X) /\ bndParts(tp)[i] = blobBoundary(tp.bnd, tp.bnd[i])
    <2>1. bndParts(tp)[i] = blobBoundary(tp.bnd, tp.bnd[i])
      BY <1>6 DEF bndParts
    <2>2. row_idx(tp.bnd, tp.bnd[i].row) \in V
      BY <1>1 DEF nb
    <2>3. blobBoundary(tp.bnd, tp.bnd[i]) \in Seq(X)
      BY <1>1, <1>7, <2>2, BoundaryBytes DEF X
    <2> QED
      BY <2>1, <2>3
  <1>14. X = Cell(tp)
    BY DEF X, V, Cell
  <1> QED
    BY <1>3, <1>8, <1>9, <1>10, <1>11, <1>12, <1>13, <1>14, Zenon DEF ne, no, nt, nb, rows

opsFrom(tp) == 14 + 8 * Len(tp.exempt)
outsFrom(tp) == opsFrom(tp) + Len(concat(opParts(tp)))
rowsFrom(tp) == outsFrom(tp) + 2 * Len(tp.outs)
bndFrom(tp) == rowsFrom(tp) + 8 * Len(rowsOf(tp.bnd))

\* Where everything stands in a blob.
LEMMA BlobLayout ==
    ASSUME NEW tp \in Tapes
    PROVE  LET prog == blob(tp)
           IN /\ prog \in Seq(Cell(tp))
              /\ laid(prog, 0, u(2, Len(tp.ops))) /\ laid(prog, 2, u(2, Len(tp.outs)))
              /\ laid(prog, 4, u(2, Len(tp.bnd))) /\ laid(prog, 6, u(2, Len(rowsOf(tp.bnd))))
              /\ laid(prog, 13, u(1, Len(tp.exempt)))
              /\ laid(prog, opsFrom(tp), concat(opParts(tp)))
              /\ laid(prog, outsFrom(tp), concat(outParts(tp)))
              /\ laid(prog, bndFrom(tp), concat(bndParts(tp)))
              /\ Len(prog) = bndFrom(tp) + Len(concat(bndParts(tp)))
              /\ opsFrom(tp) \in Nat /\ outsFrom(tp) \in Nat /\ rowsFrom(tp) \in Nat /\ bndFrom(tp) \in Nat
              /\ Len(concat(opParts(tp))) \in Nat /\ Len(concat(bndParts(tp))) \in Nat
              /\ concat(opParts(tp)) \in Seq(Cell(tp)) /\ concat(outParts(tp)) \in Seq(Cell(tp))
              /\ concat(bndParts(tp)) \in Seq(Cell(tp)) /\ Len(concat(outParts(tp))) = 2 * Len(tp.outs)
  <1> DEFINE X == Cell(tp)
             no == Len(tp.ops)
             nt == Len(tp.outs)
             nb == Len(tp.bnd)
             nr == Len(rowsOf(tp.bnd))
             ne == Len(tp.exempt)
             E == concat(exemptParts(tp))
             O == concat(opParts(tp))
             T == concat(outParts(tp))
             R == concat(rowParts(tp))
             B == concat(bndParts(tp))
  <1>1. /\ no \in Nat /\ nt \in Nat /\ nb \in Nat /\ nr \in Nat /\ ne \in Nat
        /\ tp.frame \in Nat /\ tp.periodic \in Nat /\ tp.logT \in Nat
    BY TapeTyped, PartsTyped
  <1>3. E \in Seq(X) /\ Len(E) = 8 * ne
    <2>1. Len(exemptParts(tp)) = ne /\ \A i \in 1 .. ne : exemptParts(tp)[i] \in Seq(X) /\ Len(exemptParts(tp)[i]) = 8
      BY PartsTyped
    <2> HIDE DEF X, ne
    <2> QED
      BY <1>1, <2>1, EightParts
  <1>4. O \in Seq(X)
    <2>1. Len(opParts(tp)) = no /\ \A i \in 1 .. no : opParts(tp)[i] \in Seq(X)
      BY PartsTyped
    <2> HIDE DEF X, no
    <2> QED
      BY <1>1, <2>1, ConcatLaid
  <1>5. T \in Seq(X) /\ Len(T) = 2 * nt
    <2>1. Len(outParts(tp)) = nt /\ \A i \in 1 .. nt : outParts(tp)[i] \in Seq(X) /\ Len(outParts(tp)[i]) = 2
      BY PartsTyped
    <2> HIDE DEF X, nt
    <2> QED
      BY <1>1, <2>1, TwoParts
  <1>6. R \in Seq(X) /\ Len(R) = 8 * nr
    <2>1. Len(rowParts(tp)) = nr /\ \A i \in 1 .. nr : rowParts(tp)[i] \in Seq(X) /\ Len(rowParts(tp)[i]) = 8
      BY PartsTyped
    <2> HIDE DEF X, nr
    <2> QED
      BY <1>1, <2>1, EightParts
  <1>7. B \in Seq(X)
    <2>1. Len(bndParts(tp)) = nb /\ \A i \in 1 .. nb : bndParts(tp)[i] \in Seq(X)
      BY PartsTyped
    <2> HIDE DEF X, nb
    <2> QED
      BY <1>1, <2>1, ConcatLaid
  <1>8. \A n \in Nat \ {0}, v \in Nat : u(n, v) \in Seq(X) /\ Len(u(n, v)) = n
    <2> DEFINE V == Value(tp)
    <2>1. 0 \in V /\ Nat \subseteq V
      BY DEF Value
    <2> HIDE DEF V
    <2>2. \A n \in Nat \ {0}, v \in V : u(n, v) \in Seq([w : Nat, v : V]) /\ Len(u(n, v)) = n
      BY <2>1, FieldStands, Zenon
    <2>3. X = [w : Nat, v : V]
      BY DEF V, Cell
    <2> QED
      BY <2>1, <2>2, <2>3
  <1> DEFINE p1 == u(2, no)
             p2 == u(2, nt)
             p3 == u(2, nb)
             p4 == u(2, nr)
             p5 == u(2, tp.frame)
             p6 == u(2, tp.periodic)
             p7 == u(1, tp.logT)
             p8 == u(1, ne)
             parts == <<p1, p2, p3, p4, p5, p6, p7, p8, E, O, T, R, B>>
  <1>9. /\ p1 \in Seq(X) /\ p2 \in Seq(X) /\ p3 \in Seq(X) /\ p4 \in Seq(X) /\ p5 \in Seq(X)
        /\ p6 \in Seq(X) /\ p7 \in Seq(X) /\ p8 \in Seq(X)
        /\ Len(p1) = 2 /\ Len(p2) = 2 /\ Len(p3) = 2 /\ Len(p4) = 2 /\ Len(p5) = 2 /\ Len(p6) = 2
        /\ Len(p7) = 1 /\ Len(p8) = 1
    <2>1. 1 \in Nat \ {0} /\ 2 \in Nat \ {0}
      OBVIOUS
    <2> HIDE DEF X, no, nt, nb, nr, ne
    <2> QED
      BY <1>1, <1>8, <2>1, Zenon
  <1>10. blob(tp) = p1 \o p2 \o p3 \o p4 \o p5 \o p6 \o p7 \o p8 \o E \o O \o T \o R \o B
    BY DEF blob, exemptParts, opParts, outParts, rowParts, bndParts
  <1> HIDE DEF X, E, O, T, R, B, p1, p2, p3, p4, p5, p6, p7, p8, no, nt, nb, nr, ne
  <1>12. /\ parts[1] = p1 /\ parts[2] = p2 /\ parts[3] = p3 /\ parts[4] = p4 /\ parts[5] = p5
         /\ parts[6] = p6 /\ parts[7] = p7 /\ parts[8] = p8 /\ parts[9] = E /\ parts[10] = O
         /\ parts[11] = T /\ parts[12] = R /\ parts[13] = B /\ Len(parts) = 13
    OBVIOUS
  <1> HIDE DEF parts
  <1>11. blob(tp) = concat(parts)
    <2>1. concat(parts)
            = parts[1] \o parts[2] \o parts[3] \o parts[4] \o parts[5] \o parts[6] \o parts[7] \o parts[8]
              \o parts[9] \o parts[10] \o parts[11] \o parts[12] \o parts[13]
      <3>1. parts[1] \in Seq(X)
        BY <1>9, <1>12, Zenon
      <3> QED
        BY <1>12, <3>1, ThirteenParts
    <2> QED
      BY <1>10, <1>12, <2>1, Zenon
  <1>13. PICK n \in Nat : n = 13
    OBVIOUS
  <1>14. Len(parts) = n /\ \A i \in 1 .. n : parts[i] \in Seq(X)
    <2>1. \A i \in 1 .. 13 : i \in {1, 2, 3, 4, 5, 6, 7, 8, 9, 10, 11, 12, 13}
      OBVIOUS
    <2> QED
      BY <1>3, <1>4, <1>5, <1>6, <1>7, <1>9, <1>12, <1>13, <2>1
  <1>15. concat(parts) \in Seq(X)
    BY <1>14, ConcatLaid
  <1>16. PICK at : /\ offsets(at, n, parts) /\ Len(concat(parts)) = at[n]
                   /\ \A i \in 0 .. n - 1 : laid(concat(parts), at[i], parts[i + 1])
    BY <1>14, ConcatLaid
  <1>17. /\ at[0] = 0
         /\ \A i \in 0 .. 12 : at[i + 1] = at[i] + Len(parts[i + 1]) /\ laid(blob(tp), at[i], parts[i + 1])
         /\ Len(blob(tp)) = at[13]
    <2>1. n - 1 = 12
      BY <1>13
    <2> QED
      BY <1>11, <1>13, <1>16, <2>1, Zenon DEF offsets
  <1> DEFINE step(i, j) == at[j] = at[i] + Len(parts[j]) /\ laid(blob(tp), at[i], parts[j])
  <1>18. /\ step(0, 1) /\ step(1, 2) /\ step(2, 3) /\ step(3, 4) /\ step(4, 5) /\ step(5, 6) /\ step(6, 7)
         /\ step(7, 8) /\ step(8, 9) /\ step(9, 10) /\ step(10, 11) /\ step(11, 12) /\ step(12, 13)
    <2>1. \A i \in 0 .. 12 : step(i, i + 1)
      BY <1>17
    <2> HIDE DEF step
    <2>2. /\ step(0, 0 + 1) /\ step(1, 1 + 1) /\ step(2, 2 + 1) /\ step(3, 3 + 1) /\ step(4, 4 + 1)
          /\ step(5, 5 + 1) /\ step(6, 6 + 1) /\ step(7, 7 + 1) /\ step(8, 8 + 1) /\ step(9, 9 + 1)
          /\ step(10, 10 + 1) /\ step(11, 11 + 1) /\ step(12, 12 + 1)
      BY <2>1
    <2> QED
      BY <2>2
  <1>19. Len(O) \in Nat /\ Len(B) \in Nat
    BY <1>4, <1>7
  <1>20. /\ at[1] = 2 /\ at[2] = 4 /\ at[3] = 6 /\ at[4] = 8 /\ at[5] = 10 /\ at[6] = 12 /\ at[7] = 13
         /\ at[8] = 14 /\ at[9] = 14 + 8 * ne /\ at[10] = 14 + 8 * ne + Len(O)
         /\ at[11] = 14 + 8 * ne + Len(O) + 2 * nt
         /\ at[12] = 14 + 8 * ne + Len(O) + 2 * nt + 8 * nr
         /\ at[13] = 14 + 8 * ne + Len(O) + 2 * nt + 8 * nr + Len(B)
    BY <1>1, <1>3, <1>5, <1>6, <1>9, <1>12, <1>17, <1>18, <1>19
  <1>21. /\ laid(blob(tp), 0, p1) /\ laid(blob(tp), 2, p2) /\ laid(blob(tp), 4, p3) /\ laid(blob(tp), 6, p4)
         /\ laid(blob(tp), 13, p8) /\ laid(blob(tp), at[9], O) /\ laid(blob(tp), at[10], T)
         /\ laid(blob(tp), at[12], B)
    BY <1>12, <1>17, <1>18, <1>20, Zenon
  <1>22. /\ opsFrom(tp) = at[9] /\ outsFrom(tp) = at[10] /\ rowsFrom(tp) = at[11] /\ bndFrom(tp) = at[12]
         /\ at[9] \in Nat /\ at[10] \in Nat /\ at[11] \in Nat /\ at[12] \in Nat
    <2>1. opsFrom(tp) = 14 + 8 * ne
      BY DEF opsFrom, ne
    <2>2. outsFrom(tp) = opsFrom(tp) + Len(O)
      BY DEF outsFrom, O
    <2>3. rowsFrom(tp) = outsFrom(tp) + 2 * nt
      BY DEF rowsFrom, nt
    <2>4. bndFrom(tp) = rowsFrom(tp) + 8 * nr
      BY DEF bndFrom, nr
    <2>5. opsFrom(tp) = at[9] /\ outsFrom(tp) = at[10]
      BY <1>20, <2>1, <2>2, Zenon
    <2>6. rowsFrom(tp) = at[11] /\ bndFrom(tp) = at[12]
      BY <1>20, <2>3, <2>4, <2>5, Zenon
    <2>7. /\ 14 + 8 * ne \in Nat /\ 14 + 8 * ne + Len(O) \in Nat
          /\ 14 + 8 * ne + Len(O) + 2 * nt \in Nat /\ 14 + 8 * ne + Len(O) + 2 * nt + 8 * nr \in Nat
      BY <1>1, <1>19
    <2>8. at[9] \in Nat /\ at[10] \in Nat /\ at[11] \in Nat /\ at[12] \in Nat
      BY <1>20, <2>7, Zenon
    <2> QED
      BY <2>5, <2>6, <2>8
  <1>23. Len(blob(tp)) = bndFrom(tp) + Len(B)
    BY <1>17, <1>18, <1>12, <1>22
  <1>24. blob(tp) \in Seq(X)
    BY <1>11, <1>15
  <1> QED
    BY <1>4, <1>5, <1>7, <1>19, <1>21, <1>22, <1>23, <1>24, Zenon DEF X, no, nt, nb, nr, ne, O, T, B, p1, p2, p3, p4, p8

LEMMA ParseStepByStep ==
    ASSUME NEW prog, unpack(prog, 0, 2) \in Nat
    PROVE  LET n == unpack(prog, 0, 2)
           IN \E g : /\ g[0] = [ops |-> <<>>, next |-> 14 + 8 * unpack(prog, 13, 1)]
                     /\ \A i \in 0 .. n - 1 :
                          g[i + 1] = [ops |-> Append(g[i].ops, opAt(prog, g[i].next).op),
                                      next |-> opAt(prog, g[i].next).next]
                     /\ parse(prog) = [ops |-> g[n].ops,
                                       outs |-> [i \in 1 .. unpack(prog, 2, 2) |->
                                                   unpack(prog, g[n].next + 2 * (i - 1), 2)],
                                       end |-> g[n].next + 2 * unpack(prog, 2, 2)]
  <1> DEFINE n == unpack(prog, 0, 2)
             base == [ops |-> <<>>, next |-> 14 + 8 * unpack(prog, 13, 1)]
             rec(f) == [i \in 0 .. n |->
                          IF i = 0 THEN base
                          ELSE LET before == f[i - 1]
                                   met == opAt(prog, before.next)
                               IN [ops |-> Append(before.ops, met.op), next |-> met.next]]
             a == CHOOSE f : f = rec(f)
  <1>0. n \in Nat
    OBVIOUS
  <1>1. PICK g : runs(g, n, "parse", prog, base)
    BY RunsExist, Zenon
  <1>2. \A f : runs(f, n, "parse", prog, base) <=> f = rec(f)
    BY DEF runs, next
  <1>3. parse(prog) = [ops |-> a[n].ops,
                       outs |-> [i \in 1 .. unpack(prog, 2, 2) |->
                                   unpack(prog, a[n].next + 2 * (i - 1), 2)],
                       end |-> a[n].next + 2 * unpack(prog, 2, 2)]
    BY DEF parse
  <1>4. a = rec(a)
    <2> HIDE DEF rec
    <2> QED
      BY <1>1, <1>2
  <1>5. runs(a, n, "parse", prog, base)
    <2> HIDE DEF rec, a
    <2> QED
      BY <1>2, <1>4
  <1> HIDE DEF a, base, n
  <1>6. a[0] = base /\ \A i \in 0 .. n - 1 : a[i + 1] = next("parse", prog, i + 1, a[i])
    BY <1>0, <1>5, RunSteps
  <1>7. \A i \in 0 .. n - 1 :
           a[i + 1] = [ops |-> Append(a[i].ops, opAt(prog, a[i].next).op),
                       next |-> opAt(prog, a[i].next).next]
    BY <1>6 DEF next
  <1> QED
    BY <1>3, <1>6, <1>7 DEF base, n

LEMMA SplitStepByStep ==
    ASSUME NEW n \in Nat, NEW prog, unpack(prog, 0, 2) = n
    PROVE  \E g : /\ g[0] = 14 + 8 * unpack(prog, 13, 1)
                  /\ \A i \in 0 .. n - 1 : g[i + 1] = g[i] + OP_LEN[unpack(prog, g[i], 1) + 1]
                  /\ split(prog) = g[n] + 2 * unpack(prog, 2, 2)
  <1> DEFINE base == 14 + 8 * unpack(prog, 13, 1)
             rec(f) == [i \in 0 .. n |->
                          IF i = 0 THEN base ELSE f[i - 1] + OP_LEN[unpack(prog, f[i - 1], 1) + 1]]
             a == CHOOSE f : f = rec(f)
  <1>1. PICK g : runs(g, n, "split", prog, base)
    BY RunsExist
  <1>2. \A f : runs(f, n, "split", prog, base) <=> f = rec(f)
    BY DEF runs, next
  <1>3. split(prog) = a[n] + 2 * unpack(prog, 2, 2)
    BY DEF split
  <1>4. a = rec(a)
    <2> HIDE DEF rec
    <2> QED
      BY <1>1, <1>2
  <1>5. runs(a, n, "split", prog, base)
    <2> HIDE DEF rec, a
    <2> QED
      BY <1>2, <1>4
  <1> HIDE DEF a, base
  <1>6. a[0] = base /\ \A i \in 0 .. n - 1 : a[i + 1] = next("split", prog, i + 1, a[i])
    BY <1>5, RunSteps
  <1>7. \A i \in 0 .. n - 1 : a[i + 1] = a[i] + OP_LEN[unpack(prog, a[i], 1) + 1]
    BY <1>6 DEF next
  <1> QED
    BY <1>3, <1>6, <1>7 DEF base

\* The boundaries at the offsets g that read a public word.
public(bnd, g, n) == {j \in 0 .. n - 1 : unpack(bnd, g[j] + 3, 1) = 1}

LEMMA PinsStepByStep ==
    ASSUME NEW n \in Nat, NEW bnd, NEW rows
    PROVE  \E g : /\ g[0] = 8 * rows
                  /\ \A j \in 0 .. n - 1 :
                       g[j + 1] = g[j] + (IF unpack(bnd, g[j] + 3, 1) = 1 THEN 5 ELSE 12)
                  /\ pins(bnd, n, rows).public = public(bnd, g, n) /\ pins(bnd, n, rows).end = g[n]
  <1> DEFINE base == 8 * rows
             rec(f) == [j \in 0 .. n |->
                          IF j = 0 THEN base
                          ELSE f[j - 1] + (IF unpack(bnd, f[j - 1] + 3, 1) = 1 THEN 5 ELSE 12)]
             a == CHOOSE f : f = rec(f)
  <1>1. PICK g : runs(g, n, "pins", bnd, base)
    BY RunsExist
  <1>2. \A f : runs(f, n, "pins", bnd, base) <=> f = rec(f)
    BY DEF runs, next
  <1>3. pins(bnd, n, rows).public = public(bnd, a, n) /\ pins(bnd, n, rows).end = a[n]
    BY DEF pins, public
  <1>4. a = rec(a)
    <2> HIDE DEF rec
    <2> QED
      BY <1>1, <1>2
  <1>5. runs(a, n, "pins", bnd, base)
    <2> HIDE DEF rec, a
    <2> QED
      BY <1>2, <1>4
  <1> HIDE DEF a, base
  <1>6. a[0] = base /\ \A j \in 0 .. n - 1 : a[j + 1] = next("pins", bnd, j + 1, a[j])
    BY <1>5, RunSteps
  <1>7. \A j \in 0 .. n - 1 : a[j + 1] = a[j] + (IF unpack(bnd, a[j] + 3, 1) = 1 THEN 5 ELSE 12)
    BY <1>6 DEF next
  <1> QED
    BY <1>3, <1>6, <1>7 DEF base

\* An op as the readers see it: a constant without its value, and the operand of an
\* inversion or an input twice.
asRead(o) == [k |-> o.k, a |-> IF o.k = CONST THEN 0 ELSE o.a,
              b |-> IF o.k = CONST THEN 0 ELSE IF o.k \in {INPUT, INV} THEN o.a ELSE o.b]

LEMMA OpReadsBack ==
    ASSUME NEW V, Nat \subseteq V, NEW prog \in Seq([w : Nat, v : V]),
           NEW o \in [k : CONST .. INV, a : Nat, b : Nat], NEW p \in Nat, laid(prog, p, blobOp(o))
    PROVE  /\ opAt(prog, p) = [op |-> asRead(o), next |-> p + Len(blobOp(o))]
           /\ OP_LEN[unpack(prog, p, 1) + 1] = Len(blobOp(o))
  <1> DEFINE s == blobOp(o)
             X == [w : Nat, v : V]
  <1>1. /\ o.k \in 0 .. 5 /\ o.k \in V /\ o.a \in V /\ o.b \in V /\ 0 \in V /\ o.k \in Nat
        /\ 1 \in Nat \ {0} /\ 2 \in Nat \ {0} /\ 0 \in Nat /\ 1 \in Nat /\ 3 \in Nat
    BY DEF CONST, INV
  <1>2. /\ s \in Seq(X) /\ laid(s, 0, u(1, o.k))
        /\ o.k = CONST => Len(s) = 17
        /\ o.k \in {INPUT, INV} => Len(s) = 3 /\ laid(s, 1, u(2, o.a))
        /\ o.k \in {ADD, SUB, MUL} => Len(s) = 5 /\ laid(s, 1, u(2, o.a)) /\ laid(s, 3, u(2, o.b))
    BY OpBytes
  <1>3. \A n \in Nat \ {0}, v \in V : u(n, v) \in Seq(X)
    BY <1>1, FieldStands
  <1> HIDE DEF s, X
  <1>4. prog \in Seq(X) /\ laid(prog, p, s)
    BY DEF s, X
  <1>5. ASSUME NEW q \in Nat, NEW n \in Nat \ {0}, NEW v \in V, laid(s, q, u(n, v))
        PROVE  unpack(prog, p + q, n) = v
    <2>1. u(n, v) \in Seq(X)
      BY <1>3
    <2>2. laid(prog, p + q, u(n, v))
      BY <1>2, <1>4, <1>5, <2>1, LaidWithin
    <2>3. p + q \in Nat
      OBVIOUS
    <2> QED
      BY <1>1, <2>2, <2>3, FieldReads, Zenon
  <1>6. unpack(prog, p, 1) = o.k
    <2>1. unpack(prog, p + 0, 1) = o.k
      BY <1>1, <1>2, <1>5, Zenon
    <2>2. p + 0 = p
      OBVIOUS
    <2> QED
      BY <2>1, <2>2
  <1>7. CASE o.k = CONST
    <2>1. opAt(prog, p) = [op |-> [k |-> o.k, a |-> 0, b |-> 0], next |-> p + 17]
      BY <1>6, <1>7 DEF opAt, CONST, INPUT, INV
    <2>2. asRead(o) = [k |-> o.k, a |-> 0, b |-> 0]
      BY <1>7 DEF asRead
    <2>3. OP_LEN[o.k + 1] = 17
      BY <1>7 DEF OP_LEN, CONST
    <2> QED
      BY <1>2, <1>6, <1>7, <2>1, <2>2, <2>3 DEF s
  <1>8. CASE o.k \in {INPUT, INV}
    <2>0. o.k # CONST
      BY <1>8 DEF CONST, INPUT, INV
    <2>1. unpack(prog, p + 1, 2) = o.a
      BY <1>1, <1>2, <1>5, <1>8, Zenon
    <2>2. opAt(prog, p) = [op |-> [k |-> o.k, a |-> o.a, b |-> o.a], next |-> p + 3]
      BY <1>6, <1>8, <2>0, <2>1 DEF opAt
    <2>3. asRead(o) = [k |-> o.k, a |-> o.a, b |-> o.a]
      BY <1>8, <2>0 DEF asRead
    <2>4. OP_LEN[o.k + 1] = 3
      BY <1>8 DEF OP_LEN, INPUT, INV
    <2> QED
      BY <1>2, <1>6, <1>8, <2>2, <2>3, <2>4 DEF s
  <1>9. CASE o.k \in {ADD, SUB, MUL}
    <2>0. o.k # CONST /\ o.k \notin {INPUT, INV}
      BY <1>9 DEF CONST, INPUT, INV, ADD, SUB, MUL
    <2>1. unpack(prog, p + 1, 2) = o.a /\ unpack(prog, p + 3, 2) = o.b
      BY <1>1, <1>2, <1>5, <1>9, Zenon
    <2>2. opAt(prog, p) = [op |-> [k |-> o.k, a |-> o.a, b |-> o.b], next |-> p + 5]
      BY <1>6, <2>0, <2>1 DEF opAt
    <2>3. asRead(o) = [k |-> o.k, a |-> o.a, b |-> o.b]
      BY <2>0 DEF asRead
    <2>4. OP_LEN[o.k + 1] = 5
      BY <1>9 DEF OP_LEN, ADD, SUB, MUL
    <2> QED
      BY <1>2, <1>6, <1>9, <2>2, <2>3, <2>4 DEF s
  <1> QED
    <2>1. o.k = CONST \/ o.k \in {INPUT, INV} \/ o.k \in {ADD, SUB, MUL}
      BY <1>1 DEF CONST, INPUT, INV, ADD, SUB, MUL
    <2> QED
      BY <1>7, <1>8, <1>9, <2>1

\* The transition part: the parser's ops and outputs, and where parser and splitter
\* take it to end.
LEMMA TransitionReadsBack ==
    ASSUME NEW tp \in Tapes
    PROVE  LET back == parse(blob(tp))
           IN /\ back.ops = [i \in 1 .. Len(tp.ops) |-> asRead(tp.ops[i])]
              /\ Len(back.ops) = Len(tp.ops)
              /\ back.outs = tp.outs
              /\ back.end = rowsFrom(tp) /\ split(blob(tp)) = rowsFrom(tp)
  <1> DEFINE prog == blob(tp)
             no == Len(tp.ops)
             nt == Len(tp.outs)
             ne == Len(tp.exempt)
             V == Value(tp)
             X == [w : Nat, v : V]
             O == concat(opParts(tp))
             T == concat(outParts(tp))
             from == opsFrom(tp)
  <1>1. Nat \subseteq V /\ 0 \in V /\ X = Cell(tp)
    BY DEF Value, Cell
  <1>2. /\ no \in Nat /\ nt \in Nat /\ ne \in Nat
        /\ \A i \in 1 .. no : tp.ops[i] \in [k : CONST .. INV, a : Nat, b : Nat]
        /\ \A i \in 1 .. nt : tp.outs[i] \in Nat
        /\ tp.outs = [i \in 1 .. nt |-> tp.outs[i]]
    <2>1. \A i \in 1 .. nt : tp.outs[i] \in 1 .. no
      BY TapeTyped
    <2>2. \A i \in 1 .. nt : tp.outs[i] \in Nat
      BY <2>1
    <2> QED
      BY <2>2, TapeTyped
  <1>3. /\ prog \in Seq(X)
        /\ laid(prog, 0, u(2, no)) /\ laid(prog, 2, u(2, nt)) /\ laid(prog, 13, u(1, ne))
        /\ laid(prog, from, O) /\ laid(prog, outsFrom(tp), T)
        /\ from \in Nat /\ outsFrom(tp) \in Nat /\ O \in Seq(X) /\ T \in Seq(X)
    BY <1>1, BlobLayout
  <1> HIDE DEF prog, V
  <1>4. unpack(prog, 0, 2) = no /\ unpack(prog, 2, 2) = nt /\ unpack(prog, 13, 1) = ne
    <2>1. /\ 0 \in Nat /\ 2 \in Nat /\ 13 \in Nat /\ 1 \in Nat \ {0} /\ 2 \in Nat \ {0}
          /\ no \in V /\ nt \in V /\ ne \in V
      BY <1>1, <1>2
    <2> HIDE DEF no, nt, ne
    <2> QED
      BY <1>1, <1>3, <2>1, FieldReads, Zenon
  <1>5. /\ Len(opParts(tp)) = no
        /\ \A i \in 1 .. no : opParts(tp)[i] \in Seq(X) /\ opParts(tp)[i] = blobOp(tp.ops[i])
        /\ Len(outParts(tp)) = nt
        /\ \A i \in 1 .. nt : /\ outParts(tp)[i] \in Seq(X) /\ Len(outParts(tp)[i]) = 2
                              /\ outParts(tp)[i] = u(2, tp.outs[i])
    BY <1>1, PartsTyped
  <1> HIDE DEF X
  <1>6. PICK at : /\ offsets(at, no, opParts(tp)) /\ Len(O) = at[no]
                  /\ \A i \in 0 .. no - 1 : laid(O, at[i], opParts(tp)[i + 1])
    <2> DEFINE parts == opParts(tp)
    <2>1. Len(parts) = no /\ \A i \in 1 .. no : parts[i] \in Seq(X)
      BY <1>5
    <2> HIDE DEF no, parts
    <2>2. \E at : /\ offsets(at, no, parts) /\ Len(concat(parts)) = at[no]
                  /\ \A i \in 0 .. no - 1 : laid(concat(parts), at[i], parts[i + 1])
      BY <1>2, <2>1, ConcatLaid, ZenonT(40)
    <2> QED
      BY <2>2 DEF parts
  <1> HIDE DEF O, T, from, no, nt, ne
  <1>7. /\ at \in [0 .. no -> Nat] /\ at[0] = 0
        /\ \A i \in 0 .. no - 1 : at[i + 1] = at[i] + Len(opParts(tp)[i + 1])
    BY <1>6 DEF offsets
  <1>8. ASSUME NEW i \in 0 .. no - 1
        PROVE  /\ opAt(prog, from + at[i]) = [op |-> asRead(tp.ops[i + 1]), next |-> from + at[i + 1]]
               /\ from + at[i + 1] = (from + at[i]) + OP_LEN[unpack(prog, from + at[i], 1) + 1]
    <2>1. i + 1 \in 1 .. no /\ i \in 0 .. no
      BY <1>2
    <2> DEFINE o == tp.ops[i + 1]
               s == opParts(tp)[i + 1]
               p == from + at[i]
    <2>2. o \in [k : CONST .. INV, a : Nat, b : Nat] /\ s \in Seq(X) /\ s = blobOp(o)
      BY <1>2, <1>5, <2>1
    <2>3. at[i] \in Nat /\ p \in Nat /\ Len(s) \in Nat /\ at[i + 1] = at[i] + Len(s)
      <3>1. at[i] \in Nat
        BY <1>7, <2>1
      <3>2. Len(s) \in Nat
        BY <2>2
      <3>3. at[i + 1] = at[i] + Len(s)
        BY <1>7
      <3>4. p \in Nat
        BY <1>3, <3>1
      <3> QED
        BY <3>1, <3>2, <3>3, <3>4, Zenon
    <2>4. laid(O, at[i], s)
      BY <1>6
    <2> HIDE DEF s, p, o
    <2>5. laid(prog, p, s)
      BY <1>3, <2>2, <2>3, <2>4, LaidWithin DEF p
    <2>6. /\ opAt(prog, p) = [op |-> asRead(o), next |-> p + Len(s)]
          /\ OP_LEN[unpack(prog, p, 1) + 1] = Len(s)
      BY <1>1, <1>3, <2>2, <2>3, <2>5, OpReadsBack DEF X
    <2>7. from + at[i + 1] = p + Len(s)
      BY <1>3, <2>3 DEF p
    <2>8. /\ opAt(prog, p) = [op |-> asRead(o), next |-> from + at[i + 1]]
          /\ from + at[i + 1] = p + OP_LEN[unpack(prog, p, 1) + 1]
      BY <2>6, <2>7
    <2> QED
      BY <2>8 DEF p, o
  <1>9. from = 14 + 8 * ne /\ rowsFrom(tp) = from + at[no] + 2 * nt /\ outsFrom(tp) = from + at[no]
    BY <1>6 DEF from, O, opsFrom, outsFrom, rowsFrom, ne, nt
  <1>10. PICK g : /\ g[0] = [ops |-> <<>>, next |-> 14 + 8 * ne]
                  /\ \A i \in 0 .. no - 1 :
                       g[i + 1] = [ops |-> Append(g[i].ops, opAt(prog, g[i].next).op),
                                   next |-> opAt(prog, g[i].next).next]
                  /\ parse(prog) = [ops |-> g[no].ops,
                                    outs |-> [i \in 1 .. nt |-> unpack(prog, g[no].next + 2 * (i - 1), 2)],
                                    end |-> g[no].next + 2 * nt]
    <2>1. unpack(prog, 0, 2) \in Nat
      BY <1>2, <1>4
    <2> DEFINE n == unpack(prog, 0, 2)
    <2>2. \E g : /\ g[0] = [ops |-> <<>>, next |-> 14 + 8 * unpack(prog, 13, 1)]
                 /\ \A i \in 0 .. n - 1 :
                      g[i + 1] = [ops |-> Append(g[i].ops, opAt(prog, g[i].next).op),
                                  next |-> opAt(prog, g[i].next).next]
                 /\ parse(prog) = [ops |-> g[n].ops,
                                   outs |-> [i \in 1 .. unpack(prog, 2, 2) |->
                                               unpack(prog, g[n].next + 2 * (i - 1), 2)],
                                   end |-> g[n].next + 2 * unpack(prog, 2, 2)]
      BY <2>1, ParseStepByStep, Zenon
    <2> QED
      BY <1>4, <2>2, Zenon
  <1> DEFINE seen(m) == [i \in 1 .. m |-> asRead(tp.ops[i])]
             S == {m \in 0 .. no : g[m] = [ops |-> seen(m), next |-> from + at[m]]}
  <1>11. 0 \in S
    <2>1. seen(0) = <<>>
      OBVIOUS
    <2>2. 0 \in 0 .. no /\ from + at[0] = 14 + 8 * ne
      BY <1>2, <1>3, <1>7, <1>9
    <2> QED
      BY <1>10, <2>1, <2>2
  <1>12. ASSUME NEW m \in 0 .. no - 1, m \in S
         PROVE  m + 1 \in S
    <2>1. g[m].ops = seen(m) /\ g[m].next = from + at[m]
      BY <1>12
    <2>2. Append(seen(m), asRead(tp.ops[m + 1])) = seen(m + 1)
      <3> DEFINE X1 == {asRead(tp.ops[i]) : i \in 1 .. m + 1}
      <3>0. m \in Nat /\ m + 1 \in Nat
        BY <1>2
      <3>1. seen(m) \in Seq(X1) /\ Len(seen(m)) = m
        BY <3>0
      <3>2. seen(m + 1) \in Seq(X1) /\ Len(seen(m + 1)) = m + 1
        <4>1. seen(m + 1) \in [1 .. m + 1 -> X1]
          OBVIOUS
        <4> QED
          BY <3>0, <4>1, SMTT(40)
      <3>3. \A i \in 1 .. m + 1 : Append(seen(m), asRead(tp.ops[m + 1]))[i] = seen(m + 1)[i]
        BY <1>2, <3>1
      <3> QED
        BY <1>2, <3>1, <3>2, <3>3
    <2>3. g[m + 1] = [ops |-> Append(seen(m), asRead(tp.ops[m + 1])), next |-> from + at[m + 1]]
      <3> HIDE DEF seen
      <3>1. /\ opAt(prog, g[m].next).op = asRead(tp.ops[m + 1])
            /\ opAt(prog, g[m].next).next = from + at[m + 1]
        <4>1. opAt(prog, from + at[m]) = [op |-> asRead(tp.ops[m + 1]), next |-> from + at[m + 1]]
          BY <1>8
        <4> QED
          BY <2>1, <4>1
      <3> QED
        BY <1>10, <2>1, <3>1
    <2>4. m + 1 \in 0 .. no
      BY <1>2
    <2> HIDE DEF seen
    <2> QED
      BY <2>2, <2>3, <2>4
  <1>13. 0 .. no \subseteq S
    <2> HIDE DEF S
    <2> QED
      BY <1>2, <1>11, <1>12, UpToInduction
  <1>14. g[no] = [ops |-> seen(no), next |-> from + at[no]]
    <2>1. no \in 0 .. no
      BY <1>2
    <2> HIDE DEF seen
    <2> QED
      BY <1>13, <2>1
  <1>15. ASSUME NEW i \in 1 .. nt
         PROVE  unpack(prog, outsFrom(tp) + 2 * (i - 1), 2) = tp.outs[i]
    <2>1. i - 1 \in 0 .. nt - 1 /\ (i - 1) + 1 = i /\ 2 * (i - 1) \in Nat
      BY <1>2
    <2>2. \A h \in 0 .. nt - 1 : laid(T, 2 * h, outParts(tp)[h + 1])
      BY <1>2, <1>5, TwoParts DEF T
    <2>3. laid(T, 2 * (i - 1), u(2, tp.outs[i]))
      BY <1>5, <2>1, <2>2
    <2>4. u(2, tp.outs[i]) \in Seq(X)
      BY <1>5
    <2> DEFINE p == outsFrom(tp) + 2 * (i - 1)
    <2>5. laid(prog, p, u(2, tp.outs[i])) /\ p \in Nat
      BY <1>3, <2>1, <2>3, <2>4, LaidWithin
    <2>6. tp.outs[i] \in V /\ 2 \in Nat \ {0}
      BY <1>1, <1>2
    <2> HIDE DEF p
    <2>7. unpack(prog, p, 2) = tp.outs[i]
      BY <1>1, <2>5, <2>6, FieldReads, Zenon
    <2> QED
      BY <2>7 DEF p
  <1>16. parse(prog).ops = seen(no) /\ parse(prog).outs = tp.outs /\ parse(prog).end = rowsFrom(tp)
    <2> HIDE DEF seen
    <2>1. g[no].ops = seen(no) /\ g[no].next = outsFrom(tp)
      BY <1>9, <1>14
    <2>2. parse(prog).outs = [i \in 1 .. nt |-> unpack(prog, outsFrom(tp) + 2 * (i - 1), 2)]
      BY <1>10, <2>1
    <2>3. parse(prog).outs = tp.outs
      BY <1>2, <1>15, <2>2
    <2>4. parse(prog).ops = seen(no) /\ parse(prog).end = outsFrom(tp) + 2 * nt
      BY <1>10, <2>1
    <2> QED
      BY <1>9, <2>3, <2>4
  <1>17. PICK h : /\ h[0] = 14 + 8 * ne
                  /\ \A i \in 0 .. no - 1 : h[i + 1] = h[i] + OP_LEN[unpack(prog, h[i], 1) + 1]
                  /\ split(prog) = h[no] + 2 * nt
    <2>1. \E h : /\ h[0] = 14 + 8 * unpack(prog, 13, 1)
                 /\ \A i \in 0 .. no - 1 : h[i + 1] = h[i] + OP_LEN[unpack(prog, h[i], 1) + 1]
                 /\ split(prog) = h[no] + 2 * unpack(prog, 2, 2)
      BY <1>2, <1>4, SplitStepByStep, Zenon
    <2> QED
      BY <1>4, <2>1, Zenon
  <1> DEFINE R == {m \in 0 .. no : h[m] = from + at[m]}
  <1>18. 0 \in R
    BY <1>2, <1>3, <1>7, <1>9, <1>17
  <1>19. ASSUME NEW m \in 0 .. no - 1, m \in R
         PROVE  m + 1 \in R
    <2>1. m + 1 \in 0 .. no /\ h[m] = from + at[m]
      BY <1>2, <1>19
    <2> QED
      BY <1>8, <1>17, <2>1
  <1>20. 0 .. no \subseteq R
    <2> HIDE DEF R
    <2> QED
      BY <1>2, <1>18, <1>19, UpToInduction
  <1>21. split(prog) = rowsFrom(tp)
    <2>1. h[no] = from + at[no]
      <3>1. no \in 0 .. no
        BY <1>2
      <3> QED
        BY <1>20, <3>1
    <2> QED
      BY <1>9, <1>17, <2>1
  <1>22. Len(seen(no)) = no
    BY <1>2
  <1> QED
    BY <1>16, <1>21, <1>22 DEF prog, no

\* The boundary part: the walk over the boundaries ends with the last byte, and stops
\* at every one that reads a public word.
LEMMA BoundariesReadBack ==
    ASSUME NEW tp \in Tapes
    PROVE  LET prog == blob(tp)
               bnd == SubSeq(prog, rowsFrom(tp) + 1, Len(prog))
               pinned == pins(bnd, unpack(prog, 4, 2), unpack(prog, 6, 2))
           IN /\ pinned.end = Len(bnd)
              /\ pinned.public = {j - 1 : j \in {h \in DOMAIN tp.bnd : tp.bnd[h].src = 1}}
  <1> DEFINE prog == blob(tp)
             nb == Len(tp.bnd)
             nr == Len(rowsOf(tp.bnd))
             V == Value(tp)
             X == [w : Nat, v : V]
             B == concat(bndParts(tp))
             from == rowsFrom(tp)
             sub == SubSeq(prog, from + 1, Len(prog))
  <1>1. Nat \subseteq V /\ 0 \in V /\ X = Cell(tp)
    BY DEF Value, Cell
  <1>2. /\ nb \in Nat /\ nr \in Nat /\ DOMAIN tp.bnd = 1 .. nb
        /\ \A i \in 1 .. nb : tp.bnd[i] \in [col : Nat, row : Nat, src : 0 .. 1, value : Nat]
    BY TapeTyped, PartsTyped
  <1>3. /\ prog \in Seq(X) /\ laid(prog, 4, u(2, nb)) /\ laid(prog, 6, u(2, nr))
        /\ laid(prog, bndFrom(tp), B) /\ from \in Nat /\ bndFrom(tp) \in Nat /\ B \in Seq(X)
        /\ Len(prog) = bndFrom(tp) + Len(B)
    BY <1>1, BlobLayout
  <1>4. bndFrom(tp) = from + 8 * nr
    BY DEF bndFrom
  <1> HIDE DEF prog, from
  <1>5. unpack(prog, 4, 2) = nb /\ unpack(prog, 6, 2) = nr
    <2>1. 4 \in Nat /\ 6 \in Nat /\ 2 \in Nat \ {0} /\ nb \in V /\ nr \in V
      BY <1>1, <1>2
    <2> HIDE DEF nb, nr, V, X
    <2> QED
      BY <1>1, <1>3, <2>1, FieldReads, Zenon
  <1>6. /\ Len(bndParts(tp)) = nb
        /\ \A i \in 1 .. nb : /\ bndParts(tp)[i] \in Seq(X)
                              /\ bndParts(tp)[i] = blobBoundary(tp.bnd, tp.bnd[i])
                              /\ Len(bndParts(tp)[i]) = IF tp.bnd[i].src = 1 THEN 5 ELSE 12
                              /\ laid(bndParts(tp)[i], 3, u(1, tp.bnd[i].src))
    <2>1. /\ Len(bndParts(tp)) = nb
          /\ \A i \in 1 .. nb : /\ bndParts(tp)[i] \in Seq(X)
                                /\ bndParts(tp)[i] = blobBoundary(tp.bnd, tp.bnd[i])
      BY <1>1, PartsTyped
    <2>2. ASSUME NEW i \in 1 .. nb
          PROVE  /\ Len(blobBoundary(tp.bnd, tp.bnd[i])) = IF tp.bnd[i].src = 1 THEN 5 ELSE 12
                 /\ laid(blobBoundary(tp.bnd, tp.bnd[i]), 3, u(1, tp.bnd[i].src))
      <3>1. row_idx(tp.bnd, tp.bnd[i].row) \in V
        BY <1>2 DEF Value
      <3> DEFINE b == tp.bnd[i]
      <3>2. b \in [col : Nat, row : Nat, src : 0 .. 1, value : Nat]
        BY <1>2
      <3>3. row_idx(tp.bnd, b.row) \in V
        BY <3>1
      <3> HIDE DEF b, V
      <3>4. /\ Len(blobBoundary(tp.bnd, b)) = IF b.src = 1 THEN 5 ELSE 12
            /\ laid(blobBoundary(tp.bnd, b), 3, u(1, b.src))
        BY <1>1, <3>2, <3>3, BoundaryBytes, ZenonT(60)
      <3> QED
        BY <3>4 DEF b
    <2> HIDE DEF X, nb
    <2> QED
      BY <2>1, <2>2
  <1> HIDE DEF X, V
  <1>7. PICK at : /\ offsets(at, nb, bndParts(tp)) /\ Len(B) = at[nb]
                  /\ \A i \in 0 .. nb - 1 : laid(B, at[i], bndParts(tp)[i + 1])
    <2> DEFINE parts == bndParts(tp)
    <2>1. Len(parts) = nb /\ \A i \in 1 .. nb : parts[i] \in Seq(X)
      BY <1>6
    <2> HIDE DEF nb, parts
    <2>2. \E at : /\ offsets(at, nb, parts) /\ Len(concat(parts)) = at[nb]
                  /\ \A i \in 0 .. nb - 1 : laid(concat(parts), at[i], parts[i + 1])
      BY <1>2, <2>1, ConcatLaid
    <2> QED
      BY <2>2 DEF parts
  <1>8. /\ at \in [0 .. nb -> Nat] /\ at[0] = 0
        /\ \A i \in 0 .. nb - 1 : at[i + 1] = at[i] + Len(bndParts(tp)[i + 1])
    BY <1>7 DEF offsets
  <1> HIDE DEF B, nb, nr
  <1>9. Len(B) \in Nat /\ Len(prog) \in Nat
    BY <1>3
  <1>10. /\ sub \in Seq(X) /\ Len(sub) = 8 * nr + Len(B)
         /\ \A q \in 1 .. 8 * nr + Len(B) : sub[q] = prog[from + q]
    <2>1. Len(prog) = from + (8 * nr + Len(B)) /\ 8 * nr + Len(B) \in Nat
      BY <1>2, <1>3, <1>4, <1>9
    <2> DEFINE m == 8 * nr + Len(B)
    <2> HIDE DEF m
    <2>2. Len(prog) = from + m /\ m \in Nat
      BY <2>1 DEF m
    <2>3. /\ SubSeq(prog, from + 1, Len(prog)) \in Seq(X)
          /\ Len(SubSeq(prog, from + 1, Len(prog))) = m
      BY <1>3, <2>2
    <2>4. \A q \in 1 .. m : SubSeq(prog, from + 1, Len(prog))[q] = prog[from + q]
      BY <1>3, <2>2
    <2> QED
      BY <2>3, <2>4 DEF m
  <1>11. ASSUME NEW i \in 0 .. nb - 1
         PROVE  /\ unpack(sub, 8 * nr + at[i] + 3, 1) = tp.bnd[i + 1].src
                /\ at[i + 1] = at[i] + IF tp.bnd[i + 1].src = 1 THEN 5 ELSE 12
    <2>1. i + 1 \in 1 .. nb /\ i \in 0 .. nb
      BY <1>2
    <2> DEFINE s == bndParts(tp)[i + 1]
               f == tp.bnd[i + 1].src
    <2>2. /\ s \in Seq(X) /\ Len(s) = (IF f = 1 THEN 5 ELSE 12) /\ laid(s, 3, u(1, f))
          /\ laid(B, at[i], s) /\ at[i] \in Nat /\ at[i + 1] = at[i] + Len(s)
      BY <1>6, <1>7, <1>8, <2>1
    <2>3. f \in V /\ f \in 0 .. 1
      <3>1. tp.bnd[i + 1] \in [col : Nat, row : Nat, src : 0 .. 1, value : Nat]
        BY <1>2, <2>1
      <3>2. f \in 0 .. 1
        BY <3>1
      <3> QED
        BY <1>1, <3>2
    <2> HIDE DEF s, f
    <2>4. u(1, f) \in Seq(X) /\ Len(u(1, f)) = 1 /\ u(1, f)[1] = [w |-> 1, v |-> f]
      <3>1. \A n \in Nat \ {0}, v \in V :
               u(n, v) \in Seq(X) /\ Len(u(n, v)) = n /\ u(n, v)[1] = [w |-> n, v |-> v]
        BY <1>1, FieldStands, Zenon DEF X
      <3>2. 1 \in Nat \ {0}
        OBVIOUS
      <3> QED
        BY <2>3, <3>1, <3>2, Zenon
    <2>5. laid(B, at[i] + 3, u(1, f))
      BY <1>3, <2>2, <2>4, LaidWithin
    <2> DEFINE p == 8 * nr + at[i] + 3
    <2>6. p \in Nat /\ p + 1 = 8 * nr + (at[i] + 3 + 1) /\ at[i] + 3 + 1 \in 1 .. Len(B)
      <3>1. at[i] + 3 + Len(u(1, f)) <= Len(B)
        BY <2>5 DEF laid
      <3>2. at[i] + 3 + 1 <= Len(B)
        BY <2>4, <3>1
      <3>3. at[i] \in Nat /\ nr \in Nat /\ Len(B) \in Nat
        BY <1>2, <1>9, <2>2
      <3> QED
        BY <3>2, <3>3, SMTT(40)
    <2>7. laid(prog, bndFrom(tp) + (at[i] + 3), u(1, f))
      <3>1. at[i] + 3 \in Nat
        BY <2>2
      <3> QED
        BY <1>3, <2>4, <2>5, <3>1, LaidWithin
    <2>8. bndFrom(tp) + (at[i] + 3) = from + p /\ from + p \in Nat
      <3>1. at[i] \in Nat /\ nr \in Nat /\ from \in Nat
        BY <1>2, <1>3, <2>2
      <3> QED
        BY <1>4, <3>1
    <2> HIDE DEF p
    <2>9. prog[from + p + 1] = u(1, f)[1]
      <3>1. 1 \in 1 .. Len(u(1, f))
        BY <2>4
      <3> QED
        BY <2>7, <2>8, <3>1 DEF laid
    <2>10. sub[p + 1] = prog[from + p + 1]
      <3>1. p + 1 \in 1 .. 8 * nr + Len(B)
        BY <1>2, <1>9, <2>2, <2>6
      <3>2. sub[p + 1] = prog[from + (p + 1)]
        BY <1>10, <3>1
      <3>3. from + (p + 1) = from + p + 1
        BY <1>3, <2>6
      <3> QED
        BY <3>2, <3>3
    <2>12. unpack(sub, p, 1) = f
      <3>1. sub[p + 1] = [w |-> 1, v |-> f]
        BY <2>4, <2>9, <2>10
      <3> HIDE DEF sub
      <3> QED
        BY <3>1 DEF unpack
    <2>13. at[i + 1] = at[i] + IF f = 1 THEN 5 ELSE 12
      BY <2>2
    <2> QED
      BY <2>12, <2>13 DEF p, f
  <1> HIDE DEF sub
  <1>12. PICK g : /\ g[0] = 8 * nr
                  /\ \A j \in 0 .. nb - 1 :
                       g[j + 1] = g[j] + (IF unpack(sub, g[j] + 3, 1) = 1 THEN 5 ELSE 12)
                  /\ pins(sub, nb, nr).public = public(sub, g, nb) /\ pins(sub, nb, nr).end = g[nb]
    BY <1>2, PinsStepByStep
  <1> DEFINE R == {m \in 0 .. nb : g[m] = 8 * nr + at[m]}
  <1>13. 0 \in R
    BY <1>2, <1>8, <1>12
  <1>14. ASSUME NEW m \in 0 .. nb - 1, m \in R
         PROVE  m + 1 \in R
    <2>1. m + 1 \in 0 .. nb /\ m \in 0 .. nb /\ g[m] = 8 * nr + at[m] /\ at[m] \in Nat
      BY <1>2, <1>8, <1>14
    <2>2. g[m + 1] = g[m] + (IF unpack(sub, g[m] + 3, 1) = 1 THEN 5 ELSE 12)
      BY <1>12
    <2>3. unpack(sub, g[m] + 3, 1) = tp.bnd[m + 1].src
      BY <1>11, <2>1
    <2>4. at[m + 1] = at[m] + IF tp.bnd[m + 1].src = 1 THEN 5 ELSE 12
      BY <1>11
    <2>5. g[m + 1] = 8 * nr + at[m + 1]
      BY <1>2, <2>1, <2>2, <2>3, <2>4, SMTT(40)
    <2> QED
      BY <2>1, <2>5
  <1>15. 0 .. nb \subseteq R
    <2> HIDE DEF R
    <2> QED
      BY <1>2, <1>13, <1>14, UpToInduction
  <1>16. \A m \in 0 .. nb : g[m] = 8 * nr + at[m]
    BY <1>15
  <1>17. g[nb] = Len(sub)
    <2>1. nb \in 0 .. nb
      BY <1>2
    <2> QED
      BY <1>7, <1>10, <1>16, <2>1
  <1>18. \A j \in 0 .. nb - 1 : unpack(sub, g[j] + 3, 1) = tp.bnd[j + 1].src
    <2> TAKE j \in 0 .. nb - 1
    <2>1. j \in 0 .. nb
      BY <1>2
    <2> QED
      BY <1>11, <1>16, <2>1
  <1>19. {j \in 0 .. nb - 1 : unpack(sub, g[j] + 3, 1) = 1}
           = {j - 1 : j \in {h \in DOMAIN tp.bnd : tp.bnd[h].src = 1}}
    <2>1. ASSUME NEW j \in 0 .. nb - 1, tp.bnd[j + 1].src = 1
          PROVE  \E h \in {h \in DOMAIN tp.bnd : tp.bnd[h].src = 1} : j = h - 1
      <3>1. j + 1 \in 1 .. nb /\ j = (j + 1) - 1
        BY <1>2
      <3> QED
        BY <1>2, <2>1, <3>1
    <2>2. ASSUME NEW h \in 1 .. nb, tp.bnd[h].src = 1
          PROVE  h - 1 \in 0 .. nb - 1 /\ tp.bnd[(h - 1) + 1].src = 1
      <3>1. (h - 1) + 1 = h /\ h - 1 \in 0 .. nb - 1
        BY <1>2
      <3> QED
        BY <2>2, <3>1
    <2> QED
      BY <1>2, <1>18, <2>1, <2>2
  <1>20. pins(sub, nb, nr).end = Len(sub)
    BY <1>12, <1>17
  <1>21. pins(sub, nb, nr).public = {j - 1 : j \in {h \in DOMAIN tp.bnd : tp.bnd[h].src = 1}}
    BY <1>12, <1>19 DEF public
  <1> QED
    BY <1>5, <1>20, <1>21 DEF sub, prog, from

LEMMA TapeReadsBack ==
    ASSUME tape \in Tapes
    PROVE  BlobReadsBack
  <1> DEFINE prog == blob(tape)
             back == parse(prog)
  <1>1. /\ back.ops = [i \in 1 .. Len(tape.ops) |-> asRead(tape.ops[i])]
        /\ Len(back.ops) = Len(tape.ops) /\ back.outs = tape.outs
        /\ back.end = rowsFrom(tape) /\ split(prog) = rowsFrom(tape)
    BY TransitionReadsBack
  <1>2. LET bnd == SubSeq(prog, rowsFrom(tape) + 1, Len(prog))
            pinned == pins(bnd, unpack(prog, 4, 2), unpack(prog, 6, 2))
        IN /\ pinned.end = Len(bnd)
           /\ pinned.public = {j - 1 : j \in {h \in DOMAIN tape.bnd : tape.bnd[h].src = 1}}
    BY BoundariesReadBack
  <1>3. ASSUME NEW i \in 1 .. N
        PROVE  /\ back.ops[i].k = op(i).k
               /\ op(i).k # CONST => back.ops[i].a = op(i).a
               /\ op(i).k >= ADD => back.ops[i].b = op(i).b
    <2>1. i \in 1 .. Len(tape.ops)
      BY DEF N
    <2>2. /\ op(i) \in [k : CONST .. INV, a : Nat, b : Nat]
          /\ op(i).k >= ADD => (op(i).k = INV => op(i).a = op(i).b)
      BY <2>1, TapeTyped DEF op
    <2>3. back.ops[i] = asRead(op(i))
      BY <1>1, <2>1 DEF op
    <2>4. asRead(op(i)).k = op(i).k /\ (op(i).k # CONST => asRead(op(i)).a = op(i).a)
      BY DEF asRead
    <2>5. op(i).k >= ADD => op(i).k # CONST /\ op(i).k # INPUT
      BY DEF ADD, CONST, INPUT
    <2>6. op(i).k >= ADD => asRead(op(i)).b = op(i).b
      BY <2>2, <2>5 DEF asRead
    <2> QED
      BY <2>3, <2>4, <2>6
  <1> HIDE DEF prog, back
  <1>4. back = parse(prog)
    BY DEF back
  <1> QED
    BY <1>1, <1>2, <1>3, <1>4, Zenon DEF BlobReadsBack, N, prog

LEMMA PlanTape == PlanSpec => [](tape \in Tapes)
  <1>1. PlanInit => tape \in Tapes
    BY DEF PlanInit, Encoded
  <1>2. tape \in Tapes /\ [PlanNext]_planVars => (tape \in Tapes)'
    BY DEF PlanNext, Pass, Instruction, Finish, planVars
  <1> QED
    BY <1>1, <1>2, PTL DEF PlanSpec

\* Both tools read back from every blob what was written into it: the ops and the
\* outputs, the end of the transition part and the boundaries that read a public
\* word, to the last byte (gen_program_air.py:26-103, program_form_blob.py:34-94).
THEOREM WhatIsWrittenIsRead == PlanSpec => []BlobReadsBack
  BY PlanTape, TapeReadsBack, PTL

-----------------------------------------------------------------------------
(* Who reads what.                                                         *)

none(n) == [reads |-> [i \in 1 .. n |-> 0], last |-> [i \in 1 .. n |-> 0]]

LEMMA LivenessStepByStep ==
    ASSUME NEW ops, NEW outs, Len(ops) \in Nat, Len(outs) \in Nat
    PROVE  LET n == Len(ops)
               k == Len(outs)
           IN \E g, h : /\ g[0] = none(n)
                        /\ \A i \in 0 .. k - 1 : g[i + 1] = read(g[i], outs[i + 1], n + 1)
                        /\ h[0] = g[k]
                        /\ \A m \in 0 .. n - 1 : h[m + 1] = scanned(ops, h[m], n - m)
                        /\ liveness(ops, outs) = h[n]
  <1> DEFINE n == Len(ops)
             k == Len(outs)
             recO(f) == [i \in 0 .. k |-> IF i = 0 THEN none(n) ELSE read(f[i - 1], outs[i], n + 1)]
             a == CHOOSE f : f = recO(f)
             recS(f) == [m \in 0 .. n |-> IF m = 0 THEN a[k] ELSE scanned(ops, f[m - 1], n + 1 - m)]
             b == CHOOSE f : f = recS(f)
             dataO == [outs |-> outs, n |-> n]
             dataS == [ops |-> ops, n |-> n]
  <1>0. n \in Nat /\ k \in Nat
    OBVIOUS
  <1>1. \E g : runs(g, k, "outs", dataO, none(n))
    BY <1>0, RunsExist, Zenon
  <1>2. \A f : runs(f, k, "outs", dataO, none(n)) <=> f = recO(f)
    BY DEF runs, next
  <1>3. liveness(ops, outs) = b[n]
    BY DEF liveness, none
  <1>4. a = recO(a)
    <2> HIDE DEF recO
    <2> QED
      BY <1>1, <1>2
  <1>5. runs(a, k, "outs", dataO, none(n))
    <2> HIDE DEF recO, a
    <2> QED
      BY <1>2, <1>4
  <1> HIDE DEF a
  <1>6. \E g : runs(g, n, "scan", dataS, a[k])
    BY <1>0, RunsExist, Zenon
  <1>7. \A f : runs(f, n, "scan", dataS, a[k]) <=> f = recS(f)
    BY DEF runs, next
  <1>8. b = recS(b)
    <2> HIDE DEF recS
    <2> QED
      BY <1>6, <1>7
  <1>9. runs(b, n, "scan", dataS, a[k])
    <2> HIDE DEF recS, b
    <2> QED
      BY <1>7, <1>8
  <1> HIDE DEF b, n, k
  <1>10. a[0] = none(n) /\ \A i \in 0 .. k - 1 : a[i + 1] = next("outs", dataO, i + 1, a[i])
    <2> HIDE DEF dataO
    <2> QED
      BY <1>0, <1>5, RunSteps
  <1>11. \A i \in 0 .. k - 1 : a[i + 1] = read(a[i], outs[i + 1], n + 1)
    BY <1>10 DEF next
  <1>12. b[0] = a[k] /\ \A m \in 0 .. n - 1 : b[m + 1] = next("scan", dataS, m + 1, b[m])
    <2> HIDE DEF dataS
    <2> QED
      BY <1>0, <1>9, RunSteps
  <1>13. \A m \in 0 .. n - 1 : b[m + 1] = scanned(ops, b[m], n - m)
    <2>1. \A m \in 0 .. n - 1 : b[m + 1] = scanned(ops, b[m], n + 1 - (m + 1))
      BY <1>12 DEF next
    <2>2. \A m \in 0 .. n - 1 : n + 1 - (m + 1) = n - m
      BY <1>0
    <2> QED
      BY <2>1, <2>2
  <1> QED
    BY <1>3, <1>10, <1>11, <1>12, <1>13, Zenon DEF n, k

\* What is known of the counts x of a tape when its ops from i on have been scanned.
isLive(tp, x, r) == x.reads[r] > 0 \/ tp.ops[r].k = INV
readBy(tp, x, r, v) == tp.ops[r].k >= ADD /\ isLive(tp, x, r) /\ v \in {tp.ops[r].a, tp.ops[r].b}
isOutput(tp, v) == \E i \in DOMAIN tp.outs : tp.outs[i] = v

countTypes(x, n) == /\ x = [reads |-> x.reads, last |-> x.last]
                    /\ x.reads \in [1 .. n -> Nat] /\ x.last \in [1 .. n -> Nat]
\* An output, and every op read by a live one, is counted, and kept so long.
countsAll(tp, x, i) ==
    \A v \in 1 .. Len(tp.ops) :
       /\ isOutput(tp, v) => x.reads[v] >= 1 /\ x.last[v] = Len(tp.ops) + 1
       /\ \A r \in i .. Len(tp.ops) : readBy(tp, x, r, v) => x.reads[v] >= 1 /\ x.last[v] >= r
\* Nothing else is counted.
countsOnly(tp, x, i) ==
    \A v \in 1 .. Len(tp.ops) : x.reads[v] >= 1 =>
       \/ isOutput(tp, v) /\ x.last[v] = Len(tp.ops) + 1
       \/ \E r \in i .. Len(tp.ops) : readBy(tp, x, r, v) /\ x.last[v] = r
\* An op read once has one reader, which reads it once.
countsOnce(tp, x, i) ==
    \A v \in 1 .. Len(tp.ops) : \A r \in i .. Len(tp.ops) :
       x.reads[v] = 1 /\ readBy(tp, x, r, v) =>
          /\ ~isOutput(tp, v)
          /\ tp.ops[r].k = INV \/ tp.ops[r].a # tp.ops[r].b
          /\ \A q \in i .. Len(tp.ops) : readBy(tp, x, q, v) => q = r

counted(tp, x, i) ==
    countTypes(x, Len(tp.ops)) /\ countsAll(tp, x, i) /\ countsOnly(tp, x, i) /\ countsOnce(tp, x, i)

\* y is x after r has read v, and after the scan of op i.
hasRead(y, x, n, v, r) ==
    /\ countTypes(y, n)
    /\ \A w \in 1 .. n :
         /\ y.reads[w] = IF w = v THEN x.reads[w] + 1 ELSE x.reads[w]
         /\ y.last[w] = IF w = v /\ x.reads[w] = 0 THEN r ELSE x.last[w]

hasScanned(y, x, n, i, o) ==
    LET counts == o.k >= ADD /\ (x.reads[i] > 0 \/ o.k = INV)
    IN /\ ~counts => y = x
       /\ counts =>
            /\ countTypes(y, n)
            /\ \A w \in 1 .. n :
                 /\ y.reads[w] = x.reads[w] + (IF w = o.a THEN 1 ELSE 0)
                                            + (IF o.k # INV /\ w = o.b THEN 1 ELSE 0)
                 /\ y.last[w] = IF x.reads[w] = 0 /\ (w = o.a \/ (o.k # INV /\ w = o.b))
                                THEN i ELSE x.last[w]

LEMMA ReadCounts ==
    ASSUME NEW n \in Nat, NEW x, countTypes(x, n), NEW v \in 1 .. n, NEW r \in Nat
    PROVE  hasRead(read(x, v, r), x, n, v, r)
  <1> DEFINE reads == [x.reads EXCEPT ![v] = x.reads[v] + 1]
             last == IF x.reads[v] = 0 THEN [x.last EXCEPT ![v] = r] ELSE x.last
             y == [reads |-> reads, last |-> last]
  <1>1. x.reads \in [1 .. n -> Nat] /\ x.last \in [1 .. n -> Nat]
    BY DEF countTypes
  <1>2. reads \in [1 .. n -> Nat] /\ last \in [1 .. n -> Nat]
    BY <1>1
  <1>3. ASSUME NEW w \in 1 .. n
        PROVE  /\ reads[w] = IF w = v THEN x.reads[w] + 1 ELSE x.reads[w]
               /\ last[w] = IF w = v /\ x.reads[w] = 0 THEN r ELSE x.last[w]
    BY <1>1
  <1>4. read(x, v, r) = y
    BY DEF read
  <1> HIDE DEF reads, last
  <1>5. y.reads = reads /\ y.last = last
    OBVIOUS
  <1> QED
    BY <1>2, <1>3, <1>4, <1>5 DEF countTypes, hasRead

\* What one op adds to the counts.
LEMMA ScanCounts ==
    ASSUME NEW n \in Nat, NEW x, countTypes(x, n), NEW i \in 1 .. n, NEW ops, NEW o, o = ops[i],
           o.k \in Nat, o.k >= ADD => o.a \in 1 .. n /\ o.b \in 1 .. n
    PROVE  hasScanned(scanned(ops, x, i), x, n, i, o)
  <1> DEFINE one == read(x, o.a, i)
             two == read(one, o.b, i)
             y == scanned(ops, x, i)
             counts == o.k >= ADD /\ (x.reads[i] > 0 \/ o.k = INV)
  <1>1. x.reads \in [1 .. n -> Nat] /\ x.last \in [1 .. n -> Nat] /\ i \in Nat
    BY DEF countTypes
  <1>2. y = IF ~counts THEN x ELSE IF o.k = INV THEN one ELSE two
    <2>1. x.reads[i] \in Nat
      BY <1>1
    <2>2. (o.k < ADD \/ (x.reads[i] = 0 /\ o.k # INV)) <=> ~counts
      BY <2>1 DEF ADD
    <2> HIDE DEF counts
    <2> QED
      BY <2>2 DEF scanned
  <1> HIDE DEF y
  <1>3. CASE ~counts
    BY <1>2, <1>3 DEF y, hasScanned
  <1>4. CASE counts
    <2>1. o.a \in 1 .. n /\ o.b \in 1 .. n
      BY <1>4
    <2>2. /\ countTypes(one, n)
          /\ \A w \in 1 .. n :
               /\ one.reads[w] = IF w = o.a THEN x.reads[w] + 1 ELSE x.reads[w]
               /\ one.last[w] = IF w = o.a /\ x.reads[w] = 0 THEN i ELSE x.last[w]
      <3>1. hasRead(one, x, n, o.a, i)
        BY <1>1, <2>1, ReadCounts
      <3> HIDE DEF one
      <3> QED
        BY <3>1 DEF hasRead
    <2> HIDE DEF one
    <2>3. /\ countTypes(two, n)
          /\ \A w \in 1 .. n :
               /\ two.reads[w] = IF w = o.b THEN one.reads[w] + 1 ELSE one.reads[w]
               /\ two.last[w] = IF w = o.b /\ one.reads[w] = 0 THEN i ELSE one.last[w]
      <3>1. hasRead(two, one, n, o.b, i)
        BY <1>1, <2>1, <2>2, ReadCounts
      <3> HIDE DEF two
      <3> QED
        BY <3>1 DEF hasRead
    <2> HIDE DEF two
    <2>4. CASE o.k = INV
      <3>1. y = one
        BY <1>2, <1>4, <2>4
      <3>2. ASSUME NEW w \in 1 .. n
            PROVE  /\ y.reads[w] = x.reads[w] + (IF w = o.a THEN 1 ELSE 0)
                                              + (IF o.k # INV /\ w = o.b THEN 1 ELSE 0)
                   /\ y.last[w] = IF x.reads[w] = 0 /\ (w = o.a \/ (o.k # INV /\ w = o.b))
                                  THEN i ELSE x.last[w]
        <4>1. x.reads[w] \in Nat
          BY <1>1
        <4> QED
          BY <2>2, <2>4, <3>1, <4>1
      <3> QED
        BY <1>4, <2>2, <3>1, <3>2 DEF y, hasScanned
    <2>5. CASE o.k # INV
      <3>1. y = two
        BY <1>2, <1>4, <2>5
      <3>2. ASSUME NEW w \in 1 .. n
            PROVE  /\ y.reads[w] = x.reads[w] + (IF w = o.a THEN 1 ELSE 0)
                                              + (IF o.k # INV /\ w = o.b THEN 1 ELSE 0)
                   /\ y.last[w] = IF x.reads[w] = 0 /\ (w = o.a \/ (o.k # INV /\ w = o.b))
                                  THEN i ELSE x.last[w]
        <4>1. x.reads[w] \in Nat
          BY <1>1
        <4>2. /\ one.reads[w] = IF w = o.a THEN x.reads[w] + 1 ELSE x.reads[w]
              /\ one.last[w] = IF w = o.a /\ x.reads[w] = 0 THEN i ELSE x.last[w]
              /\ two.reads[w] = IF w = o.b THEN one.reads[w] + 1 ELSE one.reads[w]
              /\ two.last[w] = IF w = o.b /\ one.reads[w] = 0 THEN i ELSE one.last[w]
          BY <2>2, <2>3
        <4>3. two.reads[w] = x.reads[w] + (IF w = o.a THEN 1 ELSE 0)
                                        + (IF o.k # INV /\ w = o.b THEN 1 ELSE 0)
          BY <2>5, <4>1, <4>2
        <4>4. two.last[w] = IF x.reads[w] = 0 /\ (w = o.a \/ (o.k # INV /\ w = o.b))
                            THEN i ELSE x.last[w]
          BY <2>5, <4>1, <4>2
        <4> QED
          BY <3>1, <4>3, <4>4
      <3> QED
        BY <1>4, <2>3, <3>1, <3>2 DEF y, hasScanned
    <2> QED
      BY <2>4, <2>5
  <1> QED
    BY <1>3, <1>4 DEF hasScanned, y

\* One more op scanned.
LEMMA ScanKeepsCounted ==
    ASSUME NEW tp \in Tapes, NEW x, NEW y, NEW i \in 1 .. Len(tp.ops),
           counted(tp, x, i + 1), hasScanned(y, x, Len(tp.ops), i, tp.ops[i])
    PROVE  counted(tp, y, i)
  <1> DEFINE n == Len(tp.ops)
             o == tp.ops[i]
             counts == o.k >= ADD /\ (x.reads[i] > 0 \/ o.k = INV)
  <1>1. /\ n \in Nat /\ i \in 1 .. n
        /\ \A r \in 1 .. n : tp.ops[r].k >= ADD => tp.ops[r].a \in 1 .. r - 1 /\ tp.ops[r].b \in 1 .. r - 1
        /\ o.k = INV /\ o.k >= ADD => o.a = o.b
    BY TapeTyped
  <1> HIDE DEF n
  <1>2. countTypes(x, n) /\ countsAll(tp, x, i + 1) /\ countsOnly(tp, x, i + 1) /\ countsOnce(tp, x, i + 1)
    BY DEF counted, n
  <1>3. \A v \in 1 .. n : x.reads[v] \in Nat /\ x.last[v] \in Nat
    BY <1>2 DEF countTypes
  <1>4. CASE ~counts
    <2>1. y = x
      BY <1>4 DEF hasScanned
    <2>2. \A v : ~readBy(tp, x, i, v)
      BY <1>4 DEF readBy, isLive
    <2>3. \A r \in i .. n : r # i => r \in i + 1 .. n
      BY <1>1
    <2>4. i + 1 .. n \subseteq i .. n
      BY <1>1
    <2>5. countsAll(tp, x, i)
      BY <1>2, <2>2, <2>3 DEF countsAll, n
    <2>6. countsOnly(tp, x, i)
      BY <1>2, <2>4 DEF countsOnly, n
    <2>7. countsOnce(tp, x, i)
      BY <1>2, <2>2, <2>3 DEF countsOnce, n
    <2> QED
      BY <1>2, <2>1, <2>5, <2>6, <2>7 DEF counted, n
  <1>5. CASE counts
    <2>1. /\ countTypes(y, n)
          /\ \A w \in 1 .. n :
               /\ y.reads[w] = x.reads[w] + (IF w = o.a THEN 1 ELSE 0)
                                          + (IF o.k # INV /\ w = o.b THEN 1 ELSE 0)
               /\ y.last[w] = IF x.reads[w] = 0 /\ (w = o.a \/ (o.k # INV /\ w = o.b))
                              THEN i ELSE x.last[w]
      BY <1>5 DEF hasScanned, n
    <2>2. o.a \in 1 .. i - 1 /\ o.b \in 1 .. i - 1 /\ (o.k = INV => o.a = o.b)
      BY <1>1, <1>5
    \* Ops from i on are as live as they were.
    <2>3. \A r \in i .. n : y.reads[r] = x.reads[r]
      <3> TAKE r \in i .. n
      <3>1. r \in 1 .. n /\ r # o.a /\ r # o.b
        BY <1>1, <2>2
      <3> QED
        BY <1>3, <2>1, <3>1
    <2>4. \A r \in i .. n : \A v : readBy(tp, y, r, v) <=> readBy(tp, x, r, v)
      BY <2>3 DEF readBy, isLive
    <2>5. \A v : readBy(tp, x, i, v) <=> v \in {o.a, o.b}
      BY <1>5 DEF readBy, isLive
    <2>6. \A r \in i .. n : r # i => r \in i + 1 .. n
      BY <1>1
    <2>7. \A r \in i + 1 .. n : r \in i .. n /\ r > i
      BY <1>1
    <2>8. ASSUME NEW v \in 1 .. n, v \notin {o.a, o.b}
          PROVE  y.reads[v] = x.reads[v] /\ y.last[v] = x.last[v]
      BY <1>3, <2>1, <2>8
    <2>9. ASSUME NEW v \in 1 .. n, v \in {o.a, o.b}
          PROVE  /\ y.reads[v] >= 1 /\ y.reads[v] >= x.reads[v] + 1
                 /\ o.k # INV /\ o.a = o.b => y.reads[v] = x.reads[v] + 2
                 /\ y.last[v] = IF x.reads[v] = 0 THEN i ELSE x.last[v]
      <3>1. x.reads[v] \in Nat
        BY <1>3
      <3>2. o.k = INV => v = o.a
        BY <2>2, <2>9
      <3> QED
        BY <2>1, <2>9, <3>1, <3>2, SMTT(40)
    \* A value read for the first time was no output and had no reader.
    <2>10. ASSUME NEW v \in 1 .. n, x.reads[v] = 0
           PROVE  ~isOutput(tp, v) /\ \A r \in i + 1 .. n : ~readBy(tp, x, r, v)
      BY <1>2, <2>10 DEF countsAll, n
    <2>11. ASSUME NEW v \in 1 .. n, x.reads[v] >= 1
           PROVE  x.last[v] > i
      <3>1. CASE isOutput(tp, v) /\ x.last[v] = n + 1
        BY <1>1, <3>1
      <3>2. CASE \E r \in i + 1 .. n : readBy(tp, x, r, v) /\ x.last[v] = r
        BY <1>1, <3>2
      <3> QED
        BY <1>2, <2>11, <3>1, <3>2 DEF countsOnly, n
    <2>12. countsAll(tp, y, i)
      <3>1. ASSUME NEW v \in 1 .. n, isOutput(tp, v)
            PROVE  y.reads[v] >= 1 /\ y.last[v] = n + 1
        <4>1. x.reads[v] >= 1 /\ x.last[v] = n + 1
          BY <1>2, <3>1 DEF countsAll, n
        <4>2. CASE v \in {o.a, o.b}
          BY <1>3, <2>9, <4>1, <4>2
        <4>3. CASE v \notin {o.a, o.b}
          BY <2>8, <4>1, <4>3
        <4> QED
          BY <4>2, <4>3
      <3>2. ASSUME NEW v \in 1 .. n, NEW r \in i .. n, readBy(tp, y, r, v)
            PROVE  y.reads[v] >= 1 /\ y.last[v] >= r
        <4>1. readBy(tp, x, r, v)
          BY <2>4, <3>2
        <4>2. CASE r = i
          <5>1. v \in {o.a, o.b}
            BY <2>5, <4>1, <4>2
          <5>2. x.reads[v] = 0 => y.last[v] = i
            BY <2>9, <5>1
          <5>3. x.reads[v] # 0 => y.last[v] > i
            BY <1>3, <2>9, <2>11, <5>1
          <5>4. y.last[v] \in Nat /\ i \in Nat
            BY <1>1, <2>1 DEF countTypes
          <5>5. y.last[v] >= r
            BY <4>2, <5>2, <5>3, <5>4
          <5> QED
            BY <2>9, <5>1, <5>5
        <4>3. CASE r # i
          <5>1. x.reads[v] >= 1 /\ x.last[v] >= r
            BY <1>2, <2>6, <4>1, <4>3 DEF countsAll, n
          <5>2. CASE v \in {o.a, o.b}
            BY <1>3, <2>9, <5>1, <5>2
          <5>3. CASE v \notin {o.a, o.b}
            BY <2>8, <5>1, <5>3
          <5> QED
            BY <5>2, <5>3
        <4> QED
          BY <4>2, <4>3
      <3> QED
        BY <3>1, <3>2 DEF countsAll, n
    <2>13. countsOnly(tp, y, i)
      <3>1. ASSUME NEW v \in 1 .. n, y.reads[v] >= 1
            PROVE  \/ isOutput(tp, v) /\ y.last[v] = n + 1
                   \/ \E r \in i .. n : readBy(tp, y, r, v) /\ y.last[v] = r
        <4>1. CASE x.reads[v] = 0
          <5>1. v \in {o.a, o.b}
            BY <2>8, <3>1, <4>1
          <5>2. y.last[v] = i /\ i \in i .. n
            BY <1>1, <2>9, <4>1, <5>1
          <5> QED
            BY <2>4, <2>5, <5>1, <5>2
        <4>2. CASE x.reads[v] # 0
          <5>1. x.reads[v] >= 1
            BY <1>3, <4>2
          <5>2. y.last[v] = x.last[v]
            BY <2>8, <2>9, <4>2
          <5>3. \/ isOutput(tp, v) /\ x.last[v] = n + 1
                \/ \E r \in i + 1 .. n : readBy(tp, x, r, v) /\ x.last[v] = r
            BY <1>2, <5>1 DEF countsOnly, n
          <5> QED
            BY <2>4, <2>7, <5>2, <5>3
        <4> QED
          BY <4>1, <4>2
      <3> QED
        BY <3>1 DEF countsOnly, n
    <2>14. countsOnce(tp, y, i)
      <3>1. ASSUME NEW v \in 1 .. n, NEW r \in i .. n, y.reads[v] = 1, readBy(tp, y, r, v)
            PROVE  /\ ~isOutput(tp, v)
                   /\ tp.ops[r].k = INV \/ tp.ops[r].a # tp.ops[r].b
                   /\ \A q \in i .. n : readBy(tp, y, q, v) => q = r
        <4>1. CASE v \in {o.a, o.b}
          <5>1. x.reads[v] = 0 /\ (o.k = INV \/ o.a # o.b)
            BY <1>3, <2>9, <3>1, <4>1
          <5>2. \A q \in i .. n : readBy(tp, y, q, v) => q = i
            BY <2>4, <2>6, <2>10, <5>1
          <5>3. r = i
            BY <3>1, <5>2
          <5> QED
            BY <2>10, <5>1, <5>2, <5>3
        <4>2. CASE v \notin {o.a, o.b}
          <5>1. x.reads[v] = 1 /\ readBy(tp, x, r, v) /\ r \in i + 1 .. n
            BY <2>4, <2>5, <2>6, <2>8, <3>1, <4>2
          <5>2. \A q \in i .. n : readBy(tp, y, q, v) => q \in i + 1 .. n /\ readBy(tp, x, q, v)
            BY <2>4, <2>5, <2>6, <4>2
          <5> QED
            BY <1>2, <5>1, <5>2 DEF countsOnce, n
        <4> QED
          BY <4>1, <4>2
      <3> QED
        BY <3>1 DEF countsOnce, n
    <2> QED
      BY <2>1, <2>12, <2>13, <2>14 DEF counted, n
  <1> QED
    BY <1>4, <1>5

\* The counts of a whole tape.
LEMMA LivenessCounts ==
    ASSUME NEW tp \in Tapes
    PROVE  LET back == parse(blob(tp))
           IN counted(tp, liveness(back.ops, back.outs), 1)
  <1> DEFINE n == Len(tp.ops)
             k == Len(tp.outs)
             ops == parse(blob(tp)).ops
             outs == tp.outs
  <1>1. /\ n \in Nat /\ k \in Nat /\ DOMAIN tp.outs = 1 .. k
        /\ \A i \in 1 .. k : outs[i] \in 1 .. n
        /\ \A i \in 1 .. n : /\ tp.ops[i] \in [k : CONST .. INV, a : Nat, b : Nat]
                             /\ tp.ops[i].k >= ADD => /\ tp.ops[i].a \in 1 .. i - 1 /\ tp.ops[i].b \in 1 .. i - 1
                                                      /\ tp.ops[i].k = INV => tp.ops[i].a = tp.ops[i].b
    BY TapeTyped
  <1>2. /\ ops = [i \in 1 .. n |-> asRead(tp.ops[i])] /\ Len(ops) = n /\ parse(blob(tp)).outs = outs
    BY TransitionReadsBack
  <1> HIDE DEF ops, n, k
  <1>3. \A i \in 1 .. n : ops[i] = asRead(tp.ops[i])
    BY <1>2
  <1> HIDE DEF outs
  <1>4. PICK g, h : /\ g[0] = none(n)
                    /\ \A i \in 0 .. k - 1 : g[i + 1] = read(g[i], outs[i + 1], n + 1)
                    /\ h[0] = g[k]
                    /\ \A m \in 0 .. n - 1 : h[m + 1] = scanned(ops, h[m], n - m)
                    /\ liveness(ops, outs) = h[n]
    <2>1. Len(ops) = n /\ Len(outs) = k /\ Len(ops) \in Nat /\ Len(outs) \in Nat
      BY <1>1, <1>2 DEF k, outs
    <2>2. LET n1 == Len(ops)
              k1 == Len(outs)
          IN \E g, h : /\ g[0] = none(n1)
                       /\ \A i \in 0 .. k1 - 1 : g[i + 1] = read(g[i], outs[i + 1], n1 + 1)
                       /\ h[0] = g[k1]
                       /\ \A m \in 0 .. n1 - 1 : h[m + 1] = scanned(ops, h[m], n1 - m)
                       /\ liveness(ops, outs) = h[n1]
      BY <2>1, LivenessStepByStep, Zenon
    <2> QED
      BY <2>1, <2>2, Zenon
  <1> DEFINE good(x, i) == /\ countTypes(x, n)
                           /\ \A v \in 1 .. n : /\ (\E j \in 1 .. i : outs[j] = v) <=> x.reads[v] >= 1
                                                /\ x.reads[v] >= 1 => x.last[v] = n + 1
             S == {i \in 0 .. k : good(g[i], i)}
  <1>5. 0 \in S
    <2>1. good(none(n), 0)
      BY <1>1 DEF none, countTypes
    <2>2. 0 \in 0 .. k
      BY <1>1
    <2> HIDE DEF good
    <2> QED
      BY <1>4, <2>1, <2>2, Zenon
  <1>6. ASSUME NEW i \in 0 .. k - 1, i \in S
        PROVE  i + 1 \in S
    <2>1. good(g[i], i) /\ i + 1 \in 0 .. k /\ i + 1 \in 1 .. k
      BY <1>1, <1>6
    <2> DEFINE x == g[i]
               y == read(x, outs[i + 1], n + 1)
    <2>2. g[i + 1] = y
      BY <1>4
    <2>3. outs[i + 1] \in 1 .. n /\ n + 1 \in Nat
      BY <1>1, <2>1
    <2>4. hasRead(y, x, n, outs[i + 1], n + 1)
      BY <1>1, <2>1, <2>3, ReadCounts
    <2> HIDE DEF y, x
    <2>5. good(x, i)
      BY <2>1 DEF x
    <2>6. /\ countTypes(y, n)
          /\ \A w \in 1 .. n :
               /\ y.reads[w] = IF w = outs[i + 1] THEN x.reads[w] + 1 ELSE x.reads[w]
               /\ y.last[w] = IF w = outs[i + 1] /\ x.reads[w] = 0 THEN n + 1 ELSE x.last[w]
      BY <2>4 DEF hasRead
    <2>7. \A w \in 1 .. n : x.reads[w] \in Nat
      BY <2>5 DEF countTypes
    <2>8. ASSUME NEW v \in 1 .. n
          PROVE  /\ (\E j \in 1 .. i + 1 : outs[j] = v) <=> y.reads[v] >= 1
                 /\ y.reads[v] >= 1 => y.last[v] = n + 1
      <3>1. CASE v = outs[i + 1]
        <4>1. y.reads[v] >= 1 /\ y.last[v] = n + 1
          BY <2>5, <2>6, <2>7, <3>1
        <4>2. i + 1 \in 1 .. i + 1
          BY <2>1
        <4> QED
          BY <3>1, <4>1, <4>2
      <3>2. CASE v # outs[i + 1]
        <4>1. y.reads[v] = x.reads[v] /\ y.last[v] = x.last[v]
          BY <2>6, <3>2
        <4>2. (\E j \in 1 .. i + 1 : outs[j] = v) <=> (\E j \in 1 .. i : outs[j] = v)
          <5>1. \A j \in 1 .. i + 1 : j # i + 1 => j \in 1 .. i
            BY <2>1
          <5>2. \A j \in 1 .. i : j \in 1 .. i + 1
            BY <2>1
          <5> QED
            BY <3>2, <5>1, <5>2
        <4> QED
          BY <2>5, <4>1, <4>2
      <3> QED
        BY <3>1, <3>2
    <2>9. good(y, i + 1)
      BY <2>6, <2>8
    <2> HIDE DEF good
    <2> QED
      BY <2>1, <2>2, <2>9
  <1>7. good(g[k], k)
    <2>1. 0 .. k \subseteq S
      <3> HIDE DEF S
      <3> QED
        BY <1>1, <1>5, <1>6, UpToInduction
    <2>2. k \in 0 .. k
      BY <1>1
    <2> HIDE DEF good
    <2> QED
      BY <2>1, <2>2
  <1>8. counted(tp, h[0], n + 1)
    <2> DEFINE x == h[0]
    <2>1. good(x, k)
      BY <1>4, <1>7
    <2> HIDE DEF x
    <2>2. \A v : isOutput(tp, v) <=> \E j \in 1 .. k : outs[j] = v
      BY <1>1 DEF isOutput, outs
    <2>3. n + 1 .. n = {}
      BY <1>1
    <2>4. countsAll(tp, x, n + 1)
      BY <2>1, <2>2, <2>3 DEF countsAll, n
    <2>5. countsOnly(tp, x, n + 1)
      BY <2>1, <2>2 DEF countsOnly, n
    <2>6. countsOnce(tp, x, n + 1)
      BY <2>3 DEF countsOnce, n
    <2> QED
      BY <2>1, <2>4, <2>5, <2>6 DEF counted, n, x
  <1> DEFINE R == {m \in 0 .. n : counted(tp, h[m], n - m + 1)}
  <1>9. 0 \in R
    <2>1. n - 0 + 1 = n + 1 /\ 0 \in 0 .. n
      BY <1>1
    <2> QED
      BY <1>8, <2>1
  <1>10. ASSUME NEW m \in 0 .. n - 1, m \in R
         PROVE  m + 1 \in R
    <2> DEFINE i == n - m
               x == h[m]
               y == scanned(ops, x, i)
    <2>1. i \in 1 .. n /\ i + 1 = n - m + 1 /\ i = n - (m + 1) + 1 /\ m + 1 \in 0 .. n
      BY <1>1
    <2>2. counted(tp, x, i + 1) /\ h[m + 1] = y
      BY <1>4, <1>10, <2>1
    <2> DEFINE o == tp.ops[i]
    <2> HIDE DEF i, x
    <2>3. countTypes(x, n)
      BY <2>2 DEF counted, n
    <2>4. o \in [k : CONST .. INV, a : Nat, b : Nat] /\ ops[i] = asRead(o)
      BY <1>1, <1>3, <2>1
    <2>5. o.k >= ADD => o.a \in 1 .. i - 1 /\ o.b \in 1 .. i - 1 /\ (o.k = INV => o.a = o.b)
      BY <1>1, <2>1
    <2> HIDE DEF o
    <2>6. hasScanned(y, x, n, i, asRead(o))
      <3> DEFINE q == asRead(o)
      <3>1. q.k = o.k /\ (q.k >= ADD => q.a = o.a /\ q.b = o.b)
        BY <2>4, <2>5 DEF asRead, CONST, ADD, INPUT, INV
      <3>2. q = ops[i] /\ q.k \in Nat /\ (q.k >= ADD => q.a \in 1 .. n /\ q.b \in 1 .. n)
        BY <1>1, <2>1, <2>4, <2>5, <3>1 DEF CONST, INV
      <3> HIDE DEF q
      <3>3. hasScanned(y, x, n, i, q)
        BY <1>1, <2>1, <2>3, <3>2, ScanCounts
      <3> QED
        BY <3>3 DEF q
    <2> HIDE DEF y
    <2>7. hasScanned(y, x, n, i, o)
      <3> DEFINE q == asRead(o)
      <3>1. q.k = o.k /\ (q.k >= ADD => q.a = o.a /\ q.b = o.b)
        BY <2>4, <2>5 DEF asRead, CONST, ADD, INPUT, INV
      <3>2. hasScanned(y, x, n, i, q)
        BY <2>6
      <3> HIDE DEF q
      <3> QED
        BY <3>1, <3>2 DEF hasScanned
    <2>8. counted(tp, y, i)
      BY <2>1, <2>2, <2>7, ScanKeepsCounted DEF n, o
    <2> QED
      BY <2>1, <2>2, <2>8
  <1>11. counted(tp, h[n], 1)
    <2>1. 0 .. n \subseteq R
      <3> HIDE DEF R
      <3> QED
        BY <1>1, <1>9, <1>10, UpToInduction
    <2>2. n \in 0 .. n /\ n - n + 1 = 1
      BY <1>1
    <2> QED
      BY <2>1, <2>2
  <1> QED
    BY <1>2, <1>4, <1>11 DEF ops

-----------------------------------------------------------------------------
(* Fused runs.                                                             *)

UseOK == tape \in Tapes /\ counted(tape, use, 1)

LEMMA PlanUse == PlanSpec => []UseOK
  <1>1. PlanInit => UseOK
    <2> SUFFICES ASSUME PlanInit
                 PROVE  UseOK
      OBVIOUS
    <2>1. PICK tp \in Tapes : /\ tape = tp
                              /\ use = liveness(parse(blob(tp)).ops, parse(blob(tp)).outs)
      BY DEF PlanInit, Encoded
    <2>2. counted(tp, liveness(parse(blob(tp)).ops, parse(blob(tp)).outs), 1)
      BY LivenessCounts
    <2> QED
      BY <2>1, <2>2 DEF UseOK
  <1>2. UseOK /\ [PlanNext]_planVars => UseOK'
    BY DEF UseOK, PlanNext, Pass, Instruction, Finish, planVars
  <1> QED
    BY <1>1, <1>2, PTL DEF PlanSpec

reader(r, v) == op(r).k >= ADD /\ live(r) /\ v \in {op(r).a, op(r).b}
output(v) == \E i \in DOMAIN tape.outs : tape.outs[i] = v

LEMMA OpFacts ==
    ASSUME UseOK
    PROVE  /\ N \in Nat
           /\ \A i \in 1 .. N : /\ op(i).k \in 0 .. 5
                                /\ op(i).k >= ADD => /\ op(i).a \in 1 .. i - 1 /\ op(i).b \in 1 .. i - 1
                                                     /\ op(i).k = INV => op(i).a = op(i).b
           /\ \A v \in 1 .. N : use.reads[v] \in Nat /\ use.last[v] \in Nat
           /\ \A j \in DOMAIN tape.outs : tape.outs[j] \in 1 .. N
  <1>1. tape \in Tapes /\ countTypes(use, Len(tape.ops))
    BY DEF UseOK, counted
  <1>2. ASSUME NEW i \in 1 .. N
        PROVE  /\ op(i).k \in 0 .. 5
               /\ op(i).k >= ADD => /\ op(i).a \in 1 .. i - 1 /\ op(i).b \in 1 .. i - 1
                                    /\ op(i).k = INV => op(i).a = op(i).b
    <2>1. i \in 1 .. Len(tape.ops)
      BY DEF N
    <2>2. tape.ops[i] \in [k : CONST .. INV, a : Nat, b : Nat]
      BY <1>1, <2>1, TapeTyped
    <2>3. tape.ops[i].k \in 0 .. 5
      BY <2>2 DEF CONST, INV
    <2>4. tape.ops[i].k >= ADD => /\ tape.ops[i].a \in 1 .. i - 1 /\ tape.ops[i].b \in 1 .. i - 1
                                  /\ tape.ops[i].k = INV => tape.ops[i].a = tape.ops[i].b
      BY <1>1, <2>1, TapeTyped
    <2> QED
      BY <2>3, <2>4 DEF op
  <1>3. \A v \in 1 .. N : use.reads[v] \in Nat /\ use.last[v] \in Nat
    BY <1>1 DEF countTypes, N
  <1>4. N \in Nat /\ \A j \in DOMAIN tape.outs : tape.outs[j] \in 1 .. N
    BY <1>1, TapeTyped DEF N
  <1> QED
    BY <1>2, <1>3, <1>4

LEMMA UseFacts ==
    ASSUME UseOK, NEW v \in 1 .. N
    PROVE  /\ output(v) => use.reads[v] >= 1 /\ use.last[v] = N + 1
           /\ \A r \in 1 .. N : reader(r, v) => use.reads[v] >= 1 /\ use.last[v] >= r
           /\ use.reads[v] >= 1 => \/ output(v) /\ use.last[v] = N + 1
                                   \/ \E r \in 1 .. N : reader(r, v) /\ use.last[v] = r
           /\ \A r \in 1 .. N : use.reads[v] = 1 /\ reader(r, v) =>
                /\ ~output(v)
                /\ op(r).k = INV \/ op(r).a # op(r).b
                /\ \A q \in 1 .. N : reader(q, v) => q = r
  <1>1. /\ \A w : output(w) <=> isOutput(tape, w)
        /\ \A r, w : reader(r, w) <=> readBy(tape, use, r, w)
    BY DEF output, isOutput, reader, readBy, live, isLive, op
  <1>2. countsAll(tape, use, 1) /\ countsOnly(tape, use, 1) /\ countsOnce(tape, use, 1)
    BY DEF UseOK, counted
  <1>3. /\ output(v) => use.reads[v] >= 1 /\ use.last[v] = N + 1
        /\ \A r \in 1 .. N : reader(r, v) => use.reads[v] >= 1 /\ use.last[v] >= r
    BY <1>1, <1>2 DEF countsAll, N
  <1>4. use.reads[v] >= 1 => \/ output(v) /\ use.last[v] = N + 1
                             \/ \E r \in 1 .. N : reader(r, v) /\ use.last[v] = r
    BY <1>1, <1>2 DEF countsOnly, N
  <1>5. \A r \in 1 .. N : use.reads[v] = 1 /\ reader(r, v) =>
          /\ ~output(v)
          /\ op(r).k = INV \/ op(r).a # op(r).b
          /\ \A q \in 1 .. N : reader(q, v) => q = r
    BY <1>1, <1>2 DEF countsOnce, N, op
  <1> QED
    BY <1>3, <1>4, <1>5

LEMMA FusedReader ==
    ASSUME UseOK, NEW v \in Int, fused(v)
    PROVE  /\ v \in 1 .. N - 1 /\ op(v).k = MUL /\ op(v + 1).k \in {ADD, SUB}
           /\ live(v) /\ live(v + 1) /\ reader(v + 1, v) /\ op(v + 1).a # op(v + 1).b /\ ~output(v)
           /\ \A q \in 1 .. N : reader(q, v) => q = v + 1
  <1>1. /\ v \in 1 .. N - 1 /\ op(v).k = MUL /\ use.reads[v] = 1
        /\ op(v + 1).k \in {ADD, SUB} /\ use.reads[v + 1] > 0 /\ v \in {op(v + 1).a, op(v + 1).b}
    BY DEF fused
  <1>2. v \in 1 .. N /\ v + 1 \in 1 .. N
    BY <1>1, OpFacts
  <1>3. live(v) /\ live(v + 1)
    BY <1>1 DEF live
  <1>4. reader(v + 1, v) /\ op(v + 1).k # INV
    BY <1>1, <1>3 DEF reader, ADD, SUB, INV
  <1> QED
    BY <1>1, <1>2, <1>3, <1>4, UseFacts

LEMMA ChainedReader ==
    ASSUME UseOK, NEW v \in Int, chained(v)
    PROVE  /\ v \in 2 .. N - 2 /\ op(v).k = ADD /\ op(v + 2).k = ADD /\ fused(v - 1) /\ fused(v + 1)
           /\ live(v) /\ live(v + 2) /\ reader(v + 2, v) /\ ~output(v)
           /\ \A q \in 1 .. N : reader(q, v) => q = v + 2
  <1>1. /\ v \in 2 .. N - 2 /\ op(v).k = ADD /\ fused(v - 1) /\ op(v + 2).k = ADD /\ fused((v + 2) - 1)
        /\ use.reads[v] = 1 /\ v \in {op(v + 2).a, op(v + 2).b}
    BY DEF chained, mac
  <1>2. v \in 1 .. N /\ v + 2 \in 1 .. N /\ (v + 2) - 1 = v + 1 /\ v + 1 \in Int /\ v + 1 + 1 = v + 2
    BY <1>1, OpFacts
  <1>3. live(v) /\ live(v + 2)
    BY <1>1, <1>2, FusedReader DEF live
  <1>4. reader(v + 2, v)
    BY <1>1, <1>3 DEF reader, ADD
  <1> QED
    BY <1>1, <1>2, <1>3, <1>4, UseFacts

\* The adds chained up to i, and not one more.
LEMMA LinksAre ==
    ASSUME UseOK, NEW i \in 1 .. N
    PROVE  /\ links(i) \in 0 .. i
           /\ \A d \in 1 .. links(i) : chained(i - 2 * d)
           /\ ~chained(i - 2 * links(i) - 2)
  <1> DEFINE ends == {c \in Nat : ~chained(i - 2 * c - 2)}
  <1>1. i \in Nat
    BY OpFacts
  <1>2. i \in ends
    <2>1. i - 2 * i - 2 \notin 2 .. N - 2
      BY <1>1, OpFacts
    <2> QED
      BY <1>1, <2>1 DEF chained
  <1>3. PICK c \in ends : \A e \in ends : c <= e
    BY <1>2, LeastOf
  <1>4. c \in 0 .. i /\ ~chained(i - 2 * c - 2)
    BY <1>1, <1>2, <1>3
  <1>5. ASSUME NEW d \in 1 .. c
        PROVE  chained(i - 2 * d)
    <2>1. c \in Nat /\ d - 1 \in Nat /\ ~(c <= d - 1) /\ i - 2 * (d - 1) - 2 = i - 2 * d
      BY <1>1, <1>4
    <2>2. d - 1 \notin ends
      BY <1>3, <2>1
    <2> QED
      BY <2>1, <2>2
  <1>6. \E c1 \in 0 .. i : (\A d \in 1 .. c1 : chained(i - 2 * d)) /\ ~chained(i - 2 * c1 - 2)
    BY <1>4, <1>5
  <1> QED
    BY <1>6 DEF links

head(i) == i - 2 * links(i)
\* The ops an instruction computes.
run(i) == IF fused(i - 1) THEN head(i) - 1 .. i ELSE {i}
swallowed(v) == fused(v) \/ chained(v)

LEMMA RunOf ==
    ASSUME UseOK, NEW i \in 1 .. N, fused(i - 1)
    PROVE  /\ links(i) \in Nat /\ head(i) \in 2 .. i /\ fused(head(i) - 1) /\ ~chained(head(i) - 2)
           /\ \A d \in 0 .. links(i) : fused(i - 1 - 2 * d)
           /\ \A m \in head(i) - 1 .. i - 1 : \E d \in 0 .. links(i) :
                m = i - 1 - 2 * d \/ (m = i - 2 * d /\ d >= 1)
           /\ \A m \in head(i) - 1 .. i - 1 : swallowed(m)
  <1> DEFINE c == links(i)
             h == head(i)
  <1>1. /\ c \in 0 .. i /\ \A d \in 1 .. c : chained(i - 2 * d)
        /\ ~chained(i - 2 * c - 2)
    BY LinksAre
  <1>2. i \in Nat /\ c \in Nat /\ h = i - 2 * c
    BY <1>1, OpFacts DEF head
  <1> HIDE DEF c, h
  <1>3. ASSUME NEW d \in 0 .. c
        PROVE  fused(i - 1 - 2 * d)
    <2>1. CASE d = 0
      <3>1. i - 1 - 2 * d = i - 1
        BY <1>2, <2>1
      <3> QED
        BY <3>1
    <2>2. CASE d # 0
      <3>1. d \in 1 .. c /\ i - 2 * d \in Int /\ (i - 2 * d) - 1 = i - 1 - 2 * d
        BY <1>2, <2>2
      <3>2. chained(i - 2 * d)
        BY <1>1, <3>1 DEF c
      <3> QED
        BY <3>1, <3>2, ChainedReader
    <2> QED
      BY <2>1, <2>2
  <1>4. fused(h - 1)
    <2>1. c \in 0 .. c /\ i - 1 - 2 * c = h - 1
      BY <1>2
    <2> QED
      BY <1>3, <2>1
  <1>5. h \in 2 .. i
    <2>1. h - 1 \in Int
      BY <1>2
    <2>2. h - 1 \in 1 .. N - 1
      BY <1>4, <2>1, FusedReader
    <2> QED
      BY <1>2, <2>2
  <1>6. ASSUME NEW m \in h - 1 .. i - 1
        PROVE  \E d \in 0 .. c : m = i - 1 - 2 * d \/ (m = i - 2 * d /\ d >= 1)
    <2> DEFINE e == i - m
    <2>1. e \in 1 .. 2 * c + 1 /\ m = i - e
      BY <1>2
    <2> HIDE DEF e
    <2> DEFINE d == e \div 2
    <2>2. d \in Nat /\ (e = 2 * d \/ e = 2 * d + 1)
      BY <2>1
    <2> HIDE DEF d
    <2>3. d \in 0 .. c
      BY <1>2, <2>1, <2>2
    <2>4. m = i - 1 - 2 * d \/ (m = i - 2 * d /\ d >= 1)
      BY <1>2, <2>1, <2>2
    <2> QED
      BY <2>3, <2>4
  <1>7. ASSUME NEW m \in h - 1 .. i - 1
        PROVE  swallowed(m)
    <2>1. PICK d \in 0 .. c : m = i - 1 - 2 * d \/ (m = i - 2 * d /\ d >= 1)
      BY <1>6
    <2>2. CASE m = i - 1 - 2 * d
      BY <1>3, <2>2 DEF swallowed
    <2>3. CASE m = i - 2 * d /\ d >= 1
      <3>1. d \in 1 .. c
        BY <2>3
      <3>2. chained(i - 2 * d)
        BY <1>1, <3>1 DEF c
      <3> QED
        BY <2>3, <3>2 DEF swallowed
    <2> QED
      BY <2>1, <2>2, <2>3
  <1>8. ~chained(h - 2)
    <2>1. h - 2 = i - 2 * c - 2
      BY <1>2
    <2> QED
      BY <1>1, <2>1 DEF c
  <1> QED
    BY <1>2, <1>3, <1>4, <1>5, <1>6, <1>7, <1>8 DEF c, h

\* What an instruction reads: whatever its ops read, less what is computed within it.
wants(i, v) == \E m \in run(i) : v \in {op(m).a, op(m).b} /\ ~swallowed(v)

LEMMA OperandsPlain ==
    ASSUME UseOK, NEW i \in 1 .. N, computes(i), ~fused(i - 1)
    PROVE  /\ operands(i) = <<op(i).a, op(i).b>>
           /\ ~swallowed(op(i).a) /\ ~swallowed(op(i).b) /\ run(i) = {i}
  <1>1. operands(i) = <<op(i).a, op(i).b>> /\ run(i) = {i}
    BY DEF operands, run
  <1>2. op(i).k >= ADD /\ live(i)
    BY DEF computes
  <1>3. op(i).a \in Int /\ op(i).b \in Int /\ i \in Int
    BY <1>2, OpFacts
  <1>4. ASSUME NEW v \in Int, v \in {op(i).a, op(i).b}
        PROVE  ~swallowed(v)
    <2>1. reader(i, v)
      BY <1>2, <1>4 DEF reader
    <2>2. ASSUME fused(v)
          PROVE  FALSE
      <3>1. i = v + 1
        BY <2>1, <2>2, FusedReader
      <3>2. i - 1 = v
        BY <3>1
      <3> QED
        BY <2>2, <3>2
    <2>3. ASSUME chained(v)
          PROVE  FALSE
      <3>1. i = v + 2 /\ fused(v + 1)
        BY <2>1, <2>3, ChainedReader
      <3>2. i - 1 = v + 1
        BY <3>1
      <3> QED
        BY <3>1, <3>2
    <2> QED
      BY <2>2, <2>3 DEF swallowed
  <1> QED
    BY <1>1, <1>3, <1>4

\* A multiply of a run reads nothing computed within the run, and the first add reads
\* one value from outside.
added(i) == IF op(head(i)).a = head(i) - 1 THEN op(head(i)).b ELSE op(head(i)).a

LEMMA FusedReads ==
    ASSUME UseOK, NEW i \in 1 .. N, fused(i - 1)
    PROVE  /\ \A m \in 1 .. N : fused(m) => ~swallowed(op(m).a) /\ ~swallowed(op(m).b)
           /\ added(i) \in {op(head(i)).a, op(head(i)).b} /\ ~swallowed(added(i))
           /\ \A v \in {op(head(i)).a, op(head(i)).b} : ~swallowed(v) => v = added(i)
           /\ \A m \in head(i) + 1 .. i : ~fused(m) => swallowed(op(m).a) /\ swallowed(op(m).b)
  <1> DEFINE h == head(i)
  <1>1. /\ links(i) \in Nat /\ h \in 2 .. i /\ fused(h - 1) /\ ~chained(h - 2)
        /\ \A d \in 0 .. links(i) : fused(i - 1 - 2 * d)
        /\ \A m \in h - 1 .. i - 1 : \E d \in 0 .. links(i) :
             m = i - 1 - 2 * d \/ (m = i - 2 * d /\ d >= 1)
    BY RunOf
  <1>2. h \in 1 .. N /\ h - 1 \in Int /\ (h - 1) + 1 = h /\ i \in Nat /\ h - 1 \in 1 .. N
    BY <1>1, OpFacts
  <1>3. ASSUME NEW m \in 1 .. N, fused(m), NEW v \in {op(m).a, op(m).b}
        PROVE  ~swallowed(v)
    <2>1. op(m).k = MUL /\ live(m) /\ m \in Int
      BY <1>3, OpFacts, FusedReader
    <2>2. op(m).k >= ADD /\ op(m).k \notin {ADD, SUB}
      BY <2>1 DEF MUL, ADD, SUB
    <2>3. reader(m, v) /\ v \in Int
      BY <1>3, <2>1, <2>2, OpFacts DEF reader
    <2>4. ASSUME fused(v)
          PROVE  FALSE
      <3>1. m = v + 1 /\ op(v + 1).k \in {ADD, SUB}
        BY <2>3, <2>4, FusedReader
      <3> QED
        BY <2>2, <3>1
    <2>5. ASSUME chained(v)
          PROVE  FALSE
      <3>1. m = v + 2 /\ op(v + 2).k = ADD
        BY <2>3, <2>5, ChainedReader
      <3> QED
        BY <2>2, <3>1
    <2> QED
      BY <2>4, <2>5 DEF swallowed
  <1> DEFINE o == op(h)
  <1>4. /\ live(h) /\ h - 1 \in {o.a, o.b} /\ o.a # o.b /\ o.k >= ADD /\ o.a \in Int /\ o.b \in Int
        /\ swallowed(h - 1)
    <2>1. /\ op((h - 1) + 1).k \in {ADD, SUB} /\ live((h - 1) + 1) /\ reader((h - 1) + 1, h - 1)
          /\ op((h - 1) + 1).a # op((h - 1) + 1).b
      BY <1>1, <1>2, FusedReader
    <2>2. o.k \in {ADD, SUB} /\ live(h) /\ reader(h, h - 1) /\ o.a # o.b
      BY <1>2, <2>1
    <2>3. o.k >= ADD
      BY <2>2 DEF ADD, SUB
    <2>4. o.a \in Int /\ o.b \in Int
      BY <1>2, <2>3, OpFacts
    <2> QED
      BY <1>1, <2>2, <2>3, <2>4 DEF reader, swallowed
  <1>5. added(i) = IF o.a = h - 1 THEN o.b ELSE o.a
    BY DEF added
  <1> HIDE DEF h, o
  <1>6. added(i) \in {o.a, o.b} /\ added(i) # h - 1 /\ added(i) \in Int
    BY <1>4, <1>5
  <1>7. \A v \in {o.a, o.b} : ~swallowed(v) => v = added(i)
    BY <1>4, <1>5
  <1>8. ~swallowed(added(i))
    <2> DEFINE v == added(i)
    <2>1. reader(h, v) /\ v \in Int
      BY <1>4, <1>6 DEF reader, o
    <2>2. v # h - 1
      BY <1>6
    <2> HIDE DEF v
    <2>3. ASSUME fused(v)
          PROVE  FALSE
      <3>1. h = v + 1
        BY <1>2, <2>1, <2>3, FusedReader
      <3> QED
        BY <2>1, <2>2, <3>1
    <2>4. ASSUME chained(v)
          PROVE  FALSE
      <3>1. h = v + 2
        BY <1>2, <2>1, <2>4, ChainedReader
      <3>2. h - 2 = v
        BY <2>1, <3>1
      <3> QED
        BY <1>1, <2>4, <3>2
    <2> QED
      BY <2>3, <2>4 DEF swallowed, v
  <1>9. ASSUME NEW m \in h + 1 .. i, ~fused(m)
        PROVE  swallowed(op(m).a) /\ swallowed(op(m).b)
    <2>0. h = i - 2 * links(i)
      BY DEF head, h
    <2>1. \E d \in 0 .. links(i) - 1 : m = i - 2 * d
      <3>1. CASE m = i
        <4>1. 0 \in 0 .. links(i) - 1 /\ m = i - 2 * 0
          BY <1>1, <1>2, <2>0, <3>1
        <4> QED
          BY <4>1
      <3>2. CASE m # i
        <4>1. m \in h - 1 .. i - 1 /\ m >= h + 1
          BY <1>1, <1>2, <3>2
        <4>2. PICK d \in 0 .. links(i) : m = i - 1 - 2 * d \/ (m = i - 2 * d /\ d >= 1)
          BY <1>1, <4>1
        <4>3. m = i - 2 * d
          BY <1>1, <1>9, <4>2
        <4>4. d \in 0 .. links(i) - 1
          BY <1>1, <1>2, <2>0, <4>1, <4>2, <4>3
        <4> QED
          BY <4>3, <4>4
      <3> QED
        BY <3>1, <3>2
    <2>2. PICK d \in 0 .. links(i) - 1 : m = i - 2 * d
      BY <2>1
    <2>3. /\ d \in 0 .. links(i) /\ d + 1 \in 1 .. links(i) /\ i - 1 - 2 * d = m - 1
          /\ i - 2 * (d + 1) = m - 2 /\ m - 1 \in Int /\ m - 2 \in Int /\ (m - 1) + 1 = m
          /\ (m - 2) + 2 = m
      BY <1>1, <1>2, <2>2
    <2>4. fused(m - 1)
      BY <1>1, <2>3
    <2>5. chained(m - 2)
      BY <2>3, LinksAre
    <2>6. reader(m, m - 1) /\ op(m).a # op(m).b
      BY <2>3, <2>4, FusedReader
    <2>7. reader(m, m - 2)
      BY <2>3, <2>5, ChainedReader
    <2>8. m - 1 \in {op(m).a, op(m).b} /\ m - 2 \in {op(m).a, op(m).b} /\ m - 1 # m - 2
      BY <2>3, <2>6, <2>7 DEF reader
    <2>9. {op(m).a, op(m).b} = {m - 1, m - 2}
      BY <2>8
    <2> QED
      BY <2>4, <2>5, <2>9 DEF swallowed
  <1> QED
    BY <1>3, <1>6, <1>7, <1>8, <1>9 DEF h, o

\* Where the multiplies of a fused run are.
LEMMA ProductsOf ==
    ASSUME UseOK, NEW i \in 1 .. N, computes(i), fused(i - 1)
    PROVE  /\ head(i) \in 2 .. i /\ head(i) = i - 2 * links(i) /\ links(i) \in Nat /\ i \in Nat
           /\ run(i) = head(i) - 1 .. i
           /\ \A n \in 1 .. links(i) + 1 : /\ fused(head(i) - 3 + 2 * n)
                                           /\ head(i) - 3 + 2 * n \in run(i)
           /\ \A m \in run(i) : fused(m) => \E n \in 1 .. links(i) + 1 : m = head(i) - 3 + 2 * n
           /\ \A m \in run(i) : ~fused(m) => m \in head(i) .. i
  <1> DEFINE c == links(i)
             h == head(i)
  <1>1. /\ c \in Nat /\ h \in 2 .. i /\ fused(h - 1)
        /\ \A d \in 0 .. c : fused(i - 1 - 2 * d)
        /\ \A m \in h - 1 .. i - 1 : \E d \in 0 .. c : m = i - 1 - 2 * d \/ (m = i - 2 * d /\ d >= 1)
    BY RunOf
  <1>2. i \in Nat /\ h = i - 2 * c /\ run(i) = h - 1 .. i
    BY OpFacts DEF head, run
  <1>3. \A d \in 1 .. c : chained(i - 2 * d)
    BY LinksAre
  <1> HIDE DEF c, h
  <1>4. ASSUME NEW n \in 1 .. c + 1
        PROVE  fused(h - 3 + 2 * n) /\ h - 3 + 2 * n \in h - 1 .. i
    <2>1. c + 1 - n \in 0 .. c /\ i - 1 - 2 * (c + 1 - n) = h - 3 + 2 * n
      BY <1>1, <1>2
    <2>2. h - 3 + 2 * n \in h - 1 .. i
      BY <1>1, <1>2
    <2>3. fused(i - 1 - 2 * (c + 1 - n))
      BY <1>1, <2>1
    <2> QED
      BY <2>1, <2>2, <2>3
  <1>5. ASSUME NEW m \in h - 1 .. i, fused(m)
        PROVE  \E n \in 1 .. c + 1 : m = h - 3 + 2 * n
    <2>1. m # i /\ ~fused(i)
      BY <1>5 DEF computes
    <2>2. m \in h - 1 .. i - 1 /\ m \in Int
      BY <1>1, <1>2, <2>1
    <2>3. PICK d \in 0 .. c : m = i - 1 - 2 * d \/ (m = i - 2 * d /\ d >= 1)
      BY <1>1, <2>2
    <2>4. ~(m = i - 2 * d /\ d >= 1)
      <3> SUFFICES ASSUME m = i - 2 * d, d >= 1
                   PROVE  FALSE
        OBVIOUS
      <3>1. d \in 1 .. c
        OBVIOUS
      <3>2. chained(m)
        BY <1>3, <3>1
      <3>3. op(m).k = ADD /\ op(m).k = MUL
        BY <1>5, <2>2, <3>2, ChainedReader, FusedReader
      <3> QED
        BY <3>3 DEF ADD, MUL
    <2>5. c + 1 - d \in 1 .. c + 1 /\ m = h - 3 + 2 * (c + 1 - d)
      BY <1>1, <1>2, <2>3, <2>4
    <2> QED
      BY <2>5
  <1>6. ASSUME NEW m \in h - 1 .. i, ~fused(m)
        PROVE  m \in h .. i
    BY <1>1, <1>2, <1>6
  <1> QED
    BY <1>1, <1>2, <1>4, <1>5, <1>6 DEF c, h

\* What an instruction reads is a list of just what its ops want.
LEMMA OperandsSet ==
    ASSUME UseOK, NEW i \in 1 .. N, computes(i)
    PROVE  /\ operands(i) \in Seq(1 .. N)
           /\ \A j \in 1 .. Len(operands(i)) : wants(i, operands(i)[j])
           /\ \A v : wants(i, v) => \E j \in 1 .. Len(operands(i)) : operands(i)[j] = v
  <1>0. op(i).k >= ADD
    BY DEF computes
  <1>1. CASE ~fused(i - 1)
    <2> DEFINE a == op(i).a
               b == op(i).b
    <2>1. /\ operands(i) = <<a, b>> /\ ~swallowed(a) /\ ~swallowed(b) /\ run(i) = {i}
      BY <1>1, OperandsPlain
    <2>2. a \in 1 .. N /\ b \in 1 .. N
      BY <1>0, OpFacts
    <2>3. \A v : wants(i, v) <=> v \in {a, b}
      BY <2>1 DEF wants
    <2> HIDE DEF a, b
    <2>4. <<a, b>> \in Seq(1 .. N) /\ Len(<<a, b>>) = 2 /\ <<a, b>>[1] = a /\ <<a, b>>[2] = b
      BY <2>2
    <2>5. \A j \in 1 .. 2 : <<a, b>>[j] \in {a, b}
      BY <2>4
    <2>6. \A v \in {a, b} : \E j \in 1 .. 2 : <<a, b>>[j] = v
      BY <2>4
    <2> QED
      BY <2>1, <2>3, <2>4, <2>5, <2>6
  <1>2. CASE fused(i - 1)
    <2> DEFINE c == links(i)
               h == head(i)
               parts == [n \in 1 .. c + 1 |-> <<op(h - 3 + 2 * n).a, op(h - 3 + 2 * n).b>>]
               p == concat(parts)
               z == added(i)
    <2>1. /\ h \in 2 .. i /\ c \in Nat /\ i \in Nat /\ run(i) = h - 1 .. i
          /\ \A n \in 1 .. c + 1 : fused(h - 3 + 2 * n) /\ h - 3 + 2 * n \in run(i)
          /\ \A m \in run(i) : fused(m) => \E n \in 1 .. c + 1 : m = h - 3 + 2 * n
          /\ \A m \in run(i) : ~fused(m) => m \in h .. i
      BY <1>2, ProductsOf
    <2>2. operands(i) = p \o <<z>>
      BY <1>2 DEF operands, added, head
    <2>3. /\ \A m \in 1 .. N : fused(m) => ~swallowed(op(m).a) /\ ~swallowed(op(m).b)
          /\ z \in {op(h).a, op(h).b} /\ ~swallowed(z)
          /\ \A v \in {op(h).a, op(h).b} : ~swallowed(v) => v = z
          /\ \A m \in h + 1 .. i : ~fused(m) => swallowed(op(m).a) /\ swallowed(op(m).b)
      BY <1>2, FusedReads
    <2>4. N \in Nat /\ i \in 1 .. N /\ h - 1 \in 1 .. N /\ fused(h - 1) /\ h - 1 \in Int
      BY <1>2, <2>1, OpFacts, RunOf
    <2>5. op(h).k >= ADD
      <3>1. op((h - 1) + 1).k \in {ADD, SUB} /\ (h - 1) + 1 = h
        BY <2>1, <2>4, FusedReader
      <3> QED
        BY <3>1 DEF ADD, SUB
    <2>6. z \in 1 .. N
      <3>1. op(h).a \in 1 .. h - 1 /\ op(h).b \in 1 .. h - 1 /\ h \in 1 .. N
        BY <2>1, <2>4, <2>5, OpFacts
      <3>2. z \in 1 .. h - 1
        BY <2>3, <3>1
      <3> QED
        BY <2>1, <2>4, <3>1, <3>2
    <2>7. \A n \in 1 .. c + 1 : /\ h - 3 + 2 * n \in 1 .. N
                                /\ op(h - 3 + 2 * n).a \in 1 .. N /\ op(h - 3 + 2 * n).b \in 1 .. N
      <3> SUFFICES ASSUME NEW n \in 1 .. c + 1
                   PROVE  LET m == h - 3 + 2 * n
                          IN m \in 1 .. N /\ op(m).a \in 1 .. N /\ op(m).b \in 1 .. N
        OBVIOUS
      <3> DEFINE m == h - 3 + 2 * n
      <3>1. fused(m) /\ m \in h - 1 .. i
        BY <2>1
      <3>2. m \in 1 .. N
        BY <2>1, <2>4, <3>1, SMTT(40)
      <3> HIDE DEF m
      <3>3. op(m).k >= ADD
        BY <3>1, <3>2, FusedReader, OpFacts DEF ADD, MUL
      <3>4. op(m).a \in 1 .. m - 1 /\ op(m).b \in 1 .. m - 1
        BY <3>2, <3>3, OpFacts
      <3>5. op(m).a \in 1 .. N /\ op(m).b \in 1 .. N
        BY <2>4, <3>2, <3>4
      <3> QED
        BY <3>2, <3>5 DEF m
    <2> HIDE DEF c, h, z
    <2>8. Len(parts) = c + 1 /\ c + 1 \in Nat
      BY <2>1
    <2>9. \A n \in 1 .. c + 1 : /\ parts[n] \in Seq(1 .. N) /\ Len(parts[n]) = 2
                                /\ parts[n][1] = op(h - 3 + 2 * n).a
                                /\ parts[n][2] = op(h - 3 + 2 * n).b
      BY <2>7
    <2> HIDE DEF parts
    <2>10. /\ p \in Seq(1 .. N) /\ Len(p) = 2 * (c + 1)
           /\ \A q \in 0 .. c : laid(p, 2 * q, parts[q + 1])
      <3> DEFINE k == c + 1
                 X == 1 .. N
      <3>1. /\ Len(parts) = k /\ k \in Nat
            /\ \A n \in 1 .. k : parts[n] \in Seq(X) /\ Len(parts[n]) = 2
        BY <2>8, <2>9
      <3> HIDE DEF k, X
      <3>2. /\ concat(parts) \in Seq(X) /\ Len(concat(parts)) = 2 * k
            /\ \A q \in 0 .. k - 1 : laid(concat(parts), 2 * q, parts[q + 1])
        BY <3>1, TwoParts, Zenon
      <3>3. p \in Seq(X) /\ Len(p) = 2 * k /\ \A q \in 0 .. k - 1 : laid(p, 2 * q, parts[q + 1])
        BY <3>2
      <3> HIDE DEF p
      <3>4. p \in Seq(1 .. N)
        BY <3>3 DEF X
      <3>5. Len(p) = 2 * (c + 1)
        BY <3>3 DEF k
      <3>6. 0 .. c = 0 .. k - 1
        BY <2>1 DEF k
      <3> QED
        BY <3>3, <3>4, <3>5, <3>6, Zenon
    <2> HIDE DEF p
    <2>11. \A q \in 0 .. c : p[2 * q + 1] = op(h - 1 + 2 * q).a /\ p[2 * q + 2] = op(h - 1 + 2 * q).b
      <3> SUFFICES ASSUME NEW q \in 0 .. c
                   PROVE  p[2 * q + 1] = op(h - 1 + 2 * q).a /\ p[2 * q + 2] = op(h - 1 + 2 * q).b
        OBVIOUS
      <3>1. q + 1 \in 1 .. c + 1 /\ h - 3 + 2 * (q + 1) = h - 1 + 2 * q
        BY <2>1
      <3>2. laid(p, 2 * q, parts[q + 1]) /\ Len(parts[q + 1]) = 2
        BY <2>9, <2>10, <3>1
      <3>3. p[2 * q + 1] = parts[q + 1][1] /\ p[2 * q + 2] = parts[q + 1][2]
        BY <3>2 DEF laid
      <3> QED
        BY <2>9, <3>1, <3>3
    <2>12. <<z>> \in Seq(1 .. N) /\ Len(<<z>>) = 1 /\ <<z>>[1] = z
      BY <2>6
    <2>13. /\ p \o <<z>> \in Seq(1 .. N) /\ Len(p \o <<z>>) = Len(p) + 1
           /\ \A j \in 1 .. Len(p) : (p \o <<z>>)[j] = p[j]
           /\ (p \o <<z>>)[Len(p) + 1] = z
      BY <2>10, <2>12, Joined
    <2> DEFINE rd == operands(i)
    <2>14. /\ rd \in Seq(1 .. N) /\ Len(rd) = 2 * c + 3 /\ rd[2 * c + 3] = z
           /\ \A q \in 0 .. c : rd[2 * q + 1] = op(h - 1 + 2 * q).a /\ rd[2 * q + 2] = op(h - 1 + 2 * q).b
      <3>1. /\ rd \in Seq(1 .. N) /\ Len(rd) = 2 * c + 3 /\ rd[2 * c + 3] = z
            /\ \A j \in 1 .. 2 * c + 2 : rd[j] = p[j]
        <4>1. Len(p) = 2 * c + 2 /\ Len(p) + 1 = 2 * c + 3
          BY <2>1, <2>10
        <4>2. rd = p \o <<z>>
          BY <2>2
        <4> HIDE DEF rd
        <4>3. rd \in Seq(1 .. N) /\ Len(rd) = Len(p) + 1 /\ rd[Len(p) + 1] = z
          BY <2>13, <4>2, Zenon
        <4>4. \A j \in 1 .. Len(p) : rd[j] = p[j]
          BY <2>13, <4>2, Zenon
        <4> QED
          BY <4>1, <4>3, <4>4, Zenon
      <3>2. \A q \in 0 .. c : rd[2 * q + 1] = p[2 * q + 1] /\ rd[2 * q + 2] = p[2 * q + 2]
        BY <2>1, <3>1
      <3> QED
        BY <2>11, <3>1, <3>2
    <2> HIDE DEF rd
    <2>15. wants(i, z)
      <3>1. h \in run(i)
        BY <2>1
      <3> QED
        BY <2>3, <3>1 DEF wants
    <2>16. ASSUME NEW j \in 1 .. Len(rd)
           PROVE  wants(i, rd[j])
      <3>1. CASE j = 2 * c + 3
        BY <2>14, <2>15, <3>1
      <3>2. CASE j # 2 * c + 3
        <4>1. \E q \in 0 .. c : j = 2 * q + 1 \/ j = 2 * q + 2
          <5> DEFINE q == (j - 1) \div 2
          <5>1. j \in 1 .. 2 * c + 2
            BY <2>1, <2>14, <3>2
          <5>2. q \in Nat /\ (j - 1 = 2 * q \/ j - 1 = 2 * q + 1)
            BY <5>1, <2>1
          <5> HIDE DEF q
          <5>3. q \in 0 .. c /\ (j = 2 * q + 1 \/ j = 2 * q + 2)
            BY <2>1, <5>1, <5>2
          <5> QED
            BY <5>3
        <4>2. PICK q \in 0 .. c : j = 2 * q + 1 \/ j = 2 * q + 2
          BY <4>1
        <4> DEFINE m == h - 1 + 2 * q
        <4>3. rd[j] \in {op(m).a, op(m).b}
          BY <2>14, <4>2
        <4>4. q + 1 \in 1 .. c + 1 /\ h - 3 + 2 * (q + 1) = m
          BY <2>1, <4>2
        <4>5. fused(m) /\ m \in run(i)
          BY <2>1, <4>4
        <4>6. m \in 1 .. N
          BY <2>1, <2>4, <4>5
        <4> HIDE DEF m
        <4>7. ~swallowed(rd[j])
          BY <2>3, <4>3, <4>5, <4>6
        <4> QED
          BY <4>3, <4>5, <4>7 DEF wants
      <3> QED
        BY <3>1, <3>2
    <2>17. ASSUME NEW v, wants(i, v)
           PROVE  \E j \in 1 .. Len(rd) : rd[j] = v
      <3>1. PICK m \in run(i) : v \in {op(m).a, op(m).b} /\ ~swallowed(v)
        BY <2>17 DEF wants
      <3>2. CASE fused(m)
        <4>1. PICK n \in 1 .. c + 1 : m = h - 3 + 2 * n
          BY <2>1, <3>2
        <4>2. /\ n - 1 \in 0 .. c /\ m = h - 1 + 2 * (n - 1)
              /\ 2 * (n - 1) + 1 \in 1 .. Len(rd) /\ 2 * (n - 1) + 2 \in 1 .. Len(rd)
          BY <2>1, <2>14, <4>1
        <4>3. rd[2 * (n - 1) + 1] = op(m).a /\ rd[2 * (n - 1) + 2] = op(m).b
          BY <2>14, <4>2
        <4> QED
          BY <3>1, <4>2, <4>3
      <3>3. CASE ~fused(m)
        <4>1. m \in h .. i
          BY <2>1, <3>3
        <4>2. m = h
          <5>1. m \notin h + 1 .. i
            BY <2>3, <3>1, <3>3
          <5> QED
            BY <2>1, <4>1, <5>1
        <4>3. v = z
          BY <2>3, <3>1, <4>2
        <4>4. 2 * c + 3 \in 1 .. Len(rd)
          BY <2>1, <2>14
        <4> QED
          BY <2>14, <4>3, <4>4
      <3> QED
        BY <3>2, <3>3
    <2> QED
      BY <2>14, <2>16, <2>17 DEF rd
  <1> QED
    BY <1>1, <1>2

-----------------------------------------------------------------------------
(* What is still to be read.                                               *)

LEMMA RunIsLive ==
    ASSUME UseOK, NEW i \in 1 .. N, computes(i), NEW m \in run(i)
    PROVE  /\ m \in 1 .. i /\ m \in 1 .. N /\ op(m).k >= ADD /\ live(m)
           /\ \A p \in 1 .. N : computes(p) /\ p < i => p < m
  <1>0. op(i).k >= ADD /\ live(i) /\ N \in Nat /\ i \in Nat
    BY OpFacts DEF computes
  <1>1. CASE ~fused(i - 1)
    <2>1. m = i
      BY <1>1 DEF run
    <2> QED
      BY <1>0, <2>1
  <1>2. CASE fused(i - 1)
    <2> DEFINE h == head(i)
    <2>1. h \in 2 .. i /\ \A q \in h - 1 .. i - 1 : swallowed(q)
      BY <1>2, RunOf
    <2>2. m \in h - 1 .. i
      BY <1>2 DEF run
    <2> HIDE DEF h
    <2>3. m \in 1 .. i /\ m \in 1 .. N
      BY <1>0, <2>1, <2>2
    <2>4. op(m).k >= ADD /\ live(m)
      <3>1. CASE m = i
        BY <1>0, <3>1
      <3>2. CASE m # i
        <4>1. swallowed(m) /\ m \in Int
          BY <1>0, <2>1, <2>2, <3>2
        <4>2. fused(m) => op(m).k = MUL /\ live(m)
          BY <4>1, FusedReader
        <4>3. chained(m) => op(m).k = ADD /\ live(m)
          BY <4>1, ChainedReader
        <4> QED
          BY <4>1, <4>2, <4>3 DEF swallowed, ADD, MUL
      <3> QED
        BY <3>1, <3>2
    <2>5. ASSUME NEW p \in 1 .. N, computes(p), p < i
          PROVE  p < m
      <3>1. ~swallowed(p)
        BY <2>5 DEF computes, swallowed
      <3>2. p \notin h - 1 .. i - 1
        BY <2>1, <3>1
      <3> QED
        BY <1>0, <2>1, <2>2, <2>5, <3>2
    <2> QED
      BY <2>3, <2>4, <2>5
  <1> QED
    BY <1>1, <1>2

\* A value an instruction reads is an earlier one, and a leaf or computed by itself.
LEMMA WantedIsKept ==
    ASSUME UseOK, NEW i \in 1 .. N, computes(i), NEW v, wants(i, v)
    PROVE  /\ v \in 1 .. i - 1 /\ v \in 1 .. N
           /\ op(v).k >= ADD => computes(v)
           /\ use.reads[v] >= 1
           /\ \A p \in 1 .. N : computes(p) /\ p < i => use.last[v] > p
  <1>1. PICK m \in run(i) : v \in {op(m).a, op(m).b} /\ ~swallowed(v)
    BY DEF wants
  <1>2. /\ m \in 1 .. i /\ m \in 1 .. N /\ op(m).k >= ADD /\ live(m)
        /\ \A p \in 1 .. N : computes(p) /\ p < i => p < m
    BY RunIsLive
  <1>3. v \in 1 .. m - 1 /\ N \in Nat
    BY <1>1, <1>2, OpFacts
  <1>4. v \in 1 .. i - 1 /\ v \in 1 .. N
    BY <1>2, <1>3
  <1>5. reader(m, v)
    BY <1>1, <1>2 DEF reader
  <1>6. use.reads[v] >= 1 /\ use.last[v] >= m /\ use.reads[v] \in Nat /\ use.last[v] \in Nat
    BY <1>2, <1>4, <1>5, UseFacts, OpFacts
  <1>7. live(v)
    BY <1>6 DEF live
  <1>8. op(v).k >= ADD => computes(v)
    BY <1>1, <1>7 DEF computes, swallowed
  <1>9. \A p \in 1 .. N : computes(p) /\ p < i => use.last[v] > p
    BY <1>2, <1>6
  <1> QED
    BY <1>4, <1>6, <1>8, <1>9

LEMMA OutputIsKept ==
    ASSUME UseOK, NEW v, output(v)
    PROVE  /\ v \in 1 .. N
           /\ op(v).k >= ADD => computes(v)
           /\ use.reads[v] >= 1 /\ use.last[v] = N + 1
  <1>1. v \in 1 .. N
    BY OpFacts DEF output
  <1>2. use.reads[v] >= 1 /\ use.last[v] = N + 1
    BY <1>1, UseFacts
  <1>3. ~fused(v) /\ ~chained(v) /\ live(v)
    BY <1>1, <1>2, OpFacts, FusedReader, ChainedReader DEF live
  <1> QED
    BY <1>1, <1>2, <1>3 DEF computes

\* Value v is still to be read, from op p on.
wanted(v, p) == output(v) \/ \E i \in p .. N : computes(i) /\ wants(i, v)

LEMMA StillWanted ==
    ASSUME UseOK, NEW p \in 1 .. N, computes(p), NEW v, wanted(v, p + 1)
    PROVE  /\ v \in 1 .. N /\ use.reads[v] >= 1 /\ use.last[v] > p /\ wanted(v, p)
           /\ op(v).k >= ADD => computes(v)
  <1>0. N \in Nat /\ p \in Nat
    BY OpFacts
  <1>1. CASE output(v)
    BY <1>0, <1>1, OutputIsKept DEF wanted
  <1>2. CASE ~output(v)
    <2>1. PICK i \in p + 1 .. N : computes(i) /\ wants(i, v)
      BY <1>2 DEF wanted
    <2>2. i \in 1 .. N /\ i \in p .. N /\ p < i
      BY <1>0
    <2>3. wanted(v, p)
      BY <2>1, <2>2 DEF wanted
    <2> QED
      BY <2>1, <2>2, <2>3, WantedIsKept
  <1> QED
    BY <1>1, <1>2

-----------------------------------------------------------------------------
(* The cells.                                                              *)

\* The cells of the values still to be read are theirs alone, and not free.
SlotsInv ==
    /\ pos \in 1 .. N + 1 /\ n_slots \in Nat
    /\ slot \in [1 .. N -> Nat]
    /\ \A v \in 1 .. N : IF computes(v) /\ v < pos THEN slot[v] \in 0 .. n_slots - 1
                         ELSE slot[v] = NO_SLOT
    /\ cells \in Seq(Nat) /\ Len(cells) = n_slots
    /\ free \in Seq(Nat)
    /\ \A j \in 1 .. Len(free) : free[j] \in 0 .. n_slots - 1
    /\ \A h, j \in 1 .. Len(free) : free[h] = free[j] => h = j
    /\ \A v \in 1 .. N : v < pos /\ computes(v) /\ wanted(v, pos) =>
         cells[slot[v] + 1] = v /\ \A j \in 1 .. Len(free) : free[j] # slot[v]

leaves(v, p) == wants(p, v) /\ slot[v] # NO_SLOT /\ use.last[v] <= p

\* The cells an instruction's operands leave: each once, of the values it reads last.
LEMMA FreedAre ==
    ASSUME UseOK, NEW p \in 1 .. N, computes(p), DOMAIN slot = 1 .. N
    PROVE  \E w \in Seq(1 .. N) :
             /\ freed(p) = [i \in 1 .. Len(w) |-> slot[w[i]]]
             /\ \A i \in 1 .. Len(w) : leaves(w[i], p)
             /\ \A h, i \in 1 .. Len(w) : w[h] = w[i] => h = i
             /\ \A v : leaves(v, p) => \E i \in 1 .. Len(w) : w[i] = v
  <1> DEFINE rd == operands(p)
             m == Len(rd)
             goes(j) == /\ \A h \in 1 .. j - 1 : rd[h] # rd[j]
                        /\ slot[rd[j]] # NO_SLOT /\ use.last[rd[j]] <= p
             took == {j \in DOMAIN rd : goes(j)}
             places == inOrder(m, took)
             n == Len(places)
             w == [i \in 1 .. n |-> rd[places[i]]]
  <1>1. /\ rd \in Seq(1 .. N)
        /\ \A j \in 1 .. m : wants(p, rd[j])
        /\ \A v : wants(p, v) => \E j \in 1 .. m : rd[j] = v
    BY OperandsSet
  <1>2. m \in Nat /\ DOMAIN rd = 1 .. m /\ \A j \in 1 .. m : rd[j] \in 1 .. N
    BY <1>1, Elements
  <1>3. freed(p) = [i \in DOMAIN places |-> slot[rd[places[i]]]]
    BY DEF freed
  <1>4. \A j : j \in took <=> j \in 1 .. m /\ goes(j)
    BY <1>2
  <1> HIDE DEF rd, m, took
  <1>5. /\ places \in Seq(1 .. m)
        /\ \A j \in 1 .. n : places[j] \in took
        /\ \A i \in 1 .. m : i \in took => \E j \in 1 .. n : places[j] = i
        /\ \A h \in 1 .. n : \A j \in 1 .. n : h < j => places[h] < places[j]
    BY <1>2, OrderPicks
  <1> HIDE DEF places
  <1>6. n \in Nat /\ DOMAIN places = 1 .. n /\ \A i \in 1 .. n : places[i] \in 1 .. m
    BY <1>5, Elements
  <1> HIDE DEF n
  <1>7. \A i \in 1 .. n : w[i] = rd[places[i]] /\ w[i] \in 1 .. N
    BY <1>2, <1>6
  <1>8. w \in Seq(1 .. N) /\ Len(w) = n
    <2>1. DOMAIN w = 1 .. n /\ w = [i \in 1 .. n |-> w[i]]
      OBVIOUS
    <2> HIDE DEF w
    <2> QED
      BY <1>6, <1>7, <2>1, Listed
  <1>9. freed(p) = [i \in 1 .. n |-> slot[w[i]]]
    BY <1>3, <1>6, <1>7
  <1> HIDE DEF w
  <1>10. \A i \in 1 .. n : leaves(w[i], p)
    <2> SUFFICES ASSUME NEW i \in 1 .. n
                 PROVE  leaves(w[i], p)
      OBVIOUS
    <2>1. places[i] \in 1 .. m /\ goes(places[i])
      BY <1>4, <1>5
    <2> QED
      BY <1>1, <1>7, <2>1 DEF leaves
  <1>11. ASSUME NEW h \in 1 .. n, NEW i \in 1 .. n, w[h] = w[i]
         PROVE  h = i
    <2>1. /\ places[h] \in 1 .. m /\ goes(places[h]) /\ places[i] \in 1 .. m /\ goes(places[i])
          /\ rd[places[h]] = rd[places[i]]
      BY <1>4, <1>5, <1>7, <1>11
    <2>2. places[h] = places[i]
      <3>1. places[h] \notin 1 .. places[i] - 1 /\ places[i] \notin 1 .. places[h] - 1
        BY <2>1
      <3> QED
        BY <1>2, <2>1, <3>1
    <2>3. h \in Nat /\ i \in Nat
      BY <1>6
    <2>4. places[h] \in Int /\ places[i] \in Int
      BY <1>2, <2>1
    <2>5. ~(h < i)
      <3> SUFFICES ASSUME h < i
                   PROVE  FALSE
        OBVIOUS
      <3>1. places[h] < places[i]
        BY <1>5
      <3> QED
        BY <2>2, <2>4, <3>1
    <2>6. ~(i < h)
      <3> SUFFICES ASSUME i < h
                   PROVE  FALSE
        OBVIOUS
      <3>1. places[i] < places[h]
        BY <1>5
      <3> QED
        BY <2>2, <2>4, <3>1
    <2> QED
      BY <2>3, <2>5, <2>6
  <1>12. ASSUME NEW v, leaves(v, p)
         PROVE  \E i \in 1 .. n : w[i] = v
    <2> DEFINE J == {j \in Nat : j \in 1 .. m /\ rd[j] = v}
    <2>1. wants(p, v) /\ slot[v] # NO_SLOT /\ use.last[v] <= p
      BY <1>12 DEF leaves
    <2>2. PICK j0 \in 1 .. m : rd[j0] = v
      BY <1>1, <2>1
    <2>3. j0 \in J
      BY <1>2, <2>2
    <2>4. PICK j \in J : \A h \in J : j <= h
      BY <2>3, LeastOf
    <2>5. j \in 1 .. m /\ rd[j] = v /\ j \in Nat
      BY <2>4
    <2>6. \A h \in 1 .. j - 1 : rd[h] # rd[j]
      <3> SUFFICES ASSUME NEW h \in 1 .. j - 1, rd[h] = rd[j]
                   PROVE  FALSE
        OBVIOUS
      <3>1. h \in J /\ ~(j <= h)
        BY <1>2, <2>5
      <3> QED
        BY <2>4, <3>1
    <2>7. goes(j)
      BY <2>1, <2>5, <2>6
    <2>8. j \in took
      BY <1>4, <2>5, <2>7
    <2>9. PICK i \in 1 .. n : places[i] = j
      BY <1>5, <2>5, <2>8
    <2> QED
      BY <1>7, <2>5, <2>9
  <1> QED
    BY <1>6, <1>8, <1>9, <1>10, <1>11, <1>12

\* None of this changes while the plan is made.
LEMMA SameTape ==
    ASSUME tape' = tape, use' = use
    PROVE  /\ N' = N
           /\ \A v : computes(v)' <=> computes(v)
           /\ \A v : output(v)' <=> output(v)
           /\ \A v, p : wanted(v, p)' <=> wanted(v, p)
  <1>1. N' = N
    BY DEF N
  <1>2. \A i : op(i)' = op(i)
    BY DEF op
  <1>3. \A i : live(i)' <=> live(i)
    BY <1>2 DEF live
  <1>4. \A i : fused(i)' <=> fused(i)
    BY <1>1, <1>2 DEF fused
  <1>5. \A i : mac(i)' <=> mac(i)
    BY <1>2, <1>4 DEF mac
  <1>6. \A i : chained(i)' <=> chained(i)
    BY <1>1, <1>2, <1>5 DEF chained
  <1>7. \A i : computes(i)' <=> computes(i)
    BY <1>2, <1>3, <1>4, <1>6 DEF computes
  <1>8. \A i : links(i)' = links(i)
    BY <1>6 DEF links
  <1>9. \A i : head(i)' = head(i)
    BY <1>8 DEF head
  <1>10. \A i : run(i)' = run(i)
    BY <1>4, <1>9 DEF run
  <1>11. \A i : swallowed(i)' <=> swallowed(i)
    BY <1>4, <1>6 DEF swallowed
  <1>12. \A i, v : wants(i, v)' <=> wants(i, v)
    BY <1>2, <1>10, <1>11 DEF wants
  <1>13. \A v : output(v)' <=> output(v)
    BY DEF output
  <1>14. \A v, p : wanted(v, p)' <=> wanted(v, p)
    BY <1>1, <1>7, <1>12, <1>13 DEF wanted
  <1> QED
    BY <1>1, <1>7, <1>13, <1>14

once(s) == \A h, j \in 1 .. Len(s) : s[h] = s[j] => h = j

\* The cells that stand open when instruction p takes one.
LEMMA OpenAre ==
    ASSUME UseOK, SlotsInv, NEW p \in 1 .. N, p = pos, computes(p)
    PROVE  LET open == free \o freed(p)
           IN /\ open \in Seq(Nat) /\ once(open)
              /\ \A j \in 1 .. Len(open) : open[j] \in 0 .. n_slots - 1
              /\ \A v \in 1 .. N : v < p /\ computes(v) /\ wanted(v, p + 1) =>
                   \A j \in 1 .. Len(open) : open[j] # slot[v]
              /\ \A v : leaves(v, p) => \E j \in 1 .. Len(open) : open[j] = slot[v]
              /\ \A h \in 1 .. Len(free) : \E j \in 1 .. Len(open) : open[j] = free[h]
  <1>0. PICK w \in Seq(1 .. N) :
             /\ freed(p) = [i \in 1 .. Len(w) |-> slot[w[i]]]
             /\ \A i \in 1 .. Len(w) : leaves(w[i], p)
             /\ \A h, i \in 1 .. Len(w) : w[h] = w[i] => h = i
             /\ \A v : leaves(v, p) => \E i \in 1 .. Len(w) : w[i] = v
    <2>1. DOMAIN slot = 1 .. N
      BY DEF SlotsInv
    <2> QED
      BY <2>1, FreedAre
  <1> DEFINE n == Len(w)
  <1>1. /\ w \in Seq(1 .. N) /\ Len(w) = n /\ n \in Nat
        /\ freed(p) = [i \in 1 .. n |-> slot[w[i]]]
        /\ \A i \in 1 .. n : leaves(w[i], p)
        /\ \A h, i \in 1 .. n : w[h] = w[i] => h = i
        /\ \A v : leaves(v, p) => \E i \in 1 .. n : w[i] = v
    BY <1>0
  <1> HIDE DEF n
  <1>2. /\ n_slots \in Nat /\ slot \in [1 .. N -> Nat]
        /\ \A v \in 1 .. N : IF computes(v) /\ v < p THEN slot[v] \in 0 .. n_slots - 1
                             ELSE slot[v] = NO_SLOT
        /\ free \in Seq(Nat)
        /\ \A j \in 1 .. Len(free) : free[j] \in 0 .. n_slots - 1
        /\ \A h, j \in 1 .. Len(free) : free[h] = free[j] => h = j
        /\ \A v \in 1 .. N : v < p /\ computes(v) /\ wanted(v, p) =>
             cells[slot[v] + 1] = v /\ \A j \in 1 .. Len(free) : free[j] # slot[v]
    BY DEF SlotsInv
  <1>3. N \in Nat /\ p \in Nat /\ p \in p .. N
    BY OpFacts
  <1>4. \A i \in 1 .. n : /\ w[i] \in 1 .. N /\ w[i] < p /\ computes(w[i]) /\ wanted(w[i], p)
                          /\ use.last[w[i]] <= p /\ slot[w[i]] \in 0 .. n_slots - 1
    <2> SUFFICES ASSUME NEW i \in 1 .. n
                 PROVE  /\ w[i] \in 1 .. N /\ w[i] < p /\ computes(w[i]) /\ wanted(w[i], p)
                        /\ use.last[w[i]] <= p /\ slot[w[i]] \in 0 .. n_slots - 1
      OBVIOUS
    <2>0. w[i] \in 1 .. N
      BY <1>1, Elements
    <2>1. w[i] \in 1 .. N /\ wants(p, w[i]) /\ slot[w[i]] # NO_SLOT /\ use.last[w[i]] <= p
      BY <1>1, <2>0, Zenon DEF leaves
    <2>2. computes(w[i]) /\ w[i] < p /\ slot[w[i]] \in 0 .. n_slots - 1
      BY <1>2, <2>1
    <2>3. wanted(w[i], p)
      BY <1>3, <2>1 DEF wanted
    <2> QED
      BY <2>1, <2>2, <2>3
  <1> DEFINE f == freed(p)
  <1>5. DOMAIN f = 1 .. n /\ \A i \in 1 .. n : f[i] = slot[w[i]] /\ f[i] \in 0 .. n_slots - 1
    BY <1>1, <1>4
  <1>6. f = [i \in 1 .. n |-> f[i]]
    BY <1>1, <1>5
  <1> HIDE DEF f
  <1>7. f \in Seq(Nat) /\ Len(f) = n
    <2>0. n \in Nat
      BY <1>1
    <2>1. \A i \in 1 .. n : f[i] \in Nat
      BY <1>2, <1>5
    <2> QED
      BY <1>5, <1>6, <2>0, <2>1, Listed
  <1> DEFINE k == Len(free)
             open == free \o f
  <1>8. /\ k \in Nat /\ open \in Seq(Nat) /\ Len(open) = k + n
        /\ \A j \in 1 .. k : open[j] = free[j]
        /\ \A i \in 1 .. n : open[k + i] = f[i]
    <2>0. \A a, b \in Seq(Nat) : /\ a \o b \in Seq(Nat) /\ Len(a \o b) = Len(a) + Len(b)
                                 /\ \A j \in 1 .. Len(a) : (a \o b)[j] = a[j]
                                 /\ \A i \in 1 .. Len(b) : (a \o b)[Len(a) + i] = b[i]
      BY Joined
    <2>1. /\ free \o f \in Seq(Nat) /\ Len(free \o f) = Len(free) + Len(f)
          /\ \A j \in 1 .. Len(free) : (free \o f)[j] = free[j]
          /\ \A i \in 1 .. Len(f) : (free \o f)[Len(free) + i] = f[i]
      BY <1>2, <1>7, <2>0, ZenonT(40)
    <2>2. Len(free) \in Nat
      BY <1>2
    <2> QED
      BY <1>7, <2>1, <2>2, Zenon
  <1> HIDE DEF k, open
  <1>9. \A j \in 1 .. k + n : j \in 1 .. k \/ \E i \in 1 .. n : j = k + i
    <2> SUFFICES ASSUME NEW j \in 1 .. k + n, j \notin 1 .. k
                 PROVE  \E i \in 1 .. n : j = k + i
      OBVIOUS
    <2>1. j - k \in 1 .. n /\ j = k + (j - k)
      BY <1>1, <1>8
    <2> QED
      BY <2>1
  <1>10. \A j \in 1 .. Len(open) : open[j] \in 0 .. n_slots - 1
    <2> SUFFICES ASSUME NEW j \in 1 .. k + n
                 PROVE  open[j] \in 0 .. n_slots - 1
      BY <1>8
    <2>1. CASE j \in 1 .. k
      BY <1>2, <1>8, <2>1 DEF k
    <2>2. CASE \E i \in 1 .. n : j = k + i
      BY <1>5, <1>8, <2>2
    <2> QED
      BY <1>9, <2>1, <2>2
  <1>11. \A i \in 1 .. n : \A j \in 1 .. k : f[i] # free[j]
    <2> SUFFICES ASSUME NEW i \in 1 .. n, NEW j \in 1 .. k
                 PROVE  f[i] # free[j]
      OBVIOUS
    <2>1. free[j] # slot[w[i]]
      BY <1>2, <1>4 DEF k
    <2> QED
      BY <1>5, <2>1
  <1>12. \A h, i \in 1 .. n : f[h] = f[i] => h = i
    <2> SUFFICES ASSUME NEW h \in 1 .. n, NEW i \in 1 .. n, f[h] = f[i]
                 PROVE  h = i
      OBVIOUS
    <2>1. slot[w[h]] = slot[w[i]]
      BY <1>5
    <2>2. cells[slot[w[h]] + 1] = w[h] /\ cells[slot[w[i]] + 1] = w[i]
      BY <1>2, <1>4
    <2> QED
      BY <1>1, <2>1, <2>2
  <1>13. once(open)
    <2> SUFFICES ASSUME NEW h \in 1 .. k + n, NEW j \in 1 .. k + n, open[h] = open[j]
                 PROVE  h = j
      BY <1>8 DEF once
    <2>1. CASE h \in 1 .. k /\ j \in 1 .. k
      BY <1>2, <1>8, <2>1 DEF k
    <2>2. CASE h \in 1 .. k /\ j \notin 1 .. k
      <3>1. PICK b \in 1 .. n : j = k + b
        BY <1>9, <2>2
      <3>2. f[b] = free[h]
        BY <1>8, <2>2, <3>1
      <3> QED
        BY <1>11, <2>2, <3>2
    <2>3. CASE h \notin 1 .. k /\ j \in 1 .. k
      <3>1. PICK a \in 1 .. n : h = k + a
        BY <1>9, <2>3
      <3>2. f[a] = free[j]
        BY <1>8, <2>3, <3>1
      <3> QED
        BY <1>11, <2>3, <3>2
    <2>4. CASE h \notin 1 .. k /\ j \notin 1 .. k
      <3>1. PICK a \in 1 .. n : h = k + a
        BY <1>9, <2>4
      <3>2. PICK b \in 1 .. n : j = k + b
        BY <1>9, <2>4
      <3>3. f[a] = f[b]
        BY <1>8, <3>1, <3>2
      <3> QED
        BY <1>12, <3>1, <3>2, <3>3
    <2> QED
      BY <2>1, <2>2, <2>3, <2>4
  <1>14. ASSUME NEW v \in 1 .. N, v < p, computes(v), wanted(v, p + 1), NEW j \in 1 .. Len(open)
         PROVE  open[j] # slot[v]
    <2>1. wanted(v, p) /\ use.last[v] > p
      BY <1>14, StillWanted
    <2>2. cells[slot[v] + 1] = v /\ \A h \in 1 .. k : free[h] # slot[v]
      BY <1>2, <1>14, <2>1 DEF k
    <2>3. \A i \in 1 .. n : f[i] # slot[v]
      <3> SUFFICES ASSUME NEW i \in 1 .. n, f[i] = slot[v]
                   PROVE  FALSE
        OBVIOUS
      <3>1. slot[w[i]] = slot[v]
        BY <1>5
      <3>2. w[i] = v
        BY <1>2, <1>4, <2>2, <3>1
      <3>3. use.last[v] \in Nat /\ p \in Nat /\ use.last[v] <= p
        BY <1>3, <1>4, <3>2, OpFacts
      <3> QED
        BY <2>1, <3>3
    <2>4. j \in 1 .. k + n
      BY <1>8
    <2>5. CASE j \in 1 .. k
      BY <1>8, <2>2, <2>5
    <2>6. CASE \E i \in 1 .. n : j = k + i
      BY <1>8, <2>3, <2>6
    <2> QED
      BY <1>9, <2>4, <2>5, <2>6
  <1>15. ASSUME NEW v, leaves(v, p)
         PROVE  \E j \in 1 .. Len(open) : open[j] = slot[v]
    <2>1. PICK i \in 1 .. n : w[i] = v
      BY <1>1, <1>15
    <2>2. k + i \in 1 .. Len(open) /\ open[k + i] = slot[v]
      <3>1. k \in Nat /\ n \in Nat /\ Len(open) = k + n
        BY <1>1, <1>8
      <3>2. k + i \in 1 .. Len(open)
        BY <3>1
      <3>3. open[k + i] = f[i] /\ f[i] = slot[v]
        BY <1>5, <1>8, <2>1, Zenon
      <3> QED
        BY <3>2, <3>3
    <2> QED
      BY <2>2
  <1>16. \A h \in 1 .. Len(free) : \E j \in 1 .. Len(open) : open[j] = free[h]
    <2>1. \A h \in 1 .. k : h \in 1 .. Len(open) /\ open[h] = free[h]
      BY <1>1, <1>8
    <2> QED
      BY <2>1 DEF k
  <1> QED
    BY <1>8, <1>10, <1>13, <1>14, <1>15, <1>16 DEF open, f

\* Without its last element.
LEMMA WithoutLast ==
    ASSUME NEW s \in Seq(Nat), once(s), s # <<>>
    PROVE  LET r == SubSeq(s, 1, Len(s) - 1)
           IN /\ r \in Seq(Nat) /\ Len(r) = Len(s) - 1 /\ Len(s) >= 1
              /\ \A j \in 1 .. Len(r) : r[j] = s[j] /\ r[j] # s[Len(s)]
  <1>1. Len(s) \in Nat \ {0}
    OBVIOUS
  <1> DEFINE r == SubSeq(s, 1, Len(s) - 1)
  <1>2. r \in Seq(Nat) /\ Len(r) = Len(s) - 1 /\ \A j \in 1 .. Len(s) - 1 : r[j] = s[j]
    <2> DEFINE m == Len(s) - 1
               q == SubSeq(s, 1, m)
    <2>1. m \in Nat /\ \A i \in 1 .. m : s[i] \in Nat
      BY <1>1
    <2> HIDE DEF m
    <2>2. /\ q \in Seq(Nat) /\ Len(q) = IF 1 <= m THEN m - 1 + 1 ELSE 0
          /\ \A i \in 1 .. m - 1 + 1 : q[i] = s[1 + i - 1]
      BY <2>1, SubSeqProperties
    <2> HIDE DEF q
    <2>3. q \in Seq(Nat) /\ Len(q) = m /\ \A i \in 1 .. m : q[i] = s[i]
      BY <2>1, <2>2
    <2> QED
      BY <2>3 DEF m, q
  <1>3. \A j \in 1 .. Len(s) - 1 : s[j] # s[Len(s)]
    BY <1>1 DEF once
  <1> QED
    BY <1>1, <1>2, <1>3

LEMMA Wider ==
    ASSUME NEW m \in Nat, NEW n \in Nat, m <= n, NEW x \in 0 .. m - 1
    PROVE  x \in 0 .. n - 1
  OBVIOUS

\* The cell taken, and the cells that stay free.
taken(n, open, s, left) ==
    /\ s \in 0 .. n /\ left \in Seq(Nat) /\ Len(left) <= Len(open)
    /\ \A j \in 1 .. Len(left) : left[j] = open[j] /\ left[j] # s
    /\ s = n \/ \E j \in 1 .. Len(open) : open[j] = s

LEMMA TakenIs ==
    ASSUME NEW n, NEW open, NEW s, NEW left, n \in Nat, open \in Seq(Nat), once(open),
           \A j \in 1 .. Len(open) : open[j] \in 0 .. n - 1,
           open = <<>> => s = n, open # <<>> => s = open[Len(open)],
           left = SubSeq(open, 1, Len(open) - 1)
    PROVE  taken(n, open, s, left)
  <1>1. CASE open = <<>>
    <2>1. Len(open) = 0 /\ left = <<>>
      <3>1. Len(open) = 0 /\ Len(open) - 1 \in Int /\ Len(open) - 1 < 1 /\ 1 \in Int
        BY <1>1
      <3> QED
        BY <3>1, SubSeqEmpty
    <2> QED
      BY <1>1, <2>1 DEF taken
  <1>2. CASE open # <<>>
    <2>1. /\ left \in Seq(Nat) /\ Len(left) = Len(open) - 1 /\ Len(open) >= 1
          /\ \A j \in 1 .. Len(left) : left[j] = open[j] /\ left[j] # open[Len(open)]
      BY <1>2, WithoutLast
    <2>2. Len(open) \in 1 .. Len(open) /\ Len(open) \in Nat
      BY <2>1
    <2>3. s = open[Len(open)] /\ s \in 0 .. n - 1
      BY <1>2, <2>2
    <2>4. s \in 0 .. n
      BY <2>3
    <2> QED
      BY <2>1, <2>2, <2>3, <2>4, SMTT(40) DEF taken
  <1> QED
    BY <1>1, <1>2

\* Written into cell s of m cells, or after the last.
LEMMA WrittenAt ==
    ASSUME NEW c \in Seq(Nat), NEW s \in 0 .. Len(c), NEW p \in Nat, NEW d,
           d = IF s < Len(c) THEN [c EXCEPT ![s + 1] = p] ELSE Append(c, p)
    PROVE  /\ d \in Seq(Nat) /\ d[s + 1] = p
           /\ Len(d) = IF s + 1 > Len(c) THEN s + 1 ELSE Len(c)
           /\ \A x \in 0 .. Len(c) - 1 : x # s => d[x + 1] = c[x + 1]
  <1>0. Len(c) \in Nat /\ s \in Nat
    OBVIOUS
  <1>1. CASE s < Len(c)
    <2>1. s + 1 \in 1 .. Len(c)
      BY <1>0, <1>1
    <2>2. d = [c EXCEPT ![s + 1] = p]
      BY <1>1
    <2>3. d \in Seq(Nat) /\ Len(d) = Len(c) /\ d[s + 1] = p
      BY <2>1, <2>2
    <2>4. \A x \in 0 .. Len(c) - 1 : x # s => d[x + 1] = c[x + 1]
      BY <1>0, <2>1, <2>2
    <2>5. ~(s + 1 > Len(c))
      BY <1>0, <1>1
    <2> QED
      BY <2>3, <2>4, <2>5
  <1>2. CASE ~(s < Len(c))
    <2>1. d = Append(c, p) /\ s = Len(c)
      BY <1>0, <1>2
    <2>2. d \in Seq(Nat) /\ Len(d) = Len(c) + 1 /\ d[Len(c) + 1] = p
      BY <2>1
    <2>3. \A x \in 0 .. Len(c) - 1 : d[x + 1] = c[x + 1]
      BY <1>0, <2>1
    <2> QED
      BY <1>0, <2>1, <2>2, <2>3
  <1> QED
    BY <1>1, <1>2

LEMMA InstructionKeepsSlots ==
    ASSUME UseOK, SlotsInv, Instruction
    PROVE  SlotsInv'
  <1>0. pos \in 1 .. N /\ computes(pos) /\ N \in Nat
    BY OpFacts DEF Instruction, SlotsInv
  <1>1. PICK p \in 1 .. N : p = pos
    BY <1>0
  <1>2. PICK open \in Seq(Nat) :
           /\ open = free \o freed(p) /\ once(open)
           /\ \A j \in 1 .. Len(open) : open[j] \in 0 .. n_slots - 1
           /\ \A v \in 1 .. N : v < p /\ computes(v) /\ wanted(v, p + 1) =>
                \A j \in 1 .. Len(open) : open[j] # slot[v]
    BY <1>0, <1>1, OpenAre
  <1> DEFINE s == IF open = <<>> THEN n_slots ELSE open[Len(open)]
             left == SubSeq(open, 1, Len(open) - 1)
             w == unread(p, s)
  <1>3. /\ free' = left \o w
        /\ n_slots' = IF s + 1 > n_slots THEN s + 1 ELSE n_slots
        /\ slot' = [slot EXCEPT ![p] = s]
        /\ cells' = IF s < Len(cells) THEN [cells EXCEPT ![s + 1] = p] ELSE Append(cells, p)
        /\ pos' = p + 1 /\ tape' = tape /\ use' = use
    BY <1>1, <1>2 DEF Instruction
  <1>4. /\ n_slots \in Nat /\ slot \in [1 .. N -> Nat]
        /\ \A v \in 1 .. N : IF computes(v) /\ v < p THEN slot[v] \in 0 .. n_slots - 1
                             ELSE slot[v] = NO_SLOT
        /\ cells \in Seq(Nat) /\ Len(cells) = n_slots
        /\ \A v \in 1 .. N : v < p /\ computes(v) /\ wanted(v, p) => cells[slot[v] + 1] = v
    BY <1>1 DEF SlotsInv
  <1>20. /\ s = IF open = <<>> THEN n_slots ELSE open[Len(open)]
         /\ left = SubSeq(open, 1, Len(open) - 1)
    OBVIOUS
  <1>21. w = IF use.reads[p] = 0 THEN <<s>> ELSE <<>>
    BY DEF unread
  <1> HIDE DEF s, left, w
  <1>5. /\ s \in 0 .. n_slots /\ left \in Seq(Nat) /\ Len(left) <= Len(open)
        /\ \A j \in 1 .. Len(left) : left[j] = open[j] /\ left[j] # s
        /\ s = n_slots \/ \E j \in 1 .. Len(open) : open[j] = s
    <2>1. PICK n \in Nat : n = n_slots
      BY <1>4
    <2>2. PICK x, y : x = s /\ y = left
      OBVIOUS
    <2>3. /\ \A j \in 1 .. Len(open) : open[j] \in 0 .. n - 1
          /\ open = <<>> => x = n
          /\ open # <<>> => x = open[Len(open)]
          /\ y = SubSeq(open, 1, Len(open) - 1)
          /\ open \in Seq(Nat) /\ once(open)
      BY <1>2, <1>20, <2>1, <2>2
    <2>4. taken(n, open, x, y)
      BY <2>1, <2>3, TakenIs, Zenon
    <2> QED
      BY <2>1, <2>2, <2>4 DEF taken
  <1>7. p \in Nat /\ s \in Nat /\ Len(open) \in Nat
    BY <1>4, <1>5
  <1>8. /\ cells' \in Seq(Nat) /\ cells'[s + 1] = p /\ Len(cells') = n_slots'
        /\ \A x \in 0 .. n_slots - 1 : x # s => cells'[x + 1] = cells[x + 1]
    BY <1>3, <1>4, <1>5, <1>7, WrittenAt, SMTT(40)
  <1>9. /\ slot' \in [1 .. N -> Nat] /\ slot'[p] = s
        /\ \A v \in 1 .. N : v # p => slot'[v] = slot[v]
    BY <1>3, <1>4, <1>7
  <1>10. n_slots' \in Nat /\ n_slots' >= n_slots /\ s \in 0 .. n_slots' - 1
    BY <1>3, <1>4, <1>7
  <1>11. /\ free' \in Seq(Nat)
         /\ \A j \in 1 .. Len(free') : \/ j \in 1 .. Len(left) /\ free'[j] = left[j]
                                       \/ use.reads[p] = 0 /\ free'[j] = s /\ j = Len(left) + 1
    <2>1. CASE use.reads[p] = 0
      <3>1. w = <<s>> /\ w \in Seq(Nat) /\ Len(w) = 1 /\ w[1] = s
        BY <1>21, <1>7, <2>1
      <3>2. free' = Append(left, s)
        BY <1>3, <1>5, <1>7, <3>1
      <3> QED
        BY <1>5, <1>7, <2>1, <3>2, SMTT(40)
    <2>2. CASE use.reads[p] # 0
      <3>1. free' = left
        BY <1>3, <1>5, <1>21, <2>2
      <3> QED
        BY <1>5, <3>1
    <2> QED
      BY <2>1, <2>2
  <1>12. Len(left) \in Nat /\ \A j \in 1 .. Len(left) : j \in 1 .. Len(open)
    BY <1>5, <1>7
  <1>13. \A j \in 1 .. Len(free') : free'[j] \in 0 .. n_slots' - 1
    <2> SUFFICES ASSUME NEW j \in 1 .. Len(free')
                 PROVE  free'[j] \in 0 .. n_slots' - 1
      OBVIOUS
    <2>1. CASE j \in 1 .. Len(left) /\ free'[j] = left[j]
      <3>1. free'[j] = open[j] /\ open[j] \in 0 .. n_slots - 1
        BY <1>2, <1>5, <1>12, <2>1
      <3> QED
        BY <1>4, <1>10, <3>1
    <2>2. CASE free'[j] = s
      BY <1>10, <2>2
    <2> QED
      BY <1>11, <2>1, <2>2
  <1>14. \A h, j \in 1 .. Len(free') : free'[h] = free'[j] => h = j
    <2> SUFFICES ASSUME NEW h \in 1 .. Len(free'), NEW j \in 1 .. Len(free'), free'[h] = free'[j]
                 PROVE  h = j
      OBVIOUS
    <2>1. CASE h \in 1 .. Len(left) /\ free'[h] = left[h] /\ j \in 1 .. Len(left) /\ free'[j] = left[j]
      <3>1. open[h] = open[j] /\ h \in 1 .. Len(open) /\ j \in 1 .. Len(open)
        BY <1>5, <1>12, <2>1
      <3> QED
        BY <1>2, <3>1 DEF once
    <2>2. CASE h \in 1 .. Len(left) /\ free'[h] = left[h] /\ free'[j] = s
      BY <1>5, <2>2
    <2>3. CASE free'[h] = s /\ j \in 1 .. Len(left) /\ free'[j] = left[j]
      BY <1>5, <2>3
    <2>4. CASE h = Len(left) + 1 /\ j = Len(left) + 1
      BY <2>4
    <2> QED
      BY <1>11, <2>1, <2>2, <2>3, <2>4
  <1>15. ASSUME NEW v \in 1 .. N, v < p + 1, computes(v), wanted(v, p + 1)
         PROVE  cells'[slot'[v] + 1] = v /\ \A j \in 1 .. Len(free') : free'[j] # slot'[v]
    <2>1. use.reads[v] >= 1 /\ use.reads[v] \in Nat /\ wanted(v, p)
      BY <1>0, <1>1, <1>15, StillWanted, OpFacts
    <2>2. CASE v = p
      <3>1. slot'[v] = s /\ cells'[s + 1] = v /\ use.reads[p] # 0
        BY <1>8, <1>9, <2>1, <2>2
      <3>2. \A j \in 1 .. Len(free') : free'[j] # s
        BY <1>5, <1>11, <3>1
      <3> QED
        BY <3>1, <3>2
    <2>3. CASE v # p
      <3>1. v < p
        BY <1>7, <1>15, <2>3
      <3>2. /\ slot'[v] = slot[v] /\ slot[v] \in 0 .. n_slots - 1 /\ cells[slot[v] + 1] = v
            /\ \A j \in 1 .. Len(open) : open[j] # slot[v]
        BY <1>2, <1>4, <1>9, <1>15, <2>1, <2>3, <3>1
      <3>3. slot[v] # s
        BY <1>4, <1>5, <3>2, SMTT(40)
      <3>4. cells'[slot[v] + 1] = v
        BY <1>8, <3>2, <3>3
      <3>5. \A j \in 1 .. Len(free') : free'[j] # slot[v]
        <4> SUFFICES ASSUME NEW j \in 1 .. Len(free')
                     PROVE  free'[j] # slot[v]
          OBVIOUS
        <4>1. CASE j \in 1 .. Len(left) /\ free'[j] = left[j]
          BY <1>5, <1>12, <3>2, <4>1
        <4>2. CASE free'[j] = s
          BY <3>3, <4>2
        <4> QED
          BY <1>11, <4>1, <4>2
      <3> QED
        BY <3>2, <3>4, <3>5
    <2> QED
      BY <2>2, <2>3
  <1>16. ASSUME NEW v \in 1 .. N
         PROVE  IF computes(v) /\ v < p + 1 THEN slot'[v] \in 0 .. n_slots' - 1
                ELSE slot'[v] = NO_SLOT
    <2>1. CASE v = p
      <3>1. computes(v) /\ slot'[v] \in 0 .. n_slots' - 1
        BY <1>0, <1>1, <1>9, <1>10, <2>1
      <3>2. v < p + 1
        BY <1>7, <2>1
      <3> QED
        BY <3>1, <3>2
    <2>2. CASE v # p
      <3>1. slot'[v] = slot[v] /\ (v < p + 1 <=> v < p)
        BY <1>7, <1>9, <2>2
      <3>2. IF computes(v) /\ v < p THEN slot[v] \in 0 .. n_slots - 1 ELSE slot[v] = NO_SLOT
        BY <1>4
      <3>4. n_slots \in Nat /\ n_slots' \in Nat /\ n_slots' >= n_slots
        BY <1>4, <1>10
      <3>3. slot[v] \in 0 .. n_slots - 1 => slot[v] \in 0 .. n_slots' - 1
        BY <3>4, Wider
      <3> QED
        BY <3>1, <3>2, <3>3, Zenon
    <2> QED
      BY <2>1, <2>2
  <1>17. /\ N' = N
         /\ \A v : computes(v)' <=> computes(v)
         /\ \A v, q : wanted(v, q)' <=> wanted(v, q)
    BY <1>3, SameTape
  <1>18. pos' \in 1 .. N + 1 /\ pos' = p + 1
    BY <1>0, <1>3, <1>7
  <1> QED
    BY <1>8, <1>9, <1>10, <1>11, <1>13, <1>14, <1>15, <1>16, <1>17, <1>18 DEF SlotsInv

LEMMA InitSlots ==
    ASSUME UseOK, PlanInit
    PROVE  SlotsInv
  <1>1. /\ pos = 1 /\ slot = [i \in 1 .. N |-> NO_SLOT] /\ free = <<>> /\ n_slots = 0 /\ cells = <<>>
    BY DEF PlanInit, N
  <1>2. NO_SLOT \in Nat /\ N \in Nat
    BY TapeAssumption, OpFacts
  <1>3. slot \in [1 .. N -> Nat] /\ \A v \in 1 .. N : slot[v] = NO_SLOT
    BY <1>1, <1>2
  <1>4. /\ <<>> \in Seq(Nat) /\ Len(<<>>) = 0
    OBVIOUS
  <1>5. \A v \in 1 .. N : ~(v < pos)
    BY <1>1, <1>2
  <1>6. pos \in 1 .. N + 1 /\ n_slots \in Nat
    BY <1>1, <1>2
  <1>7. \A j \in 1 .. Len(free) : FALSE
    BY <1>1, <1>4
  <1> QED
    BY <1>1, <1>3, <1>4, <1>5, <1>6, <1>7 DEF SlotsInv

LEMMA PassKeepsSlots ==
    ASSUME UseOK, SlotsInv, Pass
    PROVE  SlotsInv'
  <1>1. PICK p \in 1 .. N : p = pos
    BY OpFacts DEF Pass, SlotsInv
  <1>2. /\ ~computes(p) /\ pos' = p + 1 /\ p \in Nat /\ N \in Nat
        /\ UNCHANGED <<tape, use, slot, free, n_slots, cells>>
    BY <1>1, OpFacts DEF Pass
  <1>3. /\ N' = N
        /\ \A v : computes(v)' <=> computes(v)
        /\ \A v, q : wanted(v, q)' <=> wanted(v, q)
    BY <1>2, SameTape
  <1>4. \A v \in 1 .. N : computes(v) => (v < p + 1 <=> v < p)
    BY <1>2
  <1>5. \A v : wanted(v, p + 1) => wanted(v, p)
    <2> SUFFICES ASSUME NEW v, wanted(v, p + 1)
                 PROVE  wanted(v, p)
      OBVIOUS
    <2>1. \A i \in p + 1 .. N : i \in p .. N
      BY <1>2
    <2> QED
      BY <2>1 DEF wanted
  <1>6. /\ n_slots \in Nat
        /\ slot \in [1 .. N -> Nat]
        /\ \A v \in 1 .. N : IF computes(v) /\ v < p THEN slot[v] \in 0 .. n_slots - 1
                             ELSE slot[v] = NO_SLOT
        /\ cells \in Seq(Nat) /\ Len(cells) = n_slots
        /\ free \in Seq(Nat)
        /\ \A j \in 1 .. Len(free) : free[j] \in 0 .. n_slots - 1
        /\ \A h, j \in 1 .. Len(free) : free[h] = free[j] => h = j
        /\ \A v \in 1 .. N : v < p /\ computes(v) /\ wanted(v, p) =>
             cells[slot[v] + 1] = v /\ \A j \in 1 .. Len(free) : free[j] # slot[v]
    BY <1>1 DEF SlotsInv
  <1>7. \A v \in 1 .. N : IF computes(v) /\ v < p + 1 THEN slot[v] \in 0 .. n_slots - 1
                          ELSE slot[v] = NO_SLOT
    BY <1>4, <1>6, Zenon
  <1>8. \A v \in 1 .. N : v < p + 1 /\ computes(v) /\ wanted(v, p + 1) =>
             cells[slot[v] + 1] = v /\ \A j \in 1 .. Len(free) : free[j] # slot[v]
    BY <1>4, <1>5, <1>6, Zenon
  <1>9. p + 1 \in 1 .. N + 1
    BY <1>2
  <1> QED
    BY <1>2, <1>3, <1>6, <1>7, <1>8, <1>9, Zenon DEF SlotsInv

PlanInv == UseOK /\ SlotsInv

LEMMA PlanStays == PlanSpec => []PlanInv
  <1>1. UseOK /\ PlanInit => PlanInv
    BY InitSlots DEF PlanInv
  <1>2. UseOK /\ UseOK' /\ PlanInv /\ [PlanNext]_planVars => PlanInv'
    <2> SUFFICES ASSUME UseOK, UseOK', PlanInv, [PlanNext]_planVars
                 PROVE  SlotsInv'
      BY DEF PlanInv
    <2>0. SlotsInv
      BY DEF PlanInv
    <2>1. CASE Pass
      BY <2>0, <2>1, PassKeepsSlots
    <2>2. CASE Instruction
      BY <2>0, <2>2, InstructionKeepsSlots
    <2>3. CASE Finish \/ UNCHANGED planVars
      <3>1. UNCHANGED <<tape, use, pos, slot, free, n_slots, cells>>
        BY <2>3 DEF Finish, planVars
      <3>2. /\ N' = N
            /\ \A v : computes(v)' <=> computes(v)
            /\ \A v, q : wanted(v, q)' <=> wanted(v, q)
        BY <3>1, SameTape
      <3> QED
        BY <2>0, <3>1, <3>2, ZenonT(40) DEF SlotsInv
    <2> QED
      BY <2>1, <2>2, <2>3 DEF PlanNext
  <1> QED
    BY <1>1, <1>2, PlanUse, PTL DEF PlanSpec

\* Whatever the tape, the cell of a value that a later instruction or an output still
\* reads holds that value, and no instruction reads a product or a sum that was fused
\* away: last-freed-first reuse in gen_program_air.py never hands out a live cell.
THEOREM ValuesKeepTheirCells == PlanSpec => []LiveValuesKeepTheirCells
  <1>1. PlanInv => LiveValuesKeepTheirCells
    <2> SUFFICES ASSUME UseOK, SlotsInv
                 PROVE  LiveValuesKeepTheirCells
      BY DEF PlanInv
    <2>0. N \in Nat /\ pos \in 1 .. N + 1
      BY OpFacts DEF SlotsInv
    <2>1. \A v \in 1 .. N : v < pos /\ computes(v) /\ wanted(v, pos) => cells[slot[v] + 1] = v
      BY DEF SlotsInv
    <2>2. ASSUME NEW i \in 1 .. N, computes(i), NEW j \in DOMAIN operands(i)
          PROVE  LET v == operands(i)[j]
                 IN op(v).k >= ADD => computes(v) /\ (v < pos /\ pos <= i => cells[slot[v] + 1] = v)
      <3> DEFINE v == operands(i)[j]
      <3>1. operands(i) \in Seq(1 .. N) /\ \A h \in 1 .. Len(operands(i)) : wants(i, operands(i)[h])
        BY <2>2, OperandsSet
      <3>2. j \in 1 .. Len(operands(i))
        BY <2>2, <3>1, Elements
      <3>3. wants(i, v)
        BY <3>1, <3>2
      <3> HIDE DEF v
      <3>4. v \in 1 .. N /\ (op(v).k >= ADD => computes(v))
        BY <2>2, <3>3, WantedIsKept
      <3>5. pos <= i => wanted(v, pos)
        <4> SUFFICES ASSUME pos <= i
                     PROVE  wanted(v, pos)
          OBVIOUS
        <4>1. i \in pos .. N
          BY <2>0
        <4> QED
          BY <2>2, <3>3, <4>1 DEF wanted
      <3> QED
        BY <2>1, <3>4, <3>5 DEF v
    <2>3. ASSUME NEW j \in DOMAIN tape.outs
          PROVE  LET v == tape.outs[j]
                 IN op(v).k >= ADD => computes(v) /\ (v < pos => cells[slot[v] + 1] = v)
      <3> DEFINE v == tape.outs[j]
      <3>1. output(v)
        BY DEF output
      <3> HIDE DEF v
      <3>2. v \in 1 .. N /\ (op(v).k >= ADD => computes(v)) /\ wanted(v, pos)
        BY <3>1, OutputIsKept DEF wanted
      <3> QED
        BY <2>1, <3>2 DEF v
    <2> QED
      BY <2>2, <2>3 DEF LiveValuesKeepTheirCells
  <1> QED
    BY <1>1, PlanStays, PTL

-----------------------------------------------------------------------------
(* As few cells as can be.                                                 *)

\* Every op of a live tape is computed by some instruction.
LEMMA ChainEnds ==
    ASSUME UseOK, NEW m \in Int, chained(m)
    PROVE  \E i \in 1 .. N : computes(i) /\ m \in run(i) /\ m - 1 \in run(i) /\ m <= i
  <1> DEFINE ends == {d \in Nat : ~chained(m + 2 * d)}
  <1>1. m \in 2 .. N - 2 /\ N \in Nat
    BY ChainedReader, OpFacts
  <1>2. N \in ends
    <2>1. m + 2 * N \in Int /\ m + 2 * N \notin 2 .. N - 2
      BY <1>1
    <2> QED
      BY <1>1, <2>1, ChainedReader
  <1>3. PICK d \in ends : \A e \in ends : d <= e
    BY <1>2, LeastOf
  <1>4. d \in Nat /\ ~chained(m + 2 * d) /\ \A e \in 0 .. d - 1 : chained(m + 2 * e)
    <2>1. d \in Nat /\ ~chained(m + 2 * d)
      BY <1>3
    <2>2. ASSUME NEW e \in 0 .. d - 1
          PROVE  chained(m + 2 * e)
      <3>1. e \in Nat /\ ~(d <= e)
        BY <2>1
      <3> QED
        BY <1>3, <3>1
    <2> QED
      BY <2>1, <2>2
  <1>5. d # 0
    <2> SUFFICES ASSUME d = 0
                 PROVE  FALSE
      OBVIOUS
    <2>1. m + 2 * d = m
      BY <1>1
    <2> QED
      BY <1>4, <2>1
  <1> DEFINE i == m + 2 * d
  <1>6. i - 2 = m + 2 * (d - 1) /\ d - 1 \in 0 .. d - 1 /\ i - 2 \in Int /\ i \in Int
        /\ (i - 2) + 2 = i /\ (i - 2) + 1 = i - 1 /\ m = i - 2 * d
    BY <1>1, <1>4, <1>5
  <1>7. ~chained(i) /\ chained(i - 2)
    BY <1>4, <1>6
  <1>8. \A e \in 1 .. d : chained(i - 2 * e)
    <2> SUFFICES ASSUME NEW e \in 1 .. d
                 PROVE  chained(i - 2 * e)
      OBVIOUS
    <2>1. d - e \in 0 .. d - 1 /\ i - 2 * e = m + 2 * (d - e)
      BY <1>1, <1>4
    <2> QED
      BY <1>4, <2>1
  <1> HIDE DEF i, ends
  <1>9. i - 2 \in 2 .. N - 2 /\ op(i).k = ADD /\ fused(i - 1) /\ live(i)
    BY <1>6, <1>7, ChainedReader
  <1>10. i \in 1 .. N
    BY <1>1, <1>6, <1>9
  <1>11. ~fused(i)
    <2>1. fused(i) => op(i).k = MUL
      BY <1>6, FusedReader
    <2> QED
      BY <1>9, <2>1 DEF ADD, MUL
  <1>12. computes(i)
    BY <1>7, <1>9, <1>11 DEF computes, ADD
  <1>13. links(i) \in Nat /\ links(i) >= d
    <2>1. links(i) \in 0 .. i /\ ~chained(i - 2 * links(i) - 2)
      BY <1>10, LinksAre
    <2>2. links(i) \in Nat
      BY <2>1, <1>6
    <2>3. ~(links(i) < d)
      <3> SUFFICES ASSUME links(i) < d
                   PROVE  FALSE
        OBVIOUS
      <3>1. links(i) + 1 \in 1 .. d /\ i - 2 * (links(i) + 1) = i - 2 * links(i) - 2
        BY <1>4, <1>6, <2>2
      <3> QED
        BY <1>8, <2>1, <3>1
    <2> QED
      BY <1>4, <2>2, <2>3
  <1>14. run(i) = head(i) - 1 .. i /\ head(i) = i - 2 * links(i)
    BY <1>9 DEF run, head
  <1>15. m \in run(i) /\ m - 1 \in run(i) /\ m <= i
    BY <1>1, <1>4, <1>6, <1>13, <1>14
  <1> QED
    BY <1>10, <1>12, <1>15

LEMMA InARun ==
    ASSUME UseOK, NEW r \in 1 .. N, op(r).k >= ADD, live(r)
    PROVE  \E i \in 1 .. N : computes(i) /\ r \in run(i) /\ r <= i
  <1>0. N \in Nat /\ r \in Int
    BY OpFacts
  <1>1. CASE computes(r)
    <2>1. r \in run(r)
      <3>1. CASE fused(r - 1)
        <4>1. head(r) \in 2 .. r
          BY <3>1, RunOf
        <4> QED
          BY <1>0, <3>1, <4>1 DEF run
      <3>2. CASE ~fused(r - 1)
        BY <3>2 DEF run
      <3> QED
        BY <3>1, <3>2
    <2>2. r <= r
      BY <1>0
    <2> QED
      BY <1>1, <2>1, <2>2
  <1>2. CASE chained(r)
    BY <1>0, <1>2, ChainEnds
  <1>3. CASE fused(r)
    <2> DEFINE s == r + 1
    <2>1. r \in 1 .. N - 1 /\ op(s).k \in {ADD, SUB} /\ live(s)
      BY <1>0, <1>3, FusedReader
    <2>2. s \in 1 .. N /\ s \in Int /\ s - 1 = r /\ r <= s
      BY <1>0, <2>1
    <2> HIDE DEF s
    <2>3. CASE chained(s)
      <3>1. PICK i \in 1 .. N : computes(i) /\ s \in run(i) /\ s - 1 \in run(i) /\ s <= i
        BY <2>2, <2>3, ChainEnds
      <3>2. r <= i
        BY <1>0, <2>2, <3>1
      <3> QED
        BY <2>2, <3>1, <3>2
    <2>4. CASE ~chained(s)
      <3>1. ~fused(s)
        <4>1. fused(s) => op(s).k = MUL
          BY <2>2, FusedReader
        <4> QED
          BY <2>1, <4>1 DEF ADD, SUB, MUL
      <3>2. computes(s)
        BY <2>1, <2>4, <3>1 DEF computes, ADD, SUB
      <3>3. fused(s - 1)
        BY <1>3, <2>2
      <3>4. head(s) \in 2 .. s
        BY <2>2, <3>3, RunOf
      <3>5. r \in run(s)
        BY <1>0, <2>2, <3>3, <3>4 DEF run
      <3> QED
        BY <2>2, <3>2, <3>5
    <2> QED
      BY <2>3, <2>4
  <1> QED
    BY <1>1, <1>2, <1>3 DEF computes

\* The last op to read a computed value is of an instruction that reads it, or it is an output.
LEMMA LastReader ==
    ASSUME UseOK, NEW v \in 1 .. N, computes(v), use.reads[v] >= 1
    PROVE  \/ output(v)
           \/ \E i \in 1 .. N : computes(i) /\ wants(i, v) /\ use.last[v] <= i /\ v < i
  <1>1. CASE output(v)
    BY <1>1
  <1>2. CASE ~output(v)
    <2>1. PICK r \in 1 .. N : reader(r, v) /\ use.last[v] = r
      BY <1>2, UseFacts
    <2>2. op(r).k >= ADD /\ live(r) /\ v \in {op(r).a, op(r).b}
      BY <2>1 DEF reader
    <2>3. PICK i \in 1 .. N : computes(i) /\ r \in run(i) /\ r <= i
      BY <2>2, InARun
    <2>4. ~swallowed(v)
      BY DEF computes, swallowed
    <2>5. wants(i, v)
      BY <2>2, <2>3, <2>4 DEF wants
    <2>6. v \in 1 .. i - 1
      BY <2>3, <2>5, WantedIsKept
    <2>7. v < i
      BY <2>6
    <2> QED
      BY <2>1, <2>3, <2>5, <2>7
  <1> QED
    BY <1>1, <1>2

\* A value that nothing reads from p + 1 on was read for the last time at p or before.
LEMMA ReadNoMore ==
    ASSUME UseOK, NEW p \in 1 .. N, NEW v \in 1 .. N, computes(v), wanted(v, p), ~wanted(v, p + 1)
    PROVE  wants(p, v) /\ use.last[v] <= p
  <1>0. N \in Nat /\ p \in Nat /\ use.last[v] \in Nat
    BY OpFacts
  <1>1. ~output(v) /\ \A i \in p + 1 .. N : ~(computes(i) /\ wants(i, v))
    BY DEF wanted
  <1>2. PICK i \in p .. N : computes(i) /\ wants(i, v)
    BY <1>1 DEF wanted
  <1>3. i = p
    BY <1>0, <1>1, <1>2
  <1>4. use.reads[v] >= 1
    BY <1>2, <1>3, WantedIsKept
  <1>5. PICK h \in 1 .. N : computes(h) /\ wants(h, v) /\ use.last[v] <= h
    BY <1>1, <1>4, LastReader
  <1>6. h <= p
    BY <1>0, <1>1, <1>5
  <1>7. use.last[v] <= p
    BY <1>0, <1>5, <1>6
  <1> QED
    BY <1>2, <1>3, <1>7

\* A new value is read later, or never.
LEMMA ReadLater ==
    ASSUME UseOK, NEW p \in 1 .. N, computes(p), use.reads[p] # 0
    PROVE  wanted(p, p + 1)
  <1>1. use.reads[p] >= 1 /\ N \in Nat /\ p \in Nat
    BY OpFacts
  <1>2. CASE output(p)
    BY <1>2 DEF wanted
  <1>3. CASE ~output(p)
    <2>1. PICK i \in 1 .. N : computes(i) /\ wants(i, p) /\ p < i
      BY <1>1, <1>3, LastReader
    <2>2. i \in p + 1 .. N
      BY <1>1, <2>1
    <2> QED
      BY <2>1, <2>2 DEF wanted
  <1> QED
    BY <1>2, <1>3

\* What was open is taken or stays free.
stays(open, s, w, r) ==
    /\ \A j \in 1 .. Len(open) : open[j] = s \/ \E h \in 1 .. Len(r) : r[h] = open[j]
    /\ \A j \in 1 .. Len(w) : \E h \in 1 .. Len(r) : r[h] = w[j]

LEMMA StaysOpen ==
    ASSUME NEW open \in Seq(Nat), NEW w \in Seq(Nat), NEW s, open # <<>> => s = open[Len(open)]
    PROVE  stays(open, s, w, SubSeq(open, 1, Len(open) - 1) \o w)
  <1> DEFINE m == Len(open) - 1
             left == SubSeq(open, 1, m)
  <1>1. Len(open) \in Nat /\ Len(w) \in Nat
    OBVIOUS
  <1>2. /\ left \in Seq(Nat) /\ Len(left) = (IF m >= 1 THEN m ELSE 0)
        /\ \A i \in 1 .. m : left[i] = open[i]
    <2>1. CASE open = <<>>
      <3>1. Len(open) = 0 /\ Len(open) - 1 \in Int /\ Len(open) - 1 < 1 /\ 1 \in Int
        BY <2>1
      <3>2. left = <<>>
        BY <3>1, SubSeqEmpty
      <3> QED
        BY <3>1, <3>2
    <2>2. CASE open # <<>>
      <3>1. m \in Nat /\ \A i \in 1 .. m : open[i] \in Nat
        BY <1>1, <2>2
      <3> HIDE DEF m
      <3>3. /\ SubSeq(open, 1, m) \in Seq(Nat)
            /\ Len(SubSeq(open, 1, m)) = IF 1 <= m THEN m - 1 + 1 ELSE 0
            /\ \A i \in 1 .. m - 1 + 1 : SubSeq(open, 1, m)[i] = open[1 + i - 1]
        BY <3>1, SubSeqProperties
      <3> QED
        BY <3>1, <3>3
    <2> QED
      BY <2>1, <2>2
  <1> HIDE DEF m, left
  <1>3. /\ left \o w \in Seq(Nat) /\ Len(left \o w) = Len(left) + Len(w)
        /\ \A i \in 1 .. Len(left) : (left \o w)[i] = left[i]
        /\ \A j \in 1 .. Len(w) : (left \o w)[Len(left) + j] = w[j]
    <2>1. \A a, b \in Seq(Nat) : /\ a \o b \in Seq(Nat) /\ Len(a \o b) = Len(a) + Len(b)
                                 /\ \A i \in 1 .. Len(a) : (a \o b)[i] = a[i]
                                 /\ \A j \in 1 .. Len(b) : (a \o b)[Len(a) + j] = b[j]
      BY Joined
    <2> QED
      BY <1>2, <2>1, Zenon
  <1>4. ASSUME NEW j \in 1 .. Len(open), open[j] # s
        PROVE  \E h \in 1 .. Len(left \o w) : (left \o w)[h] = open[j]
    <2>1. open # <<>>
      BY <1>1
    <2>2. j # Len(open)
      BY <1>4, <2>1
    <2>3. j \in 1 .. m /\ m >= 1
      BY <1>1, <2>2 DEF m
    <2>4. j \in 1 .. Len(left) /\ left[j] = open[j]
      BY <1>2, <2>3
    <2>5. j \in 1 .. Len(left \o w)
      BY <1>1, <1>2, <1>3, <2>4
    <2> QED
      BY <1>3, <2>4, <2>5
  <1>5. ASSUME NEW j \in 1 .. Len(w)
        PROVE  \E h \in 1 .. Len(left \o w) : (left \o w)[h] = w[j]
    <2>1. Len(left) + j \in 1 .. Len(left \o w)
      BY <1>1, <1>2, <1>3
    <2> QED
      BY <1>3, <2>1
  <1> QED
    BY <1>4, <1>5 DEF stays, left, m

stay(p) == {v \in 1 .. p - 1 : computes(v) /\ wanted(v, p + 1)}
kept(p) == {v \in stay(p) : slot[v] # NO_SLOT}

\* What an instruction does to the cells.
took(p, s) ==
    /\ pos = p /\ computes(p) /\ pos' = p + 1 /\ tape' = tape /\ use' = use
    /\ s \in 0 .. n_slots
    /\ n_slots' = IF s = n_slots THEN n_slots + 1 ELSE n_slots
    /\ slot' \in [1 .. N -> Nat] /\ slot'[p] = s /\ \A v \in 1 .. N : v # p => slot'[v] = slot[v]
    /\ \A v \in stay(p) : slot[v] \in 0 .. n_slots - 1 /\ slot[v] # s
    \* a cell that is free, or left now, stays free unless it is taken
    /\ \A h \in 1 .. Len(free) : free[h] # s => \E j \in 1 .. Len(free') : free'[j] = free[h]
    /\ \A v : leaves(v, p) /\ slot[v] # s => \E j \in 1 .. Len(free') : free'[j] = slot[v]
    /\ use.reads[p] = 0 => \E j \in 1 .. Len(free') : free'[j] = s
    \* a new cell is taken only if none is open
    /\ s = n_slots => free = <<>> /\ \A v : ~leaves(v, p)

LEMMA InstructionTakes ==
    ASSUME UseOK, SlotsInv, Instruction
    PROVE  \E p \in 1 .. N : \E s \in 0 .. n_slots : took(p, s)
  <1>0. pos \in 1 .. N /\ computes(pos) /\ N \in Nat
    BY OpFacts DEF Instruction, SlotsInv
  <1>1. PICK p \in 1 .. N : p = pos
    BY <1>0
  <1>2. PICK open \in Seq(Nat) :
           /\ open = free \o freed(p) /\ once(open)
           /\ \A j \in 1 .. Len(open) : open[j] \in 0 .. n_slots - 1
           /\ \A v \in 1 .. N : v < p /\ computes(v) /\ wanted(v, p + 1) =>
                \A j \in 1 .. Len(open) : open[j] # slot[v]
           /\ \A v : leaves(v, p) => \E j \in 1 .. Len(open) : open[j] = slot[v]
           /\ \A h \in 1 .. Len(free) : \E j \in 1 .. Len(open) : open[j] = free[h]
    BY <1>0, <1>1, OpenAre
  <1> DEFINE s == IF open = <<>> THEN n_slots ELSE open[Len(open)]
             left == SubSeq(open, 1, Len(open) - 1)
             w == unread(p, s)
  <1>3. /\ free' = left \o w
        /\ n_slots' = IF s + 1 > n_slots THEN s + 1 ELSE n_slots
        /\ slot' = [slot EXCEPT ![p] = s]
        /\ pos' = p + 1 /\ tape' = tape /\ use' = use
    BY <1>1, <1>2 DEF Instruction
  <1>4. /\ n_slots \in Nat /\ slot \in [1 .. N -> Nat] /\ free \in Seq(Nat)
        /\ \A v \in 1 .. N : computes(v) /\ v < p => slot[v] \in 0 .. n_slots - 1
    BY <1>1 DEF SlotsInv
  <1>5. /\ w = (IF use.reads[p] = 0 THEN <<s>> ELSE <<>>)
        /\ open = <<>> => s = n_slots
        /\ open # <<>> => s = open[Len(open)]
        /\ left = SubSeq(open, 1, Len(open) - 1)
    BY DEF unread
  <1> HIDE DEF s, left, w
  <1>6. Len(open) \in Nat /\ (open # <<>> => Len(open) \in 1 .. Len(open)) /\ (open = <<>> => Len(open) = 0)
    OBVIOUS
  <1>7. s \in 0 .. n_slots /\ (open # <<>> => s \in 0 .. n_slots - 1)
    <2>1. CASE open = <<>>
      BY <1>4, <1>5, <2>1
    <2>2. CASE open # <<>>
      <3>1. open[Len(open)] \in 0 .. n_slots - 1
        BY <1>2, <1>6, <2>2
      <3> QED
        BY <1>4, <1>5, <2>2, <3>1
    <2> QED
      BY <2>1, <2>2
  <1>8. w \in Seq(Nat)
    BY <1>5, <1>7, <1>4
  <1>9. stays(open, s, w, free')
    <2>1. free' = SubSeq(open, 1, Len(open) - 1) \o w
      BY <1>3, <1>5
    <2>2. stays(open, s, w, SubSeq(open, 1, Len(open) - 1) \o w)
      BY <1>2, <1>5, <1>8, StaysOpen, Zenon
    <2> QED
      BY <2>1, <2>2, Zenon
  <1>10. \A j \in 1 .. Len(open) : open[j] # s => \E h \in 1 .. Len(free') : free'[h] = open[j]
    BY <1>9 DEF stays
  <1>11. use.reads[p] = 0 => \E j \in 1 .. Len(free') : free'[j] = s
    <2> SUFFICES ASSUME use.reads[p] = 0
                 PROVE  \E j \in 1 .. Len(free') : free'[j] = s
      OBVIOUS
    <2>1. 1 \in 1 .. Len(w) /\ w[1] = s
      BY <1>5
    <2> QED
      BY <1>9, <2>1 DEF stays
  <1>12. s = n_slots => open = <<>>
    BY <1>4, <1>7
  <1>13. s = n_slots => free = <<>> /\ \A v : ~leaves(v, p)
    <2> SUFFICES ASSUME open = <<>>
                 PROVE  free = <<>> /\ \A v : ~leaves(v, p)
      BY <1>12
    <2>1. \A j \in 1 .. Len(open) : FALSE
      BY <1>6
    <2>2. \A h \in 1 .. Len(free) : FALSE
      BY <1>2, <2>1
    <2>3. free = <<>>
      BY <1>4, <2>2
    <2> QED
      BY <1>2, <2>1, <2>3
  <1>14. \A v \in stay(p) : slot[v] \in 0 .. n_slots - 1 /\ slot[v] # s
    <2> SUFFICES ASSUME NEW v \in stay(p)
                 PROVE  slot[v] \in 0 .. n_slots - 1 /\ slot[v] # s
      OBVIOUS
    <2>1. v \in 1 .. p - 1 /\ computes(v) /\ wanted(v, p + 1)
      BY DEF stay
    <2>2. v \in 1 .. N /\ v < p
      BY <1>0, <2>1
    <2>3. slot[v] \in 0 .. n_slots - 1 /\ \A j \in 1 .. Len(open) : open[j] # slot[v]
      BY <1>2, <1>4, <2>1, <2>2
    <2>4. slot[v] # s
      <3>1. CASE open = <<>>
        BY <1>4, <1>5, <2>3, <3>1
      <3>2. CASE open # <<>>
        BY <1>5, <1>6, <2>3, <3>2
      <3> QED
        BY <3>1, <3>2
    <2> QED
      BY <2>3, <2>4
  <1>15. n_slots' = IF s = n_slots THEN n_slots + 1 ELSE n_slots
    BY <1>3, <1>4, <1>7
  <1>16. slot' \in [1 .. N -> Nat] /\ slot'[p] = s /\ \A v \in 1 .. N : v # p => slot'[v] = slot[v]
    BY <1>3, <1>4, <1>7
  <1>17. \A h \in 1 .. Len(free) : free[h] # s => \E j \in 1 .. Len(free') : free'[j] = free[h]
    BY <1>2, <1>10
  <1>18. \A v : leaves(v, p) /\ slot[v] # s => \E j \in 1 .. Len(free') : free'[j] = slot[v]
    <2> SUFFICES ASSUME NEW v, leaves(v, p), slot[v] # s
                 PROVE  \E j \in 1 .. Len(free') : free'[j] = slot[v]
      OBVIOUS
    <2>1. PICK j \in 1 .. Len(open) : open[j] = slot[v]
      BY <1>2
    <2> QED
      BY <1>10, <2>1
  <1>19. took(p, s)
    BY <1>0, <1>1, <1>3, <1>7, <1>11, <1>13, <1>14, <1>15, <1>16, <1>17, <1>18, Zenon DEF took
  <1> QED
    BY <1>7, <1>19

\* Values in as many cells, none of them the one taken now; and values in all of the cells.
LEMMA CellsApart ==
    ASSUME NEW S, NEW f, NEW k \in Nat, NEW s \in 0 .. k - 1,
           \A v \in S : f[v] \in 0 .. k - 1 /\ f[v] # s, \A w0, v \in S : f[w0] = f[v] => w0 = v
    PROVE  IsFiniteSet(S) /\ Cardinality(S) + 1 <= k
  <1> DEFINE T == (0 .. k - 1) \ {s}
             g == [v \in S |-> f[v]]
  <1>1. IsFiniteSet(0 .. k - 1) /\ Cardinality(0 .. k - 1) = k
    <2>1. 0 \in Int /\ k - 1 \in Int /\ ~(0 > k - 1) /\ (k - 1) - 0 + 1 = k
      OBVIOUS
    <2> HIDE DEF T
    <2> QED
      BY <2>1, FS_Interval
  <1>2. IsFiniteSet(T) /\ Cardinality(T) = k - 1
    BY <1>1, FS_RemoveElement, ZenonT(40)
  <1>3. g \in Injection(S, T)
    BY DEF Injection, IsInjective
  <1>4. IsFiniteSet(S) /\ Cardinality(S) <= Cardinality(T)
    BY <1>2, <1>3, FS_Injection
  <1>5. Cardinality(S) \in Nat
    BY <1>4, FS_CardinalityType
  <1> QED
    BY <1>2, <1>4, <1>5

LEMMA CellsFull ==
    ASSUME NEW S, IsFiniteSet(S), NEW f, NEW k \in Nat, \A c \in 0 .. k - 1 : \E v \in S : f[v] = c
    PROVE  Cardinality(S) >= k
  <1> DEFINE T == 0 .. k - 1
             R == {v \in S : f[v] \in T}
             g == [v \in R |-> f[v]]
  <1>1. IsFiniteSet(R) /\ Cardinality(R) <= Cardinality(S)
    BY FS_Subset
  <1>2. g \in Surjection(R, T)
    BY DEF Surjection
  <1>3. Cardinality(T) <= Cardinality(R)
    BY <1>1, <1>2, FS_Surjection
  <1>4. Cardinality(T) = k /\ IsFiniteSet(T)
    <2>1. 0 \in Int /\ k - 1 \in Int
      OBVIOUS
    <2>2. IsFiniteSet(T) /\ Cardinality(T) = IF 0 > k - 1 THEN 0 ELSE (k - 1) - 0 + 1
      BY <2>1, FS_Interval
    <2> QED
      BY <2>2
  <1>5. Cardinality(S) \in Nat /\ Cardinality(R) \in Nat
    BY <1>1, FS_CardinalityType
  <1> QED
    BY <1>1, <1>3, <1>4, <1>5

LEMMA FewValues ==
    ASSUME NEW p \in Nat, NEW S \in SUBSET (1 .. p - 1)
    PROVE  IsFiniteSet(S) /\ Cardinality(S) \in Nat
  <1>1. IsFiniteSet(1 .. p - 1)
    <2>1. 1 \in Int /\ p - 1 \in Int
      OBVIOUS
    <2> QED
      BY <2>1, FS_Interval
  <1> QED
    BY <1>1, FS_Subset, FS_CardinalityType

\* Cell c is one the evaluator takes for none, free, or of a value still to be read.
accounted(c) ==
    \/ c = NO_SLOT
    \/ \E j \in 1 .. Len(free) : free[j] = c
    \/ \E v \in 1 .. pos - 1 : computes(v) /\ wanted(v, pos) /\ slot[v] = c

least(k) == IF k <= NO_SLOT THEN k ELSE NO_SLOT

\* No cell is idle without being free, and at some instruction all of them were in use.
TightInv ==
    /\ \A c \in 0 .. n_slots - 1 : accounted(c)
    /\ \A p \in 1 .. pos - 1 : computes(p) => Cardinality(stay(p)) + 1 <= n_slots
    /\ n_slots > 0 => \E p \in 1 .. pos - 1 : computes(p) /\ Cardinality(kept(p)) + 1 >= least(n_slots)

LEMMA StaysStatic ==
    ASSUME tape' = tape, use' = use
    PROVE  \A p : stay(p)' = stay(p)
  BY SameTape DEF stay

LEMMA PassKeepsTight ==
    ASSUME UseOK, SlotsInv, TightInv, Pass
    PROVE  TightInv'
  <1>1. PICK p \in 1 .. N : p = pos
    BY OpFacts DEF Pass, SlotsInv
  <1>2. /\ ~computes(p) /\ pos' = p + 1 /\ p \in Nat /\ N \in Nat
        /\ UNCHANGED <<tape, use, slot, free, n_slots, cells>>
    BY <1>1, OpFacts DEF Pass
  <1>3. /\ \A v : computes(v)' <=> computes(v)
        /\ \A v, q : wanted(v, q)' <=> wanted(v, q)
        /\ \A q : stay(q)' = stay(q)
    BY <1>2, SameTape, StaysStatic
  <1>4. \A q : kept(q)' = kept(q)
    BY <1>2, <1>3 DEF kept
  <1>5. \A v : wanted(v, p) => wanted(v, p + 1)
    <2> SUFFICES ASSUME NEW v, wanted(v, p)
                 PROVE  wanted(v, p + 1)
      OBVIOUS
    <2>1. \A i \in p .. N : computes(i) => i \in p + 1 .. N
      BY <1>2
    <2> QED
      BY <2>1 DEF wanted
  <1>6. \A v \in 1 .. p - 1 : v \in 1 .. pos' - 1
    BY <1>2
  <1>7. \A v \in 1 .. pos' - 1 : computes(v) => v \in 1 .. p - 1
    BY <1>2
  <1>8. ASSUME NEW c, accounted(c)
        PROVE  accounted(c)'
    <2>1. CASE c = NO_SLOT \/ \E j \in 1 .. Len(free) : free[j] = c
      BY <1>2, <2>1 DEF accounted
    <2>2. CASE \E v \in 1 .. pos - 1 : computes(v) /\ wanted(v, pos) /\ slot[v] = c
      <3>1. PICK v \in 1 .. p - 1 : computes(v) /\ wanted(v, p) /\ slot[v] = c
        BY <1>1, <2>2
      <3>2. v \in 1 .. pos' - 1 /\ computes(v)' /\ slot'[v] = c
        BY <1>2, <1>3, <1>6, <3>1
      <3>3. wanted(v, p + 1)'
        BY <1>3, <1>5, <3>1
      <3>4. wanted(v, pos)'
        BY <1>2, <3>3
      <3> QED
        BY <3>2, <3>4, Zenon DEF accounted
    <2> QED
      BY <1>8, <2>1, <2>2 DEF accounted
  <1>9. \A c \in 0 .. n_slots' - 1 : accounted(c)'
    BY <1>2, <1>8 DEF TightInv
  <1>10. \A q \in 1 .. pos' - 1 : computes(q)' => Cardinality(stay(q)') + 1 <= n_slots'
    BY <1>1, <1>2, <1>3, <1>7 DEF TightInv
  <1>11. n_slots' > 0 => \E q \in 1 .. pos' - 1 : computes(q)' /\ Cardinality(kept(q)') + 1 >= least(n_slots)'
    BY <1>1, <1>2, <1>3, <1>4, <1>6 DEF TightInv, least
  <1> QED
    BY <1>9, <1>10, <1>11 DEF TightInv

\* The cell taken is given back at once, or holds a value still to be read; every other
\* cell stays accounted for.
LEMMA CellsStayAccounted ==
    ASSUME UseOK, SlotsInv, TightInv, NEW p \in 1 .. N, NEW s \in 0 .. n_slots, took(p, s)
    PROVE  \A c \in 0 .. n_slots' - 1 : accounted(c)'
  <1>0. N \in Nat /\ p \in Nat /\ pos = p /\ computes(p) /\ pos' = p + 1 /\ n_slots \in Nat
    BY OpFacts DEF took, SlotsInv
  <1>1. /\ \A v : computes(v)' <=> computes(v)
        /\ \A v, q : wanted(v, q)' <=> wanted(v, q)
    BY SameTape DEF took
  <1>2. ASSUME NEW c, NEW v \in 1 .. p, computes(v), wanted(v, p + 1), slot'[v] = c
        PROVE  accounted(c)'
    <2>1. v \in 1 .. pos' - 1 /\ computes(v)'
      BY <1>0, <1>1, <1>2
    <2>2. wanted(v, p + 1)'
      BY <1>1, <1>2
    <2>3. wanted(v, pos)'
      BY <1>0, <2>2
    <2> QED
      BY <1>2, <2>1, <2>3, Zenon DEF accounted
  <1>3. \A c : (\E j \in 1 .. Len(free') : free'[j] = c) => accounted(c)'
    BY DEF accounted
  <1>4. accounted(s)'
    <2>1. CASE use.reads[p] = 0
      BY <1>3, <2>1 DEF took
    <2>2. CASE use.reads[p] # 0
      <3>1. wanted(p, p + 1) /\ p \in 1 .. p /\ slot'[p] = s
        BY <1>0, <2>2, ReadLater DEF took
      <3> QED
        BY <1>0, <1>2, <3>1
    <2> QED
      BY <2>1, <2>2
  <1>5. ASSUME NEW c \in 0 .. n_slots - 1, c # s
        PROVE  accounted(c)'
    <2>0. accounted(c)
      BY DEF TightInv
    <2>1. CASE c = NO_SLOT
      BY <2>1 DEF accounted
    <2>2. CASE \E j \in 1 .. Len(free) : free[j] = c
      BY <1>3, <1>5, <2>2 DEF took
    <2>3. CASE c # NO_SLOT /\ \E v \in 1 .. pos - 1 : computes(v) /\ wanted(v, pos) /\ slot[v] = c
      <3>1. PICK v \in 1 .. p - 1 : computes(v) /\ wanted(v, p) /\ slot[v] = c
        BY <1>0, <2>3
      <3>2. v \in 1 .. N /\ v \in 1 .. p /\ v # p
        BY <1>0
      <3>3. CASE wanted(v, p + 1)
        <4>1. slot'[v] = c
          BY <3>1, <3>2 DEF took
        <4> QED
          BY <1>2, <3>1, <3>2, <3>3, <4>1
      <3>4. CASE ~wanted(v, p + 1)
        <4>1. wants(p, v) /\ use.last[v] <= p
          BY <3>1, <3>2, <3>4, ReadNoMore
        <4>2. leaves(v, p)
          BY <2>3, <3>1, <4>1 DEF leaves
        <4> QED
          BY <1>3, <1>5, <3>1, <4>2 DEF took
      <3> QED
        BY <3>3, <3>4
    <2> QED
      BY <2>0, <2>1, <2>2, <2>3 DEF accounted
  <1>6. \A c \in 0 .. n_slots' - 1 : c = s \/ c \in 0 .. n_slots - 1
    BY <1>0 DEF took
  <1> QED
    BY <1>4, <1>5, <1>6

\* The values beside the new one are in cells of their own, and if a cell was added they
\* are in all the others.
LEMMA CellsBeside ==
    ASSUME UseOK, SlotsInv, TightInv, NEW p \in 1 .. N, NEW s \in 0 .. n_slots, took(p, s)
    PROVE  /\ Cardinality(stay(p)) + 1 <= n_slots'
           /\ s = n_slots /\ n_slots < NO_SLOT => Cardinality(kept(p)) >= n_slots
  <1>0. /\ N \in Nat /\ p \in Nat /\ pos = p /\ computes(p) /\ n_slots \in Nat /\ NO_SLOT \in Nat
        /\ n_slots' \in Nat /\ s \in 0 .. n_slots' - 1 /\ \A c \in 0 .. n_slots - 1 : c \in 0 .. n_slots' - 1
    BY OpFacts, TapeAssumption DEF took, SlotsInv
  <1>1. \A v \in stay(p) : v \in 1 .. N /\ v < p /\ computes(v) /\ wanted(v, p + 1)
    BY <1>0 DEF stay
  <1>2. \A v \in stay(p) : cells[slot[v] + 1] = v
    <2> SUFFICES ASSUME NEW v \in stay(p)
                 PROVE  cells[slot[v] + 1] = v
      OBVIOUS
    <2>1. v \in 1 .. N /\ v < pos /\ computes(v) /\ wanted(v, pos)
      BY <1>0, <1>1, StillWanted
    <2> QED
      BY <2>1 DEF SlotsInv
  <1>3. Cardinality(stay(p)) + 1 <= n_slots'
    <2> DEFINE S == stay(p)
    <2>1. \A v \in S : slot[v] \in 0 .. n_slots' - 1 /\ slot[v] # s
      BY <1>0 DEF took
    <2>2. \A w0, v \in S : slot[w0] = slot[v] => w0 = v
      BY <1>2
    <2> HIDE DEF S
    <2>3. PICK k \in Nat : k = n_slots'
      BY <1>0
    <2>4. s \in 0 .. k - 1 /\ \A v \in S : slot[v] \in 0 .. k - 1 /\ slot[v] # s
      BY <1>0, <2>1, <2>3
    <2>5. Cardinality(S) + 1 <= k
      BY <2>2, <2>4, CellsApart
    <2> QED
      BY <2>3, <2>5 DEF S
  <1>4. ASSUME s = n_slots, n_slots < NO_SLOT
        PROVE  Cardinality(kept(p)) >= n_slots
    <2>1. free = <<>> /\ \A v : ~leaves(v, p)
      BY <1>4 DEF took
    <2>2. ASSUME NEW c \in 0 .. n_slots - 1
          PROVE  \E v \in kept(p) : slot[v] = c
      <3>1. accounted(c) /\ c # NO_SLOT
        BY <1>0, <1>4, <2>2 DEF TightInv
      <3>2. ~\E j \in 1 .. Len(free) : free[j] = c
        BY <2>1
      <3>3. PICK v \in 1 .. p - 1 : computes(v) /\ wanted(v, p) /\ slot[v] = c
        BY <1>0, <3>1, <3>2 DEF accounted
      <3>4. v \in 1 .. N
        BY <1>0
      <3>5. wanted(v, p + 1)
        BY <1>0, <2>1, <3>1, <3>3, <3>4, ReadNoMore DEF leaves
      <3> QED
        BY <3>1, <3>3, <3>5 DEF kept, stay
    <2>3. IsFiniteSet(kept(p))
      <3>1. kept(p) \in SUBSET (1 .. p - 1)
        BY DEF kept, stay
      <3> QED
        BY <1>0, <3>1, FewValues
    <2> QED
      BY <1>0, <2>2, <2>3, CellsFull
  <1> QED
    BY <1>3, <1>4

LEMMA InstructionKeepsTight ==
    ASSUME UseOK, SlotsInv, TightInv, Instruction
    PROVE  TightInv'
  <1>1. PICK p \in 1 .. N : \E s \in 0 .. n_slots : took(p, s)
    BY InstructionTakes
  <1>2. PICK s \in 0 .. n_slots : took(p, s)
    BY <1>1
  <1>3. /\ N \in Nat /\ p \in Nat /\ pos = p /\ computes(p) /\ pos' = p + 1 /\ n_slots \in Nat
        /\ NO_SLOT \in Nat /\ n_slots' = (IF s = n_slots THEN n_slots + 1 ELSE n_slots)
        /\ \A v \in 1 .. N : v # p => slot'[v] = slot[v]
    BY <1>2, OpFacts, TapeAssumption DEF took, SlotsInv
  <1>4. /\ \A v : computes(v)' <=> computes(v)
        /\ \A q : stay(q)' = stay(q)
    BY <1>2, SameTape, StaysStatic DEF took
  <1>5. ASSUME NEW q \in 1 .. p
        PROVE  kept(q)' = kept(q)
    <2>1. \A v \in stay(q) : v \in 1 .. N /\ v # p
      BY <1>3 DEF stay
    <2>2. \A v \in stay(q) : slot'[v] = slot[v]
      BY <1>3, <2>1
    <2> QED
      BY <1>4, <2>2 DEF kept
  <1>6. /\ Cardinality(stay(p)) + 1 <= n_slots'
        /\ s = n_slots /\ n_slots < NO_SLOT => Cardinality(kept(p)) >= n_slots
    BY <1>2, CellsBeside
  <1>7. \A q \in 1 .. p : Cardinality(stay(q)) \in Nat /\ Cardinality(kept(q)) \in Nat
    <2> TAKE q \in 1 .. p
    <2>1. q \in Nat /\ stay(q) \in SUBSET (1 .. q - 1) /\ kept(q) \in SUBSET (1 .. q - 1)
      BY <1>3 DEF stay, kept
    <2> QED
      BY <2>1, FewValues
  <1>8. \A q \in 1 .. pos' - 1 : computes(q)' => Cardinality(stay(q)') + 1 <= n_slots'
    <2> SUFFICES ASSUME NEW q \in 1 .. p, computes(q)
                 PROVE  Cardinality(stay(q)) + 1 <= n_slots'
      BY <1>3, <1>4
    <2>1. CASE q = p
      BY <1>6, <2>1
    <2>2. CASE q # p
      <3>1. q \in 1 .. pos - 1
        BY <1>3, <2>2
      <3>2. Cardinality(stay(q)) + 1 <= n_slots
        BY <3>1 DEF TightInv
      <3> QED
        BY <1>3, <1>7, <3>2
    <2> QED
      BY <2>1, <2>2
  <1>9. \E q \in 1 .. p : computes(q) /\ Cardinality(kept(q)) + 1 >= least(n_slots')
    <2>1. CASE s = n_slots /\ (n_slots < NO_SLOT \/ n_slots = 0)
      <3>1. Cardinality(kept(p)) >= n_slots /\ p \in 1 .. p
        BY <1>3, <1>6, <1>7, <2>1
      <3>2. Cardinality(kept(p)) + 1 >= least(n_slots')
        BY <1>3, <1>7, <2>1, <3>1 DEF least
      <3> QED
        BY <1>3, <3>1, <3>2
    <2>2. CASE ~(s = n_slots /\ (n_slots < NO_SLOT \/ n_slots = 0))
      <3>1. n_slots > 0
        BY <1>3, <2>2
      <3>2. PICK q \in 1 .. pos - 1 : computes(q) /\ Cardinality(kept(q)) + 1 >= least(n_slots)
        BY <3>1 DEF TightInv
      <3>3. least(n_slots') = least(n_slots)
        BY <1>3, <2>2, <3>1 DEF least
      <3>4. q \in 1 .. p
        BY <1>3
      <3> QED
        BY <3>2, <3>3, <3>4
    <2> QED
      BY <2>1, <2>2
  <1>10. n_slots' > 0 => \E q \in 1 .. pos' - 1 : computes(q)' /\ Cardinality(kept(q)') + 1 >= least(n_slots')
    <2>1. PICK q \in 1 .. p : computes(q) /\ Cardinality(kept(q)) + 1 >= least(n_slots')
      BY <1>9
    <2>2. q \in 1 .. pos' - 1 /\ computes(q)' /\ kept(q)' = kept(q)
      BY <1>3, <1>4, <1>5, <2>1
    <2> QED
      BY <2>1, <2>2
  <1>11. least(n_slots)' = least(n_slots')
    BY DEF least
  <1>12. \A c \in 0 .. n_slots' - 1 : accounted(c)'
    BY <1>2, CellsStayAccounted
  <1> QED
    BY <1>8, <1>10, <1>11, <1>12 DEF TightInv

\* Every instruction so far has a time of its own, in their order; what it read is alive
\* until then, and nothing is alive for longer than somebody read it.
LifeInv ==
    /\ t \in Nat /\ birth \in [1 .. N -> Int] /\ death \in [1 .. N -> Int]
    /\ \A v \in 1 .. N : IF computes(v) /\ v < pos THEN birth[v] \in 0 .. t - 1 ELSE birth[v] = -1
    /\ \A w0, v \in 1 .. N : computes(w0) /\ computes(v) /\ w0 < v /\ v < pos => birth[w0] < birth[v]
    /\ \A x \in 0 .. t - 1 : \E p \in 1 .. N : computes(p) /\ p < pos /\ birth[p] = x
    /\ \A v \in 1 .. N : \A q \in 1 .. N :
         computes(q) /\ q < pos /\ wants(q, v) /\ slot[v] # NO_SLOT => death[v] >= birth[q]
    /\ \A v \in 1 .. N : death[v] # -1 =>
         \E q \in 1 .. N : computes(q) /\ q < pos /\ death[v] = birth[q] /\ (wants(q, v) \/ q = v)

LEMMA WantsStatic ==
    ASSUME tape' = tape, use' = use
    PROVE  \A i, v : wants(i, v)' <=> wants(i, v)
  <1>1. N' = N
    BY DEF N
  <1>2. \A i : op(i)' = op(i)
    BY DEF op
  <1>3. \A i : fused(i)' <=> fused(i)
    BY <1>1, <1>2 DEF fused
  <1>4. \A i : mac(i)' <=> mac(i)
    BY <1>2, <1>3 DEF mac
  <1>5. \A i : chained(i)' <=> chained(i)
    BY <1>1, <1>2, <1>4 DEF chained
  <1>6. \A i : links(i)' = links(i)
    BY <1>5 DEF links
  <1>7. \A i : head(i)' = head(i)
    BY <1>6 DEF head
  <1>8. \A i : run(i)' = run(i)
    BY <1>3, <1>7 DEF run
  <1>9. \A i : swallowed(i)' <=> swallowed(i)
    BY <1>3, <1>5 DEF swallowed
  <1> QED
    BY <1>2, <1>8, <1>9 DEF wants

LEMMA InitLives ==
    ASSUME UseOK, PlanInit
    PROVE  TightInv /\ LifeInv
  <1>1. /\ pos = 1 /\ n_slots = 0 /\ t = 0 /\ N \in Nat
        /\ birth = [i \in 1 .. N |-> -1] /\ death = [i \in 1 .. N |-> -1]
    BY OpFacts DEF PlanInit, N
  <1>2. TightInv
    BY <1>1 DEF TightInv
  <1>3. \A v \in 1 .. N : ~(v < pos) /\ birth[v] = -1 /\ death[v] = -1
    BY <1>1
  <1>4. birth \in [1 .. N -> Int] /\ death \in [1 .. N -> Int]
    BY <1>1
  <1>5. t \in Nat /\ \A x \in 0 .. t - 1 : FALSE
    BY <1>1
  <1> QED
    BY <1>2, <1>3, <1>4, <1>5 DEF LifeInv

LEMMA PassKeepsLives ==
    ASSUME UseOK, SlotsInv, LifeInv, Pass
    PROVE  LifeInv'
  <1>1. PICK p \in 1 .. N : p = pos
    BY OpFacts DEF Pass, SlotsInv
  <1>2. /\ ~computes(p) /\ pos' = p + 1 /\ p \in Nat /\ N \in Nat
        /\ UNCHANGED <<tape, use, slot, birth, death, t>>
    BY <1>1, OpFacts DEF Pass
  <1>3. /\ N' = N
        /\ \A v : computes(v)' <=> computes(v)
        /\ \A q, v : wants(q, v)' <=> wants(q, v)
    BY <1>2, SameTape, WantsStatic
  <1>4. \A v \in 1 .. N : computes(v) => (v < p + 1 <=> v < p)
    BY <1>2
  <1>5. /\ t \in Nat /\ birth \in [1 .. N -> Int] /\ death \in [1 .. N -> Int]
        /\ \A v \in 1 .. N : IF computes(v) /\ v < p THEN birth[v] \in 0 .. t - 1 ELSE birth[v] = -1
        /\ \A w0, v \in 1 .. N : computes(w0) /\ computes(v) /\ w0 < v /\ v < p => birth[w0] < birth[v]
        /\ \A x \in 0 .. t - 1 : \E q \in 1 .. N : computes(q) /\ q < p /\ birth[q] = x
        /\ \A v \in 1 .. N : \A q \in 1 .. N :
             computes(q) /\ q < p /\ wants(q, v) /\ slot[v] # NO_SLOT => death[v] >= birth[q]
        /\ \A v \in 1 .. N : death[v] # -1 =>
             \E q \in 1 .. N : computes(q) /\ q < p /\ death[v] = birth[q] /\ (wants(q, v) \/ q = v)
    BY <1>1 DEF LifeInv
  <1>6. \A v \in 1 .. N : IF computes(v) /\ v < p + 1 THEN birth[v] \in 0 .. t - 1 ELSE birth[v] = -1
    BY <1>4, <1>5, Zenon
  <1>7. \A w0, v \in 1 .. N : computes(w0) /\ computes(v) /\ w0 < v /\ v < p + 1 => birth[w0] < birth[v]
    BY <1>4, <1>5, Zenon
  <1>8. \A x \in 0 .. t - 1 : \E q \in 1 .. N : computes(q) /\ q < p + 1 /\ birth[q] = x
    BY <1>4, <1>5, Zenon
  <1>9. \A v \in 1 .. N : \A q \in 1 .. N :
          computes(q) /\ q < p + 1 /\ wants(q, v) /\ slot[v] # NO_SLOT => death[v] >= birth[q]
    BY <1>4, <1>5, Zenon
  <1>10. \A v \in 1 .. N : death[v] # -1 =>
           \E q \in 1 .. N : computes(q) /\ q < p + 1 /\ death[v] = birth[q] /\ (wants(q, v) \/ q = v)
    BY <1>4, <1>5, Zenon
  <1> QED
    BY <1>2, <1>3, <1>5, <1>6, <1>7, <1>8, <1>9, <1>10, Zenon DEF LifeInv

LEMMA InstructionKeepsLives ==
    ASSUME UseOK, SlotsInv, LifeInv, Instruction
    PROVE  LifeInv'
  <1>1. PICK p \in 1 .. N : p = pos
    BY OpFacts DEF Instruction, SlotsInv
  <1>2. /\ computes(p) /\ pos' = p + 1 /\ t' = t + 1 /\ p \in Nat /\ N \in Nat
        /\ tape' = tape /\ use' = use /\ birth' = [birth EXCEPT ![p] = t]
    BY <1>1, OpFacts DEF Instruction
  <1>3. /\ N' = N
        /\ \A v : computes(v)' <=> computes(v)
        /\ \A q, v : wants(q, v)' <=> wants(q, v)
    BY <1>2, SameTape, WantsStatic
  <1>4. /\ t \in Nat /\ birth \in [1 .. N -> Int] /\ death \in [1 .. N -> Int]
        /\ \A v \in 1 .. N : IF computes(v) /\ v < p THEN birth[v] \in 0 .. t - 1 ELSE birth[v] = -1
        /\ \A w0, v \in 1 .. N : computes(w0) /\ computes(v) /\ w0 < v /\ v < p => birth[w0] < birth[v]
        /\ \A x \in 0 .. t - 1 : \E q \in 1 .. N : computes(q) /\ q < p /\ birth[q] = x
        /\ \A v \in 1 .. N : \A q \in 1 .. N :
             computes(q) /\ q < p /\ wants(q, v) /\ slot[v] # NO_SLOT => death[v] >= birth[q]
        /\ \A v \in 1 .. N : death[v] # -1 =>
             \E q \in 1 .. N : computes(q) /\ q < p /\ death[v] = birth[q] /\ (wants(q, v) \/ q = v)
    BY <1>1 DEF LifeInv
  <1>5. PICK s : /\ \A v \in 1 .. N : v # p => slot'[v] = slot[v]
                 /\ s = slot'[p]
    <2>1. PICK q \in 1 .. N : \E c \in 0 .. n_slots : took(q, c)
      BY InstructionTakes
    <2>2. q = p /\ \A v \in 1 .. N : v # p => slot'[v] = slot[v]
      BY <1>1, <2>1 DEF took
    <2> QED
      BY <2>2
  <1> DEFINE readNow == {v \in {operands(p)[j] : j \in DOMAIN operands(p)} : slot[v] # NO_SLOT}
             dies(v) == v \in readNow \/ (v = p /\ use.reads[p] = 0)
  <1>6. \A v \in 1 .. N : wants(p, v) /\ slot[v] # NO_SLOT => dies(v)
    <2> SUFFICES ASSUME NEW v \in 1 .. N, wants(p, v), slot[v] # NO_SLOT
                 PROVE  v \in readNow
      OBVIOUS
    <2>1. PICK j \in 1 .. Len(operands(p)) : operands(p)[j] = v
      BY <1>2, OperandsSet
    <2>2. j \in DOMAIN operands(p)
      BY <1>2, OperandsSet, Elements
    <2> QED
      BY <2>1, <2>2
  <1>7. \A v : dies(v) => wants(p, v) \/ v = p
    <2> SUFFICES ASSUME NEW v \in readNow
                 PROVE  wants(p, v)
      OBVIOUS
    <2>1. PICK j \in DOMAIN operands(p) : v = operands(p)[j]
      OBVIOUS
    <2>2. DOMAIN operands(p) = 1 .. Len(operands(p))
      BY <1>2, OperandsSet, Elements
    <2> QED
      BY <1>2, <2>1, <2>2, OperandsSet
  <1>8. death' = [v \in 1 .. N |-> IF dies(v) THEN t ELSE death[v]]
    <2>1. DOMAIN death = 1 .. N
      BY <1>4
    <2> QED
      BY <1>1, <2>1 DEF Instruction
  <1> HIDE DEF dies
  <1>9. /\ death' \in [1 .. N -> Int] /\ birth' \in [1 .. N -> Int] /\ t' \in Nat
        /\ \A v \in 1 .. N : death'[v] = IF dies(v) THEN t ELSE death[v]
        /\ birth'[p] = t /\ \A v \in 1 .. N : v # p => birth'[v] = birth[v]
    BY <1>2, <1>4, <1>8
  <1>10. \A v \in 1 .. N : computes(v) /\ v < p => birth[v] \in Int /\ birth[v] < t /\ v # p
    BY <1>2, <1>4
  <1>11. \A v \in 1 .. N : IF computes(v) /\ v < p + 1 THEN birth'[v] \in 0 .. t' - 1 ELSE birth'[v] = -1
    <2> TAKE v \in 1 .. N
    <2>1. CASE v = p
      <3>1. t \in 0 .. t' - 1 /\ p < p + 1
        BY <1>2, <1>4
      <3> QED
        BY <1>2, <1>9, <2>1, <3>1
    <2>2. CASE v # p
      <3>1. (v < p + 1 <=> v < p) /\ \A x \in 0 .. t - 1 : x \in 0 .. t' - 1
        BY <1>2, <1>4, <2>2
      <3> QED
        BY <1>4, <1>9, <2>2, <3>1, Zenon
    <2> QED
      BY <2>1, <2>2
  <1>12. \A w0, v \in 1 .. N : computes(w0) /\ computes(v) /\ w0 < v /\ v < p + 1 => birth'[w0] < birth'[v]
    <2> SUFFICES ASSUME NEW w0 \in 1 .. N, NEW v \in 1 .. N, computes(w0), computes(v), w0 < v, v < p + 1
                 PROVE  birth'[w0] < birth'[v]
      OBVIOUS
    <2>1. w0 < p /\ w0 # p
      BY <1>2
    <2>2. CASE v = p
      BY <1>9, <1>10, <2>1, <2>2
    <2>3. CASE v # p
      <3>1. v < p
        BY <1>2, <2>3
      <3> QED
        BY <1>4, <1>9, <2>1, <2>3, <3>1
    <2> QED
      BY <2>2, <2>3
  <1>13. \A x \in 0 .. t' - 1 : \E q \in 1 .. N : computes(q) /\ q < p + 1 /\ birth'[q] = x
    <2> TAKE x \in 0 .. t' - 1
    <2>1. CASE x = t
      BY <1>2, <1>9, <2>1
    <2>2. CASE x # t
      <3>1. x \in 0 .. t - 1
        BY <1>2, <1>4, <2>2
      <3>2. PICK q \in 1 .. N : computes(q) /\ q < p /\ birth[q] = x
        BY <1>4, <3>1
      <3>3. q < p + 1 /\ q # p
        BY <1>2, <3>2
      <3> QED
        BY <1>9, <3>2, <3>3
    <2> QED
      BY <2>1, <2>2
  <1>14. ASSUME NEW v \in 1 .. N, NEW q \in 1 .. N, computes(q), q < p + 1, wants(q, v), slot'[v] # NO_SLOT
         PROVE  death'[v] >= birth'[q]
    <2>1. v \in 1 .. q - 1
      BY <1>14, WantedIsKept
    <2>2. v # p /\ slot[v] # NO_SLOT
      BY <1>2, <1>5, <1>14, <2>1
    <2>3. CASE q = p
      BY <1>4, <1>6, <1>9, <1>14, <2>2, <2>3
    <2>4. CASE q # p
      <3>1. q < p
        BY <1>2, <1>14, <2>4
      <3>2. death[v] >= birth[q] /\ birth[q] < t /\ birth'[q] = birth[q]
        BY <1>4, <1>9, <1>10, <1>14, <2>2, <2>4, <3>1
      <3>3. death[v] \in Int /\ birth[q] \in Int /\ t \in Nat
        BY <1>4
      <3>4. death'[v] = t \/ death'[v] = death[v]
        BY <1>9
      <3> QED
        BY <3>2, <3>3, <3>4
    <2> QED
      BY <2>3, <2>4
  <1>15. ASSUME NEW v \in 1 .. N, death'[v] # -1
         PROVE  \E q \in 1 .. N : computes(q) /\ q < p + 1 /\ death'[v] = birth'[q] /\ (wants(q, v) \/ q = v)
    <2>1. CASE dies(v)
      <3>1. death'[v] = birth'[p] /\ (wants(p, v) \/ p = v) /\ p < p + 1
        BY <1>2, <1>7, <1>9, <2>1
      <3> QED
        BY <1>2, <3>1
    <2>2. CASE ~dies(v)
      <3>1. death[v] # -1 /\ death'[v] = death[v]
        BY <1>9, <1>15, <2>2
      <3>2. PICK q \in 1 .. N : computes(q) /\ q < p /\ death[v] = birth[q] /\ (wants(q, v) \/ q = v)
        BY <1>4, <3>1
      <3>3. q < p + 1 /\ q # p /\ birth'[q] = birth[q]
        BY <1>2, <1>9, <3>2
      <3> QED
        BY <3>1, <3>2, <3>3
    <2> QED
      BY <2>1, <2>2
  <1>16. \A v \in 1 .. N : \A q \in 1 .. N :
           computes(q) /\ q < p + 1 /\ wants(q, v) /\ slot'[v] # NO_SLOT => death'[v] >= birth'[q]
    BY <1>14
  <1>17. \A v \in 1 .. N : death'[v] # -1 =>
           \E q \in 1 .. N : computes(q) /\ q < p + 1 /\ death'[v] = birth'[q] /\ (wants(q, v) \/ q = v)
    BY <1>15
  <1> QED
    BY <1>2, <1>3, <1>9, <1>11, <1>12, <1>13, <1>16, <1>17, ZenonT(40) DEF LifeInv

\* The values in cells at an instruction are those still to be read after it, but for the
\* ones in the cell the evaluator takes for none.
LEMMA AliveBeside ==
    ASSUME UseOK, SlotsInv, LifeInv, pos = N + 1, NEW ends,
           ends = [v \in DOMAIN death |-> IF slot[v] # NO_SLOT /\ output(v) THEN t ELSE death[v]],
           NEW p \in 1 .. N, computes(p)
    PROVE  /\ birth[p] \in 0 .. t - 1
           /\ alive(ends, birth[p]) \in Nat
           /\ Cardinality(kept(p)) + 1 <= alive(ends, birth[p])
           /\ alive(ends, birth[p]) <= Cardinality(stay(p)) + 1
  <1> DEFINE x == birth[p]
             A == {v \in DOMAIN birth : birth[v] # -1 /\ birth[v] < x /\ ends[v] > x}
  <1>1. /\ t \in Nat /\ birth \in [1 .. N -> Int] /\ death \in [1 .. N -> Int]
        /\ \A v \in 1 .. N : IF computes(v) /\ v < pos THEN birth[v] \in 0 .. t - 1 ELSE birth[v] = -1
        /\ \A w0, v \in 1 .. N : computes(w0) /\ computes(v) /\ w0 < v /\ v < pos => birth[w0] < birth[v]
        /\ \A v \in 1 .. N : \A q \in 1 .. N :
             computes(q) /\ q < pos /\ wants(q, v) /\ slot[v] # NO_SLOT => death[v] >= birth[q]
        /\ \A v \in 1 .. N : death[v] # -1 =>
             \E q \in 1 .. N : computes(q) /\ q < pos /\ death[v] = birth[q] /\ (wants(q, v) \/ q = v)
    BY DEF LifeInv
  <1>2. N \in Nat /\ p \in Nat /\ \A v \in 1 .. N : v < pos
    BY OpFacts
  <1>3. \A v \in 1 .. N : computes(v) => birth[v] \in Nat /\ birth[v] < t
    BY <1>1, <1>2
  <1>4. x \in Nat /\ x \in 0 .. t - 1 /\ x < t
    BY <1>1, <1>2
  <1>5. \A v \in 1 .. N : ends[v] = IF slot[v] # NO_SLOT /\ output(v) THEN t ELSE death[v]
    BY <1>1
  <1>6. \A v \in 1 .. N : computes(v) /\ birth[v] < x => v < p
    <2> SUFFICES ASSUME NEW v \in 1 .. N, computes(v), birth[v] < x, ~(v < p)
                 PROVE  FALSE
      OBVIOUS
    <2>1. v # p
      BY <1>4
    <2>2. p < v
      BY <1>2, <2>1
    <2>3. birth[p] < birth[v]
      BY <1>1, <1>2, <2>2
    <2> QED
      BY <1>3, <1>4, <2>3
  <1>7. \A v \in 1 .. N : computes(v) /\ birth[v] > x => p < v
    <2> SUFFICES ASSUME NEW v \in 1 .. N, computes(v), birth[v] > x, ~(p < v)
                 PROVE  FALSE
      OBVIOUS
    <2>1. v # p
      BY <1>4
    <2>2. v < p
      BY <1>2, <2>1
    <2>3. birth[v] < birth[p]
      BY <1>1, <1>2, <2>2
    <2> QED
      BY <1>3, <1>4, <2>3
  <1>8. A \in SUBSET stay(p)
    <2> SUFFICES ASSUME NEW v \in 1 .. N, birth[v] # -1, birth[v] < x, ends[v] > x
                 PROVE  v \in stay(p)
      BY <1>1
    <2>1. computes(v)
      BY <1>1, <1>2
    <2>2. v \in 1 .. p - 1
      BY <1>2, <1>6, <2>1
    <2>3. wanted(v, p + 1)
      <3>1. CASE output(v)
        BY <3>1 DEF wanted
      <3>2. CASE ~output(v)
        <4>1. death[v] > x /\ death[v] # -1
          BY <1>1, <1>4, <1>5, <3>2
        <4>2. PICK q \in 1 .. N : computes(q) /\ death[v] = birth[q] /\ (wants(q, v) \/ q = v)
          BY <1>1, <4>1
        <4>3. q # v
          BY <1>3, <1>4, <2>1, <4>1, <4>2
        <4>4. q \in p + 1 .. N
          BY <1>2, <1>7, <4>1, <4>2
        <4> QED
          BY <4>2, <4>3, <4>4 DEF wanted
      <3> QED
        BY <3>1, <3>2
    <2> QED
      BY <2>1, <2>2, <2>3 DEF stay
  <1>9. kept(p) \in SUBSET A
    <2> SUFFICES ASSUME NEW v \in stay(p), slot[v] # NO_SLOT
                 PROVE  v \in A
      BY DEF kept
    <2>1. v \in 1 .. N /\ v < p /\ computes(v) /\ wanted(v, p + 1)
      BY <1>2 DEF stay
    <2>2. birth[v] \in Nat /\ birth[v] < x /\ birth[v] # -1
      BY <1>1, <1>2, <1>3, <2>1
    <2>3. ends[v] > x
      <3>1. CASE output(v)
        BY <1>4, <1>5, <2>1, <3>1
      <3>2. CASE ~output(v)
        <4>1. PICK i \in p + 1 .. N : computes(i) /\ wants(i, v)
          BY <2>1, <3>2 DEF wanted
        <4>2. i \in 1 .. N /\ p < i
          BY <1>2
        <4>3. death[v] >= birth[i] /\ birth[p] < birth[i] /\ birth[i] \in Nat /\ death[v] \in Int
          BY <1>1, <1>2, <1>3, <2>1, <4>1, <4>2
        <4> QED
          BY <1>4, <1>5, <2>1, <3>2, <4>3
      <3> QED
        BY <3>1, <3>2
    <2> QED
      BY <1>1, <2>1, <2>2, <2>3
  <1>10. /\ IsFiniteSet(stay(p)) /\ Cardinality(stay(p)) \in Nat
    <2>1. stay(p) \in SUBSET (1 .. p - 1)
      BY DEF stay
    <2> QED
      BY <1>2, <2>1, FewValues
  <1>11. alive(ends, x) = Cardinality(A) + 1
    BY DEF alive
  <1> HIDE DEF A, x
  <1>12. IsFiniteSet(A) /\ Cardinality(A) <= Cardinality(stay(p))
    BY <1>8, <1>10, FS_Subset
  <1>13. IsFiniteSet(kept(p)) /\ Cardinality(kept(p)) <= Cardinality(A)
    BY <1>9, <1>12, FS_Subset
  <1>14. Cardinality(A) \in Nat /\ Cardinality(kept(p)) \in Nat
    BY <1>12, <1>13, FS_CardinalityType
  <1> QED
    BY <1>4, <1>10, <1>11, <1>12, <1>13, <1>14 DEF x

\* A set of naturals that has a bound has a greatest element.
LEMMA GreatestOf ==
    ASSUME NEW S \in SUBSET Nat, S # {}, NEW k \in Nat, \A n \in S : n <= k
    PROVE  \E m \in S : \A n \in S : n <= m
  <1> DEFINE T == {j \in Nat : k - j \in S}
  <1>1. PICK n0 \in S : TRUE
    OBVIOUS
  <1>2. n0 \in Nat /\ n0 <= k
    OBVIOUS
  <1>3. k - n0 \in Nat /\ k - (k - n0) = n0
    BY <1>2
  <1>4. T \in SUBSET Nat /\ T # {}
    BY <1>3
  <1>5. PICK j \in T : \A i \in T : j <= i
    <2> HIDE DEF T
    <2> QED
      BY <1>4, LeastOf
  <1>6. j \in Nat /\ k - j \in S
    BY <1>5
  <1>7. ASSUME NEW n \in S
        PROVE  n <= k - j
    <2>1. n \in Nat /\ n <= k
      OBVIOUS
    <2>2. k - n \in Nat /\ k - (k - n) = n
      BY <2>1
    <2>3. j <= k - n
      BY <1>5, <2>2
    <2> QED
      BY <1>6, <2>1, <2>2, <2>3
  <1> QED
    BY <1>6, <1>7

\* The most values in cells at once are as many as the cells, or too many for a byte.
LEMMA PeakIs ==
    ASSUME UseOK, SlotsInv, TightInv, LifeInv, pos = N + 1, NEW ends,
           ends = [v \in DOMAIN death |-> IF slot[v] # NO_SLOT /\ output(v) THEN t ELSE death[v]]
    PROVE  /\ n_slots < NO_SLOT => peak(ends) = n_slots
           /\ n_slots >= NO_SLOT => peak(ends) >= NO_SLOT
  <1>1. /\ N \in Nat /\ t \in Nat /\ n_slots \in Nat /\ NO_SLOT \in Nat
        /\ \A p \in 1 .. N : computes(p) => Cardinality(stay(p)) + 1 <= n_slots
        /\ n_slots > 0 => \E p \in 1 .. N : computes(p) /\ Cardinality(kept(p)) + 1 >= least(n_slots)
        /\ \A x \in 0 .. t - 1 : \E p \in 1 .. N : computes(p) /\ birth[p] = x
    <2>1. N \in Nat /\ pos - 1 = N
      BY OpFacts
    <2> QED
      BY <2>1, TapeAssumption DEF SlotsInv, TightInv, LifeInv
  <1>2. \A p \in 1 .. N : computes(p) => /\ birth[p] \in 0 .. t - 1
                                         /\ alive(ends, birth[p]) \in Nat
                                         /\ Cardinality(kept(p)) + 1 <= alive(ends, birth[p])
                                         /\ alive(ends, birth[p]) <= Cardinality(stay(p)) + 1
                                         /\ Cardinality(stay(p)) \in Nat /\ Cardinality(kept(p)) \in Nat
    <2> SUFFICES ASSUME NEW p \in 1 .. N, computes(p)
                 PROVE  /\ birth[p] \in 0 .. t - 1
                        /\ alive(ends, birth[p]) \in Nat
                        /\ Cardinality(kept(p)) + 1 <= alive(ends, birth[p])
                        /\ alive(ends, birth[p]) <= Cardinality(stay(p)) + 1
                        /\ Cardinality(stay(p)) \in Nat /\ Cardinality(kept(p)) \in Nat
      OBVIOUS
    <2>1. p \in Nat /\ stay(p) \in SUBSET (1 .. p - 1) /\ kept(p) \in SUBSET (1 .. p - 1)
      BY DEF stay, kept
    <2>2. Cardinality(stay(p)) \in Nat /\ Cardinality(kept(p)) \in Nat
      BY <2>1, FewValues
    <2> QED
      BY <2>2, AliveBeside
  <1>3. CASE n_slots = 0
    <2>1. t = 0
      <3> SUFFICES ASSUME t # 0
                   PROVE  FALSE
        OBVIOUS
      <3>1. 0 \in 0 .. t - 1
        BY <1>1
      <3>2. PICK p \in 1 .. N : computes(p)
        BY <1>1, <3>1
      <3> QED
        BY <1>1, <1>2, <1>3, <3>2
    <2>2. peak(ends) = 0
      BY <2>1 DEF peak
    <2> QED
      BY <1>1, <1>3, <2>2
  <1>4. CASE n_slots # 0
    <2> DEFINE S == {alive(ends, x) : x \in 0 .. t - 1}
    <2>1. \A x \in 0 .. t - 1 : alive(ends, x) \in Nat /\ alive(ends, x) <= n_slots
      <3> TAKE x \in 0 .. t - 1
      <3>1. PICK p \in 1 .. N : computes(p) /\ birth[p] = x
        BY <1>1
      <3>2. /\ alive(ends, x) \in Nat /\ alive(ends, x) <= Cardinality(stay(p)) + 1
            /\ Cardinality(stay(p)) \in Nat /\ Cardinality(stay(p)) + 1 <= n_slots
        BY <1>1, <1>2, <3>1
      <3> QED
        BY <1>1, <3>2
    <2>2. PICK p \in 1 .. N : computes(p) /\ Cardinality(kept(p)) + 1 >= least(n_slots)
      BY <1>1, <1>4
    <2>3. /\ birth[p] \in 0 .. t - 1 /\ alive(ends, birth[p]) \in Nat
          /\ least(n_slots) <= alive(ends, birth[p])
      <3>1. least(n_slots) \in Nat
        BY <1>1 DEF least
      <3> QED
        BY <1>2, <2>2, <3>1
    <2>4. S \in SUBSET Nat /\ S # {} /\ \A n \in S : n <= n_slots
      BY <2>1, <2>3
    <2> HIDE DEF S
    <2>5. PICK m \in S : \A n \in S : n <= m
      BY <1>1, <2>4, GreatestOf
    <2>6. \A x \in 0 .. t - 1 : alive(ends, x) <= m
      BY <2>5 DEF S
    <2>7. peak(ends) = CHOOSE i \in S : \A x \in 0 .. t - 1 : alive(ends, x) <= i
      <3>1. t # 0
        BY <1>1, <2>3
      <3> QED
        BY <3>1 DEF peak, S
    <2>8. peak(ends) \in S /\ \A x \in 0 .. t - 1 : alive(ends, x) <= peak(ends)
      BY <2>5, <2>6, <2>7, Zenon
    <2>9. peak(ends) \in Nat /\ peak(ends) <= n_slots /\ least(n_slots) <= peak(ends)
      <3>1. alive(ends, birth[p]) <= peak(ends) /\ peak(ends) \in Nat /\ peak(ends) <= n_slots
        BY <2>3, <2>4, <2>8
      <3>2. least(n_slots) \in Nat
        BY <1>1 DEF least
      <3> QED
        BY <2>3, <3>1, <3>2
    <2> QED
      BY <1>1, <2>9 DEF least
  <1> QED
    BY <1>3, <1>4

TightPlan ==
    /\ verdict = "planning" => TightInv /\ LifeInv
    /\ verdict # "planning" => pos = N + 1
    /\ PlanIsTight

LEMMA FinishIsTight ==
    ASSUME UseOK, SlotsInv, TightPlan, Finish
    PROVE  TightPlan'
  <1> DEFINE ends == [v \in DOMAIN death |-> IF slot[v] # NO_SLOT /\ output(v) THEN t ELSE death[v]]
  <1>1. /\ TightInv /\ LifeInv /\ pos = N + 1 /\ n_slots \in Nat /\ NO_SLOT \in Nat
    BY TapeAssumption DEF Finish, TightPlan, SlotsInv
  <1>2. /\ death' = ends /\ birth' = birth /\ t' = t /\ tape' = tape /\ use' = use /\ pos' = pos
        /\ verdict' = IF n_slots # peak(ends) \/ n_slots >= NO_SLOT THEN "refused" ELSE "planned"
    BY DEF Finish, output
  <1>3. ends = [v \in DOMAIN death |-> IF slot[v] # NO_SLOT /\ output(v) THEN t ELSE death[v]]
    OBVIOUS
  <1> HIDE DEF ends
  <1>4. /\ n_slots < NO_SLOT => peak(ends) = n_slots
        /\ n_slots >= NO_SLOT => peak(ends) >= NO_SLOT
    BY <1>1, <1>3, PeakIs
  <1>5. verdict' = "refused" => peak(ends) >= NO_SLOT
    <2>1. CASE n_slots < NO_SLOT
      <3>1. n_slots = peak(ends) /\ ~(n_slots >= NO_SLOT)
        BY <1>1, <1>4, <2>1
      <3>2. verdict' = "planned"
        BY <1>2, <3>1
      <3> QED
        BY <3>2
    <2>2. CASE ~(n_slots < NO_SLOT)
      BY <1>1, <1>4, <2>2
    <2> QED
      BY <2>1, <2>2
  <1>6. peak(death)' = peak(ends)
    <2>1. peak(death)' = peak(death')
      BY <1>2 DEF peak, alive
    <2> QED
      BY <1>2, <2>1
  <1>7. PlanIsTight'
    BY <1>5, <1>6 DEF PlanIsTight
  <1>8. N' = N
    BY <1>2 DEF N
  <1>9. verdict' # "planning"
    BY <1>2
  <1> QED
    BY <1>1, <1>2, <1>7, <1>8, <1>9 DEF TightPlan

\* A tape with fewer values alive at once than a byte counts is never refused, whatever
\* the fused and chained runs and the inversions nobody reads: the check on the number of
\* cells at the end of gen_program_air.py's planner never fails for another reason.
THEOREM CellsAreAsFew == PlanSpec => []PlanIsTight
  <1>1. UseOK /\ PlanInit => TightPlan
    <2> SUFFICES ASSUME UseOK, PlanInit
                 PROVE  TightPlan
      OBVIOUS
    <2>1. verdict = "planning"
      BY DEF PlanInit
    <2> QED
      BY <2>1, InitLives DEF TightPlan, PlanIsTight
  <1>2. PlanInv /\ PlanInv' /\ TightPlan /\ [PlanNext]_planVars => TightPlan'
    <2> SUFFICES ASSUME UseOK, SlotsInv, TightPlan, [PlanNext]_planVars
                 PROVE  TightPlan'
      BY DEF PlanInv
    <2>1. CASE Pass \/ Instruction
      <3>1. verdict' = verdict /\ pos <= N /\ tape' = tape
        BY <2>1 DEF Pass, Instruction
      <3>2. pos \in Nat /\ N \in Nat
        BY OpFacts DEF SlotsInv
      <3>3. verdict = "planning"
        <4>1. pos # N + 1
          BY <3>1, <3>2
        <4> QED
          BY <4>1 DEF TightPlan
      <3>4. TightInv' /\ LifeInv'
        <4>1. TightInv /\ LifeInv
          BY <3>3 DEF TightPlan
        <4> QED
          BY <2>1, <4>1, PassKeepsTight, PassKeepsLives, InstructionKeepsTight, InstructionKeepsLives
      <3> QED
        BY <3>1, <3>3, <3>4 DEF TightPlan, PlanIsTight
    <2>2. CASE Finish
      BY <2>2, FinishIsTight
    <2>3. CASE UNCHANGED planVars
      <3>1. UNCHANGED <<tape, use, pos, slot, free, n_slots, birth, death, t, cells, verdict>>
        BY <2>3 DEF planVars
      <3>2. /\ N' = N /\ \A v : computes(v)' <=> computes(v)
            /\ \A v, q : wanted(v, q)' <=> wanted(v, q)
            /\ \A q : stay(q)' = stay(q)
            /\ \A q, v : wants(q, v)' <=> wants(q, v)
        BY <3>1, SameTape, StaysStatic, WantsStatic
      <3>3. \A q : kept(q)' = kept(q)
        BY <3>1, <3>2 DEF kept
      <3>4. TightInv => TightInv'
        <4>1. \A c : accounted(c)' <=> accounted(c)
          BY <3>1, <3>2, Zenon DEF accounted
        <4>2. least(n_slots)' = least(n_slots)
          BY <3>1 DEF least
        <4> QED
          BY <3>1, <3>2, <3>3, <4>1, <4>2, Zenon DEF TightInv
      <3>5. LifeInv => LifeInv'
        BY <3>1, <3>2, Zenon DEF LifeInv
      <3>6. PlanIsTight => PlanIsTight'
        BY <3>1 DEF PlanIsTight, peak, alive
      <3> QED
        BY <3>1, <3>2, <3>4, <3>5, <3>6, Zenon DEF TightPlan
    <2> QED
      BY <2>1, <2>2, <2>3 DEF PlanNext
  <1>3. TightPlan => PlanIsTight
    BY DEF TightPlan
  <1> QED
    BY <1>1, <1>2, <1>3, PlanStays, PlanUse, PTL DEF PlanSpec
=============================================================================
