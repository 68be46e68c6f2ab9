------------------------------ MODULE Poseidon ------------------------------
(***************************************************************************)
(* The arithmetic of script/tools/poseidon_fast/gen.py: the reference       *)
(* permutation, and the three ideas that replace it (an integer MDS matrix, *)
(* three rows packed in one word, a scale that rolls from round to round).  *)
(*                                                                         *)
(* Field, matrix, constants and widths are parameters.  A vector is a       *)
(* sequence of eight, counted from 1; rounds are counted from 0 as in the   *)
(* source.                                                                 *)
(***************************************************************************)
EXTENDS Integers, Sequences

CONSTANTS
    P, ROUNDS, MDS, RC,     \* spec/poseidon-constants.json
    NOTE_DOMAIN,
    LIMB,                   \* bits of a limb of a digest: 64
    W,                      \* lane width, in bits: 84
    WORDBITS                \* 256

\* P is prime, constants are residues, and the lanes below the top one fit the word.
ASSUME FieldAssumption ==
    /\ P \in Nat /\ P > 1
    /\ \A x \in 1 .. P - 1 : \E y \in 1 .. P - 1 : (x * y) % P = 1
    /\ ROUNDS \in Nat \ {0}
    /\ MDS \in [1 .. 8 -> [1 .. 8 -> 0 .. P - 1]]
    /\ RC \in [0 .. ROUNDS - 1 -> [1 .. 8 -> 0 .. P - 1]]
    /\ W \in Nat /\ WORDBITS \in Nat /\ 2 * W < WORDBITS

\* What exponents the widths are: a law of arithmetic the provers have no rule for.
ASSUME PowersOfTwo ==
    /\ 2^0 = 1
    /\ \A m \in 0 .. WORDBITS : 2^m \in Nat \ {0}
    /\ \A m, n \in 0 .. WORDBITS : m + n <= WORDBITS => 2^(m + n) = 2^m * 2^n

WIDTH == 8
Limbs == 1 .. 4
GROUPS == << <<1, 2, 3>>, <<4, 5, 6>>, <<7, 8>> >>

\* A vector of eight, evaluated as a whole.
Vector(f(_)) == <<f(1), f(2), f(3), f(4), f(5), f(6), f(7), f(8)>>
Total(v) == v[1] + v[2] + v[3] + v[4] + v[5] + v[6] + v[7] + v[8]
Zeros(n) == [i \in 1 .. n |-> 0]

inverse(x) == CHOOSE y \in 1 .. P - 1 : (x * y) % P = 1
pow7(x) == LET x2 == (x * x) % P
               x3 == (x2 * x) % P
               x6 == (x3 * x3) % P
           IN (x6 * x) % P

-----------------------------------------------------------------------------
(* Reference.                                                              *)

ref_round(s, r) ==
    LET t == Vector(LAMBDA k : pow7(s[k]))
    IN Vector(LAMBDA j : (RC[r][j] + Total(Vector(LAMBDA k : MDS[j][k] * t[k]))) % P)

ref_perm(s, n) ==
    LET after[r \in 0 .. n] == IF r = 0 THEN s ELSE ref_round(after[r - 1], r - 1)
    IN after[n]

ref_compress(a, b) == SubSeq(ref_perm(a \o b, ROUNDS), 1, 4)
ref_hash4(x) == SubSeq(ref_perm(x \o Zeros(4), ROUNDS - 1), 1, 4)

ref_note(m) ==
    LET p == m \o <<NOTE_DOMAIN>> \o Zeros(4)
        part(i) == SubSeq(p, 4 * i + 1, 4 * i + 4)
    IN ref_compress(ref_compress(part(0), part(1)), ref_compress(part(2), part(3)))

pack(l) == l[1] + l[2] * 2^LIMB + l[3] * 2^(2 * LIMB) + l[4] * 2^(3 * LIMB)
limb(word, i) == (word \div 2^(LIMB * (i - 1))) % 2^LIMB

-----------------------------------------------------------------------------
(* Integer MDS: M = F * MP, with small integers MP.                        *)

\* M[j][k] = -1/n, for the least n.
denominator(j, k) ==
    CHOOSE n \in 1 .. 63 : /\ (MDS[j][k] * n) % P = P - 1
                           /\ \A m \in 1 .. n - 1 : (MDS[j][k] * m) % P # P - 1

L == CHOOSE n \in 1 .. 27720 :
        LET common(m) == \A j, k \in 1 .. WIDTH : m % denominator(j, k) = 0
        IN common(n) /\ \A m \in 1 .. n - 1 : ~common(m)

MP == Vector(LAMBDA j : Vector(LAMBDA k : L \div denominator(j, k)))

F == (P - inverse(L % P)) % P

\* Every entry is -1/n for some n below 64, and F exists: the source stops otherwise.
ASSUME ScaleFound ==
    /\ \A j, k \in 1 .. WIDTH : denominator(j, k) \in 1 .. 63
    /\ L \in Nat /\ L % P # 0

ASSUME IntegerMDS == \A j, k \in 1 .. WIDTH : MDS[j][k] = (F * MP[j][k]) % P

-----------------------------------------------------------------------------
(* Rolling scale: after round r the state is scaled by C[r].               *)

C == LET c[r \in -1 .. ROUNDS - 1] ==
             IF r = -1 THEN 1 ELSE (pow7(c[r - 1]) * inverse(F)) % P
     IN c
CINV(r) == inverse(C[r])

-----------------------------------------------------------------------------
(* Lane packing.                                                           *)

top(g, i) == i = Len(GROUPS[g])
offset(i) == W * (i - 1)

packedRows(g, entry) ==
    LET rows == GROUPS[g]
        upTo[i \in 0 .. Len(rows)] ==
            IF i = 0 THEN 0 ELSE upTo[i - 1] + entry[rows[i]] * 2^offset(i)
    IN upTo[Len(rows)]

packed_col(g, k) == packedRows(g, Vector(LAMBDA j : MP[j][k]))
packed_init(g, r) == packedRows(g, Vector(LAMBDA j : (C[r] * RC[r][j]) % P))

\* No row sum reaches the next lane: each t is below P.
laneBound ==
    \A g \in 1 .. 3 : \A i \in DOMAIN GROUPS[g] :
        (P - 1) * (1 + Total(MP[GROUPS[g][i]])) <
            2^(IF top(g, i) THEN WORDBITS - offset(i) ELSE W)

ASSUME LanesFit == laneBound

fast_sbox(l) == LET l3 == ((l * l) % P) * (l % P) % P IN ((l3 * l3) % P) * (l % P) % P

fast_round(lanes, r) ==
    LET t == Vector(LAMBDA k : fast_sbox(lanes[k]))
        acc(g) == packed_init(g, r) + Total(Vector(LAMBDA k : packed_col(g, k) * t[k]))
    IN <<acc(1), acc(2), acc(3)>>

lane(acc, g, i) ==
    LET shifted == acc \div 2^offset(i) IN IF top(g, i) THEN shifted ELSE shifted % 2^W

unpack(accs) ==
    Vector(LAMBDA j : LET g == (j + 2) \div 3 IN lane(accs[g], g, j - 3 * (g - 1)))

\* The packed accumulators after each of the first n rounds.
accumulators(x, n) ==
    LET acc[r \in 0 .. n - 1] == fast_round(IF r = 0 THEN x ELSE unpack(acc[r - 1]), r)
    IN acc

\* n rounds of packed lanes, and the scale of the last one taken off four of them.
fast_perm(x, n) ==
    LET lanes == unpack(accumulators(x, n)[n - 1])
    IN [i \in Limbs |-> (lanes[i] * CINV(n - 1)) % P]
=============================================================================
