----------------------------- MODULE PoseidonGen -----------------------------
(***************************************************************************)
(* The code generator of script/tools/poseidon_fast/gen.py: what build()    *)
(* emits, for the two entries of the hasher, the note entry of the research  *)
(* build, the shared subroutines, and the constructor.                     *)
(*                                                                         *)
(* A block of code is the moves that emit it.                              *)
(*                                                                         *)
(* Calling conventions, bottom first: PERM takes [ret, x1..x8] and jumps to  *)
(* ret with the three packed accumulators of its last round; COMPRESS_R      *)
(* takes [ret, accumulators], adds the last round and unscales to [r1..r4].  *)
(***************************************************************************)
EXTENDS Poseidon, PoseidonAsm

CONSTANTS
    SELSHIFT,                       \* 224: a selector is the top of a word
    SEL_HASH2, SEL_FIELDS, SEL_NOTE,
    ERR_NONCANON, ERR_SPONGE, ERR_KAT,
    KAT_LEFT, KAT_RIGHT, KAT_INPUT, KAT_LIMBS   \* inputs of the known-answer vectors

MASK64 == 2^LIMB - 1
LANE_MASK == 2^W - 1

X(k) == <<"x", k>>
Ln(k) == <<"l", k>>
T(k) == <<"t", k>>
R(k) == <<"r", k>>
acc(g) == <<"acc", g>>
accOf(g, r) == <<"acc", g, r>>
tmp == <<"_">>

\* The table of packed columns, copied to memory by each entry.
caddr(g, k) == 32 * (8 * (g - 1) + k - 1)
CONST_WORDS == [i \in 0 .. 23 |-> packed_col((i \div 8) + 1, (i % 8) + 1)]
CONST_BYTES == 32 * 24

emit_consts == <<raw(pushItem(CONST_BYTES)), raw(labelRef("CONSTS")), raw(pushItem(0)),
                 raw(opItem("CODECOPY", 0))>>
emit_jump(lab) == <<raw(labelRef(lab)), raw(opItem("JUMP", 0))>>

\* A condition on top of the stack, tracked; the label pushed above it is not.
jumpIf(lab) == <<raw(labelRef(lab)), raw(opItem("JUMPI", 0)), restack(1, <<>>)>>

-----------------------------------------------------------------------------
(* Rounds.                                                                 *)

\* The lane on top becomes its seventh power mod P: two multiplies, two MULMODs.
sbox(from, to) ==
    <<dup(from, <<"_l1">>), dup(from, <<"_l1b">>), op("MUL", 2, <<"_l2">>),
      push(P, <<"_p">>), swap(1), dup(from, <<"_l">>), op("MULMOD", 3, <<"_l3">>),
      dup(<<"_l3">>, <<"_l3b">>), op("MUL", 2, <<"_l6">>),
      push(P, <<"_p">>), swap(2), op("MULMOD", 3, to)>>

\* One packed row sum built on top of the t's, then buried below them.
buriedGroup(g, r) ==
    <<push(packed_init(g, r), acc(g))>>
    \o forEach(8, LAMBDA k : <<push(caddr(g, k), <<"_a">>), op("MLOAD", 1, <<"_c">>),
                               dup(T(k), <<"_t">>), op("MUL", 2, <<"_m">>), op("ADD", 2, acc(g))>>)
    \o <<swap(8)>>

\* The last row sum eats the t's in whatever order they lie: the one on top, then the next.
eatenGroup(g) ==
    LET columns == [k \in 1 .. 8 |-> caddr(g, k)]
    IN forEach(8, LAMBDA i :
        (IF i = 1 THEN <<>> ELSE <<swap(1)>>)
        \o <<pushFor(columns, <<"_a">>), op("MLOAD", 1, <<"_c">>),
             op("MUL", 2, IF i = 1 THEN acc(g) ELSE <<"_m">>)>>
        \o (IF i = 1 THEN <<>> ELSE <<op("ADD", 2, acc(g))>>))

mds(r, groups) ==
    LET last == groups[Len(groups)]
        init == packed_init(last, r)
    IN forEach(Len(groups) - 1, LAMBDA i : buriedGroup(groups[i], r))
       \o eatenGroup(last)
       \o (IF init = 0 THEN <<>> ELSE <<push(init, <<"_i">>), op("ADD", 2, acc(last))>>)
       \o forEach(Len(groups), LAMBDA i : <<rename(acc(groups[i]), accOf(groups[i], r))>>)

laneMoves(word, g, i, new, consume) ==
    (IF consume THEN <<to_top(word), rename(word, <<"_w">>)>> ELSE <<dup(word, <<"_w">>)>>)
    \o (IF i = 1 THEN <<>> ELSE <<push(offset(i), <<"_sh">>), op("SHR", 2, <<"_w">>)>>)
    \o (IF top(g, i) THEN <<>> ELSE <<push(LANE_MASK, <<"_mk">>), op("AND", 2, <<"_w">>)>>)
    \o <<rename(<<"_w">>, new)>>

\* Packed accumulators of round r to the eight t's of the next.
lanes_to_t(r) ==
    forEach(3, LAMBDA n : LET g == 4 - n IN
        forEach(Len(GROUPS[g]), LAMBDA i : LET j == GROUPS[g][i] IN
            laneMoves(accOf(g, r), g, i, Ln(j), top(g, i)) \o sbox(Ln(j), T(j))))

unscale(r, new) ==
    <<push(P, <<"_p">>), swap(1), push(CINV(r), <<"_ci">>), op("MULMOD", 3, new)>>

-----------------------------------------------------------------------------
(* Subroutines.                                                            *)

label(lab) == <<raw(labelItem(lab))>>

\* Put the return label under the top and jump to it.
jumpBack(order) == arrange(order) \o <<swap(1), op("JUMP", 1, nothing)>>

gen_perm31 ==
    LET a(g) == accOf(g, ROUNDS - 2)
    IN label("PERM31")
       \o <<fresh(<<(<<"ret">>)>> \o [k \in 1 .. 8 |-> X(k)])>>
       \o forEach(8, LAMBDA n : LET k == 9 - n IN
              <<to_top(X(k)), rename(X(k), Ln(k))>> \o sbox(Ln(k), T(k)))
       \o mds(0, <<1, 2, 3>>)
       \o forEach(ROUNDS - 2, LAMBDA r : lanes_to_t(r - 1) \o mds(r, <<1, 2, 3>>))
       \o jumpBack(<<a(1), a(2), <<"ret">>, a(3)>>)

\* Rows 1 to 3 are the lanes of the first accumulator, row 4 the first of the second.
emit_out4(r) ==
    LET row(g, i, k, consume) == laneMoves(accOf(g, r), g, i, <<"o">>, consume) \o unscale(r, R(k))
    IN row(1, 1, 1, FALSE) \o row(1, 2, 2, FALSE) \o row(1, 3, 3, TRUE) \o row(2, 1, 4, TRUE)
       \o arrange(<<R(1), R(2), R(3), R(4)>>)

gen_compress_r ==
    label("COMPRESS_R")
    \o <<fresh(<<(<<"ret">>)>> \o [g \in 1 .. 3 |-> accOf(g, ROUNDS - 2)])>>
    \o lanes_to_t(ROUNDS - 2) \o mds(ROUNDS - 1, <<1, 2>>)
    \o emit_out4(ROUNDS - 1) \o jumpBack(<<R(1), R(2), R(3), <<"ret">>, R(4)>>)

\* A hash is the permutation without its last round: three accumulators come back.
hash_out_swapped ==
    <<fresh([g \in 1 .. 3 |-> accOf(<<2, 1, 3>>[g], ROUNDS - 2)]), op("POP", 1, nothing)>> \o emit_out4(ROUNDS - 2)
hash_out ==
    <<fresh([g \in 1 .. 3 |-> accOf(g, ROUNDS - 2)]), op("POP", 1, nothing)>> \o emit_out4(ROUNDS - 2)

emit_pack ==
    LET shifted(n, join) == <<push(LIMB * n, <<"_s">>), op("SHL", 2, <<"_e">>)>> \o join
        or == <<op("OR", 2, <<"_d">>)>>
    IN shifted(3, <<swap(1)>>) \o shifted(2, or \o <<swap(1)>>) \o shifted(1, or)
       \o <<op("OR", 2, <<"digest">>)>>

emit_return_word == <<push(0, tmp), op("MSTORE", 2, nothing), raw(pushItem(32)), raw(pushItem(0)),
                      raw(opItem("RETURN", 0))>>

emit_revert_sel(lab, sel) ==
    label(lab) \o <<raw(pushItem(sel)), raw(pushItem(SELSHIFT)), raw(opItem("SHL", 0)),
                    raw(pushItem(0)), raw(opItem("MSTORE", 0)), raw(pushItem(4)),
                    raw(pushItem(0)), raw(opItem("REVERT", 0))>>

\* "bad": some name is not below P.
emit_flag_last(names) ==
    <<push(P - 1, <<"_pm">>), dup(names[Len(names)], <<"_x">>), op("GT", 2, <<"bad">>)>>
emit_flag(names) ==
    forEach(Len(names), LAMBDA i :
        <<push(P - 1, <<"_pm">>), dup(names[i], <<"_x">>), op("GT", 2, <<"_g">>)>>
        \o (IF i = 1 THEN <<>> ELSE <<op("OR", 2, <<"_g">>)>>))

\* Fewer than n bytes of arguments, as solc's decoder compares: signed.
emit_min_len(n) ==
    <<push(n, tmp), push(4, tmp), op("CALLDATASIZE", 0, tmp), op("SUB", 2, tmp), op("SLT", 2, tmp)>>
    \o jumpIf("REV")

emit_kat_check(want) ==
    emit_pack \o <<push(want, tmp), op("EQ", 2, tmp), op("ISZERO", 1, tmp)>> \o jumpIf("E_KAT")

-----------------------------------------------------------------------------
(* Entries.                                                                *)

emit_dispatch(note) ==
    LET ops(names) == [i \in DOMAIN names |-> raw(opItem(names[i], 0))]
        goto(lab) == <<raw(labelRef(lab)), raw(opItem("JUMPI", 0))>>
        giveUp == <<raw(pushItem(0)), raw(opItem("DUP", 1)), raw(opItem("REVERT", 0))>>
        entry(sel, lab) == <<raw(opItem("DUP", 1)), raw(pushItem(sel)), raw(opItem("EQ", 0))>> \o goto(lab)
    IN ops(<<"CALLVALUE">>) \o goto("REV")
       \o <<raw(pushItem(4))>> \o ops(<<"CALLDATASIZE", "LT">>) \o goto("SHORT")
       \o <<raw(pushItem(0)), raw(opItem("CALLDATALOAD", 0)), raw(pushItem(SELSHIFT)), raw(opItem("SHR", 0))>>
       \o entry(SEL_HASH2, "F_HASH2") \o (IF note THEN entry(SEL_NOTE, "F_NOTE") ELSE <<>>)
       \o <<raw(pushItem(SEL_FIELDS))>> \o ops(<<"EQ">>) \o goto("F_FIELDS")
       \o label("REV") \o giveUp
       \o label("SHORT") \o <<raw(labelRef("RUNTIME_END"))>> \o ops(<<"CODESIZE", "GT">>) \o goto("CTOR")
       \o giveUp

\* A return label: the digest is packed and answered.
emit_answer(lab) ==
    label(lab) \o <<fresh([k \in 1 .. 4 |-> R(k)])>> \o emit_pack \o emit_return_word

\* The entry finds the selector on the stack and drops it.
emit_entry(lab) == label(lab) \o <<fresh(<< <<"sel">> >>), op("POP", 1, nothing)>>

emit_compress_labels(lab) == <<pushlabel(lab, <<"ret2">>), pushlabel("COMPRESS_R", <<"ret">>)>>

emit_hash2_entry ==
    LET limbOf(k) == LET sh == LIMB * ((k - 1) % 4) IN
            <<push(IF k <= 4 THEN 4 ELSE 36, <<"_o">>), op("CALLDATALOAD", 1, <<"_w">>)>>
            \o (IF sh = 0 THEN <<>> ELSE <<push(sh, <<"_s">>), op("SHR", 2, <<"_w">>)>>)
            \o (IF sh = 3 * LIMB THEN <<>> ELSE <<push(MASK64, <<"_m">>), op("AND", 2, <<"_w">>)>>)
            \o <<rename(<<"_w">>, X(k))>>
    IN emit_entry("F_HASH2") \o emit_min_len(64) \o emit_compress_labels("RET_HASH2") \o forEach(8, limbOf)
       \o emit_flag([k \in 1 .. 8 |-> X(k)]) \o jumpIf("E_NONCANON")
       \o emit_consts \o emit_jump("PERM31") \o emit_answer("RET_HASH2")

\* Three compressions.  The labels of the first and the last go down first; the
\* second returns straight into PERM31 of the last, whose eight inputs are then the
\* two digests on the stack.
emit_note_body(retLabel, loads, second) ==
    LET load(i) == loads[i]
        m(k) == <<"m", k>>
    IN <<pushlabel(retLabel, <<"ret2c">>), pushlabel("COMPRESS_R", <<"retc">>)>>
       \o emit_compress_labels(second) \o forEach(8, load) \o emit_jump("PERM31")
       \o label(second) \o <<restack(12, [k \in 1 .. 4 |-> <<"d", k>>])>>
       \o emit_compress_labels("PERM31")
       \o forEach(3, LAMBDA i : load(8 + i)) \o <<push(NOTE_DOMAIN, m(12))>>
       \o forEach(4, LAMBDA i : <<push(0, m(12 + i))>>) \o emit_jump("PERM31")

calldata_limb(i) == <<push(4 + 32 * (i - 1), <<"_o">>), op("CALLDATALOAD", 1, <<"m", i>>)>>

emit_note_entry ==
    LET flagged == forEach(11, LAMBDA i :
            <<push(P - 1, <<"_pm">>), push(4 + 32 * (i - 1), <<"_o">>), op("CALLDATALOAD", 1, <<"_x">>),
              op("GT", 2, <<"_g">>)>> \o (IF i = 1 THEN <<>> ELSE <<op("OR", 2, <<"_g">>)>>))
    IN emit_entry("F_NOTE") \o emit_min_len(352) \o flagged \o jumpIf("E_NONCANON") \o emit_consts
       \o emit_note_body("RET_NOTE", [i \in 1 .. 11 |-> calldata_limb(i)], "N_2") \o emit_answer("RET_NOTE")

\* The argument of hashFields is an array: its offset, its length and its end are
\* checked as solc's decoder does, then that it has four elements.
emit_fields_entry ==
    LET off == <<"off">>   o == <<"o">>   len == <<"len">>   pos == <<"pos">>
        notFlag == op("ISZERO", 1, tmp)
        offset1 == <<push(4, tmp), op("CALLDATALOAD", 1, off), push(MASK64, tmp), dup(off, tmp),
                     op("GT", 2, tmp)>>
        inside == <<push(4, tmp), op("ADD", 2, o), op("CALLDATASIZE", 0, tmp), push(31, tmp), dup(o, tmp),
                    op("ADD", 2, tmp), op("SLT", 2, tmp), notFlag>>
        length == <<dup(o, tmp), op("CALLDATALOAD", 1, len), push(MASK64, tmp), dup(len, tmp),
                    op("GT", 2, tmp)>>
        fits == <<swap(1), push(32, tmp), op("ADD", 2, pos), op("CALLDATASIZE", 0, tmp), push(32, tmp),
                  dup(len, tmp), op("MUL", 2, tmp), dup(pos, tmp), op("ADD", 2, tmp), op("GT", 2, tmp)>>
        four == <<push(4, tmp), dup(len, tmp), op("EQ", 2, tmp), notFlag>>
        loaded == <<pushlabel("RET_FIELDS", <<"ret">>)>> \o forEach(4, LAMBDA i :
                    <<dup(pos, <<"_p">>)>>
                    \o (IF i = 1 THEN <<>> ELSE <<push(32 * (i - 1), tmp), op("ADD", 2, <<"_p">>)>>)
                    \o <<op("CALLDATALOAD", 1, X(i))>>)
    IN label("F_FIELDS") \o <<fresh(<<>>)>> \o emit_min_len(32)
       \o offset1 \o jumpIf("REV") \o inside \o jumpIf("REV") \o length \o jumpIf("REV")
       \o fits \o jumpIf("REV") \o four \o jumpIf("E_SPONGE")
       \o loaded \o emit_flag([k \in 1 .. 4 |-> X(k)]) \o jumpIf("E_NONCANON")
       \o forEach(4, LAMBDA i : <<push(0, X(4 + i))>>) \o emit_consts \o emit_jump("PERM31")
       \o label("RET_FIELDS") \o hash_out \o emit_pack \o emit_return_word

-----------------------------------------------------------------------------
(* The whole program.                                                      *)

\* The known answers of the published constants are the reference's; a build is
\* [note, wrong], where `wrong` names a digest that came out otherwise, if any.
KAT_DIGEST == [compress |-> pack(ref_compress(KAT_LEFT, KAT_RIGHT)),
               hash |-> pack(ref_hash4(KAT_INPUT)),
               note |-> pack(ref_note(KAT_LIMBS))]
want(build, kat) == KAT_DIGEST[kat] + (IF build.wrong = kat THEN 1 ELSE 0)

\* STOP bytes after the table, which may end inside what reads as the immediate of a
\* PUSH: a PUSH32 in its last byte hides the 32 bytes that follow.
PADDING_short == 31
PADDING == 32

pushAll(xs) == forEach(Len(xs), LAMBDA i : <<push(xs[i], X(i))>>)

emit_constructor(build) ==
    LET digestNames == <<fresh([k \in 1 .. 4 |-> R(k)])>>
        compress == emit_compress_labels("K1") \o pushAll(KAT_LEFT \o KAT_RIGHT) \o emit_jump("PERM31")
                    \o label("K1") \o digestNames \o emit_kat_check(want(build, "compress"))
        hash == <<pushlabel("K2", <<"ret">>)>> \o pushAll(KAT_INPUT \o Zeros(4)) \o emit_jump("PERM31")
                \o label("K2") \o hash_out \o emit_kat_check(want(build, "hash"))
        note == emit_note_body("K3", [i \in 1 .. 11 |-> <<push(KAT_LIMBS[i], <<"m", i>>)>>], "K_2")
                \o label("K3") \o digestNames \o emit_kat_check(want(build, "note"))
    IN label("CTOR") \o <<raw(opItem("CALLVALUE", 0)), raw(labelRef("REV")), raw(opItem("JUMPI", 0))>>
       \o emit_consts \o <<fresh(<<>>)>>
       \o compress \o hash \o (IF build.note THEN note ELSE <<>>)
       \o <<raw(labelRef("RUNTIME_END")), raw(pushItem(0)), raw(pushItem(0)), raw(opItem("CODECOPY", 0)),
            raw(labelRef("RUNTIME_END")), raw(pushItem(0)), raw(opItem("RETURN", 0))>>
       \o emit_revert_sel("E_KAT", ERR_KAT)

emit_tail(build) ==
    gen_perm31 \o gen_compress_r
    \o <<raw(markItem("CONSTS")), raw(dataItem(CONST_BYTES)),
         raw(markItem("RUNTIME_END")), raw(dataItem(PADDING))>>
    \o emit_constructor(build)

build_items(build) ==
    LET entries == emit_dispatch(build.note) \o emit_revert_sel("E_NONCANON", ERR_NONCANON)
                   \o emit_revert_sel("E_SPONGE", ERR_SPONGE)
                   \o emit_hash2_entry \o (IF build.note THEN emit_note_entry ELSE <<>>)
                   \o emit_fields_entry
    IN emit(emit(start, entries), emit_tail(build))

\* The code by address, with the addresses that bound its parts.
program(build) ==
    LET located(built) ==
            LET at(lab) == labelAt(built.items, lab)
            IN [build |-> build, code |-> assemble(built.items, built.pc), consts |-> at("CONSTS"),
                runtime_end |-> at("RUNTIME_END"), perm31 |-> at("PERM31"), size |-> built.pc]
    IN value(located, build_items(build))
=============================================================================
