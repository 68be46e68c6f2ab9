--------------------------- MODULE PoseidonHasher ---------------------------
(***************************************************************************)
(* What contracts/shield/PoseidonGoldilocks.sol promises: a call is answered *)
(* once, with a digest or with a revert, and deployment refuses a            *)
(* permutation that misses its known answers.  The generated bytecode is to *)
(* be bit-compatible with it, the same reverts included.                    *)
(*                                                                         *)
(* A call is [build, code, value, size, sel, words, overrun]: which build,   *)
(* run as "init" code or as the deployed "runtime"; wei sent; bytes, selector *)
(* and argument words of the calldata.  overrun is the implementation's.     *)
(***************************************************************************)
EXTENDS PoseidonGen

CONSTANT Calls

VARIABLES call, out

hasherVars == <<call, out>>

\* An answer says whether the call returned or reverted, and with which data.
noAnswer == <<"none">>
theWord(word) == <<"word", word>>
theCode == <<"code">>
theError(err) == <<"error", err>>
noData == <<"empty">>

digest(word) == <<TRUE, theWord(word)>>
deployed == <<TRUE, theCode>>
reverted == <<FALSE, noData>>
revertedWith(err) == <<FALSE, theError(err)>>

canonical(limbs) == \A i \in DOMAIN limbs : limbs[i] < P
limbsOf(word) == [i \in Limbs |-> limb(word, i)]

hash2(left, right) ==
    IF canonical(limbsOf(left) \o limbsOf(right))
    THEN digest(pack(ref_compress(limbsOf(left), limbsOf(right))))
    ELSE revertedWith(ERR_NONCANON)

hashFields(limbs) ==
    CASE Len(limbs) # 4 -> revertedWith(ERR_SPONGE)
      [] Len(limbs) = 4 /\ ~canonical(limbs) -> revertedWith(ERR_NONCANON)
      [] Len(limbs) = 4 /\ canonical(limbs) -> digest(pack(ref_hash4(limbs)))

\* The entry of the research build, whose reference is gen.py's.
commitNote(limbs) ==
    IF canonical(limbs) THEN digest(pack(ref_note(limbs))) ELSE revertedWith(ERR_NONCANON)

\* The dynamic array whose offset is the first argument word; the compiler's decoder
\* refuses one that is not inside the calldata.  Offsets are multiples of 32 here.
decodes(c) ==
    LET at == 4 + c.words[1]
        header == (c.words[1] \div 32) + 1
    IN /\ c.size >= 36
       /\ c.words[1] <= MASK64
       /\ at + 31 < c.size
       /\ c.words[header] <= MASK64
       /\ at + 32 + 32 * c.words[header] <= c.size
array(c) == LET header == (c.words[1] \div 32) + 1
            IN SubSeq(c.words, header + 1, header + c.words[header])

constructor(build) ==
    IF build.wrong \in {"compress", "hash"} \cup (IF build.note THEN {"note"} ELSE {})
    THEN revertedWith(ERR_KAT)
    ELSE deployed

answer(c) ==
    CASE c.value # 0 -> reverted
      [] c.value = 0 /\ c.code = "init" -> constructor(c.build)
      [] c.value = 0 /\ c.code = "runtime" ->
            CASE c.size >= 68 /\ c.sel = SEL_HASH2 -> hash2(c.words[1], c.words[2])
              [] c.size >= 356 /\ c.sel = SEL_NOTE /\ c.build.note -> commitNote(SubSeq(c.words, 1, 11))
              [] c.size >= 4 /\ c.sel = SEL_FIELDS /\ decodes(c) -> hashFields(array(c))
              [] OTHER -> reverted

HasherInit == call \in Calls /\ out = noAnswer
Answer == out = noAnswer /\ out' = answer(call) /\ UNCHANGED call

HasherSpec == HasherInit /\ [][Answer]_hasherVars
=============================================================================
