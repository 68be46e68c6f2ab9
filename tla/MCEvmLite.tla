------------------------------ MODULE MCEvmLite ------------------------------
(* The generator and its machine over a field of eleven elements, with three  *)
(* rounds, limbs of seven bits, lanes of nine and words of 28: the smallest   *)
(* widths at which three rows still fit one word.                            *)
EXTENDS EvmLite

MCDenominator(j, k) == 1 + (((j * k * k + j) % 7) % 3)
MCMDS == [j \in 1 .. 8 |-> [k \in 1 .. 8 |->
            11 - CHOOSE y \in 1 .. 10 : (MCDenominator(j, k) * y) % 11 = 1]]
MCRC == [r \in 0 .. 2 |-> [j \in 1 .. 8 |-> (3 * r + 5 * j + r * j + 1) % 11]]

MCLeft == <<1, 2, 3, 4>>
MCRight == <<5, 6, 7, 8>>
MCInput == <<9, 10, 0, 1>>
MCLimbs == <<1, 2, 3, 4, 5, 6, 7, 8, 9, 10, 0>>

DefaultBuild == [note |-> FALSE, wrong |-> "none"]
ResearchBuild == [note |-> TRUE, wrong |-> "none"]

Runtime(build, sel, words) ==
    [build |-> build, code |-> "runtime", value |-> 0, size |-> 4 + 32 * Len(words), sel |-> sel,
     words |-> words, overrun |-> 0]

Hash2Limbs ==
    {MCLeft \o MCRight, Zeros(8), [k \in 1 .. 8 |-> 10], [k \in 1 .. 8 |-> (3 * k) % 11]}
    \cup {[MCLeft \o MCRight EXCEPT ![i] = v] : i \in 1 .. 8, v \in {11, 127}}
Hash2Calls ==
    {Runtime(DefaultBuild, SEL_HASH2, <<pack(SubSeq(m, 1, 4)), pack(SubSeq(m, 5, 8))>>) : m \in Hash2Limbs}

FieldsWords ==
    {<<32, 4>> \o m : m \in {MCInput, Zeros(4), <<10, 10, 10, 10>>, <<11, 1, 2, 3>>, <<1, 2, 3, 127>>}}
    \cup {<<32, 3, 1, 2, 3>>, <<32, 5, 1, 2, 3, 4, 5>>, <<32, 4, 1, 2, 3>>, <<32, 128, 1, 2, 3, 4>>,
          <<64, 7, 4, 1, 2, 3, 4>>, <<128, 0, 1, 2, 3, 4>>, <<64, 4>>, <<0>>, <<32>>}
FieldsCalls == {Runtime(DefaultBuild, SEL_FIELDS, w) : w \in FieldsWords}

NoteCalls ==
    {Runtime(ResearchBuild, SEL_NOTE, m) :
        m \in {MCLimbs, [MCLimbs EXCEPT ![4] = 11], [MCLimbs EXCEPT ![11] = 127], SubSeq(MCLimbs, 1, 10)}}
    \cup {Runtime(DefaultBuild, SEL_NOTE, MCLimbs),
          Runtime(ResearchBuild, SEL_HASH2, <<pack(MCLeft), pack(MCRight)>>)}

OddCalls ==
    LET good == Runtime(DefaultBuild, SEL_HASH2, <<pack(MCLeft), pack(MCRight)>>)
    IN {[good EXCEPT !.value = 1], [good EXCEPT !.sel = 0],
        [good EXCEPT !.size = 3], [good EXCEPT !.size = 67, !.words = <<pack(MCLeft)>>],
        [good EXCEPT !.size = 0, !.sel = 0, !.words = <<>>]}

Creations ==
    {[build |-> [note |-> n, wrong |-> w], code |-> "init", value |-> 0, size |-> 0, sel |-> 0,
      words |-> <<>>, overrun |-> o] :
        n \in BOOLEAN, w \in {"none", "hash"}, o \in {0, 32}}
    \cup {[build |-> [note |-> n, wrong |-> w], code |-> "init", value |-> 0, size |-> 0, sel |-> 0,
           words |-> <<>>, overrun |-> 1] : n \in {TRUE}, w \in {"compress", "note"}}
    \cup {[build |-> DefaultBuild, code |-> "init", value |-> 1, size |-> 0, sel |-> 0,
           words |-> <<>>, overrun |-> 0]}

MCCalls == Hash2Calls \cup FieldsCalls \cup NoteCalls \cup OddCalls \cup Creations
=============================================================================
