------------------------------- MODULE EvmLite -------------------------------
(***************************************************************************)
(* script/tools/poseidon_fast/evm_lite.py: the machine the generated code    *)
(* runs on, one opcode a step.  Words are WORDBITS wide, and a memory word  *)
(* is a word or the 32 bytes of code copied there, written as minus their   *)
(* place in the code.  An access that is not to whole words, which the code  *)
(* never makes, stops the machine.  Gas is left out.                       *)
(*                                                                         *)
(* given is history: the packed accumulators that the arithmetic of the     *)
(* source computes, round by round, from the eight words on which PERM31 was *)
(* last entered.                                                           *)
(***************************************************************************)
EXTENDS PoseidonHasher, Bitwise

VARIABLES
    image,              \* where the parts of the code lie
    pc, instruction,    \* the address, and the instruction there
    st, mem, given

machineVars == <<call, image, pc, instruction, st, mem, out, given>>

\* The programs, evaluated once.
PROGRAMS == {program(b) : b \in [note : BOOLEAN, wrong : {"none", "compress", "hash", "note"}]}
fetched(at) ==
    IF at < image.size THEN (CHOOSE p \in PROGRAMS : p.build = call.build).code[at + 1] ELSE operand

word(v) == v % 2^WORDBITS
signed(v) == IF v >= 2^(WORDBITS - 1) THEN v - 2^WORDBITS ELSE v
bit(b) == IF b THEN 1 ELSE 0
\* The product of two words without leaving the integers of the checker.
mulWord(a, b) == LET low == 2^(WORDBITS \div 2)
                 IN word((a % low) * (b % low) + (((a \div low) * (b % low) + (a % low) * (b \div low)) % low) * low)

codesize == IF call.code = "init" THEN image.size ELSE image.runtime_end

calldataload(o) ==
    IF o = 0 THEN call.sel * 2^SELSHIFT
    ELSE LET i == ((o - 4) \div 32) + 1 IN IF i \in DOMAIN call.words THEN call.words[i] ELSE 0

MachineInit ==
    /\ HasherInit
    /\ \E p \in PROGRAMS :
         /\ p.build = call.build
         /\ image = [consts |-> p.consts, runtime_end |-> p.runtime_end, perm31 |-> p.perm31, size |-> p.size]
         /\ instruction = p.code[1]
    /\ pc = 0 /\ st = <<>>
    /\ mem = [i \in {} |-> 0]
    /\ given = <<>>

-----------------------------------------------------------------------------

\* The i-th word from the top.
fromTop(i) == st[Len(st) + 1 - i]
below(n) == SubSeq(st, 1, Len(st) - n)

running(ops, pops) == out = noAnswer /\ instruction.op \in ops /\ Len(st) >= pops
onward == pc' = pc + instruction.size
leaves(stack) == st' = stack /\ onward /\ UNCHANGED <<call, mem, out, given>>

Push == running({"PUSH"}, 0) /\ leaves(Append(st, instruction.arg))
Dup == running({"DUP"}, instruction.arg) /\ leaves(Append(st, fromTop(instruction.arg)))
Swap ==
    /\ running({"SWAP"}, instruction.arg + 1)
    /\ leaves([st EXCEPT ![Len(st)] = fromTop(instruction.arg + 1), ![Len(st) - instruction.arg] = fromTop(1)])
Pop == running({"POP"}, 1) /\ leaves(below(1))
IsZero == running({"ISZERO"}, 1) /\ leaves(Append(below(1), bit(fromTop(1) = 0)))

binary(name, a, b) ==
    CASE name = "ADD" -> word(a + b)
      [] name = "MUL" -> mulWord(a, b)
      [] name = "SUB" -> word(a - b)
      [] name = "LT" -> bit(a < b)
      [] name = "GT" -> bit(a > b)
      [] name = "SLT" -> bit(signed(a) < signed(b))
      [] name = "EQ" -> bit(a = b)
      [] name = "AND" -> a & b
      [] name = "OR" -> a | b
      [] name = "SHL" -> IF a < WORDBITS THEN mulWord(b, 2^a) ELSE 0
      [] name = "SHR" -> IF a < WORDBITS THEN b \div 2^a ELSE 0
Compute ==
    /\ running({"ADD", "MUL", "SUB", "LT", "GT", "SLT", "EQ", "AND", "OR", "SHL", "SHR"}, 2)
    /\ leaves(Append(below(2), binary(instruction.op, fromTop(1), fromTop(2))))

MulMod ==
    /\ running({"MULMOD"}, 3)
    /\ LET n == fromTop(3)
           product == IF n = 0 THEN 0 ELSE ((fromTop(1) % n) * (fromTop(2) % n)) % n
       IN leaves(Append(below(3), product))

Environment ==
    \/ running({"CALLVALUE"}, 0) /\ leaves(Append(st, call.value))
    \/ running({"CALLDATASIZE"}, 0) /\ leaves(Append(st, call.size))
    \/ running({"CODESIZE"}, 0) /\ leaves(Append(st, codesize))
    \/ running({"CALLDATALOAD"}, 1) /\ leaves(Append(below(1), calldataload(fromTop(1))))

aligned(o) == o % 32 = 0
\* The words that n bytes from o on fill or begin to fill.
wordsAt(o, n) == (o \div 32) .. ((o + n + 31) \div 32) - 1
expanded(o, n) ==
    [i \in DOMAIN mem \cup 0 .. ((o + n + 31) \div 32) - 1 |-> IF i \in DOMAIN mem THEN mem[i] ELSE 0]

\* The 32 bytes of code from o: a word of the table of constants, or code.
codeWord(o) ==
    IF \E i \in DOMAIN CONST_WORDS : o = image.consts + 32 * i
    THEN CONST_WORDS[(o - image.consts) \div 32]
    ELSE -(o + 1)

CodeCopy ==
    /\ running({"CODECOPY"}, 3)
    /\ LET d == fromTop(1)  o == fromTop(2)  n == fromTop(3)
           grown == expanded(d, n)
       IN /\ aligned(d)
          /\ mem' = [i \in DOMAIN grown |->
                       IF i \in wordsAt(d, n) THEN codeWord(o + 32 * i - d) ELSE grown[i]]
    /\ st' = below(3) /\ onward /\ UNCHANGED <<call, out, given>>
MLoad ==
    /\ running({"MLOAD"}, 1)
    /\ aligned(fromTop(1))
    /\ mem' = expanded(fromTop(1), 32)
    /\ st' = Append(below(1), mem'[fromTop(1) \div 32])
    /\ onward /\ UNCHANGED <<call, out, given>>
MStore ==
    /\ running({"MSTORE"}, 2)
    /\ aligned(fromTop(1))
    /\ mem' = [expanded(fromTop(1), 32) EXCEPT ![fromTop(1) \div 32] = fromTop(2)]
    /\ st' = below(2) /\ onward /\ UNCHANGED <<call, out, given>>

JumpDest ==
    /\ running({"JUMPDEST"}, 0)
    /\ given' = IF pc = image.perm31
                THEN accumulators([k \in 1 .. 8 |-> fromTop(9 - k)], ROUNDS)
                ELSE given
    /\ onward /\ UNCHANGED <<call, st, mem, out>>

Jump ==
    /\ running({"JUMP"}, 1)
    /\ pc' = fromTop(1) /\ st' = below(1) /\ UNCHANGED <<call, mem, out, given>>
JumpIf ==
    /\ running({"JUMPI"}, 2)
    /\ pc' = IF fromTop(2) = 0 THEN pc + 1 ELSE fromTop(1)
    /\ st' = below(2) /\ UNCHANGED <<call, mem, out, given>>

\* The n bytes of memory from o on, as an answer's data.
returned(o, n) ==
    CASE n = 0 -> noData
      [] n = 4 -> theError(expanded(o, n)[o \div 32] \div 2^SELSHIFT)
      [] n = 32 -> theWord(expanded(o, n)[o \div 32])
      [] n = image.runtime_end /\ \A i \in wordsAt(o, n) : expanded(o, n)[i] = codeWord(32 * i - o) -> theCode
      [] OTHER -> <<"bytes", n>>

Halt ==
    /\ running({"RETURN", "REVERT"}, 2)
    /\ aligned(fromTop(1))
    /\ out' = <<instruction.op = "RETURN", returned(fromTop(1), fromTop(2))>>
    /\ UNCHANGED <<call, pc, st, mem, given>>

execute ==
    \/ Push \/ Dup \/ Swap \/ Pop \/ IsZero \/ Compute \/ MulMod \/ Environment
    \/ CodeCopy \/ MLoad \/ MStore \/ JumpDest \/ Jump \/ JumpIf \/ Halt

\* A scan from the start finds the JUMPDESTs; the table of constants may end inside
\* what reads as an immediate, and then the first bytes after it are hidden.
jumpdest(at) ==
    /\ at < codesize /\ instruction'.op = "JUMPDEST"
    /\ at < image.consts \/ at >= image.runtime_end + call.overrun

jumps == instruction.op = "JUMP" \/ (instruction.op = "JUMPI" /\ fromTop(2) # 0)
fetch == instruction' = fetched(pc') /\ (jumps => jumpdest(pc'))

MachineNext == execute /\ fetch /\ UNCHANGED image

\* The interpreter runs until the code returns.
MachineSpec == MachineInit /\ [][MachineNext]_machineVars /\ WF_machineVars(MachineNext)

-----------------------------------------------------------------------------
(* Properties.                                                             *)

\* The bytecode answers every call as the Solidity contract does: the digest of the
\* reference permutation, or the same revert, and no build whose known answers fail
\* is deployed (gen.py:3, "bit-compatible ... the same reverts").
Hasher == INSTANCE PoseidonHasher
AnswersAsTheContract == Hasher!HasherSpec

\* Wherever the generator believes a packed accumulator lies on the stack, the machine
\* has that accumulator there: the symbolic stack of the generator never drifts from
\* the real one, through the burials, the eaten t's, the arrangements and the returns
\* that go straight into the next permutation.
NamesAreTrue ==
    (out = noAnswer /\ instruction.op # "OPERAND") =>
        /\ Len(instruction.names) <= Len(st)
        /\ \A i \in DOMAIN instruction.names :
             LET name == instruction.names[i]
             IN (name[1] = "acc" /\ Len(name) = 3) =>
                    st[Len(st) - Len(instruction.names) + i] = given[name[3]][name[2]]

\* Every call is answered: no jump lands where the scan for JUMPDESTs sees none, however
\* the table of constants ends, and the stack never runs out.
EveryCallHalts == <>(out # noAnswer)
=============================================================================
