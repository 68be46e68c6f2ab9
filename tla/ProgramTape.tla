----------------------------- MODULE ProgramTape -----------------------------
(***************************************************************************)
(* script/tools/gen_program_air.py and program_form_blob.py: a circuit's     *)
(* transition tape encoded as a blob, read back, split, and given a slot map *)
(* for the evaluator, which runs the tape with as few cells as it can.       *)
(*                                                                         *)
(* A tape is [ops, outs, logT, exempt, frame, periodic, bnd]; an op is        *)
(* [k, a, b], where a and b name earlier ops, counted from 1.  cells is what  *)
(* the evaluator's memory holds when it runs the instructions in order: for  *)
(* each cell, the op whose value was last written there.                    *)
(***************************************************************************)
EXTENDS Integers, Sequences, FiniteSets

CONSTANTS
    Tapes,
    P, G,           \* the field, and the generator of the trace domain
    NO_SLOT         \* 0xFF

CONST == 0
INPUT == 1
ADD == 2
SUB == 3
MUL == 4
INV == 5

\* The contract refuses a tape with an operand that is not an earlier op, and an output
\* that is no op (verifier/ProgramFormAir.sol:263-269, 307); an inversion has one operand.
ASSUME TapeAssumption ==
    /\ NO_SLOT \in Nat
    /\ \A tp \in Tapes :
         /\ tp.ops \in Seq([k : CONST .. INV, a : Nat, b : Nat])
         /\ \A i \in DOMAIN tp.ops :
              LET o == tp.ops[i]
              IN o.k >= ADD => /\ o.a \in 1 .. i - 1 /\ o.b \in 1 .. i - 1
                               /\ o.k = INV => o.a = o.b
         /\ tp.outs \in Seq(DOMAIN tp.ops)
         /\ tp.bnd \in Seq([col : Nat, row : Nat, src : 0 .. 1, value : Nat])
         /\ tp.exempt \in Seq(Nat)
         /\ tp.logT \in Nat /\ tp.frame \in Nat /\ tp.periodic \in Nat

VARIABLES
    tape, use,      \* the tape, and for each op how often it is read, and where last
    pos,            \* the op the planner comes to next
    slot, free, n_slots, birth, death, t,
    cells,
    verdict         \* "planning", "planned" or "refused"

planVars == <<tape, use, pos, slot, free, n_slots, birth, death, t, cells, verdict>>

\* Sequences one after another.
concat(parts) ==
    LET upTo[i \in 0 .. Len(parts)] == IF i = 0 THEN <<>> ELSE upTo[i - 1] \o parts[i]
    IN upTo[Len(parts)]

\* Of the indices 1 .. n those in picked, in order.
inOrder(n, picked) ==
    LET upTo[i \in 0 .. n] ==
            IF i = 0 THEN <<>> ELSE IF i \in picked THEN Append(upTo[i - 1], i) ELSE upTo[i - 1]
    IN upTo[n]

-----------------------------------------------------------------------------
(* The blob, byte by byte: the first byte of a field stands for the field.  *)

rest == [w |-> 0, v |-> 0]
u(bytes, v) == <<[w |-> bytes, v |-> v]>> \o [i \in 1 .. bytes - 1 |-> rest]
unpack(prog, p, bytes) == IF prog[p + 1].w = bytes THEN prog[p + 1].v ELSE -1

\* The distinct boundary rows, in order of their first mention.
rowsOf(bnd) ==
    LET firsts == inOrder(Len(bnd), {i \in DOMAIN bnd : \A h \in 1 .. i - 1 : bnd[h].row # bnd[i].row})
    IN [n \in DOMAIN firsts |-> bnd[firsts[n]].row]
row_idx(bnd, row) == (CHOOSE n \in DOMAIN rowsOf(bnd) : rowsOf(bnd)[n] = row) - 1

pow(r) == (G^r) % P

blobOp(o) ==
    CASE o.k = CONST -> u(1, CONST) \o u(8, o.a) \o u(8, o.b)
      [] o.k \in {INPUT, INV} -> u(1, o.k) \o u(2, o.a)
      [] o.k \in {ADD, SUB, MUL} -> u(1, o.k) \o u(2, o.a) \o u(2, o.b)

blobBoundary(bnd, b) ==
    u(1, b.col) \o u(2, row_idx(bnd, b.row)) \o u(1, b.src) \o u(IF b.src = 0 THEN 8 ELSE 1, b.value)

blob(tp) ==
    LET rows == rowsOf(tp.bnd)
    IN u(2, Len(tp.ops)) \o u(2, Len(tp.outs)) \o u(2, Len(tp.bnd)) \o u(2, Len(rows))
       \o u(2, tp.frame) \o u(2, tp.periodic) \o u(1, tp.logT) \o u(1, Len(tp.exempt))
       \o concat([i \in DOMAIN tp.exempt |-> u(8, pow(tp.exempt[i]))])
       \o concat([i \in DOMAIN tp.ops |-> blobOp(tp.ops[i])])
       \o concat([i \in DOMAIN tp.outs |-> u(2, tp.outs[i])])
       \o concat([i \in DOMAIN rows |-> u(8, pow(rows[i]))])
       \o concat([i \in DOMAIN tp.bnd |-> blobBoundary(tp.bnd, tp.bnd[i])])

\* The op read back at p, a constant without its value and an inversion with its
\* operand twice; and where the next one is.
opAt(prog, p) ==
    LET k == unpack(prog, p, 1)
        a == unpack(prog, p + 1, 2)
    IN CASE k = CONST -> [op |-> [k |-> k, a |-> 0, b |-> 0], next |-> p + 17]
         [] k \in {INPUT, INV} -> [op |-> [k |-> k, a |-> a, b |-> a], next |-> p + 3]
         [] OTHER -> [op |-> [k |-> k, a |-> a, b |-> unpack(prog, p + 3, 2)], next |-> p + 5]

\* The ops, the outputs, and where the transition part ends.
parse(prog) ==
    LET n_ops == unpack(prog, 0, 2)
        n_out == unpack(prog, 2, 2)
        scan[i \in 0 .. n_ops] ==
            IF i = 0 THEN [ops |-> <<>>, next |-> 14 + 8 * unpack(prog, 13, 1)]
            ELSE LET before == scan[i - 1]
                     met == opAt(prog, before.next)
                 IN [ops |-> Append(before.ops, met.op), next |-> met.next]
        end == scan[n_ops].next
    IN [ops |-> scan[n_ops].ops,
        outs |-> [i \in 1 .. n_out |-> unpack(prog, end + 2 * (i - 1), 2)],
        end |-> end + 2 * n_out]

\* The splitter skips the ops by a table of lengths of its own.
OP_LEN_inv5 == <<17, 3, 5, 5, 5, 5>>
OP_LEN == <<17, 3, 5, 5, 5, 3>>
split(prog) ==
    LET at[i \in 0 .. unpack(prog, 0, 2)] ==
            IF i = 0 THEN 14 + 8 * unpack(prog, 13, 1)
            ELSE at[i - 1] + OP_LEN[unpack(prog, at[i - 1], 1) + 1]
    IN at[unpack(prog, 0, 2)] + 2 * unpack(prog, 2, 2)

\* The boundaries that read a public word, counted from 0, and where their list ends.
pins(bnd, n_bnd, n_rows) ==
    LET at[j \in 0 .. n_bnd] ==
            IF j = 0 THEN 8 * n_rows
            ELSE at[j - 1] + (IF unpack(bnd, at[j - 1] + 3, 1) = 1 THEN 5 ELSE 12)
    IN [public |-> {j \in 0 .. n_bnd - 1 : unpack(bnd, at[j] + 3, 1) = 1}, end |-> at[n_bnd]]

-----------------------------------------------------------------------------
(* Liveness and fusion.                                                    *)

read_first(x, v, reader) ==
    [reads |-> [x.reads EXCEPT ![v] = x.reads[v] + 1], last |-> [x.last EXCEPT ![v] = reader]]
\* The ops are scanned from the end: the first reader met is the last to read.
read(x, v, reader) ==
    [reads |-> [x.reads EXCEPT ![v] = x.reads[v] + 1],
     last |-> IF x.reads[v] = 0 THEN [x.last EXCEPT ![v] = reader] ELSE x.last]

\* Op i is scanned: a live one reads its operands.
scanned(ops, x, i) ==
    LET o == ops[i]
        one == read(x, o.a, i)
    IN IF o.k < ADD \/ (x.reads[i] = 0 /\ o.k # INV) THEN x
       ELSE IF o.k = INV THEN one
       ELSE read(one, o.b, i)

liveness(ops, outs) ==
    LET n == Len(ops)
        none == [reads |-> [i \in 1 .. n |-> 0], last |-> [i \in 1 .. n |-> 0]]
        asOut[i \in 0 .. Len(outs)] == IF i = 0 THEN none ELSE read(asOut[i - 1], outs[i], n + 1)
        after[m \in 0 .. n] == IF m = 0 THEN asOut[Len(outs)] ELSE scanned(ops, after[m - 1], n + 1 - m)
    IN after[n]

N == Len(tape.ops)
op(i) == tape.ops[i]
live(i) == use.reads[i] > 0 \/ op(i).k = INV

\* A multiply that only the add or subtract after it reads.
fused(i) ==
    /\ i \in 1 .. N - 1 /\ op(i).k = MUL /\ use.reads[i] = 1
    /\ op(i + 1).k \in {ADD, SUB} /\ use.reads[i + 1] > 0 /\ i \in {op(i + 1).a, op(i + 1).b}
mac(i) == op(i).k = ADD /\ fused(i - 1)
\* A multiply-add that only the next multiply-add reads.
chained(i) ==
    /\ i \in 2 .. N - 2 /\ mac(i) /\ mac(i + 2) /\ use.reads[i] = 1
    /\ i \in {op(i + 2).a, op(i + 2).b}

computes(i) == op(i).k >= ADD /\ live(i) /\ ~fused(i) /\ ~chained(i)

\* How many adds are chained up to i, two ops apart.
links(i) == CHOOSE c \in 0 .. i : (\A d \in 1 .. c : chained(i - 2 * d)) /\ ~chained(i - 2 * c - 2)

\* What instruction i reads: its two operands, or those of each multiply of a fused
\* run and then what the first add adds.
operands(i) ==
    LET head == i - 2 * links(i)
        product(m) == <<op(m).a, op(m).b>>
    IN IF ~fused(i - 1) THEN <<op(i).a, op(i).b>>
       ELSE concat([n \in 1 .. links(i) + 1 |-> product(head - 3 + 2 * n)])
            \o <<IF op(head).a = head - 1 THEN op(head).b ELSE op(head).a>>

-----------------------------------------------------------------------------
(* The plan.                                                               *)

\* The plan works on what is read back from the blob.
Encoded == {LET back == parse(blob(tp))
            IN [tape |-> tp, use |-> liveness(back.ops, back.outs)] : tp \in Tapes}

PlanInit ==
    /\ \E e \in Encoded : tape = e.tape /\ use = e.use
    /\ pos = 1
    /\ slot = [i \in 1 .. Len(tape.ops) |-> NO_SLOT]
    /\ free = <<>> /\ n_slots = 0 /\ t = 0
    /\ birth = [i \in 1 .. Len(tape.ops) |-> -1]
    /\ death = [i \in 1 .. Len(tape.ops) |-> -1]
    /\ cells = <<>>
    /\ verdict = "planning"

Pass ==
    /\ pos <= N /\ ~computes(pos)
    /\ pos' = pos + 1
    /\ UNCHANGED <<tape, use, slot, free, n_slots, birth, death, t, cells, verdict>>

\* The cells an instruction's operands leave, each once, in the order read.
freed(i) ==
    LET rd == operands(i)
        goes(j) == /\ \A h \in 1 .. j - 1 : rd[h] # rd[j]
                   /\ slot[rd[j]] # NO_SLOT /\ use.last[rd[j]] <= i
        places == inOrder(Len(rd), {j \in DOMAIN rd : goes(j)})
    IN [n \in DOMAIN places |-> slot[rd[places[n]]]]

unreadKeeps(i, s) == <<>>
\* The value of an inversion that nothing reads leaves its cell at once.
unread(i, s) == IF use.reads[i] = 0 THEN <<s>> ELSE <<>>

Instruction ==
    /\ pos <= N /\ computes(pos)
    /\ LET readNow == {v \in {operands(pos)[j] : j \in DOMAIN operands(pos)} : slot[v] # NO_SLOT}
           open == free \o freed(pos)
           s == IF open = <<>> THEN n_slots ELSE open[Len(open)]
       IN /\ free' = SubSeq(open, 1, Len(open) - 1) \o unread(pos, s)
          /\ n_slots' = IF s + 1 > n_slots THEN s + 1 ELSE n_slots
          /\ slot' = [slot EXCEPT ![pos] = s]
          /\ birth' = [birth EXCEPT ![pos] = t]
          /\ death' = [v \in DOMAIN death |->
                        IF v \in readNow \/ (v = pos /\ use.reads[pos] = 0) THEN t ELSE death[v]]
          /\ cells' = IF s < Len(cells) THEN [cells EXCEPT ![s + 1] = pos] ELSE Append(cells, pos)
    /\ t' = t + 1 /\ pos' = pos + 1
    /\ UNCHANGED <<tape, use, verdict>>

\* The values in cells at instruction x, those written before it and read after it and the
\* one it writes; and the most there are at any.
alive(ends, x) == Cardinality({v \in DOMAIN birth : birth[v] # -1 /\ birth[v] < x /\ ends[v] > x}) + 1
peak(ends) ==
    IF t = 0 THEN 0
    ELSE CHOOSE m \in {alive(ends, x) : x \in 0 .. t - 1} : \A x \in 0 .. t - 1 : alive(ends, x) <= m

\* The outputs live to the end; then the count of cells is checked against the most
\* values that were ever in cells at once.
Finish ==
    /\ pos = N + 1 /\ verdict = "planning"
    /\ LET isOut(v) == slot[v] # NO_SLOT /\ \E i \in DOMAIN tape.outs : tape.outs[i] = v
           ends == [v \in DOMAIN death |-> IF isOut(v) THEN t ELSE death[v]]
       IN /\ death' = ends
          /\ verdict' = IF n_slots # peak(ends) \/ n_slots >= NO_SLOT THEN "refused" ELSE "planned"
    /\ UNCHANGED <<tape, use, pos, slot, free, n_slots, birth, t, cells>>

PlanNext == Pass \/ Instruction \/ Finish
PlanSpec == PlanInit /\ [][PlanNext]_planVars

-----------------------------------------------------------------------------
(* Properties.                                                             *)

\* Every value still to be read, by a later instruction or as an output, is in the cell
\* it was given; and an instruction only ever reads leaves and values that have cells,
\* never a multiply or an add swallowed by somebody else's fused run, nor a dropped op.
LiveValuesKeepTheirCells ==
    /\ \A i \in 1 .. N : computes(i) =>
         \A j \in DOMAIN operands(i) :
            LET v == operands(i)[j]
            IN op(v).k >= ADD => computes(v) /\ (v < pos /\ pos <= i => cells[slot[v] + 1] = v)
    /\ \A j \in DOMAIN tape.outs :
            LET v == tape.outs[j]
            IN op(v).k >= ADD => computes(v) /\ (v < pos => cells[slot[v] + 1] = v)

\* A tape with fewer than 255 values alive at once is never refused: the cells handed out
\* last-freed first are exactly as many as these values (gen_program_air.py:18-19).
PlanIsTight == verdict = "refused" => peak(death) >= NO_SLOT

\* Both tools read back what was written: the ops and the outputs, the same end of the
\* transition part, and the boundaries that read a public word, to the last byte.
BlobReadsBack ==
    pos = 1 =>
        LET prog == blob(tape)
            back == parse(prog)
            at == split(prog)
            bnd == SubSeq(prog, at + 1, Len(prog))
            pinned == pins(bnd, unpack(prog, 4, 2), unpack(prog, 6, 2))
        IN /\ back.outs = tape.outs /\ Len(back.ops) = N
           /\ \A i \in 1 .. N : /\ back.ops[i].k = op(i).k
                                /\ op(i).k # CONST => back.ops[i].a = op(i).a
                                /\ op(i).k >= ADD => back.ops[i].b = op(i).b
           /\ at = back.end
           /\ pinned.end = Len(bnd)
           /\ pinned.public = {j - 1 : j \in {h \in DOMAIN tape.bnd : tape.bnd[h].src = 1}}
=============================================================================
