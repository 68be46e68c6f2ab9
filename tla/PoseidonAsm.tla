----------------------------- MODULE PoseidonAsm -----------------------------
(***************************************************************************)
(* The assembler of script/tools/poseidon_fast/gen.py: Asm, which lays items *)
(* out and resolves labels, and Stack, which keeps the names of what lies on *)
(* the machine's stack while it emits code.                                *)
(*                                                                         *)
(* An emitter is [items, st, pc]: the items so far, the names, bottom first, *)
(* and the address of the next item.  A name is a tuple such as              *)
(* <<"acc", g, r>>.  What the generator does is a sequence of moves, the     *)
(* methods of Stack, and emit plays one.  Every item keeps its address and   *)
(* the names before it: what the generator believes the machine's stack      *)
(* holds there.                                                            *)
(***************************************************************************)
EXTENDS Integers, Sequences

\* The width of a PUSH is that of its value.
bytesOf(v) == CHOOSE n \in 1 .. 4 : (n = 4 \/ v < 256^n) /\ \A m \in 1 .. n - 1 : v >= 256^m

opItem(op, arg) == [op |-> op, arg |-> arg, lab |-> "", size |-> 1]
pushItem(v) == [op |-> "PUSH", arg |-> v, lab |-> "", size |-> 1 + bytesOf(v)]
labelRef(lab) == [op |-> "PLABEL", arg |-> 0, lab |-> lab, size |-> 3]
labelItem(lab) == [op |-> "JUMPDEST", arg |-> 0, lab |-> lab, size |-> 1]
markItem(lab) == [op |-> "MARK", arg |-> 0, lab |-> lab, size |-> 0]
dataItem(n) == [op |-> "DATA", arg |-> 0, lab |-> "", size |-> n]

noNames == <<>>
placed(item, names, at) ==
    [op |-> item.op, arg |-> item.arg, lab |-> item.lab, size |-> item.size, names |-> names, at |-> at]

start == [items |-> <<>>, st |-> noNames, pc |-> 0]

-----------------------------------------------------------------------------
(* Moves.                                                                  *)

raw(item) == [do |-> "raw", item |-> item]
op(name, pops, new) == [do |-> "op", name |-> name, pops |-> pops, new |-> new]
push(v, name) == [do |-> "push", item |-> pushItem(v), name |-> name]
pushlabel(lab, name) == [do |-> "push", item |-> labelRef(lab), name |-> name]
dup(name, new) == [do |-> "dup", name |-> name, new |-> new]
swap(n) == [do |-> "swap", n |-> n]
to_top(name) == [do |-> "to_top", name |-> name]
rename(old, new) == [do |-> "rename", old |-> old, new |-> new]
\* The names from here on, or in the place of the n on top: no item.
fresh(names) == [do |-> "fresh", names |-> names]
restack(n, names) == [do |-> "restack", n |-> n, names |-> names]
\* One turn of the loop of arrange: the name goes `at` places below the top, by way of it.
place(name, at) == [do |-> "place", name |-> name, at |-> at]
\* A push of f[k], where k is the number in the name on top.
pushFor(f, name) == [do |-> "pushFor", f |-> f, name |-> name]
nothing == <<>>

\* The distance from the top of the lowest entry of that name, the top's being one.
depth(names, name) ==
    Len(names) + 1
    - (CHOOSE i \in DOMAIN names : names[i] = name /\ \A j \in 1 .. i - 1 : names[j] # name)

swapped(s, n) == [s EXCEPT ![Len(s)] = s[Len(s) - n], ![Len(s) - n] = s[Len(s)]]

adds(e, item, names, after) ==
    [items |-> Append(e.items, placed(item, names, e.pc)), st |-> after, pc |-> e.pc + item.size]
plain(e, item, after) == adds(e, item, e.st, after)

\* The machine has no DUP17: asserted at dup and swap.
within16(n) == n \in 1 .. 16

swapAt(e, n) == plain(e, opItem(IF within16(n) THEN "SWAP" ELSE "INVALID", n), swapped(e.st, n))

raise(e, name) == IF depth(e.st, name) = 1 THEN e ELSE swapAt(e, depth(e.st, name) - 1)

\* The item of a move that adds one, and the names after it.
itemOf(names, m) ==
    CASE m.do \in {"raw", "push"} -> m.item
      [] m.do = "pushFor" -> pushItem(m.f[names[Len(names)][2]])
      [] m.do = "op" -> opItem(m.name, 0)
      [] m.do = "dup" -> LET d == depth(names, m.name)
                         IN opItem(IF within16(d) THEN "DUP" ELSE "INVALID", d)
after(names, m) ==
    CASE m.do = "raw" -> names
      [] m.do \in {"push", "pushFor"} -> Append(names, m.name)
      [] m.do = "op" -> SubSeq(names, 1, Len(names) - m.pops) \o (IF m.new = nothing THEN <<>> ELSE <<m.new>>)
      [] m.do = "dup" -> Append(names, m.new)

play(e, m) ==
    CASE m.do \in {"raw", "push", "pushFor", "op", "dup"} ->
            adds(e, itemOf(e.st, m), IF m.do = "raw" THEN noNames ELSE e.st, after(e.st, m))
      [] m.do = "swap" -> swapAt(e, m.n)
      [] m.do = "to_top" -> raise(e, m.name)
      [] m.do = "rename" -> [e EXCEPT !.st[Len(e.st) + 1 - depth(e.st, m.old)] = m.new]
      [] m.do = "fresh" -> [e EXCEPT !.st = m.names]
      [] m.do = "restack" -> [e EXCEPT !.st = SubSeq(e.st, 1, Len(e.st) - m.n) \o m.names]
      [] m.do = "place" ->
            IF e.st[Len(e.st) - m.at] = m.name THEN e
            ELSE IF m.at = 0 THEN raise(e, m.name) ELSE swapAt(raise(e, m.name), m.at)

\* The moves in turn, from e.  (In blocks, each begun from a value, so that the checker
\* does not recurse over the whole program.)
BLOCK == 32
value(f(_), d) == CHOOSE v \in {f(w) : w \in {d}} : TRUE
emit(e, moves) ==
    LET block(d, b) ==
            LET upTo[i \in 0 .. BLOCK] ==
                    IF i = 0 THEN d
                    ELSE IF BLOCK * b + i > Len(moves) THEN upTo[i - 1]
                    ELSE play(upTo[i - 1], moves[BLOCK * b + i])
            IN upTo[BLOCK]
        blocks[b \in 0 .. (Len(moves) \div BLOCK) + 1] ==
            IF b = 0 THEN e ELSE value(LAMBDA c : block(c, b - 1), blocks[b - 1])
    IN blocks[(Len(moves) \div BLOCK) + 1]

\* The moves f(1), ..., f(n) one after another.
forEach(n, f(_)) ==
    LET upTo[i \in 0 .. n] == IF i = 0 THEN <<>> ELSE upTo[i - 1] \o f(i)
    IN upTo[n]

\* Permute the top entries to `order`, bottom first.
arrange(order) == [i \in DOMAIN order |-> place(order[i], Len(order) - i)]

-----------------------------------------------------------------------------
(* Layout.                                                                 *)

labelAt(items, lab) ==
    items[CHOOSE i \in DOMAIN items : items[i].op \in {"JUMPDEST", "MARK"} /\ items[i].lab = lab].at

\* The code, byte by byte: an item stands at its address, each label reference a push of
\* the label's address, and what is not the first byte of an item is an operand.
operand == placed(opItem("OPERAND", 0), noNames, 0)
assemble(items, size) ==
    LET resolved(item) ==
            IF item.op = "PLABEL" THEN [item EXCEPT !.op = "PUSH", !.arg = labelAt(items, item.lab)]
            ELSE item
        real == {i \in DOMAIN items : items[i].op # "MARK"}
        starting(at) == {i \in real : items[i].at = at}
        byte(at) == IF starting(at) = {} THEN operand ELSE resolved(items[CHOOSE i \in starting(at) : TRUE])
    IN SubSeq([n \in 1 .. size |-> byte(n - 1)], 1, size)
=============================================================================
