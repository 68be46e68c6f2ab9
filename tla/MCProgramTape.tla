--------------------------- MODULE MCProgramTape ---------------------------
(* Every tape of a leaf and three computed ops, and longer ones in the shape   *)
(* of a dot product, where runs of multiplies and adds fuse and chain.        *)
EXTENDS ProgramTape

Leaf == [k |-> INPUT, a |-> 0, b |-> 0]
Fixed == [k |-> CONST, a |-> 5, b |-> 0]
Op(n) == [k : {ADD, SUB, MUL}, a : 1 .. n, b : 1 .. n]
         \cup {[k |-> INV, a |-> i, b |-> i] : i \in 1 .. n}

Pin(row, k) == [col |-> 0, row |-> row, src |-> 1, value |-> k]
Held(row, v) == [col |-> 1, row |-> row, src |-> 0, value |-> v]
Circuit(ops, outs, bnd, exempt) ==
    [ops |-> ops, outs |-> outs, logT |-> 2, exempt |-> exempt, frame |-> 1, periodic |-> 0, bnd |-> bnd]

Small ==
    {Circuit(<<Leaf, o2, o3, o4>>, outs, <<Pin(0, 0), Held(3, 2), Pin(3, 1)>>, <<3>>) :
        o2 \in Op(1), o3 \in Op(2), o4 \in Op(3), outs \in {<<4>>, <<2, 4>>, <<3>>, <<4, 3, 4>>}}

\* x and y computed, then two or three products added up.
Product(a, b) == [k |-> MUL, a |-> a, b |-> b]
Sum(a, b) == [k |-> ADD, a |-> a, b |-> b]
Dots ==
    {Circuit(<<Leaf, [k |-> INV, a |-> 1, b |-> 1], Product(2, 1), Product(a, b), [k |-> k, a |-> c, b |-> d],
               Product(e, f), Sum(g, 6), Product(2, h), Sum(8, i)>>, outs, <<>>, <<>>) :
        a \in {1, 2}, b \in {2, 3}, k \in {ADD, SUB}, c \in {4, 3}, d \in {2, 4}, e \in {3, 4, 5}, f \in {2, 3},
        g \in {4, 5}, h \in {3, 7}, i \in {5, 7}, outs \in {<<9>>, <<9, 7>>, <<9, 3>>}}

Wide ==
    {Circuit(<<Fixed, Leaf, Sum(1, 2), [k |-> INV, a |-> 1, b |-> 1], Product(3, 3)>>, <<5>>, bnd, exempt) :
        bnd \in {<<>>, <<Held(1, 1)>>, <<Pin(1, 0), Pin(1, 1), Held(0, 3)>>}, exempt \in {<<>>, <<3, 2>>}}

MCTapes == Small \cup Dots \cup Wide
=============================================================================
