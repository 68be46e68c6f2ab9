------------------------- MODULE MCIncrementalTree -------------------------
(* The pool's tree, or the tool that builds one like it.  The tree has a     *)
(* depth of three, seven leaves at most and a window of three roots: every  *)
(* carry up to the last level, batches that straddle the end, and a ring    *)
(* that wraps twice.  The tool meets chains of four blocks after the first, *)
(* whose times fall before, on, between and after the ends of its window.  *)
EXTENDS NullifierTree

settlement(assets) == [direct |-> TRUE, assets |-> assets]
contents == {<<>>, <<settlement(<<"nox">>)>>, <<settlement(<<"eth", "nox">>), settlement(<<"nox">>)>>,
             <<[direct |-> FALSE, assets |-> <<"nox">>]>>}

MCInit == TreeInit /\ ToolInit
treeRests == leaves = <<>>
toolRests == chain = <<[time |-> 1, txs |-> <<>>]>> /\ tool.pc = "head" /\ tool.goal = fromTime
MCNext ==
    \/ toolRests /\ TreeNext /\ UNCHANGED toolVars
    \/ treeRests /\ ToolNext /\ UNCHANGED treeVars

MCSpec == MCInit /\ [][MCNext]_<<treeVars, toolVars>>
=============================================================================
