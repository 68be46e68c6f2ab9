--------------------------- MODULE MCAmountPolicy ---------------------------
(* Small values for AmountPolicy: amounts up to 20 units, percentages in   *)
(* tenths, a ladder of two rungs.  Of each kind of value one is invalid or  *)
(* shares fees with another, so validation and matching both matter.       *)
EXTENDS AmountPolicy

CONSTANTS firstOwner, FeeTime

wide == [fee |-> 1, minExp |-> 0, maxExp |-> 1, ranged |-> TRUE]
narrow == [fee |-> 2, minExp |-> 1, maxExp |-> 1, ranged |-> TRUE]
backwards == [fee |-> 1, minExp |-> 1, maxExp |-> 0, ranged |-> TRUE]

cheap == [protocolFee |-> 1, ladder |-> {1, 2}, set |-> TRUE]
dear == [protocolFee |-> 2, ladder |-> {1, 5}, set |-> TRUE]
flatLadder == [protocolFee |-> 1, ladder |-> {3}, set |-> TRUE]

half == [deposit |-> 0, withdraw |-> 1]
full == [deposit |-> 1, withdraw |-> 2]
tooHigh == [deposit |-> 3, withdraw |-> 2]

anyRange == {wide, narrow, backwards}
anySchedule == {cheap, dear, flatLadder}
anyRate == {half, full, tooHigh}
someAmounts == {0, 50}

validRanges == {wide, narrow}
cheapOnly == {cheap}
halfOnly == {half}
smallAmounts == {0, 5}

\* AmountPolicy at either of its two tasks.  The fee rules read no more of the
\* lever than whether a pause runs, and the lever reads nothing of them: one moves
\* while the other is as deployed.  The fee rules move in the first instants only,
\* which hold every announcement with its delay and its grace.
leverRests ==
    guardian = NoOne /\ pendingOwner = NoOne /\ pause.until = 0 /\ owner = firstOwner
feesRest ==
    /\ told = [range |-> [a \in Asset |-> 0], schedule |-> [a \in Asset |-> 0], bps |-> 0]
    /\ bps = half
    /\ \A a \in Asset : rules[a] = NoRule

FeeStep == (FeeCall \/ Activation) /\ UNCHANGED leverVars
LeverStep == LeverCall /\ UNCHANGED <<feeVars, told>>
TimeStep == Tick /\ UNCHANGED <<feeVars, told>>

MCNext ==
    /\ \/ leverRests /\ now <= FeeTime /\ FeeStep
       \/ feesRest /\ LeverStep
       \/ (feesRest \/ now < FeeTime) /\ TimeStep
    /\ Remember

MCSpec == PolicyInit /\ [][MCNext]_policyVars

\* The fee rules alone.
MCFeeNext ==
    /\ \/ FeeStep
       \/ TimeStep
    /\ Remember

MCFeeSpec == PolicyInit /\ [][MCFeeNext]_policyVars
=============================================================================
