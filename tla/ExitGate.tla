------------------------------ MODULE ExitGate ------------------------------
(***************************************************************************)
(* The settler gate of ShieldedPool and the containment lever of            *)
(* AmountPolicy together.  Both refuse settlements, each within bounds of   *)
(* its own, on one clock; their owners are two independent Ownable2Step     *)
(* contracts.  Here is what is left of those bounds for a holder who must   *)
(* settle without the help of the settler, the guardian or the owners.     *)
(***************************************************************************)
EXTENDS SettlerGate

CONSTANTS Account, PAUSE_DURATION, EXTENSION, EXTEND_DELAY, PAUSE_COOLDOWN

VARIABLES owner, pendingOwner, guardian, pause, began, ownersHold, shut, caller

Lever == INSTANCE PauseLever WITH NoOne <- Nobody

\* The pause at its longest is a whole number of epochs, and the cooldown
\* holds a whole epoch (7 days, 7 days, 7 days, 24 hours).
ASSUME ExitAssumption ==
    /\ Nobody \notin Account
    /\ PAUSE_DURATION \in Nat /\ EXTENSION \in Nat
    /\ EXTEND_DELAY \in Nat /\ PAUSE_COOLDOWN \in Nat
    /\ (PAUSE_DURATION + EXTENSION) % EPOCH = 0
    /\ EPOCH <= PAUSE_COOLDOWN

restOfLever == <<owner, pendingOwner, guardian, pause, began, ownersHold, shut, caller>>
exitVars == <<now, stopped, gateVars, restOfLever>>

ExitInit == Lever!LeverInit /\ stopped = FALSE /\ GateInit

\* The policy refuses every settlement while its pause runs.
Refuses == stopped' = (now' < pause'.until)

\* A call of the policy leaves the pool as it was.
Watch == Sees /\ UNCHANGED <<settler, changeVars, lastSettlement, refused>>

\* A batch in which a paused policy refuses an intent reverts as a whole, so
\* settleBatch moves lastSettlement only while the lever lets it.
ExitNext ==
    /\ \/ Lever!LeverCall /\ Watch
       \/ GateCall /\ UNCHANGED <<now, restOfLever>>
       \/ Lever!Tick /\ Record
    /\ Refuses

ExitSpec == ExitInit /\ [][ExitNext]_exitVars

-----------------------------------------------------------------------------
(* Properties.                                                             *)

\* However pauses, extensions, early ends, settlements and settler changes
\* follow one another, the two mechanisms together keep a holder out for no
\* longer than the longest pause and one shut stretch of an epoch.  The pause
\* alone is the 14 days of docs/22-production-pool.md:83; a settler installed
\* while it runs adds its own shut stretch.  A stretch in which no pause ran is
\* shorter than an epoch, as on a pool that is never paused.
ExclusionIsBounded ==
    refused <= EPOCH - SLOT
                 + (IF shut \cap (now - refused .. now - 1) = {} THEN 0
                    ELSE PAUSE_DURATION + EXTENSION)
=============================================================================
