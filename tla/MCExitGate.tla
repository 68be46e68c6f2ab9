----------------------------- MODULE MCExitGate -----------------------------
(* A pause that lasts two epochs with its extension, an epoch of three      *)
(* instants with one open, and a settler delay that is longer than the       *)
(* window and shorter than a pause, as in the contracts (7 + 7 days, 24 h,   *)
(* 1 h, 24 h, 48 h).                                                        *)
(* The lever's ownership rests: run "policy" moves it.  Before the first    *)
(* pause two settlers follow one another, after it one.                    *)
EXTENDS ExitGate

CONSTANT rivalSettler

MCLeverCall ==
    \E s \in Account :
        \/ Lever!pausePool(s) \/ Lever!unpausePool(s)
        \/ Lever!queueExtension(s) \/ Lever!extendPause(s)

rivalOut == rivalSettler \notin {settler, pendingSettler}

MCNext ==
    /\ \/ rivalOut /\ MCLeverCall /\ Watch
       \/ GateCall /\ UNCHANGED <<now, restOfLever>>
       \/ Lever!Tick /\ Record
    /\ Refuses
    /\ pause.until # 0 => rivalOut'

MCSpec == ExitInit /\ [][MCNext]_exitVars
=============================================================================
