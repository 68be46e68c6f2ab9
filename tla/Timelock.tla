------------------------------ MODULE Timelock ------------------------------
(***************************************************************************)
(* What the timelocks of ShieldedPool promise (docs/08-pool.md, the owner's *)
(* powers): a governed value changes only to what was announced last, and  *)
(* only once the announcement is Delay old and was not cancelled.  A value *)
(* in AtOnce may be set without notice.  The pool encodes an announcement   *)
(* differently for the settler, the fee router and each DEX router; those   *)
(* encodings are checked against this module.                              *)
(***************************************************************************)
EXTENDS Integers

CONSTANTS Value, Delay, AtOnce

VARIABLES
    now,
    value,
    announced           \* {} or {[to, eta]}

lockVars == <<value, announced>>

LockInit == value \in Value /\ announced = {}

Announce == \E x \in Value :
    /\ announced' = {[to |-> x, eta |-> now + Delay]}
    /\ UNCHANGED value

Cancel ==
    /\ announced # {}
    /\ announced' = {}
    /\ UNCHANGED value

TakeEffect == \E a \in announced :
    /\ now >= a.eta
    /\ value' = a.to
    /\ announced' = {}

SetAtOnce ==
    /\ value' \in AtOnce
    /\ UNCHANGED announced

LockNext == Announce \/ Cancel \/ TakeEffect \/ SetAtOnce

LockSpec == LockInit /\ [][LockNext]_lockVars
=============================================================================
