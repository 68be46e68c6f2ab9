----------------------------- MODULE SettlerGate -----------------------------
(***************************************************************************)
(* Who may settle, and when: contracts/shield/SettlerGate.sol and the state *)
(* and calls of ShieldedPool.sol it decides on.  A settler has priority for *)
(* WINDOW after each settlement; in the last SLOT of every EPOCH anyone may *)
(* settle.  The owner changes the settler through a timelock.               *)
(*                                                                         *)
(* stopped says whether AmountPolicy refuses every settlement; it is FALSE *)
(* here and the lever's pause in ExitGate.  refused and seenOpen are history *)
(* variables: for how many instants in a row Public was shut out at the end *)
(* of the instant, and whether Public could have settled at any moment,      *)
(* between any two transactions, since the last proposal.                   *)
(***************************************************************************)
EXTENDS Integers

CONSTANTS
    Settler,            \* the addresses the owner may install
    Nobody,             \* the zero address: settlement is open to anyone
    Public,             \* a caller who is never the settler
    WINDOW, EPOCH, SLOT, SETTLER_DELAY,
    MaxTime             \* bound: the clock stops here

ASSUME GateAssumption ==
    /\ Nobody \notin Settler /\ Public \notin Settler \cup {Nobody}
    /\ WINDOW \in Nat /\ EPOCH \in Nat \ {0} /\ SLOT \in 1 .. EPOCH
    /\ SETTLER_DELAY \in Nat /\ EPOCH <= SETTLER_DELAY
    /\ MaxTime \in Nat

VARIABLES
    now, stopped,
    settler, pendingSettler, pendingSettlerEta, lastSettlement,
    refused, seenOpen

changeVars == <<pendingSettler, pendingSettlerEta>>
gateVars == <<settler, changeVars, lastSettlement, refused, seenOpen>>

GateInit ==
    /\ settler = Nobody /\ pendingSettler = Nobody /\ pendingSettlerEta = 0
    /\ lastSettlement = now
    /\ refused = 0 /\ seenOpen = FALSE

open(c) == settler = Nobody \/ c = settler \/ now >= lastSettlement + WINDOW

inOpenSlot_short == now % EPOCH > EPOCH - SLOT
inOpenSlot == now % EPOCH >= EPOCH - SLOT

maySettle(c) == open(c) \/ inOpenSlot

openToPublic == ~stopped /\ maySettle(Public)
Sees == seenOpen' = (seenOpen \/ openToPublic)

-----------------------------------------------------------------------------
(* settleBatch's gate; what a batch does to the ledger is in ShieldedPool.  *)
settleBatch(c) ==
    /\ maySettle(c)
    /\ ~stopped
    /\ lastSettlement' = now
    /\ Sees
    /\ UNCHANGED <<settler, changeVars, refused>>

newEta == now + SETTLER_DELAY

\* Proposing again replaces the proposal and restarts its delay.
proposeSettler(x) ==
    /\ pendingSettler' = x
    /\ pendingSettlerEta' = newEta
    /\ seenOpen' = FALSE
    /\ UNCHANGED <<settler, lastSettlement, refused>>

etaAfterCancel_kept == pendingSettlerEta
etaAfterCancel == 0

cancelSettlerChange ==
    /\ pendingSettlerEta # 0
    /\ pendingSettler' = Nobody
    /\ pendingSettlerEta' = etaAfterCancel
    /\ Sees
    /\ UNCHANGED <<settler, lastSettlement, refused>>

\* The new settler starts with a full window.
executeSettlerChange ==
    /\ pendingSettlerEta # 0
    /\ now >= pendingSettlerEta
    /\ settler' = pendingSettler
    /\ lastSettlement' = now
    /\ pendingSettler' = Nobody
    /\ pendingSettlerEta' = 0
    /\ Sees
    /\ UNCHANGED refused

\* What an instant that ends adds to the history.
Record ==
    /\ refused' = IF openToPublic THEN 0 ELSE refused + 1
    /\ Sees
    /\ UNCHANGED <<settler, changeVars, lastSettlement>>

GateCall ==
    \/ \E c \in Settler \cup {Public} : settleBatch(c)
    \/ \E x \in Settler \cup {Nobody} : proposeSettler(x)
    \/ cancelSettlerChange
    \/ executeSettlerChange

Tick ==
    /\ now < MaxTime
    /\ now' = now + 1
    /\ Record

GateNext ==
    \/ GateCall /\ UNCHANGED <<now, stopped>>
    \/ Tick /\ UNCHANGED stopped

\* The pool may be deployed at any point of an epoch.
Deployed == now \in 1 .. EPOCH /\ stopped = FALSE /\ GateInit

GateSpec == Deployed /\ [][GateNext]_<<gateVars, now, stopped>>

-----------------------------------------------------------------------------
(* Properties.                                                             *)

GateTypeOK ==
    /\ now \in Nat /\ stopped \in BOOLEAN
    /\ settler \in Settler \cup {Nobody} /\ pendingSettler \in Settler \cup {Nobody}
    /\ pendingSettlerEta \in Nat /\ lastSettlement \in Nat
    /\ refused \in Nat /\ seenOpen \in BOOLEAN

\* SettlerGate.sol:7, docs/10 "Bounded exclusion": however often the settler
\* settles and however settlers follow one another, nobody is kept out for a
\* whole epoch.
BoundedExclusion == refused <= EPOCH - SLOT

\* ShieldedPool.sol:89, docs/02: a settler change lands after settlement has
\* been open to everyone at some moment since it was announced, the moment before
\* it lands included.  (Of the gate alone: a paused pool refuses everyone, see
\* ExitGate.)
ChangeLandsAfterOpening ==
    [][settler' # settler => seenOpen \/ openToPublic]_gateVars

\* The settler is governed by a timelock: pendingSettlerEta alone says whether
\* a proposal is pending, since Nobody may be proposed too.
Lock == INSTANCE Timelock WITH
    Value <- Settler \cup {Nobody}, Delay <- SETTLER_DELAY, AtOnce <- {},
    value <- settler,
    announced <- IF pendingSettlerEta = 0 THEN {}
                 ELSE {[to |-> pendingSettler, eta |-> pendingSettlerEta]}
SettlerIsTimelocked == Lock!LockSpec
=============================================================================
