----------------------------- MODULE PauseLever -----------------------------
(***************************************************************************)
(* The containment lever of contracts/shield/AmountPolicy.sol: a guardian  *)
(* or the owner may refuse every deposit and settlement at once, for a     *)
(* bounded time, extendable once by the owner, with a cooldown before the  *)
(* next pause.  AmountPolicy.tla extends this module with the fee rules of *)
(* the same contract.                                                      *)
(*                                                                         *)
(* Time is a natural number that only Tick moves; several transactions may *)
(* carry the same timestamp.  began, ownersHold and shut are history        *)
(* variables, which no call reads: began is the timestamp of the pausePool  *)
(* call of the current or last pause, ownersHold whether whoever was owner  *)
(* then made that call or has announced an extension since, shut the past   *)
(* instants at which the pool was shut.  caller is the msg.sender of the    *)
(* last transaction.                                                       *)
(***************************************************************************)
EXTENDS Integers, FiniteSets

CONSTANTS
    Account,            \* the addresses that may send a transaction
    NoOne,              \* the zero address
    PAUSE_DURATION, EXTENSION, EXTEND_DELAY, PAUSE_COOLDOWN,
    MaxTime             \* bound: Tick stops here

ASSUME LeverAssumption ==
    /\ NoOne \notin Account
    /\ PAUSE_DURATION \in Nat /\ EXTENSION \in Nat
    /\ EXTEND_DELAY \in Nat /\ PAUSE_COOLDOWN \in Nat \ {0}
    /\ MaxTime \in Nat

VARIABLES
    now,                \* block.timestamp
    owner, pendingOwner,
    guardian,
    pause,              \* [until, extensionEta, extended, ownerHeld]
    began, ownersHold, shut, caller

leverVars == <<now, owner, pendingOwner, guardian, pause, began, ownersHold, shut, caller>>
adminVars == <<owner, pendingOwner, guardian>>
clockVars == <<now, shut>>
pauseVars == <<pause, began, ownersHold>>

Address == Account \cup {NoOne}
Pause == [until : Nat, extensionEta : Nat, extended : BOOLEAN, ownerHeld : BOOLEAN]

LeverTypeOK ==
    /\ now \in Nat
    /\ owner \in Address /\ pendingOwner \in Address /\ guardian \in Address
    /\ pause \in Pause
    /\ began \in Nat /\ ownersHold \in BOOLEAN
    /\ shut \in SUBSET Nat
    /\ caller \in Address

\* The pool creates the policy, so no pause has ever run and the guardian is unset.
LeverInit ==
    /\ now = 1
    /\ owner \in Account
    /\ pendingOwner = NoOne
    /\ guardian = NoOne
    /\ pause = [until |-> 0, extensionEta |-> 0, extended |-> FALSE, ownerHeld |-> FALSE]
    /\ began = 0 /\ ownersHold = FALSE
    /\ shut = {}
    /\ caller = NoOne

paused == now < pause.until

-----------------------------------------------------------------------------
(* The calls.  s is msg.sender; a call whose guard fails reverts.  A         *)
(* definition named x_y is what a slip would make of x: each property below *)
(* is checked to fail with one of them in place of x.                       *)

setGuardian(s, g) ==
    /\ s = owner
    /\ guardian' = g
    /\ caller' = s
    /\ UNCHANGED <<clockVars, owner, pendingOwner, pauseVars>>

\* Within PAUSE_COOLDOWN of the end of the last pause, the first one excepted.
coolingDown == pause.until # 0 /\ now < pause.until + PAUSE_COOLDOWN

beginPause(s) == [until |-> now + PAUSE_DURATION, extensionEta |-> 0,
                  extended |-> FALSE, ownerHeld |-> (s = owner)]

pausePool(s) ==
    /\ s \in {guardian, owner}
    /\ ~paused
    /\ ~coolingDown
    /\ pause' = beginPause(s)
    /\ began' = now /\ ownersHold' = (s = owner)
    /\ caller' = s
    /\ UNCHANGED <<clockVars, adminVars>>

\* The owner may always end a pause, the guardian one the owner does not hold.
mayEnd(s) == s = owner \/ (s = guardian /\ ~pause.ownerHeld)

endPause_deleted == [until |-> 0, extensionEta |-> 0, extended |-> FALSE, ownerHeld |-> FALSE]
endPause == [pause EXCEPT !.until = now, !.extensionEta = 0]

unpausePool(s) ==
    /\ paused
    /\ mayEnd(s)
    /\ pause' = endPause
    /\ caller' = s
    /\ UNCHANGED <<clockVars, adminVars, began, ownersHold>>

\* Announcing the extension makes the pause the owner's, whoever began it.
announcedPause_heldAsBefore ==
    [pause EXCEPT !.extensionEta = now + EXTEND_DELAY, !.extended = TRUE]
announcedPause == [until |-> pause.until, extensionEta |-> now + EXTEND_DELAY,
                   extended |-> TRUE, ownerHeld |-> TRUE]

queueExtension(s) ==
    /\ s = owner
    /\ paused
    /\ ~pause.extended
    /\ now + EXTEND_DELAY < pause.until
    /\ pause' = announcedPause
    /\ ownersHold' = TRUE
    /\ caller' = s
    /\ UNCHANGED <<clockVars, adminVars, began>>

\* The announced extension has waited its delay and the pause still runs.
extensionReady_lapsedToo == pause.extensionEta # 0 /\ now >= pause.extensionEta
extensionReady == pause.extensionEta # 0 /\ paused /\ now >= pause.extensionEta

longerPause_etaKept == [pause EXCEPT !.until = @ + EXTENSION]
longerPause == [until |-> pause.until + EXTENSION, extensionEta |-> 0,
                extended |-> TRUE, ownerHeld |-> TRUE]

extendPause(s) ==
    /\ extensionReady
    /\ pause' = longerPause
    /\ caller' = s
    /\ UNCHANGED <<clockVars, adminVars, began, ownersHold>>

(* Ownable2Step: a transfer takes effect when the new owner accepts it.    *)
transferOwnership(s, to) ==
    /\ s = owner
    /\ pendingOwner' = to
    /\ caller' = s
    /\ UNCHANGED <<clockVars, owner, guardian, pauseVars>>

acceptOwnership(s) ==
    /\ s = pendingOwner
    /\ owner' = s
    /\ pendingOwner' = NoOne
    /\ caller' = s
    /\ UNCHANGED <<clockVars, guardian, pauseVars>>

renounceOwnership(s) ==
    /\ s = owner
    /\ owner' = NoOne
    /\ pendingOwner' = NoOne
    /\ caller' = s
    /\ UNCHANGED <<clockVars, guardian, pauseVars>>

(* Time passes; the instant that ends was shut if the pause covered it.    *)
Tick ==
    /\ now < MaxTime
    /\ now' = now + 1
    /\ shut' = IF paused THEN shut \cup {now} ELSE shut
    /\ caller' = NoOne
    /\ UNCHANGED <<adminVars, pauseVars>>

LeverCall ==
    \E s \in Account :
        \/ \E g \in Address : setGuardian(s, g)
        \/ pausePool(s)
        \/ unpausePool(s)
        \/ queueExtension(s)
        \/ extendPause(s)
        \/ \E to \in Address : transferOwnership(s, to)
        \/ acceptOwnership(s)
        \/ renounceOwnership(s)

LeverNext == LeverCall \/ Tick

LeverSpec == LeverInit /\ [][LeverNext]_leverVars

-----------------------------------------------------------------------------
(* Properties.                                                             *)

\* No pause keeps the pool shut for more than PAUSE_DURATION + EXTENSION in a
\* row, whatever pausePool, queueExtension, extendPause and unpausePool are
\* called in what order.
ShutIsBounded ==
    \A t \in shut : ~((t .. (t + PAUSE_DURATION + EXTENSION)) \subseteq shut)

\* Once the pool has opened it stays open for PAUSE_COOLDOWN: "every holder
\* gets a window to exit", also after an early unpausePool.
ExitWindow ==
    \A x, y \in shut : x < y /\ x + 1 \notin shut => y >= x + 1 + PAUSE_COOLDOWN

\* The two together, as docs/08-pool.md puts it: in any stretch of
\* PAUSE_DURATION + EXTENSION + PAUSE_COOLDOWN the pool runs for at least
\* PAUSE_COOLDOWN.
RunsInAnyWindow ==
    LET window == PAUSE_DURATION + EXTENSION + PAUSE_COOLDOWN
    IN \A t \in shut :
         Cardinality(shut \cap (t .. t + window - 1)) <= PAUSE_DURATION + EXTENSION

\* Once an owner has begun a pause, or announced an extension of one a guardian
\* began, only whoever is the owner by then ends it early: no guardian's
\* unpausePool, before or after the extension takes effect, and no owner who has
\* handed the policy on.
OwnerHeldPauseStays ==
    [][paused /\ ownersHold /\ pause'.until < pause.until => caller' = owner]_leverVars

\* An announced extension never revives a pause that lapsed: a pool that is
\* open is shut again only by a new pausePool.
LapsedIsNotRevived ==
    [][~paused /\ now' < pause'.until => began' = now /\ ~pause'.extended]_leverVars
=============================================================================
