------------------------------ MODULE RootClock ------------------------------
(***************************************************************************)
(* The roots thread of lander/relayer.py: several landers, each of which    *)
(* commits the pool's root at most once in a slot of the clock, standby     *)
(* seconds into it at the earliest, and lists it in the association         *)
(* registry; with RootBounty.sol, which pays for some of the commits, and   *)
(* the two permissionless calls others make too.                           *)
(*                                                                         *)
(* A root is the number of leaves it covers.  Time is the phase within the  *)
(* slot, in units that hold one look of a sleeping thread (30 s): time does *)
(* not pass over a look.  What is compared with slot numbers only is kept   *)
(* as a fact that ends with the slot: done says last_slot = slot, and here  *)
(* that the slot a round was decided in is still the current one.  The      *)
(* wait for the chain lock, which a settlement may hold, is part of send.   *)
(* moved, faulted and sincePaid are history variables: who moved the root   *)
(* in this slot, with a commit decided here or earlier; who met a failure   *)
(* in it, or earlier with a transaction of then still in the mempool; and   *)
(* the units since anyone was paid, whatever the bounty itself remembers.  *)
(***************************************************************************)
EXTENDS Naturals, FiniteSets

CONSTANTS
    Relayer,            \* the landers
    standby,            \* RELAY_ROOT_STANDBY_S of each, in units
    Bountied,           \* the landers with RELAY_ROOT_BOUNTY set
    ROOT_EVERY, INTERVAL, BOUNTY,
    MaxDeposits, MaxFaults, MaxFunds \* bounds

ASSUME RootAssumption ==
    /\ ROOT_EVERY \in Nat \ {0}
    /\ standby \in [Relayer -> 0 .. ROOT_EVERY - 1]
    /\ Bountied \subseteq Relayer
    /\ INTERVAL \in Nat /\ BOUNTY \in Nat \ {0}
    /\ MaxDeposits \in Nat /\ MaxFaults \in Nat /\ MaxFunds \in Nat

VARIABLES
    phase,              \* of the slot
    inserted, committed,\* leaves in the pool's tree, and those currentRoot covers
    listed,             \* the roots isRegisteredRoot answers true for
    round,              \* of each lander: [pc, seen, root, done, here, try]
    mempool,            \* [by, kind, root, here, try]; try tells attempts apart
    purse,              \* the bounty: [balance, paid, age], age the units since it last paid
    faults, moved, faulted, sincePaid

rootVars == <<phase, inserted, committed, listed, round, mempool, purse,
              faults, moved, faulted, sincePaid>>
poolRoots == <<inserted, committed, listed, purse, sincePaid>>
history == <<faults, moved, faulted>>

asleep == [pc |-> "asleep", seen |-> 0, root |-> 0, done |-> FALSE, here |-> FALSE, try |-> 0]

RootInit ==
    /\ phase = 0
    /\ inserted = 0 /\ committed = 0 /\ listed = {}
    /\ round = [l \in Relayer |-> asleep]
    /\ mempool = {}
    /\ purse = [balance |-> 0, paid |-> 0, age |-> INTERVAL]
    /\ faults = 0 /\ moved = {} /\ faulted = {} /\ sincePaid = INTERVAL

is(l, pc) == round[l].pc = pc
becomes(l, r) == round' = [round EXCEPT ![l] = r]

-----------------------------------------------------------------------------
(* One round of the thread, a step for each call it makes.                 *)

\* A look that goes on: commitRoot() is asked what it would return, and reverts on
\* an empty tree.
looks(l) == is(l, "asleep") /\ ~round[l].done /\ phase >= standby[l] /\ inserted # 0

wake(l) ==
    /\ looks(l)
    /\ becomes(l, [asleep EXCEPT !.pc = "compare", !.seen = inserted, !.here = TRUE])
    /\ UNCHANGED <<phase, poolRoots, mempool, history>>

\* last_slot = slot: the slot the round was decided in.
slotDone_never(l) == asleep
slotDone(l) == [asleep EXCEPT !.done = round[l].here]

compare(l) ==
    /\ is(l, "compare")
    /\ becomes(l, IF round[l].seen = committed THEN slotDone(l)
                  ELSE [round[l] EXCEPT !.pc = "send"])
    /\ UNCHANGED <<phase, poolRoots, mempool, history>>

transaction(l, kind, root, try) ==
    [by |-> l, kind |-> kind, root |-> root, here |-> round[l].here, try |-> try]

\* cast send returns with the receipt.
send(l) ==
    /\ is(l, "send")
    /\ mempool' = mempool \cup {transaction(l, "commit", 0, faults)}
    /\ becomes(l, [round[l] EXCEPT !.pc = "sent", !.try = faults])
    /\ UNCHANGED <<phase, poolRoots, history>>

\* The second RPC endpoint gets the transaction after the first one failed with it
\* broadcast.
resend(l) ==
    /\ is(l, "sent") /\ faults < MaxFaults
    /\ mempool' = mempool \cup {transaction(l, "commit", 0, faults + 1)}
    /\ becomes(l, [round[l] EXCEPT !.try = faults + 1])
    /\ faults' = faults + 1
    /\ faulted' = faulted \cup {l}
    /\ UNCHANGED <<phase, poolRoots, moved>>

\* currentRoot() after the commit, which may be a later one than the lander's own.
rootToList_seenBefore(l) == round[l].seen - 1
rootToList(l) == committed

readRoot(l) ==
    /\ is(l, "mined")
    /\ becomes(l, [round[l] EXCEPT !.pc = "list", !.root = rootToList(l)])
    /\ UNCHANGED <<phase, poolRoots, mempool, history>>

publish(l) ==
    /\ is(l, "list")
    /\ IF round[l].root \in listed
       THEN becomes(l, slotDone(l)) /\ UNCHANGED mempool
       ELSE /\ mempool' = mempool \cup {transaction(l, "publish", round[l].root, faults)}
            /\ becomes(l, [round[l] EXCEPT !.pc = "listing", !.try = faults])
    /\ UNCHANGED <<phase, poolRoots, history>>

\* Any call raises or times out: the thread logs it and sleeps, the slot not done,
\* and what it sent may still be mined.
callFails(l) ==
    /\ ~is(l, "asleep") /\ faults < MaxFaults
    /\ becomes(l, asleep)
    /\ faults' = faults + 1 /\ faulted' = faulted \cup {l}
    /\ UNCHANGED <<phase, poolRoots, mempool, moved>>

\* A restart forgets last_slot.
reboot(l) ==
    /\ faults < MaxFaults
    /\ becomes(l, asleep)
    /\ faults' = faults + 1 /\ faulted' = faulted \cup {l}
    /\ UNCHANGED <<phase, poolRoots, mempool, moved>>

-----------------------------------------------------------------------------
(* The chain: the pool's commitRoot, the bounty's commit, the registry.    *)

\* What commit pays: only for a root that moves, once the interval has passed, and
\* no more than the bounty or what is left of it.
pays == committed # inserted /\ purse.age >= INTERVAL
payment == IF ~pays THEN 0 ELSE IF purse.balance < BOUNTY THEN purse.balance ELSE BOUNTY

afterPayment_ageKept(amount) ==
    [purse EXCEPT !.balance = purse.balance - amount, !.paid = purse.paid + amount]
afterPayment(amount) ==
    [balance |-> purse.balance - amount, paid |-> purse.paid + amount, age |-> 0]

commitRoot(throughBounty) ==
    /\ inserted # 0
    /\ committed' = inserted
    /\ purse' = IF throughBounty /\ payment > 0 THEN afterPayment(payment) ELSE purse
    /\ sincePaid' = IF purse'.paid = purse.paid THEN sincePaid ELSE 0
    /\ UNCHANGED <<inserted, listed>>

publishRoot(root) ==
    /\ listed' = listed \cup {root}
    /\ UNCHANGED <<inserted, committed, purse, sincePaid>>

\* A transaction is mined, and the thread that waits for it gets its receipt.
receipt(x) ==
    LET r == round[x.by]
    IN IF x.try # r.try THEN UNCHANGED round
       ELSE IF x.kind = "commit" /\ r.pc = "sent" THEN becomes(x.by, [r EXCEPT !.pc = "mined"])
       ELSE IF x.kind = "publish" /\ r.pc = "listing" THEN becomes(x.by, slotDone(x.by))
       ELSE UNCHANGED round

mined(x) ==
    /\ x \in mempool
    /\ mempool' = mempool \ {x}
    /\ receipt(x)
    /\ IF x.kind = "commit" THEN commitRoot(x.by \in Bountied) ELSE publishRoot(x.root)
    /\ moved' = IF x.kind = "commit" /\ committed # inserted
                THEN moved \cup {[by |-> x.by, here |-> x.here]} ELSE moved
    /\ UNCHANGED <<phase, faults, faulted>>

deposit ==
    /\ inserted < MaxDeposits
    /\ inserted' = inserted + 1
    /\ UNCHANGED <<phase, committed, listed, round, mempool, purse, sincePaid, history>>

\* Anyone may commit, through the bounty or not, and publish what is current.
outsider ==
    /\ (\E b \in BOOLEAN : commitRoot(b)) \/ (committed # 0 /\ publishRoot(committed))
    /\ UNCHANGED <<phase, round, mempool, history>>

fund ==
    /\ \E v \in 1 .. MaxFunds : /\ purse.balance + purse.paid + v <= MaxFunds
                                /\ purse' = [purse EXCEPT !.balance = purse.balance + v]
    /\ UNCHANGED <<phase, inserted, committed, listed, round, mempool, sincePaid, history>>

\* With the slot ends what held of it.
slotEnds_never == FALSE
slotEnds == phase = ROOT_EVERY - 1
older(units) == IF units < INTERVAL THEN units + 1 ELSE units
tick ==
    /\ \A l \in Relayer : ~looks(l)
    /\ phase' = (phase + 1) % ROOT_EVERY
    /\ purse' = [purse EXCEPT !.age = older(purse.age)]
    /\ sincePaid' = older(sincePaid)
    /\ IF slotEnds
       THEN /\ round' = [l \in Relayer |-> [round[l] EXCEPT !.done = FALSE, !.here = FALSE]]
            /\ mempool' = {[x EXCEPT !.here = FALSE] : x \in mempool}
            /\ moved' = {}
            /\ faulted' = {l \in faulted : \E x \in mempool : x.by = l}
       ELSE UNCHANGED <<round, mempool, moved, faulted>>
    /\ UNCHANGED <<inserted, committed, listed, faults>>

-----------------------------------------------------------------------------
roundStep(l) == wake(l) \/ compare(l) \/ send(l) \/ readRoot(l) \/ publish(l)

RootNext ==
    \/ \E l \in Relayer : roundStep(l) \/ resend(l) \/ callFails(l) \/ reboot(l)
    \/ \E x \in mempool : mined(x)
    \/ deposit \/ outsider \/ fund
    \/ tick

\* The thread runs, every call ends within its timeout, blocks are mined and time
\* passes.
RootFairness ==
    /\ \A l \in Relayer : WF_rootVars(roundStep(l))
    /\ WF_rootVars(\E x \in mempool : mined(x))
    /\ WF_rootVars(tick)

RootSpec == RootInit /\ [][RootNext]_rootVars /\ RootFairness

-----------------------------------------------------------------------------
(* Properties.                                                             *)

\* relayer.py:17 and :330 say at most one commit per slot.  That is so of the slots
\* commits are decided in.  One that waits for the next slot, for the chain lock or
\* to be mined, moves the root there, and that slot's own may move it once more.
\* What holds is that a lander moves the root at most twice in a slot, with the late
\* one and then with its own, also when others commit meanwhile.  A failed call and
\* a restart, which forget the slot, are the exception while they last.
LateThenOwnCommit ==
    [][\A x \in mempool \ mempool' :
         x.kind = "commit" /\ committed' # committed /\ x.by \notin faulted =>
             \A m \in moved : m.by = x.by => x.here /\ ~m.here]_rootVars

\* Every deposit gets a root in the end, however landers and others race for the
\* commit and whichever calls fail.
DepositsGetARoot ==
    \A n \in 1 .. MaxDeposits : inserted >= n ~> committed >= n

\* A round that ends with a commit, "root committed and published", leaves a root in
\* the registry that covers every leaf the lander saw when it decided to commit.
ReportedIsListed ==
    [][\A l \in Relayer :
         round[l].pc \in {"list", "listing"} /\ round'[l].pc = "asleep" /\ faults' = faults =>
             \E root \in listed' : root >= round[l].seen]_rootVars

\* RootBounty.sol:13: "Pays only when the root moves, at most bounty per interval",
\* whoever calls it how often, through whatever failures: between two payments, as
\* anyone would time them, lies an interval.
BountyIsEarned ==
    [][purse'.paid # purse.paid =>
         /\ committed' > committed
         /\ sincePaid >= INTERVAL /\ purse'.paid - purse.paid <= BOUNTY]_rootVars

\* relayer.py:49-51: a standby lander waits into the slot "so it commits only if the
\* landers ahead of it did not".  It compares roots, not commits: a deposit after
\* the first lander's commit is enough for the standby to commit again.
StandbyYields ==
    [][\A x \in mempool' \ mempool :
         x.kind = "commit" /\ x.here =>
             \A m \in moved : m.here => standby[m.by] >= standby[x.by]]_rootVars
=============================================================================
