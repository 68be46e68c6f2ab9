------------------------------ MODULE MCLander ------------------------------
(* One lander process, its settlements or its roots: the two threads share   *)
(* the chain lock only, which each model has as a wait of any length.       *)
(*                                                                         *)
(* Settlements: two hand-offs that share a note, the first with a not-before *)
(* time to come, two request threads, a queue of one, and a process killed   *)
(* once.  Roots: two landers, the second a standby, slots of two units, two  *)
(* deposits, and either one failure or a bounty that pays in full, in part   *)
(* and then nothing.                                                       *)
EXTENDS Lander, RootClock

CONSTANTS j1, j2, n1, n2, h1, h2, r1, r2

VARIABLE thread_moving

sharedNote == [j \in {j1, j2} |-> IF j = j1 THEN {n1, n2} ELSE {n2}]
secondStandsBy == [l \in {r1, r2} |-> IF l = r1 THEN 0 ELSE 1]

settlements == thread_moving = "worker"
rootsThread == thread_moving = "roots"

vars == <<landerVars, rootVars, thread_moving>>

MCInit == LanderInit /\ RootInit /\ thread_moving \in {"worker", "roots"}

\* Where the process is killed, only the second job is handed off twice at once.
MCLanderNext ==
    /\ LanderNext
    /\ crashes' = 0 \/ raced' \subseteq {j2}

\* The bounty is funded at the start or never, and then no call fails; it is the
\* first lander's calls that do, and nobody else publishes after that.
MCRootNext ==
    /\ RootNext
    /\ purse'.balance > purse.balance =>
         purse'.balance = MaxFunds /\ inserted = 0 /\ phase = 0 /\ faults = 0
    /\ faults' > faults => purse.balance + purse.paid = 0
    /\ faulted' \subseteq {r1}
    /\ faults > 0 /\ listed' # listed => mempool' # mempool

MCNext ==
    /\ \/ settlements /\ MCLanderNext /\ UNCHANGED rootVars
       \/ rootsThread /\ MCRootNext /\ UNCHANGED landerVars
    /\ UNCHANGED thread_moving

\* LanderFairness and RootFairness, each where its thread moves.
MCFairness ==
    /\ \A h \in Handler : WF_landerVars(settlements /\ handle(h))
    /\ WF_landerVars(settlements /\ work_step)
    /\ \A j \in Job : SF_landerVars(settlements /\ take(j)) /\ WF_landerVars(settlements /\ ripen(j))
    /\ \A l \in Relayer : WF_rootVars(rootsThread /\ roundStep(l))
    /\ WF_rootVars(rootsThread /\ \E x \in mempool : mined(x))
    /\ WF_rootVars(rootsThread /\ tick)

MCSpec == MCInit /\ [][MCNext]_vars /\ MCFairness
=============================================================================
