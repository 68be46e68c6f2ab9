------------------------------ MODULE Custody ------------------------------
(***************************************************************************)
(* What a custodian of several assets promises, whatever it does for whom:  *)
(* of every asset it holds at least what it owes, less what it lost sight   *)
(* of, and no transaction leaves it with less to spare.  Of a sure asset it *)
(* never loses sight.  What it owes is a sum of ledgers, of which it is not *)
(* said here that each is positive.  ShieldedPool implements it.           *)
(***************************************************************************)
EXTENDS Integers

CONSTANTS Asset, Sure

VARIABLES held, owed, lost    \* per asset

custodyVars == <<held, owed, lost>>

CustodyInit ==
    /\ held = [a \in Asset |-> 0] /\ owed = [a \in Asset |-> 0]
    /\ lost = [a \in Asset |-> 0]

spare(a) == held[a] + lost[a] - owed[a]

Transaction ==
    /\ held' \in [Asset -> Nat] /\ owed' \in [Asset -> Int] /\ lost' \in [Asset -> Nat]
    /\ \A a \in Asset : /\ held'[a] + lost'[a] - owed'[a] >= spare(a)
                         /\ lost'[a] >= lost[a]
    /\ \A a \in Sure : lost'[a] = 0

CustodySpec == CustodyInit /\ [][Transaction]_custodyVars
=============================================================================
