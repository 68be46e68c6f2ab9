--------------------------- MODULE MCShieldedPool ---------------------------
(* The ledger on three small instances, told apart by the caps the pool     *)
(* starts with, which none of the first two moves: batches of two intents   *)
(* in one asset, a pool in use that is wound down, and the wind-down of a    *)
(* pool as deployed.  A batch is submitted by the owner's account, pays the  *)
(* other one, and names that one or its submitter for the fee.              *)
EXTENDS ShieldedPool

CONSTANTS user, LedgerCap, RefundCap

scales == [a \in Asset |-> IF a = Native THEN 1 ELSE 2]
\* A swap either way: at a price of three halves the band of a fifth asks for
\* two of the native coin for one unit, or three base units of the token for one coin.
swaps(tok) ==
    {[assetIn |-> tok, assetOut |-> Native, amountIn |-> 2, amountOutMin |-> m] : m \in {1, 2}}
    \cup {[assetIn |-> Native, assetOut |-> tok, amountIn |-> 1, amountOutMin |-> m] : m \in {2, 3}}
bothSwaps == UNION {swaps(tok) : tok \in Asset \ {Native}}

\* Every asset registered, deposits open to everyone, caps raised.
OpenedInit(firstCap) ==
    /\ book = [a \in Asset |-> [balance |-> 0, shielded |-> 0, claimable |-> [p \in Account |-> 0],
                                totalClaimable |-> 0, unswept |-> 0, lost |-> 0]]
    /\ notes = <<>> /\ spent = {}
    /\ beta = [a \in Asset |-> [addrCap |-> firstCap, totalCap |-> firstCap,
                                deposited |-> [p \in Account |-> 0], totalDeposited |-> 0,
                                refundable |-> [p \in Account |-> 0], refundableTotal |-> 0,
                                refundAssets |-> 0, refundBase |-> 0]]
    /\ admit = [depositsPaused |-> FALSE, betaMode |-> TRUE, betaPaused |-> FALSE,
                openDeposits |-> TRUE, depositors |-> {}, registrar |-> NoOne, woundDown |-> FALSE]
    /\ listed = Asset
    /\ tx = Idle /\ before = Idle
    /\ refunds = {} /\ swapped = {}

MCSettle(n, intents, residuals) ==
    /\ tx = Idle
    /\ \E batch \in [1 .. n -> intents], price \in Prices :
       \E r \in {{}} \cup {{x} : x \in residuals} : settleBatch(Owner, batch, r, price)

\* Deposits of three units and intents that withdraw one, with fees of nought or
\* one; the switches rest once deposits are open.
nativeOnly == {it \in Intents({user}, {user, SUBMITTER}) : it.asset = Native}
LedgerNext ==
    \/ \E f \in FeeUnits : absorb(user, Native, 3, f)
    \/ \E n \in 1 .. MAX_INTENTS : MCSettle(n, nativeOnly, {})
    \/ InFlightStep
    \/ Withdraw

\* Tokens and routers that cheat: one intent with a swap, or two that leave no change.
HostileNext ==
    \/ \E a \in Asset, f \in FeeUnits : absorb(user, a, 2, f)
    \/ MCSettle(1, Intents({user}, {user, SUBMITTER}), Residuals)
    \/ MCSettle(2, {it \in Intents({user}, {SUBMITTER}) : it.change = 0}, {})
    \/ notes = <<>> /\ receive(Native)
    \/ InFlightStep
    \/ Withdraw

HostileInit == OpenedInit(RefundCap)
HostileSpec == HostileInit /\ [][HostileNext]_poolVars

\* The wind-down of a pool in use: two depositors, who may deposit the same or
\* not in either asset, and withdrawals before the first refund.
noFee(payees) == {it \in Intents(payees, {}) : it.fee = 0}
RefundNext ==
    \/ \E s \in Account, a \in Asset, u \in {2, 3} : absorb(s, a, u, 0)
    \/ MCSettle(1, noFee({user}), Residuals)
    \/ InFlightStep
    \/ Withdraw

MCSwitch ==
    \/ \E a \in Asset : registerAsset(a)
    \/ \E on \in BOOLEAN : setDepositsPaused(on) \/ setBetaPaused(on) \/ setOpenDeposits(on)
    \/ \E s \in Account, on \in BOOLEAN : setBetaDepositor(s, user, on)
    \/ \E c, t \in Caps : setBetaCaps(Native, c, t)
    \/ \E r \in {user, NoOne} : setDepositorRegistrar(r)
    \/ endBetaMode

MCWithdrawal ==
    tx = Idle /\ \E s \in Account : \E it \in noFee({s}) : settleBatch(s, <<it>>, {}, 0)

\* The wind-down of a pool as deployed: the switches turn between transactions,
\* only the end of the beta may come while one is in flight.  One note is made, and
\* the switches that name an account or a cap name one.
BetaNext ==
    \/ notes = <<>> /\ \E s \in Account, a \in Asset, u \in Units : absorb(s, a, u, 0)
    \/ MCWithdrawal
    \/ InFlightStep
    \/ Withdraw
    \/ tx = Idle /\ MCSwitch
    \/ tx # Idle /\ endBetaMode

startedWith(cap) == beta[Native].addrCap = cap
LifeInit == OpenedInit(LedgerCap) \/ OpenedInit(RefundCap) \/ PoolInit
LifeNext ==
    \/ startedWith(LedgerCap) /\ LedgerNext
    \/ startedWith(RefundCap) /\ RefundNext
    \/ beta[Native].addrCap \notin {LedgerCap, RefundCap} /\ BetaNext
LifeSpec == LifeInit /\ [][LifeNext]_poolVars
=============================================================================
