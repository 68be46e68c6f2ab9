---------------------------- MODULE ShieldedPool ----------------------------
(***************************************************************************)
(* The ledger of contracts/shield/ShieldedPool.sol: what the pool holds of  *)
(* each asset and what it owes, through deposits, settlements with their    *)
(* payouts and residual swap, claims, fee sweeps and beta refunds.          *)
(*                                                                         *)
(* A transaction that makes external calls between two writes is in flight *)
(* in tx: settleBatch first accounts for every intent, then pays them one   *)
(* call at a time, and every call has an outcome the callee chooses.  The   *)
(* nonReentrant entry points are closed meanwhile; the others are not.  A   *)
(* transaction may revert at any point, which restores before.             *)
(* Amounts are in base units; a note's value is in units of Scale base     *)
(* units.  A note stands for its commitment and its nullifier; that an      *)
(* intent's inputs cover what it pays is what the STARK proof establishes.  *)
(* refunds and swapped are history variables, and so is the entry lost of a *)
(* book: what left in pushes the pool could not measure, and still owes.    *)
(***************************************************************************)
EXTENDS Integers, Sequences, FiniteSets, Functions

CONSTANTS
    Asset, Native,      \* the assets ever registered; Native from the start
    Scale,              \* base units per unit
    Account, Owner, NoOne,
    SUBMITTER,          \* the fee recipient word that names msg.sender
    MAX_INTENTS,
    Units, FeeUnits,    \* what a deposit or an intent may carry, in units
    Residuals,          \* what a submitter may pass to _settleResidual
    BPS, residualBandBps, PRICE_SCALE, Prices,
    Caps,
    Hostile,            \* tokens move what they like and answer what they like
    MaxNotes, MaxGift   \* bounds: commitments made, base units given away to the pool

ASSUME PoolAssumption ==
    /\ Native \in Asset
    /\ Scale \in [Asset -> Nat \ {0}]
    /\ IsFiniteSet(Account)
    /\ Owner \in Account /\ NoOne \notin Account /\ SUBMITTER \notin Account \cup {NoOne}
    /\ MAX_INTENTS \in Nat /\ Units \subseteq Nat /\ FeeUnits \subseteq Nat /\ Caps \subseteq Nat
    /\ BPS \in Nat \ {0} /\ residualBandBps \in 0 .. BPS
    /\ PRICE_SCALE \in Nat \ {0} /\ Prices \subseteq Nat
    /\ Hostile \in BOOLEAN /\ MaxNotes \in Nat /\ MaxGift \in Nat
    /\ Residuals \subseteq [assetIn : Asset, assetOut : Asset, amountIn : Nat \ {0},
                            amountOutMin : Nat]

VARIABLES
    book,               \* per asset: the pool's balance, the four ledgers, and lost
    notes,              \* the notes committed, in order: [asset, units]
    spent,              \* nullifierSpent, as the indices of the spent notes
    beta,               \* per asset: caps, gross deposits, refundable, frozen refund terms
    admit,              \* the switches: who may deposit, and whether the beta runs
    listed,             \* the registered assets
    tx, before,         \* the transaction in flight and the state it started from
    refunds,            \* {[asset, depositor, owed, paid]}
    swapped             \* the assets a residual swap took or brought

ledgerVars == <<book, notes, spent>>
history == <<refunds, swapped>>
poolVars == <<ledgerVars, beta, admit, listed, tx, before, history>>

Idle == [kind |-> "idle"]
state == [book |-> book, notes |-> notes, spent |-> spent, beta |-> beta,
          admit |-> admit, listed |-> listed, refunds |-> refunds, swapped |-> swapped]

PoolInit ==
    /\ book = [a \in Asset |-> [balance |-> 0, shielded |-> 0, claimable |-> [p \in Account |-> 0],
                                totalClaimable |-> 0, unswept |-> 0, lost |-> 0]]
    /\ notes = <<>> /\ spent = {}
    /\ beta = [a \in Asset |-> [addrCap |-> 0, totalCap |-> 0,
                                deposited |-> [p \in Account |-> 0], totalDeposited |-> 0,
                                refundable |-> [p \in Account |-> 0], refundableTotal |-> 0,
                                refundAssets |-> 0, refundBase |-> 0]]
    /\ admit = [depositsPaused |-> FALSE, betaMode |-> TRUE, betaPaused |-> FALSE,
                openDeposits |-> FALSE, depositors |-> {}, registrar |-> NoOne, woundDown |-> FALSE]
    /\ listed = {Native}
    /\ tx = Idle /\ before = Idle
    /\ refunds = {} /\ swapped = {}

-----------------------------------------------------------------------------
(* Ledger entries.                                                         *)

covers_always(b, amount) == TRUE
covers(b, amount) == b.shielded >= amount
debited(b, amount) == [b EXCEPT !.shielded = @ - amount]
drawn(b, moved) == [b EXCEPT !.balance = @ - moved]
pushed(b, o) == [b EXCEPT !.balance = @ - o.moved, !.lost = @ + o.lost]

paidIn(b, amount, value) == [b EXCEPT !.balance = @ + amount, !.shielded = @ + value]
swappedIn(b, out, dust) ==
    [b EXCEPT !.balance = @ + out, !.shielded = @ + (out - dust), !.unswept = @ + dust]
claimed(b, p) == [b EXCEPT !.claimable[p] = 0, !.totalClaimable = @ - b.claimable[p]]
swept(b) == [b EXCEPT !.unswept = 0]

credited_totalOnly(b, to, amount) == [b EXCEPT !.totalClaimable = @ + amount]
credited(b, to, amount) ==
    IF amount = 0 THEN b
    ELSE [b EXCEPT !.claimable[to] = @ + amount, !.totalClaimable = @ + amount]

deferred_dropped(b, amount) == b
deferred(b, amount) == [b EXCEPT !.unswept = @ + amount]

\* What a push of amount can do: how much leaves the balance, how much of it the
\* pool takes to be unpaid, and how much of what left it takes to be unpaid because
\* it could not read its balance.  A native push moves all or nothing.  A token is
\* believed when it says it paid, and measured on the pool's own balance when it
\* does not; a balance that cannot be read, before the push or after it, leaves the
\* whole amount owed.  A token never moves more than it was asked to.
unpaidOf_believed(read, moved, amount) == amount
unpaidOf(read, moved, amount) == IF ~read \/ moved <= 0 THEN amount ELSE amount - moved

Believed(moved) == [moved |-> moved, unpaid |-> 0, lost |-> 0]
Measured(read, moved, amount) ==
    [moved |-> moved, unpaid |-> unpaidOf(read, moved, amount), lost |-> IF read THEN 0 ELSE moved]

Push(a, amount) ==
    {Believed(amount), Measured(TRUE, 0, amount)}
    \cup (IF a = Native \/ ~Hostile THEN {}
          ELSE {Believed(m) : m \in 0 .. amount}
               \cup {Measured(TRUE, m, amount) : m \in 0 .. amount}
               \cup {Measured(FALSE, m, amount) : m \in 0 .. amount})

\* What a payout that must not fail moves.
PayOut(a, amount) == IF a = Native \/ ~Hostile THEN {amount} ELSE 0 .. amount

-----------------------------------------------------------------------------
(* absorb.                                                                 *)

gateBeta(s, a, amount) ==
    admit.betaMode =>
        /\ ~admit.betaPaused
        /\ admit.openDeposits \/ s \in admit.depositors
        /\ beta[a].deposited[s] + amount <= beta[a].addrCap
        /\ beta[a].totalDeposited + amount <= beta[a].totalCap

\* A payment owed by the transaction in flight; upTo is all that the transaction
\* has set aside so far, this payment included.
payment(a, to, toPayee, toRouter, setAside) ==
    [asset |-> a, to |-> to, toPayee |-> toPayee, toRouter |-> toRouter,
     upTo |-> [setAside EXCEPT ![a] = @ + toPayee + toRouter]]

Nothing == [a \in Asset |-> 0]

InFlight(kind, sender, todo, pays, setAside, residual, price) ==
    [kind |-> kind, sender |-> sender, todo |-> todo, pays |-> pays, phase |-> "payee",
     setAside |-> setAside, paid |-> Nothing, residual |-> residual, price |-> price]

depositTaken(a, units, feeUnits) == (units - feeUnits) * Scale[a]

absorb(s, a, units, feeUnits) ==
    LET amount == units * Scale[a]
        value == depositTaken(a, units, feeUnits)
        owed == payment(a, NoOne, 0, feeUnits * Scale[a], Nothing)
    IN /\ tx = Idle
       /\ ~admit.depositsPaused /\ ~admit.woundDown
       /\ a \in listed
       /\ gateBeta(s, a, amount)
       /\ feeUnits < units
       /\ Len(notes) < MaxNotes
       /\ book' = [book EXCEPT ![a] = paidIn(@, amount, value)]
       /\ notes' = Append(notes, [asset |-> a, units |-> units - feeUnits])
       /\ beta' = IF admit.betaMode
                  THEN [beta EXCEPT ![a].deposited[s] = @ + amount, ![a].totalDeposited = @ + amount,
                                    ![a].refundable[s] = @ + value, ![a].refundableTotal = @ + value]
                  ELSE beta
       /\ tx' = InFlight("absorb", s, <<>>, <<owed>>, owed.upTo, {}, 0)
       /\ before' = state
       /\ UNCHANGED <<spent, admit, listed, history>>

-----------------------------------------------------------------------------
(* settleBatch.                                                            *)

valueOf(I) == SumFunctionOnSet([i \in DOMAIN notes |-> notes[i].units], I)

\* One or two notes of an asset pay a public amount and a fee, and what is left
\* becomes a new note.
IntentOf(I, pa, fee, to, feeTo, part) ==
    [asset |-> notes[CHOOSE i \in I : TRUE].asset, inputs |-> I, publicAmount |-> pa, fee |-> fee,
     to |-> to, feeTo |-> feeTo, part |-> part, change |-> valueOf(I) - pa - fee]

\* _decodeIntent and AmountPolicy.settlementFee: what the words must satisfy.
wellFormed(it) ==
    /\ it.change \in Nat
    /\ it.asset \in listed
    /\ it.feeTo # NoOne => it.fee > 0
    /\ (it.publicAmount = 0) <=> (it.to = NoOne)
    /\ it.part <= it.fee
    /\ it.feeTo = NoOne => it.part = it.fee

\* What a valid proof may carry, and the pool takes.
Intents(payees, relayers) ==
    {it \in {IntentOf(I, pa, fee, to, feeTo, part) :
                I \in {J \in SUBSET (1 .. Len(notes)) :
                         Cardinality(J) \in 1 .. 2 /\ \A i, j \in J : notes[i].asset = notes[j].asset},
                pa \in Units, fee \in FeeUnits, to \in payees \cup {NoOne},
                feeTo \in relayers \cup {NoOne}, part \in FeeUnits} :
        wellFormed(it)}

unspent_eachAlone(batch) ==
    \A i \in DOMAIN batch : batch[i].inputs \cap spent = {}
unspent(batch) ==
    /\ \A i \in DOMAIN batch : batch[i].inputs \cap spent = {}
    /\ \A i, j \in DOMAIN batch : i # j => batch[i].inputs \cap batch[j].inputs = {}

\* The notes of the intents that leave change, in the order of the batch.
changeOf(it) == [asset |-> it.asset, units |-> it.change]
changeNotes(batch) ==
    LET upTo[n \in 0 .. Len(batch)] ==
            IF n = 0 THEN <<>>
            ELSE IF batch[n].change > 0 THEN Append(upTo[n - 1], changeOf(batch[n]))
            ELSE upTo[n - 1]
    IN upTo[Len(batch)]

settleBatch(s, batch, residual, price) ==
    /\ tx = Idle
    /\ ~admit.woundDown
    /\ Len(batch) \in 1 .. MAX_INTENTS
    /\ \A i \in DOMAIN batch : wellFormed(batch[i])
    /\ unspent(batch)
    /\ Len(notes) + Len(changeNotes(batch)) <= MaxNotes
    /\ spent' = spent \cup UNION {batch[i].inputs : i \in DOMAIN batch}
    /\ notes' = notes \o changeNotes(batch)
    /\ tx' = InFlight("settle", s, batch, <<>>, Nothing, residual, price)
    /\ before' = state
    /\ UNCHANGED <<book, beta, admit, listed, history>>

\* The first loop of _settleIntents, for the next intent.
toRouter_whole(it) == it.fee
toRouter(it) == IF it.feeTo = NoOne THEN it.fee ELSE it.part
leaves(it) == it.publicAmount + it.fee

account ==
    /\ tx.kind = "settle" /\ tx.todo # <<>>
    /\ LET it == Head(tx.todo)
           sc == Scale[it.asset]
           owed == payment(it.asset, it.to, it.publicAmount * sc, toRouter(it) * sc, tx.setAside)
           payee == IF it.feeTo = SUBMITTER THEN tx.sender ELSE it.feeTo
           left == debited(book[it.asset], leaves(it) * sc)
       IN /\ covers(book[it.asset], leaves(it) * sc)
          /\ book' = [book EXCEPT ![it.asset] =
                        IF it.feeTo = NoOne THEN left ELSE credited(left, payee, (it.fee - it.part) * sc)]
          /\ tx' = [tx EXCEPT !.todo = Tail(@), !.pays = Append(@, owed), !.setAside = owed.upTo]
    /\ UNCHANGED <<notes, spent, beta, admit, listed, before, history>>

\* The second loop: the recipient, then the router.  absorb pays only the router.
paying == tx # Idle /\ tx.todo = <<>> /\ tx.pays # <<>>

payOrCredit ==
    /\ paying /\ tx.phase = "payee"
    /\ LET e == Head(tx.pays)
       IN /\ \E o \in Push(e.asset, e.toPayee) :
               /\ o.moved <= book[e.asset].balance
               /\ book' = [book EXCEPT ![e.asset] =
                             credited(pushed(@, o), e.to, o.unpaid)]
          /\ tx' = [tx EXCEPT !.phase = "router", !.paid[e.asset] = @ + e.toPayee]
    /\ UNCHANGED <<notes, spent, beta, admit, listed, before, history>>

payFee ==
    /\ paying /\ tx.phase = "router"
    /\ LET e == Head(tx.pays)
       IN /\ \E o \in Push(e.asset, e.toRouter) :
               /\ o.moved <= book[e.asset].balance
               /\ book' = [book EXCEPT ![e.asset] =
                             deferred(pushed(@, o), o.unpaid)]
          /\ tx' = [tx EXCEPT !.phase = "payee", !.pays = Tail(@), !.paid = e.upTo]
    /\ UNCHANGED <<notes, spent, beta, admit, listed, before, history>>

\* _settleResidual: the swap's input leaves, its output joins, whole units to the
\* shielded total and the rest to the router.  The DEX router takes no more than
\* its allowance and keeps the minimum it was given.
ceilDiv_down(x, y) == x \div y
ceilDiv(x, y) == (x + y - 1) \div y

bandFloor(r, price) ==
    ceilDiv(ceilDiv(r.amountIn * price * Scale[r.assetOut], PRICE_SCALE * Scale[r.assetIn])
              * (BPS - residualBandBps), BPS)

settleResidual ==
    /\ tx.kind = "settle" /\ tx.todo = <<>> /\ tx.pays = <<>>
    /\ \E r \in tx.residual :
         /\ r.assetIn \in listed /\ r.assetOut \in listed /\ r.assetIn # r.assetOut
         /\ r.amountIn % Scale[r.assetIn] = 0
         /\ r.amountOutMin >= bandFloor(r, tx.price) /\ r.amountOutMin > 0
         /\ covers(book[r.assetIn], r.amountIn)
         /\ \E taken \in {0, r.amountIn}, out \in r.amountOutMin .. (r.amountOutMin + 1) :
              /\ taken <= book[r.assetIn].balance
              /\ r.assetIn = Native \/ ~Hostile => taken = r.amountIn
              /\ book' = [book EXCEPT
                   ![r.assetIn] = drawn(debited(@, r.amountIn), taken),
                   ![r.assetOut] = swappedIn(@, out, out % Scale[r.assetOut])]
         /\ swapped' = swapped \cup {r.assetIn, r.assetOut}
    /\ tx' = [tx EXCEPT !.residual = {}]
    /\ UNCHANGED <<notes, spent, beta, admit, listed, before, refunds>>

commit ==
    /\ tx # Idle /\ tx.todo = <<>> /\ tx.pays = <<>> /\ tx.residual = {}
    /\ tx' = Idle /\ before' = Idle
    /\ UNCHANGED <<ledgerVars, beta, admit, listed, history>>

revert ==
    /\ tx # Idle
    /\ book' = before.book /\ notes' = before.notes /\ spent' = before.spent
    /\ beta' = before.beta /\ admit' = before.admit /\ listed' = before.listed
    /\ refunds' = before.refunds /\ swapped' = before.swapped
    /\ tx' = Idle /\ before' = Idle

-----------------------------------------------------------------------------
(* claim, sweepFees, betaRefund: one payout that reverts the call if it     *)
(* fails, after every write.                                               *)

claim(s, a) ==
    /\ tx = Idle
    /\ book[a].claimable[s] # 0
    /\ \E moved \in PayOut(a, book[a].claimable[s]) :
         /\ moved <= book[a].balance
         /\ book' = [book EXCEPT ![a] = drawn(claimed(@, s), moved)]
    /\ UNCHANGED <<notes, spent, beta, admit, listed, tx, before, history>>

sweepFees(a) ==
    /\ tx = Idle
    /\ book[a].unswept # 0
    /\ \E moved \in PayOut(a, book[a].unswept) :
         /\ moved <= book[a].balance
         /\ book' = [book EXCEPT ![a] = drawn(swept(@), moved)]
    /\ UNCHANGED <<notes, spent, beta, admit, listed, tx, before, history>>

\* The terms of an asset's refunds, frozen by the first one.
terms_remaining(a) ==
    [assets |-> IF beta[a].refundBase = 0 THEN book[a].shielded ELSE beta[a].refundAssets,
     base |-> SumFunction(beta[a].refundable)]
terms(a) ==
    IF beta[a].refundBase = 0
    THEN [assets |-> book[a].shielded, base |-> beta[a].refundableTotal]
    ELSE [assets |-> beta[a].refundAssets, base |-> beta[a].refundBase]

refundOf_uncapped(a, owed) == (owed * terms(a).assets) \div terms(a).base
refundOf(a, owed) ==
    LET share == (owed * terms(a).assets) \div terms(a).base
    IN IF share > owed THEN owed ELSE share

betaRefund(s, a, d) ==
    LET owed == beta[a].refundable[d]
        amount == refundOf(a, owed)
    IN /\ tx = Idle
       /\ admit.betaMode
       /\ s \in {d, Owner}
       /\ owed # 0
       /\ covers(book[a], amount)
       /\ \E moved \in PayOut(a, amount) :
            /\ moved <= book[a].balance
            /\ book' = [book EXCEPT ![a] = drawn(debited(@, amount), moved)]
       /\ beta' = [beta EXCEPT ![a].refundable[d] = 0,
                               ![a].refundAssets = terms(a).assets,
                               ![a].refundBase = terms(a).base]
       /\ admit' = [admit EXCEPT !.woundDown = TRUE]
       /\ refunds' = refunds \cup {[asset |-> a, depositor |-> d, owed |-> owed, paid |-> amount]}
       /\ UNCHANGED <<notes, spent, listed, tx, before, swapped>>

-----------------------------------------------------------------------------
(* The owner's switches.  None is nonReentrant, so a callee that is the owner *)
(* may turn them while a transaction is in flight.                         *)

switch == UNCHANGED <<ledgerVars, tx, before, history>>

registerAsset(a) ==
    /\ a \notin listed
    /\ listed' = listed \cup {a}
    /\ switch /\ UNCHANGED <<beta, admit>>

setDepositsPaused(on) ==
    /\ admit' = [admit EXCEPT !.depositsPaused = on]
    /\ switch /\ UNCHANGED <<beta, listed>>

setBetaDepositor(s, d, allowed) ==
    /\ s \in {Owner, admit.registrar}
    /\ admit' = [admit EXCEPT !.depositors = IF allowed THEN @ \cup {d} ELSE @ \ {d}]
    /\ switch /\ UNCHANGED <<beta, listed>>

setBetaCaps(a, addrCap, totalCap) ==
    /\ a \in listed
    /\ beta' = [beta EXCEPT ![a].addrCap = addrCap, ![a].totalCap = totalCap]
    /\ switch /\ UNCHANGED <<admit, listed>>

setBetaPaused(on) ==
    /\ ~on => ~admit.woundDown
    /\ admit' = [admit EXCEPT !.betaPaused = on]
    /\ switch /\ UNCHANGED <<beta, listed>>

setOpenDeposits(on) ==
    /\ admit' = [admit EXCEPT !.openDeposits = on]
    /\ switch /\ UNCHANGED <<beta, listed>>

setDepositorRegistrar(r) ==
    /\ admit' = [admit EXCEPT !.registrar = r]
    /\ switch /\ UNCHANGED <<beta, listed>>

mayEndBeta_always == admit.betaMode
mayEndBeta == admit.betaMode /\ ~admit.woundDown

endBetaMode ==
    /\ mayEndBeta
    /\ admit' = [admit EXCEPT !.betaMode = FALSE, !.betaPaused = FALSE]
    /\ switch /\ UNCHANGED <<beta, listed>>

\* Anyone may send the pool ether or tokens; nothing owes them to anyone.
receive(a) ==
    /\ book[a].balance < MaxGift
    /\ book' = [book EXCEPT ![a].balance = @ + 1]
    /\ UNCHANGED <<notes, spent, beta, admit, listed, tx, before, history>>

-----------------------------------------------------------------------------
Deposit == \E s \in Account, a \in Asset, u \in Units, f \in FeeUnits : absorb(s, a, u, f)

Settle ==
    tx = Idle /\ \E s \in Account, n \in 1 .. MAX_INTENTS :
    \E batch \in [1 .. n -> Intents(Account, Account \cup {SUBMITTER})] :
    \E r \in {{}} \cup {{x} : x \in Residuals}, price \in Prices :
        settleBatch(s, batch, r, price)

InFlightStep == account \/ payOrCredit \/ payFee \/ settleResidual \/ commit \/ revert

Withdraw ==
    \/ \E s \in Account, a \in Asset : claim(s, a)
    \/ \E a \in Asset : sweepFees(a)
    \/ \E s, d \in Account, a \in Asset : betaRefund(s, a, d)

Switch ==
    \/ \E a \in Asset : registerAsset(a) \/ receive(a)
    \/ \E on \in BOOLEAN : setDepositsPaused(on) \/ setBetaPaused(on) \/ setOpenDeposits(on)
    \/ \E s, d \in Account, on \in BOOLEAN : setBetaDepositor(s, d, on)
    \/ \E a \in Asset, c, t \in Caps : setBetaCaps(a, c, t)
    \/ \E r \in Account \cup {NoOne} : setDepositorRegistrar(r)
    \/ endBetaMode

PoolNext == Deposit \/ Settle \/ InFlightStep \/ Withdraw \/ Switch

PoolSpec == PoolInit /\ [][PoolNext]_poolVars

-----------------------------------------------------------------------------
(* Properties.                                                             *)

PoolTypeOK ==
    /\ book \in [Asset -> [balance : Nat, shielded : Nat, claimable : [Account -> Nat],
                           totalClaimable : Nat, unswept : Nat, lost : Nat]]
    /\ notes \in Seq([asset : Asset, units : Nat]) /\ spent \subseteq DOMAIN notes
    /\ beta \in [Asset -> [addrCap : Nat, totalCap : Nat, deposited : [Account -> Nat],
                           totalDeposited : Nat, refundable : [Account -> Nat],
                           refundableTotal : Nat, refundAssets : Nat, refundBase : Nat]]
    /\ admit \in [depositsPaused : BOOLEAN, betaMode : BOOLEAN, betaPaused : BOOLEAN,
                  openDeposits : BOOLEAN, depositors : SUBSET Account,
                  registrar : Account \cup {NoOne}, woundDown : BOOLEAN]
    /\ listed \in SUBSET Asset

\* What the pool owes of an asset, on its books and in the calls still to make.
onBooks(a) == book[a].shielded + book[a].totalClaimable + book[a].unswept
inCalls(a) == IF tx = Idle THEN 0 ELSE tx.setAside[a] - tx.paid[a]

\* The pool can always pay: also in the middle of a settlement, when a callee
\* looks at it, and whatever part of a push a token moves and whatever it answers,
\* the balance covers the books and every payout still to be made, but for what
\* left in pushes whose balance could not be read.  "The cost falls on the token's
\* own escrow" (HostileTokenReturns.t.sol:256): no other asset is short by it, and
\* the native coin never is.
Solvent ==
    /\ \A a \in Asset : book[a].balance + book[a].lost >= onBooks(a) + inCalls(a)
    /\ book[Native].lost = 0

\* With tokens that pay what they say, nothing is lost either: every unit taken
\* from the shielded total is paid, credited or held for the router.
NothingStranded == tx = Idle => \A a \in Asset : book[a].balance = onBooks(a)

\* Before refunds, the shielded total of an asset no swap has touched is the value
\* of its unspent notes, so every note can be withdrawn: deposits mint what they
\* took, a note is spent once, also within a batch, and what leaves is what the
\* intents paid.  A swap moves value between the totals of two assets, whose notes
\* do not move.
NotesAreBacked ==
    tx = Idle /\ ~admit.woundDown =>
        \A a \in Asset \ swapped :
            book[a].shielded = Scale[a] * valueOf({i \in DOMAIN notes \ spent : notes[i].asset = a})

\* "Sum of claimable per asset, so solvency is one read" (ShieldedPool.sol:116);
\* a claim can never underflow it.
TotalsAddUp == \A a \in Asset : book[a].totalClaimable = SumFunction(book[a].claimable)

\* Once the pool is wound down every depositor can still be refunded, whoever
\* was refunded before and in which asset.
RefundsArePayable ==
    admit.woundDown =>
        \A a \in Asset :
            SumFunction([d \in Account |-> IF beta[a].refundable[d] = 0 THEN 0
                                           ELSE refundOf(a, beta[a].refundable[d])])
              <= book[a].shielded

\* A refund is the same for equal deposits, first or last, and never a profit.
RefundsAreFair ==
    \A r1, r2 \in refunds :
        /\ r1.paid <= r1.owed
        /\ r1.asset = r2.asset /\ r1.owed = r2.owed => r1.paid = r2.paid

\* A wound-down pool takes no deposit, settles nothing, not even what was in
\* flight, and never closes its refunds.
WoundDownIsFinal ==
    [][admit.woundDown =>
         /\ admit'.woundDown /\ admit'.betaMode /\ tx' = Idle
         /\ \A a \in Asset : book'[a].shielded <= book[a].shielded]_poolVars

\* The swap brings in at least the proven price less the band, rounded nowhere
\* in the submitter's favour.
ResidualKeepsBand ==
    [][\A r \in Residuals :
         tx # Idle /\ tx' # Idle /\ r \in tx.residual \ tx'.residual =>
            LET b == book[r.assetOut]  c == book'[r.assetOut]
            IN (c.shielded + c.unswept - b.shielded - b.unswept) * PRICE_SCALE * Scale[r.assetIn] * BPS
                 >= r.amountIn * tx.price * Scale[r.assetOut] * (BPS - residualBandBps)]_poolVars

\* What the pool promises of each asset as a whole, transaction by transaction: a
\* token's escrow is short only by what its own unreadable pushes cost.
committed == IF tx = Idle THEN book ELSE before.book
Promise == INSTANCE Custody WITH
    Sure <- {Native},
    held <- [a \in Asset |-> committed[a].balance],
    owed <- [a \in Asset |-> committed[a].shielded + committed[a].totalClaimable
                               + committed[a].unswept],
    lost <- [a \in Asset |-> committed[a].lost]
PoolKeepsCustody == Promise!CustodySpec
=============================================================================
