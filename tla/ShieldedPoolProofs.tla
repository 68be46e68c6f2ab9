------------------------- MODULE ShieldedPoolProofs -------------------------
(***************************************************************************)
(* Proofs about the pool's ledger, for every set of assets, scales, accounts *)
(* and amounts, any length of batch, and whatever part of a push tokens move *)
(* and whatever they answer: it is solvent but for what it cannot see leave, *)
(* a custodian as Custody says, and its sums add up:                        *)
(* what the accounts may claim, what the notes spend and leave, what a       *)
(* payout has moved, what a closed asset owes its depositors.               *)
(***************************************************************************)
EXTENDS ShieldedPool, Recursion

(* Arithmetic.                                                             *)

LEMMA ProductNat ==
    ASSUME NEW m \in Nat, NEW n \in Nat
    PROVE  m * n \in Nat
  OBVIOUS

LEMMA Distribute ==
    ASSUME NEW m \in Int, NEW n \in Int, NEW k \in Int
    PROVE  (m + n) * k = m * k + n * k /\ (m - n) * k = m * k - n * k
  OBVIOUS

LEMMA Monotone ==
    ASSUME NEW m \in Nat, NEW n \in Nat, NEW k \in Nat, m >= n
    PROVE  m * k >= n * k
  OBVIOUS

LEMMA QuotientNat ==
    ASSUME NEW m \in Nat, NEW n \in Nat \ {0}
    PROVE  m \div n \in Nat /\ m % n \in 0 .. m
  OBVIOUS
-----------------------------------------------------------------------------
(* The inductive invariant.                                                *)

\* totalClaimable is an integer here: that it is the sum of the credits is
\* TotalsAddUp, and solvency does not need it.
Entry == [balance : Nat, shielded : Nat, claimable : [Account -> Nat],
          totalClaimable : Int, unswept : Nat, lost : Nat]

\* What an entry owes, less what was lost sight of.
onEntry(b) == (b.shielded + b.totalClaimable + b.unswept) - b.lost

BetaEntry == [addrCap : Nat, totalCap : Nat, deposited : [Account -> Nat],
              totalDeposited : Nat, refundable : [Account -> Nat],
              refundableTotal : Nat, refundAssets : Nat, refundBase : Nat]

\* What a batch may carry: the relayer's part of the fee is no more than the fee.
Intent == {it \in [asset : Asset, inputs : SUBSET Int, publicAmount : Nat, fee : Nat,
                   to : Account \cup {NoOne}, feeTo : Account \cup {NoOne, SUBMITTER},
                   part : Nat, change : Nat] :
              it.part <= it.fee /\ (it.feeTo = NoOne => it.part = it.fee)}

Payment == [asset : Asset, to : Account \cup {NoOne}, toPayee : Nat, toRouter : Nat,
            upTo : [Asset -> Nat]]

\* A batch swaps at most one residual.
Swap == {{}} \cup {{x} : x \in Residuals}

Transaction == [kind : {"absorb", "settle"}, sender : Account, todo : Seq(Intent),
                pays : Seq(Payment), phase : {"payee", "router"}, setAside : [Asset -> Nat],
                paid : [Asset -> Nat], residual : Swap, price : Nat]

\* Books, refundables and assets that a transaction may start from.  No
\* depositor is owed more than all of them together.
Sound(bk, bt, ls) ==
    /\ bk \in [Asset -> Entry]
    /\ bt \in [Asset -> BetaEntry]
    /\ \A a \in Asset, d \in Account : bt[a].refundable[d] <= bt[a].refundableTotal
    /\ ls \subseteq Asset

\* What is paid once e is, when m was paid before it.
after(m, e) == [m EXCEPT ![e.asset] = @ + e.toPayee + e.toRouter]

\* The payments still to make lead from what is paid to all that was set aside:
\* each one's upTo continues the one before it.
Chain ==
    LET n == Len(tx.pays)
    IN /\ n = 0 => tx.paid = tx.setAside /\ tx.phase = "payee"
       /\ n # 0 => tx.pays[n].upTo = tx.setAside
       /\ n # 0 => tx.pays[1].upTo =
                     IF tx.phase = "payee" THEN after(tx.paid, tx.pays[1])
                     ELSE [tx.paid EXCEPT ![tx.pays[1].asset] = @ + tx.pays[1].toRouter]
       /\ \A i \in 1 .. n - 1 : tx.pays[i + 1].upTo = after(tx.pays[i].upTo, tx.pays[i + 1])

\* The transaction in flight may give everything back.
CanRevert ==
    /\ Sound(before.book, before.beta, before.listed)
    /\ \A a \in Asset : before.book[a].balance >= onEntry(before.book[a])

\* What a transaction in flight may not touch: what was to spare when it began.
slack(a) == IF tx = Idle THEN 0 ELSE before.book[a].balance - onEntry(before.book[a])
due(a) == inCalls(a) + slack(a)
Covered == \A a \in Asset : book[a].balance >= onEntry(book[a]) + due(a)

PoolInv ==
    /\ Sound(book, beta, listed)
    /\ tx = Idle \/ (tx \in Transaction /\ Chain /\ CanRevert)
    /\ Covered

-----------------------------------------------------------------------------
(* Single entries.                                                         *)

LEMMA PushSplits ==
    ASSUME NEW a \in Asset, NEW amount \in Nat, NEW o \in Push(a, amount)
    PROVE  /\ o.moved \in Nat /\ o.unpaid \in Nat
           /\ o.lost \in Nat /\ o.moved + o.unpaid <= amount + o.lost
           /\ a = Native \/ ~Hostile => o.lost = 0
  <1>1. ASSUME NEW m \in 0 .. amount, o = Believed(m)
        PROVE  o.moved = m /\ o.unpaid = 0 /\ o.lost = 0
    BY <1>1 DEF Believed
  <1>2. ASSUME NEW m \in 0 .. amount, o = Measured(TRUE, m, amount)
        PROVE  o.moved = m /\ o.unpaid \in Nat /\ o.moved + o.unpaid <= amount /\ o.lost = 0
    BY <1>2 DEF Measured, unpaidOf
  <1>3. ASSUME NEW m \in 0 .. amount, o = Measured(FALSE, m, amount)
        PROVE  o.moved = m /\ o.unpaid = amount /\ o.lost = m
    BY <1>3 DEF Measured, unpaidOf
  <1>4. \/ \E m \in 0 .. amount : o = Believed(m)
        \/ \E m \in 0 .. amount : o = Measured(TRUE, m, amount)
        \/ a # Native /\ Hostile /\ \E m \in 0 .. amount : o = Measured(FALSE, m, amount)
    <2>1. 0 \in 0 .. amount /\ amount \in 0 .. amount
      OBVIOUS
    <2> QED
      BY <2>1, Zenon DEF Push
  <1>5. CASE \E m \in 0 .. amount : o = Believed(m)
    <2>1. PICK m \in 0 .. amount : o = Believed(m)
      BY <1>5
    <2>2. o.moved = m /\ o.unpaid = 0 /\ o.lost = 0
      BY <1>1, <2>1, Zenon
    <2> QED
      BY <2>2
  <1>6. CASE \E m \in 0 .. amount : o = Measured(TRUE, m, amount)
    <2>1. PICK m \in 0 .. amount : o = Measured(TRUE, m, amount)
      BY <1>6
    <2>2. o.moved = m /\ o.unpaid \in Nat /\ o.moved + o.unpaid <= amount /\ o.lost = 0
      BY <1>2, <2>1, Zenon
    <2> QED
      BY <2>2
  <1>7. CASE a # Native /\ Hostile /\ \E m \in 0 .. amount : o = Measured(FALSE, m, amount)
    <2>1. PICK m \in 0 .. amount : o = Measured(FALSE, m, amount)
      BY <1>7
    <2>2. o.moved = m /\ o.unpaid = amount /\ o.lost = m
      BY <1>3, <2>1, Zenon
    <2>3. /\ o.moved \in Nat /\ o.unpaid \in Nat
          /\ o.lost \in Nat /\ o.moved + o.unpaid <= amount + o.lost
      BY <2>2
    <2> QED
      BY <1>7, <2>3, Zenon
  <1> QED
    BY <1>4, <1>5, <1>6, <1>7

\* A push of nothing leaves nothing unpaid.
LEMMA PushOfNothing ==
    ASSUME NEW a \in Asset, NEW o \in Push(a, 0)
    PROVE  o.unpaid = 0
  <1>1. \A m \in 0 .. 0 : m = 0
    OBVIOUS
  <1>2. o = Believed(0) \/ o = Measured(TRUE, 0, 0) \/ o = Measured(FALSE, 0, 0)
    BY <1>1, Zenon DEF Push
  <1> QED
    BY <1>2 DEF Believed, Measured, unpaidOf

LEMMA PayOutBounded ==
    ASSUME NEW a \in Asset, NEW amount \in Nat, NEW moved \in PayOut(a, amount)
    PROVE  moved \in 0 .. amount
  BY DEF PayOut

LEMMA CreditedEntry ==
    ASSUME NEW b \in Entry, NEW to, NEW amount \in Nat
    PROVE  /\ credited(b, to, amount) \in Entry
           /\ credited(b, to, amount).balance = b.balance /\ credited(b, to, amount).lost = b.lost
           /\ onEntry(credited(b, to, amount)) = onEntry(b) + amount
  <1> DEFINE more == [b.claimable EXCEPT ![to] = @ + amount]
  <1>1. more \in [Account -> Nat]
    <2>1. b.claimable \in [Account -> Nat]
      BY DEF Entry
    <2>2. \A p \in Account : p = to => b.claimable[to] + amount \in Nat
      BY <2>1
    <2> QED
      BY <2>1, <2>2
  <1>2. CASE amount = 0
    BY <1>2 DEF Entry, credited, onEntry
  <1>3. CASE amount # 0
    <2>1. credited(b, to, amount) =
            [balance |-> b.balance, shielded |-> b.shielded, claimable |-> more,
             totalClaimable |-> b.totalClaimable + amount, unswept |-> b.unswept,
             lost |-> b.lost]
      BY <1>3 DEF Entry, credited
    <2> HIDE DEF more
    <2> QED
      BY <1>1, <2>1 DEF Entry, onEntry
  <1> QED
    BY <1>2, <1>3

LEMMA DeferredEntry ==
    ASSUME NEW b \in Entry, NEW amount \in Nat
    PROVE  /\ deferred(b, amount) \in Entry
           /\ deferred(b, amount).balance = b.balance /\ deferred(b, amount).lost = b.lost
           /\ onEntry(deferred(b, amount)) = onEntry(b) + amount
  BY DEF Entry, deferred, onEntry

LEMMA DebitedEntry ==
    ASSUME NEW b \in Entry, NEW amount \in Nat, covers(b, amount)
    PROVE  /\ debited(b, amount) \in Entry
           /\ debited(b, amount).balance = b.balance /\ debited(b, amount).lost = b.lost
           /\ onEntry(debited(b, amount)) = onEntry(b) - amount
  BY DEF Entry, debited, covers, onEntry

LEMMA DrawnEntry ==
    ASSUME NEW b \in Entry, NEW moved \in Nat, moved <= b.balance
    PROVE  /\ drawn(b, moved) \in Entry
           /\ drawn(b, moved).balance = b.balance - moved /\ drawn(b, moved).lost = b.lost
           /\ onEntry(drawn(b, moved)) = onEntry(b)
  BY DEF Entry, drawn, onEntry

LEMMA PushedEntry ==
    ASSUME NEW b \in Entry, NEW o, o.moved \in Nat, o.lost \in Nat, o.moved <= b.balance
    PROVE  /\ pushed(b, o) \in Entry
           /\ pushed(b, o).balance = b.balance - o.moved
           /\ pushed(b, o).lost = b.lost + o.lost
           /\ onEntry(pushed(b, o)) = onEntry(b) - o.lost
           /\ pushed(b, o).shielded = b.shielded
           /\ pushed(b, o).claimable = b.claimable
           /\ pushed(b, o).totalClaimable = b.totalClaimable
  <1> DEFINE c == pushed(b, o)
  <1>1. c = [b EXCEPT !.balance = @ - o.moved, !.lost = @ + o.lost]
    BY DEF pushed
  <1> HIDE DEF c
  <1>2. c = [balance |-> b.balance - o.moved, shielded |-> b.shielded,
             claimable |-> b.claimable, totalClaimable |-> b.totalClaimable,
             unswept |-> b.unswept, lost |-> b.lost + o.lost]
    BY <1>1 DEF Entry
  <1>3. /\ c \in Entry /\ onEntry(c) = onEntry(b) - o.lost
        /\ c.balance = b.balance - o.moved /\ c.lost = b.lost + o.lost /\ c.shielded = b.shielded
        /\ c.claimable = b.claimable /\ c.totalClaimable = b.totalClaimable
    <2>1. /\ b.balance \in Nat /\ b.shielded \in Nat /\ b.claimable \in [Account -> Nat]
          /\ b.totalClaimable \in Int /\ b.unswept \in Nat /\ b.lost \in Nat
      BY DEF Entry
    <2> QED
      BY <1>2, <2>1 DEF Entry, onEntry
  <1> QED
    BY <1>3 DEF c

\* What absorb does to the beta's counters.
betaPaidIn(e, p, amount, value) ==
    [e EXCEPT !.deposited[p] = @ + amount, !.totalDeposited = @ + amount,
              !.refundable[p] = @ + value, !.refundableTotal = @ + value]

LEMMA PaidInEntry ==
    ASSUME NEW b \in Entry, NEW amount \in Nat, NEW value \in Nat
    PROVE  /\ paidIn(b, amount, value) \in Entry
           /\ paidIn(b, amount, value).balance = b.balance + amount
           /\ paidIn(b, amount, value).lost = b.lost
           /\ onEntry(paidIn(b, amount, value)) = onEntry(b) + value
  <1> DEFINE c == paidIn(b, amount, value)
  <1>0. c = [b EXCEPT !.balance = @ + amount, !.shielded = @ + value]
    BY DEF paidIn
  <1> HIDE DEF c
  <1>1. c = [balance |-> b.balance + amount, shielded |-> b.shielded + value,
             claimable |-> b.claimable, totalClaimable |-> b.totalClaimable,
             unswept |-> b.unswept, lost |-> b.lost]
    BY <1>0 DEF Entry
  <1>2. /\ b.balance \in Nat /\ b.shielded \in Nat /\ b.claimable \in [Account -> Nat]
        /\ b.totalClaimable \in Int /\ b.unswept \in Nat /\ b.lost \in Nat
    BY DEF Entry
  <1>3. /\ c \in Entry /\ c.balance = b.balance + amount /\ onEntry(c) = onEntry(b) + value
        /\ c.lost = b.lost
    BY <1>1, <1>2 DEF Entry, onEntry
  <1> QED
    BY <1>3 DEF c

LEMMA RaisedAt ==
    ASSUME NEW f \in [Account -> Nat], NEW p \in Account, NEW amount \in Nat
    PROVE  /\ [f EXCEPT ![p] = @ + amount] \in [Account -> Nat]
           /\ \A q \in Account : [f EXCEPT ![p] = @ + amount][q] <= f[q] + amount
  OBVIOUS

LEMMA BetaPaidInEntry ==
    ASSUME NEW e \in BetaEntry, NEW p \in Account, NEW amount \in Nat, NEW value \in Nat,
           \A d \in Account : e.refundable[d] <= e.refundableTotal
    PROVE  /\ betaPaidIn(e, p, amount, value) \in BetaEntry
           /\ \A d \in Account : betaPaidIn(e, p, amount, value).refundable[d]
                                   <= betaPaidIn(e, p, amount, value).refundableTotal
  <1> DEFINE e2 == betaPaidIn(e, p, amount, value)
             dep == [e.deposited EXCEPT ![p] = @ + amount]
             ref == [e.refundable EXCEPT ![p] = @ + value]
  <1>0. e2 = [e EXCEPT !.deposited = dep, !.totalDeposited = @ + amount,
                       !.refundable = ref, !.refundableTotal = @ + value]
    BY DEF BetaEntry, betaPaidIn
  <1> HIDE DEF e2, dep, ref
  <1>1. e2 = [addrCap |-> e.addrCap, totalCap |-> e.totalCap, deposited |-> dep,
              totalDeposited |-> e.totalDeposited + amount, refundable |-> ref,
              refundableTotal |-> e.refundableTotal + value,
              refundAssets |-> e.refundAssets, refundBase |-> e.refundBase]
    BY <1>0 DEF BetaEntry
  <1>2. /\ e.addrCap \in Nat /\ e.totalCap \in Nat /\ e.deposited \in [Account -> Nat]
        /\ e.totalDeposited \in Nat /\ e.refundable \in [Account -> Nat]
        /\ e.refundableTotal \in Nat /\ e.refundAssets \in Nat /\ e.refundBase \in Nat
    BY DEF BetaEntry
  <1>3. /\ dep \in [Account -> Nat] /\ ref \in [Account -> Nat]
        /\ \A d \in Account : ref[d] <= e.refundable[d] + value
    BY <1>2, RaisedAt DEF dep, ref
  <1>4. e2 \in BetaEntry
    BY <1>1, <1>2, <1>3 DEF BetaEntry
  <1>5. e2.refundable = ref /\ e2.refundableTotal = e.refundableTotal + value
    BY <1>1, Zenon
  <1>6. ASSUME NEW d \in Account
        PROVE  ref[d] <= e.refundableTotal + value
    <2>1. e.refundable[d] \in Nat /\ ref[d] \in Nat /\ e.refundable[d] <= e.refundableTotal
      BY <1>2, <1>3
    <2> QED
      BY <1>2, <1>3, <2>1
  <1> QED
    BY <1>4, <1>5, <1>6 DEF e2

\* A change of one asset's entry keeps the pool covered when the asset's balance still
\* covers its entry and what is due, and what is due of the others is what it was, or
\* just what there is.
LEMMA OneEntry ==
    ASSUME NEW a \in Asset, NEW b \in Entry, book \in [Asset -> Entry],
           book' = [book EXCEPT ![a] = b],
           \A x \in Asset : x # a => \/ due(x)' = due(x)
                                    \/ book[x].balance = onEntry(book[x]) + due(x)',
           Covered, b.balance >= onEntry(b) + due(a)', \A x \in Asset : due(x)' \in Int
    PROVE  book' \in [Asset -> Entry] /\ Covered'
  <1>1. book' \in [Asset -> Entry]
    OBVIOUS
  <1>2. ASSUME NEW x \in Asset
        PROVE  book'[x].balance >= onEntry(book'[x]) + due(x)'
    <2>1. CASE x = a
      BY <1>1, <2>1
    <2>2. CASE x # a
      <3>1. /\ book'[x] = book[x] /\ onEntry(book'[x]) = onEntry(book[x])
            /\ book[x].balance \in Int /\ onEntry(book[x]) \in Int /\ due(x)' \in Int
        BY <2>2 DEF onEntry, Entry
      <3> QED
        BY <2>2, <3>1 DEF Covered
    <2> QED
      BY <2>1, <2>2
  <1> QED
    BY <1>1, <1>2 DEF Covered

-----------------------------------------------------------------------------
(* Transactions begin.                                                     *)

LEMMA PoolInitInv == PoolInit => PoolInv
  <1> SUFFICES ASSUME PoolInit
               PROVE  PoolInv
    OBVIOUS
  <1>1. book \in [Asset -> Entry]
    BY DEF PoolInit, Entry
  <1>2. beta \in [Asset -> BetaEntry]
    BY DEF PoolInit, BetaEntry
  <1>3. \A a \in Asset, d \in Account : beta[a].refundable[d] <= beta[a].refundableTotal
    BY DEF PoolInit
  <1>4. listed \subseteq Asset
    BY PoolAssumption DEF PoolInit
  <1>5. Covered
    BY DEF PoolInit, Covered, onEntry, due, inCalls, slack
  <1> QED
    BY <1>1, <1>2, <1>3, <1>4, <1>5 DEF PoolInit, PoolInv, Sound

\* Between transactions nothing is in calls, so a transaction can give back what
\* it starts from.
LEMMA IdleCanRevert ==
    ASSUME PoolInv, tx = Idle, before' = state
    PROVE  CanRevert'
  <1>1. before'.book = book /\ before'.beta = beta /\ before'.listed = listed
    BY DEF state
  <1>2. \A a \in Asset : book[a].balance >= onEntry(book[a])
    BY DEF PoolInv, Sound, Entry, Covered, due, inCalls, slack, onEntry
  <1> QED
    BY <1>1, <1>2 DEF CanRevert, PoolInv, Sound, onEntry

LEMMA SlackBegins ==
    ASSUME tx' # Idle, before' = state, NEW x \in Asset
    PROVE  slack(x)' = book[x].balance - onEntry(book[x])
  BY DEF slack, state, onEntry

LEMMA InFlightFields ==
    ASSUME NEW kind, NEW sender, NEW todo, NEW pays, NEW setAside, NEW residual, NEW price,
           tx' = InFlight(kind, sender, todo, pays, setAside, residual, price), kind # "idle"
    PROVE  /\ tx'.todo = todo /\ tx'.pays = pays /\ tx'.setAside = setAside
           /\ tx'.phase = "payee" /\ tx'.paid = Nothing /\ tx' # Idle
  BY DEF InFlight, Idle

LEMMA AbsorbKeepsInv ==
    ASSUME PoolInv, NEW s \in Account, NEW a \in Asset, NEW units \in Nat, NEW feeUnits \in Nat,
           absorb(s, a, units, feeUnits)
    PROVE  PoolInv'
  <1> DEFINE amount == units * Scale[a]
             value == depositTaken(a, units, feeUnits)
             fee == feeUnits * Scale[a]
             owed == payment(a, NoOne, 0, fee, Nothing)
             b == paidIn(book[a], amount, value)
  <1>1. Scale[a] \in Nat /\ units - feeUnits \in Nat
    BY PoolAssumption, SMTT(60) DEF absorb
  <1>2. amount \in Nat /\ fee \in Nat /\ value \in Nat
    BY <1>1, ProductNat DEF depositTaken
  <1>3. amount = value + fee
    BY <1>1, Distribute DEF depositTaken
  <1> HIDE DEF amount, value, fee
  <1>4. /\ owed = [asset |-> a, to |-> NoOne, toPayee |-> 0, toRouter |-> fee,
                   upTo |-> [Nothing EXCEPT ![a] = @ + 0 + fee]]
        /\ Nothing \in [Asset -> Nat] /\ owed.upTo \in [Asset -> Nat]
    BY <1>2 DEF payment, Nothing
  <1>5. owed \in Payment
    BY <1>2, <1>4 DEF Payment
  <1>6. tx' = InFlight("absorb", s, <<>>, <<owed>>, owed.upTo, {}, 0)
    BY DEF absorb, amount, value, fee
  <1> HIDE DEF owed
  <1>7. tx' \in Transaction
    BY <1>4, <1>5, <1>6 DEF InFlight, Transaction, Swap
  <1>8. /\ tx'.pays = <<owed>> /\ tx'.setAside = owed.upTo /\ tx'.phase = "payee"
        /\ tx'.paid = Nothing /\ tx' # Idle
    BY <1>6, InFlightFields
  <1>9. Chain'
    BY <1>4, <1>8 DEF Chain, after, Nothing
  <1>10. b \in Entry /\ b.balance = book[a].balance + amount /\ onEntry(b) = onEntry(book[a]) + value
    <2>1. book[a] \in Entry
      BY DEF PoolInv, Sound
    <2> QED
      BY <1>2, <2>1, PaidInEntry
  <1>11. book' = [book EXCEPT ![a] = b]
    BY DEF absorb, amount, value, paidIn, PoolInv, Sound
  <1>12. \A x \in Asset : due(x)' = (IF x = a THEN fee ELSE 0) + (book[x].balance - onEntry(book[x]))
    <2>1. \A x \in Asset : inCalls(x)' = IF x = a THEN fee ELSE 0
      BY <1>2, <1>4, <1>8 DEF inCalls, Nothing
    <2>2. \A x \in Asset : slack(x)' = book[x].balance - onEntry(book[x])
      BY <1>8, SlackBegins DEF absorb
    <2> QED
      BY <2>1, <2>2 DEF due
  <1>13. Covered' /\ book' \in [Asset -> Entry]
    <2>t. \A x \in Asset : book[x].balance \in Nat /\ onEntry(book[x]) \in Int
      BY DEF PoolInv, Sound, Entry, onEntry
    <2>1. b.balance >= onEntry(b) + due(a)'
      BY <1>2, <1>3, <1>10, <1>12, <2>t
    <2>2. \A x \in Asset : /\ due(x)' \in Int
                           /\ x # a => book[x].balance = onEntry(book[x]) + due(x)'
      BY <1>2, <1>12, <2>t
    <2> HIDE DEF b
    <2> QED
      BY <1>10, <1>11, <2>1, <2>2, OneEntry DEF PoolInv, Sound
  <1>14. /\ beta' \in [Asset -> BetaEntry]
         /\ \A x \in Asset, d \in Account : beta'[x].refundable[d] <= beta'[x].refundableTotal
    <2>1. CASE admit.betaMode
      <3> DEFINE e == betaPaidIn(beta[a], s, amount, value)
      <3>1. beta' = [beta EXCEPT ![a] = e]
        <4>1. beta' = [beta EXCEPT
                         ![a].deposited[s] = @ + amount, ![a].totalDeposited = @ + amount,
                         ![a].refundable[s] = @ + value, ![a].refundableTotal = @ + value]
          BY <2>1 DEF absorb, amount, value
        <4>2. beta \in [Asset -> BetaEntry]
          BY DEF PoolInv, Sound
        <4> QED
          BY <4>1, <4>2, ZenonT(40) DEF betaPaidIn
      <3>2. beta[a] \in BetaEntry /\ \A d \in Account : beta[a].refundable[d] <= beta[a].refundableTotal
        BY DEF PoolInv, Sound
      <3>3. e \in BetaEntry /\ \A d \in Account : e.refundable[d] <= e.refundableTotal
        BY <1>2, <3>2, BetaPaidInEntry
      <3> HIDE DEF e
      <3> QED
        BY <3>1, <3>3 DEF PoolInv, Sound
    <2>2. CASE ~admit.betaMode
      BY <2>2 DEF absorb, PoolInv, Sound
    <2> QED
      BY <2>1, <2>2
  <1>15. CanRevert' /\ listed' \subseteq Asset
    BY IdleCanRevert DEF absorb, PoolInv, Sound
  <1> QED
    BY <1>7, <1>9, <1>13, <1>14, <1>15 DEF PoolInv, Sound

\* Every intent a batch may carry is one.
LEMMA IntentsTyped ==
    ASSUME listed \subseteq Asset, NEW it \in Intents(Account, Account \cup {SUBMITTER})
    PROVE  it \in Intent
  <1>1. PICK I \in SUBSET (1 .. Len(notes)), pa \in Units, fee \in FeeUnits, to \in Account \cup {NoOne},
             feeTo \in Account \cup {SUBMITTER} \cup {NoOne}, part \in FeeUnits :
                it = IntentOf(I, pa, fee, to, feeTo, part) /\ wellFormed(it)
    BY DEF Intents
  <1>2. it = [asset |-> it.asset, inputs |-> I, publicAmount |-> pa, fee |-> fee,
              to |-> to, feeTo |-> feeTo, part |-> part, change |-> it.change]
    BY <1>1 DEF IntentOf
  <1>3. it.asset \in Asset /\ it.change \in Nat /\ part <= fee /\ (feeTo = NoOne => part = fee)
    BY <1>1, <1>2 DEF wellFormed
  <1>4. I \subseteq Int /\ pa \in Nat /\ fee \in Nat /\ part \in Nat
    BY PoolAssumption
  <1> QED
    BY <1>2, <1>3, <1>4 DEF Intent

LEMMA SettleKeepsInv ==
    ASSUME PoolInv, NEW s \in Account, NEW n \in Nat,
           NEW batch \in [1 .. n -> Intents(Account, Account \cup {SUBMITTER})],
           NEW residual \in Swap, NEW price \in Prices,
           settleBatch(s, batch, residual, price)
    PROVE  PoolInv'
  <1>1. batch \in Seq(Intent)
    <2>1. \A i \in 1 .. n : batch[i] \in Intent
      BY IntentsTyped DEF PoolInv, Sound
    <2> QED
      BY <2>1
  <1>2. tx' = InFlight("settle", s, batch, <<>>, Nothing, residual, price)
    BY DEF settleBatch
  <1>3. tx' \in Transaction
    BY <1>1, <1>2, PoolAssumption DEF InFlight, Transaction, Nothing
  <1>4. /\ tx'.pays = <<>> /\ tx'.setAside = Nothing /\ tx'.phase = "payee"
        /\ tx'.paid = Nothing /\ tx' # Idle
    BY <1>2, InFlightFields
  <1>5. Chain'
    BY <1>4 DEF Chain
  <1>6. Covered'
    <2>1. \A x \in Asset : inCalls(x)' = 0 /\ slack(x)' = book[x].balance - onEntry(book[x])
      BY <1>4, SlackBegins DEF settleBatch, inCalls, Nothing
    <2>2. \A x \in Asset : /\ onEntry(book'[x]) = onEntry(book[x]) /\ onEntry(book[x]) \in Int
                           /\ book'[x] = book[x] /\ book[x].balance \in Nat
      BY DEF settleBatch, onEntry, PoolInv, Sound, Entry
    <2> QED
      BY <2>1, <2>2 DEF Covered, due
  <1>7. CanRevert' /\ Sound(book, beta, listed)'
    BY IdleCanRevert DEF settleBatch, PoolInv, Sound
  <1> QED
    BY <1>3, <1>5, <1>6, <1>7 DEF PoolInv

-----------------------------------------------------------------------------
(* Transactions in flight.                                                 *)

\* What a transaction's own steps find, and what they leave alone.
LEMMA Flying ==
    ASSUME PoolInv, tx # Idle
    PROVE  /\ tx \in Transaction /\ Chain /\ CanRevert
           /\ \A a \in Asset : /\ book[a] \in Entry
                               /\ due(a) = (tx.setAside[a] - tx.paid[a]) + slack(a)
                               /\ slack(a) \in Int
                               /\ book[a].balance >= onEntry(book[a]) + due(a)
  <1>1. tx \in Transaction /\ Chain /\ CanRevert
    BY DEF PoolInv
  <1>2. ASSUME NEW a \in Asset
        PROVE  slack(a) \in Int
    BY <1>1 DEF slack, CanRevert, Sound, Entry, onEntry
  <1> QED
    BY <1>1, <1>2 DEF PoolInv, Sound, Covered, due, inCalls

LEMMA FlyingInts ==
    ASSUME PoolInv, tx # Idle, NEW x \in Asset
    PROVE  book[x].balance \in Nat /\ onEntry(book[x]) \in Int /\ due(x) \in Int
  <1>1. /\ book[x] \in Entry /\ tx \in Transaction /\ slack(x) \in Int
        /\ due(x) = (tx.setAside[x] - tx.paid[x]) + slack(x)
    BY Flying
  <1>2. tx.setAside[x] \in Nat /\ tx.paid[x] \in Nat
    BY <1>1 DEF Transaction
  <1> QED
    BY <1>1, <1>2 DEF Entry, onEntry

\* A transaction's own steps leave what it may not touch as it was.
LEMMA SlackStays ==
    ASSUME tx # Idle, tx' # Idle, UNCHANGED before, NEW x \in Asset
    PROVE  slack(x)' = slack(x)
  BY DEF slack, onEntry

LEMMA StepKeepsInv ==
    ASSUME PoolInv, tx # Idle, tx' # Idle, tx' \in Transaction, Chain',
           book' \in [Asset -> Entry], Covered', UNCHANGED <<beta, listed, before>>
    PROVE  PoolInv'
  BY DEF PoolInv, Sound, CanRevert, onEntry

LEMMA NotIdle ==
    ASSUME tx \in Transaction
    PROVE  tx # Idle
  BY DEF Transaction, Idle

\* The shares of an intent: what leaves the shielded total is what its payee,
\* its relayer and the router get.
LEMMA IntentSplits ==
    ASSUME NEW it \in Intent, NEW sc \in Nat
    PROVE  /\ it.publicAmount * sc \in Nat /\ toRouter(it) * sc \in Nat /\ leaves(it) * sc \in Nat
           /\ (it.fee - it.part) * sc \in Nat
           /\ leaves(it) * sc = it.publicAmount * sc + toRouter(it) * sc
                                  + (IF it.feeTo = NoOne THEN 0 ELSE (it.fee - it.part) * sc)
  <1>1. /\ it.publicAmount \in Nat /\ it.fee \in Nat /\ it.part \in Nat /\ it.fee - it.part \in Nat
        /\ it.feeTo = NoOne => it.part = it.fee
    BY DEF Intent
  <1>2. toRouter(it) \in Nat /\ leaves(it) \in Nat
    BY <1>1 DEF toRouter, leaves
  <1>3. /\ it.publicAmount * sc \in Nat /\ toRouter(it) * sc \in Nat /\ leaves(it) * sc \in Nat
        /\ (it.fee - it.part) * sc \in Nat
    BY <1>1, <1>2, ProductNat
  <1>4. leaves(it) * sc = it.publicAmount * sc + it.fee * sc
    BY <1>1, Distribute DEF leaves
  <1>5. (it.fee - it.part) * sc = it.fee * sc - it.part * sc
    BY <1>1, Distribute
  <1>6. it.fee * sc \in Nat /\ it.part * sc \in Nat
    BY <1>1, ProductNat
  <1>7. CASE it.feeTo = NoOne
    BY <1>3, <1>4, <1>6, <1>7 DEF toRouter
  <1>8. CASE it.feeTo # NoOne
    BY <1>3, <1>4, <1>5, <1>6, <1>8 DEF toRouter
  <1> QED
    BY <1>3, <1>7, <1>8

LEMMA ChainHead ==
    ASSUME Chain, Len(tx.pays) # 0
    PROVE  /\ tx.phase = "payee" => tx.pays[1].upTo = after(tx.paid, tx.pays[1])
           /\ tx.phase = "router" =>
                tx.pays[1].upTo = [tx.paid EXCEPT ![tx.pays[1].asset] = @ + tx.pays[1].toRouter]
  <1>1. tx.pays[1].upTo = IF tx.phase = "payee" THEN after(tx.paid, tx.pays[1])
                          ELSE [tx.paid EXCEPT ![tx.pays[1].asset] = @ + tx.pays[1].toRouter]
    BY Zenon DEF Chain
  <1> QED
    BY <1>1

LEMMA ChainGrows ==
    ASSUME tx \in Transaction, Chain, NEW e \in Payment, e.upTo = after(tx.setAside, e),
           tx' \in Transaction, tx'.pays = Append(tx.pays, e), tx'.setAside = e.upTo,
           tx'.paid = tx.paid, tx'.phase = tx.phase
    PROVE  Chain'
  <1> DEFINE n == Len(tx.pays)
  <1>1. n \in Nat /\ tx.pays \in Seq(Payment)
    BY DEF Transaction
  <1>2. /\ Len(tx'.pays) = n + 1
        /\ \A i \in 1 .. n : tx'.pays[i] = tx.pays[i]
        /\ tx'.pays[n + 1] = e
    BY <1>1
  <1>3. CASE n = 0
    BY <1>2, <1>3 DEF Chain
  <1>4. CASE n # 0
    <2>1. tx'.pays[1] = tx.pays[1]
      BY <1>1, <1>2, <1>4
    <2>2. ASSUME NEW i \in 1 .. n
          PROVE  tx'.pays[i + 1].upTo = after(tx'.pays[i].upTo, tx'.pays[i + 1])
      <3>1. CASE i = n
        BY <1>1, <1>2, <1>4, <3>1 DEF Chain
      <3>2. CASE i # n
        <4>1. i \in 1 .. n - 1 /\ i + 1 \in 1 .. n
          BY <1>1, <3>2
        <4> QED
          BY <1>2, <4>1 DEF Chain
      <3> QED
        BY <3>1, <3>2
    <2>3. n + 1 # 0 /\ (n + 1) - 1 = n
      BY <1>1
    <2> QED
      BY <1>2, <1>4, <2>1, <2>2, <2>3 DEF Chain
  <1> QED
    BY <1>3, <1>4

LEMMA AccountKeepsInv ==
    ASSUME PoolInv, tx # Idle, account
    PROVE  PoolInv'
  <1>1. tx \in Transaction /\ Chain /\ tx.todo \in Seq(Intent) /\ tx.todo # <<>>
    BY Flying DEF account, Transaction
  <1>2. Head(tx.todo) \in Intent /\ Tail(tx.todo) \in Seq(Intent)
    BY <1>1
  <1> SUFFICES ASSUME NEW it \in Intent, it = Head(tx.todo), NEW a \in Asset, a = it.asset
               PROVE  PoolInv'
    BY <1>2 DEF Intent
  <1> DEFINE sc == Scale[a]
             owed == payment(a, it.to, it.publicAmount * sc, toRouter(it) * sc, tx.setAside)
             payee == IF it.feeTo = SUBMITTER THEN tx.sender ELSE it.feeTo
             left == debited(book[a], leaves(it) * sc)
             b == IF it.feeTo = NoOne THEN left ELSE credited(left, payee, (it.fee - it.part) * sc)
  <1>3. sc \in Nat /\ it.to \in Account \cup {NoOne}
    BY PoolAssumption DEF Intent
  <1>4. /\ it.publicAmount * sc \in Nat /\ toRouter(it) * sc \in Nat /\ leaves(it) * sc \in Nat
        /\ (it.fee - it.part) * sc \in Nat
        /\ leaves(it) * sc = it.publicAmount * sc + toRouter(it) * sc
                               + (IF it.feeTo = NoOne THEN 0 ELSE (it.fee - it.part) * sc)
    BY <1>3, IntentSplits
  <1>5. covers(book[a], leaves(it) * sc) /\ book' = [book EXCEPT ![a] = b]
    BY DEF account
  <1>6. tx' = [tx EXCEPT !.todo = Tail(@), !.pays = Append(@, owed), !.setAside = owed.upTo]
    BY DEF account
  <1>7. UNCHANGED <<beta, listed, before>>
    BY DEF account
  <1>8. /\ book[a] \in Entry /\ tx.setAside \in [Asset -> Nat] /\ tx.paid \in [Asset -> Nat]
        /\ slack(a) \in Int /\ book[a].balance >= onEntry(book[a]) + ((tx.setAside[a] - tx.paid[a]) + slack(a))
    BY <1>1, Flying DEF Transaction
  <1> HIDE DEF sc
  <1>9. /\ owed = [asset |-> a, to |-> it.to, toPayee |-> it.publicAmount * sc,
                   toRouter |-> toRouter(it) * sc,
                   upTo |-> [tx.setAside EXCEPT ![a] = @ + it.publicAmount * sc + toRouter(it) * sc]]
    BY DEF payment
  <1>10. owed \in Payment /\ owed.upTo = after(tx.setAside, owed)
    <2> DEFINE m == [tx.setAside EXCEPT ![a] = @ + it.publicAmount * sc + toRouter(it) * sc]
    <2>1. m \in [Asset -> Nat]
      BY <1>4, <1>8
    <2>2. owed = [asset |-> a, to |-> it.to, toPayee |-> it.publicAmount * sc,
                  toRouter |-> toRouter(it) * sc, upTo |-> m]
      BY <1>9
    <2> HIDE DEF owed
    <2>3. owed.upTo = after(tx.setAside, owed)
      <3>1. owed.asset = a /\ owed.toPayee = it.publicAmount * sc /\ owed.toRouter = toRouter(it) * sc
            /\ owed.upTo = m
        BY <2>2
      <3> QED
        BY <3>1, Zenon DEF after, m
    <2> HIDE DEF m
    <2>4. owed \in Payment
      BY <1>3, <1>4, <2>1, <2>2 DEF Payment
    <2> QED
      BY <2>3, <2>4
  <1>11. \A x \in Asset : owed.upTo[x] = IF x = a THEN tx.setAside[a] + it.publicAmount * sc + toRouter(it) * sc
                                         ELSE tx.setAside[x]
    BY <1>8, <1>9
  <1> HIDE DEF owed
  <1>12. /\ tx' \in Transaction
         /\ tx'.pays = Append(tx.pays, owed) /\ tx'.setAside = owed.upTo /\ tx'.paid = tx.paid
         /\ tx'.phase = tx.phase
    <2>1. tx' = [kind |-> tx.kind, sender |-> tx.sender, todo |-> Tail(tx.todo),
                 pays |-> Append(tx.pays, owed), phase |-> tx.phase, setAside |-> owed.upTo,
                 paid |-> tx.paid, residual |-> tx.residual, price |-> tx.price]
      BY <1>1, <1>6 DEF Transaction
    <2>2. Append(tx.pays, owed) \in Seq(Payment) /\ owed.upTo \in [Asset -> Nat]
      BY <1>1, <1>10 DEF Transaction, Payment
    <2> QED
      BY <1>1, <1>2, <2>1, <2>2 DEF Transaction
  <1>13. Chain' /\ tx' # Idle
    BY <1>1, <1>10, <1>12, ChainGrows, NotIdle DEF Transaction, Idle
  <1>14. left \in Entry /\ left.balance = book[a].balance /\ onEntry(left) = onEntry(book[a]) - leaves(it) * sc
    BY <1>4, <1>5, <1>8, DebitedEntry
  <1>15. /\ b \in Entry /\ b.balance = book[a].balance
         /\ onEntry(b) = onEntry(left) + IF it.feeTo = NoOne THEN 0 ELSE (it.fee - it.part) * sc
    <2>1. left \in Entry /\ left.balance = book[a].balance /\ onEntry(left) \in Int
      <3> HIDE DEF left
      <3> QED
        BY <1>14, SMTT(60) DEF Entry, onEntry
    <2> HIDE DEF left, payee
    <2>2. CASE it.feeTo = NoOne
      BY <2>1, <2>2
    <2>3. CASE it.feeTo # NoOne
      BY <1>4, <2>1, <2>3, CreditedEntry
    <2> QED
      BY <2>2, <2>3
  <1> HIDE DEF b
  <1>16. \A x \in Asset : due(x)' = (tx'.setAside[x] - tx'.paid[x]) + slack(x)
    BY <1>7, <1>13, SlackStays DEF due, inCalls
  <1>17. \A x \in Asset : x # a => due(x)' = due(x)
    BY <1>11, <1>12, <1>16, Flying
  <1>i. \A x \in Asset : due(x)' \in Int
    <2>1. owed.upTo \in [Asset -> Nat]
      BY <1>10 DEF Payment
    <2>2. due(a)' = (owed.upTo[a] - tx.paid[a]) + slack(a)
      BY <1>12, <1>16
    <2> QED
      BY <1>8, <1>17, <2>1, <2>2, FlyingInts
  <1>18. b.balance >= onEntry(b) + due(a)'
    <2>1. due(a)' = (owed.upTo[a] - tx.paid[a]) + slack(a)
      BY <1>12, <1>16
    <2>2. onEntry(book[a]) \in Int /\ tx.setAside[a] \in Nat /\ tx.paid[a] \in Nat /\ book[a].balance \in Nat
      BY <1>8 DEF Entry, onEntry
    <2> QED
      <3> DEFINE x == it.publicAmount * sc
                 y == toRouter(it) * sc
                 w == IF it.feeTo = NoOne THEN 0 ELSE (it.fee - it.part) * sc
                 all == leaves(it) * sc
      <3>1. /\ x \in Nat /\ y \in Nat /\ w \in Nat /\ all = x + y + w
            /\ owed.upTo[a] = tx.setAside[a] + x + y
        BY <1>4, <1>11
      <3>2. onEntry(left) = onEntry(book[a]) - all /\ onEntry(b) = onEntry(left) + w
        BY <1>14, <1>15
      <3>3. b.balance = book[a].balance /\ slack(a) \in Int
        BY <1>8, <1>15
      <3>4. book[a].balance >= onEntry(book[a]) + ((tx.setAside[a] - tx.paid[a]) + slack(a))
        BY <1>8
      <3> HIDE DEF b, left, owed, payee, x, y, w, all
      <3> QED
        BY <2>1, <2>2, <3>1, <3>2, <3>3, <3>4, SMTT(60)
  <1>19. book' \in [Asset -> Entry] /\ Covered'
    BY <1>5, <1>15, <1>17, <1>18, <1>i, OneEntry DEF PoolInv, Sound
  <1> QED
    BY <1>7, <1>12, <1>13, <1>19, StepKeepsInv

LEMMA PayeeKeepsInv ==
    ASSUME PoolInv, tx # Idle, payOrCredit
    PROVE  PoolInv'
  <1>1. tx \in Transaction /\ Chain /\ tx.pays \in Seq(Payment) /\ tx.pays # <<>>
    BY Flying DEF payOrCredit, paying, Transaction
  <1>2. Head(tx.pays) \in Payment /\ Head(tx.pays) = tx.pays[1]
    BY <1>1
  <1> SUFFICES ASSUME NEW e \in Payment, e = Head(tx.pays), NEW a \in Asset, a = e.asset
               PROVE  PoolInv'
    BY <1>2 DEF Payment
  <1>o. PICK o \in Push(a, e.toPayee) :
          /\ o.moved <= book[a].balance
          /\ book' = [book EXCEPT ![a] =
                        credited(pushed(book[a], o), e.to, o.unpaid)]
    BY Zenon DEF payOrCredit
  <1>3. e.toPayee \in Nat /\ e.toRouter \in Nat /\ tx.phase = "payee"
    BY DEF Payment, payOrCredit
  <1>4. o.moved \in Nat /\ o.unpaid \in Nat /\ o.lost \in Nat /\ o.moved + o.unpaid <= e.toPayee + o.lost
    BY <1>3, PushSplits
  <1>5. /\ book[a] \in Entry /\ tx.setAside \in [Asset -> Nat] /\ tx.paid \in [Asset -> Nat]
        /\ slack(a) \in Int /\ book[a].balance >= onEntry(book[a]) + ((tx.setAside[a] - tx.paid[a]) + slack(a))
    BY <1>1, Flying DEF Transaction
  <1> DEFINE m == pushed(book[a], o)
             b == credited(m, e.to, o.unpaid)
             paid == [tx.paid EXCEPT ![a] = @ + e.toPayee]
  <1>6. m \in Entry /\ m.balance = book[a].balance - o.moved /\ onEntry(m) = onEntry(book[a]) - o.lost
    BY <1>4, <1>5, <1>o, PushedEntry
  <1> HIDE DEF m
  <1>7. b \in Entry /\ b.balance = book[a].balance - o.moved /\ onEntry(b) = (onEntry(book[a]) - o.lost) + o.unpaid
    BY <1>4, <1>5, <1>6, CreditedEntry
  <1>8. book' = [book EXCEPT ![a] = b]
    BY <1>o DEF m
  <1> HIDE DEF b
  <1>9. paid \in [Asset -> Nat] /\ \A x \in Asset : paid[x] = IF x = a THEN tx.paid[a] + e.toPayee ELSE tx.paid[x]
    BY <1>3, <1>5
  <1>10. tx' = [kind |-> tx.kind, sender |-> tx.sender, todo |-> tx.todo, pays |-> tx.pays,
                phase |-> "router", setAside |-> tx.setAside, paid |-> paid,
                residual |-> tx.residual, price |-> tx.price]
    BY <1>1 DEF payOrCredit, Transaction
  <1> HIDE DEF paid
  <1>11. tx' \in Transaction
    BY <1>1, <1>9, <1>10 DEF Transaction
  <1>12. /\ tx'.pays = tx.pays /\ tx'.setAside = tx.setAside /\ tx'.paid = paid /\ tx'.phase = "router"
         /\ tx' # Idle
    BY <1>10, <1>11, NotIdle DEF Transaction, Idle
  <1>13. Chain'
    <2>1. Len(tx.pays) # 0 /\ tx.pays[1] = e
      BY <1>1, <1>2
    <2>2. e.upTo = after(tx.paid, e)
      BY <1>1, <1>3, <2>1, ChainHead
    <2>3. e.upTo = [paid EXCEPT ![a] = @ + e.toRouter]
      BY <1>3, <1>5, <2>2 DEF paid, after
    <2>4. tx'.pays[1].upTo = [tx'.paid EXCEPT ![tx'.pays[1].asset] = @ + tx'.pays[1].toRouter]
      BY <1>12, <2>1, <2>3
    <2> QED
      BY <1>1, <1>12, <2>1, <2>4, Zenon DEF Chain
  <1>14. \A x \in Asset : due(x)' = (tx'.setAside[x] - tx'.paid[x]) + slack(x)
    BY <1>12, SlackStays DEF due, inCalls, payOrCredit
  <1>15. \A x \in Asset : x # a => due(x)' = due(x)
    BY <1>9, <1>12, <1>14, Flying
  <1>i. \A x \in Asset : due(x)' \in Int
    BY <1>3, <1>5, <1>9, <1>12, <1>14, <1>15, FlyingInts
  <1>16. b.balance >= onEntry(b) + due(a)'
    <2>1. due(a)' = (tx.setAside[a] - (tx.paid[a] + e.toPayee)) + slack(a)
      BY <1>9, <1>12, <1>14
    <2>2. onEntry(book[a]) \in Int /\ tx.setAside[a] \in Nat /\ tx.paid[a] \in Nat /\ book[a].balance \in Nat
      BY <1>5 DEF Entry, onEntry
    <2> QED
      BY <1>3, <1>4, <1>5, <1>7, <2>1, <2>2
  <1>17. book' \in [Asset -> Entry] /\ Covered'
    BY <1>7, <1>8, <1>15, <1>16, <1>i, OneEntry DEF PoolInv, Sound
  <1>18. UNCHANGED <<beta, listed, before>>
    BY DEF payOrCredit
  <1> QED
    BY <1>11, <1>12, <1>13, <1>17, <1>18, StepKeepsInv

\* The rest of the chain leads on from what the head's payment brought it to.
LEMMA ChainShrinks ==
    ASSUME tx \in Transaction, Chain, tx.pays # <<>>, tx' \in Transaction,
           tx'.pays = Tail(tx.pays), tx'.setAside = tx.setAside,
           tx'.paid = Head(tx.pays).upTo, tx'.phase = "payee"
    PROVE  Chain'
  <1> DEFINE n == Len(tx.pays)
  <1>1. n \in Nat \ {0} /\ tx.pays \in Seq(Payment) /\ Head(tx.pays) = tx.pays[1]
    BY DEF Transaction
  <1>2. /\ Len(tx'.pays) = n - 1
        /\ \A i \in 1 .. n - 1 : tx'.pays[i] = tx.pays[i + 1]
    BY <1>1
  <1>h. n = Len(tx.pays)
    OBVIOUS
  <1> HIDE DEF n
  <1>3. CASE n = 1
    BY <1>1, <1>2, <1>3, <1>h DEF Chain
  <1>4. CASE n # 1
    <2>1. 1 \in 1 .. n - 1 /\ n - 1 \in 1 .. n - 1 /\ (n - 1) + 1 = n
      BY <1>1, <1>4
    <2>2. tx'.pays[1] = tx.pays[2] /\ tx'.pays[n - 1] = tx.pays[n]
      BY <1>2, <2>1
    <2>3. tx.pays[2].upTo = after(tx.pays[1].upTo, tx.pays[2])
      BY <1>h, <2>1 DEF Chain
    <2>4. ASSUME NEW i \in 1 .. (n - 1) - 1
          PROVE  tx'.pays[i + 1].upTo = after(tx'.pays[i].upTo, tx'.pays[i + 1])
      <3>1. i \in 1 .. n - 1 /\ i + 1 \in 1 .. n - 1
        BY <1>1
      <3>2. tx'.pays[i] = tx.pays[i + 1] /\ tx'.pays[i + 1] = tx.pays[(i + 1) + 1]
        BY <1>2, <3>1
      <3> QED
        BY <1>h, <3>1, <3>2 DEF Chain
    <2>5. tx'.pays[1].upTo = after(tx'.paid, tx'.pays[1])
      BY <1>1, <2>2, <2>3
    <2>6. tx'.pays[n - 1].upTo = tx'.setAside
      BY <1>1, <1>h, <2>2 DEF Chain
    <2>7. n - 1 # 0
      BY <1>1, <1>4
    <2> QED
      BY <1>2, <2>4, <2>5, <2>6, <2>7 DEF Chain
  <1> QED
    BY <1>3, <1>4

LEMMA FeeKeepsInv ==
    ASSUME PoolInv, tx # Idle, payFee
    PROVE  PoolInv'
  <1>1. tx \in Transaction /\ Chain /\ tx.pays \in Seq(Payment) /\ tx.pays # <<>>
    BY Flying DEF payFee, paying, Transaction
  <1>2. Head(tx.pays) \in Payment /\ Head(tx.pays) = tx.pays[1] /\ Tail(tx.pays) \in Seq(Payment)
    BY <1>1
  <1> SUFFICES ASSUME NEW e \in Payment, e = Head(tx.pays), NEW a \in Asset, a = e.asset
               PROVE  PoolInv'
    BY <1>2 DEF Payment
  <1>o. PICK o \in Push(a, e.toRouter) :
          /\ o.moved <= book[a].balance
          /\ book' = [book EXCEPT ![a] =
                        deferred(pushed(book[a], o), o.unpaid)]
    BY Zenon DEF payFee
  <1>3. e.toRouter \in Nat /\ e.upTo \in [Asset -> Nat] /\ tx.phase = "router"
    BY DEF Payment, payFee
  <1>4. o.moved \in Nat /\ o.unpaid \in Nat /\ o.lost \in Nat /\ o.moved + o.unpaid <= e.toRouter + o.lost
    BY <1>3, PushSplits
  <1>5. /\ book[a] \in Entry /\ tx.setAside \in [Asset -> Nat] /\ tx.paid \in [Asset -> Nat]
        /\ slack(a) \in Int /\ book[a].balance >= onEntry(book[a]) + ((tx.setAside[a] - tx.paid[a]) + slack(a))
    BY <1>1, Flying DEF Transaction
  <1> DEFINE m == pushed(book[a], o)
             b == deferred(m, o.unpaid)
  <1>6. m \in Entry /\ m.balance = book[a].balance - o.moved /\ onEntry(m) = onEntry(book[a]) - o.lost
    BY <1>4, <1>5, <1>o, PushedEntry
  <1> HIDE DEF m
  <1>7. b \in Entry /\ b.balance = book[a].balance - o.moved /\ onEntry(b) = (onEntry(book[a]) - o.lost) + o.unpaid
    BY <1>4, <1>6, DeferredEntry
  <1>8. book' = [book EXCEPT ![a] = b]
    BY <1>o DEF m
  <1> HIDE DEF b
  <1>9. \A x \in Asset : e.upTo[x] = IF x = a THEN tx.paid[a] + e.toRouter ELSE tx.paid[x]
    <2>1. Len(tx.pays) # 0 /\ tx.pays[1] = e
      BY <1>1, <1>2
    <2>2. e.upTo = [tx.paid EXCEPT ![a] = @ + e.toRouter]
      BY <1>1, <1>3, <2>1, ChainHead
    <2> QED
      BY <1>5, <2>2
  <1>10. tx' = [kind |-> tx.kind, sender |-> tx.sender, todo |-> tx.todo, pays |-> Tail(tx.pays),
                phase |-> "payee", setAside |-> tx.setAside, paid |-> e.upTo,
                residual |-> tx.residual, price |-> tx.price]
    BY <1>1 DEF payFee, Transaction
  <1>11. tx' \in Transaction
    BY <1>1, <1>2, <1>3, <1>10 DEF Transaction
  <1>12. /\ tx'.pays = Tail(tx.pays) /\ tx'.setAside = tx.setAside /\ tx'.paid = e.upTo /\ tx'.phase = "payee"
         /\ tx' # Idle
    BY <1>10, <1>11, NotIdle DEF Transaction, Idle
  <1>13. Chain'
    BY <1>1, <1>11, <1>12, ChainShrinks
  <1>14. \A x \in Asset : due(x)' = (tx'.setAside[x] - tx'.paid[x]) + slack(x)
    BY <1>12, SlackStays DEF due, inCalls, payFee
  <1>15. \A x \in Asset : x # a => due(x)' = due(x)
    BY <1>9, <1>12, <1>14, Flying
  <1>i. \A x \in Asset : due(x)' \in Int
    BY <1>3, <1>5, <1>9, <1>12, <1>14, <1>15, FlyingInts
  <1>16. b.balance >= onEntry(b) + due(a)'
    <2>1. due(a)' = (tx.setAside[a] - (tx.paid[a] + e.toRouter)) + slack(a)
      BY <1>9, <1>12, <1>14
    <2>2. onEntry(book[a]) \in Int /\ tx.setAside[a] \in Nat /\ tx.paid[a] \in Nat /\ book[a].balance \in Nat
      BY <1>5 DEF Entry, onEntry
    <2> QED
      BY <1>3, <1>4, <1>5, <1>7, <2>1, <2>2
  <1>17. book' \in [Asset -> Entry] /\ Covered'
    BY <1>7, <1>8, <1>15, <1>16, <1>i, OneEntry DEF PoolInv, Sound
  <1>18. UNCHANGED <<beta, listed, before>>
    BY DEF payFee
  <1> QED
    BY <1>11, <1>12, <1>13, <1>17, <1>18, StepKeepsInv

LEMMA SwappedInEntry ==
    ASSUME NEW b \in Entry, NEW out \in Nat, NEW dust \in 0 .. out
    PROVE  /\ swappedIn(b, out, dust) \in Entry
           /\ swappedIn(b, out, dust).balance = b.balance + out
           /\ swappedIn(b, out, dust).lost = b.lost
           /\ onEntry(swappedIn(b, out, dust)) = onEntry(b) + out
  <1> DEFINE c == swappedIn(b, out, dust)
  <1>1. c = [b EXCEPT !.balance = @ + out, !.shielded = @ + (out - dust), !.unswept = @ + dust]
    BY DEF swappedIn
  <1> HIDE DEF c
  <1>2. c = [balance |-> b.balance + out, shielded |-> b.shielded + (out - dust),
             claimable |-> b.claimable, totalClaimable |-> b.totalClaimable,
             unswept |-> b.unswept + dust, lost |-> b.lost]
    BY <1>1 DEF Entry
  <1>3. /\ b.balance \in Nat /\ b.shielded \in Nat /\ b.claimable \in [Account -> Nat]
        /\ b.totalClaimable \in Int /\ b.unswept \in Nat /\ b.lost \in Nat
        /\ dust \in Nat /\ out - dust \in Nat
    BY DEF Entry
  <1>4. c \in Entry /\ c.balance = b.balance + out /\ onEntry(c) = onEntry(b) + out /\ c.lost = b.lost
    BY <1>2, <1>3 DEF Entry, onEntry
  <1> QED
    BY <1>4 DEF c

LEMMA ResidualKeepsInv ==
    ASSUME PoolInv, tx # Idle, settleResidual
    PROVE  PoolInv'
  <1>1. tx \in Transaction /\ Chain /\ tx.pays = <<>>
    BY Flying DEF settleResidual
  <1>2. PICK r \in tx.residual :
          /\ r.assetIn # r.assetOut
          /\ covers(book[r.assetIn], r.amountIn)
          /\ \E taken \in {0, r.amountIn}, out \in r.amountOutMin .. (r.amountOutMin + 1) :
                /\ taken <= book[r.assetIn].balance
                /\ book' = [book EXCEPT
                      ![r.assetIn] = drawn(debited(@, r.amountIn), taken),
                      ![r.assetOut] = swappedIn(@, out, out % Scale[r.assetOut])]
    BY ZenonT(30) DEF settleResidual
  <1>3. r \in Residuals
    BY <1>1 DEF Transaction, Swap
  <1>4. PICK taken \in {0, r.amountIn}, out \in r.amountOutMin .. (r.amountOutMin + 1) :
          /\ taken <= book[r.assetIn].balance
          /\ book' = [book EXCEPT
                ![r.assetIn] = drawn(debited(@, r.amountIn), taken),
                ![r.assetOut] = swappedIn(@, out, out % Scale[r.assetOut])]
    BY <1>2
  <1> SUFFICES ASSUME NEW i \in Asset, NEW j \in Asset, NEW amount \in Nat, NEW dust \in 0 .. out,
                      i # j, i = r.assetIn, j = r.assetOut, amount = r.amountIn,
                      dust = out % Scale[j], out \in Nat, taken \in {0, amount}
               PROVE  PoolInv'
    <2>1. /\ r.assetIn \in Asset /\ r.assetOut \in Asset /\ r.amountIn \in Nat /\ r.amountOutMin \in Nat
      BY <1>3, PoolAssumption
    <2>2. out \in Nat /\ Scale[r.assetOut] \in Nat \ {0}
      BY <2>1, PoolAssumption
    <2>3. out % Scale[r.assetOut] \in 0 .. out
      BY <2>2, QuotientNat
    <2> QED
      BY <1>2, <1>4, <2>1, <2>2, <2>3
  <1> DEFINE b == drawn(debited(book[i], amount), taken)
             c == swappedIn(book[j], out, dust)
  <1>5. book' = [[book EXCEPT ![i] = b] EXCEPT ![j] = c]
    BY <1>4 DEF PoolInv, Sound
  <1>6. /\ book[i] \in Entry /\ book[j] \in Entry /\ taken \in Nat /\ taken <= amount
        /\ covers(book[i], amount) /\ taken <= book[i].balance
    BY <1>2, <1>4, Flying
  <1>7. debited(book[i], amount) \in Entry /\ debited(book[i], amount).balance = book[i].balance
        /\ onEntry(debited(book[i], amount)) = onEntry(book[i]) - amount
    BY <1>6, DebitedEntry
  <1>8. b \in Entry /\ b.balance = book[i].balance - taken /\ onEntry(b) = onEntry(book[i]) - amount
    BY <1>6, <1>7, DrawnEntry
  <1>9. c \in Entry /\ c.balance = book[j].balance + out /\ onEntry(c) = onEntry(book[j]) + out
    BY <1>6, SwappedInEntry
  <1> HIDE DEF b, c
  <1>10. book' \in [Asset -> Entry] /\ \A x \in Asset : book'[x] = IF x = j THEN c ELSE IF x = i THEN b ELSE book[x]
    BY <1>5, <1>8, <1>9 DEF PoolInv, Sound
  <1>11. tx' = [kind |-> tx.kind, sender |-> tx.sender, todo |-> tx.todo, pays |-> tx.pays,
                phase |-> tx.phase, setAside |-> tx.setAside, paid |-> tx.paid,
                residual |-> {}, price |-> tx.price]
    BY <1>1 DEF settleResidual, Transaction
  <1>12. tx' \in Transaction
    BY <1>1, <1>11 DEF Transaction, Swap
  <1>13. /\ tx'.pays = tx.pays /\ tx'.setAside = tx.setAside /\ tx'.paid = tx.paid /\ tx'.phase = tx.phase
         /\ tx' # Idle
    BY <1>11, <1>12, NotIdle DEF Transaction, Idle
  <1>14. Chain'
    BY <1>1, <1>13 DEF Chain
  <1>15. \A x \in Asset : due(x)' = due(x)
    BY <1>13, SlackStays DEF due, inCalls, settleResidual
  <1>16. ASSUME NEW x \in Asset
         PROVE  book'[x].balance >= onEntry(book'[x]) + due(x)'
    <2>1. /\ book[x].balance \in Nat /\ onEntry(book[x]) \in Int /\ due(x) \in Int
          /\ book[x].balance >= onEntry(book[x]) + due(x)
      BY <1>1, Flying, FlyingInts
    <2>2. CASE x = i
      BY <1>6, <1>8, <1>10, <1>15, <2>1, <2>2
    <2>3. CASE x = j
      BY <1>9, <1>10, <1>15, <2>1, <2>3
    <2>4. CASE x # i /\ x # j
      BY <1>10, <1>15, <2>1, <2>4
    <2> QED
      BY <2>2, <2>3, <2>4
  <1>17. Covered'
    BY <1>16 DEF Covered
  <1>18. UNCHANGED <<beta, listed, before>>
    BY DEF settleResidual
  <1> QED
    BY <1>10, <1>12, <1>13, <1>14, <1>17, <1>18, StepKeepsInv

LEMMA CommitKeepsInv ==
    ASSUME PoolInv, commit
    PROVE  PoolInv'
  <1>1. tx # Idle /\ tx.pays = <<>> /\ tx' = Idle /\ UNCHANGED <<book, beta, listed>>
    BY DEF commit, ledgerVars
  <1>2. tx.paid = tx.setAside /\ tx.setAside \in [Asset -> Nat]
    BY <1>1, Flying DEF Chain, Transaction
  <1>3. \A a \in Asset : /\ due(a)' = 0
                         /\ book[a] \in Entry /\ slack(a) \in Int /\ slack(a) >= 0
                         /\ book[a].balance >= onEntry(book[a]) + slack(a)
    <2>1. CanRevert /\ \A a \in Asset : tx.setAside[a] - tx.paid[a] = 0
      BY <1>1, <1>2, Flying
    <2>2. \A a \in Asset : due(a)' = 0
      BY <1>1 DEF due, inCalls, slack
    <2>3. \A a \in Asset : slack(a) >= 0
      BY <1>1, <2>1 DEF slack, CanRevert, Sound, Entry, onEntry
    <2>4. \A a \in Asset : /\ due(a) = slack(a) /\ slack(a) \in Int /\ book[a] \in Entry
                           /\ book[a].balance >= onEntry(book[a]) + due(a)
      BY <1>1, <2>1, Flying
    <2> QED
      BY <2>2, <2>3, <2>4
  <1>4. Covered'
    BY <1>1, <1>3 DEF Covered, onEntry, Entry
  <1> QED
    BY <1>1, <1>4 DEF PoolInv, Sound

LEMMA RevertKeepsInv ==
    ASSUME PoolInv, revert
    PROVE  PoolInv'
  <1>1. tx' = Idle /\ book' = before.book /\ beta' = before.beta /\ listed' = before.listed /\ CanRevert
    BY Flying DEF revert
  <1>2. \A a \in Asset : due(a)' = 0
    BY <1>1 DEF due, inCalls, slack
  <1>3. Covered'
    BY <1>1, <1>2 DEF CanRevert, Sound, Entry, Covered, onEntry
  <1> QED
    BY <1>1, <1>3 DEF PoolInv, CanRevert, Sound

-----------------------------------------------------------------------------
(* Withdrawals and switches.                                               *)

\* Of no asset the pool has less to spare.
NoLess == \A x \in Asset : book'[x].balance - onEntry(book'[x]) >= book[x].balance - onEntry(book[x])

LEMMA OneMore ==
    ASSUME PoolInv, NEW a \in Asset, NEW b \in Entry, book' = [book EXCEPT ![a] = b],
           b.balance - onEntry(b) >= book[a].balance - onEntry(book[a])
    PROVE  NoLess
  BY DEF NoLess, PoolInv, Sound, Entry, onEntry

\* A call that changes one asset's entry between transactions.
LEMMA IdleKeepsInv ==
    ASSUME PoolInv, tx = Idle, UNCHANGED <<listed, tx, before>>,
           NEW a \in Asset, NEW b \in Entry, book' = [book EXCEPT ![a] = b],
           b.balance - onEntry(b) >= book[a].balance - onEntry(book[a]),
           beta' \in [Asset -> BetaEntry],
           \A x \in Asset, d \in Account : beta'[x].refundable[d] <= beta'[x].refundableTotal
    PROVE  PoolInv' /\ NoLess
  <1>1. \A x \in Asset : due(x) = 0 /\ due(x)' = 0
    BY DEF due, inCalls, slack
  <1>2. b.balance >= onEntry(b) + due(a)'
    <2>1. book[a] \in Entry /\ book[a].balance >= onEntry(book[a])
      BY <1>1 DEF PoolInv, Sound, Entry, Covered, onEntry
    <2> QED
      BY <1>1, <2>1 DEF Entry, onEntry
  <1>3. book' \in [Asset -> Entry] /\ Covered'
    <2>1. \A x \in Asset : due(x)' = due(x) /\ due(x)' \in Int
      BY <1>1
    <2> QED
      BY <1>2, <2>1, OneEntry DEF PoolInv, Sound
  <1> QED
    BY <1>3, OneMore DEF PoolInv, Sound

\* claim and sweepFees empty one ledger and pay at most what it held.
LEMMA ClaimedEntry ==
    ASSUME NEW b \in Entry, NEW p \in Account
    PROVE  /\ claimed(b, p) \in Entry
           /\ claimed(b, p).balance = b.balance /\ claimed(b, p).lost = b.lost
           /\ onEntry(claimed(b, p)) = onEntry(b) - b.claimable[p]
  <1> DEFINE c == claimed(b, p)
             rest == [b.claimable EXCEPT ![p] = 0]
  <1>1. c = [b EXCEPT !.claimable = rest, !.totalClaimable = @ - b.claimable[p]]
    BY DEF claimed, Entry
  <1>2. rest \in [Account -> Nat] /\ b.claimable[p] \in Nat
    BY DEF Entry
  <1> HIDE DEF c, rest
  <1>3. c = [balance |-> b.balance, shielded |-> b.shielded, claimable |-> rest,
             totalClaimable |-> b.totalClaimable - b.claimable[p], unswept |-> b.unswept,
             lost |-> b.lost]
    BY <1>1 DEF Entry
  <1>4. /\ c \in Entry /\ c.balance = b.balance /\ onEntry(c) = onEntry(b) - b.claimable[p]
        /\ c.lost = b.lost
    BY <1>2, <1>3 DEF Entry, onEntry
  <1> QED
    BY <1>4 DEF c

LEMMA SweptEntry ==
    ASSUME NEW b \in Entry
    PROVE  /\ swept(b) \in Entry
           /\ swept(b).balance = b.balance /\ swept(b).lost = b.lost
           /\ onEntry(swept(b)) = onEntry(b) - b.unswept
  BY DEF Entry, swept, onEntry

\* A payout of at most n from an entry that owes n less.
LEMMA PaidOutKeepsInv ==
    ASSUME PoolInv, tx = Idle, UNCHANGED <<listed, tx, before>>,
           NEW a \in Asset, NEW n \in Nat, NEW c \in Entry,
           c.balance = book[a].balance, onEntry(c) = onEntry(book[a]) - n,
           NEW moved \in PayOut(a, n), moved <= book[a].balance,
           book' = [book EXCEPT ![a] = drawn(c, moved)],
           beta' \in [Asset -> BetaEntry],
           \A x \in Asset, d \in Account : beta'[x].refundable[d] <= beta'[x].refundableTotal
    PROVE  PoolInv' /\ NoLess
  <1> DEFINE b == drawn(c, moved)
  <1>1. moved \in 0 .. n
    BY PayOutBounded
  <1>2. b \in Entry /\ b.balance = book[a].balance - moved /\ onEntry(b) = onEntry(book[a]) - n
    BY <1>1, DrawnEntry
  <1>3. book' = [book EXCEPT ![a] = b]
    OBVIOUS
  <1> HIDE DEF b
  <1>4. b.balance - onEntry(b) >= book[a].balance - onEntry(book[a])
    <2>1. book[a].balance \in Nat /\ onEntry(book[a]) \in Int
      BY DEF PoolInv, Sound, Entry, onEntry
    <2> QED
      BY <1>1, <1>2, <2>1
  <1> QED
    BY <1>2, <1>3, <1>4, IdleKeepsInv

LEMMA ClaimKeepsInv ==
    ASSUME PoolInv, NEW s \in Account, NEW a \in Asset, claim(s, a)
    PROVE  PoolInv' /\ NoLess
  <1>1. book[a] \in Entry /\ tx = Idle /\ UNCHANGED <<beta, listed, tx, before>>
    BY DEF claim, PoolInv, Sound
  <1>2. book[a].claimable[s] \in Nat
    BY <1>1 DEF Entry
  <1>3. PICK moved \in PayOut(a, book[a].claimable[s]) :
          moved <= book[a].balance /\ book' = [book EXCEPT ![a] = drawn(claimed(book[a], s), moved)]
    BY DEF claim
  <1> QED
    BY <1>1, <1>2, <1>3, ClaimedEntry, PaidOutKeepsInv DEF PoolInv, Sound

LEMMA SweepKeepsInv ==
    ASSUME PoolInv, NEW a \in Asset, sweepFees(a)
    PROVE  PoolInv' /\ NoLess
  <1>1. book[a] \in Entry /\ tx = Idle /\ UNCHANGED <<beta, listed, tx, before>>
    BY DEF sweepFees, PoolInv, Sound
  <1>2. book[a].unswept \in Nat
    BY <1>1 DEF Entry
  <1>3. PICK moved \in PayOut(a, book[a].unswept) :
          moved <= book[a].balance /\ book' = [book EXCEPT ![a] = drawn(swept(book[a]), moved)]
    BY DEF sweepFees
  <1> QED
    BY <1>1, <1>2, <1>3, SweptEntry, PaidOutKeepsInv DEF PoolInv, Sound

\* The terms of a refund that is owed are positive, so its division is defined.
LEMMA RefundNat ==
    ASSUME PoolInv, NEW a \in Asset, NEW d \in Account, beta[a].refundable[d] # 0
    PROVE  /\ terms(a).assets \in Nat /\ terms(a).base \in Nat \ {0}
           /\ refundOf(a, beta[a].refundable[d]) \in Nat
  <1> DEFINE owed == beta[a].refundable[d]
  <1>1. book[a] \in Entry /\ beta[a] \in BetaEntry /\ owed <= beta[a].refundableTotal
    BY DEF PoolInv, Sound
  <1>2. /\ owed \in Nat \ {0} /\ beta[a].refundableTotal \in Nat
        /\ beta[a].refundAssets \in Nat /\ beta[a].refundBase \in Nat /\ book[a].shielded \in Nat
    BY <1>1 DEF BetaEntry, Entry
  <1> HIDE DEF owed
  <1>3. terms(a).assets \in Nat /\ terms(a).base \in Nat \ {0}
    BY <1>1, <1>2 DEF terms
  <1>4. (owed * terms(a).assets) \div terms(a).base \in Nat
    BY <1>2, <1>3, ProductNat, QuotientNat
  <1>5. refundOf(a, owed) \in Nat
    BY <1>2, <1>4 DEF refundOf
  <1> QED
    BY <1>3, <1>5 DEF owed

LEMMA RefundKeepsInv ==
    ASSUME PoolInv, NEW s \in Account, NEW a \in Asset, NEW d \in Account, betaRefund(s, a, d)
    PROVE  PoolInv' /\ NoLess
  <1> DEFINE amount == refundOf(a, beta[a].refundable[d])
             e == [beta[a] EXCEPT !.refundable[d] = 0, !.refundAssets = terms(a).assets,
                                  !.refundBase = terms(a).base]
  <1>1. /\ book[a] \in Entry /\ beta[a] \in BetaEntry /\ tx = Idle
        /\ beta[a].refundable[d] # 0 /\ covers(book[a], amount)
        /\ UNCHANGED <<listed, tx, before>>
    BY DEF betaRefund, PoolInv, Sound
  <1>2. terms(a).assets \in Nat /\ terms(a).base \in Nat \ {0} /\ amount \in Nat
    BY <1>1, RefundNat
  <1>3. PICK moved \in PayOut(a, amount) :
          moved <= book[a].balance /\ book' = [book EXCEPT ![a] = drawn(debited(book[a], amount), moved)]
    BY DEF betaRefund
  <1>4. beta' = [beta EXCEPT ![a] = e]
    BY DEF betaRefund, PoolInv, Sound
  <1> HIDE DEF amount
  <1>5. e \in BetaEntry /\ \A x \in Account : e.refundable[x] <= e.refundableTotal
    <2> DEFINE ref == [beta[a].refundable EXCEPT ![d] = 0]
    <2>1. e = [beta[a] EXCEPT !.refundable = ref, !.refundAssets = terms(a).assets,
                              !.refundBase = terms(a).base]
      BY <1>1 DEF BetaEntry
    <2>2. /\ ref \in [Account -> Nat] /\ beta[a].refundableTotal \in Nat
          /\ \A x \in Account : ref[x] <= beta[a].refundableTotal
      BY <1>1 DEF BetaEntry, PoolInv, Sound
    <2> HIDE DEF ref, e
    <2> QED
      BY <1>1, <1>2, <2>1, <2>2 DEF BetaEntry
  <1> HIDE DEF e
  <1>6. /\ beta' \in [Asset -> BetaEntry]
        /\ \A x \in Asset, y \in Account : beta'[x].refundable[y] <= beta'[x].refundableTotal
    BY <1>4, <1>5 DEF PoolInv, Sound
  <1>7. /\ debited(book[a], amount) \in Entry /\ debited(book[a], amount).balance = book[a].balance
        /\ onEntry(debited(book[a], amount)) = onEntry(book[a]) - amount
    BY <1>1, <1>2, DebitedEntry
  <1> QED
    BY <1>1, <1>2, <1>3, <1>6, <1>7, PaidOutKeepsInv

\* The owner's switches touch neither the books nor what is in flight.
LEMMA SwitchKeepsInv ==
    ASSUME PoolInv, switch, listed' \subseteq Asset, beta' \in [Asset -> BetaEntry],
           \A a \in Asset : /\ beta'[a].refundable = beta[a].refundable
                            /\ beta'[a].refundableTotal = beta[a].refundableTotal
    PROVE  PoolInv'
  BY DEF switch, ledgerVars, PoolInv, Sound, CanRevert, Chain, Covered, due, inCalls, slack, onEntry

LEMMA CapsKeepInv ==
    ASSUME PoolInv, NEW a \in Asset, NEW c \in Caps, NEW t \in Caps, setBetaCaps(a, c, t)
    PROVE  PoolInv'
  <1> DEFINE e == [beta[a] EXCEPT !.addrCap = c, !.totalCap = t]
  <1>1. beta' = [beta EXCEPT ![a] = e] /\ beta[a] \in BetaEntry
    BY DEF setBetaCaps, PoolInv, Sound
  <1>2. /\ e \in BetaEntry /\ e.refundable = beta[a].refundable
        /\ e.refundableTotal = beta[a].refundableTotal
    BY <1>1, PoolAssumption DEF BetaEntry
  <1> HIDE DEF e
  <1>3. /\ beta' \in [Asset -> BetaEntry]
        /\ \A x \in Asset : /\ beta'[x].refundable = beta[x].refundable
                            /\ beta'[x].refundableTotal = beta[x].refundableTotal
    BY <1>1, <1>2 DEF PoolInv, Sound
  <1>4. switch /\ listed' \subseteq Asset
    BY DEF setBetaCaps, PoolInv, Sound
  <1> QED
    BY <1>3, <1>4, SwitchKeepsInv

\* A gift adds to a balance, at any moment.
LEMMA GiftKeepsInv ==
    ASSUME PoolInv, NEW a \in Asset, receive(a)
    PROVE  PoolInv' /\ NoLess
  <1> DEFINE b == [book[a] EXCEPT !.balance = @ + 1]
  <1>1. book[a] \in Entry /\ book' = [book EXCEPT ![a] = b]
    BY DEF receive, PoolInv, Sound
  <1>2. b \in Entry /\ b.balance = book[a].balance + 1 /\ onEntry(b) = onEntry(book[a])
    BY <1>1 DEF Entry, onEntry
  <1> HIDE DEF b
  <1>3. ASSUME NEW x \in Asset
        PROVE  due(x)' = due(x) /\ due(x) \in Int
    <2>1. UNCHANGED <<tx, before>>
      BY DEF receive
    <2>2. due(x)' = due(x)
      BY <2>1 DEF due, inCalls, slack, onEntry
    <2>3. CASE tx = Idle
      BY <2>2, <2>3 DEF due, inCalls, slack
    <2>4. CASE tx # Idle
      BY <2>2, <2>4, FlyingInts
    <2> QED
      BY <2>2, <2>3, <2>4
  <1>4. b.balance >= onEntry(b) + due(a)'
    <2>1. book[a].balance >= onEntry(book[a]) + due(a)
      BY DEF PoolInv, Covered
    <2>2. book[a].balance \in Nat /\ onEntry(book[a]) \in Int
      BY <1>1 DEF Entry, onEntry
    <2> QED
      BY <1>2, <1>3, <2>1, <2>2
  <1>5. book' \in [Asset -> Entry] /\ Covered'
    BY <1>1, <1>2, <1>3, <1>4, OneEntry DEF PoolInv, Sound
  <1>6. UNCHANGED <<beta, listed, tx, before>>
    BY DEF receive
  <1>7. NoLess
    <2>1. b.balance - onEntry(b) >= book[a].balance - onEntry(book[a])
      BY <1>1, <1>2 DEF Entry, onEntry
    <2> QED
      BY <1>1, <1>2, <2>1, OneMore
  <1> QED
    BY <1>5, <1>6, <1>7 DEF PoolInv, Sound, Chain, CanRevert, onEntry

LEMMA AdminKeepsInv ==
    ASSUME PoolInv, Switch
    PROVE  PoolInv'
  <1> USE DEF PoolInv, Sound
  <1>1. ASSUME NEW a \in Asset, registerAsset(a)
        PROVE  PoolInv'
    BY <1>1, SwitchKeepsInv DEF registerAsset
  <1>2. ASSUME NEW a \in Asset, receive(a)
        PROVE  PoolInv'
    BY <1>2, GiftKeepsInv
  <1>3. ASSUME NEW on \in BOOLEAN, setDepositsPaused(on) \/ setBetaPaused(on) \/ setOpenDeposits(on)
        PROVE  PoolInv'
    BY <1>3, SwitchKeepsInv DEF setDepositsPaused, setBetaPaused, setOpenDeposits
  <1>4. ASSUME NEW s \in Account, NEW d \in Account, NEW on \in BOOLEAN, setBetaDepositor(s, d, on)
        PROVE  PoolInv'
    BY <1>4, SwitchKeepsInv DEF setBetaDepositor
  <1>5. ASSUME NEW a \in Asset, NEW c \in Caps, NEW t \in Caps, setBetaCaps(a, c, t)
        PROVE  PoolInv'
    BY <1>5, CapsKeepInv
  <1>6. ASSUME NEW r \in Account \cup {NoOne}, setDepositorRegistrar(r)
        PROVE  PoolInv'
    BY <1>6, SwitchKeepsInv DEF setDepositorRegistrar
  <1>7. CASE endBetaMode
    BY <1>7, SwitchKeepsInv DEF endBetaMode
  <1> QED
    BY <1>1, <1>2, <1>3, <1>4, <1>5, <1>6, <1>7 DEF Switch

-----------------------------------------------------------------------------
(* The pool's promises.                                                    *)

LEMMA PoolStepInv == PoolInv /\ [PoolNext]_poolVars => PoolInv'
  <1> SUFFICES ASSUME PoolInv, [PoolNext]_poolVars
               PROVE  PoolInv'
    OBVIOUS
  <1>1. CASE Deposit
    BY <1>1, AbsorbKeepsInv, PoolAssumption DEF Deposit
  <1>2. CASE Settle
    <2>1. PICK s \in Account, n \in 1 .. MAX_INTENTS :
            \E batch \in [1 .. n -> Intents(Account, Account \cup {SUBMITTER})] :
            \E r \in {{}} \cup {{x} : x \in Residuals}, price \in Prices :
                settleBatch(s, batch, r, price)
      BY <1>2 DEF Settle
    <2>2. n \in Nat
      BY PoolAssumption
    <2> QED
      BY <2>1, <2>2, SettleKeepsInv DEF Swap
  <1>3. CASE InFlightStep
    <2>1. tx # Idle
      <3>1. tx.kind = "settle" => tx # Idle
        BY DEF Idle
      <3> QED
        BY <1>3, <3>1, Zenon DEF InFlightStep, account, payOrCredit, payFee, paying, settleResidual, commit, revert
    <2> QED
      BY <1>3, <2>1, AccountKeepsInv, PayeeKeepsInv, FeeKeepsInv, ResidualKeepsInv, CommitKeepsInv,
         RevertKeepsInv DEF InFlightStep
  <1>4. CASE Withdraw
    BY <1>4, ClaimKeepsInv, SweepKeepsInv, RefundKeepsInv DEF Withdraw
  <1>5. CASE Switch
    BY <1>5, AdminKeepsInv
  <1>6. CASE UNCHANGED poolVars
    BY <1>6 DEF poolVars, ledgerVars, PoolInv, Sound, CanRevert, Chain, Covered, due, inCalls, slack, onEntry
  <1> QED
    BY <1>1, <1>2, <1>3, <1>4, <1>5, <1>6 DEF PoolNext

THEOREM PoolInvariant == PoolSpec => []PoolInv
  <1> QED
    BY PoolInitInv, PoolStepInv, PTL DEF PoolSpec

-----------------------------------------------------------------------------
(* Refunds.                                                                *)

\* The share of what an asset's frozen terms give, never more than was owed.
shareOf(e, owed) ==
    LET share == (owed * e.refundAssets) \div e.refundBase
    IN IF share > owed THEN owed ELSE share

\* Every refund made is the share of the terms that its asset still has.
OnTerms(bt, rf) ==
    \A r \in rf : /\ r.asset \in Asset
                  /\ bt[r.asset].refundBase # 0
                  /\ r.owed \in Nat
                  /\ r.paid = shareOf(bt[r.asset], r.owed)
                  /\ r.paid <= r.owed

FairInv ==
    /\ OnTerms(beta, refunds)
    /\ tx # Idle => OnTerms(before.beta, before.refunds)

\* A step that leaves the terms and the refunds alone keeps every refund on them.
LEMMA TermsKeepFair ==
    ASSUME FairInv, UNCHANGED refunds,
           \A a \in Asset : /\ beta'[a].refundBase = beta[a].refundBase
                            /\ beta'[a].refundAssets = beta[a].refundAssets,
           tx' # Idle => \/ tx # Idle /\ UNCHANGED before
                         \/ before'.beta = beta /\ before'.refunds = refunds
    PROVE  FairInv'
  <1>1. OnTerms(beta, refunds)'
    BY DEF FairInv, OnTerms, shareOf
  <1>2. tx' # Idle => OnTerms(before.beta, before.refunds)'
    BY DEF FairInv, OnTerms, shareOf
  <1> QED
    BY <1>1, <1>2 DEF FairInv

LEMMA RefundKeepsFair ==
    ASSUME PoolInv, FairInv, NEW s \in Account, NEW a \in Asset, NEW d \in Account, betaRefund(s, a, d)
    PROVE  FairInv'
  <1> DEFINE owed == beta[a].refundable[d]
             amount == refundOf(a, owed)
             e == [beta[a] EXCEPT !.refundable[d] = 0, !.refundAssets = terms(a).assets,
                                  !.refundBase = terms(a).base]
  <1>1. /\ beta[a] \in BetaEntry /\ beta \in [Asset -> BetaEntry]
        /\ owed # 0 /\ owed \in Nat /\ tx' = Idle
    BY DEF betaRefund, PoolInv, Sound, BetaEntry
  <1>2. terms(a).assets \in Nat /\ terms(a).base \in Nat \ {0} /\ amount \in Nat
    BY <1>1, RefundNat
  <1>3. /\ beta' = [beta EXCEPT ![a] = e]
        /\ refunds' = refunds \cup {[asset |-> a, depositor |-> d, owed |-> owed, paid |-> amount]}
    BY DEF betaRefund, PoolInv, Sound
  <1>4. e.refundAssets = terms(a).assets /\ e.refundBase = terms(a).base
    BY <1>1 DEF BetaEntry
  <1>5. beta[a].refundBase # 0 => /\ e.refundAssets = beta[a].refundAssets
                                  /\ e.refundBase = beta[a].refundBase
    BY <1>4 DEF terms
  <1>6. amount = shareOf(e, owed) /\ amount <= owed
    <2>1. (owed * terms(a).assets) \div terms(a).base \in Nat
      BY <1>1, <1>2, ProductNat, QuotientNat
    <2> QED
      BY <1>1, <1>4, <2>1 DEF refundOf, shareOf
  <1> HIDE DEF e, amount, owed
  <1>7. \A x \in Asset : beta'[x] = IF x = a THEN e ELSE beta[x]
    BY <1>1, <1>3
  <1>8. ASSUME NEW r \in refunds'
        PROVE  /\ r.asset \in Asset
               /\ beta'[r.asset].refundBase # 0
               /\ r.owed \in Nat
               /\ r.paid = shareOf(beta'[r.asset], r.owed)
               /\ r.paid <= r.owed
    <2>1. CASE r \in refunds
      <3>1. /\ r.asset \in Asset /\ beta[r.asset].refundBase # 0 /\ r.owed \in Nat
            /\ r.paid = shareOf(beta[r.asset], r.owed) /\ r.paid <= r.owed
        BY <2>1 DEF FairInv, OnTerms
      <3>2. /\ beta'[r.asset].refundBase = beta[r.asset].refundBase
            /\ beta'[r.asset].refundAssets = beta[r.asset].refundAssets
        BY <1>5, <1>7, <3>1
      <3> QED
        BY <3>1, <3>2 DEF shareOf
    <2>2. CASE r = [asset |-> a, depositor |-> d, owed |-> owed, paid |-> amount]
      <3>1. r.asset = a /\ r.owed = owed /\ r.paid = amount /\ beta'[r.asset] = e
        BY <1>7, <2>2
      <3> QED
        BY <1>1, <1>2, <1>4, <1>6, <3>1
    <2> QED
      BY <1>3, <2>1, <2>2
  <1> QED
    BY <1>1, <1>8 DEF FairInv, OnTerms

LEMMA FairStep == PoolInv /\ FairInv /\ [PoolNext]_poolVars => FairInv'
  <1> SUFFICES ASSUME PoolInv, FairInv, [PoolNext]_poolVars
               PROVE  FairInv'
    OBVIOUS
  <1>1. beta \in [Asset -> BetaEntry]
    BY DEF PoolInv, Sound
  <1>2. ASSUME NEW s \in Account, NEW a \in Asset, NEW u \in Units, NEW f \in FeeUnits, absorb(s, a, u, f)
        PROVE  FairInv'
    <2>1. \A x \in Asset : /\ beta'[x].refundBase = beta[x].refundBase
                           /\ beta'[x].refundAssets = beta[x].refundAssets
      BY <1>1, <1>2, ZenonT(60) DEF absorb, BetaEntry
    <2> QED
      BY <1>2, <2>1, TermsKeepFair DEF absorb, state, history
  <1>3. CASE Settle
    BY <1>3, TermsKeepFair DEF Settle, settleBatch, state, history
  <1>4. CASE account \/ payOrCredit \/ payFee \/ settleResidual
    <2>1. tx # Idle
      <3>1. tx.kind = "settle" => tx # Idle
        BY DEF Idle
      <3> QED
        BY <1>4, <3>1, Zenon DEF account, payOrCredit, payFee, paying, settleResidual
    <2>2. UNCHANGED <<refunds, beta, before>>
      BY <1>4 DEF account, payOrCredit, payFee, settleResidual, history
    <2> QED
      BY <2>1, <2>2, TermsKeepFair
  <1>5. CASE commit
    BY <1>5, TermsKeepFair DEF commit, history
  <1>6. CASE revert
    BY <1>6 DEF revert, FairInv
  <1>7. ASSUME NEW s \in Account, NEW a \in Asset, NEW d \in Account, betaRefund(s, a, d)
        PROVE  FairInv'
    BY <1>7, RefundKeepsFair
  <1>8. ASSUME NEW a \in Asset, (\E s \in Account : claim(s, a)) \/ sweepFees(a) \/ receive(a)
        PROVE  FairInv'
    BY <1>8, TermsKeepFair DEF claim, sweepFees, receive, history
  <1>9. ASSUME NEW a \in Asset, NEW c \in Caps, NEW t \in Caps, setBetaCaps(a, c, t)
        PROVE  FairInv'
    <2>1. \A x \in Asset : /\ beta'[x].refundBase = beta[x].refundBase
                           /\ beta'[x].refundAssets = beta[x].refundAssets
      BY <1>1, <1>9 DEF setBetaCaps, BetaEntry
    <2> QED
      BY <1>9, <2>1, TermsKeepFair DEF setBetaCaps, switch, history
  <1>10. ASSUME switch, UNCHANGED beta
         PROVE  FairInv'
    BY <1>10, TermsKeepFair DEF switch, history
  <1>11. CASE Switch
    <2>1. ASSUME NEW a \in Asset, registerAsset(a)
          PROVE  FairInv'
      BY <2>1, <1>10 DEF registerAsset
    <2>2. ASSUME NEW on \in BOOLEAN, setDepositsPaused(on) \/ setBetaPaused(on) \/ setOpenDeposits(on)
          PROVE  FairInv'
      BY <2>2, <1>10 DEF setDepositsPaused, setBetaPaused, setOpenDeposits
    <2>3. ASSUME NEW s \in Account, NEW d \in Account, NEW on \in BOOLEAN, setBetaDepositor(s, d, on)
          PROVE  FairInv'
      BY <2>3, <1>10 DEF setBetaDepositor
    <2>4. ASSUME NEW r \in Account \cup {NoOne}, setDepositorRegistrar(r)
          PROVE  FairInv'
      BY <2>4, <1>10 DEF setDepositorRegistrar
    <2>5. CASE endBetaMode
      BY <2>5, <1>10 DEF endBetaMode
    <2> QED
      BY <1>8, <1>9, <1>11, <2>1, <2>2, <2>3, <2>4, <2>5 DEF Switch
  <1>12. CASE UNCHANGED poolVars
    BY <1>12, TermsKeepFair DEF poolVars, history
  <1> QED
    BY <1>2, <1>3, <1>4, <1>5, <1>6, <1>7, <1>8, <1>9, <1>11, <1>12
       DEF PoolNext, Deposit, InFlightStep, Withdraw

\* Equal refundable deposits of an asset are refunded equally, first or last, and
\* never with a profit, since the first refund freezes the terms (betaRefund).
THEOREM RefundsStayFair == PoolSpec => []RefundsAreFair
  <1>1. PoolInit => FairInv
    BY DEF PoolInit, FairInv, OnTerms
  <1>2. FairInv => RefundsAreFair
    BY DEF FairInv, OnTerms, RefundsAreFair
  <1> QED
    BY <1>1, <1>2, FairStep, PoolInvariant, PTL DEF PoolSpec

-----------------------------------------------------------------------------
(* Winding down.                                                           *)

Switches == [depositsPaused : BOOLEAN, betaMode : BOOLEAN, betaPaused : BOOLEAN,
             openDeposits : BOOLEAN, depositors : SUBSET Account,
             registrar : Account \cup {NoOne}, woundDown : BOOLEAN]

\* The pool is wound down only in beta mode, and never while a transaction is in
\* flight, nor was it when that transaction began.
WoundInv ==
    /\ admit \in Switches
    /\ admit.woundDown => admit.betaMode /\ tx = Idle
    /\ tx # Idle => before.admit \in Switches /\ ~before.admit.woundDown

LEMMA WoundStep == PoolInv /\ WoundInv /\ [PoolNext]_poolVars => WoundInv'
  <1> SUFFICES ASSUME PoolInv, WoundInv, [PoolNext]_poolVars
               PROVE  WoundInv'
    OBVIOUS
  <1> USE DEF WoundInv
  <1>1. CASE Deposit
    BY <1>1 DEF Deposit, absorb, state
  <1>2. CASE Settle
    BY <1>2 DEF Settle, settleBatch, state
  <1>3. CASE account \/ payOrCredit \/ payFee \/ settleResidual
    <2>1. tx # Idle
      <3>1. tx.kind = "settle" => tx # Idle
        BY DEF Idle
      <3> QED
        BY <1>3, <3>1, Zenon DEF account, payOrCredit, payFee, paying, settleResidual
    <2>2. UNCHANGED <<admit, before>>
      BY <1>3 DEF account, payOrCredit, payFee, settleResidual
    <2> QED
      BY <2>1, <2>2
  <1>4. CASE commit \/ revert
    BY <1>4 DEF commit, revert
  <1>5. CASE Withdraw
    <2>1. ASSUME NEW s \in Account, NEW a \in Asset, claim(s, a) \/ sweepFees(a)
          PROVE  WoundInv'
      BY <2>1 DEF claim, sweepFees
    <2>2. ASSUME NEW a \in Asset, sweepFees(a)
          PROVE  WoundInv'
      BY <2>2 DEF sweepFees
    <2>3. ASSUME NEW s \in Account, NEW d \in Account, NEW a \in Asset, betaRefund(s, a, d)
          PROVE  WoundInv'
      <3>1. /\ admit' = [admit EXCEPT !.woundDown = TRUE] /\ admit.betaMode /\ tx = Idle
            /\ UNCHANGED tx
        BY <2>3 DEF betaRefund
      <3> QED
        BY <3>1 DEF Switches
    <2> QED
      BY <1>5, <2>1, <2>2, <2>3 DEF Withdraw
  <1>6. CASE Switch
    <2> USE DEF switch, Switches
    <2>1. ASSUME NEW a \in Asset, registerAsset(a) \/ receive(a)
          PROVE  WoundInv'
      BY <2>1 DEF registerAsset, receive
    <2>2. ASSUME NEW on \in BOOLEAN, setDepositsPaused(on) \/ setBetaPaused(on) \/ setOpenDeposits(on)
          PROVE  WoundInv'
      BY <2>2 DEF setDepositsPaused, setBetaPaused, setOpenDeposits
    <2>3. ASSUME NEW s \in Account, NEW d \in Account, NEW on \in BOOLEAN, setBetaDepositor(s, d, on)
          PROVE  WoundInv'
      BY <2>3 DEF setBetaDepositor
    <2>4. ASSUME NEW r \in Account \cup {NoOne}, setDepositorRegistrar(r)
          PROVE  WoundInv'
      BY <2>4 DEF setDepositorRegistrar
    <2>5. ASSUME NEW a \in Asset, NEW c \in Caps, NEW t \in Caps, setBetaCaps(a, c, t)
          PROVE  WoundInv'
      BY <2>5 DEF setBetaCaps
    <2>6. CASE endBetaMode
      BY <2>6 DEF endBetaMode, mayEndBeta
    <2> QED
      BY <1>6, <2>1, <2>2, <2>3, <2>4, <2>5, <2>6 DEF Switch
  <1>7. CASE UNCHANGED poolVars
    BY <1>7 DEF poolVars
  <1> QED
    BY <1>1, <1>2, <1>3, <1>4, <1>5, <1>6, <1>7 DEF PoolNext, InFlightStep

\* What a step of a wound-down pool may do.
LEMMA WoundDownStep ==
    ASSUME PoolInv, WoundInv, PoolNext, admit.woundDown
    PROVE  /\ admit'.woundDown /\ tx' = Idle
           /\ \A a \in Asset : book'[a].shielded <= book[a].shielded
  <1>1. /\ tx = Idle /\ admit \in Switches /\ book \in [Asset -> Entry]
        /\ \A a \in Asset : book[a] \in Entry /\ book[a].shielded \in Nat
    BY DEF WoundInv, PoolInv, Sound, Entry
  <1>2. ~Deposit /\ ~Settle /\ ~InFlightStep
    <2>1. tx.kind # "settle"
      BY <1>1 DEF Idle
    <2> QED
      BY <1>1, <2>1 DEF Deposit, absorb, Settle, settleBatch, InFlightStep, account, payOrCredit, payFee, paying,
         settleResidual, commit, revert
  <1>3. ASSUME NEW s \in Account, NEW a \in Asset, claim(s, a)
        PROVE  UNCHANGED <<admit, tx>> /\ \A x \in Asset : book'[x].shielded = book[x].shielded
    <2>1. PICK moved \in PayOut(a, book[a].claimable[s]) :
            book' = [book EXCEPT ![a] = drawn(claimed(book[a], s), moved)]
      BY <1>3 DEF claim
    <2>2. drawn(claimed(book[a], s), moved).shielded = book[a].shielded
      BY <1>1 DEF drawn, claimed, Entry
    <2> QED
      BY <1>1, <1>3, <2>1, <2>2 DEF claim
  <1>4. ASSUME NEW a \in Asset, sweepFees(a)
        PROVE  UNCHANGED <<admit, tx>> /\ \A x \in Asset : book'[x].shielded = book[x].shielded
    <2>1. PICK moved \in PayOut(a, book[a].unswept) :
            book' = [book EXCEPT ![a] = drawn(swept(book[a]), moved)]
      BY <1>4 DEF sweepFees
    <2>2. drawn(swept(book[a]), moved).shielded = book[a].shielded
      BY <1>1 DEF drawn, swept, Entry
    <2> QED
      BY <1>1, <1>4, <2>1, <2>2 DEF sweepFees
  <1>5. ASSUME NEW s \in Account, NEW a \in Asset, NEW d \in Account, betaRefund(s, a, d)
        PROVE  /\ admit'.woundDown /\ UNCHANGED tx
               /\ \A x \in Asset : book'[x].shielded <= book[x].shielded
    <2> DEFINE amount == refundOf(a, beta[a].refundable[d])
    <2>1. PICK moved \in PayOut(a, amount) :
            book' = [book EXCEPT ![a] = drawn(debited(book[a], amount), moved)]
      BY <1>5 DEF betaRefund
    <2>2. amount \in Nat
      BY <1>5, RefundNat DEF betaRefund
    <2> HIDE DEF amount
    <2>3. drawn(debited(book[a], amount), moved).shielded = book[a].shielded - amount
      BY <1>1 DEF drawn, debited, Entry
    <2>4. admit'.woundDown /\ UNCHANGED tx
      BY <1>1, <1>5 DEF betaRefund, Switches
    <2> QED
      BY <1>1, <2>1, <2>2, <2>3, <2>4
  <1>6. ASSUME NEW a \in Asset, receive(a)
        PROVE  UNCHANGED <<admit, tx>> /\ \A x \in Asset : book'[x].shielded = book[x].shielded
    <2>1. book' = [book EXCEPT ![a] = [book[a] EXCEPT !.balance = @ + 1]]
      BY <1>1, <1>6 DEF receive
    <2>2. [book[a] EXCEPT !.balance = @ + 1].shielded = book[a].shielded
      BY <1>1 DEF Entry
    <2> QED
      BY <1>1, <1>6, <2>1, <2>2 DEF receive
  <1>7. ASSUME Switch, ~ \E a \in Asset : receive(a)
        PROVE  admit'.woundDown /\ UNCHANGED <<tx, book>>
    BY <1>1, <1>7 DEF Switch, registerAsset, setDepositsPaused, setBetaPaused, setOpenDeposits, setBetaDepositor,
       setDepositorRegistrar, setBetaCaps, endBetaMode, mayEndBeta, switch, ledgerVars, Switches
  <1>8. ASSUME UNCHANGED tx, admit'.woundDown,
               \A a \in Asset : book'[a].shielded = book[a].shielded
        PROVE  /\ admit'.woundDown /\ tx' = Idle
               /\ \A a \in Asset : book'[a].shielded <= book[a].shielded
    BY <1>1, <1>8
  <1> QED
    BY <1>1, <1>2, <1>3, <1>4, <1>5, <1>6, <1>7, <1>8 DEF PoolNext, Withdraw

\* A wound-down pool stays so and stays in beta mode: it takes no deposit,
\* settles nothing, and its shielded totals only shrink (betaRefund, endBetaMode).
THEOREM WoundDownStaysFinal == PoolSpec => WoundDownIsFinal
  <1>1. PoolInit => WoundInv
    BY PoolAssumption DEF PoolInit, WoundInv, Switches
  <1>2. PoolInv /\ WoundInv /\ WoundInv' /\ [PoolNext]_poolVars =>
          [admit.woundDown =>
             /\ admit'.woundDown /\ admit'.betaMode /\ tx' = Idle
             /\ \A a \in Asset : book'[a].shielded <= book[a].shielded]_poolVars
    BY WoundDownStep DEF WoundInv
  <1> QED
    BY <1>1, <1>2, WoundStep, PoolInvariant, PTL DEF PoolSpec, WoundDownIsFinal
-----------------------------------------------------------------------------
(* What is lost sight of.                                                  *)

\* Assets every push of which is measured.
Sighted(x) == x = Native \/ ~Hostile

LostInv ==
    /\ \A x \in Asset : Sighted(x) => book[x].lost = 0
    /\ tx # Idle => \A x \in Asset : /\ Sighted(x) => before.book[x].lost = 0
                                     /\ before.book[x].lost <= book[x].lost

LostGrows ==
    \A x \in Asset : /\ book'[x].lost >= book[x].lost
                     /\ Sighted(x) => book'[x].lost = book[x].lost

\* A push loses sight of what its outcome says.
LEMMA LostInPush ==
    ASSUME NEW b \in Entry, NEW o, NEW p
    PROVE  /\ credited(pushed(b, o), p, o.unpaid).lost = b.lost + o.lost
           /\ deferred(pushed(b, o), o.unpaid).lost = b.lost + o.lost
  BY DEF Entry, pushed, credited, deferred

LEMMA OneLost ==
    ASSUME PoolInv, NEW a \in Asset, NEW b, book' = [book EXCEPT ![a] = b],
           b.lost >= book[a].lost, Sighted(a) => b.lost = book[a].lost
    PROVE  LostGrows
  BY DEF LostGrows, PoolInv, Sound, Entry

LEMMA SameLost ==
    ASSUME PoolInv, NEW a \in Asset, NEW b, book' = [book EXCEPT ![a] = b], b.lost = book[a].lost
    PROVE  LostGrows
  BY DEF LostGrows, PoolInv, Sound, Entry

LEMMA NoneLost ==
    ASSUME PoolInv, UNCHANGED book
    PROVE  LostGrows
  BY DEF LostGrows, PoolInv, Sound, Entry

LEMMA LostInCalls ==
    ASSUME PoolInv, Deposit \/ Settle \/ Withdraw \/ Switch
    PROVE  LostGrows
  <1>0. \A x \in Asset : book[x] \in Entry /\ book[x].lost \in Nat
    BY DEF PoolInv, Sound, Entry
  <1>1. ASSUME NEW s \in Account, NEW a \in Asset, NEW u, NEW f, absorb(s, a, u, f)
        PROVE  LostGrows
    <2>1. book' = [book EXCEPT ![a] = paidIn(book[a], u * Scale[a], depositTaken(a, u, f))]
      BY <1>1 DEF absorb, PoolInv, Sound
    <2> DEFINE b == paidIn(book[a], u * Scale[a], depositTaken(a, u, f))
    <2>2. b.lost = book[a].lost
      BY <1>0 DEF Entry, drawn, paidIn, swept, claimed, debited, credited
    <2> HIDE DEF b
    <2>3. book' = [book EXCEPT ![a] = b]
      BY <2>1 DEF b
    <2> QED
      BY <2>2, <2>3, SameLost, Zenon
  <1>2. CASE Settle
    BY <1>2, NoneLost DEF Settle, settleBatch
  <1>3. ASSUME NEW s \in Account, NEW a \in Asset, claim(s, a)
        PROVE  LostGrows
    <2>1. PICK moved : book' = [book EXCEPT ![a] = drawn(claimed(book[a], s), moved)]
      BY <1>3 DEF claim, PoolInv, Sound
    <2> DEFINE b == drawn(claimed(book[a], s), moved)
    <2>2. b.lost = book[a].lost
      BY <1>0 DEF Entry, drawn, paidIn, swept, claimed, debited, credited
    <2> HIDE DEF b
    <2>3. book' = [book EXCEPT ![a] = b]
      BY <2>1 DEF b
    <2> QED
      BY <2>2, <2>3, SameLost, Zenon
  <1>4. ASSUME NEW a \in Asset, sweepFees(a)
        PROVE  LostGrows
    <2>1. PICK moved : book' = [book EXCEPT ![a] = drawn(swept(book[a]), moved)]
      BY <1>4 DEF sweepFees, PoolInv, Sound
    <2> DEFINE b == drawn(swept(book[a]), moved)
    <2>2. b.lost = book[a].lost
      BY <1>0 DEF Entry, drawn, paidIn, swept, claimed, debited, credited
    <2> HIDE DEF b
    <2>3. book' = [book EXCEPT ![a] = b]
      BY <2>1 DEF b
    <2> QED
      BY <2>2, <2>3, SameLost, Zenon
  <1>5. ASSUME NEW s \in Account, NEW a \in Asset, NEW d \in Account, betaRefund(s, a, d)
        PROVE  LostGrows
    <2>1. PICK amount, moved : book' = [book EXCEPT ![a] = drawn(debited(book[a], amount), moved)]
      BY <1>5 DEF betaRefund, PoolInv, Sound
    <2> DEFINE b == drawn(debited(book[a], amount), moved)
    <2>2. b.lost = book[a].lost
      BY <1>0 DEF Entry, drawn, paidIn, swept, claimed, debited, credited
    <2> HIDE DEF b
    <2>3. book' = [book EXCEPT ![a] = b]
      BY <2>1 DEF b
    <2> QED
      BY <2>2, <2>3, SameLost, Zenon
  <1>6. ASSUME NEW a \in Asset, receive(a)
        PROVE  LostGrows
    <2>1. book' = [book EXCEPT ![a] = [book[a] EXCEPT !.balance = book[a].balance + 1]]
      BY <1>6 DEF receive, PoolInv, Sound
    <2> DEFINE b == [book[a] EXCEPT !.balance = book[a].balance + 1]
    <2>2. b.lost = book[a].lost
      BY <1>0 DEF Entry, drawn, paidIn, swept, claimed, debited, credited
    <2> HIDE DEF b
    <2>3. book' = [book EXCEPT ![a] = b]
      BY <2>1 DEF b
    <2> QED
      BY <2>2, <2>3, SameLost, Zenon
  <1>7. CASE switch
    BY <1>7, NoneLost DEF switch, ledgerVars
  <1>8. Switch => switch \/ \E a \in Asset : receive(a)
    BY DEF Switch, registerAsset, setDepositsPaused, setBetaPaused, setOpenDeposits, setBetaDepositor,
           setBetaCaps, setDepositorRegistrar, endBetaMode
  <1> QED
    BY <1>1, <1>2, <1>3, <1>4, <1>5, <1>6, <1>7, <1>8 DEF Deposit, Withdraw

LEMMA LostInFlight ==
    ASSUME PoolInv, tx # Idle, account \/ payOrCredit \/ payFee \/ settleResidual \/ commit
    PROVE  LostGrows
  <1>0. \A x \in Asset : book[x] \in Entry /\ book[x].lost \in Nat
    BY DEF PoolInv, Sound, Entry
  <1>1. tx \in Transaction
    BY Flying
  <1>2. CASE account
    <2>1. Head(tx.todo) \in Intent
      BY <1>1, <1>2 DEF account, Transaction
    <2> SUFFICES ASSUME NEW it, it = Head(tx.todo), NEW a \in Asset, a = it.asset
                 PROVE  LostGrows
      BY <2>1 DEF Intent
    <2> DEFINE left(n) == debited(book[a], n)
    <2>2. PICK n, m, p : book' = [book EXCEPT ![a] = IF it.feeTo = NoOne THEN left(n)
                                                     ELSE credited(left(n), p, m)]
      BY <1>2, Zenon DEF account
    <2> DEFINE b == IF it.feeTo = NoOne THEN left(n) ELSE credited(left(n), p, m)
    <2>3. b.lost = book[a].lost
      BY <1>0 DEF Entry, drawn, paidIn, swept, claimed, debited, credited
    <2>4. book' = [book EXCEPT ![a] = b]
      BY <2>2
    <2> HIDE DEF b
    <2> QED
      BY <2>3, <2>4, SameLost, Zenon
  <1>3. ASSUME NEW e, NEW a \in Asset, NEW n \in Nat, NEW o \in Push(a, n),
               \/ book' = [book EXCEPT ![a] =
                              credited(pushed(book[a], o), e, o.unpaid)]
               \/ book' = [book EXCEPT ![a] =
                              deferred(pushed(book[a], o), o.unpaid)]
        PROVE  LostGrows
    <2>1. o.lost \in Nat /\ (Sighted(a) => o.lost = 0)
      BY PushSplits DEF Sighted
    <2>2. PICK b : book' = [book EXCEPT ![a] = b] /\ b.lost = book[a].lost + o.lost
      <3> DEFINE b == credited(pushed(book[a], o), e, o.unpaid)
                 c == deferred(pushed(book[a], o), o.unpaid)
      <3>1. b.lost = book[a].lost + o.lost /\ c.lost = book[a].lost + o.lost
        BY <1>0, LostInPush
      <3>2. book' = [book EXCEPT ![a] = b] \/ book' = [book EXCEPT ![a] = c]
        BY <1>3
      <3> HIDE DEF b, c
      <3> QED
        BY <3>1, <3>2
    <2>3. b.lost >= book[a].lost /\ (Sighted(a) => b.lost = book[a].lost)
      BY <1>0, <2>1, <2>2
    <2> QED
      BY <2>2, <2>3, OneLost, Zenon
  <1>4. tx.pays # <<>> => Head(tx.pays) \in Payment
    BY <1>1 DEF Transaction
  <1>5. CASE payOrCredit
    <2>1. Head(tx.pays).asset \in Asset /\ Head(tx.pays).toPayee \in Nat
      BY <1>4, <1>5 DEF payOrCredit, paying, Payment
    <2>2. PICK o \in Push(Head(tx.pays).asset, Head(tx.pays).toPayee) :
            book' = [book EXCEPT ![Head(tx.pays).asset] =
                       credited(pushed(book[Head(tx.pays).asset], o),
                                Head(tx.pays).to, o.unpaid)]
      BY <1>5, Zenon DEF payOrCredit
    <2> QED
      BY <1>3, <2>1, <2>2, Zenon
  <1>6. CASE payFee
    <2>1. Head(tx.pays).asset \in Asset /\ Head(tx.pays).toRouter \in Nat
      BY <1>4, <1>6 DEF payFee, paying, Payment
    <2>2. PICK o \in Push(Head(tx.pays).asset, Head(tx.pays).toRouter) :
            book' = [book EXCEPT ![Head(tx.pays).asset] =
                       deferred(pushed(book[Head(tx.pays).asset], o),
                                o.unpaid)]
      BY <1>6, Zenon DEF payFee
    <2> QED
      BY <1>3, <2>1, <2>2, Zenon
  <1>7. CASE settleResidual
    <2>1. PICK r \in tx.residual :
            /\ r.assetIn # r.assetOut
            /\ \E taken \in {0, r.amountIn}, out \in r.amountOutMin .. (r.amountOutMin + 1) :
                 book' = [book EXCEPT
                      ![r.assetIn] = drawn(debited(@, r.amountIn), taken),
                      ![r.assetOut] = swappedIn(@, out, out % Scale[r.assetOut])]
      BY <1>7, ZenonT(30) DEF settleResidual
    <2>2. r.assetIn \in Asset /\ r.assetOut \in Asset
      BY <1>1, <2>1, PoolAssumption DEF Transaction, Swap
    <2>3. PICK taken, out :
            book' = [book EXCEPT
                      ![r.assetIn] = drawn(debited(@, r.amountIn), taken),
                      ![r.assetOut] = swappedIn(@, out, out % Scale[r.assetOut])]
      BY <2>1, Zenon
    <2> DEFINE i == r.assetIn
               j == r.assetOut
               b == drawn(debited(book[i], r.amountIn), taken)
               c == swappedIn(book[j], out, out % Scale[r.assetOut])
    <2>4. b.lost = book[i].lost
      BY <1>0, <2>2 DEF Entry, drawn, debited, swappedIn
    <2>5. c.lost = book[j].lost
      BY <1>0, <2>2 DEF Entry, drawn, debited, swappedIn
    <2>6. book' = [[book EXCEPT ![i] = b] EXCEPT ![j] = c] /\ i # j
      BY <2>1, <2>2, <2>3 DEF PoolInv, Sound
    <2> HIDE DEF b, c
    <2>7. \A x \in Asset : book'[x] = IF x = j THEN c ELSE IF x = i THEN b ELSE book[x]
      BY <2>2, <2>6 DEF PoolInv, Sound
    <2>8. \A x \in Asset : book'[x].lost = book[x].lost
      BY <2>4, <2>5, <2>7, Zenon
    <2> QED
      BY <1>0, <2>8 DEF LostGrows
  <1>8. CASE commit
    BY <1>8, NoneLost DEF commit, ledgerVars
  <1> QED
    BY <1>2, <1>5, <1>6, <1>7, <1>8
-----------------------------------------------------------------------------
(* The pool as a custodian.                                                *)

\* A transaction begins from what is committed, runs beside it, and ends in it or in
\* what it began from; a call without a transaction leaves no less to spare.
LEMMA Beginnings ==
    ASSUME Deposit \/ Settle
    PROVE  tx = Idle /\ tx' # Idle /\ before' = state
  <1>1. ASSUME NEW s \in Account, NEW a \in Asset, NEW u, NEW f, absorb(s, a, u, f)
        PROVE  tx = Idle /\ tx' # Idle /\ before' = state
    BY <1>1 DEF absorb, InFlight, Idle
  <1>2. ASSUME NEW s \in Account, NEW batch, NEW r, NEW price, settleBatch(s, batch, r, price)
        PROVE  tx = Idle /\ tx' # Idle /\ before' = state
    BY <1>2 DEF settleBatch, InFlight, Idle
  <1> QED
    BY <1>1, <1>2 DEF Deposit, Settle

LEMMA Flights ==
    ASSUME PoolInv, InFlightStep
    PROVE  /\ tx # Idle
           /\ \/ tx' # Idle /\ before' = before
              \/ tx' = Idle /\ book' = before.book
              \/ commit
  <1>1. tx # Idle
    <2>1. tx.kind = "settle" => tx # Idle
      BY DEF Idle
    <2> QED
      BY <2>1, Zenon DEF InFlightStep, account, payOrCredit, payFee, paying, settleResidual, commit, revert
  <1>2. tx \in Transaction
    BY <1>1, Flying
  <1>3. CASE account \/ payOrCredit \/ payFee \/ settleResidual
    <2>1. before' = before
      BY <1>3 DEF account, payOrCredit, payFee, settleResidual
    <2>2. tx'.kind = tx.kind
      <3>1. CASE account
        BY <1>2, <3>1 DEF account, Transaction
      <3>2. CASE payOrCredit
        BY <1>2, <3>2 DEF payOrCredit, Transaction
      <3>3. CASE payFee
        BY <1>2, <3>3 DEF payFee, Transaction
      <3>4. CASE settleResidual
        BY <1>2, <3>4 DEF settleResidual, Transaction
      <3> QED
        BY <1>3, <3>1, <3>2, <3>3, <3>4
    <2>3. tx' # Idle
      BY <1>2, <2>2 DEF Transaction, Idle
    <2> QED
      BY <1>1, <2>1, <2>3
  <1>4. CASE revert
    BY <1>1, <1>4 DEF revert
  <1> QED
    BY <1>1, <1>3, <1>4 DEF InFlightStep

LEMMA Calls ==
    ASSUME PoolInv, Withdraw \/ Switch
    PROVE  tx' = tx /\ before' = before /\ (tx = Idle => NoLess)
  <1>1. ASSUME NEW s \in Account, NEW a \in Asset, claim(s, a)
        PROVE  tx' = tx /\ before' = before /\ NoLess
    BY <1>1, ClaimKeepsInv DEF claim
  <1>2. ASSUME NEW a \in Asset, sweepFees(a)
        PROVE  tx' = tx /\ before' = before /\ NoLess
    BY <1>2, SweepKeepsInv DEF sweepFees
  <1>3. ASSUME NEW s \in Account, NEW a \in Asset, NEW d \in Account, betaRefund(s, a, d)
        PROVE  tx' = tx /\ before' = before /\ NoLess
    BY <1>3, RefundKeepsInv DEF betaRefund
  <1>4. ASSUME NEW a \in Asset, receive(a)
        PROVE  tx' = tx /\ before' = before /\ NoLess
    BY <1>4, GiftKeepsInv DEF receive
  <1>5. CASE switch
    <2>1. tx' = tx /\ before' = before /\ book' = book
      BY <1>5 DEF switch, ledgerVars
    <2> QED
      BY <2>1 DEF NoLess, PoolInv, Sound, Entry, onEntry
  <1>6. Switch => switch \/ \E a \in Asset : receive(a)
    BY DEF Switch, registerAsset, setDepositsPaused, setBetaPaused, setOpenDeposits, setBetaDepositor,
           setBetaCaps, setDepositorRegistrar, endBetaMode
  <1> QED
    BY <1>1, <1>2, <1>3, <1>4, <1>5, <1>6 DEF Withdraw

LEMMA LostStep == PoolInv /\ LostInv /\ [PoolNext]_poolVars => LostInv'
  <1> SUFFICES ASSUME PoolInv, LostInv, [PoolNext]_poolVars
               PROVE  LostInv'
    OBVIOUS
  <1>0. \A x \in Asset : book[x].lost \in Nat
    BY DEF PoolInv, Sound, Entry
  <1>1. CASE Deposit \/ Settle
    <2>1. tx' # Idle /\ before'.book = book /\ LostGrows
      BY <1>1, Beginnings, LostInCalls DEF state
    <2>2. \A x \in Asset : Sighted(x)' <=> Sighted(x)
      BY DEF Sighted
    <2> QED
      BY <2>1, <2>2 DEF LostInv, LostGrows
  <1>2. ASSUME LostGrows, UNCHANGED before, tx' # Idle => tx # Idle
        PROVE  LostInv'
    <2>1. \A x \in Asset : Sighted(x)' <=> Sighted(x)
      BY DEF Sighted
    <2>2. ASSUME NEW x \in Asset, Sighted(x)
          PROVE  book'[x].lost = 0
      BY <1>2, <2>2 DEF LostInv, LostGrows
    <2>3. ASSUME NEW x \in Asset, tx # Idle
          PROVE  before'.book[x].lost <= book'[x].lost /\ (Sighted(x) => before'.book[x].lost = 0)
      <3>1. before.book[x].lost <= book[x].lost /\ (Sighted(x) => before.book[x].lost = 0)
        BY <2>3 DEF LostInv
      <3>2. book'[x].lost >= book[x].lost /\ before.book[x].lost \in Nat /\ book[x].lost \in Nat
            /\ (Sighted(x) => book'[x].lost = 0)
        BY <1>0, <1>2, <2>2, <2>3, Flying DEF LostGrows, CanRevert, Sound, Entry
      <3>3. book'[x].lost \in Int
        BY <1>2, <2>3, PoolStepInv DEF PoolInv, Sound, Entry
      <3> QED
        BY <1>2, <3>1, <3>2, <3>3
    <2> QED
      BY <1>2, <2>1, <2>2, <2>3 DEF LostInv
  <1>3. CASE Withdraw \/ Switch
    BY <1>2, <1>3, Calls, LostInCalls
  <1>4. CASE InFlightStep
    <2>1. tx # Idle
      BY <1>4, Flights
    <2>2. CASE revert
      BY <2>1, <2>2 DEF revert, LostInv, Sighted
    <2>3. CASE commit
      <3>1. tx' = Idle /\ book' = book
        BY <2>3 DEF commit, ledgerVars
      <3> QED
        BY <3>1 DEF LostInv, Sighted
    <2>4. CASE account \/ payOrCredit \/ payFee \/ settleResidual
      <3>1. before' = before
        BY <2>4 DEF account, payOrCredit, payFee, settleResidual
      <3> QED
        BY <1>2, <2>1, <2>4, <3>1, LostInFlight
    <2> QED
      BY <1>4, <2>2, <2>3, <2>4 DEF InFlightStep
  <1>5. CASE UNCHANGED poolVars
    BY <1>2, <1>5, NoneLost DEF poolVars, ledgerVars
  <1> QED
    BY <1>1, <1>3, <1>4, <1>5 DEF PoolNext

LEMMA LostInit == PoolInit => LostInv
  BY PoolAssumption DEF PoolInit, LostInv

LEMMA LostInvariant == PoolSpec => []LostInv
  <1> QED
    BY LostInit, LostStep, PoolInvariant, PTL DEF PoolSpec

\* At every instant of every transaction, whatever part of a push a token moves and
\* whatever it answers, the pool's balance of each asset covers all its ledgers and
\* all payouts still to be made (settleBatch, absorb, claim, sweepFees and
\* betaRefund), but for what left in pushes of that asset whose balance could not be
\* read (_pushToken); the native coin is short of nothing.
THEOREM PoolIsSolvent == PoolSpec => []Solvent
  <1>1. PoolInv /\ LostInv => Solvent
    <2> SUFFICES ASSUME PoolInv, LostInv
                 PROVE  Solvent
      OBVIOUS
    <2>n. book[Native].lost = 0
      BY PoolAssumption DEF LostInv, Sighted
    <2>s. SUFFICES ASSUME NEW a \in Asset
                   PROVE  book[a].balance + book[a].lost >= onBooks(a) + inCalls(a)
      BY <2>n DEF Solvent
    <2>g. SUFFICES book[a].balance >= onEntry(book[a]) + inCalls(a)
      <3>1. tx = Idle \/ tx \in Transaction
        BY DEF PoolInv, Sound
      <3>2. inCalls(a) \in Int
        BY <3>1 DEF inCalls, Transaction
      <3>3. onEntry(book[a]) = onBooks(a) - book[a].lost /\ book[a] \in Entry
        BY DEF onEntry, onBooks, PoolInv, Sound
      <3> QED
        BY <3>2, <3>3 DEF Entry, onBooks
    <2>1. book[a] \in Entry /\ book[a].balance >= onEntry(book[a]) + due(a)
      BY DEF PoolInv, Sound, Covered
    <2>2. CASE tx = Idle
      BY <2>1, <2>2 DEF due, inCalls, slack, Entry, onEntry
    <2>3. CASE tx # Idle
      <3>1. /\ tx \in Transaction /\ CanRevert
            /\ due(a) = (tx.setAside[a] - tx.paid[a]) + slack(a) /\ slack(a) \in Int
        BY <2>3, Flying
      <3>2. slack(a) >= 0
        BY <2>3, <3>1 DEF slack, CanRevert, Sound, Entry, onEntry
      <3>3. tx.setAside[a] - tx.paid[a] \in Int /\ inCalls(a) = tx.setAside[a] - tx.paid[a]
        BY <2>3, <3>1 DEF Transaction, inCalls
      <3>4. book[a].balance \in Nat /\ onEntry(book[a]) \in Int
        BY <2>1 DEF Entry, onEntry
      <3> QED
        BY <2>1, <3>1, <3>2, <3>3, <3>4
    <2> QED
      BY <2>2, <2>3
  <1> QED
    BY <1>1, PoolInvariant, LostInvariant, PTL

LEMMA CommitKeepsSpare ==
    ASSUME PoolInv, commit, NEW x \in Asset
    PROVE  book[x].balance - onEntry(book[x]) >= before.book[x].balance - onEntry(before.book[x])
  <1>1. tx # Idle /\ tx.pays = <<>>
    BY DEF commit
  <1>2. tx.setAside[x] - tx.paid[x] = 0
    BY <1>1, Flying DEF Chain, Transaction
  <1>3. /\ book[x] \in Entry /\ slack(x) \in Int
        /\ book[x].balance >= onEntry(book[x]) + slack(x)
    BY <1>1, <1>2, Flying
  <1> QED
    BY <1>1, <1>3 DEF slack, Entry, onEntry

LEMMA CustodyStep ==
    ASSUME PoolInv, PoolInv', LostInv, LostInv', [PoolNext]_poolVars
    PROVE  [Promise!Transaction]_(Promise!custodyVars)
  <1> DEFINE books == [a \in Asset |-> committed[a].balance]
             owing == [a \in Asset |-> committed[a].shielded + committed[a].totalClaimable
                                          + committed[a].unswept]
             unseen == [a \in Asset |-> committed[a].lost]
  <1>1. CASE committed' = committed
    BY <1>1 DEF Promise!custodyVars
  <1>2. CASE /\ committed \in [Asset -> Entry] /\ committed' \in [Asset -> Entry]
             /\ \A x \in Asset : committed'[x].balance - onEntry(committed'[x])
                                   >= committed[x].balance - onEntry(committed[x])
             /\ \A x \in Asset : committed'[x].lost >= committed[x].lost
    <2>1. books' \in [Asset -> Nat] /\ owing' \in [Asset -> Int] /\ unseen' \in [Asset -> Nat]
      BY <1>2 DEF Entry
    <2>2. ASSUME NEW x \in Asset
          PROVE  /\ books'[x] + unseen'[x] - owing'[x] >= books[x] + unseen[x] - owing[x]
                 /\ unseen'[x] >= unseen[x]
      BY <1>2 DEF onEntry, Entry
    <2>3. \A x \in {Native} : unseen'[x] = 0
      BY PoolAssumption DEF committed, LostInv, Sighted
    <2> QED
      BY <2>1, <2>2, <2>3 DEF Promise!Transaction, Promise!spare
  <1>3. CASE Deposit \/ Settle
    BY <1>1, <1>3, Beginnings DEF committed, state
  <1>4. CASE InFlightStep
    <2>1. CASE commit
      <3>1. tx # Idle /\ tx' = Idle /\ book' = book
        BY <2>1 DEF commit, ledgerVars
      <3>2. committed = before.book /\ committed' = book
        BY <3>1 DEF committed
      <3>3. book \in [Asset -> Entry] /\ before.book \in [Asset -> Entry]
        BY <3>1, Flying DEF PoolInv, Sound, CanRevert
      <3> QED
        BY <1>2, <2>1, <3>1, <3>2, <3>3, CommitKeepsSpare DEF LostInv
    <2>2. CASE ~commit
      BY <1>1, <1>4, <2>2, Flights DEF committed
    <2> QED
      BY <2>1, <2>2
  <1>5. CASE Withdraw \/ Switch
    <2>1. CASE tx = Idle
      <3>1. committed = book /\ committed' = book'
        BY <1>5, <2>1, Calls DEF committed
      <3> QED
        BY <1>2, <1>5, <2>1, <3>1, Calls, LostInCalls DEF NoLess, LostGrows, PoolInv, Sound
    <2>2. CASE tx # Idle
      BY <1>1, <1>5, <2>2, Calls DEF committed
    <2> QED
      BY <2>1, <2>2
  <1>6. CASE UNCHANGED poolVars
    BY <1>1, <1>6 DEF poolVars, ledgerVars, committed
  <1> QED
    BY <1>3, <1>4, <1>5, <1>6 DEF PoolNext

LEMMA CustodyBegins == PoolInit => Promise!CustodyInit
  BY DEF PoolInit, committed, Promise!CustodyInit

\* Whatever is settled, refused, swapped, claimed, swept, refunded or reverted, the pool is a
\* custodian: no transaction leaves it less to spare of any asset, but for what its own pushes
\* of that asset moved while its balance could not be read; of the native coin never.
THEOREM PoolIsCustodian == PoolSpec => PoolKeepsCustody
  <1>1. PoolInv /\ PoolInv' /\ LostInv /\ LostInv' /\ [PoolNext]_poolVars
          => [Promise!Transaction]_(Promise!custodyVars)
    BY CustodyStep
  <1> QED
    BY <1>1, CustodyBegins, PoolInvariant, LostInvariant, PTL DEF PoolSpec, PoolKeepsCustody, Promise!CustodySpec
-----------------------------------------------------------------------------
(* The residual swap's band.                                               *)

LEMMA CeilCovers ==
    ASSUME NEW x \in Nat, NEW y \in Nat \ {0}
    PROVE  ceilDiv(x, y) \in Nat /\ ceilDiv(x, y) * y >= x
  <1> DEFINE q == (x + y - 1) \div y
             d == (x + y - 1) % y
  <1>1. x + y - 1 \in Nat
    OBVIOUS
  <1>2. q \in Nat /\ d \in 0 .. y - 1 /\ x + y - 1 = q * y + d
    BY <1>1
  <1> HIDE DEF q, d
  <1>3. q * y >= x
    <2>1. q * y \in Nat
      BY <1>2, ProductNat
    <2> QED
      BY <1>2, <2>1
  <1> QED
    BY <1>2, <1>3 DEF ceilDiv, q

\* Both roundings of the floor are upwards, so what reaches the floor reaches the price
\* less the band.
LEMMA FloorCovers ==
    ASSUME NEW r \in Residuals, NEW price \in Nat, NEW out \in Nat, out >= bandFloor(r, price)
    PROVE  out * PRICE_SCALE * Scale[r.assetIn] * BPS
             >= r.amountIn * price * Scale[r.assetOut] * (BPS - residualBandBps)
  <1> DEFINE A == r.amountIn * price * Scale[r.assetOut]
             B == PRICE_SCALE * Scale[r.assetIn]
             k == BPS - residualBandBps
             c == ceilDiv(A, B)
             f == ceilDiv(c * k, BPS)
  <1>1. /\ r.amountIn \in Nat /\ Scale[r.assetOut] \in Nat /\ Scale[r.assetIn] \in Nat \ {0}
        /\ PRICE_SCALE \in Nat \ {0} /\ BPS \in Nat \ {0} /\ residualBandBps \in 0 .. BPS
    BY PoolAssumption
  <1>2. A \in Nat /\ B \in Nat \ {0} /\ k \in Nat
    <2>1. r.amountIn * price \in Nat
      BY <1>1, ProductNat
    <2>2. A \in Nat
      BY <1>1, <2>1, ProductNat
    <2>3. B \in Nat \ {0}
      BY <1>1
    <2> QED
      BY <1>1, <2>2, <2>3
  <1>f. out >= f
    BY DEF bandFloor
  <1>o. /\ out * PRICE_SCALE * Scale[r.assetIn] * BPS = (out * BPS) * B
        /\ r.amountIn * price * Scale[r.assetOut] * (BPS - residualBandBps) = A * k
    <2>1. ASSUME NEW p \in Nat, NEW s \in Nat, NEW b \in Nat
          PROVE  out * p * s * b = (out * b) * (p * s)
      OBVIOUS
    <2> QED
      BY <1>1, <2>1
  <1> HIDE DEF A, B, k
  <1>3. c \in Nat /\ c * B >= A
    BY <1>2, CeilCovers
  <1> HIDE DEF c
  <1>4. c * k \in Nat /\ c * B \in Nat /\ out * BPS \in Nat
    BY <1>1, <1>2, <1>3, ProductNat
  <1>5. f \in Nat /\ f * BPS >= c * k
    BY <1>1, <1>4, CeilCovers
  <1> HIDE DEF f
  <1>6. out * BPS >= c * k
    <2>1. out * BPS >= f * BPS /\ f * BPS \in Nat
      BY <1>1, <1>5, <1>f, Monotone, ProductNat
    <2> QED
      BY <1>4, <1>5, <2>1
  <1>7. (out * BPS) * B >= (c * k) * B
    BY <1>2, <1>4, <1>6, Monotone
  <1>8. (c * B) * k >= A * k
    BY <1>2, <1>3, <1>4, Monotone
  <1>9. (c * k) * B = (c * B) * k
    BY <1>2, <1>3
  <1>10. (out * BPS) * B \in Nat /\ (c * B) * k \in Nat /\ A * k \in Nat
    BY <1>2, <1>4, ProductNat
  <1> QED
    BY <1>7, <1>8, <1>9, <1>10, <1>o

LEMMA FloorNat ==
    ASSUME NEW r \in Residuals, NEW price \in Nat
    PROVE  bandFloor(r, price) \in Nat
  <1> DEFINE A == r.amountIn * price * Scale[r.assetOut]
             B == PRICE_SCALE * Scale[r.assetIn]
             k == BPS - residualBandBps
  <1>1. /\ r.amountIn \in Nat /\ Scale[r.assetOut] \in Nat /\ Scale[r.assetIn] \in Nat \ {0}
        /\ PRICE_SCALE \in Nat \ {0} /\ BPS \in Nat \ {0} /\ k \in Nat
    BY PoolAssumption
  <1>2. r.amountIn * price \in Nat /\ A \in Nat /\ B \in Nat \ {0}
    BY <1>1, ProductNat
  <1>3. bandFloor(r, price) = ceilDiv(ceilDiv(A, B) * k, BPS)
    BY DEF bandFloor
  <1> HIDE DEF A, B, k
  <1>4. ceilDiv(A, B) * k \in Nat
    BY <1>1, <1>2, CeilCovers, ProductNat
  <1> QED
    BY <1>1, <1>3, <1>4, CeilCovers

\* Only the swap itself takes its residual out of a transaction that goes on.
LEMMA OnlySwap ==
    ASSUME PoolInv, [PoolNext]_poolVars, tx # Idle, tx' # Idle, tx'.residual # tx.residual
    PROVE  settleResidual
  <1>1. tx \in Transaction
    BY Flying
  <1>2. ~Deposit /\ ~Settle
    BY Beginnings
  <1>3. ~Withdraw /\ ~Switch
    BY Calls
  <1>4. ~UNCHANGED poolVars
    BY DEF poolVars
  <1>5. ~account
    BY <1>1 DEF account, Transaction
  <1>6. ~payOrCredit
    BY <1>1 DEF payOrCredit, Transaction
  <1>7. ~payFee
    BY <1>1 DEF payFee, Transaction
  <1>8. ~commit /\ ~revert
    BY DEF commit, revert
  <1> QED
    BY <1>2, <1>3, <1>4, <1>5, <1>6, <1>7, <1>8 DEF PoolNext, InFlightStep

LEMMA SwapKeepsBand ==
    ASSUME PoolInv, tx # Idle, settleResidual, NEW r \in tx.residual
    PROVE  LET b == book[r.assetOut]  c == book'[r.assetOut]
           IN (c.shielded + c.unswept - b.shielded - b.unswept) * PRICE_SCALE * Scale[r.assetIn] * BPS
                >= r.amountIn * tx.price * Scale[r.assetOut] * (BPS - residualBandBps)
  <1>1. tx \in Transaction /\ book \in [Asset -> Entry]
    BY Flying DEF PoolInv, Sound
  <1>2. r \in Residuals /\ tx.price \in Nat /\ \A x \in tx.residual : x = r
    BY <1>1 DEF Transaction, Swap
  <1>q. PICK q \in tx.residual :
          /\ q.assetIn # q.assetOut
          /\ q.amountOutMin >= bandFloor(q, tx.price)
          /\ \E taken \in {0, q.amountIn}, out \in q.amountOutMin .. (q.amountOutMin + 1) :
                book' = [book EXCEPT
                   ![q.assetIn] = drawn(debited(@, q.amountIn), taken),
                   ![q.assetOut] = swappedIn(@, out, out % Scale[q.assetOut])]
    BY DEF settleResidual
  <1>3. PICK taken \in {0, q.amountIn}, out \in q.amountOutMin .. (q.amountOutMin + 1) :
          book' = [book EXCEPT
             ![q.assetIn] = drawn(debited(@, q.amountIn), taken),
             ![q.assetOut] = swappedIn(@, out, out % Scale[q.assetOut])]
    BY <1>q
  <1>r. q = r
    BY <1>2
  <1>4. /\ r.assetIn \in Asset /\ r.assetOut \in Asset /\ r.amountIn \in Nat /\ r.amountOutMin \in Nat
        /\ Scale[r.assetOut] \in Nat \ {0} /\ out \in Nat /\ out >= r.amountOutMin
    BY <1>2, <1>3, <1>r, PoolAssumption
  <1> DEFINE b == book[r.assetOut]
             c == book'[r.assetOut]
             dust == out % Scale[r.assetOut]
  <1>5. c = swappedIn(b, out, dust)
    BY <1>1, <1>q, <1>3, <1>4, <1>r
  <1>6. dust \in 0 .. out
    BY <1>4, QuotientNat
  <1>7. b \in Entry
    BY <1>1, <1>4
  <1> HIDE DEF b, c, dust
  <1>8. c.shielded + c.unswept - b.shielded - b.unswept = out
    BY <1>4, <1>5, <1>6, <1>7 DEF swappedIn, Entry
  <1>9. out >= bandFloor(r, tx.price)
    <2>1. bandFloor(r, tx.price) \in Nat
      BY <1>2, FloorNat
    <2> QED
      BY <1>q, <1>4, <1>r, <2>1
  <1>10. out * PRICE_SCALE * Scale[r.assetIn] * BPS
           >= r.amountIn * tx.price * Scale[r.assetOut] * (BPS - residualBandBps)
    BY <1>2, <1>4, <1>9, FloorCovers
  <1> QED
    BY <1>8, <1>10 DEF b, c

\* Whatever minimum the submitter names and whatever the DEX router does, a swap brings in
\* the price of the proof less the band (_settleResidual).
THEOREM SwapsKeepBand == PoolSpec => ResidualKeepsBand
  <1>1. PoolInv /\ [PoolNext]_poolVars =>
          [\A r \in Residuals :
             tx # Idle /\ tx' # Idle /\ r \in tx.residual \ tx'.residual =>
                LET b == book[r.assetOut]  c == book'[r.assetOut]
                IN (c.shielded + c.unswept - b.shielded - b.unswept) * PRICE_SCALE * Scale[r.assetIn] * BPS
                     >= r.amountIn * tx.price * Scale[r.assetOut] * (BPS - residualBandBps)]_poolVars
    <2> SUFFICES ASSUME PoolInv, [PoolNext]_poolVars, NEW r \in Residuals,
                        tx # Idle, tx' # Idle, r \in tx.residual \ tx'.residual
                 PROVE  LET b == book[r.assetOut]  c == book'[r.assetOut]
                        IN (c.shielded + c.unswept - b.shielded - b.unswept) * PRICE_SCALE
                               * Scale[r.assetIn] * BPS
                             >= r.amountIn * tx.price * Scale[r.assetOut] * (BPS - residualBandBps)
      OBVIOUS
    <2>1. settleResidual
      BY OnlySwap
    <2> QED
      BY <2>1, SwapKeepsBand
  <1> QED
    BY <1>1, PoolInvariant, PTL DEF PoolSpec, ResidualKeepsBand

-----------------------------------------------------------------------------
(* The credits.                                                            *)

addsUp(b) == b.totalClaimable = SumFunction(b.claimable)

\* A payment that is not nothing has someone to go to.
Named(t) ==
    /\ \A i \in DOMAIN t.todo : t.todo[i].publicAmount # 0 => t.todo[i].to \in Account
    /\ \A i \in DOMAIN t.pays : t.pays[i].toPayee # 0 => t.pays[i].to \in Account

TotalsInv ==
    /\ TotalsAddUp
    /\ tx # Idle => Named(tx) /\ \A a \in Asset : addsUp(before.book[a])

\* A credit raises one account's claim and the total alike, a claim lowers both.
LEMMA CreditedAddsUp ==
    ASSUME NEW b \in Entry, addsUp(b), NEW amount \in Nat, NEW to, amount # 0 => to \in Account
    PROVE  addsUp(credited(b, to, amount))
  <1>1. CASE amount = 0
    BY <1>1 DEF credited
  <1>2. CASE amount # 0
    <2> DEFINE more == [b.claimable EXCEPT ![to] = @ + amount]
    <2>1. /\ b.claimable \in [Account -> Nat] /\ more \in [Account -> Nat]
          /\ more[to] = b.claimable[to] + amount /\ b.claimable[to] \in Nat
          /\ \A p \in Account \ {to} : more[p] = b.claimable[p]
          /\ b.totalClaimable \in Int
      BY <1>2 DEF Entry
    <2>2. /\ credited(b, to, amount).claimable = more
          /\ credited(b, to, amount).totalClaimable = b.totalClaimable + amount
      BY <1>2 DEF credited, Entry
    <2> HIDE DEF more
    <2>3. SumFunctionOnSet(more, Account)
            = SumFunctionOnSet(b.claimable, Account) + (more[to] - b.claimable[to])
      BY <1>2, <2>1, SumChanges, PoolAssumption
    <2>4. SumFunctionOnSet(b.claimable, Account) = b.totalClaimable
      BY <2>1 DEF addsUp, SumFunction
    <2>5. SumFunction(more) = b.totalClaimable + amount
      BY <2>1, <2>3, <2>4 DEF SumFunction
    <2> QED
      BY <2>2, <2>5 DEF addsUp
  <1> QED
    BY <1>1, <1>2

LEMMA ClaimedAddsUp ==
    ASSUME NEW b \in Entry, addsUp(b), NEW p \in Account
    PROVE  addsUp(claimed(b, p))
  <1> DEFINE rest == [b.claimable EXCEPT ![p] = 0]
  <1>1. /\ b.claimable \in [Account -> Nat] /\ rest \in [Account -> Nat]
        /\ rest[p] = 0 /\ b.claimable[p] \in Nat
        /\ \A q \in Account \ {p} : rest[q] = b.claimable[q]
        /\ b.totalClaimable \in Int
    BY DEF Entry
  <1>2. /\ claimed(b, p).claimable = rest
        /\ claimed(b, p).totalClaimable = b.totalClaimable - b.claimable[p]
    BY DEF claimed, Entry
  <1> HIDE DEF rest
  <1>3. SumFunctionOnSet(rest, Account)
          = SumFunctionOnSet(b.claimable, Account) + (rest[p] - b.claimable[p])
    BY <1>1, SumChanges, PoolAssumption
  <1>4. SumFunctionOnSet(b.claimable, Account) = b.totalClaimable
    BY <1>1 DEF addsUp, SumFunction
  <1>5. SumFunction(rest) = b.totalClaimable - b.claimable[p]
    BY <1>1, <1>3, <1>4 DEF SumFunction
  <1> QED
    BY <1>2, <1>5 DEF addsUp

\* The other entries of a ledger leave the credits alone.
LEMMA OthersAddUp ==
    ASSUME NEW b \in Entry, addsUp(b), NEW m, NEW n
    PROVE  /\ addsUp(debited(b, m)) /\ addsUp(drawn(b, m)) /\ addsUp(deferred(b, m))
           /\ addsUp(paidIn(b, m, n)) /\ addsUp(swappedIn(b, m, n)) /\ addsUp(swept(b))
  BY DEF Entry, addsUp, debited, drawn, deferred, paidIn, swappedIn, swept

LEMMA OneAddsUp ==
    ASSUME book \in [Asset -> Entry], TotalsAddUp, NEW a \in Asset, NEW b, addsUp(b),
           book' = [book EXCEPT ![a] = b]
    PROVE  TotalsAddUp'
  BY DEF TotalsAddUp, addsUp

LEMMA TotalsInit == PoolInit => TotalsInv
  <1> SUFFICES ASSUME PoolInit
               PROVE  TotalsInv
    OBVIOUS
  <1> DEFINE none == [p \in Account |-> 0]
  <1>1. DOMAIN none = Account /\ \A p \in Account : none[p] = 0
    OBVIOUS
  <1>2. \A a \in Asset : book[a].totalClaimable = 0 /\ book[a].claimable = none
    BY DEF PoolInit
  <1> HIDE DEF none
  <1>3. SumFunction(none) = 0
    BY <1>1, SumZero, PoolAssumption DEF SumFunction
  <1> QED
    BY <1>2, <1>3 DEF PoolInit, TotalsInv, TotalsAddUp

\* What a batch may carry names a recipient for what it pays.
LEMMA IntentsNamed ==
    ASSUME NEW it \in Intents(Account, Account \cup {SUBMITTER}), it.publicAmount # 0
    PROVE  it.to \in Account
  <1>1. PICK I \in SUBSET (1 .. Len(notes)), pa \in Units, fee \in FeeUnits, to \in Account \cup {NoOne},
             feeTo \in Account \cup {SUBMITTER} \cup {NoOne}, part \in FeeUnits :
                it = IntentOf(I, pa, fee, to, feeTo, part) /\ wellFormed(it)
    BY DEF Intents
  <1>2. it.to = to
    BY <1>1 DEF IntentOf
  <1> QED
    BY <1>1, <1>2 DEF wellFormed

LEMMA TotalsBegin ==
    ASSUME TotalsInv, tx = Idle, before' = state, book' \in [Asset -> Entry], TotalsAddUp', Named(tx')
    PROVE  TotalsInv'
  BY DEF TotalsInv, TotalsAddUp, addsUp, state, Named

LEMMA TotalsStay ==
    ASSUME TotalsInv, TotalsAddUp', UNCHANGED before, tx # Idle /\ tx' # Idle => Named(tx)',
           tx = Idle => tx' = Idle
    PROVE  TotalsInv'
  BY DEF TotalsInv, addsUp

LEMMA AbsorbAddsUp ==
    ASSUME PoolInv, TotalsInv, NEW s \in Account, NEW a \in Asset, NEW units \in Nat,
           NEW feeUnits \in Nat, absorb(s, a, units, feeUnits)
    PROVE  TotalsInv'
  <1>1. book[a] \in Entry /\ book \in [Asset -> Entry] /\ addsUp(book[a]) /\ TotalsAddUp
    BY DEF PoolInv, Sound, TotalsInv, TotalsAddUp, addsUp
  <1>2. book' = [book EXCEPT ![a] = paidIn(book[a], units * Scale[a], depositTaken(a, units, feeUnits))]
    BY DEF absorb
  <1>3. TotalsAddUp'
    BY <1>1, <1>2, OthersAddUp, OneAddsUp
  <1>4. Named(tx') /\ tx = Idle /\ before' = state
    BY DEF absorb, InFlight, payment, Named
  <1>5. book' \in [Asset -> Entry]
    BY AbsorbKeepsInv DEF PoolInv, Sound
  <1> QED
    BY <1>3, <1>4, <1>5, TotalsBegin

LEMMA SettleAddsUp ==
    ASSUME PoolInv, TotalsInv, NEW s \in Account, NEW n \in Nat,
           NEW batch \in [1 .. n -> Intents(Account, Account \cup {SUBMITTER})],
           NEW residual, NEW price, settleBatch(s, batch, residual, price)
    PROVE  TotalsInv'
  <1>1. tx'.todo = batch /\ tx'.pays = <<>>
    BY DEF settleBatch, InFlight
  <1>2. \A i \in DOMAIN batch : batch[i] \in Intents(Account, Account \cup {SUBMITTER})
    OBVIOUS
  <1>3. Named(tx')
    <2>1. \A i \in DOMAIN tx'.todo : tx'.todo[i].publicAmount # 0 => tx'.todo[i].to \in Account
      BY <1>1, <1>2, IntentsNamed
    <2> QED
      BY <1>1, <2>1 DEF Named
  <1>4. tx = Idle /\ before' = state /\ book' \in [Asset -> Entry] /\ TotalsAddUp'
    BY DEF settleBatch, PoolInv, Sound, TotalsInv, TotalsAddUp
  <1> QED
    BY <1>3, <1>4, TotalsBegin

LEMMA AccountAddsUp ==
    ASSUME PoolInv, TotalsInv, tx # Idle, account
    PROVE  TotalsInv'
  <1>1. tx \in Transaction /\ tx.todo \in Seq(Intent) /\ tx.todo # <<>> /\ tx.pays \in Seq(Payment)
    BY Flying DEF account, Transaction
  <1>2. Head(tx.todo) \in Intent /\ Head(tx.todo) = tx.todo[1] /\ 1 \in DOMAIN tx.todo
    BY <1>1
  <1> SUFFICES ASSUME NEW it \in Intent, it = Head(tx.todo), NEW a \in Asset, a = it.asset
               PROVE  TotalsInv'
    BY <1>2 DEF Intent
  <1> DEFINE sc == Scale[a]
             owed == payment(a, it.to, it.publicAmount * sc, toRouter(it) * sc, tx.setAside)
             payee == IF it.feeTo = SUBMITTER THEN tx.sender ELSE it.feeTo
             left == debited(book[a], leaves(it) * sc)
             b == IF it.feeTo = NoOne THEN left ELSE credited(left, payee, (it.fee - it.part) * sc)
  <1>3. /\ covers(book[a], leaves(it) * sc) /\ book' = [book EXCEPT ![a] = b] /\ UNCHANGED before
        /\ tx' = [tx EXCEPT !.todo = Tail(@), !.pays = Append(@, owed), !.setAside = owed.upTo]
    BY DEF account
  <1>4. sc \in Nat
    BY PoolAssumption
  <1>5. leaves(it) * sc \in Nat /\ (it.fee - it.part) * sc \in Nat
    BY <1>4, IntentSplits
  <1>6. book \in [Asset -> Entry] /\ book[a] \in Entry /\ addsUp(book[a]) /\ TotalsAddUp
    BY DEF PoolInv, Sound, TotalsInv, TotalsAddUp, addsUp
  <1>7. left \in Entry /\ addsUp(left)
    BY <1>3, <1>5, <1>6, DebitedEntry, OthersAddUp
  <1>8. it.feeTo # NoOne => payee \in Account
    BY <1>1 DEF Intent, Transaction
  <1> HIDE DEF left, payee
  <1>9. addsUp(b)
    BY <1>5, <1>7, <1>8, CreditedAddsUp
  <1> HIDE DEF b
  <1>10. TotalsAddUp'
    BY <1>3, <1>6, <1>9, OneAddsUp
  <1>11. owed.toPayee # 0 => owed.to \in Account
    <2>1. Named(tx)
      BY DEF TotalsInv
    <2>2. it.publicAmount # 0 => it.to \in Account
      BY <1>2, <2>1 DEF Named
    <2>3. owed.toPayee = it.publicAmount * sc /\ owed.to = it.to
      BY DEF payment
    <2>4. it.publicAmount = 0 => it.publicAmount * sc = 0
      BY <1>4
    <2> QED
      BY <2>2, <2>3, <2>4
  <1> HIDE DEF owed
  <1>12. tx'.todo = Tail(tx.todo) /\ tx'.pays = Append(tx.pays, owed)
    BY <1>1, <1>3 DEF Transaction
  <1>13. Named(tx')
    <2>1. ASSUME NEW i \in DOMAIN tx'.todo
          PROVE  i + 1 \in DOMAIN tx.todo /\ tx'.todo[i] = tx.todo[i + 1]
      BY <1>1, <1>12
    <2>2. ASSUME NEW i \in DOMAIN tx'.pays
          PROVE  tx'.pays[i] = owed \/ (i \in DOMAIN tx.pays /\ tx'.pays[i] = tx.pays[i])
      BY <1>1, <1>12
    <2> QED
      BY <1>11, <2>1, <2>2 DEF TotalsInv, Named
  <1> QED
    BY <1>3, <1>10, <1>13, TotalsStay

LEMMA PayeeAddsUp ==
    ASSUME PoolInv, TotalsInv, tx # Idle, payOrCredit
    PROVE  TotalsInv'
  <1>1. tx \in Transaction /\ tx.pays \in Seq(Payment) /\ tx.pays # <<>>
    BY Flying DEF payOrCredit, paying, Transaction
  <1>2. Head(tx.pays) \in Payment /\ Head(tx.pays) = tx.pays[1] /\ 1 \in DOMAIN tx.pays
    BY <1>1
  <1> SUFFICES ASSUME NEW e \in Payment, e = Head(tx.pays), NEW a \in Asset, a = e.asset
               PROVE  TotalsInv'
    BY <1>2 DEF Payment
  <1>3. PICK o \in Push(a, e.toPayee) :
          /\ o.moved <= book[a].balance
          /\ book' = [book EXCEPT ![a] = credited(pushed(book[a], o), e.to, o.unpaid)]
    BY Zenon DEF payOrCredit
  <1>4. e.toPayee \in Nat /\ (e.toPayee # 0 => e.to \in Account)
    BY <1>2 DEF Payment, TotalsInv, Named
  <1>5. /\ o.moved \in Nat /\ o.unpaid \in Nat /\ o.lost \in Nat
        /\ o.unpaid # 0 => e.to \in Account
    <2>1. e.toPayee = 0 => o.unpaid = 0
      BY PushOfNothing
    <2> QED
      BY <1>4, <2>1, PushSplits
  <1>6. book \in [Asset -> Entry] /\ book[a] \in Entry /\ addsUp(book[a]) /\ TotalsAddUp
    BY DEF PoolInv, Sound, TotalsInv, TotalsAddUp, addsUp
  <1>7. pushed(book[a], o) \in Entry /\ addsUp(pushed(book[a], o))
    BY <1>3, <1>5, <1>6, PushedEntry DEF addsUp
  <1>8. addsUp(credited(pushed(book[a], o), e.to, o.unpaid))
    BY <1>5, <1>7, CreditedAddsUp
  <1>9. TotalsAddUp'
    BY <1>3, <1>6, <1>8, OneAddsUp
  <1>10. UNCHANGED before /\ tx'.todo = tx.todo /\ tx'.pays = tx.pays
    BY <1>1 DEF payOrCredit, Transaction
  <1> QED
    BY <1>9, <1>10, TotalsStay DEF TotalsInv, Named

LEMMA FeeAddsUp ==
    ASSUME PoolInv, TotalsInv, tx # Idle, payFee
    PROVE  TotalsInv'
  <1>1. tx \in Transaction /\ tx.pays \in Seq(Payment) /\ tx.pays # <<>>
    BY Flying DEF payFee, paying, Transaction
  <1>2. Head(tx.pays) \in Payment
    BY <1>1
  <1> SUFFICES ASSUME NEW e \in Payment, e = Head(tx.pays), NEW a \in Asset, a = e.asset
               PROVE  TotalsInv'
    BY <1>2 DEF Payment
  <1>3. PICK o \in Push(a, e.toRouter) :
          /\ o.moved <= book[a].balance
          /\ book' = [book EXCEPT ![a] = deferred(pushed(book[a], o), o.unpaid)]
    BY Zenon DEF payFee
  <1>4. o.moved \in Nat /\ o.lost \in Nat
    BY PushSplits DEF Payment
  <1>5. book \in [Asset -> Entry] /\ book[a] \in Entry /\ addsUp(book[a]) /\ TotalsAddUp
    BY DEF PoolInv, Sound, TotalsInv, TotalsAddUp, addsUp
  <1>6. pushed(book[a], o) \in Entry /\ addsUp(pushed(book[a], o))
    BY <1>3, <1>4, <1>5, PushedEntry DEF addsUp
  <1>7. TotalsAddUp'
    BY <1>3, <1>5, <1>6, OthersAddUp, OneAddsUp
  <1>8. UNCHANGED before /\ tx'.todo = tx.todo /\ tx'.pays = Tail(tx.pays)
    BY <1>1 DEF payFee, Transaction
  <1>9. Named(tx')
    <2>1. ASSUME NEW i \in DOMAIN tx'.pays
          PROVE  i + 1 \in DOMAIN tx.pays /\ tx'.pays[i] = tx.pays[i + 1]
      BY <1>1, <1>8
    <2> QED
      BY <1>8, <2>1 DEF TotalsInv, Named
  <1> QED
    BY <1>7, <1>8, <1>9, TotalsStay

LEMMA InFlightOnly == InFlightStep => tx # Idle
  <1>1. tx.kind = "settle" => tx # Idle
    BY DEF Idle
  <1> QED
    BY <1>1, Zenon DEF InFlightStep, account, payOrCredit, payFee, paying, settleResidual, commit, revert

LEMMA ResidualAddsUp ==
    ASSUME PoolInv, TotalsInv, tx # Idle, settleResidual
    PROVE  TotalsInv'
  <1>1. tx \in Transaction
    BY Flying
  <1>2. PICK r \in tx.residual :
          /\ r.assetIn # r.assetOut
          /\ covers(book[r.assetIn], r.amountIn)
          /\ \E taken \in {0, r.amountIn}, out \in r.amountOutMin .. (r.amountOutMin + 1) :
                /\ taken <= book[r.assetIn].balance
                /\ book' = [book EXCEPT
                      ![r.assetIn] = drawn(debited(@, r.amountIn), taken),
                      ![r.assetOut] = swappedIn(@, out, out % Scale[r.assetOut])]
    BY ZenonT(30) DEF settleResidual
  <1>3. r \in Residuals
    BY <1>1 DEF Transaction, Swap
  <1>4. PICK taken \in {0, r.amountIn}, out \in r.amountOutMin .. (r.amountOutMin + 1) :
          /\ taken <= book[r.assetIn].balance
          /\ book' = [book EXCEPT
                ![r.assetIn] = drawn(debited(@, r.amountIn), taken),
                ![r.assetOut] = swappedIn(@, out, out % Scale[r.assetOut])]
    BY <1>2
  <1>5. /\ r.assetIn \in Asset /\ r.assetOut \in Asset /\ r.amountIn \in Nat
        /\ r.assetIn # r.assetOut /\ UNCHANGED before
    BY <1>2, <1>3, PoolAssumption DEF settleResidual
  <1> SUFFICES ASSUME NEW i \in Asset, NEW j \in Asset, NEW amount \in Nat, i # j,
                      i = r.assetIn, j = r.assetOut, amount = r.amountIn, taken \in {0, amount}
               PROVE  TotalsInv'
    BY <1>5, <1>4
  <1> DEFINE b == drawn(debited(book[i], amount), taken)
             c == swappedIn(book[j], out, out % Scale[j])
  <1>6. book' = [[book EXCEPT ![i] = b] EXCEPT ![j] = c]
    BY <1>4 DEF PoolInv, Sound
  <1>7. /\ book \in [Asset -> Entry] /\ book[i] \in Entry /\ book[j] \in Entry
        /\ \A x \in Asset : addsUp(book[x])
    BY DEF PoolInv, Sound, TotalsInv, TotalsAddUp, addsUp
  <1>8. debited(book[i], amount) \in Entry /\ addsUp(debited(book[i], amount))
    BY <1>2, <1>7, DebitedEntry, OthersAddUp
  <1>9. addsUp(b) /\ addsUp(c)
    BY <1>7, <1>8, OthersAddUp
  <1> HIDE DEF b, c
  <1>10. TotalsAddUp'
    BY <1>6, <1>7, <1>9 DEF TotalsAddUp, addsUp
  <1>11. tx'.todo = tx.todo /\ tx'.pays = tx.pays
    BY <1>1 DEF settleResidual, Transaction
  <1> QED
    BY <1>5, <1>10, <1>11, TotalsStay DEF TotalsInv, Named

LEMMA RevertAddsUp ==
    ASSUME TotalsInv, revert
    PROVE  TotalsInv'
  BY DEF revert, TotalsInv, TotalsAddUp, addsUp

LEMMA WithdrawAddsUp ==
    ASSUME PoolInv, TotalsInv, Withdraw
    PROVE  TotalsInv'
  <1>1. book \in [Asset -> Entry] /\ TotalsAddUp /\ \A a \in Asset : book[a] \in Entry /\ addsUp(book[a])
    BY DEF PoolInv, Sound, TotalsInv, TotalsAddUp, addsUp
  <1>2. ASSUME NEW s \in Account, NEW a \in Asset, claim(s, a)
        PROVE  TotalsAddUp' /\ tx' = Idle
    <2>1. PICK moved \in PayOut(a, book[a].claimable[s]) :
            book' = [book EXCEPT ![a] = drawn(claimed(book[a], s), moved)]
      BY <1>2 DEF claim
    <2>2. claimed(book[a], s) \in Entry /\ addsUp(claimed(book[a], s))
      BY <1>1, ClaimedEntry, ClaimedAddsUp
    <2>3. addsUp(drawn(claimed(book[a], s), moved))
      BY <2>2, OthersAddUp
    <2> QED
      BY <1>1, <1>2, <2>1, <2>3, OneAddsUp DEF claim
  <1>3. ASSUME NEW a \in Asset, sweepFees(a)
        PROVE  TotalsAddUp' /\ tx' = Idle
    <2>1. PICK moved \in PayOut(a, book[a].unswept) :
            book' = [book EXCEPT ![a] = drawn(swept(book[a]), moved)]
      BY <1>3 DEF sweepFees
    <2>2. swept(book[a]) \in Entry /\ addsUp(swept(book[a]))
      BY <1>1, SweptEntry, OthersAddUp
    <2>3. addsUp(drawn(swept(book[a]), moved))
      BY <2>2, OthersAddUp
    <2> QED
      BY <1>1, <1>3, <2>1, <2>3, OneAddsUp DEF sweepFees
  <1>4. ASSUME NEW s \in Account, NEW d \in Account, NEW a \in Asset, betaRefund(s, a, d)
        PROVE  TotalsAddUp' /\ tx' = Idle
    <2> DEFINE amount == refundOf(a, beta[a].refundable[d])
    <2>1. covers(book[a], amount) /\ amount \in Nat
      BY <1>4, RefundNat DEF betaRefund
    <2>2. PICK moved \in PayOut(a, amount) :
            book' = [book EXCEPT ![a] = drawn(debited(book[a], amount), moved)]
      BY <1>4 DEF betaRefund
    <2> HIDE DEF amount
    <2>3. debited(book[a], amount) \in Entry /\ addsUp(debited(book[a], amount))
      BY <1>1, <2>1, DebitedEntry, OthersAddUp
    <2>4. addsUp(drawn(debited(book[a], amount), moved))
      BY <2>3, OthersAddUp
    <2> QED
      BY <1>1, <1>4, <2>2, <2>4, OneAddsUp DEF betaRefund
  <1>5. TotalsAddUp' /\ tx' = Idle
    BY <1>2, <1>3, <1>4 DEF Withdraw
  <1> QED
    BY <1>5 DEF TotalsInv

LEMMA SwitchAddsUp ==
    ASSUME PoolInv, TotalsInv, Switch
    PROVE  TotalsInv'
  <1>1. ASSUME NEW a \in Asset, receive(a)
        PROVE  TotalsInv'
    <2> DEFINE b == [book[a] EXCEPT !.balance = @ + 1]
    <2>1. book \in [Asset -> Entry] /\ book[a] \in Entry /\ TotalsAddUp /\ addsUp(book[a])
      BY DEF PoolInv, Sound, TotalsInv, TotalsAddUp, addsUp
    <2>2. book' = [book EXCEPT ![a] = b] /\ UNCHANGED <<tx, before>>
      BY <1>1 DEF receive
    <2>3. addsUp(b)
      BY <2>1 DEF Entry, addsUp
    <2> HIDE DEF b
    <2>4. TotalsAddUp'
      BY <2>1, <2>2, <2>3, OneAddsUp
    <2> QED
      BY <2>2, <2>4 DEF TotalsInv, Named, addsUp
  <1>2. ASSUME switch
        PROVE  TotalsInv'
    BY <1>2 DEF switch, ledgerVars, TotalsInv, TotalsAddUp, Named, addsUp
  <1> QED
    BY <1>1, <1>2 DEF Switch, registerAsset, setDepositsPaused, setBetaPaused, setOpenDeposits,
       setBetaDepositor, setBetaCaps, setDepositorRegistrar, endBetaMode

LEMMA TotalsStep == PoolInv /\ TotalsInv /\ [PoolNext]_poolVars => TotalsInv'
  <1> SUFFICES ASSUME PoolInv, TotalsInv, [PoolNext]_poolVars
               PROVE  TotalsInv'
    OBVIOUS
  <1>1. CASE Deposit
    BY <1>1, AbsorbAddsUp, PoolAssumption DEF Deposit
  <1>2. CASE Settle
    <2>1. PICK s \in Account, n \in 1 .. MAX_INTENTS :
            \E batch \in [1 .. n -> Intents(Account, Account \cup {SUBMITTER})] :
            \E r \in {{}} \cup {{x} : x \in Residuals}, price \in Prices :
                settleBatch(s, batch, r, price)
      BY <1>2 DEF Settle
    <2>2. n \in Nat
      BY PoolAssumption
    <2> QED
      BY <2>1, <2>2, SettleAddsUp
  <1>3. ASSUME tx # Idle, InFlightStep
        PROVE  TotalsInv'
    <2>1. CASE commit
      BY <2>1 DEF commit, ledgerVars, TotalsInv, TotalsAddUp
    <2> QED
      BY <1>3, <2>1, AccountAddsUp, PayeeAddsUp, FeeAddsUp, ResidualAddsUp, RevertAddsUp DEF InFlightStep
  <1>4. CASE Withdraw
    BY <1>4, WithdrawAddsUp
  <1>5. CASE Switch
    BY <1>5, SwitchAddsUp
  <1>6. CASE UNCHANGED poolVars
    BY <1>6 DEF poolVars, ledgerVars, TotalsInv, TotalsAddUp, Named, addsUp
  <1>7. InFlightStep => tx # Idle
    BY InFlightOnly
  <1> QED
    BY <1>1, <1>2, <1>3, <1>4, <1>5, <1>6, <1>7 DEF PoolNext

\* At every instant the total of the credits of an asset is the sum of what each
\* account may claim, so a claim never underflows it (_credit, claim).
THEOREM TotalsStayAddedUp == PoolSpec => []TotalsAddUp
  <1>1. TotalsInv => TotalsAddUp
    BY DEF TotalsInv
  <1> QED
    BY <1>1, PoolInvariant, TotalsInit, TotalsStep, PTL DEF PoolSpec

-----------------------------------------------------------------------------
(* The notes.                                                              *)

Note == [asset : Asset, units : Nat]

\* The change notes of the first n intents of a batch.
keptUpTo(batch) ==
    CHOOSE f : f = [n \in 0 .. Len(batch) |->
                      IF n = 0 THEN <<>>
                      ELSE IF batch[n].change > 0 THEN Append(f[n - 1], changeOf(batch[n]))
                      ELSE f[n - 1]]

LEMMA ChangeIsKept ==
    ASSUME NEW batch
    PROVE  changeNotes(batch) = keptUpTo(batch)[Len(batch)]
  BY DEF changeNotes, keptUpTo

LEMMA KeptStepByStep ==
    ASSUME NEW batch \in Seq(Intent)
    PROVE  /\ keptUpTo(batch)[0] = <<>>
           /\ \A n \in 1 .. Len(batch) :
                keptUpTo(batch)[n] = IF batch[n].change > 0
                                     THEN Append(keptUpTo(batch)[n - 1], changeOf(batch[n]))
                                     ELSE keptUpTo(batch)[n - 1]
           /\ \A n \in 0 .. Len(batch) : keptUpTo(batch)[n] \in Seq(Note)
  <1> DEFINE m == Len(batch)
             V == Seq(Note)
             step == [n \in 1 .. m |-> [v \in V |-> IF batch[n].change > 0
                                                    THEN Append(v, changeOf(batch[n])) ELSE v]]
             rec(f) == [n \in 0 .. m |->
                          IF n = 0 THEN <<>>
                          ELSE IF batch[n].change > 0 THEN Append(f[n - 1], changeOf(batch[n]))
                          ELSE f[n - 1]]
  <1>1. m \in Nat /\ <<>> \in V
    OBVIOUS
  <1>2. \A n \in 1 .. m : batch[n] \in Intent /\ changeOf(batch[n]) \in Note
    BY DEF Intent, Note, changeOf
  <1>3. step \in [1 .. m -> [V -> V]]
    BY <1>2
  <1>4. PICK g \in [0 .. m -> V] : g[0] = <<>> /\ \A n \in 1 .. m : g[n] = step[n][g[n - 1]]
    <2> DEFINE base == <<>>
    <2>1. base \in V
      BY <1>1
    <2> HIDE DEF step, V, m, base
    <2>2. \E g : runsAlong(g, m, V, base, step)
      BY <1>1, <1>3, <2>1, RecursionAlong
    <2> QED
      BY <2>2 DEF base, runsAlong
  <1>5. g = rec(g)
    <2>1. ASSUME NEW n \in 0 .. m
          PROVE  g[n] = rec(g)[n]
      <3>1. CASE n = 0
        BY <1>4, <3>1
      <3>2. CASE n # 0
        <4>1. n \in 1 .. m /\ n - 1 \in 0 .. m
          BY <3>2
        <4>2. g[n - 1] \in V
          BY <4>1
        <4>3. g[n] = step[n][g[n - 1]]
          BY <1>4, <4>1
        <4>4. g[n] = IF batch[n].change > 0 THEN Append(g[n - 1], changeOf(batch[n])) ELSE g[n - 1]
          BY <4>1, <4>2, <4>3
        <4> QED
          BY <3>2, <4>1, <4>4
      <3> QED
        BY <3>1, <3>2
    <2> QED
      BY <2>1
  <1> DEFINE k == keptUpTo(batch)
  <1>6. k = rec(k)
    <2>1. k = CHOOSE f : f = rec(f)
      BY DEF keptUpTo
    <2> HIDE DEF k, rec
    <2> QED
      BY <1>5, <2>1
  <1> HIDE DEF k
  <1>7. k[0] = <<>> /\ \A n \in 1 .. m : k[n] = IF batch[n].change > 0
                                               THEN Append(k[n - 1], changeOf(batch[n])) ELSE k[n - 1]
    <2>1. \A n \in 0 .. m : k[n] = rec(k)[n]
      BY <1>6
    <2>2. k[0] = <<>>
      BY <2>1
    <2>3. \A n \in 1 .. m : n \in 0 .. m /\ n # 0
      OBVIOUS
    <2> QED
      BY <2>1, <2>2, <2>3
  <1>8. \A n \in 0 .. m : k[n] \in V
    <2> DEFINE S == {n \in 0 .. m : k[n] \in V}
    <2>1. 0 \in S
      BY <1>7
    <2>2. ASSUME NEW n \in 0 .. m - 1, n \in S
          PROVE  n + 1 \in S
      <3>1. n + 1 \in 1 .. m /\ (n + 1) - 1 = n /\ n + 1 \in 0 .. m /\ k[n] \in V
        BY <2>2
      <3>2. k[n + 1] = IF batch[n + 1].change > 0 THEN Append(k[n], changeOf(batch[n + 1])) ELSE k[n]
        BY <1>7, <3>1
      <3>3. k[n + 1] \in V
        BY <1>2, <3>1, <3>2
      <3> QED
        BY <3>1, <3>3
    <2>3. 0 .. m \subseteq S
      <3> HIDE DEF S
      <3> QED
        BY <1>1, <2>1, <2>2, UpToInduction
    <2> QED
      BY <2>3
  <1> QED
    BY <1>7, <1>8 DEF k

LEMMA ChangeTyped ==
    ASSUME NEW batch \in Seq(Intent)
    PROVE  changeNotes(batch) \in Seq(Note)
  BY ChangeIsKept, KeptStepByStep

\* The notes, now and where the transaction in flight began.
NotesSound(N, S) == N \in Seq(Note) /\ S \subseteq DOMAIN N
NotesInv ==
    /\ NotesSound(notes, spent)
    /\ tx # Idle => NotesSound(before.notes, before.spent)

\* The inputs of an intent are notes of its asset, and its change is their value less
\* what leaves the pool.
LEMMA IntentInputs ==
    ASSUME NEW it \in Intents(Account, Account \cup {SUBMITTER})
    PROVE  /\ it.inputs \in SUBSET (1 .. Len(notes))
           /\ \A i \in it.inputs : notes[i].asset = it.asset
           /\ it.change = valueOf(it.inputs) - it.publicAmount - it.fee
  <1>1. PICK I \in SUBSET (1 .. Len(notes)), pa \in Units, fee \in FeeUnits, to \in Account \cup {NoOne},
             feeTo \in Account \cup {SUBMITTER} \cup {NoOne}, part \in FeeUnits :
                /\ it = IntentOf(I, pa, fee, to, feeTo, part)
                /\ \A i, j \in I : notes[i].asset = notes[j].asset
    BY DEF Intents
  <1>2. /\ it.inputs = I /\ it.publicAmount = pa /\ it.fee = fee
        /\ it.asset = notes[CHOOSE i \in I : TRUE].asset
        /\ it.change = valueOf(I) - pa - fee
    BY <1>1, Zenon DEF IntentOf
  <1>3. ASSUME NEW i \in I
        PROVE  notes[i].asset = it.asset
    <2>1. (CHOOSE j \in I : TRUE) \in I
      OBVIOUS
    <2> QED
      BY <1>1, <1>2, <2>1
  <1> QED
    BY <1>2, <1>3

LEMMA BatchTyped ==
    ASSUME PoolInv, NEW n \in Nat, NEW batch \in [1 .. n -> Intents(Account, Account \cup {SUBMITTER})]
    PROVE  batch \in Seq(Intent) /\ Len(batch) = n /\ DOMAIN batch = 1 .. n
  <1>1. \A i \in 1 .. n : batch[i] \in Intent
    BY IntentsTyped DEF PoolInv, Sound
  <1> QED
    BY <1>1

LEMMA NotesStep == PoolInv /\ NotesInv /\ [PoolNext]_poolVars => NotesInv'
  <1> SUFFICES ASSUME PoolInv, NotesInv, [PoolNext]_poolVars
               PROVE  NotesInv'
    OBVIOUS
  <1>0. NotesSound(notes, spent)
    BY DEF NotesInv
  <1>1. ASSUME NEW s \in Account, NEW a \in Asset, NEW u \in Nat, NEW f \in Nat, absorb(s, a, u, f)
        PROVE  NotesInv'
    <2>1. /\ notes' = Append(notes, [asset |-> a, units |-> u - f]) /\ u - f \in Nat
          /\ spent' = spent /\ before'.notes = notes /\ before'.spent = spent
      BY <1>1 DEF absorb, state
    <2>2. [asset |-> a, units |-> u - f] \in Note
      BY <2>1 DEF Note
    <2> QED
      BY <1>0, <2>1, <2>2 DEF NotesInv, NotesSound
  <1>2. ASSUME NEW s \in Account, NEW n \in Nat, NEW r, NEW price,
               NEW batch \in [1 .. n -> Intents(Account, Account \cup {SUBMITTER})],
               settleBatch(s, batch, r, price)
        PROVE  NotesInv'
    <2>1. /\ notes' = notes \o changeNotes(batch)
          /\ spent' = spent \cup UNION {batch[i].inputs : i \in DOMAIN batch}
          /\ before'.notes = notes /\ before'.spent = spent
      BY <1>2 DEF settleBatch, state
    <2>2. changeNotes(batch) \in Seq(Note)
      BY BatchTyped, ChangeTyped
    <2>3. \A i \in DOMAIN batch : batch[i].inputs \subseteq 1 .. Len(notes)
      BY IntentInputs
    <2>4. notes' \in Seq(Note) /\ DOMAIN notes \subseteq DOMAIN notes' /\ DOMAIN notes = 1 .. Len(notes)
      <3> HIDE DEF Note
      <3> QED
        BY <1>0, <2>1, <2>2 DEF NotesSound
    <2> QED
      BY <1>0, <2>1, <2>3, <2>4 DEF NotesInv, NotesSound
  <1>3. ASSUME UNCHANGED <<notes, spent>>, tx' # Idle => tx # Idle /\ UNCHANGED before
        PROVE  NotesInv'
    BY <1>3 DEF NotesInv
  <1>4. CASE InFlightStep
    <2>1. CASE revert
      BY <2>1 DEF revert, NotesInv
    <2>2. CASE account \/ payOrCredit \/ payFee \/ settleResidual \/ commit
      <3>1. tx # Idle
        BY <1>4, InFlightOnly
      <3> QED
        BY <1>3, <2>2, <3>1 DEF account, payOrCredit, payFee, settleResidual, commit, ledgerVars
    <2> QED
      BY <1>4, <2>1, <2>2 DEF InFlightStep
  <1>5. CASE Withdraw
    BY <1>3, <1>5, ZenonT(60) DEF Withdraw, claim, sweepFees, betaRefund
  <1>6. CASE Switch
    BY <1>3, <1>6 DEF Switch, switch, ledgerVars, registerAsset, receive, setDepositsPaused, setBetaPaused,
       setOpenDeposits, setBetaDepositor, setBetaCaps, setDepositorRegistrar, endBetaMode
  <1>7. CASE UNCHANGED poolVars
    BY <1>3, <1>7 DEF poolVars, ledgerVars
  <1>8. CASE Deposit
    BY <1>1, <1>8, PoolAssumption DEF Deposit
  <1>9. CASE Settle
    <2>1. PICK s \in Account, n \in 1 .. MAX_INTENTS :
            \E batch \in [1 .. n -> Intents(Account, Account \cup {SUBMITTER})] :
            \E r \in {{}} \cup {{x} : x \in Residuals}, price \in Prices :
                settleBatch(s, batch, r, price)
      BY <1>9 DEF Settle
    <2>2. n \in Nat
      BY PoolAssumption
    <2> QED
      BY <1>2, <2>1, <2>2
  <1> QED
    BY <1>4, <1>5, <1>6, <1>7, <1>8, <1>9 DEF PoolNext

LEMMA NotesInit == PoolInit => NotesInv
  BY DEF PoolInit, NotesInv, NotesSound

\* Every ledger is an amount, the totals of credits included, and a spent note is a
\* note (ShieldLedger, ShieldedPool's storage).
THEOREM PoolStaysTyped == PoolSpec => []PoolTypeOK
  <1>1. PoolInv /\ TotalsInv /\ NotesInv /\ WoundInv => PoolTypeOK
    <2> SUFFICES ASSUME PoolInv, TotalsInv, NotesInv, WoundInv
                 PROVE  PoolTypeOK
      OBVIOUS
    <2>1. ASSUME NEW a \in Asset
          PROVE  book[a] \in [balance : Nat, shielded : Nat, claimable : [Account -> Nat],
                              totalClaimable : Nat, unswept : Nat, lost : Nat]
      <3>1. book[a] \in Entry /\ addsUp(book[a])
        BY DEF PoolInv, Sound, TotalsInv, TotalsAddUp, addsUp
      <3>2. book[a].claimable \in [Account -> Nat]
        BY <3>1 DEF Entry
      <3>3. SumFunction(book[a].claimable) \in Nat
        BY <3>2, SumNat, PoolAssumption DEF SumFunction
      <3>4. book[a].totalClaimable \in Nat
        BY <3>1, <3>3 DEF addsUp
      <3> QED
        BY <3>1, <3>4 DEF Entry
    <2>2. book \in [Asset -> [balance : Nat, shielded : Nat, claimable : [Account -> Nat],
                              totalClaimable : Nat, unswept : Nat, lost : Nat]]
      BY <2>1 DEF PoolInv, Sound
    <2>3. beta \in [Asset -> BetaEntry] /\ listed \in SUBSET Asset
      BY DEF PoolInv, Sound
    <2>4. notes \in Seq(Note) /\ spent \subseteq DOMAIN notes
      BY DEF NotesInv, NotesSound
    <2>5. admit \in Switches
      BY DEF WoundInv
    <2> QED
      BY <2>2, <2>3, <2>4, <2>5 DEF PoolTypeOK, BetaEntry, Note, Switches
  <1>2. PoolInit => WoundInv
    BY DEF PoolInit, WoundInv, Switches
  <1> QED
    BY <1>1, <1>2, PoolInvariant, TotalsInit, TotalsStep, NotesInit, NotesStep, WoundStep, PTL DEF PoolSpec

-----------------------------------------------------------------------------
(* Nothing stranded.                                                       *)

\* With tokens that pay what they say the balance is the books and the payouts still
\* to make, also where the transaction in flight began.
ExactInv ==
    /\ \A a \in Asset : book[a].balance = onEntry(book[a]) + inCalls(a)
    /\ tx # Idle => \A a \in Asset : before.book[a].balance = onEntry(before.book[a])

LEMMA PushExact ==
    ASSUME ~Hostile, NEW a \in Asset, NEW amount \in Nat, NEW o \in Push(a, amount)
    PROVE  o.moved \in Nat /\ o.unpaid \in Nat /\ o.lost = 0 /\ o.moved + o.unpaid = amount
  <1>1. o = Believed(amount) \/ o = Measured(TRUE, 0, amount)
    BY Zenon DEF Push
  <1> QED
    BY <1>1 DEF Believed, Measured, unpaidOf

LEMMA OneExact ==
    ASSUME ExactInv, book \in [Asset -> Entry], NEW a \in Asset, NEW b, book' = [book EXCEPT ![a] = b],
           \A x \in Asset : x # a => inCalls(x)' = inCalls(x), b.balance = onEntry(b) + inCalls(a)',
           tx' # Idle => tx # Idle /\ UNCHANGED before
    PROVE  ExactInv'
  <1>1. ASSUME NEW x \in Asset
        PROVE  book'[x].balance = onEntry(book'[x]) + inCalls(x)'
    BY DEF ExactInv
  <1>2. ASSUME tx' # Idle, NEW x \in Asset
        PROVE  before'.book[x].balance = onEntry(before'.book[x])
    BY <1>2 DEF ExactInv
  <1> QED
    BY <1>1, <1>2 DEF ExactInv, onEntry

\* Between transactions what is to spare is nothing.
LEMMA ExactBegins ==
    ASSUME PoolInv, ExactInv, tx = Idle, before' = state, tx' # Idle
    PROVE  \A x \in Asset : book[x].balance = onEntry(book[x]) /\ before'.book[x].balance = onEntry(before'.book[x])
  <1>1. \A x \in Asset : book[x] \in Entry /\ book[x].balance = onEntry(book[x]) + 0 /\ onEntry(book[x]) \in Int
    BY DEF ExactInv, inCalls, PoolInv, Sound, Entry, onEntry
  <1>2. before'.book = book
    BY DEF state
  <1> QED
    BY <1>1, <1>2

LEMMA AbsorbStaysExact ==
    ASSUME PoolInv, ExactInv, NEW s \in Account, NEW a \in Asset, NEW units \in Nat,
           NEW feeUnits \in Nat, absorb(s, a, units, feeUnits)
    PROVE  ExactInv'
  <1> DEFINE amount == units * Scale[a]
             value == depositTaken(a, units, feeUnits)
             fee == feeUnits * Scale[a]
             owed == payment(a, NoOne, 0, fee, Nothing)
             b == paidIn(book[a], amount, value)
  <1>1. Scale[a] \in Nat /\ units - feeUnits \in Nat
    BY PoolAssumption DEF absorb
  <1>2. amount \in Nat /\ fee \in Nat /\ value \in Nat
    BY <1>1, ProductNat DEF depositTaken
  <1>3. amount = value + fee
    BY <1>1, Distribute DEF depositTaken
  <1>4. tx' = InFlight("absorb", s, <<>>, <<owed>>, owed.upTo, {}, 0) /\ before' = state /\ tx = Idle
    BY DEF absorb
  <1>5. book' = [book EXCEPT ![a] = b] /\ book[a] \in Entry
    BY DEF absorb, PoolInv, Sound
  <1> HIDE DEF amount, value, fee
  <1>6. \A x \in Asset : owed.upTo[x] = IF x = a THEN fee ELSE 0
    BY <1>2 DEF payment, Nothing
  <1> HIDE DEF owed
  <1>7. tx' # Idle /\ \A x \in Asset : inCalls(x)' = IF x = a THEN fee ELSE 0
    <2>1. tx' # Idle /\ tx'.setAside = owed.upTo /\ tx'.paid = Nothing
      BY <1>4, InFlightFields
    <2> QED
      BY <1>2, <1>6, <2>1 DEF inCalls, Nothing
  <1>8. \A x \in Asset : book[x].balance = onEntry(book[x]) /\ before'.book[x].balance = onEntry(before'.book[x])
    BY <1>4, <1>7, ExactBegins
  <1>9. b.balance = book[a].balance + amount /\ onEntry(b) = onEntry(book[a]) + value
    BY <1>2, <1>5, PaidInEntry
  <1> HIDE DEF b
  <1>10. ASSUME NEW x \in Asset
         PROVE  book'[x].balance = onEntry(book'[x]) + inCalls(x)'
    <2>1. book[x] \in Entry /\ book[x].balance \in Nat /\ onEntry(book[x]) \in Int
      BY DEF PoolInv, Sound, Entry, onEntry
    <2>2. CASE x = a
      <3>1. book'[x] = b
        BY <1>5, <2>2 DEF PoolInv, Sound
      <3> QED
        BY <1>2, <1>3, <1>7, <1>8, <1>9, <2>1, <2>2, <3>1
    <2>3. CASE x # a
      <3>1. book'[x] = book[x]
        BY <1>5, <2>3 DEF PoolInv, Sound
      <3> QED
        BY <1>7, <1>8, <2>1, <2>3, <3>1
    <2> QED
      BY <2>2, <2>3
  <1> QED
    BY <1>8, <1>10 DEF ExactInv, onEntry

LEMMA SettleStaysExact ==
    ASSUME PoolInv, ExactInv, NEW s, NEW batch, NEW residual, NEW price,
           settleBatch(s, batch, residual, price)
    PROVE  ExactInv'
  <1>1. /\ tx' = InFlight("settle", s, batch, <<>>, Nothing, residual, price)
        /\ tx = Idle /\ before' = state /\ book' = book
    BY DEF settleBatch
  <1>2. tx' # Idle /\ tx'.setAside = Nothing /\ tx'.paid = Nothing
    BY <1>1, InFlightFields
  <1>3. \A x \in Asset : book[x].balance = onEntry(book[x]) /\ before'.book[x].balance = onEntry(before'.book[x])
    BY <1>1, <1>2, ExactBegins
  <1>4. \A x \in Asset : inCalls(x)' = 0 /\ onEntry(book[x]) \in Int
    BY <1>2 DEF inCalls, Nothing, PoolInv, Sound, Entry, onEntry
  <1> QED
    BY <1>1, <1>3, <1>4 DEF ExactInv, onEntry

LEMMA AccountStaysExact ==
    ASSUME PoolInv, ExactInv, tx # Idle, account
    PROVE  ExactInv'
  <1>1. tx \in Transaction /\ tx.todo \in Seq(Intent) /\ tx.todo # <<>>
    BY Flying DEF account, Transaction
  <1>2. Head(tx.todo) \in Intent
    BY <1>1
  <1> SUFFICES ASSUME NEW it \in Intent, it = Head(tx.todo), NEW a \in Asset, a = it.asset
               PROVE  ExactInv'
    BY <1>2 DEF Intent
  <1> DEFINE sc == Scale[a]
             owed == payment(a, it.to, it.publicAmount * sc, toRouter(it) * sc, tx.setAside)
             payee == IF it.feeTo = SUBMITTER THEN tx.sender ELSE it.feeTo
             left == debited(book[a], leaves(it) * sc)
             more == (it.fee - it.part) * sc
             b == IF it.feeTo = NoOne THEN left ELSE credited(left, payee, more)
  <1>3. /\ covers(book[a], leaves(it) * sc) /\ book' = [book EXCEPT ![a] = b] /\ UNCHANGED before
        /\ tx' = [tx EXCEPT !.todo = Tail(@), !.pays = Append(@, owed), !.setAside = owed.upTo]
    BY DEF account
  <1>4. sc \in Nat
    BY PoolAssumption
  <1>5. /\ it.publicAmount * sc \in Nat /\ toRouter(it) * sc \in Nat /\ leaves(it) * sc \in Nat /\ more \in Nat
        /\ leaves(it) * sc = it.publicAmount * sc + toRouter(it) * sc
                               + (IF it.feeTo = NoOne THEN 0 ELSE more)
    BY <1>4, IntentSplits
  <1>6. /\ book[a] \in Entry /\ tx.setAside \in [Asset -> Nat] /\ tx.paid \in [Asset -> Nat]
        /\ book[a].balance = onEntry(book[a]) + (tx.setAside[a] - tx.paid[a])
    BY <1>1, Flying DEF Transaction, ExactInv, inCalls
  <1> HIDE DEF sc, more
  <1>7. \A x \in Asset : owed.upTo[x] = IF x = a THEN tx.setAside[a] + it.publicAmount * sc + toRouter(it) * sc
                                        ELSE tx.setAside[x]
    BY <1>6 DEF payment
  <1> HIDE DEF owed
  <1>8. tx' # Idle /\ \A x \in Asset : inCalls(x)' = owed.upTo[x] - tx.paid[x]
    <2>1. tx'.setAside = owed.upTo /\ tx'.paid = tx.paid /\ tx'.kind = tx.kind
      BY <1>1, <1>3 DEF Transaction
    <2>2. tx' # Idle
      BY <1>1, <2>1 DEF Transaction, Idle
    <2> QED
      BY <2>1, <2>2 DEF inCalls
  <1>9. left \in Entry /\ left.balance = book[a].balance /\ onEntry(left) = onEntry(book[a]) - leaves(it) * sc
    BY <1>3, <1>5, <1>6, DebitedEntry DEF sc
  <1>10. /\ b.balance = book[a].balance
         /\ onEntry(b) = onEntry(book[a]) - leaves(it) * sc + (IF it.feeTo = NoOne THEN 0 ELSE more)
    <2> HIDE DEF left, payee
    <2>1. left \in Entry /\ onEntry(left) \in Int /\ onEntry(book[a]) \in Int
      BY <1>6, <1>9 DEF Entry, onEntry
    <2>2. CASE it.feeTo = NoOne
      BY <1>5, <1>9, <2>1, <2>2
    <2>3. CASE it.feeTo # NoOne
      <3>1. /\ credited(left, payee, more).balance = left.balance
            /\ onEntry(credited(left, payee, more)) = onEntry(left) + more
        BY <1>5, <2>1, CreditedEntry
      <3> QED
        BY <1>9, <2>3, <3>1
    <2> QED
      BY <2>2, <2>3
  <1> HIDE DEF b
  <1>11. b.balance = onEntry(b) + inCalls(a)'
    <2>1. onEntry(book[a]) \in Int /\ tx.setAside[a] \in Nat /\ tx.paid[a] \in Nat
      BY <1>6 DEF Entry, onEntry
    <2> DEFINE x == it.publicAmount * sc
               y == toRouter(it) * sc
    <2>2. x \in Nat /\ y \in Nat
      BY <1>5
    <2>3. inCalls(a)' = (tx.setAside[a] + x + y) - tx.paid[a]
      BY <1>7, <1>8, Zenon
    <2>4. /\ b.balance = onEntry(book[a]) + (tx.setAside[a] - tx.paid[a])
          /\ onEntry(b) = onEntry(book[a]) - (x + y)
      BY <1>5, <1>6, <1>10, <2>1, SMTT(60)
    <2> HIDE DEF x, y
    <2> QED
      BY <2>1, <2>2, <2>3, <2>4, SMTT(60)
  <1>12. \A x \in Asset : x # a => inCalls(x)' = inCalls(x)
    BY <1>7, <1>8 DEF inCalls
  <1> QED
    BY <1>3, <1>11, <1>12, OneExact DEF PoolInv, Sound

LEMMA PayeeStaysExact ==
    ASSUME ~Hostile, PoolInv, ExactInv, tx # Idle, payOrCredit
    PROVE  ExactInv'
  <1>1. tx \in Transaction /\ tx.pays \in Seq(Payment) /\ tx.pays # <<>>
    BY Flying DEF payOrCredit, paying, Transaction
  <1>2. Head(tx.pays) \in Payment
    BY <1>1
  <1> SUFFICES ASSUME NEW e \in Payment, e = Head(tx.pays), NEW a \in Asset, a = e.asset
               PROVE  ExactInv'
    BY <1>2 DEF Payment
  <1>3. PICK o \in Push(a, e.toPayee) :
          /\ o.moved <= book[a].balance
          /\ book' = [book EXCEPT ![a] = credited(pushed(book[a], o), e.to, o.unpaid)]
    BY Zenon DEF payOrCredit
  <1>4. e.toPayee \in Nat /\ UNCHANGED before
    BY DEF Payment, payOrCredit
  <1>5. o.moved \in Nat /\ o.unpaid \in Nat /\ o.lost = 0 /\ o.moved + o.unpaid = e.toPayee
    BY <1>4, PushExact
  <1>6. /\ book[a] \in Entry /\ tx.setAside \in [Asset -> Nat] /\ tx.paid \in [Asset -> Nat]
        /\ book[a].balance = onEntry(book[a]) + (tx.setAside[a] - tx.paid[a])
    BY <1>1, Flying DEF Transaction, ExactInv, inCalls
  <1> DEFINE m == pushed(book[a], o)
             b == credited(m, e.to, o.unpaid)
  <1>7. m \in Entry /\ m.balance = book[a].balance - o.moved /\ onEntry(m) = onEntry(book[a])
    BY <1>3, <1>5, <1>6, PushedEntry DEF Entry, onEntry
  <1>8. book' = [book EXCEPT ![a] = b]
    BY <1>3
  <1> HIDE DEF m
  <1>9. b.balance = book[a].balance - o.moved /\ onEntry(b) = onEntry(book[a]) + o.unpaid
    BY <1>5, <1>7, CreditedEntry
  <1> HIDE DEF b
  <1>10. /\ tx' # Idle
         /\ \A x \in Asset : inCalls(x)' = IF x = a THEN tx.setAside[a] - (tx.paid[a] + e.toPayee)
                                           ELSE tx.setAside[x] - tx.paid[x]
    <2>1. tx' = [tx EXCEPT !.phase = "router", !.paid[a] = @ + e.toPayee]
      BY DEF payOrCredit
    <2>2. tx'.setAside = tx.setAside /\ tx'.kind = tx.kind
          /\ tx'.paid = [tx.paid EXCEPT ![a] = @ + e.toPayee]
      BY <1>1, <2>1 DEF Transaction
    <2>3. tx' # Idle
      BY <1>1, <2>2 DEF Transaction, Idle
    <2> QED
      BY <1>6, <2>2, <2>3 DEF inCalls
  <1>11. b.balance = onEntry(b) + inCalls(a)'
    <2>1. onEntry(book[a]) \in Int /\ tx.setAside[a] \in Nat /\ tx.paid[a] \in Nat
      BY <1>6 DEF Entry, onEntry
    <2>2. inCalls(a)' = tx.setAside[a] - (tx.paid[a] + e.toPayee)
      BY <1>10
    <2>3. e.toPayee = o.moved + o.unpaid /\ o.moved \in Nat /\ o.unpaid \in Nat
      BY <1>5
    <2>4. book[a].balance = onEntry(book[a]) + (tx.setAside[a] - tx.paid[a])
      BY <1>6
    <2> QED
      BY <1>9, <2>1, <2>2, <2>3, <2>4, SMTT(60)
  <1>12. \A x \in Asset : x # a => inCalls(x)' = inCalls(x)
    BY <1>10 DEF inCalls
  <1> QED
    BY <1>4, <1>8, <1>11, <1>12, OneExact DEF PoolInv, Sound

LEMMA FeeStaysExact ==
    ASSUME ~Hostile, PoolInv, ExactInv, tx # Idle, payFee
    PROVE  ExactInv'
  <1>1. tx \in Transaction /\ Chain /\ tx.pays \in Seq(Payment) /\ tx.pays # <<>>
    BY Flying DEF payFee, paying, Transaction
  <1>2. Head(tx.pays) \in Payment /\ Head(tx.pays) = tx.pays[1] /\ Len(tx.pays) # 0
    BY <1>1
  <1> SUFFICES ASSUME NEW e \in Payment, e = Head(tx.pays), NEW a \in Asset, a = e.asset
               PROVE  ExactInv'
    BY <1>2 DEF Payment
  <1>3. PICK o \in Push(a, e.toRouter) :
          /\ o.moved <= book[a].balance
          /\ book' = [book EXCEPT ![a] = deferred(pushed(book[a], o), o.unpaid)]
    BY Zenon DEF payFee
  <1>4. e.toRouter \in Nat /\ UNCHANGED before /\ tx.phase = "router"
    BY DEF Payment, payFee
  <1>5. o.moved \in Nat /\ o.unpaid \in Nat /\ o.lost = 0 /\ o.moved + o.unpaid = e.toRouter
    BY <1>4, PushExact
  <1>6. /\ book[a] \in Entry /\ tx.setAside \in [Asset -> Nat] /\ tx.paid \in [Asset -> Nat]
        /\ book[a].balance = onEntry(book[a]) + (tx.setAside[a] - tx.paid[a])
    BY <1>1, Flying DEF Transaction, ExactInv, inCalls
  <1> DEFINE m == pushed(book[a], o)
             b == deferred(m, o.unpaid)
  <1>7. m \in Entry /\ m.balance = book[a].balance - o.moved /\ onEntry(m) = onEntry(book[a])
    BY <1>3, <1>5, <1>6, PushedEntry DEF Entry, onEntry
  <1>8. book' = [book EXCEPT ![a] = b]
    BY <1>3
  <1> HIDE DEF m
  <1>9. b.balance = book[a].balance - o.moved /\ onEntry(b) = onEntry(book[a]) + o.unpaid
    BY <1>5, <1>7, DeferredEntry
  <1> HIDE DEF b
  <1>10. \A x \in Asset : e.upTo[x] = IF x = a THEN tx.paid[a] + e.toRouter ELSE tx.paid[x]
    <2>1. e.upTo = [tx.paid EXCEPT ![a] = @ + e.toRouter]
      BY <1>1, <1>2, <1>4, ChainHead
    <2> QED
      BY <1>6, <2>1
  <1>11. tx' # Idle /\ \A x \in Asset : inCalls(x)' = tx.setAside[x] - e.upTo[x]
    <2>1. tx' = [tx EXCEPT !.phase = "payee", !.pays = Tail(@), !.paid = e.upTo]
      BY DEF payFee
    <2>2. tx'.setAside = tx.setAside /\ tx'.kind = tx.kind /\ tx'.paid = e.upTo
      BY <1>1, <2>1 DEF Transaction
    <2>3. tx' # Idle
      BY <1>1, <2>2 DEF Transaction, Idle
    <2> QED
      BY <2>2, <2>3 DEF inCalls
  <1>12. b.balance = onEntry(b) + inCalls(a)'
    <2>1. onEntry(book[a]) \in Int /\ tx.setAside[a] \in Nat /\ tx.paid[a] \in Nat
      BY <1>6 DEF Entry, onEntry
    <2>2. inCalls(a)' = tx.setAside[a] - (tx.paid[a] + e.toRouter)
      BY <1>10, <1>11
    <2>3. e.toRouter = o.moved + o.unpaid /\ o.moved \in Nat /\ o.unpaid \in Nat
      BY <1>5
    <2>4. book[a].balance = onEntry(book[a]) + (tx.setAside[a] - tx.paid[a])
      BY <1>6
    <2> QED
      BY <1>9, <2>1, <2>2, <2>3, <2>4, SMTT(60)
  <1>13. \A x \in Asset : x # a => inCalls(x)' = inCalls(x)
    BY <1>10, <1>11 DEF inCalls
  <1> QED
    BY <1>4, <1>8, <1>12, <1>13, OneExact DEF PoolInv, Sound

LEMMA ResidualStaysExact ==
    ASSUME ~Hostile, PoolInv, ExactInv, tx # Idle, settleResidual
    PROVE  ExactInv'
  <1>1. tx \in Transaction
    BY Flying
  <1>2. PICK r \in tx.residual :
          /\ r.assetIn # r.assetOut
          /\ covers(book[r.assetIn], r.amountIn)
          /\ \E taken \in {0, r.amountIn}, out \in r.amountOutMin .. (r.amountOutMin + 1) :
                /\ taken <= book[r.assetIn].balance
                /\ r.assetIn = Native \/ ~Hostile => taken = r.amountIn
                /\ book' = [book EXCEPT
                      ![r.assetIn] = drawn(debited(@, r.amountIn), taken),
                      ![r.assetOut] = swappedIn(@, out, out % Scale[r.assetOut])]
    BY DEF settleResidual
  <1>3. r \in Residuals
    BY <1>1 DEF Transaction, Swap
  <1>4. PICK out \in r.amountOutMin .. (r.amountOutMin + 1) :
          /\ r.amountIn <= book[r.assetIn].balance
          /\ book' = [book EXCEPT
                ![r.assetIn] = drawn(debited(@, r.amountIn), r.amountIn),
                ![r.assetOut] = swappedIn(@, out, out % Scale[r.assetOut])]
    BY <1>2, ZenonT(40)
  <1>5. /\ r.assetIn \in Asset /\ r.assetOut \in Asset /\ r.amountIn \in Nat /\ out \in Nat
        /\ UNCHANGED before
    BY <1>3, PoolAssumption DEF settleResidual
  <1> SUFFICES ASSUME NEW i \in Asset, NEW j \in Asset, NEW amount \in Nat, i # j,
                      i = r.assetIn, j = r.assetOut, amount = r.amountIn
               PROVE  ExactInv'
    <2>1. r.assetIn # r.assetOut
      BY <1>2
    <2> QED
      BY <1>5, <2>1, ZenonT(40)
  <1> DEFINE b == drawn(debited(book[i], amount), amount)
             c == swappedIn(book[j], out, out % Scale[j])
  <1>6. book' = [[book EXCEPT ![i] = b] EXCEPT ![j] = c]
    BY <1>4 DEF PoolInv, Sound
  <1>7. book \in [Asset -> Entry] /\ book[i] \in Entry /\ book[j] \in Entry
    BY DEF PoolInv, Sound
  <1>8. debited(book[i], amount) \in Entry /\ debited(book[i], amount).balance = book[i].balance
        /\ onEntry(debited(book[i], amount)) = onEntry(book[i]) - amount
    BY <1>2, <1>7, DebitedEntry
  <1>9. b.balance = book[i].balance - amount /\ onEntry(b) = onEntry(book[i]) - amount
    BY <1>4, <1>8, DrawnEntry
  <1>10. c.balance = book[j].balance + out /\ onEntry(c) = onEntry(book[j]) + out
    <2>1. out % Scale[j] \in 0 .. out
      BY <1>5, QuotientNat, PoolAssumption
    <2> QED
      BY <1>5, <1>7, <2>1, SwappedInEntry
  <1> HIDE DEF b, c
  <1>11. tx' # Idle /\ \A x \in Asset : inCalls(x)' = inCalls(x)
    <2>1. tx' = [tx EXCEPT !.residual = {}]
      BY DEF settleResidual
    <2>2. tx'.setAside = tx.setAside /\ tx'.kind = tx.kind /\ tx'.paid = tx.paid
      BY <1>1, <2>1 DEF Transaction
    <2>3. tx' # Idle
      BY <1>1, <2>2 DEF Transaction, Idle
    <2> QED
      BY <2>2, <2>3 DEF inCalls
  <1>12. ASSUME NEW x \in Asset
         PROVE  book'[x].balance = onEntry(book'[x]) + inCalls(x)'
    <2>1. /\ book[x].balance \in Nat /\ onEntry(book[x]) \in Int /\ inCalls(x) \in Int
          /\ book[x].balance = onEntry(book[x]) + inCalls(x)
      <3>1. tx.setAside \in [Asset -> Nat] /\ tx.paid \in [Asset -> Nat]
        BY <1>1 DEF Transaction
      <3>2. inCalls(x) \in Int
        BY <3>1 DEF inCalls
      <3>3. book[x] \in Entry
        BY <1>7
      <3>4. book[x].balance \in Nat /\ onEntry(book[x]) \in Int
        BY <3>3 DEF Entry, onEntry
      <3> QED
        BY <3>2, <3>4 DEF ExactInv
    <2>2. CASE x = i
      <3>1. book'[x] = b
        BY <1>6, <1>7, <2>2
      <3> QED
        BY <1>9, <1>11, <2>1, <2>2, <3>1
    <2>3. CASE x = j
      <3>1. book'[x] = c
        BY <1>6, <1>7, <2>3
      <3> QED
        BY <1>5, <1>10, <1>11, <2>1, <2>3, <3>1
    <2>4. CASE x # i /\ x # j
      <3>1. book'[x] = book[x]
        BY <1>6, <1>7, <2>4
      <3> QED
        BY <1>11, <2>1, <3>1
    <2> QED
      BY <2>2, <2>3, <2>4
  <1> QED
    BY <1>5, <1>12 DEF ExactInv, onEntry

LEMMA CommitStaysExact ==
    ASSUME PoolInv, ExactInv, commit
    PROVE  ExactInv'
  <1>1. tx # Idle /\ tx.pays = <<>> /\ tx' = Idle /\ UNCHANGED book
    BY DEF commit, ledgerVars
  <1>2. tx.paid = tx.setAside /\ tx.setAside \in [Asset -> Nat]
    BY <1>1, Flying DEF Chain, Transaction
  <1>3. \A x \in Asset : inCalls(x) = 0 /\ inCalls(x)' = 0
    BY <1>1, <1>2 DEF inCalls
  <1> QED
    BY <1>1, <1>3 DEF ExactInv, onEntry

LEMMA RevertStaysExact ==
    ASSUME PoolInv, ExactInv, tx # Idle, revert
    PROVE  ExactInv'
  <1>1. tx' = Idle /\ book' = before.book
    BY DEF revert
  <1>2. ASSUME NEW x \in Asset
        PROVE  book'[x].balance = onEntry(book'[x]) + inCalls(x)'
    <2>1. before.book[x] \in Entry /\ inCalls(x)' = 0
      BY <1>1, Flying DEF CanRevert, Sound, inCalls
    <2>2. onEntry(before.book[x]) \in Int
      BY <2>1 DEF Entry, onEntry
    <2> QED
      BY <1>1, <2>1, <2>2 DEF ExactInv
  <1> QED
    BY <1>1, <1>2 DEF ExactInv, onEntry

\* A payout of n, by a token that moves what it is asked to, from an entry that owes
\* n less.
LEMMA PaidOutExact ==
    ASSUME ~Hostile, PoolInv, ExactInv, tx = Idle, UNCHANGED tx, NEW a \in Asset, NEW n \in Nat,
           NEW c \in Entry, c.balance = book[a].balance, onEntry(c) = onEntry(book[a]) - n,
           NEW moved \in PayOut(a, n), moved <= book[a].balance,
           book' = [book EXCEPT ![a] = drawn(c, moved)]
    PROVE  ExactInv'
  <1> DEFINE b == drawn(c, moved)
  <1>1. moved = n /\ book' = [book EXCEPT ![a] = b]
    BY DEF PayOut
  <1>2. b.balance = book[a].balance - n /\ onEntry(b) = onEntry(book[a]) - n
    BY <1>1, DrawnEntry
  <1> HIDE DEF b
  <1>3. \A x \in Asset : inCalls(x) = 0 /\ inCalls(x)' = 0
    BY DEF inCalls
  <1>4. book[a].balance \in Nat /\ onEntry(book[a]) \in Int
    BY DEF PoolInv, Sound, Entry, onEntry
  <1>5. b.balance = onEntry(b) + inCalls(a)'
    BY <1>2, <1>3, <1>4 DEF ExactInv
  <1> QED
    BY <1>1, <1>3, <1>5, OneExact DEF PoolInv, Sound

LEMMA WithdrawStaysExact ==
    ASSUME ~Hostile, PoolInv, ExactInv, Withdraw
    PROVE  ExactInv'
  <1>1. \A a \in Asset : book[a] \in Entry
    BY DEF PoolInv, Sound
  <1>2. ASSUME NEW s \in Account, NEW a \in Asset, claim(s, a)
        PROVE  ExactInv'
    <2>1. book[a].claimable[s] \in Nat /\ tx = Idle /\ UNCHANGED tx
      BY <1>1, <1>2 DEF Entry, claim
    <2>2. PICK moved \in PayOut(a, book[a].claimable[s]) :
            moved <= book[a].balance /\ book' = [book EXCEPT ![a] = drawn(claimed(book[a], s), moved)]
      BY <1>2 DEF claim
    <2> QED
      BY <1>1, <2>1, <2>2, ClaimedEntry, PaidOutExact
  <1>3. ASSUME NEW a \in Asset, sweepFees(a)
        PROVE  ExactInv'
    <2>1. book[a].unswept \in Nat /\ tx = Idle /\ UNCHANGED tx
      BY <1>1, <1>3 DEF Entry, sweepFees
    <2>2. PICK moved \in PayOut(a, book[a].unswept) :
            moved <= book[a].balance /\ book' = [book EXCEPT ![a] = drawn(swept(book[a]), moved)]
      BY <1>3 DEF sweepFees
    <2> QED
      BY <1>1, <2>1, <2>2, SweptEntry, PaidOutExact
  <1>4. ASSUME NEW s \in Account, NEW d \in Account, NEW a \in Asset, betaRefund(s, a, d)
        PROVE  ExactInv'
    <2> DEFINE amount == refundOf(a, beta[a].refundable[d])
    <2>1. covers(book[a], amount) /\ amount \in Nat /\ tx = Idle /\ UNCHANGED tx
      BY <1>4, RefundNat DEF betaRefund
    <2>2. PICK moved \in PayOut(a, amount) :
            moved <= book[a].balance /\ book' = [book EXCEPT ![a] = drawn(debited(book[a], amount), moved)]
      BY <1>4 DEF betaRefund
    <2> HIDE DEF amount
    <2> QED
      BY <1>1, <2>1, <2>2, DebitedEntry, PaidOutExact
  <1> QED
    BY <1>2, <1>3, <1>4 DEF Withdraw

LEMMA SwitchStaysExact ==
    ASSUME MaxGift = 0, PoolInv, ExactInv, Switch
    PROVE  ExactInv'
  <1>1. ASSUME NEW a \in Asset, receive(a)
        PROVE  FALSE
    BY <1>1 DEF receive, PoolInv, Sound, Entry
  <1>2. ASSUME switch
        PROVE  ExactInv'
    BY <1>2 DEF switch, ledgerVars, ExactInv, onEntry, inCalls
  <1> QED
    BY <1>1, <1>2 DEF Switch, registerAsset, setDepositsPaused, setBetaPaused, setOpenDeposits,
       setBetaDepositor, setBetaCaps, setDepositorRegistrar, endBetaMode

LEMMA ExactStep ==
    ASSUME ~Hostile, MaxGift = 0
    PROVE  PoolInv /\ ExactInv /\ [PoolNext]_poolVars => ExactInv'
  <1> SUFFICES ASSUME PoolInv, ExactInv, [PoolNext]_poolVars
               PROVE  ExactInv'
    OBVIOUS
  <1>1. CASE Deposit
    BY <1>1, AbsorbStaysExact, PoolAssumption DEF Deposit
  <1>2. CASE Settle
    BY <1>2, SettleStaysExact DEF Settle
  <1>3. ASSUME tx # Idle, InFlightStep
        PROVE  ExactInv'
    BY <1>3, AccountStaysExact, PayeeStaysExact, FeeStaysExact, ResidualStaysExact, CommitStaysExact,
       RevertStaysExact DEF InFlightStep
  <1>4. CASE Withdraw
    BY <1>4, WithdrawStaysExact
  <1>5. CASE Switch
    BY <1>5, SwitchStaysExact
  <1>6. CASE UNCHANGED poolVars
    BY <1>6 DEF poolVars, ledgerVars, ExactInv, onEntry, inCalls
  <1>7. InFlightStep => tx # Idle
    BY InFlightOnly
  <1> QED
    BY <1>1, <1>2, <1>3, <1>4, <1>5, <1>6, <1>7 DEF PoolNext

LEMMA ExactInit == PoolInit => ExactInv
  BY DEF PoolInit, ExactInv, onEntry, inCalls

\* With tokens that move what they are asked to and no gifts, the balance between
\* transactions is what the books say to the last unit: what settleBatch takes from
\* the shielded total is paid, credited or held for the router (_pushOrCredit,
\* _routeFee, _settleResidual).
THEOREM NothingIsStranded ==
    ASSUME ~Hostile, MaxGift = 0
    PROVE  PoolSpec => []NothingStranded
  <1>1. PoolInv /\ LostInv /\ ExactInv => NothingStranded
    <2> SUFFICES ASSUME PoolInv, LostInv, ExactInv, tx = Idle, NEW a \in Asset
                 PROVE  book[a].balance = onBooks(a)
      BY DEF NothingStranded
    <2>1. book[a] \in Entry /\ inCalls(a) = 0 /\ book[a].lost = 0
      BY DEF PoolInv, Sound, inCalls, LostInv, Sighted
    <2> QED
      BY <2>1 DEF ExactInv, onBooks, onEntry, Entry
  <1>2. PoolInv /\ ExactInv /\ [PoolNext]_poolVars => ExactInv'
    BY ExactStep
  <1> QED
    BY <1>1, <1>2, PoolInvariant, LostInvariant, ExactInit, PTL DEF PoolSpec

-----------------------------------------------------------------------------
(* The notes back the shielded totals.                                     *)

\* What a part of a sum is when the rest is zeros.
LEMMA SumOfPart ==
    ASSUME NEW f, NEW h, NEW S, IsFiniteSet(S), NEW T \in SUBSET S, \A x \in T : f[x] \in Int,
           \A x \in T : h[x] = f[x], \A x \in S \ T : h[x] = 0
    PROVE  SumFunctionOnSet(h, S) = SumFunctionOnSet(f, T)
  <1>1. IsFiniteSet(T) /\ IsFiniteSet(S \ T)
    BY FS_Subset
  <1>2. SumFunctionOnSet(h, T) = SumFunctionOnSet(f, T) /\ SumFunctionOnSet(f, T) \in Int
    BY <1>1, SumSame, SumInt
  <1>3. SumFunctionOnSet(h, S \ T) = 0
    BY <1>1, SumZero
  <1>4. T \cup (S \ T) = S /\ T \cap (S \ T) = {} /\ \A x \in T \cup (S \ T) : h[x] \in Int
    OBVIOUS
  <1>5. SumFunctionOnSet(h, T \cup (S \ T)) = SumFunctionOnSet(h, T) + SumFunctionOnSet(h, S \ T)
    BY <1>1, <1>4, SumDisjoint
  <1>6. SumFunctionOnSet(h, T \cup (S \ T)) = SumFunctionOnSet(h, S)
    BY <1>4
  <1> QED
    BY <1>2, <1>3, <1>5, <1>6

\* The sum over a sequence is its first summand and the sum over the tail.
LEMMA SumOfTail ==
    ASSUME NEW m \in Nat, NEW f, NEW g, \A i \in 1 .. m + 1 : f[i] \in Int,
           \A i \in 1 .. m : g[i] = f[i + 1]
    PROVE  SumFunctionOnSet(f, 1 .. m + 1) = f[1] + SumFunctionOnSet(g, 1 .. m)
  <1> DEFINE F(k) == SumFunctionOnSet(f, 1 .. k + 1)
             G(k) == SumFunctionOnSet(g, 1 .. k)
             S == {k \in 0 .. m : F(k) = f[1] + G(k)}
  <1>0. \A k \in 0 .. m : G(k) \in Int
    <2> SUFFICES ASSUME NEW k \in 0 .. m
                 PROVE  G(k) \in Int
      OBVIOUS
    <2>0. k \in Int /\ 1 \in Int /\ \A i \in 1 .. k : i + 1 \in 1 .. m + 1 /\ i \in 1 .. m
      OBVIOUS
    <2>1. IsFiniteSet(1 .. k) /\ \A i \in 1 .. k : g[i] \in Int
      BY <2>0, FS_Interval
    <2> QED
      BY <2>1, SumInt
  <1>1. 0 \in S
    <2>1. 1 .. 0 + 1 = {} \cup {1} /\ 1 .. 0 = {} /\ f[1] \in Int
      OBVIOUS
    <2>2. SumFunctionOnSet(f, {} \cup {1}) = SumFunctionOnSet(f, {}) + f[1]
      BY <2>1, SumAdds, FS_EmptySet
    <2>3. SumFunctionOnSet(f, {}) = 0 /\ SumFunctionOnSet(g, {}) = 0
      BY SumEmpty
    <2>4. F(0) = SumFunctionOnSet(f, {} \cup {1}) /\ G(0) = SumFunctionOnSet(g, {})
      BY <2>1
    <2> HIDE DEF F, G
    <2> QED
      BY <2>1, <2>2, <2>3, <2>4
  <1>2. ASSUME NEW k \in 0 .. m - 1, k \in S
        PROVE  k + 1 \in S
    <2>1. /\ k \in Nat /\ k + 1 \in 0 .. m /\ k + 2 \in 1 .. m + 1 /\ k + 1 \in 1 .. m
          /\ 1 .. (k + 1) + 1 = (1 .. k + 1) \cup {k + 2} /\ k + 2 \notin 1 .. k + 1
          /\ 1 .. k + 1 = (1 .. k) \cup {k + 1} /\ k + 1 \notin 1 .. k
      BY <1>2
    <2>2. IsFiniteSet(1 .. k + 1) /\ IsFiniteSet(1 .. k)
      BY <2>1, FS_Interval
    <2>3. (\A i \in (1 .. k + 1) \cup {k + 2} : f[i] \in Int) /\ (\A i \in (1 .. k) \cup {k + 1} : g[i] \in Int)
      BY <2>1
    <2>4. SumFunctionOnSet(f, (1 .. k + 1) \cup {k + 2}) = SumFunctionOnSet(f, 1 .. k + 1) + f[k + 2]
      <3> DEFINE A == 1 .. k + 1
                 x == k + 2
      <3>1. IsFiniteSet(A) /\ x \notin A /\ \A i \in A \cup {x} : f[i] \in Int
        BY <2>1, <2>2, <2>3
      <3> HIDE DEF A, x
      <3>2. SumFunctionOnSet(f, A \cup {x}) = SumFunctionOnSet(f, A) + f[x]
        BY <3>1, SumAdds
      <3> QED
        BY <3>2 DEF A, x
    <2>5. SumFunctionOnSet(g, (1 .. k) \cup {k + 1}) = SumFunctionOnSet(g, 1 .. k) + g[k + 1]
      <3> DEFINE A == 1 .. k
                 x == k + 1
      <3>1. IsFiniteSet(A) /\ x \notin A /\ \A i \in A \cup {x} : g[i] \in Int
        BY <2>1, <2>2, <2>3
      <3> HIDE DEF A, x
      <3>2. SumFunctionOnSet(g, A \cup {x}) = SumFunctionOnSet(g, A) + g[x]
        BY <3>1, SumAdds
      <3> QED
        BY <3>2 DEF A, x
    <2>6. F(k + 1) = SumFunctionOnSet(f, (1 .. k + 1) \cup {k + 2})
      BY <2>1
    <2>7. G(k + 1) = SumFunctionOnSet(g, (1 .. k) \cup {k + 1})
      BY <2>1
    <2>8. F(k + 1) = F(k) + f[k + 2] /\ G(k + 1) = G(k) + g[k + 1] /\ F(k) = f[1] + G(k)
      BY <1>2, <2>4, <2>5, <2>6, <2>7
    <2>9. g[k + 1] = f[k + 2] /\ f[k + 2] \in Int /\ f[1] \in Int /\ G(k) \in Int
      BY <1>0, <2>1
    <2> HIDE DEF F, G
    <2> QED
      BY <2>1, <2>8, <2>9
  <1>3. 0 .. m \subseteq S
    <2> HIDE DEF S
    <2> QED
      BY <1>1, <1>2, UpToInduction
  <1>4. m \in S
    BY <1>3
  <1> QED
    BY <1>4

\* What the notes of an asset are worth, and the unspent ones together.
unitsOf(N) == [i \in DOMAIN N |-> N[i].units]
worth(N, a) == [i \in DOMAIN N |-> IF N[i].asset = a THEN N[i].units ELSE 0]
live(N, S, a) == SumFunctionOnSet(worth(N, a), DOMAIN N \ S)

\* What the intents still to account for will take out.
takes(todo, a) == [i \in DOMAIN todo |-> IF todo[i].asset = a THEN leaves(todo[i]) ELSE 0]
pending(a) == IF tx = Idle THEN 0 ELSE SumFunctionOnSet(takes(tx.todo, a), DOMAIN tx.todo)

backed(shielded, N, S, a, out) == shielded = (live(N, S, a) + out) * Scale[a]

BackedInv ==
    /\ ~admit.woundDown =>
         \A a \in Asset \ swapped : backed(book[a].shielded, notes, spent, a, pending(a))
    /\ tx # Idle /\ ~before.admit.woundDown =>
         \A a \in Asset \ before.swapped :
            backed(before.book[a].shielded, before.notes, before.spent, a, 0)

allOf(N, I, b) == \A i \in I : N[i].asset = b

LEMMA LiveInt ==
    ASSUME NEW N \in Seq(Note), NEW S, NEW a
    PROVE  /\ live(N, S, a) \in Int /\ IsFiniteSet(DOMAIN N \ S)
           /\ \A i \in DOMAIN N : worth(N, a)[i] \in Nat
  <1>1. \A i \in DOMAIN N : worth(N, a)[i] \in Nat
    <2>1. \A i \in DOMAIN N : N[i] \in Note
      OBVIOUS
    <2> QED
      BY <2>1 DEF worth, Note
  <1>2. IsFiniteSet(DOMAIN N) /\ DOMAIN N \ S \subseteq DOMAIN N
    <2>1. DOMAIN N = 1 .. Len(N) /\ Len(N) \in Nat
      OBVIOUS
    <2> QED
      BY <2>1, FS_Interval
  <1>3. IsFiniteSet(DOMAIN N \ S)
    BY <1>2, FS_Subset
  <1> QED
    BY <1>1, <1>3, SumInt DEF live

\* A new note adds its value to its asset's.
LEMMA LiveGains ==
    ASSUME NEW N \in Seq(Note), NEW S \in SUBSET DOMAIN N, NEW nt \in Note, NEW a
    PROVE  live(Append(N, nt), S, a) = live(N, S, a) + (IF nt.asset = a THEN nt.units ELSE 0)
  <1> DEFINE M == Append(N, nt)
             last == Len(N) + 1
             w == worth(M, a)
             R == DOMAIN N \ S
  <1>1. /\ M \in Seq(Note) /\ DOMAIN N = 1 .. Len(N) /\ DOMAIN M = 1 .. last /\ Len(N) \in Nat
        /\ M[last] = nt /\ \A i \in DOMAIN N : M[i] = N[i]
    OBVIOUS
  <1>2. DOMAIN M \ S = R \cup {last} /\ last \notin R
    BY <1>1
  <1>3. /\ w[last] = IF nt.asset = a THEN nt.units ELSE 0
        /\ \A i \in R : w[i] = worth(N, a)[i]
    BY <1>1 DEF worth
  <1>4. IsFiniteSet(R) /\ \A i \in R : worth(N, a)[i] \in Int
    <2>1. IsFiniteSet(DOMAIN N \ S) /\ \A i \in DOMAIN N : worth(N, a)[i] \in Nat
      BY LiveInt
    <2> QED
      BY <2>1
  <1>5. w[last] \in Int
    BY <1>3 DEF Note
  <1> HIDE DEF w, M
  <1>6. SumFunctionOnSet(w, R) = SumFunctionOnSet(worth(N, a), R)
    BY <1>3, <1>4, SumSame
  <1>7. \A i \in R \cup {last} : w[i] \in Int
    BY <1>3, <1>4, <1>5
  <1>8. SumFunctionOnSet(w, R \cup {last}) = SumFunctionOnSet(w, R) + w[last]
    BY <1>2, <1>4, <1>7, SumAdds
  <1>9. live(M, S, a) = SumFunctionOnSet(w, R \cup {last})
    BY <1>2 DEF live, w
  <1> QED
    BY <1>3, <1>6, <1>8, <1>9 DEF M, live

\* Spending notes of one asset takes their value from that asset's total, and nothing
\* from the others'.
LEMMA LiveLoses ==
    ASSUME NEW N \in Seq(Note), NEW S, NEW I, I \subseteq DOMAIN N \ S, NEW a, allOf(N, I, a)
    PROVE  live(N, S \cup I, a) = live(N, S, a) - SumFunctionOnSet(unitsOf(N), I)
  <1> DEFINE w == worth(N, a)
             R == DOMAIN N \ (S \cup I)
  <1>1. DOMAIN N \ S = R \cup I /\ R \cap I = {}
    OBVIOUS
  <1>2. IsFiniteSet(DOMAIN N \ S) /\ \A i \in DOMAIN N : w[i] \in Nat
    BY LiveInt
  <1>3. IsFiniteSet(R) /\ IsFiniteSet(I) /\ \A i \in R \cup I : w[i] \in Int
    <2>1. R \subseteq DOMAIN N \ S
      BY <1>1
    <2> HIDE DEF R, w
    <2> QED
      BY <1>1, <1>2, <2>1, FS_Subset
  <1>4. \A i \in I : unitsOf(N)[i] = w[i]
    BY DEF unitsOf, worth, allOf
  <1>5. live(N, S, a) = SumFunctionOnSet(w, R \cup I) /\ live(N, S \cup I, a) = SumFunctionOnSet(w, R)
    BY <1>1 DEF live
  <1> HIDE DEF w, R
  <1>6. SumFunctionOnSet(w, R \cup I) = SumFunctionOnSet(w, R) + SumFunctionOnSet(w, I)
    BY <1>1, <1>3, SumDisjoint
  <1>7. SumFunctionOnSet(w, R) \in Int /\ SumFunctionOnSet(w, I) \in Int
    BY <1>3, SumInt
  <1>8. SumFunctionOnSet(unitsOf(N), I) = SumFunctionOnSet(w, I)
    BY <1>3, <1>4, SumSame
  <1> QED
    BY <1>5, <1>6, <1>7, <1>8

LEMMA LiveKeeps ==
    ASSUME NEW N \in Seq(Note), NEW S, NEW I, I \subseteq DOMAIN N \ S, NEW a, NEW b, b # a,
           allOf(N, I, b)
    PROVE  live(N, S \cup I, a) = live(N, S, a)
  <1> DEFINE w == worth(N, a)
             R == DOMAIN N \ (S \cup I)
             T == DOMAIN N \ S
  <1>1. R \subseteq T /\ \A i \in T \ R : i \in I
    OBVIOUS
  <1>2. IsFiniteSet(T) /\ \A i \in R : w[i] \in Int
    <2>1. IsFiniteSet(DOMAIN N \ S) /\ \A i \in DOMAIN N : w[i] \in Nat
      BY LiveInt
    <2> HIDE DEF w
    <2> QED
      BY <2>1
  <1>3. \A i \in T \ R : w[i] = 0
    BY <1>1 DEF worth, allOf
  <1>4. live(N, S, a) = SumFunctionOnSet(w, T) /\ live(N, S \cup I, a) = SumFunctionOnSet(w, R)
    BY DEF live
  <1> HIDE DEF w, R, T
  <1>5. SumFunctionOnSet(w, T) = SumFunctionOnSet(w, R)
    BY <1>1, <1>2, <1>3, SumOfPart
  <1> QED
    BY <1>4, <1>5

withChange(N, it) == IF it.change > 0 THEN Append(N, changeOf(it)) ELSE N

\* An intent turns its inputs into what it takes out and the change it keeps.
LEMMA SpendsOne ==
    ASSUME NEW N \in Seq(Note), NEW S \in SUBSET DOMAIN N, NEW it \in Intent, NEW a,
           it.inputs \subseteq DOMAIN N \ S, allOf(N, it.inputs, it.asset),
           it.change = SumFunctionOnSet(unitsOf(N), it.inputs) - leaves(it),
           NEW M, M = withChange(N, it),
           NEW out, out = IF it.asset = a THEN leaves(it) ELSE 0
    PROVE  live(M, S \cup it.inputs, a) + out = live(N, S, a)
  <1> DEFINE I == it.inputs
             v == SumFunctionOnSet(unitsOf(N), I)
  <1>1. live(N, S \cup I, a) = live(N, S, a) - (IF it.asset = a THEN v ELSE 0)
    <2> DEFINE b == it.asset
    <2>1. I \subseteq DOMAIN N \ S /\ allOf(N, I, b)
      BY DEF allOf
    <2> HIDE DEF I, b
    <2>2. b = a => live(N, S \cup I, a) = live(N, S, a) - SumFunctionOnSet(unitsOf(N), I)
      BY <2>1, LiveLoses
    <2>3. b # a => live(N, S \cup I, a) = live(N, S, a)
      BY <2>1, LiveKeeps
    <2>4. live(N, S, a) \in Int
      BY LiveInt
    <2> QED
      BY <2>2, <2>3, <2>4 DEF v, b
  <1>2. /\ it.change \in Nat /\ leaves(it) \in Nat /\ changeOf(it) \in Note
        /\ changeOf(it).asset = it.asset /\ changeOf(it).units = it.change
        /\ S \cup I \in SUBSET DOMAIN N
    BY DEF Intent, leaves, changeOf, Note
  <1>3. live(M, S \cup I, a) = live(N, S \cup I, a) + (IF it.asset = a THEN it.change ELSE 0)
    <2>1. live(Append(N, changeOf(it)), S \cup I, a)
            = live(N, S \cup I, a) + (IF it.asset = a THEN it.change ELSE 0)
      BY <1>2, LiveGains
    <2>2. live(N, S \cup I, a) \in Int
      BY LiveInt
    <2>3. CASE it.change > 0
      BY <2>1, <2>3 DEF withChange
    <2>4. CASE it.change = 0
      BY <2>2, <2>4 DEF withChange
    <2> QED
      BY <1>2, <2>3, <2>4
  <1>4. live(N, S, a) \in Int /\ live(N, S \cup I, a) \in Int /\ v \in Int
    <2>1. IsFiniteSet(DOMAIN N \ S) /\ I \subseteq DOMAIN N \ S
      BY LiveInt
    <2>2. IsFiniteSet(I)
      BY <2>1, FS_Subset
    <2>3. \A i \in I : unitsOf(N)[i] \in Int
      <3>1. \A i \in DOMAIN N : N[i] \in Note
        OBVIOUS
      <3> QED
        BY <2>1, <3>1 DEF Note, unitsOf
    <2> QED
      BY <2>2, <2>3, LiveInt, SumInt
  <1>5. it.change = v - leaves(it)
    OBVIOUS
  <1> HIDE DEF v, I
  <1>6. live(M, S \cup I, a) + out = live(N, S, a)
    BY <1>1, <1>2, <1>3, <1>4, <1>5
  <1> QED
    BY <1>6 DEF I

LEMMA ValueIsSum ==
    ASSUME NEW I
    PROVE  valueOf(I) = SumFunctionOnSet(unitsOf(notes), I)
  BY DEF valueOf, unitsOf

LEMMA Joined ==
    ASSUME NEW N \in Seq(Note), NEW K \in Seq(Note)
    PROVE  /\ N \o K \in Seq(Note) /\ DOMAIN N \subseteq DOMAIN (N \o K)
           /\ \A i \in DOMAIN N : (N \o K)[i] = N[i]
           /\ \A nt \in Note : N \o Append(K, nt) = Append(N \o K, nt)
           /\ N \o <<>> = N
  OBVIOUS

\* A batch turns what it spends into what it takes out and the change it keeps.
LEMMA BatchSpends ==
    ASSUME PoolInv, NotesInv, NEW n \in Nat,
           NEW batch \in [1 .. n -> Intents(Account, Account \cup {SUBMITTER})], unspent(batch), NEW a
    PROVE  live(notes \o changeNotes(batch), spent \cup UNION {batch[i].inputs : i \in DOMAIN batch}, a)
             + SumFunctionOnSet(takes(batch, a), DOMAIN batch) = live(notes, spent, a)
  <1> DEFINE kept == keptUpTo(batch)
             N(k) == notes \o kept[k]
             S(k) == spent \cup UNION {batch[i].inputs : i \in 1 .. k}
             t == takes(batch, a)
             P(k) == SumFunctionOnSet(t, 1 .. k)
             H == {k \in 0 .. n : live(N(k), S(k), a) + P(k) = live(notes, spent, a)}
  <1>1. /\ batch \in Seq(Intent) /\ Len(batch) = n /\ DOMAIN batch = 1 .. n
        /\ notes \in Seq(Note) /\ spent \subseteq DOMAIN notes
    BY BatchTyped DEF NotesInv, NotesSound
  <1>2. /\ kept[0] = <<>>
        /\ \A k \in 1 .. n : kept[k] = IF batch[k].change > 0 THEN Append(kept[k - 1], changeOf(batch[k]))
                                       ELSE kept[k - 1]
        /\ \A k \in 0 .. n : kept[k] \in Seq(Note)
    BY <1>1, KeptStepByStep
  <1>3. \A i \in 1 .. n : /\ batch[i] \in Intent /\ batch[i].inputs \subseteq DOMAIN notes
                          /\ allOf(notes, batch[i].inputs, batch[i].asset)
                          /\ batch[i].change = SumFunctionOnSet(unitsOf(notes), batch[i].inputs) - leaves(batch[i])
    <2> SUFFICES ASSUME NEW i \in 1 .. n
                 PROVE  /\ batch[i] \in Intent /\ batch[i].inputs \subseteq DOMAIN notes
                        /\ allOf(notes, batch[i].inputs, batch[i].asset)
                        /\ batch[i].change = SumFunctionOnSet(unitsOf(notes), batch[i].inputs) - leaves(batch[i])
      OBVIOUS
    <2> DEFINE it == batch[i]
    <2>0. it \in Intents(Account, Account \cup {SUBMITTER})
      OBVIOUS
    <2>1. it \in Intents(Account, Account \cup {SUBMITTER}) /\ it \in Intent
      BY <2>0, IntentsTyped DEF PoolInv, Sound
    <2> HIDE DEF it
    <2>2. /\ it.inputs \in SUBSET (1 .. Len(notes))
          /\ \A j \in it.inputs : notes[j].asset = it.asset
          /\ it.change = valueOf(it.inputs) - it.publicAmount - it.fee
      BY <2>1, IntentInputs
    <2>3. it.inputs \subseteq DOMAIN notes /\ allOf(notes, it.inputs, it.asset)
      BY <1>1, <2>2 DEF allOf
    <2>4. SumFunctionOnSet(unitsOf(notes), it.inputs) \in Int
      <3>1. IsFiniteSet(it.inputs)
        <4>1. Len(notes) \in Int /\ 1 \in Int
          BY <1>1
        <4>2. IsFiniteSet(1 .. Len(notes))
          BY <4>1, FS_Interval
        <4> QED
          BY <2>2, <4>2, FS_Subset
      <3>2. \A j \in DOMAIN notes : notes[j] \in Note
        BY <1>1
      <3>3. \A j \in it.inputs : unitsOf(notes)[j] \in Int
        BY <2>3, <3>2 DEF unitsOf, Note
      <3> QED
        BY <3>1, <3>3, SumInt
    <2>5. it.publicAmount \in Nat /\ it.fee \in Nat
      BY <2>1 DEF Intent
    <2>6. it.change = SumFunctionOnSet(unitsOf(notes), it.inputs) - leaves(it)
      BY <2>2, <2>4, <2>5, ValueIsSum DEF leaves
    <2> QED
      BY <2>1, <2>3, <2>6 DEF it
  <1>4. \A i \in 1 .. n : /\ batch[i].inputs \cap spent = {}
                          /\ \A j \in 1 .. n : i # j => batch[i].inputs \cap batch[j].inputs = {}
    BY <1>1 DEF unspent
  <1>5. \A i \in 1 .. n : t[i] = (IF batch[i].asset = a THEN leaves(batch[i]) ELSE 0) /\ t[i] \in Nat
    <2>1. \A i \in 1 .. n : batch[i].publicAmount \in Nat /\ batch[i].fee \in Nat
      BY <1>3 DEF Intent
    <2>2. \A i \in 1 .. n : t[i] = (IF batch[i].asset = a THEN leaves(batch[i]) ELSE 0)
      BY <1>1 DEF takes
    <2> HIDE DEF t
    <2> QED
      BY <2>1, <2>2 DEF leaves
  <1> HIDE DEF t, kept
  <1>6. 0 \in H
    <2>1. 1 .. 0 = {} /\ S(0) = spent
      OBVIOUS
    <2>2. N(0) = notes
      BY <1>1, <1>2, Joined
    <2>3. P(0) = SumFunctionOnSet(t, {})
      BY <2>1
    <2>4. P(0) = 0 /\ live(notes, spent, a) \in Int
      BY <1>1, <2>3, SumEmpty, LiveInt
    <2>5. live(N(0), S(0), a) = live(notes, spent, a)
      BY <2>1, <2>2
    <2> HIDE DEF N, S, P
    <2> QED
      BY <2>4, <2>5
  <1>7. ASSUME NEW k \in 0 .. n - 1, k \in H
        PROVE  k + 1 \in H
    <2> DEFINE it == batch[k + 1]
    <2>1. k \in Nat /\ k + 1 \in 1 .. n /\ k + 1 \in 0 .. n /\ (k + 1) - 1 = k /\ k \in 0 .. n
          /\ 1 .. k + 1 = (1 .. k) \cup {k + 1} /\ k + 1 \notin 1 .. k
          /\ \A i \in 1 .. k : i \in 1 .. n /\ i # k + 1
      BY <1>7
    <2>2. /\ N(k) \in Seq(Note) /\ DOMAIN notes \subseteq DOMAIN N(k)
          /\ \A i \in DOMAIN notes : N(k)[i] = notes[i]
      BY <1>1, <1>2, <2>1, Joined
    <2>3. /\ it \in Intent /\ it.inputs \subseteq DOMAIN notes /\ allOf(notes, it.inputs, it.asset)
          /\ it.change = SumFunctionOnSet(unitsOf(notes), it.inputs) - leaves(it)
      BY <1>3, <2>1
    <2>4. S(k + 1) = S(k) \cup it.inputs /\ S(k) \subseteq DOMAIN notes /\ it.inputs \cap S(k) = {}
      <3>1. S(k + 1) = S(k) \cup it.inputs
        BY <2>1
      <3>2. S(k) \subseteq DOMAIN notes
        BY <1>1, <1>3, <2>1
      <3>3. it.inputs \cap S(k) = {}
        BY <1>4, <2>1
      <3> QED
        BY <3>1, <3>2, <3>3
    <2>5. N(k + 1) = IF it.change > 0 THEN Append(N(k), changeOf(it)) ELSE N(k)
      <3>1. changeOf(it) \in Note /\ kept[k] \in Seq(Note)
        BY <1>2, <2>1, <2>3 DEF Intent, Note, changeOf
      <3>2. kept[k + 1] = IF it.change > 0 THEN Append(kept[k], changeOf(it)) ELSE kept[k]
        BY <1>2, <2>1
      <3>3. notes \o Append(kept[k], changeOf(it)) = Append(notes \o kept[k], changeOf(it))
        BY <1>1, <3>1, Joined, SMTT(60)
      <3> QED
        BY <3>2, <3>3
    <2>6. P(k + 1) = P(k) + (IF it.asset = a THEN leaves(it) ELSE 0)
      <3> DEFINE A == 1 .. k
                 x == k + 1
      <3>1. IsFiniteSet(A) /\ x \notin A /\ \A i \in A \cup {x} : t[i] \in Int
        <4>1. \A i \in A \cup {x} : i \in 1 .. n
          BY <2>1
        <4>2. \A i \in 1 .. n : t[i] \in Int
          BY <1>5
        <4>3. k \in Int /\ 1 \in Int
          BY <2>1
        <4>4. IsFiniteSet(1 .. k)
          BY <4>3, FS_Interval
        <4> QED
          BY <2>1, <4>1, <4>2, <4>4
      <3>2. SumFunctionOnSet(t, A \cup {x}) = SumFunctionOnSet(t, A) + t[x]
        <4> HIDE DEF A, x
        <4> QED
          BY <3>1, SumAdds
      <3>3. P(k + 1) = SumFunctionOnSet(t, A \cup {x})
        BY <2>1
      <3>4. t[x] = IF it.asset = a THEN leaves(it) ELSE 0
        BY <1>5, <2>1
      <3> QED
        BY <3>2, <3>3, <3>4
    <2>7. SumFunctionOnSet(unitsOf(N(k)), it.inputs) = SumFunctionOnSet(unitsOf(notes), it.inputs)
      <3>1. \A i \in it.inputs : i \in DOMAIN notes /\ i \in DOMAIN N(k)
        BY <2>2, <2>3
      <3>2. \A i \in it.inputs : unitsOf(N(k))[i] = unitsOf(notes)[i]
        BY <2>2, <3>1 DEF unitsOf
      <3>3. \A i \in DOMAIN notes : notes[i] \in Note
        BY <1>1
      <3>4. \A i \in it.inputs : unitsOf(notes)[i] \in Int
        BY <3>1, <3>3 DEF unitsOf, Note
      <3>5. IsFiniteSet(it.inputs)
        <4>1. DOMAIN notes = 1 .. Len(notes) /\ Len(notes) \in Int
          BY <1>1
        <4>2. IsFiniteSet(DOMAIN notes)
          BY <4>1, FS_Interval
        <4> QED
          BY <2>3, <4>2, FS_Subset
      <3> HIDE DEF N, it
      <3> QED
        BY <3>2, <3>4, <3>5, SumSame
    <2>8. live(N(k), S(k), a) + P(k) = live(notes, spent, a)
      BY <1>7
    <2>9. allOf(N(k), it.inputs, it.asset)
      BY <2>2, <2>3 DEF allOf
    <2>10. /\ live(N(k), S(k), a) \in Int /\ live(N(k + 1), S(k + 1), a) \in Int
           /\ P(k) \in Int /\ leaves(it) \in Nat
      <3>1. N(k + 1) \in Seq(Note)
        BY <1>1, <1>2, <2>1, Joined
      <3>2. live(N(k), S(k), a) \in Int
        BY <2>2, LiveInt
      <3>3. live(N(k + 1), S(k + 1), a) \in Int
        BY <3>1, LiveInt
      <3>4. IsFiniteSet(1 .. k) /\ \A i \in 1 .. k : t[i] \in Int
        <4>1. \A i \in 1 .. k : t[i] \in Int
          BY <1>5, <2>1
        <4>2. k \in Int /\ 1 \in Int
          BY <2>1
        <4> QED
          BY <4>1, <4>2, FS_Interval
      <3>5. P(k) \in Int
        BY <3>4, SumInt
      <3>6. leaves(it) \in Nat
        BY <2>3 DEF Intent, leaves
      <3> QED
        BY <3>2, <3>3, <3>5, <3>6
    <2> DEFINE out == IF it.asset = a THEN leaves(it) ELSE 0
    <2> HIDE DEF N, S, P, it
    <2>11. live(N(k + 1), S(k + 1), a) + out = live(N(k), S(k), a)
      <3> DEFINE M == N(k + 1)
                 R == N(k)
                 D == S(k)
      <3>1. D \in SUBSET DOMAIN R /\ it.inputs \subseteq DOMAIN R \ D
        BY <2>2, <2>3, <2>4
      <3>2. allOf(R, it.inputs, it.asset)
        BY <2>9
      <3>3. it.change = SumFunctionOnSet(unitsOf(R), it.inputs) - leaves(it)
        BY <2>3, <2>7
      <3>4. out = IF it.asset = a THEN leaves(it) ELSE 0
        OBVIOUS
      <3>5. M = withChange(R, it)
        BY <2>5 DEF withChange
      <3>6. R \in Seq(Note) /\ it \in Intent
        BY <2>2, <2>3
      <3> HIDE DEF out, M, R, D
      <3>7. live(M, D \cup it.inputs, a) + out = live(R, D, a)
        BY <3>1, <3>2, <3>3, <3>4, <3>5, <3>6, SpendsOne
      <3>8. S(k + 1) = D \cup it.inputs
        BY <2>4 DEF D
      <3> QED
        BY <3>7, <3>8 DEF M, R, D
    <2>12. live(N(k + 1), S(k + 1), a) + P(k + 1) = live(notes, spent, a)
      BY <2>6, <2>8, <2>10, <2>11
    <2> QED
      BY <2>1, <2>12
  <1>8. 0 .. n \subseteq H
    <2> HIDE DEF H
    <2> QED
      BY <1>6, <1>7, UpToInduction
  <1>9. live(N(n), S(n), a) + P(n) = live(notes, spent, a)
    BY <1>8
  <1>10. N(n) = notes \o changeNotes(batch)
    BY <1>1, ChangeIsKept DEF kept
  <1>11. S(n) = spent \cup UNION {batch[i].inputs : i \in DOMAIN batch}
    BY <1>1
  <1>12. P(n) = SumFunctionOnSet(takes(batch, a), DOMAIN batch)
    BY <1>1 DEF t
  <1> HIDE DEF N, S, P
  <1> QED
    BY <1>9, <1>10, <1>11, <1>12

LEMMA BackedBegins ==
    ASSUME BackedInv, tx = Idle, before' = state, ~before'.admit.woundDown,
           NEW x \in Asset \ before'.swapped
    PROVE  backed(before'.book[x].shielded, before'.notes, before'.spent, x, 0)
  BY DEF BackedInv, state, pending

\* A step that moves neither notes nor the shielded totals of what it leaves unswapped.
LEMMA BackedSame ==
    ASSUME BackedInv, UNCHANGED <<notes, spent>>, swapped \subseteq swapped',
           \A x \in Asset \ swapped' : book'[x].shielded = book[x].shielded,
           ~admit'.woundDown => ~admit.woundDown, \A x \in Asset : pending(x)' = pending(x),
           tx' # Idle => tx # Idle /\ UNCHANGED before
    PROVE  BackedInv'
  <1>1. ASSUME ~admit'.woundDown, NEW x \in Asset \ swapped'
        PROVE  backed(book'[x].shielded, notes', spent', x, pending(x)')
    BY <1>1 DEF BackedInv
  <1>2. ASSUME tx' # Idle, ~before'.admit.woundDown, NEW x \in Asset \ before'.swapped
        PROVE  backed(before'.book[x].shielded, before'.notes, before'.spent, x, 0)
    BY <1>2 DEF BackedInv
  <1> QED
    BY <1>1, <1>2 DEF BackedInv, backed, live

LEMMA NonePending ==
    ASSUME NEW x
    PROVE  SumFunctionOnSet(takes(<<>>, x), DOMAIN <<>>) = 0
  <1>1. DOMAIN <<>> = {}
    OBVIOUS
  <1>2. SumFunctionOnSet(takes(<<>>, x), DOMAIN <<>>) = SumFunctionOnSet(takes(<<>>, x), {})
    BY <1>1
  <1> QED
    BY <1>2, SumEmpty

LEMMA TakesInt ==
    ASSUME NEW t \in Seq(Intent), NEW x
    PROVE  /\ \A i \in DOMAIN t : takes(t, x)[i] \in Nat
           /\ SumFunctionOnSet(takes(t, x), DOMAIN t) \in Int
  <1>1. ASSUME NEW i \in DOMAIN t
        PROVE  takes(t, x)[i] \in Nat
    <2>1. t[i] \in Intent
      OBVIOUS
    <2>2. leaves(t[i]) \in Nat
      BY <2>1, SMTT(40) DEF Intent, leaves
    <2> QED
      BY <2>2 DEF takes
  <1>2. IsFiniteSet(DOMAIN t)
    <2>1. DOMAIN t = 1 .. Len(t) /\ Len(t) \in Int
      OBVIOUS
    <2> QED
      BY <2>1, FS_Interval
  <1>3. \A i \in DOMAIN t : takes(t, x)[i] \in Int
    BY <1>1
  <1> QED
    BY <1>1, <1>2, <1>3, SumInt

LEMMA AbsorbBacks ==
    ASSUME PoolInv, NotesInv, BackedInv, NEW s \in Account, NEW a \in Asset, NEW units \in Nat,
           NEW feeUnits \in Nat, absorb(s, a, units, feeUnits)
    PROVE  BackedInv'
  <1> DEFINE v == units - feeUnits
             nt == [asset |-> a, units |-> v]
             amount == units * Scale[a]
             b == paidIn(book[a], amount, v * Scale[a])
  <1>1. /\ tx = Idle /\ before' = state /\ ~admit.woundDown /\ v \in Nat
        /\ book' = [book EXCEPT ![a] = b] /\ notes' = Append(notes, nt)
        /\ spent' = spent /\ swapped' = swapped
    BY DEF absorb, history, depositTaken
  <1>2. nt \in Note /\ nt.asset = a /\ nt.units = v
    BY <1>1 DEF Note
  <1>3. tx' # Idle /\ tx'.todo = <<>>
    BY InFlightFields DEF absorb
  <1>4. \A x \in Asset : book[x] \in Entry /\ book[x].shielded \in Nat
    BY DEF PoolInv, Sound, Entry
  <1>5. b.shielded = book[a].shielded + v * Scale[a]
    BY <1>4 DEF Entry, paidIn
  <1> HIDE DEF b, nt, v
  <1>6. ASSUME NEW x \in Asset \ swapped
        PROVE  backed(book'[x].shielded, notes', spent', x, pending(x)')
    <2>1. pending(x)' = 0
      BY <1>3, NonePending DEF pending
    <2>2. backed(book[x].shielded, notes, spent, x, 0) /\ live(notes, spent, x) \in Int
      BY <1>1, LiveInt DEF BackedInv, pending, NotesInv, NotesSound
    <2>3. live(notes', spent', x) = live(notes, spent, x) + (IF nt.asset = x THEN nt.units ELSE 0)
      BY <1>1, <1>2, LiveGains DEF NotesInv, NotesSound
    <2>4. CASE x = a
      <3>1. book'[x].shielded = book[x].shielded + v * Scale[x]
        BY <1>1, <1>5, <2>4 DEF PoolInv, Sound
      <3>2. live(notes', spent', x) = live(notes, spent, x) + v
        BY <1>2, <2>3, <2>4
      <3>3. (live(notes, spent, x) + v) * Scale[x] = live(notes, spent, x) * Scale[x] + v * Scale[x]
        <4>1. Scale[x] \in Int /\ v \in Int
          BY <1>1, PoolAssumption
        <4> QED
          BY <2>2, <4>1, Distribute
      <3>4. book[x].shielded = live(notes, spent, x) * Scale[x]
        BY <2>2 DEF backed
      <3>5. live(notes', spent', x) + 0 = live(notes, spent, x) + v
        BY <1>1, <2>2, <3>2
      <3> QED
        BY <2>1, <3>1, <3>3, <3>4, <3>5 DEF backed
    <2>5. CASE x # a
      <3>1. book'[x] = book[x] /\ live(notes', spent', x) = live(notes, spent, x)
        BY <1>1, <1>2, <2>2, <2>3, <2>5 DEF PoolInv, Sound
      <3> QED
        BY <2>1, <2>2, <3>1 DEF backed
    <2> QED
      BY <2>4, <2>5
  <1>7. ASSUME ~before'.admit.woundDown, NEW x \in Asset \ before'.swapped
        PROVE  backed(before'.book[x].shielded, before'.notes, before'.spent, x, 0)
    BY <1>1, <1>7, BackedBegins
  <1> QED
    BY <1>1, <1>6, <1>7 DEF BackedInv, backed, live

LEMMA SettleBacks ==
    ASSUME PoolInv, NotesInv, BackedInv, NEW s, NEW n \in Nat, NEW r, NEW price,
           NEW batch \in [1 .. n -> Intents(Account, Account \cup {SUBMITTER})],
           settleBatch(s, batch, r, price)
    PROVE  BackedInv'
  <1>1. /\ tx = Idle /\ before' = state /\ ~admit.woundDown /\ unspent(batch)
        /\ book' = book /\ notes' = notes \o changeNotes(batch) /\ swapped' = swapped
        /\ spent' = spent \cup UNION {batch[i].inputs : i \in DOMAIN batch}
    BY DEF settleBatch, history
  <1>2. tx' # Idle /\ tx'.todo = batch
    BY InFlightFields DEF settleBatch
  <1>3. ASSUME NEW x \in Asset \ swapped
        PROVE  backed(book'[x].shielded, notes', spent', x, pending(x)')
    <2>1. pending(x)' = SumFunctionOnSet(takes(batch, x), DOMAIN batch)
      BY <1>2 DEF pending
    <2>2. backed(book[x].shielded, notes, spent, x, 0) /\ live(notes, spent, x) \in Int
      BY <1>1, LiveInt DEF BackedInv, pending, NotesInv, NotesSound
    <2>3. live(notes', spent', x) + SumFunctionOnSet(takes(batch, x), DOMAIN batch) = live(notes, spent, x)
      BY <1>1, BatchSpends
    <2>4. live(notes', spent', x) + pending(x)' = live(notes, spent, x) + 0
      BY <2>1, <2>2, <2>3
    <2> QED
      BY <1>1, <2>2, <2>4 DEF backed
  <1>4. ASSUME ~before'.admit.woundDown, NEW x \in Asset \ before'.swapped
        PROVE  backed(before'.book[x].shielded, before'.notes, before'.spent, x, 0)
    BY <1>1, <1>4, BackedBegins
  <1> QED
    BY <1>1, <1>3, <1>4 DEF BackedInv, backed, live

\* What the next intent takes out is no longer pending.
LEMMA PendingFalls ==
    ASSUME NEW t \in Seq(Intent), t # <<>>, NEW x
    PROVE  SumFunctionOnSet(takes(t, x), DOMAIN t)
             = takes(t, x)[1] + SumFunctionOnSet(takes(Tail(t), x), DOMAIN Tail(t))
  <1> DEFINE m == Len(t) - 1
             f == takes(t, x)
             g == takes(Tail(t), x)
  <1>1. /\ m \in Nat /\ DOMAIN t = 1 .. m + 1 /\ DOMAIN Tail(t) = 1 .. m
        /\ \A i \in 1 .. m : Tail(t)[i] = t[i + 1] /\ i + 1 \in 1 .. m + 1
    OBVIOUS
  <1>2. \A i \in 1 .. m + 1 : f[i] \in Int
    <2>1. \A i \in DOMAIN t : f[i] \in Nat
      BY TakesInt
    <2> HIDE DEF f
    <2> QED
      BY <1>1, <2>1
  <1>3. \A i \in 1 .. m : g[i] = f[i + 1]
    BY <1>1 DEF takes
  <1> HIDE DEF m, f, g
  <1>4. SumFunctionOnSet(f, 1 .. m + 1) = f[1] + SumFunctionOnSet(g, 1 .. m)
    BY <1>1, <1>2, <1>3, SumOfTail
  <1>5. SumFunctionOnSet(f, DOMAIN t) = f[1] + SumFunctionOnSet(g, DOMAIN Tail(t))
    BY <1>1, <1>4
  <1> QED
    BY <1>5 DEF f, g

LEMMA CreditedKeeps ==
    ASSUME NEW b \in Entry, NEW to, NEW amount \in Nat
    PROVE  credited(b, to, amount).shielded = b.shielded
  BY DEF credited, Entry

LEMMA AccountBacks ==
    ASSUME PoolInv, NotesInv, BackedInv, tx # Idle, account
    PROVE  BackedInv'
  <1>1. tx \in Transaction /\ tx.todo \in Seq(Intent) /\ tx.todo # <<>>
    BY Flying DEF account, Transaction
  <1>2. Head(tx.todo) \in Intent /\ Head(tx.todo) = tx.todo[1] /\ 1 \in DOMAIN tx.todo
    BY <1>1
  <1> SUFFICES ASSUME NEW it \in Intent, it = Head(tx.todo), NEW a \in Asset, a = it.asset
               PROVE  BackedInv'
    BY <1>2 DEF Intent
  <1> DEFINE sc == Scale[a]
             owed == payment(a, it.to, it.publicAmount * sc, toRouter(it) * sc, tx.setAside)
             payee == IF it.feeTo = SUBMITTER THEN tx.sender ELSE it.feeTo
             left == debited(book[a], leaves(it) * sc)
             more == (it.fee - it.part) * sc
             b == IF it.feeTo = NoOne THEN left ELSE credited(left, payee, more)
  <1>3. /\ covers(book[a], leaves(it) * sc) /\ book' = [book EXCEPT ![a] = b] /\ UNCHANGED before
        /\ tx' = [tx EXCEPT !.todo = Tail(@), !.pays = Append(@, owed), !.setAside = owed.upTo]
        /\ UNCHANGED <<notes, spent, admit, swapped>>
    BY DEF account, history
  <1>4. sc \in Nat /\ leaves(it) \in Nat
    BY PoolAssumption DEF Intent, leaves
  <1>5. leaves(it) * sc \in Nat /\ more \in Nat /\ book[a] \in Entry
    BY <1>4, IntentSplits DEF PoolInv, Sound
  <1>6. b.shielded = book[a].shielded - leaves(it) * sc
    <2> HIDE DEF sc, more
    <2>1. left \in Entry /\ left.shielded = book[a].shielded - leaves(it) * sc
      BY <1>3, <1>5, DebitedEntry DEF debited, Entry
    <2> HIDE DEF left
    <2> QED
      BY <1>5, <2>1, CreditedKeeps
  <1>7. tx' # Idle /\ tx'.todo = Tail(tx.todo)
    <2> HIDE DEF owed
    <2>1. tx'.todo = Tail(tx.todo) /\ tx'.kind = tx.kind
      BY <1>1, <1>3 DEF Transaction
    <2> QED
      BY <1>1, <2>1 DEF Transaction, Idle
  <1> HIDE DEF b
  <1>8. ASSUME ~admit.woundDown, NEW x \in Asset \ swapped
        PROVE  backed(book'[x].shielded, notes', spent', x, pending(x)')
    <2> DEFINE now == SumFunctionOnSet(takes(tx.todo, x), DOMAIN tx.todo)
               then == SumFunctionOnSet(takes(Tail(tx.todo), x), DOMAIN Tail(tx.todo))
    <2>1. pending(x) = now /\ pending(x)' = then
      BY <1>7 DEF pending
    <2>2. now = takes(tx.todo, x)[1] + then
      BY <1>1, PendingFalls
    <2>3. takes(tx.todo, x)[1] = IF a = x THEN leaves(it) ELSE 0
      BY <1>2 DEF takes
    <2>4. Tail(tx.todo) \in Seq(Intent)
      BY <1>1
    <2>5. then \in Int
      BY <2>4, TakesInt
    <2>6. backed(book[x].shielded, notes, spent, x, now) /\ live(notes, spent, x) \in Int
      BY <1>8, <2>1, LiveInt DEF BackedInv, NotesInv, NotesSound
    <2> HIDE DEF now, then
    <2>7. CASE x = a
      <3> DEFINE rest == live(notes, spent, x) + then
      <3>1. rest \in Int /\ live(notes, spent, x) + now = rest + leaves(it)
        BY <1>4, <2>2, <2>3, <2>5, <2>6, <2>7
      <3> HIDE DEF rest
      <3>2. (rest + leaves(it)) * sc = rest * sc + leaves(it) * sc
        BY <1>4, <3>1, Distribute
      <3>3. rest * sc \in Int
        BY <1>4, <3>1
      <3>4. book[x].shielded = rest * sc + leaves(it) * sc
        BY <2>6, <2>7, <3>1, <3>2 DEF backed
      <3>5. book'[x].shielded = book[x].shielded - leaves(it) * sc
        BY <1>3, <1>6, <2>7 DEF PoolInv, Sound
      <3> HIDE DEF sc
      <3>6. book'[x].shielded = rest * sc
        BY <1>5, <3>3, <3>4, <3>5
      <3> QED
        BY <1>3, <2>1, <2>7, <3>6 DEF backed, rest, sc
    <2>8. CASE x # a
      <3>1. book'[x] = book[x] /\ now = then
        <4>1. book'[x] = book[x]
          BY <1>3, <2>8 DEF PoolInv, Sound
        <4>2. now = then
          BY <2>2, <2>3, <2>5, <2>8
        <4> QED
          BY <4>1, <4>2, Zenon
      <3> QED
        BY <1>3, <2>1, <2>6, <3>1
    <2> QED
      BY <2>7, <2>8
  <1>9. ASSUME ~before.admit.woundDown, NEW x \in Asset \ before.swapped
        PROVE  backed(before.book[x].shielded, before.notes, before.spent, x, 0)
    BY <1>9 DEF BackedInv
  <1> QED
    BY <1>3, <1>8, <1>9 DEF BackedInv, backed, live

LEMMA FlightBacks ==
    ASSUME PoolInv, NotesInv, BackedInv, tx # Idle, InFlightStep
    PROVE  BackedInv'
  <1>1. tx \in Transaction /\ \A x \in Asset : book[x] \in Entry
    BY Flying
  <1>2. ASSUME payOrCredit
        PROVE  BackedInv'
    <2>1. /\ tx' = [tx EXCEPT !.phase = "router", !.paid[Head(tx.pays).asset] = @ + Head(tx.pays).toPayee]
          /\ UNCHANGED <<notes, spent, admit, before, swapped>>
      BY <1>2 DEF payOrCredit, history
    <2>2. Head(tx.pays) \in Payment
      BY <1>1, <1>2 DEF payOrCredit, paying, Transaction
    <2>3. Head(tx.pays).asset \in Asset /\ Head(tx.pays).toPayee \in Nat
      BY <2>2 DEF Payment
    <2>4. tx' # Idle /\ tx'.todo = tx.todo
      <3>1. tx'.todo = tx.todo /\ tx'.kind = tx.kind
        BY <1>1, <2>1 DEF Transaction
      <3> QED
        BY <1>1, <3>1 DEF Transaction, Idle
    <2>5. \A x \in Asset : book'[x].shielded = book[x].shielded
      <3> DEFINE e == Head(tx.pays)
                 a == e.asset
      <3>1. PICK o \in Push(a, e.toPayee) :
              /\ o.moved <= book[a].balance
              /\ book' = [book EXCEPT ![a] = credited(pushed(book[a], o), e.to, o.unpaid)]
        BY <1>2, Zenon DEF payOrCredit
      <3>2. o.moved \in Nat /\ o.unpaid \in Nat /\ o.lost \in Nat
        BY <2>3, PushSplits
      <3>3. pushed(book[a], o) \in Entry /\ pushed(book[a], o).shielded = book[a].shielded
        BY <1>1, <2>3, <3>1, <3>2, PushedEntry
      <3>4. credited(pushed(book[a], o), e.to, o.unpaid).shielded = book[a].shielded
        BY <3>2, <3>3, CreditedKeeps
      <3> QED
        BY <3>1, <3>4 DEF PoolInv, Sound
    <2>6. \A x \in Asset : pending(x)' = pending(x)
      BY <2>4 DEF pending
    <2> QED
      BY <2>1, <2>4, <2>5, <2>6, BackedSame
  <1>3. ASSUME payFee
        PROVE  BackedInv'
    <2>1. /\ tx' = [tx EXCEPT !.phase = "payee", !.pays = Tail(@), !.paid = Head(tx.pays).upTo]
          /\ UNCHANGED <<notes, spent, admit, before, swapped>>
      BY <1>3 DEF payFee, history
    <2>2. tx' # Idle /\ tx'.todo = tx.todo
      <3>1. tx'.todo = tx.todo /\ tx'.kind = tx.kind
        BY <1>1, <2>1 DEF Transaction
      <3> QED
        BY <1>1, <3>1 DEF Transaction, Idle
    <2>3. \A x \in Asset : book'[x].shielded = book[x].shielded
      <3> DEFINE e == Head(tx.pays)
                 a == e.asset
      <3>1. PICK o \in Push(a, e.toRouter) :
              book' = [book EXCEPT ![a] = deferred(pushed(book[a], o), o.unpaid)]
        BY <1>3, Zenon DEF payFee
      <3>2. \A x \in Asset : x = a => deferred(pushed(book[x], o), o.unpaid).shielded = book[x].shielded
        BY <1>1 DEF deferred, pushed, Entry
      <3> QED
        BY <3>1, <3>2 DEF PoolInv, Sound
    <2>4. \A x \in Asset : pending(x)' = pending(x)
      BY <2>2 DEF pending
    <2> QED
      BY <2>1, <2>2, <2>3, <2>4, BackedSame
  <1>4. ASSUME settleResidual
        PROVE  BackedInv'
    <2>1. tx' = [tx EXCEPT !.residual = {}] /\ UNCHANGED <<notes, spent, admit, before>>
      BY <1>4 DEF settleResidual
    <2>2. tx' # Idle /\ tx'.todo = tx.todo
      <3>1. tx'.todo = tx.todo /\ tx'.kind = tx.kind
        BY <1>1, <2>1 DEF Transaction
      <3> QED
        BY <1>1, <3>1 DEF Transaction, Idle
    <2>3. PICK r \in tx.residual :
            /\ \E taken \in {0, r.amountIn}, out \in r.amountOutMin .. (r.amountOutMin + 1) :
                  book' = [book EXCEPT
                      ![r.assetIn] = drawn(debited(@, r.amountIn), taken),
                      ![r.assetOut] = swappedIn(@, out, out % Scale[r.assetOut])]
            /\ swapped' = swapped \cup {r.assetIn, r.assetOut}
      BY <1>4 DEF settleResidual
    <2>4. \A x \in Asset \ swapped' : book'[x].shielded = book[x].shielded
      BY <2>3 DEF PoolInv, Sound
    <2>5. \A x \in Asset : pending(x)' = pending(x)
      BY <2>2 DEF pending
    <2> QED
      BY <2>1, <2>2, <2>3, <2>4, <2>5, BackedSame
  <1>5. ASSUME commit
        PROVE  BackedInv'
    <2>1. tx' = Idle /\ tx.todo = <<>> /\ UNCHANGED <<book, notes, spent, admit, swapped>>
      BY <1>5 DEF commit, ledgerVars, history
    <2>2. \A x \in Asset : pending(x) = 0 /\ pending(x)' = 0
      <3> SUFFICES ASSUME NEW x \in Asset
                   PROVE  pending(x) = 0 /\ pending(x)' = 0
        OBVIOUS
      <3>1. SumFunctionOnSet(takes(<<>>, x), DOMAIN <<>>) = 0
        BY NonePending
      <3> QED
        BY <2>1, <3>1 DEF pending
    <2> QED
      BY <2>1, <2>2, BackedSame
  <1>6. ASSUME revert
        PROVE  BackedInv'
    <2>1. /\ tx' = Idle /\ book' = before.book /\ notes' = before.notes /\ spent' = before.spent
          /\ admit' = before.admit /\ swapped' = before.swapped
      BY <1>6 DEF revert
    <2>2. ASSUME NEW x \in Asset
          PROVE  pending(x)' = 0
      BY <2>1 DEF pending
    <2> QED
      BY <2>1, <2>2 DEF BackedInv, backed, live
  <1> QED
    BY <1>2, <1>3, <1>4, <1>5, <1>6, AccountBacks DEF InFlightStep

LEMMA WithdrawBacks ==
    ASSUME PoolInv, WoundInv, BackedInv, Withdraw
    PROVE  BackedInv'
  <1>0. \A a \in Asset : book[a] \in Entry
    BY DEF PoolInv, Sound
  <1>1. ASSUME NEW s \in Account, NEW a \in Asset, claim(s, a)
        PROVE  BackedInv'
    <2>1. /\ tx = Idle /\ UNCHANGED <<notes, spent, admit, tx, swapped>>
          /\ \E moved : book' = [book EXCEPT ![a] = drawn(claimed(@, s), moved)]
      BY <1>1 DEF claim, history
    <2>2. \A x \in Asset : book'[x].shielded = book[x].shielded
      BY <1>0, <2>1 DEF Entry, drawn, claimed, PoolInv, Sound
    <2>3. \A x \in Asset : pending(x)' = pending(x)
      BY <2>1 DEF pending
    <2> QED
      BY <2>1, <2>2, <2>3, BackedSame
  <1>2. ASSUME NEW a \in Asset, sweepFees(a)
        PROVE  BackedInv'
    <2>1. /\ tx = Idle /\ UNCHANGED <<notes, spent, admit, tx, swapped>>
          /\ \E moved : book' = [book EXCEPT ![a] = drawn(swept(@), moved)]
      BY <1>2 DEF sweepFees, history
    <2>2. \A x \in Asset : book'[x].shielded = book[x].shielded
      BY <1>0, <2>1 DEF Entry, drawn, swept, PoolInv, Sound
    <2>3. \A x \in Asset : pending(x)' = pending(x)
      BY <2>1 DEF pending
    <2> QED
      BY <2>1, <2>2, <2>3, BackedSame
  <1>3. ASSUME NEW s \in Account, NEW d \in Account, NEW a \in Asset, betaRefund(s, a, d)
        PROVE  BackedInv'
    <2>1. tx' = Idle
      BY <1>3 DEF betaRefund
    <2>2. admit' = [admit EXCEPT !.woundDown = TRUE]
      BY <1>3 DEF betaRefund
    <2>3. admit'.woundDown
      BY <2>2 DEF WoundInv, Switches
    <2> QED
      BY <2>1, <2>3 DEF BackedInv
  <1> QED
    BY <1>1, <1>2, <1>3 DEF Withdraw

LEMMA SwitchBacks ==
    ASSUME PoolInv, WoundInv, BackedInv, Switch
    PROVE  BackedInv'
  <1>1. ASSUME NEW a \in Asset, receive(a)
        PROVE  BackedInv'
    <2>1. /\ UNCHANGED <<notes, spent, admit, tx, before, swapped>>
          /\ book' = [book EXCEPT ![a].balance = @ + 1]
      BY <1>1 DEF receive, history
    <2>2. \A x \in Asset : book'[x].shielded = book[x].shielded
      BY <2>1 DEF Entry, PoolInv, Sound
    <2>3. \A x \in Asset : pending(x)' = pending(x)
      BY <2>1 DEF pending
    <2> QED
      BY <2>1, <2>2, <2>3, BackedSame
  <1>2. ASSUME switch, admit'.woundDown = admit.woundDown
        PROVE  BackedInv'
    <2>1. UNCHANGED <<book, notes, spent, tx, before, swapped>>
      BY <1>2 DEF switch, ledgerVars, history
    <2>2. \A x \in Asset : pending(x)' = pending(x)
      BY <2>1 DEF pending
    <2> QED
      BY <1>2, <2>1, <2>2, BackedSame
  <1> QED
    BY <1>1, <1>2 DEF Switch, registerAsset, setDepositsPaused, setBetaPaused, setOpenDeposits,
       setBetaDepositor, setBetaCaps, setDepositorRegistrar, endBetaMode, WoundInv, Switches

LEMMA BackedStep == PoolInv /\ NotesInv /\ WoundInv /\ BackedInv /\ [PoolNext]_poolVars => BackedInv'
  <1> SUFFICES ASSUME PoolInv, NotesInv, WoundInv, BackedInv, [PoolNext]_poolVars
               PROVE  BackedInv'
    OBVIOUS
  <1>1. CASE Deposit
    BY <1>1, AbsorbBacks, PoolAssumption DEF Deposit
  <1>2. CASE Settle
    <2>1. PICK s \in Account, n \in 1 .. MAX_INTENTS :
            \E batch \in [1 .. n -> Intents(Account, Account \cup {SUBMITTER})] :
            \E r \in {{}} \cup {{x} : x \in Residuals}, price \in Prices :
                settleBatch(s, batch, r, price)
      BY <1>2 DEF Settle
    <2>2. n \in Nat
      BY PoolAssumption
    <2> QED
      BY <2>1, <2>2, SettleBacks
  <1>3. CASE InFlightStep
    BY <1>3, InFlightOnly, FlightBacks
  <1>4. CASE Withdraw
    BY <1>4, WithdrawBacks
  <1>5. CASE Switch
    BY <1>5, SwitchBacks
  <1>6. CASE UNCHANGED poolVars
    <2>1. UNCHANGED <<book, notes, spent, admit, tx, before, swapped>>
      BY <1>6 DEF poolVars, ledgerVars, history
    <2>2. \A x \in Asset : pending(x)' = pending(x)
      BY <2>1 DEF pending
    <2> QED
      BY <2>1, <2>2, BackedSame
  <1> QED
    BY <1>1, <1>2, <1>3, <1>4, <1>5, <1>6 DEF PoolNext

LEMMA BackedInit == PoolInit => BackedInv
  <1> SUFFICES ASSUME PoolInit, NEW a \in Asset
               PROVE  backed(book[a].shielded, notes, spent, a, pending(a))
    BY DEF PoolInit, BackedInv
  <1>1. notes = <<>> /\ spent = {} /\ book[a].shielded = 0 /\ pending(a) = 0
    BY DEF PoolInit, pending
  <1>2. DOMAIN <<>> \ {} = {}
    OBVIOUS
  <1>3. SumFunctionOnSet(worth(<<>>, a), DOMAIN <<>> \ {}) = SumFunctionOnSet(worth(<<>>, a), {})
    BY <1>2
  <1>4. live(notes, spent, a) = 0
    BY <1>1, <1>3, SumEmpty DEF live
  <1>5. Scale[a] \in Int
    BY PoolAssumption
  <1> QED
    BY <1>1, <1>4, <1>5 DEF backed

\* Until refunds begin, and between transactions, the shielded total of an asset that
\* no swap has touched is the value of its unspent notes (absorb, settleBatch,
\* _settleIntents, claim and sweepFees together).
THEOREM NotesStayBacked == PoolSpec => []NotesAreBacked
  <1>1. PoolInv /\ NotesInv /\ BackedInv => NotesAreBacked
    <2> SUFFICES ASSUME NotesInv, BackedInv, tx = Idle, ~admit.woundDown, NEW a \in Asset \ swapped
                 PROVE  book[a].shielded
                          = Scale[a] * valueOf({i \in DOMAIN notes \ spent : notes[i].asset = a})
      BY DEF NotesAreBacked
    <2> DEFINE R == DOMAIN notes \ spent
               T == {i \in R : notes[i].asset = a}
    <2>1. notes \in Seq(Note) /\ backed(book[a].shielded, notes, spent, a, 0)
      BY DEF BackedInv, pending, NotesInv, NotesSound
    <2>2. IsFiniteSet(R) /\ live(notes, spent, a) \in Int
      BY <2>1, LiveInt
    <2>3. \A i \in T : unitsOf(notes)[i] \in Int
      <3>1. \A i \in DOMAIN notes : notes[i] \in Note
        BY <2>1
      <3> QED
        BY <3>1 DEF unitsOf, Note
    <2>4. /\ \A i \in T : worth(notes, a)[i] = unitsOf(notes)[i]
          /\ \A i \in R \ T : worth(notes, a)[i] = 0
          /\ T \in SUBSET R
      BY DEF worth, unitsOf
    <2> HIDE DEF R, T
    <2>5. SumFunctionOnSet(worth(notes, a), R) = SumFunctionOnSet(unitsOf(notes), T)
      BY <2>2, <2>3, <2>4, SumOfPart
    <2>6. live(notes, spent, a) = valueOf(T)
      BY <2>5, ValueIsSum DEF live, R
    <2>7. Scale[a] \in Int
      BY PoolAssumption
    <2>8. book[a].shielded = Scale[a] * valueOf(T)
      BY <2>1, <2>2, <2>6, <2>7 DEF backed
    <2> QED
      BY <2>8 DEF T, R
  <1>2. PoolInit => WoundInv
    BY DEF PoolInit, WoundInv, Switches
  <1> QED
    BY <1>1, <1>2, PoolInvariant, NotesInit, NotesStep, WoundStep, BackedInit, BackedStep, PTL DEF PoolSpec

-----------------------------------------------------------------------------
(* Refunds can all be paid.                                                *)

LEMMA Cancel ==
    ASSUME NEW m \in Int, NEW n \in Int, NEW k \in Nat \ {0}, k * m <= k * n
    PROVE  m <= n
  <1> SUFFICES ASSUME m >= n + 1
               PROVE  FALSE
    OBVIOUS
  <1>1. PICK j \in Nat : m = n + 1 + j
    <2>1. m - n - 1 \in Nat /\ m = n + 1 + (m - n - 1)
      OBVIOUS
    <2> QED
      BY <2>1
  <1>2. k * m = k * n + k + k * j
    BY <1>1
  <1>3. k * j \in Nat /\ k * n \in Int
    OBVIOUS
  <1> QED
    BY <1>2, <1>3

LEMMA DivBelow ==
    ASSUME NEW m \in Nat, NEW n \in Nat \ {0}
    PROVE  m \div n \in Nat /\ n * (m \div n) <= m
  OBVIOUS

\* What the depositors of an asset are due under the terms A over B.
dues(ref, A, B) ==
    [d \in Account |-> IF ref[d] = 0 THEN 0
                       ELSE IF (ref[d] * A) \div B > ref[d] THEN ref[d] ELSE (ref[d] * A) \div B]

LEMMA DueBounds ==
    ASSUME NEW ref \in [Account -> Nat], NEW A \in Nat, NEW B \in Nat \ {0}, NEW d \in Account
    PROVE  dues(ref, A, B)[d] \in Nat /\ B * dues(ref, A, B)[d] <= ref[d] * A
  <1> DEFINE x == ref[d]
             q == (x * A) \div B
             y == dues(ref, A, B)[d]
  <1>1. x \in Nat /\ y = IF x = 0 THEN 0 ELSE IF q > x THEN x ELSE q
    BY DEF dues
  <1>2. x * A \in Nat
    BY <1>1
  <1>3. q \in Nat /\ B * q <= x * A
    <2> DEFINE m == x * A
    <2>1. m \in Nat
      BY <1>2
    <2> HIDE DEF m
    <2>2. m \div B \in Nat /\ B * (m \div B) <= m
      BY <2>1, DivBelow
    <2> QED
      BY <2>2 DEF m
  <1> HIDE DEF x, q, y
  <1>4. CASE x = 0
    <2>1. y = 0 /\ B * 0 = 0 /\ x * A = 0
      BY <1>1, <1>4
    <2> QED
      BY <2>1 DEF x, y
  <1>5. CASE x # 0 /\ q <= x
    <2>1. y = q
      BY <1>1, <1>3, <1>5
    <2> QED
      BY <1>3, <2>1 DEF x, y
  <1>6. CASE x # 0 /\ q > x
    <2>1. y = x
      BY <1>1, <1>6
    <2>2. q * B >= x * B
      BY <1>1, <1>3, <1>6, Monotone
    <2>3. B * x = x * B /\ B * q = q * B /\ x * B \in Int /\ q * B \in Int
      BY <1>1, <1>3
    <2> QED
      BY <1>1, <1>2, <1>3, <2>1, <2>2, <2>3 DEF x, y
  <1> QED
    BY <1>1, <1>3, <1>4, <1>5, <1>6

\* Shares rounded down fit: they are no more than what is shared.
LEMMA SharesFit ==
    ASSUME NEW ref \in [Account -> Nat], NEW A \in Nat, NEW B \in Nat \ {0}
    PROVE  B * SumFunctionOnSet(dues(ref, A, B), Account) <= SumFunctionOnSet(ref, Account) * A
  <1> DEFINE D(T) == SumFunctionOnSet(dues(ref, A, B), T)
             R(T) == SumFunctionOnSet(ref, T)
             F == {T \in SUBSET Account : B * D(T) <= R(T) * A}
  <1>0. IsFiniteSet(Account)
    BY PoolAssumption
  <1>1. {} \in F
    <2>1. D({}) = 0 /\ R({}) = 0
      BY SumEmpty
    <2> HIDE DEF D, R
    <2>2. B * D({}) = 0 /\ R({}) * A = 0
      BY <2>1
    <2> QED
      BY <2>2
  <1>2. ASSUME NEW T \in SUBSET Account, NEW x \in Account, T \in F, x \notin T
        PROVE  T \cup {x} \in F
    <2> DEFINE y == dues(ref, A, B)[x]
               z == ref[x]
    <2>1. IsFiniteSet(T) /\ \A d \in T \cup {x} : ref[d] \in Int /\ dues(ref, A, B)[d] \in Int
      <3>1. IsFiniteSet(T)
        BY <1>0, FS_Subset
      <3>2. \A d \in Account : dues(ref, A, B)[d] \in Int
        BY DueBounds
      <3> QED
        BY <3>1, <3>2
    <2>2. D(T \cup {x}) = D(T) + y
      <3> DEFINE f == dues(ref, A, B)
      <3>1. \A d \in T \cup {x} : f[d] \in Int
        BY <2>1
      <3> HIDE DEF f
      <3>2. SumFunctionOnSet(f, T \cup {x}) = SumFunctionOnSet(f, T) + f[x]
        BY <1>2, <2>1, <3>1, SumAdds
      <3> QED
        BY <3>2 DEF f
    <2>3. R(T \cup {x}) = R(T) + z
      <3>1. SumFunctionOnSet(ref, T \cup {x}) = SumFunctionOnSet(ref, T) + ref[x]
        BY <1>2, <2>1, SumAdds
      <3> QED
        BY <3>1
    <2>4. D(T) \in Int /\ R(T) \in Int
      <3> DEFINE f == dues(ref, A, B)
      <3>1. \A d \in T : f[d] \in Int /\ ref[d] \in Int
        BY <2>1
      <3> HIDE DEF f
      <3>2. SumFunctionOnSet(f, T) \in Int /\ SumFunctionOnSet(ref, T) \in Int
        BY <2>1, <3>1, SumInt
      <3> QED
        BY <3>2 DEF f
    <2>5. y \in Nat /\ z \in Nat /\ B * y <= z * A
      BY DueBounds
    <2>6. B * D(T) <= R(T) * A
      BY <1>2
    <2> HIDE DEF D, R, y, z
    <2>7. B * (D(T) + y) = B * D(T) + B * y /\ (R(T) + z) * A = R(T) * A + z * A
      BY <2>4, <2>5
    <2>8. B * D(T) \in Int /\ B * y \in Int /\ R(T) * A \in Int /\ z * A \in Int
      BY <2>4, <2>5
    <2>9. B * (D(T) + y) <= (R(T) + z) * A
      BY <2>5, <2>6, <2>7, <2>8
    <2>10. B * D(T \cup {x}) <= R(T \cup {x}) * A
      BY <2>2, <2>3, <2>9
    <2> QED
      BY <2>10
  <1>3. Account \in F
    <2> HIDE DEF F
    <2> QED
      BY <1>0, <1>1, <1>2, SetInduction
  <1> QED
    BY <1>3

-----------------------------------------------------------------------------
\* Until an asset's terms are frozen its refundables add up to their total; from then
\* on what it owes under them is there.
RefundInv ==
    /\ \A a \in Asset :
         IF beta[a].refundBase = 0 THEN SumFunction(beta[a].refundable) = beta[a].refundableTotal
         ELSE /\ admit.woundDown
              /\ SumFunctionOnSet(dues(beta[a].refundable, beta[a].refundAssets, beta[a].refundBase), Account)
                   <= book[a].shielded
    /\ tx # Idle =>
         \A a \in Asset : /\ before.beta[a].refundBase = 0
                          /\ SumFunction(before.beta[a].refundable) = before.beta[a].refundableTotal

\* The refunds due are payable in either case.
LEMMA DuesFit ==
    ASSUME PoolInv, RefundInv, NEW a \in Asset, terms(a).base # 0
    PROVE  /\ beta[a].refundable \in [Account -> Nat] /\ terms(a).assets \in Nat /\ terms(a).base \in Nat \ {0}
           /\ SumFunctionOnSet(dues(beta[a].refundable, terms(a).assets, terms(a).base), Account)
                <= book[a].shielded
  <1> DEFINE ref == beta[a].refundable
             A == terms(a).assets
             B == terms(a).base
  <1>1. beta[a] \in BetaEntry /\ book[a] \in Entry
    BY DEF PoolInv, Sound
  <1>2. ref \in [Account -> Nat] /\ A \in Nat /\ B \in Nat \ {0}
    BY <1>1 DEF terms, BetaEntry, Entry
  <1>3. CASE beta[a].refundBase = 0
    <2>1. A = book[a].shielded /\ B = beta[a].refundableTotal
      BY <1>3 DEF terms
    <2>2. SumFunctionOnSet(ref, Account) = B
      BY <1>2, <1>3, <2>1 DEF RefundInv, SumFunction
    <2> HIDE DEF ref, A, B
    <2>3. B * SumFunctionOnSet(dues(ref, A, B), Account) <= B * A
      BY <1>2, <2>2, SharesFit
    <2>4. SumFunctionOnSet(dues(ref, A, B), Account) \in Int
      <3> DEFINE f == dues(ref, A, B)
      <3>1. \A d \in Account : f[d] \in Int
        BY <1>2, DueBounds
      <3> HIDE DEF f
      <3>2. SumFunctionOnSet(f, Account) \in Int
        BY <3>1, SumInt, PoolAssumption
      <3> QED
        BY <3>2 DEF f
    <2>5. SumFunctionOnSet(dues(ref, A, B), Account) <= A
      BY <1>2, <2>3, <2>4, Cancel
    <2> QED
      BY <1>2, <2>1, <2>5 DEF ref, A, B
  <1>4. CASE beta[a].refundBase # 0
    <2>1. A = beta[a].refundAssets /\ B = beta[a].refundBase
      BY <1>4 DEF terms
    <2> QED
      BY <1>2, <1>4, <2>1 DEF RefundInv
  <1> QED
    BY <1>2, <1>3, <1>4

\* A step that leaves the refundables alone, and the shielded total where terms are frozen.
LEMMA RefundSame ==
    ASSUME RefundInv, admit.woundDown => admit'.woundDown,
           \A x \in Asset : /\ beta'[x].refundable = beta[x].refundable
                            /\ beta'[x].refundableTotal = beta[x].refundableTotal
                            /\ beta'[x].refundAssets = beta[x].refundAssets
                            /\ beta'[x].refundBase = beta[x].refundBase
                            /\ beta[x].refundBase = 0 \/ book'[x].shielded = book[x].shielded,
           tx' # Idle => tx # Idle /\ UNCHANGED before
    PROVE  RefundInv'
  <1>1. ASSUME NEW x \in Asset, beta'[x].refundBase = 0
        PROVE  SumFunction(beta'[x].refundable) = beta'[x].refundableTotal
    BY <1>1 DEF RefundInv
  <1>2. ASSUME NEW x \in Asset, beta'[x].refundBase # 0
        PROVE  /\ admit'.woundDown
               /\ SumFunctionOnSet(dues(beta'[x].refundable, beta'[x].refundAssets, beta'[x].refundBase), Account)
                    <= book'[x].shielded
    BY <1>2 DEF RefundInv
  <1> QED
    BY <1>1, <1>2 DEF RefundInv, dues

\* Before the pool is wound down no terms are frozen.
LEMMA NoneFrozen ==
    ASSUME RefundInv, ~admit.woundDown, NEW x \in Asset
    PROVE  beta[x].refundBase = 0 /\ SumFunction(beta[x].refundable) = beta[x].refundableTotal
  BY DEF RefundInv

LEMMA AbsorbRefunds ==
    ASSUME PoolInv, RefundInv, NEW s \in Account, NEW a \in Asset, NEW units \in Nat,
           NEW feeUnits \in Nat, absorb(s, a, units, feeUnits)
    PROVE  RefundInv'
  <1> DEFINE amount == units * Scale[a]
             value == depositTaken(a, units, feeUnits)
  <1>1. /\ ~admit.woundDown /\ before'.beta = beta
        /\ beta' = IF admit.betaMode
                   THEN [beta EXCEPT ![a].deposited[s] = @ + amount, ![a].totalDeposited = @ + amount,
                                     ![a].refundable[s] = @ + value, ![a].refundableTotal = @ + value]
                   ELSE beta
    BY DEF absorb, state
  <1>2. \A x \in Asset : beta[x].refundBase = 0 /\ SumFunction(beta[x].refundable) = beta[x].refundableTotal
    BY <1>1, NoneFrozen
  <1>3. beta \in [Asset -> BetaEntry] /\ beta[a] \in BetaEntry /\ value \in Nat /\ amount \in Nat
    <2>1. Scale[a] \in Nat /\ units - feeUnits \in Nat
      BY PoolAssumption DEF absorb
    <2> QED
      BY <2>1, ProductNat DEF depositTaken, PoolInv, Sound
  <1> HIDE DEF amount, value
  <1>4. ASSUME NEW x \in Asset
        PROVE  beta'[x].refundBase = 0 /\ SumFunction(beta'[x].refundable) = beta'[x].refundableTotal
    <2>1. CASE ~admit.betaMode \/ x # a
      <3>1. beta'[x] = beta[x]
        <4>1. CASE ~admit.betaMode
          BY <1>1, <4>1
        <4>2. CASE x # a
          BY <1>1, <1>3, <4>2
        <4> QED
          BY <2>1, <4>1, <4>2
      <3> QED
        BY <1>2, <3>1
    <2>2. CASE admit.betaMode /\ x = a
      <3> DEFINE ref == beta[a].refundable
                 now == [ref EXCEPT ![s] = @ + value]
      <3>1. beta'[a] = betaPaidIn(beta[a], s, amount, value)
        BY <1>1, <1>3, <2>2 DEF betaPaidIn
      <3>2. /\ beta'[a].refundable = now /\ beta'[a].refundableTotal = beta[a].refundableTotal + value
            /\ beta'[a].refundBase = beta[a].refundBase
        BY <1>3, <3>1 DEF betaPaidIn, BetaEntry
      <3>3. /\ ref \in [Account -> Nat] /\ now \in [Account -> Nat] /\ now[s] - ref[s] = value
            /\ \A p \in Account \ {s} : now[p] = ref[p]
            /\ beta[a].refundableTotal \in Nat
        BY <1>3 DEF BetaEntry
      <3> HIDE DEF now, ref
      <3>4. SumFunctionOnSet(now, Account) = SumFunctionOnSet(ref, Account) + (now[s] - ref[s])
        <4>1. \A p \in Account : ref[p] \in Int /\ now[p] \in Int
          BY <3>3
        <4> QED
          BY <3>3, <4>1, SumChanges, PoolAssumption
      <3>5. SumFunction(now) = beta[a].refundableTotal + value
        <4>1. SumFunctionOnSet(ref, Account) = beta[a].refundableTotal
          BY <1>2, <3>3 DEF SumFunction, ref
        <4> QED
          BY <3>3, <3>4, <4>1 DEF SumFunction
      <3> QED
        BY <1>2, <2>2, <3>2, <3>5
    <2> QED
      BY <2>1, <2>2
  <1> QED
    BY <1>1, <1>2, <1>4 DEF RefundInv

LEMMA BetaRefundRefunds ==
    ASSUME PoolInv, WoundInv, RefundInv, NEW s \in Account, NEW a \in Asset, NEW d \in Account,
           betaRefund(s, a, d)
    PROVE  RefundInv'
  <1> DEFINE ref == beta[a].refundable
             A == terms(a).assets
             B == terms(a).base
             amount == refundOf(a, ref[d])
             now == [ref EXCEPT ![d] = 0]
             e == [beta[a] EXCEPT !.refundable[d] = 0, !.refundAssets = A, !.refundBase = B]
  <1>1. /\ book[a] \in Entry /\ beta[a] \in BetaEntry /\ tx = Idle /\ tx' = Idle
        /\ ref[d] # 0 /\ covers(book[a], amount)
    BY DEF betaRefund, PoolInv, Sound
  <1>2. A \in Nat /\ B \in Nat \ {0} /\ amount \in Nat
    BY <1>1, RefundNat
  <1>3. /\ ref \in [Account -> Nat]
        /\ SumFunctionOnSet(dues(ref, A, B), Account) <= book[a].shielded
    BY <1>2, DuesFit
  <1>4. PICK moved : book' = [book EXCEPT ![a] = drawn(debited(book[a], amount), moved)]
    BY DEF betaRefund
  <1>5. beta' = [beta EXCEPT ![a] = e]
    BY DEF betaRefund, PoolInv, Sound
  <1>6. admit'.woundDown
    BY DEF betaRefund, WoundInv, Switches
  <1>7. amount = dues(ref, A, B)[d]
    BY <1>1 DEF refundOf, dues
  <1> HIDE DEF amount, A, B
  <1>8. e.refundable = now /\ e.refundAssets = A /\ e.refundBase = B
    BY <1>1 DEF BetaEntry
  <1>9. drawn(debited(book[a], amount), moved).shielded = book[a].shielded - amount
    BY <1>1 DEF Entry, drawn, debited
  <1> HIDE DEF e
  <1>10. SumFunctionOnSet(dues(now, A, B), Account) <= book[a].shielded - amount
    <2> DEFINE f == dues(ref, A, B)
               g == dues(now, A, B)
    <2>1. now \in [Account -> Nat] /\ now[d] = 0 /\ \A p \in Account \ {d} : now[p] = ref[p]
      BY <1>3
    <2>2. g[d] = 0 /\ \A p \in Account \ {d} : g[p] = f[p]
      BY <2>1 DEF dues
    <2>3. \A p \in Account : f[p] \in Int /\ g[p] \in Int
      <3> HIDE DEF now
      <3>1. \A p \in Account : f[p] \in Nat
        BY <1>2, <1>3, DueBounds
      <3>2. \A p \in Account : g[p] \in Nat
        BY <1>2, <2>1, DueBounds
      <3> QED
        BY <3>1, <3>2
    <2> HIDE DEF f, g
    <2>4. SumFunctionOnSet(g, Account) = SumFunctionOnSet(f, Account) + (g[d] - f[d])
      BY <2>2, <2>3, SumChanges, PoolAssumption
    <2>5. SumFunctionOnSet(f, Account) \in Int /\ SumFunctionOnSet(f, Account) <= book[a].shielded
          /\ book[a].shielded \in Nat /\ f[d] = amount
      <3>1. SumFunctionOnSet(f, Account) \in Int
        BY <2>3, SumInt, PoolAssumption
      <3> QED
        BY <1>1, <1>3, <1>7, <3>1 DEF f, Entry
    <2>6. SumFunctionOnSet(g, Account) <= book[a].shielded - amount
      BY <1>2, <2>2, <2>4, <2>5
    <2> QED
      BY <2>6 DEF g
  <1> HIDE DEF now, ref
  <1>11. ASSUME NEW x \in Asset
         PROVE  IF beta'[x].refundBase = 0 THEN SumFunction(beta'[x].refundable) = beta'[x].refundableTotal
                ELSE /\ admit'.woundDown
                     /\ SumFunctionOnSet(dues(beta'[x].refundable, beta'[x].refundAssets,
                                              beta'[x].refundBase), Account) <= book'[x].shielded
    <2>1. CASE x = a
      <3>1. beta'[x] = e /\ book'[x].shielded = book[a].shielded - amount
        BY <1>4, <1>5, <1>9, <2>1 DEF PoolInv, Sound
      <3> QED
        BY <1>2, <1>6, <1>8, <1>10, <3>1
    <2>2. CASE x # a
      <3>1. beta'[x] = beta[x] /\ book'[x] = book[x]
        BY <1>4, <1>5, <2>2 DEF PoolInv, Sound
      <3> QED
        BY <1>6, <3>1 DEF RefundInv
    <2> QED
      BY <2>1, <2>2
  <1> QED
    BY <1>1, <1>11 DEF RefundInv, dues

LEMMA RefundStep == PoolInv /\ WoundInv /\ RefundInv /\ [PoolNext]_poolVars => RefundInv'
  <1> SUFFICES ASSUME PoolInv, WoundInv, RefundInv, [PoolNext]_poolVars
               PROVE  RefundInv'
    OBVIOUS
  <1>0. \A x \in Asset : book[x] \in Entry
    BY DEF PoolInv, Sound
  <1>1. CASE Deposit
    BY <1>1, AbsorbRefunds, PoolAssumption DEF Deposit
  <1>2. CASE Settle
    <2>1. PICK s, batch, r, price : settleBatch(s, batch, r, price)
      BY <1>2 DEF Settle
    <2>2. ~admit.woundDown /\ UNCHANGED <<beta, admit, book>> /\ before'.beta = beta
      BY <2>1 DEF settleBatch, state
    <2>3. \A x \in Asset : beta[x].refundBase = 0 /\ SumFunction(beta[x].refundable) = beta[x].refundableTotal
      BY <2>2, NoneFrozen
    <2> QED
      BY <2>2, <2>3 DEF RefundInv
  <1>3. CASE InFlightStep
    <2>1. tx # Idle /\ ~admit.woundDown
      BY <1>3, InFlightOnly DEF WoundInv
    <2>2. \A x \in Asset : beta[x].refundBase = 0
      BY <2>1, NoneFrozen
    <2>3. CASE revert
      <3>1. tx' = Idle /\ beta' = before.beta
        BY <2>3 DEF revert
      <3> QED
        BY <2>1, <3>1 DEF RefundInv
    <2>4. CASE account \/ payOrCredit \/ payFee \/ settleResidual \/ commit
      <3>1. UNCHANGED <<beta, admit>> /\ (tx' # Idle => UNCHANGED before)
        BY <2>4 DEF account, payOrCredit, payFee, settleResidual, commit
      <3> QED
        BY <2>1, <2>2, <3>1, RefundSame
    <2> QED
      BY <1>3, <2>3, <2>4 DEF InFlightStep
  <1>4. CASE Withdraw
    <2>1. ASSUME NEW s \in Account, NEW a \in Asset, claim(s, a)
          PROVE  RefundInv'
      <3>1. /\ UNCHANGED <<beta, admit, tx, before>>
            /\ \E moved : book' = [book EXCEPT ![a] = drawn(claimed(@, s), moved)]
        BY <2>1 DEF claim
      <3>2. \A x \in Asset : book'[x].shielded = book[x].shielded
        BY <1>0, <3>1 DEF Entry, drawn, claimed, PoolInv, Sound
      <3> QED
        BY <3>1, <3>2, RefundSame
    <2>2. ASSUME NEW a \in Asset, sweepFees(a)
          PROVE  RefundInv'
      <3>1. /\ UNCHANGED <<beta, admit, tx, before>>
            /\ \E moved : book' = [book EXCEPT ![a] = drawn(swept(@), moved)]
        BY <2>2 DEF sweepFees
      <3>2. \A x \in Asset : book'[x].shielded = book[x].shielded
        BY <1>0, <3>1 DEF Entry, drawn, swept, PoolInv, Sound
      <3> QED
        BY <3>1, <3>2, RefundSame
    <2> QED
      BY <1>4, <2>1, <2>2, BetaRefundRefunds DEF Withdraw
  <1>5. CASE Switch
    <2>1. ASSUME NEW a \in Asset, receive(a)
          PROVE  RefundInv'
      <3>1. /\ UNCHANGED <<beta, admit, tx, before>>
            /\ book' = [book EXCEPT ![a].balance = @ + 1]
        BY <2>1 DEF receive
      <3>2. \A x \in Asset : book'[x].shielded = book[x].shielded
        BY <1>0, <3>1 DEF Entry, PoolInv, Sound
      <3> QED
        BY <3>1, <3>2, RefundSame
    <2>2. ASSUME NEW a \in Asset, NEW c \in Caps, NEW t \in Caps, setBetaCaps(a, c, t)
          PROVE  RefundInv'
      <3>1. /\ UNCHANGED <<admit, book, tx, before>>
            /\ beta' = [beta EXCEPT ![a].addrCap = c, ![a].totalCap = t]
        BY <2>2 DEF setBetaCaps, switch, ledgerVars
      <3>2. \A x \in Asset : beta[x] \in BetaEntry
        BY DEF PoolInv, Sound
      <3>3. \A x \in Asset : /\ beta'[x].refundable = beta[x].refundable
                             /\ beta'[x].refundableTotal = beta[x].refundableTotal
                             /\ beta'[x].refundAssets = beta[x].refundAssets
                             /\ beta'[x].refundBase = beta[x].refundBase
        <4> DEFINE b2 == [beta[a] EXCEPT !.addrCap = c, !.totalCap = t]
        <4>1. beta' = [beta EXCEPT ![a] = b2]
          BY <3>1 DEF PoolInv, Sound
        <4>2. /\ b2.refundable = beta[a].refundable /\ b2.refundableTotal = beta[a].refundableTotal
              /\ b2.refundAssets = beta[a].refundAssets /\ b2.refundBase = beta[a].refundBase
          BY <3>2 DEF BetaEntry
        <4> HIDE DEF b2
        <4> QED
          BY <4>1, <4>2 DEF PoolInv, Sound
      <3> QED
        BY <3>1, <3>3, RefundSame
    <2>3. ASSUME switch, beta' = beta, admit.woundDown => admit'.woundDown
          PROVE  RefundInv'
      BY <2>3, RefundSame DEF switch, ledgerVars
    <2> QED
      BY <1>5, <2>1, <2>2, <2>3 DEF Switch, registerAsset, setDepositsPaused, setBetaPaused, setOpenDeposits,
         setBetaDepositor, setDepositorRegistrar, endBetaMode, WoundInv, Switches
  <1>6. CASE UNCHANGED poolVars
    BY <1>6, RefundSame DEF poolVars, ledgerVars
  <1> QED
    BY <1>1, <1>2, <1>3, <1>4, <1>5, <1>6 DEF PoolNext

LEMMA RefundInit == PoolInit => RefundInv
  <1> SUFFICES ASSUME PoolInit
               PROVE  RefundInv
    OBVIOUS
  <1> DEFINE none == [p \in Account |-> 0]
  <1>1. DOMAIN none = Account /\ \A p \in Account : none[p] = 0
    OBVIOUS
  <1>2. \A a \in Asset : beta[a].refundBase = 0 /\ beta[a].refundableTotal = 0 /\ beta[a].refundable = none
    BY DEF PoolInit
  <1> HIDE DEF none
  <1>3. SumFunction(none) = 0
    BY <1>1, SumZero, PoolAssumption DEF SumFunction
  <1> QED
    BY <1>2, <1>3 DEF PoolInit, RefundInv

\* Once the pool is wound down the shielded total of every asset covers all the refunds
\* still due of it together, whoever was refunded before: the shares of the frozen
\* terms are rounded down (betaRefund).
THEOREM RefundsStayPayable == PoolSpec => []RefundsArePayable
  <1>1. PoolInv /\ RefundInv => RefundsArePayable
    <2> SUFFICES ASSUME PoolInv, RefundInv, NEW a \in Asset
                 PROVE  SumFunction([d \in Account |-> IF beta[a].refundable[d] = 0 THEN 0
                                                       ELSE refundOf(a, beta[a].refundable[d])])
                          <= book[a].shielded
      BY DEF RefundsArePayable
    <2> DEFINE ref == beta[a].refundable
               all == [d \in Account |-> IF ref[d] = 0 THEN 0 ELSE refundOf(a, ref[d])]
    <2>1. book[a] \in Entry /\ beta[a] \in BetaEntry /\ book[a].shielded \in Nat
      BY DEF PoolInv, Sound, Entry
    <2>2. DOMAIN all = Account
      OBVIOUS
    <2>3. CASE \A d \in Account : ref[d] = 0
      <3>1. \A d \in Account : all[d] = 0
        BY <2>3
      <3> HIDE DEF all
      <3>2. SumFunctionOnSet(all, Account) = 0
        BY <3>1, SumZero, PoolAssumption
      <3> QED
        BY <2>1, <2>2, <3>2 DEF SumFunction, all
    <2>4. CASE \E d \in Account : ref[d] # 0
      <3>1. terms(a).base # 0
        BY <2>4, RefundNat
      <3>2. SumFunctionOnSet(dues(ref, terms(a).assets, terms(a).base), Account) <= book[a].shielded
        BY <3>1, DuesFit
      <3>3. all = dues(ref, terms(a).assets, terms(a).base)
        BY DEF dues, refundOf
      <3> HIDE DEF all, ref
      <3> QED
        BY <2>2, <3>2, <3>3 DEF SumFunction, all, ref
    <2> QED
      BY <2>3, <2>4
  <1>2. PoolInit => WoundInv
    BY DEF PoolInit, WoundInv, Switches
  <1> QED
    BY <1>1, <1>2, PoolInvariant, WoundStep, RefundInit, RefundStep, PTL DEF PoolSpec
=============================================================================
