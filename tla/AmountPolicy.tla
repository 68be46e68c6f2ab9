---------------------------- MODULE AmountPolicy ----------------------------
(***************************************************************************)
(* contracts/shield/AmountPolicy.sol: the standard amounts and the fees of *)
(* each asset, every change of which is announced, waits CHANGE_DELAY, and *)
(* leaves the value it replaces settling for GRACE.  The containment lever *)
(* of the same contract is PauseLever, whose variables this module shares. *)
(*                                                                         *)
(* A range is [fee, minExp, maxExp, ranged], a schedule [protocolFee,      *)
(* ladder, set] with the strictly increasing ladder as a set of RUNGS      *)
(* positive gas parts, the percentages [deposit, withdraw].                *)
(* inForce and told are history variables: inForce keeps, for GRACE, every *)
(* setting that was in force together with the instant; told is when the   *)
(* pending change of each kind was announced, zero when none is.           *)
(***************************************************************************)
EXTENDS PauseLever

CONSTANTS
    Asset,              \* the ids below pool.nextAssetId()
    Ranges, Schedules, Percentages, \* the values an owner may send, valid or not
    CHANGE_DELAY, GRACE,
    BPS, MAX_BPS, MAX_EXP, MAX_VALUE, RUNGS,
    Amounts             \* the public amounts the properties range over

ASSUME PolicyAssumption ==
    /\ CHANGE_DELAY \in Nat /\ GRACE \in Nat /\ GRACE <= CHANGE_DELAY
    /\ BPS \in Nat \ {0} /\ MAX_BPS \in 0 .. (BPS - 1)
    /\ MAX_EXP \in Nat /\ MAX_VALUE \in Nat /\ RUNGS \in Nat \ {0}
    /\ Amounts \subseteq Nat
    /\ \A r \in Ranges : r \in [fee : Nat, minExp : Nat, maxExp : Nat, ranged : {TRUE}]
    /\ \A c \in Schedules : c \in [protocolFee : Nat, ladder : SUBSET Nat, set : {TRUE}]
    /\ \A b \in Percentages : b \in [deposit : Nat, withdraw : Nat]

VARIABLES
    rules, pending, grace,                              \* per asset
    schedules, pendingSchedules, graceSchedules,        \* per asset
    bps, pendingBps, graceBps,
    inForce, told

feeVars == <<rules, pending, grace, schedules, pendingSchedules, graceSchedules,
             bps, pendingBps, graceBps>>
policyVars == <<leverVars, feeVars, inForce, told>>

NoRule == [fee |-> 0, minExp |-> 0, maxExp |-> 0, ranged |-> FALSE]
NoSchedule == [protocolFee |-> 0, ladder |-> {}, set |-> FALSE]
NoBps == [deposit |-> 0, withdraw |-> 0]

validRange(r) == r.minExp <= r.maxExp /\ r.maxExp <= MAX_EXP /\ r.fee <= MAX_VALUE
validSchedule(c) ==
    /\ Cardinality(c.ladder) = RUNGS /\ 0 \notin c.ladder
    /\ \A g \in c.ladder : c.protocolFee + g <= MAX_VALUE
validBps(b) == b.deposit <= MAX_BPS /\ b.withdraw <= MAX_BPS

PolicyInit ==
    /\ LeverInit
    /\ rules = [a \in Asset |-> NoRule]
    /\ pending = [a \in Asset |-> [rule |-> NoRule, eta |-> 0]]
    /\ grace = [a \in Asset |-> [fee |-> 0, until |-> 0]]
    /\ schedules = [a \in Asset |-> NoSchedule]
    /\ pendingSchedules = [a \in Asset |-> [schedule |-> NoSchedule, eta |-> 0]]
    /\ graceSchedules = [a \in Asset |-> [schedule |-> NoSchedule, until |-> 0]]
    /\ bps \in {b \in Percentages : validBps(b)}
    /\ pendingBps = [bps |-> NoBps, eta |-> 0]
    /\ graceBps = [bps |-> NoBps, until |-> 0]
    /\ inForce = {}
    /\ told = [range |-> [a \in Asset |-> 0], schedule |-> [a \in Asset |-> 0], bps |-> 0]

-----------------------------------------------------------------------------
(* What the pool asks: the view functions.                                 *)

\* 1, 2 or 5 times 10^k with k inside the rule's range.
standard(r, units) ==
    \E k \in r.minExp .. r.maxExp : units \in {10^k, 2 * 10^k, 5 * 10^k}

\* The schedules that settle now: in force, announced, in grace; rank is the order
\* in which they are tried.
settlingSchedules_expiredToo(a) ==
    {[schedule |-> schedules[a], rank |-> 0],
     [schedule |-> pendingSchedules[a].schedule, rank |-> 1],
     [schedule |-> graceSchedules[a].schedule, rank |-> 2]}
settlingSchedules(a) ==
    {[schedule |-> schedules[a], rank |-> 0]}
    \cup {x \in {[schedule |-> pendingSchedules[a].schedule, rank |-> 1]} : pendingSchedules[a].eta # 0}
    \cup {x \in {[schedule |-> graceSchedules[a].schedule, rank |-> 2]} : now < graceSchedules[a].until}

\* The withdrawal percentages that settle now; a private transfer reads none but
\* the one in force.
settlingWithdrawBps(withdrawal) ==
    {[rate |-> bps.withdraw, rank |-> 0]}
    \cup {x \in {[rate |-> pendingBps.bps.withdraw, rank |-> 1]} : withdrawal /\ pendingBps.eta # 0}
    \cup {x \in {[rate |-> graceBps.bps.withdraw, rank |-> 2]} : withdrawal /\ now < graceBps.until}

protocolPartOf(c, rate, amount) ==
    IF amount = 0 THEN c.protocolFee ELSE (amount * rate) \div BPS

\* Whether fee fits a schedule and a percentage.
fits(c, rate, amount, fee, relayed) ==
    LET part == protocolPartOf(c, rate, amount)
    IN /\ fee >= part
       /\ IF relayed THEN fee - part \in c.ladder ELSE fee = part

\* Every pairing of a schedule with a percentage that accepts the fee.
matches_samePosition(a, amount, fee, relayed) ==
    {p \in settlingSchedules(a) \X settlingWithdrawBps(amount # 0) :
        p[1].rank = p[2].rank /\ fits(p[1].schedule, p[2].rate, amount, fee, relayed)}
matches(a, amount, fee, relayed) ==
    {p \in settlingSchedules(a) \X settlingWithdrawBps(amount # 0) :
        fits(p[1].schedule, p[2].rate, amount, fee, relayed)}

\* settlementFee does not revert.
settles(a, amount, fee, relayed) ==
    /\ ~paused
    /\ rules[a].ranged /\ schedules[a].set
    /\ amount # 0 => standard(rules[a], amount)
    /\ matches(a, amount, fee, relayed) # {}

\* The order in which _match tries the pairings: schedules outside, percentages
\* inside, what is in force first.
order_graceFirst(p) == 0 - (3 * p[1].rank + p[2].rank)
order(p) == 3 * p[1].rank + p[2].rank

\* The protocol part settlementFee returns, decided by the first match.
settlementFee(a, amount, fee, relayed) ==
    LET first == CHOOSE p \in matches(a, amount, fee, relayed) :
                   \A q \in matches(a, amount, fee, relayed) : order(p) <= order(q)
    IN protocolPartOf(first[1].schedule, first[2].rate, amount)

\* depositFee does not revert, and the fee it takes from the amount.
depositOpen(a, amount) ==
    ~paused /\ rules[a].ranged /\ schedules[a].set /\ standard(rules[a], amount)
depositFee(amount) == (amount * bps.deposit) \div BPS

\* The launch pool's check of a public amount and a flat fee.
check(a, amount, fee) ==
    /\ ~paused
    /\ rules[a].ranged
    /\ amount # 0 => standard(rules[a], amount)
    /\ \/ fee \in {0, rules[a].fee}
       \/ pending[a].eta # 0 /\ fee = pending[a].rule.fee
       \/ now < grace[a].until /\ fee = grace[a].fee

-----------------------------------------------------------------------------
(* The owner's calls and the permissionless activations.  The announced    *)
(* value waits CHANGE_DELAY; announcing again restarts the delay.          *)

initRanges(s, A, f) ==
    /\ s = owner
    /\ \A a \in A : ~rules[a].ranged /\ validRange(f[a])
    /\ rules' = [a \in Asset |-> IF a \in A THEN f[a] ELSE rules[a]]
    /\ UNCHANGED <<pending, grace, schedules, pendingSchedules, graceSchedules,
                   bps, pendingBps, graceBps, told>>

due(p) == p.eta # 0 /\ now >= p.eta

announced_delayKept(p, eta) == IF p.eta # 0 THEN p.eta ELSE eta
announced(p, eta) == eta

queueRange(s, a, r) ==
    /\ s = owner
    /\ rules[a].ranged
    /\ validRange(r)
    /\ pending' = [pending EXCEPT
                     ![a] = [rule |-> r, eta |-> announced(pending[a], now + CHANGE_DELAY)]]
    /\ told' = [told EXCEPT !.range[a] = now]
    /\ UNCHANGED <<rules, grace, schedules, pendingSchedules, graceSchedules,
                   bps, pendingBps, graceBps>>

cancelRange(s, a) ==
    /\ s = owner
    /\ pending[a].eta # 0
    /\ pending' = [pending EXCEPT ![a] = [rule |-> NoRule, eta |-> 0]]
    /\ UNCHANGED <<rules, grace, schedules, pendingSchedules, graceSchedules,
                   bps, pendingBps, graceBps>>
    /\ told' = [told EXCEPT !.range[a] = 0]

replacedFee(a) == rules[a].fee

activateRange(a) ==
    /\ due(pending[a])
    /\ grace' = [grace EXCEPT ![a] = [fee |-> replacedFee(a), until |-> now + GRACE]]
    /\ rules' = [rules EXCEPT ![a] = pending[a].rule]
    /\ pending' = [pending EXCEPT ![a] = [rule |-> NoRule, eta |-> 0]]
    /\ UNCHANGED <<schedules, pendingSchedules, graceSchedules,
                   bps, pendingBps, graceBps>>
    /\ told' = [told EXCEPT !.range[a] = 0]

initSchedules(s, A, f) ==
    /\ s = owner
    /\ \A a \in A : rules[a].ranged /\ ~schedules[a].set /\ validSchedule(f[a])
    /\ schedules' = [a \in Asset |-> IF a \in A THEN f[a] ELSE schedules[a]]
    /\ UNCHANGED <<rules, pending, grace, pendingSchedules, graceSchedules,
                   bps, pendingBps, graceBps, told>>

queueSchedule(s, a, c) ==
    /\ s = owner
    /\ schedules[a].set
    /\ validSchedule(c)
    /\ pendingSchedules' = [pendingSchedules EXCEPT
         ![a] = [schedule |-> c, eta |-> announced(pendingSchedules[a], now + CHANGE_DELAY)]]
    /\ told' = [told EXCEPT !.schedule[a] = now]
    /\ UNCHANGED <<rules, pending, grace, schedules, graceSchedules,
                   bps, pendingBps, graceBps>>

cancelSchedule(s, a) ==
    /\ s = owner
    /\ pendingSchedules[a].eta # 0
    /\ pendingSchedules' = [pendingSchedules EXCEPT ![a] = [schedule |-> NoSchedule, eta |-> 0]]
    /\ UNCHANGED <<rules, pending, grace, schedules, graceSchedules,
                   bps, pendingBps, graceBps>>
    /\ told' = [told EXCEPT !.schedule[a] = 0]

activateSchedule(a) ==
    /\ due(pendingSchedules[a])
    /\ graceSchedules' = [graceSchedules EXCEPT
                            ![a] = [schedule |-> schedules[a], until |-> now + GRACE]]
    /\ schedules' = [schedules EXCEPT ![a] = pendingSchedules[a].schedule]
    /\ pendingSchedules' = [pendingSchedules EXCEPT ![a] = [schedule |-> NoSchedule, eta |-> 0]]
    /\ UNCHANGED <<rules, pending, grace, bps, pendingBps, graceBps>>
    /\ told' = [told EXCEPT !.schedule[a] = 0]

queueBps(s, b) ==
    /\ s = owner
    /\ validBps(b)
    /\ pendingBps' = [bps |-> b, eta |-> announced(pendingBps, now + CHANGE_DELAY)]
    /\ told' = [told EXCEPT !.bps = now]
    /\ UNCHANGED <<rules, pending, grace, schedules, pendingSchedules, graceSchedules,
                   bps, graceBps>>

cancelBps(s) ==
    /\ s = owner
    /\ pendingBps.eta # 0
    /\ pendingBps' = [bps |-> NoBps, eta |-> 0]
    /\ UNCHANGED <<rules, pending, grace, schedules, pendingSchedules, graceSchedules,
                   bps, graceBps>>
    /\ told' = [told EXCEPT !.bps = 0]

activateBps ==
    /\ due(pendingBps)
    /\ graceBps' = [bps |-> bps, until |-> now + GRACE]
    /\ bps' = pendingBps.bps
    /\ pendingBps' = [bps |-> NoBps, eta |-> 0]
    /\ UNCHANGED <<rules, pending, grace, schedules, pendingSchedules, graceSchedules>>
    /\ told' = [told EXCEPT !.bps = 0]

FeeCall ==
    \E s \in Account :
        \/ \E A \in SUBSET Asset \ {{}} : \E f \in [A -> Ranges] : initRanges(s, A, f)
        \/ \E A \in SUBSET Asset \ {{}} : \E f \in [A -> Schedules] : initSchedules(s, A, f)
        \/ \E a \in Asset :
             \/ \E r \in Ranges : queueRange(s, a, r)
             \/ cancelRange(s, a)
             \/ \E c \in Schedules : queueSchedule(s, a, c)
             \/ cancelSchedule(s, a)
        \/ \E b \in Percentages : queueBps(s, b)
        \/ cancelBps(s)

Activation ==
    \/ \E a \in Asset : activateRange(a) \/ activateSchedule(a)
    \/ activateBps

\* What was in force when this step began, kept while it may still settle.
Remember ==
    inForce' = {e \in inForce \cup {[at |-> now, rules |-> rules, schedules |-> schedules, bps |-> bps]} :
                  now' < e.at + GRACE}

PolicyNext ==
    /\ \/ (FeeCall \/ Activation) /\ UNCHANGED leverVars
       \/ LeverNext /\ UNCHANGED <<feeVars, told>>
    /\ Remember

PolicySpec == PolicyInit /\ [][PolicyNext]_policyVars

-----------------------------------------------------------------------------
(* Properties.                                                             *)

PolicyTypeOK ==
    /\ LeverTypeOK
    /\ rules \in [Asset -> Ranges \cup {NoRule}]
    /\ pending \in [Asset -> [rule : Ranges \cup {NoRule}, eta : Nat]]
    /\ grace \in [Asset -> [fee : Nat, until : Nat]]
    /\ schedules \in [Asset -> Schedules \cup {NoSchedule}]
    /\ pendingSchedules \in [Asset -> [schedule : Schedules \cup {NoSchedule}, eta : Nat]]
    /\ graceSchedules \in [Asset -> [schedule : Schedules \cup {NoSchedule}, until : Nat]]
    /\ bps \in Percentages
    /\ pendingBps \in [bps : Percentages \cup {NoBps}, eta : Nat]
    /\ graceBps \in [bps : Percentages \cup {NoBps}, until : Nat]

\* The pairs of schedule and withdrawal percentage in force less than GRACE ago.
recentPairs(a) ==
    {[schedule |-> e.schedules[a], rate |-> e.bps.withdraw] :
        e \in {x \in inForce : x.rules[a].ranged /\ x.schedules[a].set}}

\* The fees a wallet may put in a proof made under a schedule and a percentage.
feesUnder(c, rate, amount, relayed) ==
    LET part == protocolPartOf(c, rate, amount)
    IN IF relayed THEN {part + g : g \in c.ladder} ELSE {part}

\* "A proof made before the switch still lands": whatever mixture of schedule
\* and percentage changes is activated in between, a fee computed from the
\* settings in force less than GRACE ago is accepted as long as the pool is not
\* paused and the amount is still a standard one; so is the flat fee of the
\* launch form.
ProofSurvivesSwitch ==
    ~paused =>
        \A a \in Asset :
            /\ \A p \in recentPairs(a) :
               \A amount \in {x \in Amounts : x # 0 => standard(rules[a], x)},
                  relayed \in BOOLEAN :
               \A fee \in feesUnder(p.schedule, p.rate, amount, relayed) :
                  settles(a, amount, fee, relayed)
            /\ \A e \in inForce : e.rules[a].ranged => check(a, 0, e.rules[a].fee)

\* A fee that settles follows a schedule and a percentage that each are in
\* force, announced, or were in force less than GRACE ago: no stale value is
\* ever honoured.
OnlyCurrentFeesSettle ==
    \A a \in Asset :
        LET current == {c \in {schedules[a], pendingSchedules[a].schedule}
                                \cup {e.schedules[a] : e \in inForce} : c.set}
            rates == {bps.withdraw} \cup {e.bps.withdraw : e \in inForce}
                       \cup (IF pendingBps.eta = 0 THEN {} ELSE {pendingBps.bps.withdraw})
        IN \A amount \in Amounts, relayed \in BOOLEAN :
           \A fee \in UNION {feesUnder(c, b.withdraw, amount, relayed) : c \in Schedules, b \in Percentages} :
               settles(a, amount, fee, relayed) =>
                   \E c \in current, rate \in rates : fits(c, rate, amount, fee, relayed)

\* A fee that the values in force accept is split by them, so an announced or a
\* replaced value never moves a part of it from the router to the lander.
SplitFollowsForce ==
    \A a \in Asset, amount \in Amounts, relayed \in BOOLEAN :
    \A fee \in feesUnder(schedules[a], bps.withdraw, amount, relayed) :
        settles(a, amount, fee, relayed) =>
            settlementFee(a, amount, fee, relayed) = protocolPartOf(schedules[a], bps.withdraw, amount)

\* Nothing in force changes before its latest announcement is CHANGE_DELAY old,
\* the first range and schedule of an asset excepted.
ChangesAreAnnounced ==
    [][/\ bps' # bps => now >= told.bps + CHANGE_DELAY
       /\ \A a \in Asset :
            /\ rules[a].ranged /\ rules'[a] # rules[a] => now >= told.range[a] + CHANGE_DELAY
            /\ schedules[a].set /\ schedules'[a] # schedules[a] =>
                 now >= told.schedule[a] + CHANGE_DELAY]_policyVars

\* AmountPolicy.sol:29-33 says of every later change that the value it replaces
\* still settles for GRACE, so that a proof made before the switch lands.  A
\* withdrawal of an amount that was standard when its proof was made does not
\* land once activateRange has narrowed the range: the range has no grace.
AmountSurvivesSwitch ==
    \A e \in inForce, a \in Asset : \A amount \in Amounts \ {0} :
        ~paused /\ e.rules[a].ranged /\ e.schedules[a].set /\ standard(e.rules[a], amount) =>
            \A fee \in feesUnder(e.schedules[a], e.bps.withdraw, amount, TRUE) :
                settles(a, amount, fee, TRUE)
=============================================================================
