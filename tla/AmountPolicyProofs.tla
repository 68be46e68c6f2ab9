------------------------- MODULE AmountPolicyProofs -------------------------
(***************************************************************************)
(* Proofs about the fee rules, for any assets, values an owner may send,    *)
(* delays with GRACE <= CHANGE_DELAY, and public amounts.                   *)
(***************************************************************************)
EXTENDS AmountPolicy, PauseLeverProofs

(* The inductive invariant, one part per kind of value: ranges, schedules   *)
(* and percentages.                                                        *)

Rule == Ranges \cup {NoRule}
Schedule == Schedules \cup {NoSchedule}
Memory == [at : Nat, rules : [Asset -> Rule], schedules : [Asset -> Schedule], bps : Percentages]

HistoryOK ==
    /\ inForce \subseteq Memory
    /\ \A e \in inForce : e.at <= now /\ now < e.at + GRACE
    /\ told \in [range : [Asset -> Nat], schedule : [Asset -> Nat], bps : Nat]

\* A value that was in force at an instant still remembered is in force, or was saved
\* and settles for as long as that instant is remembered; and while a change waits that
\* would overwrite what was saved, it will be remembered no longer when that change is due.
Kept(at, old, current, saved, until, eta) ==
    /\ old = current \/ (old = saved /\ at + GRACE <= until)
    /\ eta # 0 /\ old # current => at + GRACE <= eta

RangeKept(e, a) ==
    e.rules[a].ranged =>
        /\ rules[a].ranged
        /\ Kept(e.at, e.rules[a].fee, rules[a].fee, grace[a].fee, grace[a].until, pending[a].eta)
ScheduleKept(e, a) ==
    e.schedules[a].set =>
        /\ schedules[a].set
        /\ Kept(e.at, e.schedules[a], schedules[a],
                graceSchedules[a].schedule, graceSchedules[a].until, pendingSchedules[a].eta)
BpsKept(e) == Kept(e.at, e.bps, bps, graceBps.bps, graceBps.until, pendingBps.eta)

\* What waits is a value an owner may send, for an asset that has one, and was announced
\* CHANGE_DELAY before it is due.
RangeAwaited(a) ==
    pending[a].eta # 0 =>
        /\ pending[a].rule \in Ranges /\ rules[a].ranged
        /\ pending[a].eta = told.range[a] + CHANGE_DELAY
ScheduleAwaited(a) ==
    pendingSchedules[a].eta # 0 =>
        /\ pendingSchedules[a].schedule \in Schedules /\ schedules[a].set
        /\ pendingSchedules[a].eta = told.schedule[a] + CHANGE_DELAY
BpsAwaited ==
    pendingBps.eta # 0 =>
        /\ pendingBps.bps \in Percentages
        /\ pendingBps.eta = told.bps + CHANGE_DELAY

\* What settles in grace was in force at an instant still remembered.
ScheduleRecalled(a) ==
    now < graceSchedules[a].until =>
        /\ graceSchedules[a].schedule.set
        /\ \E e \in inForce : /\ e.schedules[a] = graceSchedules[a].schedule
                              /\ e.at + GRACE = graceSchedules[a].until
BpsRecalled ==
    now < graceBps.until =>
        \E e \in inForce : e.bps = graceBps.bps /\ e.at + GRACE = graceBps.until

RangeInv ==
    /\ rules \in [Asset -> Rule]
    /\ pending \in [Asset -> [rule : Rule, eta : Nat]]
    /\ grace \in [Asset -> [fee : Nat, until : Nat]]
    /\ \A a \in Asset : RangeAwaited(a) /\ \A e \in inForce : RangeKept(e, a)
ScheduleInv ==
    /\ schedules \in [Asset -> Schedule]
    /\ pendingSchedules \in [Asset -> [schedule : Schedule, eta : Nat]]
    /\ graceSchedules \in [Asset -> [schedule : Schedule, until : Nat]]
    /\ \A a \in Asset :
         ScheduleAwaited(a) /\ ScheduleRecalled(a) /\ \A e \in inForce : ScheduleKept(e, a)
BpsInv ==
    /\ bps \in Percentages
    /\ pendingBps \in [bps : Percentages \cup {NoBps}, eta : Nat]
    /\ graceBps \in [bps : Percentages \cup {NoBps}, until : Nat]
    /\ BpsAwaited /\ BpsRecalled /\ \A e \in inForce : BpsKept(e)

PolicyInv == LeverInv /\ HistoryOK /\ RangeInv /\ ScheduleInv /\ BpsInv

-----------------------------------------------------------------------------
(* Values and the memory.                                                  *)

LEMMA RuleValues ==
    /\ \A r \in Rule : r.fee \in Nat /\ (r.ranged => r \in Ranges)
    /\ \A r \in Ranges : r.ranged
    /\ NoRule \in Rule /\ ~NoRule.ranged
  <1>1. \A r \in Ranges : r.fee \in Nat /\ r.ranged = TRUE
    BY PolicyAssumption
  <1>2. NoRule.fee \in Nat /\ NoRule.ranged = FALSE
    BY DEF NoRule
  <1> QED
    BY <1>1, <1>2 DEF Rule

LEMMA ScheduleValues ==
    /\ \A c \in Schedule : /\ c.protocolFee \in Nat /\ c.ladder \subseteq Nat
                           /\ c.set => c \in Schedules
    /\ \A c \in Schedules : c.set
    /\ NoSchedule \in Schedule /\ ~NoSchedule.set
  <1>1. \A c \in Schedules : c.protocolFee \in Nat /\ c.ladder \in SUBSET Nat /\ c.set = TRUE
    BY PolicyAssumption
  <1>2. NoSchedule.protocolFee \in Nat /\ NoSchedule.ladder = {} /\ NoSchedule.set = FALSE
    BY DEF NoSchedule
  <1> QED
    BY <1>1, <1>2 DEF Schedule

LEMMA Clocks == LeverInv => now \in Nat
  BY DEF LeverInv, LeverTypeOK

LEMMA ClockMoves == LeverNext => now' \in {now, now + 1}
  BY DEF LeverNext, LeverCall, Tick, clockVars, setGuardian, pausePool, unpausePool, queueExtension,
         extendPause, transferOwnership, acceptOwnership, renounceOwnership

Current == [at |-> now, rules |-> rules, schedules |-> schedules, bps |-> bps]

\* What a step remembers afterwards was kept before it.
LEMMA Remembering ==
    ASSUME PolicyInv, Remember, now' \in {now, now + 1}
    PROVE  /\ \A e \in inForce' :
                /\ e \in Memory /\ e.at <= now /\ now' < e.at + GRACE
                /\ \A a \in Asset : RangeKept(e, a) /\ ScheduleKept(e, a)
                /\ BpsKept(e)
           /\ \A e \in inForce : now' < e.at + GRACE => e \in inForce'
           /\ now' < now + GRACE => Current \in inForce'
  <1>1. inForce' = {e \in inForce \cup {Current} : now' < e.at + GRACE}
    BY DEF Remember, Current
  <1>2. /\ Current \in Memory
        /\ Current.at = now /\ Current.rules = rules /\ Current.schedules = schedules
        /\ Current.bps = bps
    BY Clocks DEF Current, Memory, PolicyInv, RangeInv, ScheduleInv, BpsInv
  <1>3. \A a \in Asset : RangeKept(Current, a)
    BY <1>2, Clocks, PolicyAssumption DEF RangeKept, Kept, PolicyInv
  <1>4. \A a \in Asset : ScheduleKept(Current, a)
    BY <1>2 DEF ScheduleKept, Kept
  <1>5. BpsKept(Current)
    BY <1>2 DEF BpsKept, Kept
  <1>6. ASSUME NEW e \in inForce'
        PROVE  /\ e \in Memory /\ e.at <= now /\ now' < e.at + GRACE
               /\ \A a \in Asset : RangeKept(e, a) /\ ScheduleKept(e, a)
               /\ BpsKept(e)
    <2>1. now' < e.at + GRACE /\ (e \in inForce \/ e = Current)
      BY <1>1
    <2>2. CASE e \in inForce
      BY <2>1, <2>2 DEF PolicyInv, HistoryOK, RangeInv, ScheduleInv, BpsInv
    <2>3. CASE e = Current
      <3>1. e \in Memory /\ e.at <= now
        BY <1>2, <2>3, Clocks DEF PolicyInv
      <3> QED
        BY <1>3, <1>4, <1>5, <2>1, <2>3, <3>1
    <2> QED
      BY <2>1, <2>2, <2>3
  <1> QED
    BY <1>1, <1>2, <1>6

LEMMA HistoryKept ==
    ASSUME PolicyInv, Remember, now' \in {now, now + 1},
           told' \in [range : [Asset -> Nat], schedule : [Asset -> Nat], bps : Nat]
    PROVE  HistoryOK'
  <1>1. \A e \in inForce' : e \in Memory /\ e.at <= now /\ now' < e.at + GRACE
    BY Remembering
  <1>2. \A e \in inForce' : e.at <= now'
    BY <1>1, Clocks DEF PolicyInv, Memory
  <1> QED
    BY <1>1, <1>2 DEF HistoryOK

-----------------------------------------------------------------------------
(* How what is kept of a value follows the value's life.  A change announced *)
(* falls due only once every other value has been forgotten; one that is due *)
(* saves the value it replaces.                                             *)

LEMMA KeptWhenAnnounced ==
    ASSUME NEW at \in Nat, NEW old, NEW current, NEW saved, NEW until \in Nat, NEW eta \in Nat,
           NEW time \in Nat, at <= time, Kept(at, old, current, saved, until, eta)
    PROVE  Kept(at, old, current, saved, until, time + CHANGE_DELAY)
  BY PolicyAssumption DEF Kept

LEMMA KeptWhenCancelled ==
    ASSUME NEW at \in Nat, NEW old, NEW current, NEW saved, NEW until \in Nat, NEW eta \in Nat,
           Kept(at, old, current, saved, until, eta)
    PROVE  Kept(at, old, current, saved, until, 0)
  BY DEF Kept

LEMMA KeptWhenActivated ==
    ASSUME NEW at \in Nat, NEW old, NEW current, NEW new, NEW saved, NEW until \in Nat,
           NEW eta \in Nat, NEW time \in Nat, eta # 0, eta <= time, at <= time, time < at + GRACE,
           Kept(at, old, current, saved, until, eta)
    PROVE  Kept(at, old, new, current, time + GRACE, 0)
  BY PolicyAssumption DEF Kept

-----------------------------------------------------------------------------
(* Ranges.                                                                 *)

LEMMA RangesRest ==
    ASSUME PolicyInv, Remember, now' \in {now, now + 1}, UNCHANGED <<rules, pending, grace>>,
           told'.range = told.range
    PROVE  RangeInv'
  <1>1. \A a \in Asset : \A e \in inForce' : RangeKept(e, a)
    BY Remembering
  <1>2. \A a \in Asset : RangeAwaited(a)'
    BY DEF PolicyInv, RangeInv, RangeAwaited
  <1>3. \A a \in Asset : \A e \in inForce' : RangeKept(e, a)'
    BY <1>1 DEF RangeKept
  <1> QED
    BY <1>2, <1>3 DEF PolicyInv, RangeInv

\* What is left to show of a call about ranges, of one asset at a time.
LEMMA RangeCall ==
    ASSUME PolicyInv, Remember, now' = now,
           rules' \in [Asset -> Rule], pending' \in [Asset -> [rule : Rule, eta : Nat]],
           grace' \in [Asset -> [fee : Nat, until : Nat]],
           \A a \in Asset : RangeAwaited(a)',
           ASSUME NEW a \in Asset, NEW e \in Memory, e.at <= now, now < e.at + GRACE,
                  RangeKept(e, a)
           PROVE  RangeKept(e, a)'
    PROVE  RangeInv'
  <1>1. \A e \in inForce' :
          e \in Memory /\ e.at <= now /\ now < e.at + GRACE /\ \A a \in Asset : RangeKept(e, a)
    BY Remembering
  <1>2. \A a \in Asset : \A e \in inForce' : RangeKept(e, a)'
    BY <1>1
  <1> QED
    BY <1>2 DEF RangeInv

LEMMA InitRangesKeeps ==
    ASSUME PolicyInv, Remember, now' = now, NEW s, NEW A \in SUBSET Asset, NEW f \in [A -> Ranges],
           initRanges(s, A, f)
    PROVE  RangeInv'
  <1>1. /\ \A a \in A : ~rules[a].ranged
        /\ rules' = [a \in Asset |-> IF a \in A THEN f[a] ELSE rules[a]]
        /\ pending' = pending /\ grace' = grace /\ told' = told
    BY DEF initRanges
  <1>2. /\ rules \in [Asset -> Rule] /\ pending \in [Asset -> [rule : Rule, eta : Nat]]
        /\ grace \in [Asset -> [fee : Nat, until : Nat]] /\ \A a \in Asset : RangeAwaited(a)
    BY DEF PolicyInv, RangeInv
  <1>3. rules' \in [Asset -> Rule]
    BY <1>1, <1>2 DEF Rule
  <1>4. \A a \in Asset : rules[a].ranged => rules'[a] = rules[a]
    BY <1>1, <1>2
  <1>5. \A a \in Asset : RangeAwaited(a)'
    BY <1>1, <1>2, <1>4 DEF RangeAwaited
  <1>6. ASSUME NEW a \in Asset, NEW e \in Memory, e.at <= now, now < e.at + GRACE, RangeKept(e, a)
        PROVE  RangeKept(e, a)'
    BY <1>1, <1>4, <1>6 DEF RangeKept
  <1> QED
    BY <1>1, <1>2, <1>3, <1>5, <1>6, RangeCall

LEMMA QueueRangeKeeps ==
    ASSUME PolicyInv, Remember, now' = now, NEW s, NEW b \in Asset, NEW r \in Ranges,
           queueRange(s, b, r)
    PROVE  RangeInv'
  <1>1. /\ rules[b].ranged /\ rules' = rules /\ grace' = grace
        /\ pending' = [pending EXCEPT ![b] = [rule |-> r, eta |-> now + CHANGE_DELAY]]
        /\ told' = [told EXCEPT !.range[b] = now]
    BY DEF queueRange, announced
  <1>2. /\ rules \in [Asset -> Rule] /\ pending \in [Asset -> [rule : Rule, eta : Nat]]
        /\ grace \in [Asset -> [fee : Nat, until : Nat]] /\ \A a \in Asset : RangeAwaited(a)
        /\ told \in [range : [Asset -> Nat], schedule : [Asset -> Nat], bps : Nat]
    BY DEF PolicyInv, RangeInv, HistoryOK
  <1>3. now \in Nat /\ r \in Rule /\ now + CHANGE_DELAY \in Nat
    BY Clocks, PolicyAssumption DEF PolicyInv, Rule
  <1>4. pending' \in [Asset -> [rule : Rule, eta : Nat]]
    BY <1>1, <1>2, <1>3
  <1>5. told'.range = [told.range EXCEPT ![b] = now]
    BY <1>1, <1>2
  <1>6. ASSUME NEW a \in Asset
        PROVE  RangeAwaited(a)'
    <2>1. CASE a = b
      BY <1>1, <1>2, <1>3, <1>5, <2>1 DEF RangeAwaited
    <2>2. CASE a # b
      BY <1>1, <1>2, <1>5, <2>2 DEF RangeAwaited
    <2> QED
      BY <2>1, <2>2
  <1>7. ASSUME NEW a \in Asset, NEW e \in Memory, e.at <= now, now < e.at + GRACE, RangeKept(e, a)
        PROVE  RangeKept(e, a)'
    <2>1. CASE a = b
      <3>1. pending'[a].eta = now + CHANGE_DELAY
        BY <1>1, <1>2, <2>1
      <3>2. e.at \in Nat /\ grace[a].until \in Nat /\ pending[a].eta \in Nat
        BY <1>2 DEF Memory
      <3>3. e.rules[a].ranged =>
              Kept(e.at, e.rules[a].fee, rules[a].fee, grace[a].fee, grace[a].until, now + CHANGE_DELAY)
        BY <1>3, <1>7, <3>2, KeptWhenAnnounced DEF RangeKept
      <3> QED
        BY <1>1, <1>7, <3>1, <3>3 DEF RangeKept
    <2>2. CASE a # b
      BY <1>1, <1>2, <1>7, <2>2 DEF RangeKept
    <2> QED
      BY <2>1, <2>2
  <1> QED
    BY <1>1, <1>2, <1>4, <1>6, <1>7, RangeCall

LEMMA CancelRangeKeeps ==
    ASSUME PolicyInv, Remember, now' = now, NEW s, NEW b \in Asset, cancelRange(s, b)
    PROVE  RangeInv'
  <1>1. /\ rules' = rules /\ grace' = grace
        /\ pending' = [pending EXCEPT ![b] = [rule |-> NoRule, eta |-> 0]]
        /\ told' = [told EXCEPT !.range[b] = 0]
    BY DEF cancelRange
  <1>2. /\ rules \in [Asset -> Rule] /\ pending \in [Asset -> [rule : Rule, eta : Nat]]
        /\ grace \in [Asset -> [fee : Nat, until : Nat]] /\ \A a \in Asset : RangeAwaited(a)
        /\ told \in [range : [Asset -> Nat], schedule : [Asset -> Nat], bps : Nat]
    BY DEF PolicyInv, RangeInv, HistoryOK
  <1>3. pending' \in [Asset -> [rule : Rule, eta : Nat]]
    BY <1>1, <1>2, RuleValues
  <1>4. told'.range = [told.range EXCEPT ![b] = 0]
    BY <1>1, <1>2
  <1>5. \A a \in Asset : RangeAwaited(a)'
    BY <1>1, <1>2, <1>4 DEF RangeAwaited
  <1>6. ASSUME NEW a \in Asset, NEW e \in Memory, e.at <= now, now < e.at + GRACE, RangeKept(e, a)
        PROVE  RangeKept(e, a)'
    BY <1>1, <1>2, <1>6 DEF RangeKept, Kept
  <1> QED
    BY <1>1, <1>2, <1>3, <1>5, <1>6, RangeCall

LEMMA ActivateRangeKeeps ==
    ASSUME PolicyInv, Remember, now' = now, NEW b \in Asset, activateRange(b)
    PROVE  RangeInv'
  <1>1. /\ pending[b].eta # 0 /\ now >= pending[b].eta
        /\ rules' = [rules EXCEPT ![b] = pending[b].rule]
        /\ grace' = [grace EXCEPT ![b] = [fee |-> rules[b].fee, until |-> now + GRACE]]
        /\ pending' = [pending EXCEPT ![b] = [rule |-> NoRule, eta |-> 0]]
        /\ told' = [told EXCEPT !.range[b] = 0]
    BY DEF activateRange, due, replacedFee
  <1>2. /\ rules \in [Asset -> Rule] /\ pending \in [Asset -> [rule : Rule, eta : Nat]]
        /\ grace \in [Asset -> [fee : Nat, until : Nat]] /\ \A a \in Asset : RangeAwaited(a)
        /\ told \in [range : [Asset -> Nat], schedule : [Asset -> Nat], bps : Nat]
    BY DEF PolicyInv, RangeInv, HistoryOK
  <1>3. now \in Nat /\ now + GRACE \in Nat /\ rules[b].fee \in Nat
    BY <1>2, Clocks, PolicyAssumption, RuleValues DEF PolicyInv
  <1>4. pending[b].rule \in Ranges /\ pending[b].rule.ranged
    BY <1>1, <1>2, RuleValues DEF RangeAwaited
  <1>5. /\ rules' \in [Asset -> Rule] /\ pending' \in [Asset -> [rule : Rule, eta : Nat]]
        /\ grace' \in [Asset -> [fee : Nat, until : Nat]]
    BY <1>1, <1>2, <1>3, <1>4, RuleValues DEF Rule
  <1>6. told'.range = [told.range EXCEPT ![b] = 0]
    BY <1>1, <1>2
  <1>7. \A a \in Asset : RangeAwaited(a)'
    BY <1>1, <1>2, <1>6 DEF RangeAwaited
  <1>8. ASSUME NEW a \in Asset, NEW e \in Memory, e.at <= now, now < e.at + GRACE, RangeKept(e, a)
        PROVE  RangeKept(e, a)'
    <2>1. CASE a = b
      <3>1. /\ rules'[a] = pending[a].rule /\ grace'[a].fee = rules[a].fee
            /\ grace'[a].until = now + GRACE /\ pending'[a].eta = 0
        BY <1>1, <1>2, <2>1
      <3>2. e.at \in Nat /\ grace[a].until \in Nat /\ pending[a].eta \in Nat
        BY <1>2 DEF Memory
      <3>3. e.rules[a].ranged =>
              Kept(e.at, e.rules[a].fee, rules'[a].fee, rules[a].fee, now + GRACE, 0)
        BY <1>1, <1>3, <1>8, <2>1, <3>2, KeptWhenActivated DEF RangeKept
      <3> QED
        BY <1>4, <2>1, <3>1, <3>3 DEF RangeKept
    <2>2. CASE a # b
      BY <1>1, <1>2, <1>8, <2>2 DEF RangeKept
    <2> QED
      BY <2>1, <2>2
  <1> QED
    BY <1>5, <1>7, <1>8, RangeCall

-----------------------------------------------------------------------------
(* Schedules.                                                              *)

\* What is recalled stays so while it settles, which is no longer than it is remembered.
LEMMA StillRecalled ==
    ASSUME PolicyInv, Remember, now' \in {now, now + 1}, NEW a \in Asset,
           graceSchedules'[a] = graceSchedules[a]
    PROVE  ScheduleRecalled(a)'
  <1>1. ScheduleRecalled(a) /\ graceSchedules[a].until \in Nat /\ now \in Nat
    BY Clocks DEF PolicyInv, ScheduleInv
  <1>2. \A e \in inForce : now' < e.at + GRACE => e \in inForce'
    BY Remembering
  <1>3. SUFFICES ASSUME now' < graceSchedules'[a].until
                 PROVE  /\ graceSchedules'[a].schedule.set
                        /\ \E e \in inForce' : /\ e.schedules[a] = graceSchedules'[a].schedule
                                               /\ e.at + GRACE = graceSchedules'[a].until
    BY DEF ScheduleRecalled
  <1>4. now < graceSchedules[a].until
    BY <1>1, <1>3
  <1>5. PICK e \in inForce : /\ e.schedules[a] = graceSchedules[a].schedule
                            /\ e.at + GRACE = graceSchedules[a].until
    BY <1>1, <1>4 DEF ScheduleRecalled
  <1>6. e \in inForce'
    BY <1>2, <1>3, <1>5
  <1> QED
    BY <1>1, <1>4, <1>5, <1>6 DEF ScheduleRecalled

LEMMA SchedulesRest ==
    ASSUME PolicyInv, Remember, now' \in {now, now + 1},
           UNCHANGED <<schedules, pendingSchedules, graceSchedules>>, told'.schedule = told.schedule
    PROVE  ScheduleInv'
  <1>1. \A a \in Asset : \A e \in inForce' : ScheduleKept(e, a)
    BY Remembering
  <1>2. \A a \in Asset : ScheduleAwaited(a)'
    BY DEF PolicyInv, ScheduleInv, ScheduleAwaited
  <1>3. \A a \in Asset : \A e \in inForce' : ScheduleKept(e, a)'
    BY <1>1 DEF ScheduleKept
  <1> QED
    BY <1>2, <1>3, StillRecalled DEF PolicyInv, ScheduleInv

\* What is left to show of a call about schedules, of one asset at a time.
LEMMA ScheduleCall ==
    ASSUME PolicyInv, Remember, now' = now,
           schedules' \in [Asset -> Schedule],
           pendingSchedules' \in [Asset -> [schedule : Schedule, eta : Nat]],
           graceSchedules' \in [Asset -> [schedule : Schedule, until : Nat]],
           \A a \in Asset : ScheduleAwaited(a)',
           \A a \in Asset : graceSchedules'[a] = graceSchedules[a] \/ ScheduleRecalled(a)',
           ASSUME NEW a \in Asset, NEW e \in Memory, e.at <= now, now < e.at + GRACE,
                  ScheduleKept(e, a)
           PROVE  ScheduleKept(e, a)'
    PROVE  ScheduleInv'
  <1>1. \A e \in inForce' :
          e \in Memory /\ e.at <= now /\ now < e.at + GRACE /\ \A a \in Asset : ScheduleKept(e, a)
    BY Remembering
  <1>2. \A a \in Asset : \A e \in inForce' : ScheduleKept(e, a)'
    BY <1>1
  <1>3. \A a \in Asset : ScheduleRecalled(a)'
    BY StillRecalled
  <1> QED
    BY <1>2, <1>3 DEF ScheduleInv

LEMMA InitSchedulesKeeps ==
    ASSUME PolicyInv, Remember, now' = now, NEW s, NEW A \in SUBSET Asset,
           NEW f \in [A -> Schedules], initSchedules(s, A, f)
    PROVE  ScheduleInv'
  <1>1. /\ \A a \in A : ~schedules[a].set
        /\ schedules' = [a \in Asset |-> IF a \in A THEN f[a] ELSE schedules[a]]
        /\ pendingSchedules' = pendingSchedules /\ graceSchedules' = graceSchedules /\ told' = told
    BY DEF initSchedules
  <1>2. /\ schedules \in [Asset -> Schedule]
        /\ pendingSchedules \in [Asset -> [schedule : Schedule, eta : Nat]]
        /\ graceSchedules \in [Asset -> [schedule : Schedule, until : Nat]]
        /\ \A a \in Asset : ScheduleAwaited(a)
    BY DEF PolicyInv, ScheduleInv
  <1>3. schedules' \in [Asset -> Schedule]
    BY <1>1, <1>2 DEF Schedule
  <1>4. \A a \in Asset : schedules[a].set => schedules'[a] = schedules[a]
    BY <1>1, <1>2
  <1>5. \A a \in Asset : ScheduleAwaited(a)'
    BY <1>1, <1>2, <1>4 DEF ScheduleAwaited
  <1>6. ASSUME NEW a \in Asset, NEW e \in Memory, e.at <= now, now < e.at + GRACE, ScheduleKept(e, a)
        PROVE  ScheduleKept(e, a)'
    BY <1>1, <1>4, <1>6 DEF ScheduleKept
  <1> QED
    BY <1>1, <1>2, <1>3, <1>5, <1>6, ScheduleCall

LEMMA QueueScheduleKeeps ==
    ASSUME PolicyInv, Remember, now' = now, NEW s, NEW b \in Asset, NEW c \in Schedules,
           queueSchedule(s, b, c)
    PROVE  ScheduleInv'
  <1>1. /\ schedules[b].set /\ schedules' = schedules /\ graceSchedules' = graceSchedules
        /\ pendingSchedules' = [pendingSchedules EXCEPT
             ![b] = [schedule |-> c, eta |-> now + CHANGE_DELAY]]
        /\ told' = [told EXCEPT !.schedule[b] = now]
    BY DEF queueSchedule, announced
  <1>2. /\ schedules \in [Asset -> Schedule]
        /\ pendingSchedules \in [Asset -> [schedule : Schedule, eta : Nat]]
        /\ graceSchedules \in [Asset -> [schedule : Schedule, until : Nat]]
        /\ \A a \in Asset : ScheduleAwaited(a)
        /\ told \in [range : [Asset -> Nat], schedule : [Asset -> Nat], bps : Nat]
    BY DEF PolicyInv, ScheduleInv, HistoryOK
  <1>3. now \in Nat /\ c \in Schedule /\ now + CHANGE_DELAY \in Nat
    BY Clocks, PolicyAssumption DEF PolicyInv, Schedule
  <1>4. pendingSchedules' \in [Asset -> [schedule : Schedule, eta : Nat]]
    BY <1>1, <1>2, <1>3
  <1>5. told'.schedule = [told.schedule EXCEPT ![b] = now]
    BY <1>1, <1>2
  <1>6. ASSUME NEW a \in Asset
        PROVE  ScheduleAwaited(a)'
    <2>1. CASE a = b
      BY <1>1, <1>2, <1>3, <1>5, <2>1 DEF ScheduleAwaited
    <2>2. CASE a # b
      BY <1>1, <1>2, <1>5, <2>2 DEF ScheduleAwaited
    <2> QED
      BY <2>1, <2>2
  <1>7. ASSUME NEW a \in Asset, NEW e \in Memory, e.at <= now, now < e.at + GRACE, ScheduleKept(e, a)
        PROVE  ScheduleKept(e, a)'
    <2>1. CASE a = b
      <3>1. pendingSchedules'[a].eta = now + CHANGE_DELAY
        BY <1>1, <1>2, <2>1
      <3>2. e.at \in Nat /\ graceSchedules[a].until \in Nat /\ pendingSchedules[a].eta \in Nat
        BY <1>2 DEF Memory
      <3>3. e.schedules[a].set =>
              Kept(e.at, e.schedules[a], schedules[a],
                   graceSchedules[a].schedule, graceSchedules[a].until, now + CHANGE_DELAY)
        BY <1>3, <1>7, <3>2, KeptWhenAnnounced DEF ScheduleKept
      <3> QED
        BY <1>1, <1>7, <3>1, <3>3 DEF ScheduleKept
    <2>2. CASE a # b
      BY <1>1, <1>2, <1>7, <2>2 DEF ScheduleKept
    <2> QED
      BY <2>1, <2>2
  <1> QED
    BY <1>1, <1>2, <1>4, <1>6, <1>7, ScheduleCall

LEMMA CancelScheduleKeeps ==
    ASSUME PolicyInv, Remember, now' = now, NEW s, NEW b \in Asset, cancelSchedule(s, b)
    PROVE  ScheduleInv'
  <1>1. /\ schedules' = schedules /\ graceSchedules' = graceSchedules
        /\ pendingSchedules' = [pendingSchedules EXCEPT ![b] = [schedule |-> NoSchedule, eta |-> 0]]
        /\ told' = [told EXCEPT !.schedule[b] = 0]
    BY DEF cancelSchedule
  <1>2. /\ schedules \in [Asset -> Schedule]
        /\ pendingSchedules \in [Asset -> [schedule : Schedule, eta : Nat]]
        /\ graceSchedules \in [Asset -> [schedule : Schedule, until : Nat]]
        /\ \A a \in Asset : ScheduleAwaited(a)
        /\ told \in [range : [Asset -> Nat], schedule : [Asset -> Nat], bps : Nat]
    BY DEF PolicyInv, ScheduleInv, HistoryOK
  <1>3. pendingSchedules' \in [Asset -> [schedule : Schedule, eta : Nat]]
    BY <1>1, <1>2, ScheduleValues
  <1>4. told'.schedule = [told.schedule EXCEPT ![b] = 0]
    BY <1>1, <1>2
  <1>5. \A a \in Asset : ScheduleAwaited(a)'
    BY <1>1, <1>2, <1>4 DEF ScheduleAwaited
  <1>6. ASSUME NEW a \in Asset, NEW e \in Memory, e.at <= now, now < e.at + GRACE, ScheduleKept(e, a)
        PROVE  ScheduleKept(e, a)'
    BY <1>1, <1>2, <1>6 DEF ScheduleKept, Kept
  <1> QED
    BY <1>1, <1>2, <1>3, <1>5, <1>6, ScheduleCall

LEMMA ActivateScheduleKeeps ==
    ASSUME PolicyInv, Remember, now' = now, NEW b \in Asset, activateSchedule(b)
    PROVE  ScheduleInv'
  <1>1. /\ pendingSchedules[b].eta # 0 /\ now >= pendingSchedules[b].eta
        /\ schedules' = [schedules EXCEPT ![b] = pendingSchedules[b].schedule]
        /\ graceSchedules' = [graceSchedules EXCEPT
             ![b] = [schedule |-> schedules[b], until |-> now + GRACE]]
        /\ pendingSchedules' = [pendingSchedules EXCEPT ![b] = [schedule |-> NoSchedule, eta |-> 0]]
        /\ told' = [told EXCEPT !.schedule[b] = 0]
    BY DEF activateSchedule, due
  <1>2. /\ schedules \in [Asset -> Schedule]
        /\ pendingSchedules \in [Asset -> [schedule : Schedule, eta : Nat]]
        /\ graceSchedules \in [Asset -> [schedule : Schedule, until : Nat]]
        /\ \A a \in Asset : ScheduleAwaited(a)
        /\ told \in [range : [Asset -> Nat], schedule : [Asset -> Nat], bps : Nat]
    BY DEF PolicyInv, ScheduleInv, HistoryOK
  <1>3. now \in Nat /\ now + GRACE \in Nat
    BY Clocks, PolicyAssumption DEF PolicyInv
  <1>4. /\ pendingSchedules[b].schedule \in Schedules /\ pendingSchedules[b].schedule.set
        /\ schedules[b].set
    BY <1>1, <1>2, ScheduleValues DEF ScheduleAwaited
  <1>5. /\ schedules' \in [Asset -> Schedule]
        /\ pendingSchedules' \in [Asset -> [schedule : Schedule, eta : Nat]]
        /\ graceSchedules' \in [Asset -> [schedule : Schedule, until : Nat]]
    BY <1>1, <1>2, <1>3, <1>4, ScheduleValues DEF Schedule
  <1>6. told'.schedule = [told.schedule EXCEPT ![b] = 0]
    BY <1>1, <1>2
  <1>7. \A a \in Asset : ScheduleAwaited(a)'
    BY <1>1, <1>2, <1>6 DEF ScheduleAwaited
  <1>8. ASSUME NEW a \in Asset, NEW e \in Memory, e.at <= now, now < e.at + GRACE, ScheduleKept(e, a)
        PROVE  ScheduleKept(e, a)'
    <2>1. CASE a = b
      <3>1. /\ schedules'[a] = pendingSchedules[a].schedule /\ graceSchedules'[a].schedule = schedules[a]
            /\ graceSchedules'[a].until = now + GRACE /\ pendingSchedules'[a].eta = 0
        BY <1>1, <1>2, <2>1
      <3>2. e.at \in Nat /\ graceSchedules[a].until \in Nat /\ pendingSchedules[a].eta \in Nat
        BY <1>2 DEF Memory
      <3>3. e.schedules[a].set =>
              Kept(e.at, e.schedules[a], schedules'[a], schedules[a], now + GRACE, 0)
        BY <1>1, <1>3, <1>8, <2>1, <3>2, KeptWhenActivated DEF ScheduleKept
      <3> QED
        BY <1>4, <2>1, <3>1, <3>3 DEF ScheduleKept
    <2>2. CASE a # b
      BY <1>1, <1>2, <1>8, <2>2 DEF ScheduleKept
    <2> QED
      BY <2>1, <2>2
  <1>9. ScheduleRecalled(b)'
    <2>1. graceSchedules'[b].schedule = schedules[b] /\ graceSchedules'[b].until = now + GRACE
      BY <1>1, <1>2
    <2>2. now' < now + GRACE => Current \in inForce'
      BY Remembering
    <2>3. Current.schedules[b] = schedules[b] /\ Current.at = now
      BY DEF Current
    <2> QED
      BY <1>4, <2>1, <2>2, <2>3 DEF ScheduleRecalled
  <1>10. \A a \in Asset : graceSchedules'[a] = graceSchedules[a] \/ ScheduleRecalled(a)'
    BY <1>1, <1>2, <1>9
  <1> QED
    BY <1>5, <1>7, <1>8, <1>10, ScheduleCall

-----------------------------------------------------------------------------
(* Percentages.                                                            *)

LEMMA BpsStillRecalled ==
    ASSUME PolicyInv, Remember, now' \in {now, now + 1}, graceBps' = graceBps
    PROVE  BpsRecalled'
  <1>1. BpsRecalled /\ graceBps.until \in Nat /\ now \in Nat
    BY Clocks DEF PolicyInv, BpsInv
  <1>2. \A e \in inForce : now' < e.at + GRACE => e \in inForce'
    BY Remembering
  <1>3. SUFFICES ASSUME now' < graceBps'.until
                 PROVE  \E e \in inForce' : e.bps = graceBps'.bps /\ e.at + GRACE = graceBps'.until
    BY DEF BpsRecalled
  <1>4. PICK e \in inForce : e.bps = graceBps.bps /\ e.at + GRACE = graceBps.until
    BY <1>1, <1>3 DEF BpsRecalled
  <1> QED
    BY <1>2, <1>3, <1>4

LEMMA BpsRest ==
    ASSUME PolicyInv, Remember, now' \in {now, now + 1}, UNCHANGED <<bps, pendingBps, graceBps>>,
           told'.bps = told.bps
    PROVE  BpsInv'
  <1>1. \A e \in inForce' : BpsKept(e)
    BY Remembering
  <1>2. \A e \in inForce' : BpsKept(e)'
    BY <1>1 DEF BpsKept
  <1>3. BpsAwaited'
    BY DEF PolicyInv, BpsInv, BpsAwaited
  <1> QED
    BY <1>2, <1>3, BpsStillRecalled DEF PolicyInv, BpsInv

LEMMA QueueBpsKeeps ==
    ASSUME PolicyInv, Remember, now' = now, NEW s, NEW b \in Percentages, queueBps(s, b)
    PROVE  BpsInv'
  <1>1. /\ bps' = bps /\ graceBps' = graceBps
        /\ pendingBps' = [bps |-> b, eta |-> now + CHANGE_DELAY]
        /\ told' = [told EXCEPT !.bps = now]
    BY DEF queueBps, announced
  <1>2. /\ bps \in Percentages /\ pendingBps \in [bps : Percentages \cup {NoBps}, eta : Nat]
        /\ graceBps \in [bps : Percentages \cup {NoBps}, until : Nat]
        /\ told \in [range : [Asset -> Nat], schedule : [Asset -> Nat], bps : Nat]
    BY DEF PolicyInv, BpsInv, HistoryOK
  <1>3. now \in Nat /\ now + CHANGE_DELAY \in Nat /\ told'.bps = now
    BY <1>1, <1>2, Clocks, PolicyAssumption DEF PolicyInv
  <1>4. BpsAwaited'
    BY <1>1, <1>3 DEF BpsAwaited
  <1>5. ASSUME NEW e \in inForce'
        PROVE  BpsKept(e)'
    <2>1. e \in Memory /\ e.at <= now /\ BpsKept(e)
      BY Remembering
    <2>2. e.at \in Nat /\ graceBps.until \in Nat /\ pendingBps.eta \in Nat
      BY <1>2, <2>1 DEF Memory
    <2>3. Kept(e.at, e.bps, bps, graceBps.bps, graceBps.until, now + CHANGE_DELAY)
      BY <1>3, <2>1, <2>2, KeptWhenAnnounced DEF BpsKept
    <2> QED
      BY <1>1, <2>3 DEF BpsKept
  <1> QED
    BY <1>1, <1>2, <1>3, <1>4, <1>5, BpsStillRecalled DEF BpsInv

LEMMA CancelBpsKeeps ==
    ASSUME PolicyInv, Remember, now' = now, NEW s, cancelBps(s)
    PROVE  BpsInv'
  <1>1. /\ bps' = bps /\ graceBps' = graceBps
        /\ pendingBps' = [bps |-> NoBps, eta |-> 0]
    BY DEF cancelBps
  <1>2. /\ bps \in Percentages /\ pendingBps \in [bps : Percentages \cup {NoBps}, eta : Nat]
        /\ graceBps \in [bps : Percentages \cup {NoBps}, until : Nat]
        /\ told \in [range : [Asset -> Nat], schedule : [Asset -> Nat], bps : Nat]
    BY DEF PolicyInv, BpsInv, HistoryOK
  <1>3. BpsAwaited'
    BY <1>1 DEF BpsAwaited
  <1>4. ASSUME NEW e \in inForce'
        PROVE  BpsKept(e)'
    <2>1. BpsKept(e)
      BY Remembering
    <2> QED
      BY <1>1, <2>1 DEF BpsKept, Kept
  <1> QED
    BY <1>1, <1>2, <1>3, <1>4, BpsStillRecalled DEF BpsInv

LEMMA ActivateBpsKeeps ==
    ASSUME PolicyInv, Remember, now' = now, activateBps
    PROVE  BpsInv'
  <1>1. /\ pendingBps.eta # 0 /\ now >= pendingBps.eta
        /\ bps' = pendingBps.bps /\ graceBps' = [bps |-> bps, until |-> now + GRACE]
        /\ pendingBps' = [bps |-> NoBps, eta |-> 0]
    BY DEF activateBps, due
  <1>2. /\ bps \in Percentages /\ pendingBps \in [bps : Percentages \cup {NoBps}, eta : Nat]
        /\ graceBps \in [bps : Percentages \cup {NoBps}, until : Nat]
        /\ told \in [range : [Asset -> Nat], schedule : [Asset -> Nat], bps : Nat]
    BY DEF PolicyInv, BpsInv, HistoryOK
  <1>3. now \in Nat /\ now + GRACE \in Nat /\ pendingBps.bps \in Percentages
    BY <1>1, Clocks, PolicyAssumption DEF PolicyInv, BpsInv, BpsAwaited
  <1>4. BpsAwaited'
    BY <1>1 DEF BpsAwaited
  <1>5. BpsRecalled'
    <2>1. now' < now + GRACE => Current \in inForce'
      BY Remembering
    <2>2. Current.bps = bps /\ Current.at = now
      BY DEF Current
    <2> QED
      BY <1>1, <2>1, <2>2 DEF BpsRecalled
  <1>6. ASSUME NEW e \in inForce'
        PROVE  BpsKept(e)'
    <2>1. e \in Memory /\ e.at <= now /\ now < e.at + GRACE /\ BpsKept(e)
      BY Remembering
    <2>2. e.at \in Nat /\ graceBps.until \in Nat /\ pendingBps.eta \in Nat
      BY <1>2, <2>1 DEF Memory
    <2>3. Kept(e.at, e.bps, bps', bps, now + GRACE, 0)
      BY <1>1, <1>3, <2>1, <2>2, KeptWhenActivated DEF BpsKept
    <2> QED
      BY <1>1, <2>3 DEF BpsKept
  <1> QED
    BY <1>1, <1>2, <1>3, <1>4, <1>5, <1>6 DEF BpsInv

-----------------------------------------------------------------------------
(* The whole policy.                                                       *)

LEMMA PolicyInitInv == PolicyInit => PolicyInv
  <1> SUFFICES ASSUME PolicyInit PROVE PolicyInv
    OBVIOUS
  <1>1. LeverInv /\ now \in Nat
    BY LeverInitInv, Clocks DEF PolicyInit
  <1>2. HistoryOK
    BY DEF PolicyInit, HistoryOK
  <1>3. RangeInv
    <2>1. rules \in [Asset -> Rule] /\ \A a \in Asset : pending[a].eta = 0
      BY RuleValues DEF PolicyInit
    <2>2. pending \in [Asset -> [rule : Rule, eta : Nat]] /\ grace \in [Asset -> [fee : Nat, until : Nat]]
      BY RuleValues DEF PolicyInit
    <2> QED
      BY <2>1, <2>2 DEF PolicyInit, RangeInv, RangeAwaited
  <1>4. ScheduleInv
    <2>1. /\ schedules \in [Asset -> Schedule]
          /\ \A a \in Asset : pendingSchedules[a].eta = 0 /\ graceSchedules[a].until = 0
      BY ScheduleValues DEF PolicyInit
    <2>2. /\ pendingSchedules \in [Asset -> [schedule : Schedule, eta : Nat]]
          /\ graceSchedules \in [Asset -> [schedule : Schedule, until : Nat]]
      BY ScheduleValues DEF PolicyInit
    <2> QED
      BY <1>1, <2>1, <2>2 DEF PolicyInit, ScheduleInv, ScheduleAwaited, ScheduleRecalled
  <1>5. BpsInv
    BY <1>1 DEF PolicyInit, BpsInv, BpsAwaited, BpsRecalled
  <1> QED
    BY <1>1, <1>2, <1>3, <1>4, <1>5 DEF PolicyInv

\* A call about fees leaves the lever alone, and two of the three kinds of value.
LEMMA FeeStepKeeps ==
    ASSUME PolicyInv, Remember, UNCHANGED leverVars, FeeCall \/ Activation
    PROVE  PolicyInv'
  <1>1. now' = now /\ LeverInv'
    BY LeverStep DEF PolicyInv, leverVars
  <1>2. told \in [range : [Asset -> Nat], schedule : [Asset -> Nat], bps : Nat] /\ now \in Nat
    BY Clocks DEF PolicyInv, HistoryOK
  <1>3. ASSUME RangeInv', UNCHANGED <<schedules, pendingSchedules, graceSchedules, bps, pendingBps, graceBps>>,
               \/ told' = told
               \/ \E a \in Asset, t \in {now, 0} : told' = [told EXCEPT !.range[a] = t]
        PROVE  PolicyInv'
    <2>1. /\ told' \in [range : [Asset -> Nat], schedule : [Asset -> Nat], bps : Nat]
          /\ told'.schedule = told.schedule /\ told'.bps = told.bps
      BY <1>2, <1>3
    <2> QED
      BY <1>1, <1>3, <2>1, HistoryKept, SchedulesRest, BpsRest DEF PolicyInv
  <1>4. ASSUME ScheduleInv', UNCHANGED <<rules, pending, grace, bps, pendingBps, graceBps>>,
               \/ told' = told
               \/ \E a \in Asset, t \in {now, 0} : told' = [told EXCEPT !.schedule[a] = t]
        PROVE  PolicyInv'
    <2>1. /\ told' \in [range : [Asset -> Nat], schedule : [Asset -> Nat], bps : Nat]
          /\ told'.range = told.range /\ told'.bps = told.bps
      BY <1>2, <1>4
    <2> QED
      BY <1>1, <1>4, <2>1, HistoryKept, RangesRest, BpsRest DEF PolicyInv
  <1>5. ASSUME BpsInv', UNCHANGED <<rules, pending, grace, schedules, pendingSchedules, graceSchedules>>,
               \E t \in {now, 0} : told' = [told EXCEPT !.bps = t]
        PROVE  PolicyInv'
    <2>1. /\ told' \in [range : [Asset -> Nat], schedule : [Asset -> Nat], bps : Nat]
          /\ told'.range = told.range /\ told'.schedule = told.schedule
      BY <1>2, <1>5
    <2> QED
      BY <1>1, <1>5, <2>1, HistoryKept, RangesRest, SchedulesRest DEF PolicyInv
  <1>6. ASSUME NEW s, NEW A \in SUBSET Asset, NEW f \in [A -> Ranges], initRanges(s, A, f)
        PROVE  PolicyInv'
    BY <1>1, <1>3, <1>6, InitRangesKeeps DEF initRanges
  <1>7. ASSUME NEW s, NEW A \in SUBSET Asset, NEW f \in [A -> Schedules], initSchedules(s, A, f)
        PROVE  PolicyInv'
    BY <1>1, <1>4, <1>7, InitSchedulesKeeps DEF initSchedules
  <1>8. ASSUME NEW s, NEW a \in Asset, NEW r \in Ranges, queueRange(s, a, r)
        PROVE  PolicyInv'
    <2>1. RangeInv'
      BY <1>1, <1>8, QueueRangeKeeps
    <2> QED
      BY <1>3, <1>8, <2>1 DEF queueRange
  <1>9. ASSUME NEW s, NEW a \in Asset, cancelRange(s, a)
        PROVE  PolicyInv'
    <2>1. RangeInv'
      BY <1>1, <1>9, CancelRangeKeeps
    <2> QED
      BY <1>3, <1>9, <2>1 DEF cancelRange
  <1>10. ASSUME NEW a \in Asset, activateRange(a)
         PROVE  PolicyInv'
    <2>1. RangeInv'
      BY <1>1, <1>10, ActivateRangeKeeps
    <2> QED
      BY <1>3, <1>10, <2>1 DEF activateRange
  <1>11. ASSUME NEW s, NEW a \in Asset, NEW c \in Schedules, queueSchedule(s, a, c)
         PROVE  PolicyInv'
    <2>1. ScheduleInv'
      BY <1>1, <1>11, QueueScheduleKeeps
    <2> QED
      BY <1>4, <1>11, <2>1 DEF queueSchedule
  <1>12. ASSUME NEW s, NEW a \in Asset, cancelSchedule(s, a)
         PROVE  PolicyInv'
    <2>1. ScheduleInv'
      BY <1>1, <1>12, CancelScheduleKeeps
    <2> QED
      BY <1>4, <1>12, <2>1 DEF cancelSchedule
  <1>13. ASSUME NEW a \in Asset, activateSchedule(a)
         PROVE  PolicyInv'
    <2>1. ScheduleInv'
      BY <1>1, <1>13, ActivateScheduleKeeps
    <2> QED
      BY <1>4, <1>13, <2>1 DEF activateSchedule
  <1>14. ASSUME NEW s, NEW b \in Percentages, queueBps(s, b)
         PROVE  PolicyInv'
    <2>1. BpsInv'
      BY <1>1, <1>14, QueueBpsKeeps
    <2> QED
      BY <1>5, <1>14, <2>1 DEF queueBps
  <1>15. ASSUME NEW s, cancelBps(s)
         PROVE  PolicyInv'
    <2>1. BpsInv'
      BY <1>1, <1>15, CancelBpsKeeps
    <2> QED
      BY <1>5, <1>15, <2>1 DEF cancelBps
  <1>16. ASSUME activateBps
         PROVE  PolicyInv'
    <2>1. BpsInv'
      BY <1>1, <1>16, ActivateBpsKeeps
    <2> QED
      BY <1>5, <1>16, <2>1 DEF activateBps
  <1>17. CASE FeeCall
    BY <1>17, <1>6, <1>7, <1>8, <1>9, <1>11, <1>12, <1>14, <1>15 DEF FeeCall
  <1>18. CASE Activation
    BY <1>18, <1>10, <1>13, <1>16 DEF Activation
  <1> QED
    BY <1>17, <1>18

LEMMA LeverStepKeeps ==
    ASSUME PolicyInv, Remember, LeverNext, UNCHANGED <<feeVars, told>>
    PROVE  PolicyInv'
  <1>1. now' \in {now, now + 1} /\ LeverInv'
    BY ClockMoves, LeverStep DEF PolicyInv
  <1>2. told' \in [range : [Asset -> Nat], schedule : [Asset -> Nat], bps : Nat]
    BY DEF PolicyInv, HistoryOK
  <1> QED
    BY <1>1, <1>2, HistoryKept, RangesRest, SchedulesRest, BpsRest DEF PolicyInv, feeVars

LEMMA PolicyStep == PolicyInv /\ [PolicyNext]_policyVars => PolicyInv'
  <1> SUFFICES ASSUME PolicyInv, [PolicyNext]_policyVars PROVE PolicyInv'
    OBVIOUS
  <1>1. CASE PolicyNext
    BY <1>1, FeeStepKeeps, LeverStepKeeps DEF PolicyNext
  <1>2. CASE UNCHANGED policyVars
    <2>1. LeverInv'
      BY <1>2, LeverStep DEF PolicyInv, policyVars
    <2> QED
      BY <1>2, <2>1 DEF policyVars, leverVars, feeVars, PolicyInv, HistoryOK, RangeInv, RangeAwaited, RangeKept,
           ScheduleInv, ScheduleAwaited, ScheduleRecalled, ScheduleKept,
           BpsInv, BpsAwaited, BpsRecalled, BpsKept
  <1> QED
    BY <1>1, <1>2

\* The parts together hold in every reachable state.
THEOREM PolicyInvariance == PolicySpec => []PolicyInv
  BY PolicyInitInv, PolicyStep, PTL DEF PolicySpec

\* Every variable of the policy keeps its type.
THEOREM PolicyTypeCorrect == PolicySpec => []PolicyTypeOK
  <1>1. PolicyInv => PolicyTypeOK
    BY DEF PolicyInv, LeverInv, RangeInv, ScheduleInv, BpsInv, PolicyTypeOK, Rule, Schedule
  <1> QED
    BY <1>1, PolicyInvariance, PTL

-----------------------------------------------------------------------------
(* Which fees settle.                                                      *)

LEMMA PartIsNat ==
    ASSUME NEW c \in Schedule, NEW rate \in Nat, NEW amount \in Nat
    PROVE  protocolPartOf(c, rate, amount) \in Nat
  <1>1. c.protocolFee \in Nat
    BY ScheduleValues
  <1>2. \A m \in Nat, k \in Nat \ {0} : m \div k \in Nat
    OBVIOUS
  <1>3. amount * rate \in Nat
    OBVIOUS
  <1> QED
    BY <1>1, <1>2, <1>3, PolicyAssumption DEF protocolPartOf

\* A wallet's fee fits the schedule and the percentage it was computed from.
LEMMA FeeFits ==
    ASSUME NEW c \in Schedule, NEW rate \in Nat, NEW amount \in Nat, NEW relayed,
           NEW fee \in feesUnder(c, rate, amount, relayed)
    PROVE  fits(c, rate, amount, fee, relayed)
  <1> DEFINE part == protocolPartOf(c, rate, amount)
  <1>1. part \in Nat /\ c.ladder \subseteq Nat
    <2>1. c.ladder \subseteq Nat
      BY ScheduleValues
    <2> QED
      BY <2>1, PartIsNat
  <1>2. IF relayed THEN \E g \in c.ladder : fee = part + g ELSE fee = part
    BY DEF feesUnder
  <1>3. fee >= part /\ IF relayed THEN fee - part \in c.ladder ELSE fee = part
    <2>1. CASE relayed
      <3> HIDE DEF part
      <3>1. PICK g \in c.ladder : fee = part + g
        BY <1>2, <2>1
      <3>2. g \in Nat
        BY <1>1, <3>1
      <3>3. fee >= part /\ fee - part = g
        BY <1>1, <3>1, <3>2
      <3> QED
        BY <2>1, <3>1, <3>3
    <2>2. CASE ~relayed
      BY <1>1, <1>2, <2>2
    <2> QED
      BY <2>1, <2>2
  <1> QED
    BY <1>3 DEF fits

LEMMA RatesAreNat ==
    /\ \A b \in Percentages \cup {NoBps} : b.withdraw \in Nat
  BY PolicyAssumption DEF NoBps

\* A schedule of an asset that was in force at a remembered instant still settles, and
\* so does a percentage.
LEMMA RememberedSettles ==
    ASSUME PolicyInv, NEW e \in inForce, NEW a \in Asset
    PROVE  /\ e.schedules[a].set =>
                \E x \in settlingSchedules(a) : x.schedule = e.schedules[a]
           /\ \E y \in settlingWithdrawBps(TRUE) : y.rate = e.bps.withdraw
  <1>1. e \in Memory /\ now < e.at + GRACE /\ ScheduleKept(e, a) /\ BpsKept(e) /\ now \in Nat
    BY Clocks DEF PolicyInv, HistoryOK, ScheduleInv, BpsInv
  <1>2. /\ e.at + GRACE \in Nat /\ graceSchedules[a].until \in Nat /\ graceBps.until \in Nat
    BY <1>1, PolicyAssumption DEF PolicyInv, ScheduleInv, BpsInv, Memory
  <1>3. ASSUME e.schedules[a].set
        PROVE  \E x \in settlingSchedules(a) : x.schedule = e.schedules[a]
    <2>1. CASE e.schedules[a] = schedules[a]
      <3>1. [schedule |-> schedules[a], rank |-> 0] \in settlingSchedules(a)
        BY DEF settlingSchedules
      <3> QED
        BY <2>1, <3>1
    <2>2. CASE e.schedules[a] # schedules[a]
      <3>1. e.schedules[a] = graceSchedules[a].schedule /\ now < graceSchedules[a].until
        BY <1>1, <1>2, <1>3, <2>2 DEF ScheduleKept, Kept
      <3>2. [schedule |-> graceSchedules[a].schedule, rank |-> 2] \in settlingSchedules(a)
        BY <3>1 DEF settlingSchedules
      <3> QED
        BY <3>1, <3>2
    <2> QED
      BY <2>1, <2>2
  <1>4. \E y \in settlingWithdrawBps(TRUE) : y.rate = e.bps.withdraw
    <2>1. CASE e.bps = bps
      <3>1. [rate |-> bps.withdraw, rank |-> 0] \in settlingWithdrawBps(TRUE)
        BY DEF settlingWithdrawBps
      <3> QED
        BY <2>1, <3>1
    <2>2. CASE e.bps # bps
      <3>1. e.bps = graceBps.bps /\ now < graceBps.until
        BY <1>1, <1>2, <2>2 DEF BpsKept, Kept
      <3>2. [rate |-> graceBps.bps.withdraw, rank |-> 2] \in settlingWithdrawBps(TRUE)
        BY <3>1 DEF settlingWithdrawBps
      <3> QED
        BY <3>1, <3>2
    <2> QED
      BY <2>1, <2>2
  <1> QED
    BY <1>3, <1>4

LEMMA SurvivesSwitch == PolicyInv => ProofSurvivesSwitch
  <1> SUFFICES ASSUME PolicyInv, ~paused, NEW a \in Asset
               PROVE  /\ \A p \in recentPairs(a) :
                          \A amount \in {x \in Amounts : x # 0 => standard(rules[a], x)},
                             relayed \in BOOLEAN :
                          \A fee \in feesUnder(p.schedule, p.rate, amount, relayed) :
                             settles(a, amount, fee, relayed)
                      /\ \A e \in inForce : e.rules[a].ranged => check(a, 0, e.rules[a].fee)
    BY DEF ProofSurvivesSwitch
  <1>1. ASSUME NEW p \in recentPairs(a), NEW amount \in Amounts, amount # 0 => standard(rules[a], amount),
               NEW relayed \in BOOLEAN, NEW fee \in feesUnder(p.schedule, p.rate, amount, relayed)
        PROVE  settles(a, amount, fee, relayed)
    <2>1. PICK e \in inForce : /\ p = [schedule |-> e.schedules[a], rate |-> e.bps.withdraw]
                              /\ e.rules[a].ranged /\ e.schedules[a].set
      BY DEF recentPairs
    <2>2. p.schedule = e.schedules[a] /\ p.rate = e.bps.withdraw
      BY <2>1
    <2>3. e \in Memory /\ rules[a].ranged /\ schedules[a].set
      BY <2>1 DEF PolicyInv, HistoryOK, RangeInv, RangeKept, ScheduleInv, ScheduleKept
    <2>4. p.schedule \in Schedule /\ p.rate \in Nat /\ amount \in Nat
      BY <2>2, <2>3, RatesAreNat, PolicyAssumption DEF Memory
    <2>5. fits(p.schedule, p.rate, amount, fee, relayed)
      BY <2>4, FeeFits
    <2>6. PICK x \in settlingSchedules(a) : x.schedule = p.schedule
      BY <2>1, <2>2, RememberedSettles
    <2>7. PICK y \in settlingWithdrawBps(amount # 0) : fits(p.schedule, y.rate, amount, fee, relayed)
      <3>1. CASE amount = 0
        <4>1. [rate |-> bps.withdraw, rank |-> 0] \in settlingWithdrawBps(amount # 0)
          BY DEF settlingWithdrawBps
        <4>2. fits(p.schedule, bps.withdraw, amount, fee, relayed)
          BY <2>5, <3>1 DEF fits, protocolPartOf
        <4> QED
          BY <4>1, <4>2
      <3>2. CASE amount # 0
        <4>1. PICK y \in settlingWithdrawBps(TRUE) : y.rate = p.rate
          BY <2>2, RememberedSettles
        <4>2. settlingWithdrawBps(amount # 0) = settlingWithdrawBps(TRUE)
          BY <3>2 DEF settlingWithdrawBps
        <4> QED
          BY <2>5, <4>1, <4>2
      <3> QED
        BY <3>1, <3>2
    <2>8. <<x, y>> \in matches(a, amount, fee, relayed)
      BY <2>6, <2>7 DEF matches
    <2> QED
      BY <1>1, <2>3, <2>8 DEF settles
  <1>2. ASSUME NEW e \in inForce, e.rules[a].ranged
        PROVE  check(a, 0, e.rules[a].fee)
    <2>1. /\ e \in Memory /\ now < e.at + GRACE /\ now \in Nat /\ grace[a].until \in Nat
          /\ RangeKept(e, a)
      BY Clocks DEF PolicyInv, HistoryOK, RangeInv
    <2>2. rules[a].ranged /\ (e.rules[a].fee = rules[a].fee \/ (now < grace[a].until /\ e.rules[a].fee = grace[a].fee))
      BY <1>2, <2>1, PolicyAssumption DEF RangeKept, Kept, Memory
    <2> QED
      BY <2>2 DEF check
  <1> QED
    BY <1>1, <1>2

\* Whatever is activated when, a proof made under what was in force less than GRACE ago
\* carries a fee that settles.
THEOREM ProofsSurviveSwitches == PolicySpec => []ProofSurvivesSwitch
  BY PolicyInvariance, SurvivesSwitch, PTL

LEMMA OnlyCurrent == PolicyInv => OnlyCurrentFeesSettle
  <1> SUFFICES ASSUME PolicyInv, NEW a \in Asset, NEW amount \in Amounts, NEW relayed \in BOOLEAN,
                      NEW fee, settles(a, amount, fee, relayed)
               PROVE  \E c \in {x \in {schedules[a], pendingSchedules[a].schedule}
                                      \cup {e.schedules[a] : e \in inForce} : x.set},
                         rate \in {bps.withdraw} \cup {e.bps.withdraw : e \in inForce}
                                    \cup (IF pendingBps.eta = 0 THEN {} ELSE {pendingBps.bps.withdraw}) :
                        fits(c, rate, amount, fee, relayed)
    BY DEF OnlyCurrentFeesSettle
  <1> DEFINE current == {x \in {schedules[a], pendingSchedules[a].schedule}
                                  \cup {e.schedules[a] : e \in inForce} : x.set}
             rates == {bps.withdraw} \cup {e.bps.withdraw : e \in inForce}
                        \cup (IF pendingBps.eta = 0 THEN {} ELSE {pendingBps.bps.withdraw})
  <1>1. schedules[a].set /\ matches(a, amount, fee, relayed) # {}
    BY DEF settles
  <1>2. PICK p \in settlingSchedules(a) \X settlingWithdrawBps(amount # 0) :
          fits(p[1].schedule, p[2].rate, amount, fee, relayed)
    BY <1>1 DEF matches
  <1>3. p[1].schedule \in current
    <2>1. p[1] \in settlingSchedules(a)
      BY <1>2
    <2>2. \/ p[1].schedule = schedules[a]
          \/ p[1].schedule = pendingSchedules[a].schedule /\ pendingSchedules[a].eta # 0
          \/ p[1].schedule = graceSchedules[a].schedule /\ now < graceSchedules[a].until
      BY <2>1 DEF settlingSchedules
    <2>3. CASE p[1].schedule = schedules[a]
      BY <1>1, <2>3
    <2>4. CASE p[1].schedule = pendingSchedules[a].schedule /\ pendingSchedules[a].eta # 0
      <3>1. pendingSchedules[a].schedule.set
        BY <2>4, ScheduleValues DEF PolicyInv, ScheduleInv, ScheduleAwaited
      <3> QED
        BY <2>4, <3>1
    <2>5. CASE p[1].schedule = graceSchedules[a].schedule /\ now < graceSchedules[a].until
      <3>1. /\ graceSchedules[a].schedule.set
            /\ \E e \in inForce : e.schedules[a] = graceSchedules[a].schedule
        BY <2>5 DEF PolicyInv, ScheduleInv, ScheduleRecalled
      <3> QED
        BY <2>5, <3>1
    <2> QED
      BY <2>2, <2>3, <2>4, <2>5
  <1>4. p[2].rate \in rates
    <2>1. p[2] \in settlingWithdrawBps(amount # 0)
      BY <1>2
    <2>2. \/ p[2].rate = bps.withdraw
          \/ p[2].rate = pendingBps.bps.withdraw /\ pendingBps.eta # 0
          \/ p[2].rate = graceBps.bps.withdraw /\ now < graceBps.until
      BY <2>1 DEF settlingWithdrawBps
    <2>3. CASE p[2].rate = graceBps.bps.withdraw /\ now < graceBps.until
      <3>1. \E e \in inForce : e.bps = graceBps.bps
        BY <2>3 DEF PolicyInv, BpsInv, BpsRecalled
      <3> QED
        BY <2>3, <3>1
    <2> QED
      BY <2>2, <2>3
  <1> HIDE DEF current, rates
  <1>5. \E c \in current, rate \in rates : fits(c, rate, amount, fee, relayed)
    BY <1>2, <1>3, <1>4
  <1> QED
    BY <1>5 DEF current, rates

\* No fee settles but under a schedule and a percentage that are in force, announced, or
\* were in force less than GRACE ago.
THEOREM OnlyCurrentFees == PolicySpec => []OnlyCurrentFeesSettle
  BY PolicyInvariance, OnlyCurrent, PTL

\* The pairing of what is in force comes first, and nothing else has its place.
LEMMA FirstIsInForce ==
    ASSUME NEW a, NEW amount, NEW fee, NEW relayed,
           NEW p \in matches(a, amount, fee, relayed), order(p) <= 0
    PROVE  p[1].schedule = schedules[a] /\ p[2].rate = bps.withdraw
  <1>1. p[1] \in settlingSchedules(a) /\ p[2] \in settlingWithdrawBps(amount # 0)
    BY DEF matches
  <1>2. p[1].rank \in {0, 1, 2} /\ (p[1].rank = 0 => p[1].schedule = schedules[a])
    BY <1>1 DEF settlingSchedules
  <1>3. p[2].rank \in {0, 1, 2} /\ (p[2].rank = 0 => p[2].rate = bps.withdraw)
    BY <1>1 DEF settlingWithdrawBps
  <1> QED
    BY <1>2, <1>3 DEF order

LEMMA SplitInForce == PolicyInv => SplitFollowsForce
  <1> SUFFICES ASSUME PolicyInv, NEW a \in Asset, NEW amount \in Amounts, NEW relayed \in BOOLEAN,
                      NEW fee \in feesUnder(schedules[a], bps.withdraw, amount, relayed)
               PROVE  settlementFee(a, amount, fee, relayed)
                        = protocolPartOf(schedules[a], bps.withdraw, amount)
    BY DEF SplitFollowsForce
  <1> DEFINE M == matches(a, amount, fee, relayed)
             here == <<[schedule |-> schedules[a], rank |-> 0], [rate |-> bps.withdraw, rank |-> 0]>>
             first == CHOOSE p \in M : \A q \in M : order(p) <= order(q)
  <1>1. schedules[a] \in Schedule /\ bps.withdraw \in Nat /\ amount \in Nat
    BY RatesAreNat, PolicyAssumption DEF PolicyInv, ScheduleInv, BpsInv
  <1>2. fits(schedules[a], bps.withdraw, amount, fee, relayed)
    BY <1>1, FeeFits
  <1>3. here \in M
    BY <1>2 DEF matches, settlingSchedules, settlingWithdrawBps
  <1>4. order(here) = 0
    BY DEF order
  <1>5. \A q \in M : order(q) \in Nat
    <2> SUFFICES ASSUME NEW q \in M PROVE order(q) \in Nat
      OBVIOUS
    <2>1. q[1] \in settlingSchedules(a) /\ q[2] \in settlingWithdrawBps(amount # 0)
      BY DEF matches
    <2>2. q[1].rank \in Nat
      BY <2>1 DEF settlingSchedules
    <2>3. q[2].rank \in Nat
      BY <2>1 DEF settlingWithdrawBps
    <2> QED
      BY <2>2, <2>3 DEF order
  <1> HIDE DEF M, here
  <1>6. \E p \in M : \A q \in M : order(p) <= order(q)
    BY <1>3, <1>4, <1>5
  <1>7. first \in M /\ order(first) <= order(here)
    BY <1>3, <1>6
  <1> HIDE DEF first
  <1>8. first[1].schedule = schedules[a] /\ first[2].rate = bps.withdraw
    BY <1>4, <1>7, FirstIsInForce DEF M
  <1>9. settlementFee(a, amount, fee, relayed) = protocolPartOf(first[1].schedule, first[2].rate, amount)
    BY DEF settlementFee, first, M
  <1> QED
    BY <1>8, <1>9

\* A fee the values in force accept is split by them.
THEOREM SplitIsOfForce == PolicySpec => []SplitFollowsForce
  BY PolicyInvariance, SplitInForce, PTL

-----------------------------------------------------------------------------
(* What is in force changes only once its announcement has waited.         *)

LEMMA ChangeWaits ==
    ASSUME PolicyInv, PolicyNext
    PROVE  /\ bps' # bps => now >= told.bps + CHANGE_DELAY
           /\ \A a \in Asset :
                /\ rules[a].ranged /\ rules'[a] # rules[a] => now >= told.range[a] + CHANGE_DELAY
                /\ schedules[a].set /\ schedules'[a] # schedules[a] =>
                     now >= told.schedule[a] + CHANGE_DELAY
  <1> DEFINE rest == UNCHANGED <<bps, rules, schedules>>
  <1>1. CASE LeverNext /\ UNCHANGED <<feeVars, told>>
    BY <1>1 DEF feeVars
  <1>2. ASSUME NEW s, NEW A \in SUBSET Asset, NEW f \in [A -> Ranges], initRanges(s, A, f)
        PROVE  /\ bps' = bps /\ schedules' = schedules
               /\ \A a \in Asset : rules[a].ranged => rules'[a] = rules[a]
    BY <1>2 DEF initRanges
  <1>3. ASSUME NEW s, NEW A \in SUBSET Asset, NEW f \in [A -> Schedules], initSchedules(s, A, f)
        PROVE  /\ bps' = bps /\ rules' = rules
               /\ \A a \in Asset : schedules[a].set => schedules'[a] = schedules[a]
    BY <1>3 DEF initSchedules
  <1>4. ASSUME NEW b \in Asset, activateRange(b)
        PROVE  /\ bps' = bps /\ schedules' = schedules
               /\ \A a \in Asset : rules'[a] # rules[a] => now >= told.range[a] + CHANGE_DELAY
    <2>1. /\ bps' = bps /\ schedules' = schedules /\ rules' = [rules EXCEPT ![b] = pending[b].rule]
          /\ pending[b].eta # 0 /\ now >= pending[b].eta
      BY <1>4 DEF activateRange, due
    <2>2. rules \in [Asset -> Rule] /\ RangeAwaited(b)
      BY DEF PolicyInv, RangeInv
    <2> QED
      BY <2>1, <2>2 DEF RangeAwaited
  <1>5. ASSUME NEW b \in Asset, activateSchedule(b)
        PROVE  /\ bps' = bps /\ rules' = rules
               /\ \A a \in Asset : schedules'[a] # schedules[a] =>
                    now >= told.schedule[a] + CHANGE_DELAY
    <2>1. /\ bps' = bps /\ rules' = rules
          /\ schedules' = [schedules EXCEPT ![b] = pendingSchedules[b].schedule]
          /\ pendingSchedules[b].eta # 0 /\ now >= pendingSchedules[b].eta
      BY <1>5 DEF activateSchedule, due
    <2>2. schedules \in [Asset -> Schedule] /\ ScheduleAwaited(b)
      BY DEF PolicyInv, ScheduleInv
    <2> QED
      BY <2>1, <2>2 DEF ScheduleAwaited
  <1>6. ASSUME activateBps
        PROVE  rules' = rules /\ schedules' = schedules /\ now >= told.bps + CHANGE_DELAY
    BY <1>6 DEF activateBps, due, PolicyInv, BpsInv, BpsAwaited
  <1>7. CASE FeeCall
    <2>1. \/ \E s \in Account : \E A \in SUBSET Asset \ {{}} : \E f \in [A -> Ranges] : initRanges(s, A, f)
          \/ \E s \in Account : \E A \in SUBSET Asset \ {{}} : \E f \in [A -> Schedules] : initSchedules(s, A, f)
          \/ rest
      BY <1>7 DEF FeeCall, queueRange, cancelRange, queueSchedule, cancelSchedule, queueBps, cancelBps
    <2> QED
      BY <1>2, <1>3, <2>1
  <1>8. CASE Activation
    BY <1>4, <1>5, <1>6, <1>8 DEF Activation
  <1> QED
    BY <1>1, <1>7, <1>8 DEF PolicyNext

\* Every change of a range, a schedule or a percentage in force comes CHANGE_DELAY after
\* its latest announcement, or later.
THEOREM ChangesWait == PolicySpec => ChangesAreAnnounced
  <1>1. PolicyInv /\ [PolicyNext]_policyVars =>
          [/\ bps' # bps => now >= told.bps + CHANGE_DELAY
           /\ \A a \in Asset :
                /\ rules[a].ranged /\ rules'[a] # rules[a] => now >= told.range[a] + CHANGE_DELAY
                /\ schedules[a].set /\ schedules'[a] # schedules[a] =>
                     now >= told.schedule[a] + CHANGE_DELAY]_policyVars
    BY ChangeWaits
  <1> QED
    BY <1>1, PolicyInvariance, PTL DEF PolicySpec, ChangesAreAnnounced

\* The lever of the policy is the lever alone: no fee rule moves it, so what is proved of
\* LeverSpec holds of the policy.
THEOREM PolicyKeepsLever == PolicySpec => LeverSpec
  <1>1. PolicyInit => LeverInit
    BY DEF PolicyInit
  <1>2. [PolicyNext]_policyVars => [LeverNext]_leverVars
    BY DEF PolicyNext, policyVars
  <1> QED
    BY <1>1, <1>2, PTL DEF PolicySpec, LeverSpec
=============================================================================
