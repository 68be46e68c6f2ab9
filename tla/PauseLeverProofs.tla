-------------------------- MODULE PauseLeverProofs --------------------------
(***************************************************************************)
(* Proofs about the containment lever, for every length of a pause, of its *)
(* extension, of the delay and of the cooldown, and every set of accounts. *)
(***************************************************************************)
EXTENDS PauseLever, FiniteSetTheorems, TLAPS

(* The inductive invariant.                                                *)

\* shut holds past instants only, and began is not in the future.
Clock ==
    /\ \A t \in shut : t < now
    /\ began <= now

\* While a pause runs, shut covers it from its beginning, and what was shut
\* before it ended a cooldown earlier.  Otherwise everything shut precedes until.
Runs ==
    /\ paused => /\ \A t \in began .. (now - 1) : t \in shut
                 /\ \A x \in shut : x < began => x + 1 + PAUSE_COOLDOWN <= began
    /\ ~paused => \A x \in shut : x < pause.until

\* A pause ends within PAUSE_DURATION of its beginning until its one extension
\* has taken effect, and within EXTENSION more after.
Bounded ==
    /\ pause.until <= began + PAUSE_DURATION + EXTENSION
    /\ ~pause.extended \/ pause.extensionEta # 0 => pause.until <= began + PAUSE_DURATION

\* From any shut instant, either the pool was shut until now or a first open
\* instant follows it.
FirstOpen ==
    \A t \in shut :
        \/ \A v \in t .. (now - 1) : v \in shut
        \/ \E u \in (t + 1) .. (now - 1) : u \notin shut /\ \A v \in t .. (u - 1) : v \in shut

\* The flag the guardian's unpausePool is refused by tells what the owners did, and
\* only they announce.
Hold ==
    /\ pause.ownerHeld <=> ownersHold
    /\ pause.extensionEta # 0 => ownersHold

LeverInv ==
    /\ LeverTypeOK
    /\ Hold
    /\ Clock
    /\ Runs
    /\ Bounded
    /\ FirstOpen
    /\ ShutIsBounded
    /\ ExitWindow

\* Calls that neither move the clock nor touch the pause keep the invariant.
LEMMA AdminKeepsInv ==
    ASSUME LeverInv, UNCHANGED <<now, shut, pauseVars>>,
           owner' \in Address, pendingOwner' \in Address, guardian' \in Address, caller' \in Address
    PROVE  LeverInv'
  BY DEF LeverInv, LeverTypeOK, Hold, Clock, Runs, Bounded, FirstOpen, ShutIsBounded, ExitWindow, paused, pauseVars

\* The lever's calls keep the invariant when what they write to the pause
\* keeps its four parts about the pause.
LEMMA CallKeepsInv ==
    ASSUME LeverInv, UNCHANGED <<now, shut, adminVars>>, caller' \in Address,
           pause' \in Pause, began' \in Nat, began' <= now, ownersHold' \in BOOLEAN,
           Hold', Runs', Bounded'
    PROVE  LeverInv'
  BY DEF LeverInv, LeverTypeOK, Clock, FirstOpen, ShutIsBounded, ExitWindow, adminVars

LEMMA LeverInitInv == LeverInit => LeverInv
  <1> SUFFICES ASSUME LeverInit PROVE LeverInv
    OBVIOUS
  <1>1. LeverTypeOK
    BY DEF LeverInit, LeverTypeOK, Pause, Address
  <1>2. Hold
    BY DEF LeverInit, Hold
  <1>3. Clock /\ Runs /\ Bounded /\ FirstOpen /\ ShutIsBounded /\ ExitWindow
    BY LeverAssumption DEF LeverInit, Clock, Runs, Bounded, FirstOpen, ShutIsBounded, ExitWindow, paused
  <1> QED
    BY <1>1, <1>2, <1>3 DEF LeverInv

LEMMA PauseKeepsInv ==
    ASSUME LeverInv, NEW s \in Account, pausePool(s)
    PROVE  LeverInv'
  <1>1. pause' \in Pause /\ began' \in Nat /\ began' <= now /\ caller' \in Address
    BY LeverAssumption DEF LeverInv, LeverTypeOK, pausePool, beginPause, Pause, Address
  <1>2. Runs'
    BY LeverAssumption DEF LeverInv, LeverTypeOK, Clock, Runs, pausePool, coolingDown, beginPause, paused, Pause, clockVars
  <1>3. Bounded'
    BY LeverAssumption DEF LeverInv, LeverTypeOK, Bounded, pausePool, beginPause, Pause
  <1>4. UNCHANGED <<now, shut, adminVars>>
    BY DEF pausePool, clockVars
  <1>5. ownersHold' \in BOOLEAN /\ Hold'
    BY DEF LeverInv, LeverTypeOK, Hold, pausePool, beginPause, Pause
  <1> QED
    BY <1>1, <1>2, <1>3, <1>4, <1>5, CallKeepsInv

LEMMA UnpauseKeepsInv ==
    ASSUME LeverInv, NEW s \in Account, unpausePool(s)
    PROVE  LeverInv'
  <1>1. pause' \in Pause /\ began' \in Nat /\ began' <= now /\ caller' \in Address
    BY DEF LeverInv, LeverTypeOK, Clock, unpausePool, endPause, Pause, Address
  <1>2. Runs'
    BY DEF LeverInv, LeverTypeOK, Clock, Runs, unpausePool, endPause, paused, Pause, clockVars
  <1>3. Bounded'
    BY LeverAssumption DEF LeverInv, LeverTypeOK, Bounded, unpausePool, endPause, paused, Pause
  <1>4. UNCHANGED <<now, shut, adminVars>>
    BY DEF unpausePool, clockVars
  <1>5. ownersHold' \in BOOLEAN /\ Hold'
    BY DEF LeverInv, LeverTypeOK, Hold, unpausePool, endPause, Pause
  <1> QED
    BY <1>1, <1>2, <1>3, <1>4, <1>5, CallKeepsInv

LEMMA QueueKeepsInv ==
    ASSUME LeverInv, NEW s \in Account, queueExtension(s)
    PROVE  LeverInv'
  <1>1. pause' \in Pause /\ began' \in Nat /\ began' <= now /\ caller' \in Address
    <2>1. pause' = [until |-> pause.until, extensionEta |-> now + EXTEND_DELAY,
                    extended |-> TRUE, ownerHeld |-> TRUE]
      BY DEF queueExtension, announcedPause
    <2>2. pause.until \in Nat /\ now + EXTEND_DELAY \in Nat
      BY LeverAssumption DEF LeverInv, LeverTypeOK, Pause
    <2> QED
      BY <2>1, <2>2 DEF LeverInv, LeverTypeOK, Clock, queueExtension, Pause, Address
  <1>2. Runs'
    BY DEF LeverInv, LeverTypeOK, Runs, queueExtension, announcedPause, paused, Pause, clockVars
  <1>3. Bounded'
    BY LeverAssumption DEF LeverInv, LeverTypeOK, Bounded, queueExtension, announcedPause, Pause
  <1>4. UNCHANGED <<now, shut, adminVars>>
    BY DEF queueExtension, clockVars
  <1>5. ownersHold' \in BOOLEAN /\ Hold'
    BY DEF LeverInv, LeverTypeOK, Hold, queueExtension, announcedPause, Pause
  <1> QED
    BY <1>1, <1>2, <1>3, <1>4, <1>5, CallKeepsInv

LEMMA ExtendKeepsInv ==
    ASSUME LeverInv, NEW s \in Account, extendPause(s)
    PROVE  LeverInv'
  <1>1. pause' \in Pause /\ began' \in Nat /\ began' <= now /\ caller' \in Address
    BY LeverAssumption DEF LeverInv, LeverTypeOK, Clock, extendPause, longerPause, Pause, Address
  <1>2. Runs'
    BY LeverAssumption DEF LeverInv, LeverTypeOK, Runs, extendPause, extensionReady, longerPause, paused, Pause, clockVars
  <1>3. Bounded'
    BY LeverAssumption DEF LeverInv, LeverTypeOK, Bounded, extendPause, extensionReady, longerPause, Pause
  <1>4. UNCHANGED <<now, shut, adminVars>>
    BY DEF extendPause, clockVars
  <1>5. ownersHold' \in BOOLEAN /\ Hold'
    <2>1. ownersHold
      BY DEF LeverInv, Hold, extendPause, extensionReady
    <2> QED
      BY <2>1 DEF Hold, extendPause, longerPause
  <1> QED
    BY <1>1, <1>2, <1>3, <1>4, <1>5, CallKeepsInv

LEMMA TickKeepsInv ==
    ASSUME LeverInv, Tick
    PROVE  LeverInv'
  <1> USE LeverAssumption DEF LeverInv, LeverTypeOK, Tick, adminVars, pauseVars
  <1>1. LeverTypeOK'
    BY DEF Address
  <1>8. Hold'
    BY DEF Hold
  <1>2. Clock'
    BY DEF Clock
  <1>3. Runs'
    BY DEF Clock, Runs, paused, Pause
  <1>4. Bounded'
    BY DEF Bounded
  <1>5. FirstOpen'
    <2> SUFFICES ASSUME NEW t \in shut'
                 PROVE  \/ \A v \in t .. (now' - 1) : v \in shut'
                        \/ \E u \in (t + 1) .. (now' - 1) :
                              u \notin shut' /\ \A v \in t .. (u - 1) : v \in shut'
      BY DEF FirstOpen
    <2>1. CASE t = now
      BY <2>1
    <2>2. CASE t \in shut /\ \A v \in t .. (now - 1) : v \in shut
      <3>1. CASE paused
        BY <2>2, <3>1
      <3>2. CASE ~paused
        <4>1. now \in (t + 1) .. (now' - 1) /\ now \notin shut'
          BY <2>2, <3>2 DEF Clock
        <4> QED
          BY <2>2, <3>2, <4>1
      <3> QED
        BY <3>1, <3>2
    <2>3. CASE t \in shut /\ \E u \in (t + 1) .. (now - 1) :
                  u \notin shut /\ \A v \in t .. (u - 1) : v \in shut
      BY <2>3 DEF Clock
    <2> QED
      BY <2>1, <2>2, <2>3 DEF FirstOpen
  <1>6. ShutIsBounded'
    <2> SUFFICES ASSUME NEW t \in shut',
                        (t .. (t + PAUSE_DURATION + EXTENSION)) \subseteq shut'
                 PROVE  FALSE
      BY DEF ShutIsBounded
    <2>1. t \in Nat /\ t + PAUSE_DURATION + EXTENSION \in shut'
      OBVIOUS
    <2>2. t + PAUSE_DURATION + EXTENSION <= now
      BY <2>1 DEF Clock
    <2>3. CASE t + PAUSE_DURATION + EXTENSION < now
      <3>1. (t .. (t + PAUSE_DURATION + EXTENSION)) \subseteq shut /\ t \in shut
        BY <2>1, <2>3
      <3> QED
        BY <3>1 DEF ShutIsBounded
    <2>4. CASE t + PAUSE_DURATION + EXTENSION = now
      <3>1. paused
        BY <2>1, <2>4 DEF Clock
      <3>2. \A v \in t .. (now - 1) : v \in shut
        BY <2>1, <2>4
      <3>3. began <= t
        <4> SUFFICES ASSUME t < began PROVE FALSE
          BY <2>1
        <4>1. began - 1 \in t .. (now - 1) /\ began - 1 < began
          BY <2>1 DEF Clock
        <4> QED
          BY <4>1, <3>1, <3>2 DEF Runs
      <3> QED
        BY <2>1, <2>4, <3>1, <3>3 DEF Bounded, paused, Pause
    <2> QED
      BY <2>1, <2>2, <2>3, <2>4
  <1>7. ExitWindow'
    <2> SUFFICES ASSUME NEW x \in shut', NEW y \in shut', x < y, x + 1 \notin shut'
                 PROVE  y >= x + 1 + PAUSE_COOLDOWN
      BY DEF ExitWindow
    <2>1. x \in shut
      BY DEF Clock
    <2>2. CASE y \in shut
      BY <2>1, <2>2 DEF ExitWindow
    <2>3. CASE y \notin shut
      <3>1. y = now /\ paused
        BY <2>3
      <3>2. x < began
        BY <2>1, <3>1 DEF Runs
      <3> QED
        BY <2>1, <3>1, <3>2 DEF Runs, Clock
    <2> QED
      BY <2>2, <2>3
  <1> QED
    BY <1>1, <1>2, <1>3, <1>4, <1>5, <1>6, <1>7, <1>8

LEMMA LeverStep == LeverInv /\ [LeverNext]_leverVars => LeverInv'
  <1> SUFFICES ASSUME LeverInv, [LeverNext]_leverVars PROVE LeverInv'
    OBVIOUS
  <1>1. ASSUME NEW s \in Account, NEW g \in Address, setGuardian(s, g) PROVE LeverInv'
    BY <1>1, AdminKeepsInv DEF setGuardian, clockVars, pauseVars, LeverInv, LeverTypeOK, Address
  <1>2. ASSUME NEW s \in Account, pausePool(s) PROVE LeverInv'
    BY <1>2, PauseKeepsInv
  <1>3. ASSUME NEW s \in Account, unpausePool(s) PROVE LeverInv'
    BY <1>3, UnpauseKeepsInv
  <1>4. ASSUME NEW s \in Account, queueExtension(s) PROVE LeverInv'
    BY <1>4, QueueKeepsInv
  <1>5. ASSUME NEW s \in Account, extendPause(s) PROVE LeverInv'
    BY <1>5, ExtendKeepsInv
  <1>6. ASSUME NEW s \in Account, NEW to \in Address, transferOwnership(s, to) PROVE LeverInv'
    BY <1>6, AdminKeepsInv DEF transferOwnership, clockVars, pauseVars, LeverInv, LeverTypeOK, Address
  <1>7. ASSUME NEW s \in Account, acceptOwnership(s) PROVE LeverInv'
    BY <1>7, AdminKeepsInv DEF acceptOwnership, clockVars, pauseVars, LeverInv, LeverTypeOK, Address
  <1>8. ASSUME NEW s \in Account, renounceOwnership(s) PROVE LeverInv'
    BY <1>8, AdminKeepsInv DEF renounceOwnership, clockVars, pauseVars, LeverInv, LeverTypeOK, Address
  <1>9. CASE Tick
    BY <1>9, TickKeepsInv
  <1>10. CASE UNCHANGED leverVars
    BY <1>10, AdminKeepsInv DEF leverVars, pauseVars, LeverInv, LeverTypeOK
  <1> QED
    BY <1>1, <1>2, <1>3, <1>4, <1>5, <1>6, <1>7, <1>8, <1>9, <1>10 DEF LeverNext, LeverCall

THEOREM LeverInvariance == LeverSpec => []LeverInv
  BY LeverInitInv, LeverStep, PTL DEF LeverSpec

\* Every variable keeps its type.
THEOREM LeverTypeCorrect == LeverSpec => []LeverTypeOK
  BY LeverInvariance, PTL DEF LeverInv

\* No run of pauses and extensions shuts the pool for longer than one pause with
\* its extension.
THEOREM LeverShutIsBounded == LeverSpec => []ShutIsBounded
  BY LeverInvariance, PTL DEF LeverInv

\* Whenever the pool opens it stays open for the cooldown.
THEOREM LeverExitWindow == LeverSpec => []ExitWindow
  BY LeverInvariance, PTL DEF LeverInv

\* Ending early a pause that an owner began or announced an extension of takes the
\* owner of that moment.  The guardian is kept out by the flag, so the proof rests on
\* the flag telling what the owners did.
THEOREM LeverOwnerHeld == LeverSpec => OwnerHeldPauseStays
  <1>1. LeverInv /\ [LeverNext]_leverVars =>
          [paused /\ ownersHold /\ pause'.until < pause.until => caller' = owner]_leverVars
    <2> SUFFICES ASSUME LeverInv, LeverNext, paused, ownersHold, pause'.until < pause.until
                 PROVE  caller' = owner
      OBVIOUS
    <2>1. pause.until \in Nat
      BY DEF LeverInv, LeverTypeOK, Pause
    <2>2. pause' # pause
      BY <2>1
    <2>3. PICK s \in Account : unpausePool(s) \/ pausePool(s) \/ queueExtension(s) \/ extendPause(s)
      BY <2>2 DEF LeverNext, LeverCall, Tick, pauseVars, setGuardian, transferOwnership, acceptOwnership, renounceOwnership
    <2>4. CASE unpausePool(s)
      BY <2>4 DEF unpausePool, mayEnd, LeverInv, Hold
    <2>5. CASE pausePool(s)
      BY <2>5 DEF pausePool
    <2>6. CASE queueExtension(s)
      BY <2>1, <2>6 DEF queueExtension, announcedPause
    <2>7. CASE extendPause(s)
      BY <2>7, <2>1, LeverAssumption DEF extendPause, longerPause
    <2> QED
      BY <2>3, <2>4, <2>5, <2>6, <2>7
  <1> QED
    BY <1>1, LeverInvariance, PTL DEF LeverSpec, OwnerHeldPauseStays

\* An open pool is shut only by a fresh pausePool: no announced extension revives
\* a pause that lapsed.
THEOREM LeverLapsed == LeverSpec => LapsedIsNotRevived
  <1>1. LeverInv /\ [LeverNext]_leverVars =>
          [~paused /\ now' < pause'.until => began' = now /\ ~pause'.extended]_leverVars
    <2> SUFFICES ASSUME LeverInv, LeverNext, ~paused, now' < pause'.until
                 PROVE  began' = now /\ ~pause'.extended
      OBVIOUS
    <2>1. pause.until \in Nat /\ now \in Nat
      BY DEF LeverInv, LeverTypeOK, Pause
    <2>2. ~UNCHANGED <<now, pause>>
      BY <2>1 DEF paused
    <2>3. CASE Tick
      BY <2>1, <2>3 DEF Tick, pauseVars, paused
    <2>4. CASE LeverCall
      <3>1. PICK s \in Account : pausePool(s) \/ unpausePool(s) \/ queueExtension(s) \/ extendPause(s)
        BY <2>2, <2>4 DEF LeverCall, clockVars, pauseVars, setGuardian, transferOwnership, acceptOwnership, renounceOwnership
      <3>2. pausePool(s)
        BY <3>1 DEF unpausePool, queueExtension, extendPause, extensionReady
      <3> QED
        BY <3>2 DEF pausePool, beginPause
    <2> QED
      BY <2>3, <2>4 DEF LeverNext
  <1> QED
    BY <1>1, LeverInvariance, PTL DEF LeverSpec, LapsedIsNotRevived

\* A set within two intervals has no more elements than they have together.
LEMMA TwoIntervals ==
    ASSUME NEW S, NEW n \in Int, NEW a \in Int, NEW b \in Int, NEW c \in Int, NEW d \in Int,
           S \subseteq (a .. b) \cup (c .. d),
           b - a + 1 >= 0, d - c + 1 >= 0, (b - a + 1) + (d - c + 1) <= n
    PROVE  Cardinality(S) <= n
  <1>1. /\ IsFiniteSet(a .. b) /\ Cardinality(a .. b) = IF a > b THEN 0 ELSE b - a + 1
        /\ IsFiniteSet(c .. d) /\ Cardinality(c .. d) = IF c > d THEN 0 ELSE d - c + 1
    BY FS_Interval
  <1>2. /\ IsFiniteSet((a .. b) \cup (c .. d))
        /\ Cardinality((a .. b) \cup (c .. d)) =
             Cardinality(a .. b) + Cardinality(c .. d) - Cardinality((a .. b) \cap (c .. d))
    BY <1>1, FS_Union
  <1>3. Cardinality((a .. b) \cap (c .. d)) \in Nat
    BY <1>1, FS_Intersection, FS_CardinalityType
  <1>4. /\ Cardinality(S) \in Nat
        /\ Cardinality(S) <= Cardinality((a .. b) \cup (c .. d))
    BY <1>2, FS_Subset, FS_CardinalityType
  <1> QED
    BY <1>1, <1>2, <1>3, <1>4

\* In any stretch of a pause with its extension and a cooldown, the pool is shut
\* at no more instants than a pause with its extension has: it runs for at least
\* the cooldown.
THEOREM LeverRunsInAnyWindow == LeverSpec => []RunsInAnyWindow
  <1>1. LeverInv => RunsInAnyWindow
    <2> DEFINE D == PAUSE_DURATION + EXTENSION
    <2> DEFINE last == D + PAUSE_COOLDOWN - 1
    <2> SUFFICES ASSUME LeverInv, NEW t \in shut
                 PROVE  Cardinality(shut \cap (t .. t + last)) <= D
      BY LeverAssumption DEF RunsInAnyWindow, LeverInv, LeverTypeOK
    <2> DEFINE S == shut \cap (t .. t + last)
    <2>1. /\ t \in Nat /\ D \in Nat /\ last \in Nat /\ now \in Nat /\ PAUSE_COOLDOWN \in Nat \ {0}
          /\ \A x \in shut : x \in Nat /\ x < now
      BY LeverAssumption DEF LeverInv, LeverTypeOK, Clock
    <2>2. CASE \A v \in t .. (now - 1) : v \in shut
      <3>1. now - t <= D
        <4> SUFFICES ASSUME D < now - t PROVE FALSE
          BY <2>1
        <4>1. (t .. (t + PAUSE_DURATION + EXTENSION)) \subseteq shut
          BY <2>1, <2>2, LeverAssumption
        <4> QED
          BY <4>1 DEF LeverInv, ShutIsBounded
      <3>2. S \subseteq (t .. (now - 1)) \cup (now .. (now - 1))
        BY <2>1
      <3>3. /\ D \in Int /\ t \in Int /\ now - 1 \in Int /\ now \in Int
            /\ (now - 1) - t + 1 >= 0 /\ (now - 1) - now + 1 >= 0
            /\ ((now - 1) - t + 1) + ((now - 1) - now + 1) <= D
        BY <2>1, <3>1
      <3>4. Cardinality(S) <= D
        <4> HIDE DEF S, D
        <4> QED
          BY <3>2, <3>3, TwoIntervals, Zenon
      <3> QED
        BY <3>4
    <2>3. CASE \E u \in (t + 1) .. (now - 1) : u \notin shut /\ \A v \in t .. (u - 1) : v \in shut
      <3>1. PICK u \in (t + 1) .. (now - 1) : u \notin shut /\ \A v \in t .. (u - 1) : v \in shut
        BY <2>3
      <3>2. u - t <= D
        <4> SUFFICES ASSUME D < u - t PROVE FALSE
          BY <2>1
        <4>1. (t .. (t + PAUSE_DURATION + EXTENSION)) \subseteq shut
          BY <2>1, <3>1, LeverAssumption
        <4> QED
          BY <4>1 DEF LeverInv, ShutIsBounded
      <3>3. ASSUME NEW y \in shut, u <= y
            PROVE  y >= u + PAUSE_COOLDOWN
        <4>1. u - 1 \in shut /\ (u - 1) + 1 \notin shut /\ u - 1 < y
          BY <2>1, <3>1, <3>3
        <4> QED
          BY <2>1, <4>1 DEF LeverInv, ExitWindow
      <3>4. S \subseteq (t .. (u - 1)) \cup ((u + PAUSE_COOLDOWN) .. (t + last))
        BY <2>1, <3>1, <3>3
      <3>5. /\ D \in Int /\ t \in Int /\ u - 1 \in Int /\ u + PAUSE_COOLDOWN \in Int /\ t + last \in Int
            /\ (u - 1) - t + 1 >= 0 /\ (t + last) - (u + PAUSE_COOLDOWN) + 1 >= 0
            /\ ((u - 1) - t + 1) + ((t + last) - (u + PAUSE_COOLDOWN) + 1) <= D
        BY <2>1, <3>1, <3>2
      <3>6. Cardinality(S) <= D
        <4> HIDE DEF S, D, last
        <4> QED
          BY <3>4, <3>5, TwoIntervals, Zenon
      <3> QED
        BY <3>6
    <2> QED
      BY <2>2, <2>3 DEF LeverInv, FirstOpen
  <1> QED
    BY <1>1, LeverInvariance, PTL
=============================================================================
