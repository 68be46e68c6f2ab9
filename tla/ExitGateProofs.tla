--------------------------- MODULE ExitGateProofs ---------------------------
(***************************************************************************)
(* Proofs about the settler gate, for every window, epoch, open slot and   *)
(* delay that GateAssumption allows, and every set of settlers; and about  *)
(* the lever and the gate together, for every length of a pause, its       *)
(* extension, the cooldown, the epoch and the slot for which a pause at its *)
(* longest is a whole number of epochs and the cooldown holds an epoch.     *)
(***************************************************************************)
EXTENDS ExitGate, TLAPS

(* Arithmetic of the epoch.                                                *)

\* Euclid's division by a positive number.
LEMMA Division ==
    ASSUME NEW n \in Nat, NEW e \in Nat \ {0}
    PROVE  /\ (n % e) \in 0 .. e - 1
           /\ n \div e \in Int
           /\ n = e * (n \div e) + (n % e)
  OBVIOUS

\* The remainder is unique.
LEMMA Remainder ==
    ASSUME NEW n \in Nat, NEW e \in Nat \ {0}, NEW q \in Int, NEW r \in 0 .. e - 1,
           n = e * q + r
    PROVE  n % e = r
  <1>1. n = e * (n \div e) + (n % e) /\ n \div e \in Int /\ (n % e) \in 0 .. e - 1
    BY Division
  <1>2. e * (q - (n \div e)) = (n % e) - r
    BY <1>1
  <1>3. CASE q - (n \div e) >= 1
    <2>1. e * (q - (n \div e)) >= e
      BY <1>1, <1>3
    <2> QED
      BY <1>1, <1>2, <2>1
  <1>4. CASE q - (n \div e) <= -1
    <2>1. e * (q - (n \div e)) <= -e
      BY <1>1, <1>4
    <2> QED
      BY <1>1, <1>2, <2>1
  <1>5. CASE q = n \div e
    BY <1>1, <1>5
  <1> QED
    BY <1>1, <1>3, <1>4, <1>5

\* The position in the epoch moves on by one and starts again at the end.
LEMMA NextPosition ==
    ASSUME NEW n \in Nat, NEW e \in Nat \ {0}
    PROVE  /\ (n % e) \in 0 .. e - 1
           /\ n % e = e - 1 => (n + 1) % e = 0
           /\ n % e # e - 1 => (n + 1) % e = (n % e) + 1
  <1>1. n = e * (n \div e) + (n % e) /\ n \div e \in Int /\ (n % e) \in 0 .. e - 1
    BY Division
  <1>2. n + 1 \in Nat /\ (n \div e) + 1 \in Int /\ 0 \in 0 .. e - 1
    BY <1>1
  <1>3. ASSUME n % e = e - 1
        PROVE  (n + 1) % e = 0
    <2>1. n + 1 = e * ((n \div e) + 1) + 0
      BY <1>1, <1>3
    <2> QED
      BY <1>2, <2>1, Remainder, Zenon
  <1>4. ASSUME n % e # e - 1
        PROVE  (n + 1) % e = (n % e) + 1
    <2>1. n + 1 = e * (n \div e) + ((n % e) + 1)
      BY <1>1
    <2>2. (n % e) + 1 \in 0 .. e - 1
      BY <1>1, <1>4
    <2> QED
      BY <1>1, <1>2, <2>1, <2>2, Remainder, Zenon
  <1> QED
    BY <1>1, <1>3, <1>4

-----------------------------------------------------------------------------
(* The inductive invariant.                                                *)

position == now % EPOCH

\* The instants that kept Public out are the last ones of this epoch's shut
\* stretch: they began after the previous epoch's open slot.
SinceSlot ==
    IF position <= EPOCH - SLOT THEN refused <= position ELSE refused = 0

\* While a proposal is pending, either there was an open instant since, or every
\* instant since the proposal kept Public out.
SinceProposal ==
    pendingSettlerEta # 0 =>
        /\ pendingSettlerEta - SETTLER_DELAY \in 0 .. now
        /\ seenOpen \/ refused >= now - (pendingSettlerEta - SETTLER_DELAY)

GateInv ==
    /\ GateTypeOK
    /\ stopped = FALSE
    /\ SinceSlot
    /\ SinceProposal

LEMMA InvBounds == GateInv => BoundedExclusion
  <1> SUFFICES ASSUME GateInv
               PROVE  refused <= EPOCH - SLOT
    BY DEF BoundedExclusion
  <1>1. position \in 0 .. EPOCH - 1
    BY GateAssumption, NextPosition DEF GateInv, GateTypeOK, position
  <1> QED
    BY <1>1, GateAssumption DEF GateInv, GateTypeOK, SinceSlot

LEMMA GateInitInv == Deployed => GateInv
  <1> SUFFICES ASSUME Deployed
               PROVE  GateInv
    OBVIOUS
  <1>1. now \in Nat
    BY GateAssumption DEF Deployed
  <1>2. position \in 0 .. EPOCH - 1
    BY <1>1, GateAssumption, NextPosition DEF position
  <1>3. /\ refused = 0 /\ pendingSettlerEta = 0 /\ seenOpen = FALSE /\ stopped = FALSE
        /\ settler = Nobody /\ pendingSettler = Nobody /\ lastSettlement = now
    BY DEF Deployed, GateInit
  <1>4. GateTypeOK
    BY <1>1, <1>3 DEF GateTypeOK
  <1>5. SinceSlot
    BY <1>2, <1>3 DEF SinceSlot
  <1> QED
    BY <1>3, <1>4, <1>5 DEF GateInv, SinceProposal

\* What a moment adds to what was seen.
LEMMA SeesMore ==
    ASSUME GateTypeOK, Sees
    PROVE  seenOpen' \in BOOLEAN /\ (seenOpen \/ openToPublic => seenOpen')
  <1>1. (seenOpen \/ openToPublic) \in BOOLEAN
    OBVIOUS
  <1> QED
    BY <1>1, Zenon DEF Sees

\* A call that leaves the proposal keeps what is known of the time since.
LEMMA SameProposal ==
    ASSUME GateInv, Sees, UNCHANGED <<now, refused, pendingSettlerEta>>
    PROVE  SinceProposal'
  <1>1. seenOpen => seenOpen'
    BY SeesMore DEF GateInv
  <1> QED
    BY <1>1 DEF GateInv, SinceProposal

\* The calls move neither the clock nor the count of refused instants.
LEMMA CallKeepsInv ==
    ASSUME GateInv, GateCall, UNCHANGED <<now, stopped>>
    PROVE  GateInv'
  <1> USE GateAssumption DEF GateInv, GateTypeOK, SinceSlot, SinceProposal, changeVars
  <1>0. position' = position
    BY DEF position
  <1>1. ASSUME NEW c \in Settler \cup {Public}, settleBatch(c)
        PROVE  GateInv'
    <2>1. SinceProposal'
      BY <1>1, SameProposal, Zenon DEF settleBatch, changeVars
    <2>2. seenOpen' \in BOOLEAN
      BY <1>1, SeesMore, Zenon DEF settleBatch
    <2> HIDE DEF SinceProposal
    <2> QED
      BY <1>0, <1>1, <2>1, <2>2 DEF settleBatch
  <1>2. ASSUME NEW x \in Settler \cup {Nobody}, proposeSettler(x)
        PROVE  GateInv'
    <2>1. GateTypeOK'
      <3>1. pendingSettlerEta' \in Nat
        BY <1>2 DEF proposeSettler, newEta
      <3>2. settler' \in Settler \cup {Nobody} /\ pendingSettler' \in Settler \cup {Nobody}
        BY <1>2 DEF proposeSettler
      <3>3. seenOpen' \in BOOLEAN /\ stopped' \in BOOLEAN
        BY <1>2, Zenon DEF proposeSettler
      <3> QED
        BY <1>2, <3>1, <3>2, <3>3 DEF proposeSettler
    <2>2. SinceSlot'
      BY <1>0, <1>2 DEF proposeSettler
    <2>3. pendingSettlerEta' - SETTLER_DELAY = now' /\ refused' >= 0
      BY <1>2 DEF proposeSettler, newEta
    <2>4. SinceProposal'
      <3>1. refused' >= now' - (pendingSettlerEta' - SETTLER_DELAY)
        BY <1>2, <2>3
      <3> QED
        BY <2>3, <3>1
    <2>5. stopped' = FALSE
      BY Zenon
    <2> QED
      BY <2>1, <2>2, <2>4, <2>5, Zenon
  <1>3. CASE cancelSettlerChange
    <2>1. seenOpen' \in BOOLEAN
      BY <1>3, SeesMore, Zenon DEF cancelSettlerChange
    <2> QED
      BY <1>0, <1>3, <2>1 DEF cancelSettlerChange, etaAfterCancel
  <1>4. CASE executeSettlerChange
    <2>1. seenOpen' \in BOOLEAN
      BY <1>4, SeesMore, Zenon DEF executeSettlerChange
    <2> QED
      BY <1>0, <1>4, <2>1 DEF executeSettlerChange
  <1> QED
    BY <1>1, <1>2, <1>3, <1>4 DEF GateCall

LEMMA TickKeepsInv ==
    ASSUME GateInv, Tick, UNCHANGED stopped
    PROVE  GateInv'
  <1>1. now' = now + 1 /\ now \in Nat /\ now' \in Nat
    BY DEF Tick, GateInv, GateTypeOK
  <1>2. GateTypeOK'
    <2>1. seenOpen' \in BOOLEAN
      BY SeesMore, Zenon DEF Tick, Record, GateInv
    <2> QED
      BY <1>1, <2>1 DEF Tick, Record, GateInv, GateTypeOK, changeVars
  <1>3. SinceSlot'
    <2>1. /\ position \in 0 .. EPOCH - 1
          /\ position = EPOCH - 1 => position' = 0
          /\ position # EPOCH - 1 => position' = position + 1
      BY <1>1, GateAssumption, NextPosition DEF position
    <2>2. CASE position >= EPOCH - SLOT
      <3>1. refused' = 0
        BY <2>2 DEF Tick, Record, openToPublic, maySettle, inOpenSlot, GateInv, position
      <3> QED
        BY <2>1, <3>1, GateAssumption DEF SinceSlot
    <2>3. CASE position < EPOCH - SLOT
      <3>1. position' = position + 1
        BY <2>1, <2>3, GateAssumption
      <3>2. refused' <= refused + 1 /\ refused <= position
        BY <2>1, <2>3, GateAssumption DEF Tick, Record, GateInv, GateTypeOK, SinceSlot
      <3> QED
        BY <1>2, <2>1, <2>3, <3>1, <3>2, GateAssumption DEF SinceSlot, GateInv, GateTypeOK
    <2> QED
      BY <2>1, <2>2, <2>3, GateAssumption
  <1>4. SinceProposal'
    <2> SUFFICES ASSUME pendingSettlerEta' # 0
                 PROVE  /\ pendingSettlerEta' - SETTLER_DELAY \in 0 .. now'
                        /\ seenOpen' \/ refused' >= now' - (pendingSettlerEta' - SETTLER_DELAY)
      BY DEF SinceProposal
    <2> DEFINE since == pendingSettlerEta - SETTLER_DELAY
    <2>1. since \in 0 .. now /\ (seenOpen \/ refused >= now - since) /\ refused \in Nat
      BY DEF Tick, Record, GateInv, GateTypeOK, SinceProposal, changeVars
    <2>2. pendingSettlerEta' = pendingSettlerEta
      BY DEF Tick, Record, changeVars
    <2>3. refused' = IF openToPublic THEN 0 ELSE refused + 1
      BY DEF Tick, Record
    <2>4. CASE openToPublic \/ seenOpen
      <3>1. seenOpen'
        BY <2>4, SeesMore, Zenon DEF Tick, Record, GateInv
      <3> QED
        BY <1>1, <2>1, <2>2, <3>1
    <2>5. CASE ~openToPublic /\ ~seenOpen
      <3>1. refused' = refused + 1 /\ refused >= now - since
        BY <2>1, <2>3, <2>5
      <3> QED
        BY <1>1, <2>1, <2>2, <3>1
    <2> QED
      BY <2>4, <2>5
  <1> QED
    BY <1>2, <1>3, <1>4 DEF GateInv

LEMMA GateStepInv == GateInv /\ [GateNext]_<<gateVars, now, stopped>> => GateInv'
  <1> SUFFICES ASSUME GateInv, [GateNext]_<<gateVars, now, stopped>>
               PROVE  GateInv'
    OBVIOUS
  <1>1. CASE GateCall /\ UNCHANGED <<now, stopped>>
    BY <1>1, CallKeepsInv
  <1>2. CASE Tick /\ UNCHANGED stopped
    BY <1>2, TickKeepsInv
  <1>3. CASE UNCHANGED <<gateVars, now, stopped>>
    BY <1>3 DEF gateVars, changeVars, GateInv, GateTypeOK, SinceSlot, SinceProposal, position
  <1> QED
    BY <1>1, <1>2, <1>3 DEF GateNext

THEOREM GateInvariant == GateSpec => []GateInv
  <1> QED
    BY GateInitInv, GateStepInv, PTL DEF GateSpec

-----------------------------------------------------------------------------
(* The settler gate's promises.                                            *)

\* The state of the gate stays well formed (SettlerGate.sol and its state in
\* ShieldedPool.sol).
THEOREM GateTyped == GateSpec => []GateTypeOK
  <1>1. GateInv => GateTypeOK
    BY DEF GateInv
  <1> QED
    BY <1>1, GateInvariant, PTL

\* However settlers settle and follow one another, nobody is kept out of
\* settlement for a whole epoch (SettlerGate.sol:7).
THEOREM GateExcludesForLessThanAnEpoch == GateSpec => []BoundedExclusion
  <1> QED
    BY InvBounds, GateInvariant, PTL

\* A settler change lands only after a moment at which everyone could settle
\* since it was announced (ShieldedPool.sol:89).
THEOREM SettlerChangesLandAfterOpening == GateSpec => ChangeLandsAfterOpening
  <1>1. GateInv /\ [GateNext]_<<gateVars, now, stopped>>
          => [settler' # settler => seenOpen \/ openToPublic]_gateVars
    <2> SUFFICES ASSUME GateInv, [GateNext]_<<gateVars, now, stopped>>, settler' # settler
                 PROVE  seenOpen
      OBVIOUS
    <2>1. executeSettlerChange
      BY DEF GateNext, GateCall, settleBatch, proposeSettler, cancelSettlerChange, Tick, Record,
             gateVars, changeVars
    <2>2. pendingSettlerEta # 0 /\ now >= pendingSettlerEta
      BY <2>1 DEF executeSettlerChange
    <2>3. refused <= EPOCH - SLOT
      BY InvBounds DEF BoundedExclusion
    <2> QED
      BY <2>2, <2>3, GateAssumption DEF GateInv, GateTypeOK, SinceProposal
  <1> QED
    BY <1>1, GateInvariant, PTL DEF GateSpec, ChangeLandsAfterOpening

\* The settler implements the abstract timelock: it changes only to the last
\* proposal, once its delay has run and nobody cancelled it.
THEOREM SettlerImplementsTimelock == GateSpec => SettlerIsTimelocked
  <1> USE GateAssumption DEF Lock!LockInit, Lock!LockNext, Lock!Announce, Lock!Cancel, Lock!TakeEffect,
          Lock!lockVars
  <1>1. Deployed => Lock!LockInit
    BY DEF Deployed, GateInit
  <1>2. GateInv /\ [GateNext]_<<gateVars, now, stopped>> => [Lock!LockNext]_(Lock!lockVars)
    <2> SUFFICES ASSUME GateInv, [GateNext]_<<gateVars, now, stopped>>
                 PROVE  [Lock!LockNext]_(Lock!lockVars)
      OBVIOUS
    <2> USE DEF GateInv, GateTypeOK
    <2>1. ASSUME NEW c \in Settler \cup {Public}, settleBatch(c)
          PROVE  UNCHANGED Lock!lockVars
      BY <2>1 DEF settleBatch, changeVars
    <2>2. ASSUME NEW x \in Settler \cup {Nobody}, proposeSettler(x)
          PROVE  Lock!Announce
      BY <2>2 DEF proposeSettler, newEta
    <2>3. CASE cancelSettlerChange
      BY <2>3 DEF cancelSettlerChange, etaAfterCancel
    <2>4. CASE executeSettlerChange
      BY <2>4 DEF executeSettlerChange
    <2>5. CASE Tick
      BY <2>5 DEF Tick, Record, changeVars
    <2>6. CASE UNCHANGED <<gateVars, now, stopped>>
      BY <2>6 DEF gateVars, changeVars
    <2> QED
      BY <2>1, <2>2, <2>3, <2>4, <2>5, <2>6 DEF GateNext, GateCall
  <1> QED
    BY <1>1, <1>2, GateInvariant, PTL DEF GateSpec, SettlerIsTimelocked, Lock!LockSpec

-----------------------------------------------------------------------------
(* The lever and the gate together.                                        *)

L == INSTANCE PauseLeverProofs WITH NoOne <- Nobody

Longest == PAUSE_DURATION + EXTENSION
slot(t) == t % EPOCH >= EPOCH - SLOT

\* The inductive invariant: besides the lever's, that the policy refuses while the pause
\* runs, and that each instant of the refused stretch was shut or outside the open slot.
Stretch ==
    /\ refused \in Nat /\ refused <= now
    /\ \A t \in (now - refused) .. (now - 1) : t \in shut \/ ~slot(t)

ExitInv ==
    /\ L!LeverInv
    /\ stopped = (now < pause.until)
    /\ Stretch

\* What the lever's theorems assume of its constants holds here.
LEMMA LeverConstants == L!LeverAssumption
  BY ExitAssumption, GateAssumption DEF L!LeverAssumption

LEMMA ExitTypes ==
    ASSUME ExitInv
    PROVE  now \in Nat /\ refused \in Nat /\ shut \subseteq Nat /\ Longest \in Nat
  BY ExitAssumption DEF ExitInv, Stretch, L!LeverInv, L!LeverTypeOK, Longest

-----------------------------------------------------------------------------
(* The clock modulo the epoch.                                             *)

\* The open slot is never further away than the rest of an epoch.
LEMMA SlotIsNear ==
    ASSUME NEW n \in Nat
    PROVE  \E x \in n .. (n + EPOCH - SLOT) : slot(x)
  <1> DEFINE p == n % EPOCH
             q == n \div EPOCH
             shutPart == EPOCH - SLOT
  <1>1. EPOCH \in Nat \ {0} /\ SLOT \in 1 .. EPOCH /\ shutPart \in 0 .. EPOCH - 1
    BY GateAssumption
  <1>2. p \in 0 .. EPOCH - 1 /\ q \in Int /\ n = EPOCH * q + p
    BY <1>1, Division
  <1>3. CASE p >= shutPart
    BY <1>1, <1>3 DEF slot
  <1>4. CASE p < shutPart
    <2> DEFINE x == n + (shutPart - p)
    <2> HIDE DEF p, q, shutPart
    <2>1. x = EPOCH * q + shutPart
      <3>1. EPOCH * q \in Int
        BY <1>1, <1>2
      <3> QED
        BY <1>1, <1>2, <3>1
    <2>2. x \in Nat /\ x \in n .. (n + shutPart)
      BY <1>1, <1>2, <1>4
    <2> HIDE DEF x
    <2>3. x % EPOCH = shutPart
      BY <1>1, <1>2, <2>1, <2>2, Remainder
    <2>4. x \in n .. (n + EPOCH - SLOT) /\ x % EPOCH >= EPOCH - SLOT
      BY <1>1, <2>2, <2>3 DEF shutPart
    <2> QED
      BY <2>4 DEF slot
  <1> QED
    BY <1>1, <1>2, <1>3, <1>4

\* A pause at its longest leads from one open slot into another.
LEMMA SlotRecurs ==
    ASSUME NEW n \in Nat, slot(n)
    PROVE  slot(n + Longest)
  <1>1. EPOCH \in Nat \ {0} /\ Longest \in Nat /\ Longest % EPOCH = 0
    BY GateAssumption, ExitAssumption DEF Longest
  <1>2. PICK q \in Int, r \in 0 .. EPOCH - 1 : n = EPOCH * q + r /\ r = n % EPOCH
    BY <1>1, Division
  <1>3. PICK k \in Int : Longest = EPOCH * k
    <2>1. Longest \div EPOCH \in Int /\ Longest = EPOCH * (Longest \div EPOCH) + (Longest % EPOCH)
      BY <1>1, Division
    <2>2. Longest = EPOCH * (Longest \div EPOCH)
      <3>1. EPOCH * (Longest \div EPOCH) \in Int
        BY <1>1, <2>1
      <3> QED
        BY <1>1, <2>1, <3>1
    <2> QED
      BY <2>1, <2>2
  <1>4. n + Longest = EPOCH * (q + k) + r /\ n + Longest \in Nat /\ q + k \in Int
    BY <1>1, <1>2, <1>3
  <1>5. (n + Longest) % EPOCH = r
    <2> DEFINE m == n + Longest
               j == q + k
    <2>1. m \in Nat /\ j \in Int /\ m = EPOCH * j + r
      BY <1>4
    <2> HIDE DEF m, j
    <2>2. m % EPOCH = r
      BY <1>1, <1>2, <2>1, Remainder
    <2> QED
      BY <2>2 DEF m
  <1> QED
    BY <1>2, <1>5 DEF slot

-----------------------------------------------------------------------------
(* Why the stretch is short.  In one longer than the bound there are two    *)
(* open slots, the longest pause apart, both shut.  Either everything in    *)
(* between was shut, for longer than any pause; or the pool opened in       *)
(* between for a cooldown, hence over an open slot.                         *)
LEMMA StretchIsShort == ExitInv => ExclusionIsBounded
  <1> SUFFICES ASSUME ExitInv PROVE ExclusionIsBounded
    OBVIOUS
  <1> DEFINE s == now - refused
  <1>1. /\ now \in Nat /\ refused \in Nat /\ s \in Nat /\ shut \subseteq Nat /\ Longest \in Nat
        /\ EPOCH \in Nat \ {0} /\ SLOT \in 1 .. EPOCH
        /\ PAUSE_COOLDOWN \in Nat /\ EPOCH <= PAUSE_COOLDOWN
    BY ExitTypes, GateAssumption, ExitAssumption DEF ExitInv, Stretch
  <1>2. \A t \in s .. (now - 1) : slot(t) => t \in shut
    BY DEF ExitInv, Stretch
  <1>3. CASE shut \cap (s .. (now - 1)) = {}
    <2>1. refused <= EPOCH - SLOT
      <3> SUFFICES ASSUME ~(refused <= EPOCH - SLOT) PROVE FALSE
        OBVIOUS
      <3>1. PICK x \in s .. (s + EPOCH - SLOT) : slot(x)
        BY <1>1, SlotIsNear
      <3>2. x \in s .. (now - 1)
        BY <1>1, <3>1
      <3> QED
        BY <1>2, <1>3, <3>1, <3>2
    <2> QED
      BY <1>1, <1>3, <2>1 DEF ExclusionIsBounded
  <1>4. refused <= EPOCH - SLOT + Longest
    <2> SUFFICES ASSUME ~(refused <= EPOCH - SLOT + Longest) PROVE FALSE
      OBVIOUS
    <2>1. PICK x \in s .. (s + EPOCH - SLOT) : slot(x)
      BY <1>1, SlotIsNear
    <2> DEFINE y == x + Longest
    <2>2. x \in Nat /\ y \in Nat /\ x \in s .. (now - 1) /\ y \in s .. (now - 1) /\ slot(y)
      BY <1>1, <2>1, SlotRecurs
    <2>3. x \in shut /\ y \in shut
      BY <1>2, <2>1, <2>2
    <2>4. ~(x .. y \subseteq shut)
      <3>1. x + PAUSE_DURATION + EXTENSION = y
        BY <2>2, ExitAssumption DEF Longest
      <3>2. ~((x .. (x + PAUSE_DURATION + EXTENSION)) \subseteq shut)
        BY <2>3 DEF ExitInv, L!LeverInv, L!ShutIsBounded
      <3> QED
        BY <3>1, <3>2
    <2> HIDE DEF y, s
    <2>5. PICK u \in (x + 1) .. (now - 1) : u \notin shut /\ \A v \in x .. (u - 1) : v \in shut
      <3>1. ~(\A v \in x .. (now - 1) : v \in shut)
        BY <1>1, <2>2, <2>4
      <3> QED
        BY <2>3, <3>1 DEF ExitInv, L!LeverInv, L!FirstOpen
    <2>6. u \in Nat /\ u < y
      BY <1>1, <2>2, <2>3, <2>4, <2>5
    <2>7. u - 1 \in shut /\ (u - 1) + 1 \notin shut
      BY <2>2, <2>5, <2>6
    <2>8. \A z \in shut : u - 1 < z => z >= u + PAUSE_COOLDOWN
      <3> SUFFICES ASSUME NEW z \in shut, u - 1 < z PROVE z >= u + PAUSE_COOLDOWN
        OBVIOUS
      <3>1. z >= (u - 1) + 1 + PAUSE_COOLDOWN
        BY <2>7 DEF ExitInv, L!LeverInv, L!ExitWindow
      <3> QED
        BY <1>1, <2>6, <3>1
    <2>9. PICK z \in u .. (u + EPOCH - SLOT) : slot(z)
      BY <2>6, SlotIsNear
    <2>10. u + EPOCH <= y
      BY <1>1, <2>2, <2>3, <2>6, <2>8
    <2>11. z \in s .. (now - 1) /\ u - 1 < z /\ z < u + EPOCH
      BY <1>1, <2>2, <2>5, <2>6, <2>9, <2>10
    <2>12. z \in shut
      BY <1>2, <2>9, <2>11 DEF s
    <2> QED
      BY <1>1, <2>6, <2>8, <2>11, <2>12
  <1> QED
    BY <1>1, <1>3, <1>4 DEF ExclusionIsBounded, Longest

-----------------------------------------------------------------------------
(* The invariant.                                                          *)

LEMMA ExitInitInv == ExitInit => ExitInv
  <1> SUFFICES ASSUME ExitInit PROVE ExitInv
    OBVIOUS
  <1>1. L!LeverInit
    BY DEF ExitInit, Lever!LeverInit, L!LeverInit
  <1>2. L!LeverInv
    BY <1>1, LeverConstants, L!LeverInitInv
  <1>3. now = 1 /\ pause.until = 0 /\ stopped = FALSE /\ refused = 0
    BY DEF ExitInit, Lever!LeverInit, GateInit
  <1>4. Stretch
    <2>1. \A t \in (now - refused) .. (now - 1) : FALSE
      BY <1>3
    <2> QED
      BY <1>3, <2>1 DEF Stretch
  <1>5. (now < pause.until) = FALSE
    BY <1>3
  <1>6. stopped = (now < pause.until)
    BY <1>3, <1>5
  <1> QED
    BY <1>2, <1>4, <1>6 DEF ExitInv

\* The lever's calls here are the lever's.
LEMMA SameCall == Lever!LeverCall => L!LeverCall
  BY DEF Lever!LeverCall, L!LeverCall, Lever!setGuardian, L!setGuardian, Lever!pausePool, L!pausePool,
         Lever!unpausePool, L!unpausePool, Lever!queueExtension, L!queueExtension,
         Lever!extendPause, L!extendPause, Lever!transferOwnership, L!transferOwnership,
         Lever!acceptOwnership, L!acceptOwnership, Lever!renounceOwnership, L!renounceOwnership,
         Lever!Address, L!Address, Lever!paused, L!paused, Lever!coolingDown, L!coolingDown,
         Lever!beginPause, L!beginPause, Lever!mayEnd, L!mayEnd, Lever!endPause, L!endPause,
         Lever!extensionReady, L!extensionReady, Lever!longerPause, L!longerPause,
         Lever!clockVars, L!clockVars, Lever!adminVars, L!adminVars,
         Lever!announcedPause, L!announcedPause, Lever!pauseVars, L!pauseVars

LEMMA CallKeepsClock == L!LeverCall => now' = now /\ shut' = shut
  BY DEF L!LeverCall, L!setGuardian, L!pausePool, L!unpausePool, L!queueExtension, L!extendPause,
         L!transferOwnership, L!acceptOwnership, L!renounceOwnership, L!clockVars

LEMMA CallKeepsExitInv ==
    ASSUME ExitInv, Lever!LeverCall, Watch, Refuses
    PROVE  ExitInv'
  <1>1. L!LeverCall /\ now' = now /\ shut' = shut
    BY SameCall, CallKeepsClock
  <1>2. L!LeverInv'
    BY <1>1, LeverConstants, L!LeverStep DEF ExitInv, L!LeverNext
  <1>3. Stretch'
    BY <1>1 DEF ExitInv, Stretch, Watch
  <1> QED
    BY <1>2, <1>3 DEF ExitInv, Refuses

LEMMA SettlerKeepsExitInv ==
    ASSUME ExitInv, GateCall, UNCHANGED <<now, restOfLever>>, Refuses
    PROVE  ExitInv'
  <1>1. L!LeverInv'
    <2>1. UNCHANGED L!leverVars
      BY DEF restOfLever, L!leverVars
    <2> QED
      BY <2>1, LeverConstants, L!LeverStep DEF ExitInv
  <1>2. refused' = refused
    BY DEF GateCall, settleBatch, proposeSettler, cancelSettlerChange, executeSettlerChange
  <1>3. Stretch'
    BY <1>2 DEF ExitInv, Stretch, restOfLever
  <1> QED
    BY <1>1, <1>3 DEF ExitInv, Refuses

\* An instant at whose end the public was refused was shut, or outside the slot.
LEMMA TickKeepsExitInv ==
    ASSUME ExitInv, Lever!Tick, Record, Refuses
    PROVE  ExitInv'
  <1>1. /\ now' = now + 1 /\ pause' = pause
        /\ shut' = IF now < pause.until THEN shut \cup {now} ELSE shut
    BY DEF Lever!Tick, Lever!paused, Lever!pauseVars
  <1>2. L!LeverInv'
    <2>1. L!Tick
      BY DEF Lever!Tick, L!Tick, Lever!paused, L!paused, Lever!adminVars, L!adminVars,
             Lever!pauseVars, L!pauseVars
    <2> QED
      BY <2>1, LeverConstants, L!LeverStep DEF ExitInv, L!LeverNext
  <1>3. Stretch'
    <2>1. now \in Nat /\ refused \in Nat /\ refused <= now
      BY ExitTypes DEF ExitInv, Stretch
    <2>2. CASE openToPublic
      <3>1. refused' = 0
        BY <2>2 DEF Record
      <3> QED
        BY <1>1, <2>1, <3>1 DEF Stretch
    <2>3. CASE ~openToPublic
      <3>1. refused' = refused + 1 /\ now' - refused' = now - refused
        BY <1>1, <2>1, <2>3 DEF Record
      <3>2. now \in shut' \/ ~slot(now)
        BY <1>1, <2>3 DEF openToPublic, maySettle, inOpenSlot, slot, ExitInv
      <3>3. ASSUME NEW t \in (now' - refused') .. (now' - 1)
            PROVE  t \in shut' \/ ~slot(t)
        <4>1. t = now \/ t \in (now - refused) .. (now - 1)
          BY <1>1, <2>1, <3>1
        <4>2. t \in shut => t \in shut'
          BY <1>1
        <4> QED
          BY <3>2, <4>1, <4>2 DEF ExitInv, Stretch
      <3>4. refused' \in Nat /\ refused' <= now'
        BY <1>1, <2>1, <3>1
      <3> QED
        BY <3>3, <3>4 DEF Stretch, slot
    <2> QED
      BY <2>2, <2>3
  <1> QED
    BY <1>2, <1>3 DEF ExitInv, Refuses

LEMMA ExitStep == ExitInv /\ [ExitNext]_exitVars => ExitInv'
  <1> SUFFICES ASSUME ExitInv, [ExitNext]_exitVars PROVE ExitInv'
    OBVIOUS
  <1>1. CASE ExitNext
    BY <1>1, CallKeepsExitInv, SettlerKeepsExitInv, TickKeepsExitInv DEF ExitNext
  <1>2. CASE UNCHANGED exitVars
    <2>1. UNCHANGED L!leverVars
      BY <1>2 DEF exitVars, restOfLever, L!leverVars
    <2>2. L!LeverInv'
      BY <2>1, LeverConstants, L!LeverStep DEF ExitInv
    <2> QED
      BY <1>2, <2>2 DEF ExitInv, Stretch, exitVars, restOfLever, gateVars
  <1> QED
    BY <1>1, <1>2

\* Besides the lever's, the stretch's invariant holds in every reachable state.
THEOREM ExitInvariance == ExitSpec => []ExitInv
  BY ExitInitInv, ExitStep, PTL DEF ExitSpec

\* Lever and gate together keep a holder out for at most the longest pause and one shut
\* stretch of an epoch.
THEOREM ExclusionBounded == ExitSpec => []ExclusionIsBounded
  BY StretchIsShort, ExitInvariance, PTL

\* The settler obeys the abstract timelock while pauses come and go as well.
THEOREM ExitSettlerIsTimelocked == ExitSpec => SettlerIsTimelocked
  <1> USE DEF Lock!LockInit, Lock!LockNext, Lock!Announce, Lock!Cancel, Lock!TakeEffect, Lock!lockVars
  <1>1. ExitInit => Lock!LockInit
    BY DEF ExitInit, GateInit
  <1>2. ExitInv /\ [ExitNext]_exitVars => [Lock!LockNext]_(Lock!lockVars)
    <2> SUFFICES ASSUME ExitInv, [ExitNext]_exitVars
                 PROVE  [Lock!LockNext]_(Lock!lockVars)
      OBVIOUS
    <2>1. now \in Nat /\ SETTLER_DELAY \in Nat /\ newEta # 0
      BY ExitTypes, GateAssumption DEF newEta
    <2>2. ASSUME NEW c \in Settler \cup {Public}, settleBatch(c)
          PROVE  UNCHANGED Lock!lockVars
      BY <2>2 DEF settleBatch, changeVars
    <2>3. ASSUME NEW x \in Settler \cup {Nobody}, proposeSettler(x)
          PROVE  Lock!Announce
      BY <2>1, <2>3 DEF proposeSettler, newEta
    <2>4. CASE cancelSettlerChange
      BY <2>4 DEF cancelSettlerChange, etaAfterCancel
    <2>5. CASE executeSettlerChange
      BY <2>5 DEF executeSettlerChange
    <2>6. CASE UNCHANGED gateVars
      BY <2>6 DEF gateVars, changeVars
    <2>7. CASE Record
      BY <2>7 DEF Record, changeVars
    <2>8. CASE Watch
      BY <2>8 DEF Watch, changeVars
    <2> QED
      BY <2>2, <2>3, <2>4, <2>5, <2>6, <2>7, <2>8 DEF ExitNext, GateCall, exitVars
  <1> QED
    BY <1>1, <1>2, ExitInvariance, PTL DEF ExitSpec, SettlerIsTimelocked, Lock!LockSpec
=============================================================================
