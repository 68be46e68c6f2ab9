---------------------------- MODULE LanderProofs ----------------------------
(***************************************************************************)
(* Proofs about the lander's two threads: its settlements, for any hand-    *)
(* offs, notes, request threads, queue length and number of kills, and its  *)
(* rounds of roots, for any landers, slots, deposits and failures.          *)
(***************************************************************************)
EXTENDS Lander, RootClock, Recursion

(* The inductive invariant.                                                *)

Thread == Handler \cup {Worker}
Doing == [pc : {"idle", "admit", "truncate", "save", "check", "forge", "sent"},
          job : Job, note : Status \cup {"none", "mined"}]
Sent == [job : Job, own : BOOLEAN]
Saving == {"truncate", "save"}

\* Which thread may do what.
Roles ==
    /\ \A h \in Handler :
         /\ thread[h].pc \in {"idle", "admit"} \cup Saving
         /\ thread[h].pc = "admit" => thread[h].note = "none"
         /\ thread[h].pc \in Saving => thread[h].note = "waiting"
    /\ thread[Worker].pc # "admit"
    /\ thread[Worker].pc \in Saving => thread[Worker].note \in Status

\* Whoever is about to report a job settled, or has, knows its notes spent; a
\* transaction the worker waits for is that of its current job.
Truth ==
    /\ \A j \in Job :
         j \in answered \/ "settled" \in {jobs[j], disk[j]} => notesOf[j] \subseteq spent
    /\ \A t \in Thread :
         thread[t].pc \in Saving /\ thread[t].note = "settled" => notesOf[thread[t].job] \subseteq spent
    /\ \A x \in txs : x.own => /\ thread[Worker].pc = "sent" /\ thread[Worker].job = x.job
                               /\ thread[Worker].note # "mined"
    /\ thread[Worker].pc = "sent" /\ thread[Worker].note = "mined" =>
         notesOf[thread[Worker].job] \subseteq spent

\* A job on its way to forge was never answered settled.
Unanswered ==
    \/ thread[Worker].pc = "forge"
    \/ thread[Worker].pc \in Saving /\ thread[Worker].note = "settling"
    => thread[Worker].job \notin answered

\* What a thread saves is the status of a job in jobs.
Known == \A t \in Thread : thread[t].pc \in Saving => jobs[thread[t].job] \in Status

\* A job handed off once is in one place: with one thread, or once in the queue, or at
\* rest; its status is the one that place goes with, and so is its file, which lags
\* behind only while a thread saves it.
Touches(t, j) == thread[t].pc # "idle" /\ thread[t].job = j
Fits(d, status, file) ==
    /\ d.pc = "admit" => status = "absent"
    /\ d.pc \in Saving => status = d.note
    /\ d.pc = "truncate" /\ status = "settled" => file = "settling"
    /\ d.pc = "save" => file = "torn"
    /\ d.pc = "check" => status \in Unfinished /\ file = status
    /\ d.pc \in {"forge", "sent"} => status = "settling" /\ file = "settling"
InOnePlace(j) ==
    /\ \A t \in Thread : Touches(t, j) => work[j] = 0 /\ Fits(thread[t], jobs[j], disk[j])
    /\ \A t, u \in Thread : Touches(t, j) /\ Touches(u, j) => t = u
    /\ work[j] <= 1
    /\ work[j] = 1 => jobs[j] \in Unfinished
    /\ (\A t \in Thread : ~Touches(t, j)) => jobs[j] \in {"absent", disk[j]}
Once == \A j \in Job \ raced : InOnePlace(j)

LanderInv == LanderTypeOK /\ Roles /\ Truth /\ Unanswered /\ Known /\ Once

-----------------------------------------------------------------------------
(* What a step of one thread leaves alone.                                 *)

LEMMA TypesUnfolded ==
    ASSUME LanderTypeOK
    PROVE  /\ thread \in [Thread -> Doing] /\ txs \subseteq Sent
           /\ Worker \in Thread /\ \A h \in Handler : h \in Thread /\ h # Worker
  BY LanderAssumption DEF LanderTypeOK, Thread, Doing, Sent

LEMMA Turns ==
    ASSUME LanderTypeOK, NEW t \in Thread, NEW d \in Doing, thread' = [thread EXCEPT ![t] = d]
    PROVE  /\ thread' \in [Thread -> Doing]
           /\ thread'[t] = d
           /\ \A u \in Thread \ {t} : thread'[u] = thread[u]
  BY TypesUnfolded

LEMMA Resting == resting \in Doing /\ resting.pc = "idle"
  <1>1. (CHOOSE j \in Job : TRUE) \in Job
    BY LanderAssumption
  <1> QED
    BY <1>1 DEF resting, Doing

LEMMA RolesKept ==
    ASSUME LanderInv, NEW t \in Thread, NEW d \in Doing, thread' = [thread EXCEPT ![t] = d],
           t \in Handler => /\ d.pc \in {"idle", "admit"} \cup Saving
                            /\ d.pc = "admit" => d.note = "none"
                            /\ d.pc \in Saving => d.note = "waiting",
           t = Worker => d.pc # "admit" /\ (d.pc \in Saving => d.note \in Status)
    PROVE  Roles'
  BY Turns, TypesUnfolded DEF Roles, LanderInv

\* Of the jobs it does not touch, a step changes neither place nor status.
LEMMA OthersInPlace ==
    ASSUME LanderInv, NEW t \in Thread, NEW d \in Doing, thread' = [thread EXCEPT ![t] = d],
           NEW j \in Job, InOnePlace(j), ~Touches(t, j), d.pc = "idle" \/ d.job # j,
           jobs'[j] = jobs[j], disk'[j] = disk[j], work'[j] = work[j]
    PROVE  InOnePlace(j)'
  <1>1. thread'[t] = d /\ \A u \in Thread \ {t} : thread'[u] = thread[u]
    BY Turns DEF LanderInv
  <1>2. \A u \in Thread : /\ Touches(u, j)' <=> Touches(u, j)
                         /\ Touches(u, j)' => thread'[u] = thread[u]
    BY <1>1 DEF Touches
  <1>3. \A u \in Thread : Touches(u, j)' => work'[j] = 0 /\ Fits(thread'[u], jobs'[j], disk'[j])
    <2> SUFFICES ASSUME NEW u \in Thread, Touches(u, j)'
                 PROVE  work'[j] = 0 /\ Fits(thread'[u], jobs'[j], disk'[j])
      OBVIOUS
    <2>1. Touches(u, j) /\ thread'[u] = thread[u]
      BY <1>2 DEF Touches
    <2>2. work[j] = 0 /\ Fits(thread[u], jobs[j], disk[j])
      BY <2>1 DEF InOnePlace
    <2> QED
      BY <2>1, <2>2
  <1>4. \A u, v \in Thread : Touches(u, j)' /\ Touches(v, j)' => u = v
    BY <1>2 DEF InOnePlace, Touches
  <1>5. work'[j] <= 1 /\ (work'[j] = 1 => jobs'[j] \in Unfinished)
    BY DEF InOnePlace
  <1>6. (\A u \in Thread : ~Touches(u, j)') => jobs'[j] \in {"absent", disk'[j]}
    <2>1. (\A u \in Thread : ~Touches(u, j)') => \A u \in Thread : ~Touches(u, j)
      BY <1>2 DEF Touches
    <2> QED
      BY <2>1 DEF InOnePlace
  <1> QED
    BY <1>3, <1>4, <1>5, <1>6 DEF InOnePlace

\* The thread that touches a job stays the only one to, and leaves it in a fitting place.
LEMMA ToucherInPlace ==
    ASSUME LanderInv, NEW t \in Thread, NEW d \in Doing, thread' = [thread EXCEPT ![t] = d],
           NEW j \in Job, InOnePlace(j), Touches(t, j), d.pc # "idle", d.job = j,
           work'[j] = work[j], Fits(d, jobs'[j], disk'[j])
    PROVE  InOnePlace(j)'
  <1>1. thread'[t] = d /\ \A u \in Thread \ {t} : thread'[u] = thread[u]
    BY Turns DEF LanderInv
  <1>2. \A u \in Thread : Touches(u, j)' => u = t
    BY <1>1 DEF Touches, InOnePlace
  <1>3. work'[j] = 0
    BY DEF InOnePlace
  <1>4. Touches(t, j)'
    BY <1>1 DEF Touches
  <1> QED
    BY <1>1, <1>2, <1>3, <1>4 DEF InOnePlace

-----------------------------------------------------------------------------
(* set_status, and the steps that call it.                                 *)

LEMMA StatusKept ==
    ASSUME LanderInv, NEW t \in Thread, NEW j \in Job, NEW status \in Status,
           set_status(t, j, status), thread[t].pc # "idle", thread[t].job = j,
           status = "settled" => notesOf[j] \subseteq spent,
           t # Worker => status = "waiting",
           status = "settling" => j \notin answered,
           status = "settled" /\ j \notin raced => disk[j] = "settling",
           txs' \subseteq Sent, \A x \in txs' : x.own => x \in txs /\ t # Worker,
           UNCHANGED <<work, spent, due, crashes, raced>>
    PROVE  LanderInv'
  <1> DEFINE d == [pc |-> "truncate", job |-> j, note |-> status]
  <1>1. d \in Doing /\ thread' = [thread EXCEPT ![t] = d]
    BY DEF Doing, set_status, goes
  <1>2. d.pc = "truncate" /\ d.job = j /\ d.note = status /\ d.pc \in Saving
    BY DEF Saving
  <1> HIDE DEF d
  <1>3. /\ thread' \in [Thread -> Doing] /\ thread'[t] = d
        /\ \A u \in Thread \ {t} : thread'[u] = thread[u]
    BY <1>1, Turns DEF LanderInv
  <1>4. /\ jobs' = [jobs EXCEPT ![j] = status]
        /\ disk' = disk
        /\ answered' = IF status = "settled" THEN answered \cup {j} ELSE answered
    BY DEF set_status
  <1>5. /\ jobs \in [Job -> Status \cup {"absent"}] /\ disk \in [Job -> Status \cup {"none", "torn"}]
        /\ answered \subseteq Job
    BY DEF LanderInv, LanderTypeOK
  <1>6. LanderTypeOK'
    BY <1>3, <1>4, <1>5 DEF LanderInv, LanderTypeOK, Thread, Doing, Sent
  <1>7. Roles'
    <2>1. t \in Handler => t # Worker
      BY LanderAssumption
    <2> QED
      BY <1>1, <1>2, <2>1, RolesKept
  <1>8. Truth'
    <2>1. \A k \in Job : k \in answered' \/ "settled" \in {jobs'[k], disk'[k]} => notesOf[k] \subseteq spent'
      BY <1>4, <1>5 DEF LanderInv, Truth
    <2>2. \A u \in Thread : thread'[u].pc \in Saving /\ thread'[u].note = "settled" =>
                              notesOf[thread'[u].job] \subseteq spent'
      BY <1>2, <1>3 DEF LanderInv, Truth
    <2>3. \A x \in txs' : x.own => /\ thread'[Worker].pc = "sent" /\ thread'[Worker].job = x.job
                                   /\ thread'[Worker].note # "mined"
      BY <1>3, TypesUnfolded DEF LanderInv, Truth
    <2>4. thread'[Worker].pc = "sent" /\ thread'[Worker].note = "mined" =>
             notesOf[thread'[Worker].job] \subseteq spent'
      BY <1>2, <1>3, TypesUnfolded DEF LanderInv, Truth
    <2> QED
      BY <2>1, <2>2, <2>3, <2>4 DEF Truth
  <1>9. Unanswered'
    <2>1. CASE t = Worker
      BY <1>2, <1>3, <1>4, <2>1 DEF Unanswered
    <2>2. CASE t # Worker
      BY <1>3, <1>4, <2>2, TypesUnfolded DEF Unanswered, LanderInv
    <2> QED
      BY <2>1, <2>2
  <1>known. Known'
    <2> SUFFICES ASSUME NEW u \in Thread, thread'[u].pc \in Saving
                 PROVE  jobs'[thread'[u].job] \in Status
      BY DEF Known
    <2>1. CASE u = t
      BY <1>2, <1>3, <1>4, <1>5, <2>1
    <2>2. CASE u # t
      BY <1>3, <1>4, <1>5, <2>2, TypesUnfolded DEF Known, LanderInv, Doing
    <2> QED
      BY <2>1, <2>2
  <1>10. Once'
    <2> SUFFICES ASSUME NEW k \in Job, k \notin raced
                 PROVE  InOnePlace(k)'
      BY DEF Once
    <2>1. InOnePlace(k)
      BY DEF LanderInv, Once
    <2>2. CASE k = j
      <3>1. Touches(t, k) /\ d.pc # "idle" /\ work'[k] = work[k] /\ jobs'[k] = status
        BY <1>2, <1>4, <1>5, <2>2 DEF Touches
      <3>2. Fits(d, jobs'[k], disk'[k])
        BY <1>2, <1>4, <2>2, <3>1 DEF Fits
      <3> QED
        BY <1>1, <1>2, <2>1, <2>2, <3>1, <3>2, ToucherInPlace
    <2>3. CASE k # j
      BY <1>1, <1>2, <1>4, <1>5, <2>1, <2>3, OthersInPlace DEF Touches
    <2> QED
      BY <2>2, <2>3
  <1> QED
    BY <1>6, <1>7, <1>8, <1>9, <1>known, <1>10 DEF LanderInv

\* The file is emptied; the job stays where it is.
LEMMA TruncateKept ==
    ASSUME LanderInv, NEW t \in Thread, truncate(t)
    PROVE  LanderInv'
  <1> DEFINE j == thread[t].job
             d == [pc |-> "save", job |-> j, note |-> thread[t].note]
  <1>1. /\ thread[t] \in Doing /\ thread[t].pc = "truncate" /\ j \in Job
        /\ thread[t].pc \in Saving
        /\ d \in Doing /\ thread' = [thread EXCEPT ![t] = d]
    BY TypesUnfolded DEF LanderInv, truncate, at, goes, Doing, Saving
  <1>2. d.pc = "save" /\ d.job = j /\ d.note = thread[t].note /\ d.pc \in Saving
    BY DEF Saving
  <1>3. /\ disk' = [disk EXCEPT ![j] = "torn"] /\ disk \in [Job -> Status \cup {"none", "torn"}]
        /\ UNCHANGED <<jobs, work, spent, txs, due, crashes, answered, raced>>
    BY DEF truncate, LanderInv, LanderTypeOK
  <1>4. t \in Handler => t # Worker /\ thread[t].note = "waiting"
    BY <1>1, LanderAssumption DEF LanderInv, Roles
  <1>5. t = Worker => thread[t].note \in Status
    BY <1>1 DEF LanderInv, Roles
  <1> HIDE DEF d, j
  <1>6. /\ thread' \in [Thread -> Doing] /\ thread'[t] = d
        /\ \A u \in Thread \ {t} : thread'[u] = thread[u]
    BY <1>1, Turns DEF LanderInv
  <1>7. LanderTypeOK'
    BY <1>1, <1>3, <1>6 DEF LanderInv, LanderTypeOK, Thread, Doing
  <1>8. Roles'
    BY <1>1, <1>2, <1>4, <1>5, RolesKept
  <1>9. Truth'
    <2>1. \A k \in Job : k \in answered' \/ "settled" \in {jobs'[k], disk'[k]} => notesOf[k] \subseteq spent'
      BY <1>1, <1>3 DEF LanderInv, Truth
    <2>2. \A u \in Thread : thread'[u].pc \in Saving /\ thread'[u].note = "settled" =>
                              notesOf[thread'[u].job] \subseteq spent'
      BY <1>1, <1>2, <1>3, <1>6 DEF LanderInv, Truth, j
    <2>3. \A x \in txs' : x.own => /\ thread'[Worker].pc = "sent" /\ thread'[Worker].job = x.job
                                   /\ thread'[Worker].note # "mined"
      BY <1>1, <1>3, <1>6, TypesUnfolded DEF LanderInv, Truth
    <2>4. thread'[Worker].pc = "sent" /\ thread'[Worker].note = "mined" =>
             notesOf[thread'[Worker].job] \subseteq spent'
      BY <1>2, <1>3, <1>6, TypesUnfolded DEF LanderInv, Truth
    <2> QED
      BY <2>1, <2>2, <2>3, <2>4 DEF Truth
  <1>10. Unanswered'
    <2>1. CASE t = Worker
      BY <1>1, <1>2, <1>3, <1>6, <2>1 DEF Unanswered, LanderInv, j
    <2>2. CASE t # Worker
      BY <1>3, <1>6, <2>2, TypesUnfolded DEF Unanswered, LanderInv
    <2> QED
      BY <2>1, <2>2
  <1>known. Known'
    <2> SUFFICES ASSUME NEW u \in Thread, thread'[u].pc \in Saving
                 PROVE  jobs'[thread'[u].job] \in Status
      BY DEF Known
    <2>1. thread'[u].job = thread[u].job /\ thread[u].pc \in Saving
      <3>1. CASE u = t
        BY <1>1, <1>2, <1>6, <3>1 DEF j
      <3>2. CASE u # t
        BY <1>6, <3>2
      <3> QED
        BY <3>1, <3>2
    <2>2. jobs[thread[u].job] \in Status
      BY <2>1 DEF Known, LanderInv
    <2> QED
      BY <1>3, <2>1, <2>2
  <1>11. Once'
    <2> SUFFICES ASSUME NEW k \in Job, k \notin raced
                 PROVE  InOnePlace(k)'
      BY <1>3 DEF Once
    <2>1. InOnePlace(k)
      BY DEF LanderInv, Once
    <2>2. CASE k = j
      <3>1. Touches(t, k) /\ Fits(thread[t], jobs[k], disk[k])
        BY <1>1, <2>1, <2>2 DEF Touches, InOnePlace, j
      <3>2. Fits(d, jobs'[k], disk'[k]) /\ work'[k] = work[k] /\ d.pc # "idle"
        BY <1>1, <1>2, <1>3, <2>2, <3>1 DEF Fits
      <3> QED
        BY <1>1, <1>2, <2>1, <2>2, <3>1, <3>2, ToucherInPlace
    <2>3. CASE k # j
      BY <1>1, <1>2, <1>3, <2>1, <2>3, OthersInPlace DEF Touches, j
    <2> QED
      BY <2>2, <2>3
  <1> QED
    BY <1>7, <1>8, <1>9, <1>10, <1>known, <1>11 DEF LanderInv

LEMMA AdmitKept ==
    ASSUME LanderInv, NEW h \in Handler, admit(h)
    PROVE  LanderInv'
  <1>1. h \in Thread /\ h # Worker /\ thread[h] \in Doing /\ txs \subseteq Sent
    BY TypesUnfolded DEF LanderInv
  <1>2. thread[h].job \in Job /\ thread[h].pc = "admit"
    BY <1>1 DEF admit, at, Doing
  <1>3. "waiting" \in Status
    BY DEF Status, Unfinished
  <1> QED
    BY <1>1, <1>2, <1>3, StatusKept DEF admit

\* The worker's answers: each leaves no transaction of its own behind.
LEMMA NoOwn ==
    ASSUME LanderInv, thread[Worker].pc # "sent" \/ thread[Worker].note = "mined"
    PROVE  \A x \in txs : ~x.own
  BY DEF LanderInv, Truth

LEMMA OrphanedNotOwn ==
    ASSUME LanderTypeOK
    PROVE  orphaned \subseteq Sent /\ \A x \in orphaned : ~x.own
  <1> SUFFICES ASSUME NEW x \in orphaned
               PROVE  x \in Sent /\ ~x.own
    OBVIOUS
  <1>1. PICK y \in txs : x = [job |-> y.job, own |-> FALSE]
    BY DEF orphaned
  <1>2. y.job \in Job
    BY TypesUnfolded DEF Sent
  <1> QED
    BY <1>1, <1>2 DEF Sent

LEMMA AnswerKept ==
    ASSUME LanderInv, settledBefore \/ notYet \/ settle \/ landed \/ refuse
    PROVE  LanderInv'
  <1>1. /\ Worker \in Thread /\ thread[Worker] \in Doing /\ txs \subseteq Sent
        /\ current \in Job /\ thread[Worker].job = current
    BY TypesUnfolded DEF LanderInv, current, Doing
  <1>2. Status = {"waiting", "settling", "settled", "refused"}
    BY DEF Status, Unfinished
  <1>3. CASE settledBefore
    <2>1. thread[Worker].pc = "check" /\ set_status(Worker, current, "settled")
          /\ UNCHANGED <<work, spent, txs, due, crashes, raced>> /\ notesOf[current] \subseteq spent
          /\ jobs[current] = "settling"
      BY <1>3 DEF settledBefore, at, sentBefore, allSpent
    <2>2. current \notin raced => disk[current] = "settling"
      BY <1>1, <2>1 DEF LanderInv, Once, InOnePlace, Touches, Fits
    <2> QED
      BY <1>1, <1>2, <2>1, <2>2, NoOwn, StatusKept
  <1>4. CASE notYet
    <2>1. thread[Worker].pc \in {"check", "forge"} /\ set_status(Worker, current, "waiting")
          /\ UNCHANGED <<work, spent, txs, due, crashes, raced>>
      BY <1>4 DEF notYet, at
    <2> QED
      BY <1>1, <1>2, <2>1, NoOwn, StatusKept
  <1>5. CASE settle
    <2>1. thread[Worker].pc = "check" /\ set_status(Worker, current, "settling")
          /\ UNCHANGED <<work, spent, txs, due, crashes, raced>> /\ notesOf[current] \cap spent = {}
      BY <1>5 DEF settle, at, fresh, anySpent
    <2>2. current \notin answered
      <3>1. notesOf[current] # {}
        BY <1>1, LanderAssumption
      <3> QED
        BY <1>1, <2>1, <3>1 DEF LanderInv, Truth
    <2> QED
      BY <1>1, <1>2, <2>1, <2>2, NoOwn, StatusKept
  <1>6. CASE landed
    <2>1. thread[Worker].pc = "sent" /\ thread[Worker].note = "mined"
          /\ set_status(Worker, current, "settled")
          /\ UNCHANGED <<work, spent, txs, due, crashes, raced>>
      BY <1>6 DEF landed, at
    <2>2. notesOf[current] \subseteq spent
      BY <1>1, <2>1 DEF LanderInv, Truth
    <2>3. current \notin raced => disk[current] = "settling"
      BY <1>1, <2>1 DEF LanderInv, Once, InOnePlace, Touches, Fits
    <2> QED
      BY <1>1, <1>2, <2>1, <2>2, <2>3, NoOwn, StatusKept
  <1>7. CASE refuse
    <2>1. thread[Worker].pc \in {"check", "forge", "sent"} /\ set_status(Worker, current, "refused")
          /\ txs' = orphaned /\ UNCHANGED <<work, spent, due, crashes, raced>>
      BY <1>7 DEF refuse
    <2> QED
      BY <1>1, <1>2, <2>1, OrphanedNotOwn, StatusKept DEF LanderInv
  <1> QED
    BY <1>3, <1>4, <1>5, <1>6, <1>7

-----------------------------------------------------------------------------
(* The other steps of a thread.                                            *)

LEMMA SaveKept ==
    ASSUME LanderInv, NEW t \in Thread, save(t)
    PROVE  LanderInv'
  <1> DEFINE j == thread[t].job
             status == thread[t].note
             d == IF status = "settling" THEN [pc |-> "forge", job |-> j, note |-> "none"] ELSE resting
  <1>1. /\ thread[t] \in Doing /\ thread[t].pc = "save" /\ j \in Job /\ status \in Status
        /\ (t # Worker => status = "waiting")
    BY TypesUnfolded DEF LanderInv, Roles, save, at, Saving, Doing, Thread, Status, Unfinished
  <1>2. d \in Doing /\ thread' = [thread EXCEPT ![t] = d]
    BY <1>1, Resting DEF save, goes, rests, Doing
  <1>3. /\ status = "settling" => d.pc = "forge" /\ d.job = j /\ d.note = "none"
        /\ status # "settling" => d.pc = "idle"
    BY Resting
  <1>4. PICK content \in {status, jobs[j], "torn"} :
          /\ disk' = [disk EXCEPT ![j] = content]
          /\ disk[j] = "torn" => content \in {status, jobs[j]}
    BY DEF save
  <1>5. /\ work' = IF status = "waiting" THEN [work EXCEPT ![j] = work[j] + 1] ELSE work
        /\ UNCHANGED <<jobs, spent, txs, due, crashes, answered, raced>>
    BY DEF save
  <1>6. /\ jobs \in [Job -> Status \cup {"absent"}] /\ disk \in [Job -> Status \cup {"none", "torn"}]
        /\ work \in [Job -> Nat]
    BY DEF LanderInv, LanderTypeOK
  <1>had. jobs[j] \in Status
    BY <1>1 DEF LanderInv, Known, Saving
  <1> HIDE DEF j, status, d
  <1>7. /\ thread' \in [Thread -> Doing] /\ thread'[t] = d
        /\ \A u \in Thread \ {t} : thread'[u] = thread[u]
    BY <1>2, Turns DEF LanderInv
  <1>8. LanderTypeOK'
    <2>1. disk' \in [Job -> Status \cup {"none", "torn"}]
      BY <1>1, <1>4, <1>6, <1>had
    <2>2. work' \in [Job -> Nat]
      BY <1>1, <1>5, <1>6
    <2> QED
      BY <1>5, <1>7, <2>1, <2>2 DEF LanderInv, LanderTypeOK, Thread, Doing
  <1>9. Roles'
    BY <1>1, <1>2, <1>3, RolesKept, LanderAssumption DEF Saving
  <1>10. Truth'
    <2>1. \A k \in Job : k \in answered' \/ "settled" \in {jobs'[k], disk'[k]} => notesOf[k] \subseteq spent'
      <3>1. "settled" \in {status, jobs[j]} => notesOf[j] \subseteq spent
        BY <1>1 DEF LanderInv, Truth, status, j, Saving
      <3> QED
        BY <1>1, <1>4, <1>5, <1>6, <3>1 DEF LanderInv, Truth
    <2>2. \A u \in Thread : thread'[u].pc \in Saving /\ thread'[u].note = "settled" =>
                              notesOf[thread'[u].job] \subseteq spent'
      BY <1>3, <1>5, <1>7 DEF LanderInv, Truth, Saving
    <2>3. \A x \in txs' : x.own => /\ thread'[Worker].pc = "sent" /\ thread'[Worker].job = x.job
                                   /\ thread'[Worker].note # "mined"
      BY <1>1, <1>5, <1>7, TypesUnfolded DEF LanderInv, Truth
    <2>4. thread'[Worker].pc = "sent" /\ thread'[Worker].note = "mined" =>
             notesOf[thread'[Worker].job] \subseteq spent'
      BY <1>3, <1>5, <1>7, TypesUnfolded DEF LanderInv, Truth
    <2> QED
      BY <2>1, <2>2, <2>3, <2>4 DEF Truth
  <1>11. Unanswered'
    <2>1. CASE t = Worker
      BY <1>1, <1>3, <1>5, <1>7, <2>1 DEF Unanswered, LanderInv, status, j, Saving
    <2>2. CASE t # Worker
      BY <1>5, <1>7, <2>2, TypesUnfolded DEF Unanswered, LanderInv
    <2> QED
      BY <2>1, <2>2
  <1>known. Known'
    <2>1. \A u \in Thread : thread'[u].pc \in Saving => u # t
      BY <1>3, <1>7 DEF Saving
    <2> QED
      BY <1>5, <1>7, <2>1 DEF Known, LanderInv
  <1>12. Once'
    <2> SUFFICES ASSUME NEW k \in Job, k \notin raced
                 PROVE  InOnePlace(k)'
      BY <1>5 DEF Once
    <2>1. InOnePlace(k)
      BY DEF LanderInv, Once
    <2>2. CASE k = j
      <3>1. Touches(t, k) /\ work[k] = 0 /\ jobs[k] = status /\ disk[k] = "torn"
        BY <1>1, <2>1, <2>2 DEF Touches, InOnePlace, Fits, Saving, j, status
      <3>file. disk'[k] = status
        BY <1>1, <1>4, <1>6, <2>2, <3>1
      <3>2. CASE status = "settling"
        <4>1. d.pc # "idle" /\ d.job = k /\ Fits(d, jobs'[k], disk'[k]) /\ work' = work
          BY <1>3, <1>5, <2>2, <3>1, <3>2, <3>file DEF Fits, Saving
        <4> QED
          BY <1>2, <2>1, <3>1, <4>1, ToucherInPlace
      <3>3. CASE status # "settling"
        <4>1. \A u \in Thread : ~Touches(u, k)'
          BY <1>3, <1>7, <2>1, <3>1, <3>3 DEF Touches, InOnePlace
        <4>2. work'[k] = IF status = "waiting" THEN 1 ELSE 0
          BY <1>5, <1>6, <2>2, <3>1
        <4>3. jobs'[k] = disk'[k]
          BY <1>5, <3>1, <3>file
        <4> QED
          BY <1>5, <3>1, <4>1, <4>2, <4>3 DEF InOnePlace, Unfinished
      <3> QED
        BY <3>2, <3>3
    <2>3. CASE k # j
      <3>1. ~Touches(t, k) /\ (d.pc = "idle" \/ d.job # k)
        BY <1>3, <2>3 DEF Touches, j
      <3>2. jobs'[k] = jobs[k] /\ disk'[k] = disk[k] /\ work'[k] = work[k]
        BY <1>4, <1>5, <1>6, <2>3
      <3> QED
        BY <1>2, <2>1, <3>1, <3>2, OthersInPlace
    <2> QED
      BY <2>2, <2>3
  <1> QED
    BY <1>8, <1>9, <1>10, <1>11, <1>known, <1>12 DEF LanderInv

LEMMA DoPostKept ==
    ASSUME LanderInv, NEW h \in Handler, NEW j \in Job, do_POST(h, j)
    PROVE  LanderInv'
  <1> DEFINE d == [pc |-> "admit", job |-> j, note |-> "none"]
  <1>1. /\ h \in Thread /\ h # Worker /\ thread[h].pc = "idle" /\ jobs[j] = "absent"
        /\ d \in Doing /\ thread' = [thread EXCEPT ![h] = d]
    BY TypesUnfolded DEF LanderInv, do_POST, at, unknown, goes, Doing
  <1>2. /\ UNCHANGED <<jobs, disk, work, spent, txs, due, crashes, answered>>
        /\ raced' = IF \E t \in Handler : thread[t] = d THEN raced \cup {j} ELSE raced
    BY DEF do_POST
  <1>3. d.pc = "admit" /\ d.job = j /\ d.note = "none"
    OBVIOUS
  <1>4. /\ thread' \in [Thread -> Doing] /\ thread'[h] = d
        /\ \A u \in Thread \ {h} : thread'[u] = thread[u]
    BY <1>1, Turns DEF LanderInv
  <1>5. LanderTypeOK'
    BY <1>2, <1>4 DEF LanderInv, LanderTypeOK, Thread, Doing
  <1>6. Roles'
    BY <1>1, <1>3, RolesKept DEF Saving
  <1>7. Truth'
    BY <1>1, <1>2, <1>3, <1>4, TypesUnfolded DEF LanderInv, Truth, Saving
  <1>8. Unanswered'
    BY <1>1, <1>2, <1>4, TypesUnfolded DEF LanderInv, Unanswered
  <1>known. Known'
    BY <1>2, <1>3, <1>4 DEF LanderInv, Known, Saving
  <1>9. Once'
    <2> SUFFICES ASSUME NEW k \in Job, k \notin raced'
                 PROVE  InOnePlace(k)'
      BY DEF Once
    <2>1. InOnePlace(k) /\ ~Touches(h, k)
      BY <1>1, <1>2 DEF LanderInv, Once, Touches
    <2>2. CASE k = j
      <3>1. ASSUME NEW u \in Thread, Touches(u, j)
            PROVE  FALSE
        <4>1. Fits(thread[u], "absent", disk[j])
          BY <1>1, <2>1, <2>2, <3>1 DEF InOnePlace
        <4>2. thread[u] \in Doing
          BY TypesUnfolded DEF LanderInv
        <4>3. thread[u].pc = "admit"
          <5>1. thread[u].note # "absent"
            BY <4>2 DEF Doing, Status, Unfinished
          <5> QED
            BY <3>1, <4>1, <4>2, <5>1 DEF Fits, Touches, Doing, Unfinished, Saving
        <4>4. u \in Handler /\ thread[u].note = "none"
          BY <4>3 DEF LanderInv, Roles, Thread
        <4>5. thread[u] = d
          BY <3>1, <4>2, <4>3, <4>4 DEF Touches, Doing
        <4> QED
          BY <1>2, <2>2, <4>4, <4>5
      <3>2. \A u \in Thread : Touches(u, j)' => u = h
        BY <1>4, <3>1 DEF Touches
      <3>3. work[j] = 0
        <4>1. work[j] \in Nat
          BY DEF LanderInv, LanderTypeOK
        <4> QED
          BY <1>1, <2>1, <2>2, <4>1 DEF InOnePlace, Unfinished
      <3> QED
        BY <1>1, <1>2, <1>3, <1>4, <2>2, <3>2, <3>3 DEF InOnePlace, Fits, Saving
    <2>3. CASE k # j
      BY <1>1, <1>2, <1>3, <2>1, <2>3, OthersInPlace
    <2> QED
      BY <2>2, <2>3
  <1> QED
    BY <1>5, <1>6, <1>7, <1>8, <1>known, <1>9 DEF LanderInv

LEMMA TakeKept ==
    ASSUME LanderInv, NEW j \in Job, take(j)
    PROVE  LanderInv'
  <1> DEFINE d == [pc |-> "check", job |-> j, note |-> "none"]
  <1>1. /\ Worker \in Thread /\ thread[Worker].pc = "idle" /\ work[j] > 0
        /\ d \in Doing /\ thread' = [thread EXCEPT ![Worker] = d]
    BY TypesUnfolded DEF LanderInv, take, at, goes, Doing
  <1>2. /\ work' = [work EXCEPT ![j] = work[j] - 1] /\ work \in [Job -> Nat]
        /\ UNCHANGED <<jobs, disk, spent, txs, due, crashes, answered, raced>>
    BY DEF take, LanderInv, LanderTypeOK
  <1>3. d.pc = "check" /\ d.job = j /\ d.note = "none"
    OBVIOUS
  <1>4. /\ thread' \in [Thread -> Doing] /\ thread'[Worker] = d
        /\ \A u \in Thread \ {Worker} : thread'[u] = thread[u]
    BY <1>1, Turns DEF LanderInv
  <1> HIDE DEF d
  <1>5. LanderTypeOK'
    <2>1. work' \in [Job -> Nat]
      BY <1>1, <1>2
    <2> QED
      BY <1>2, <1>4, <2>1 DEF LanderInv, LanderTypeOK, Thread, Doing
  <1>6. Roles'
    BY <1>1, <1>3, RolesKept, LanderAssumption DEF Saving
  <1>7. Truth'
    BY <1>1, <1>2, <1>3, <1>4 DEF LanderInv, Truth, Saving
  <1>8. Unanswered'
    BY <1>3, <1>4 DEF Unanswered, Saving
  <1>known. Known'
    BY <1>2, <1>3, <1>4 DEF LanderInv, Known, Saving
  <1>9. Once'
    <2> SUFFICES ASSUME NEW k \in Job, k \notin raced
                 PROVE  InOnePlace(k)'
      BY <1>2 DEF Once
    <2>1. InOnePlace(k) /\ ~Touches(Worker, k)
      BY <1>1 DEF LanderInv, Once, Touches
    <2>2. CASE k = j
      <3>1. work[j] = 1 /\ work'[j] = 0 /\ jobs[j] \in Unfinished
        BY <1>1, <1>2, <2>1, <2>2 DEF InOnePlace
      <3>2. (\A u \in Thread : ~Touches(u, j)) /\ jobs[j] = disk[j]
        BY <2>1, <2>2, <3>1 DEF InOnePlace, Unfinished
      <3>3. \A u \in Thread : Touches(u, j)' => u = Worker
        BY <1>4, <3>2 DEF Touches
      <3> QED
        <4>1. Touches(Worker, j)' /\ Worker \in Thread
          BY <1>1, <1>3, <1>4 DEF Touches
        <4>2. Fits(d, jobs'[j], disk'[j])
          BY <1>2, <1>3, <3>1, <3>2 DEF Fits, Saving
        <4> QED
          BY <1>4, <2>2, <3>1, <3>3, <4>1, <4>2 DEF InOnePlace
    <2>3. CASE k # j
      <3>1. jobs'[k] = jobs[k] /\ disk'[k] = disk[k] /\ work'[k] = work[k]
        BY <1>2, <2>3
      <3> QED
        BY <1>1, <1>3, <2>1, <2>3, <3>1, OthersInPlace
    <2> QED
      BY <2>2, <2>3
  <1> QED
    BY <1>5, <1>6, <1>7, <1>8, <1>known, <1>9 DEF LanderInv

\* A step of the worker within forge: only its pc and note, and the transactions, change.
LEMMA SettlingKept ==
    ASSUME LanderInv, NEW d \in Doing, thread' = [thread EXCEPT ![Worker] = d],
           thread[Worker].pc \in {"forge", "sent"}, d.pc \in {"forge", "sent"}, d.job = current,
           UNCHANGED <<jobs, disk, work, due, crashes, answered, raced>>,
           spent \subseteq spent', spent' \subseteq Note, txs' \subseteq Sent,
           \A x \in txs' : x.own => d.pc = "sent" /\ x.job = current /\ d.note # "mined",
           d.note = "mined" => notesOf[current] \subseteq spent',
           d.pc = "forge" => thread[Worker].pc = "forge"
    PROVE  LanderInv'
  <1>1. /\ Worker \in Thread /\ thread' \in [Thread -> Doing] /\ thread'[Worker] = d
        /\ \A u \in Thread \ {Worker} : thread'[u] = thread[u]
    BY Turns, TypesUnfolded DEF LanderInv
  <1>2. LanderTypeOK'
    BY <1>1 DEF LanderInv, LanderTypeOK, Thread, Doing, Sent
  <1>3. Roles'
    BY <1>1, RolesKept, LanderAssumption DEF Saving
  <1>4. Truth'
    BY <1>1 DEF LanderInv, Truth, Saving
  <1>5. Unanswered'
    BY <1>1 DEF LanderInv, Unanswered, current, Saving
  <1>known. Known'
    BY <1>1 DEF LanderInv, Known, Saving
  <1>6. Once'
    <2> SUFFICES ASSUME NEW k \in Job, k \notin raced
                 PROVE  InOnePlace(k)'
      BY DEF Once
    <2>1. InOnePlace(k)
      BY DEF LanderInv, Once
    <2>2. CASE k = current
      <3>1. Touches(Worker, k) /\ Fits(d, jobs[k], disk[k])
        BY <1>1, <2>1, <2>2 DEF Touches, InOnePlace, Fits, current, Saving
      <3>2. jobs' = jobs /\ disk' = disk /\ work' = work /\ d.pc # "idle" /\ d.job = k
        BY <2>1, <2>2 DEF InOnePlace
      <3> QED
        BY <1>1, <2>1, <3>1, <3>2, ToucherInPlace
    <2>3. CASE k # current
      BY <1>1, <2>1, <2>3, OthersInPlace DEF Touches, current
    <2> QED
      BY <2>2, <2>3
  <1> QED
    BY <1>2, <1>3, <1>4, <1>5, <1>known, <1>6 DEF LanderInv

LEMMA BroadcastKept ==
    ASSUME LanderInv, broadcast
    PROVE  LanderInv'
  <1> DEFINE d == [pc |-> "sent", job |-> current, note |-> "none"]
             new == [job |-> current, own |-> TRUE]
  <1>1. current \in Job /\ txs \subseteq Sent /\ thread[Worker].pc = "forge"
    BY TypesUnfolded DEF LanderInv, current, Doing, broadcast, at
  <1>2. d \in Doing /\ thread' = [thread EXCEPT ![Worker] = d]
    BY <1>1 DEF broadcast, goes, Doing
  <1>3. txs' = txs \cup {new} /\ new \in Sent /\ new.job = current
    BY <1>1 DEF broadcast, Sent
  <1>4. \A x \in txs' : x.own => x.job = current
    BY <1>1, <1>3 DEF LanderInv, Truth
  <1>5. UNCHANGED <<jobs, disk, work, spent, due, crashes, answered, raced>> /\ spent \subseteq Note
    BY DEF broadcast, LanderInv, LanderTypeOK
  <1>6. d.pc = "sent" /\ d.job = current /\ d.note = "none" /\ txs' \subseteq Sent
    BY <1>1, <1>3
  <1> HIDE DEF d, new
  <1> QED
    BY <1>1, <1>2, <1>4, <1>5, <1>6, SettlingKept

-----------------------------------------------------------------------------
(* Kills, and the chain.                                                   *)

LEMMA RestartKept ==
    ASSUME LanderInv, restart
    PROVE  LanderInv'
  <1>1. /\ jobs' = [j \in Job |-> restored(j)] /\ work' = [j \in Job |-> requeued(j)]
        /\ thread' = [t \in Thread |-> resting]
        /\ crashes < MaxCrashes /\ crashes' = crashes + 1
        /\ UNCHANGED <<disk, spent, due, answered, raced>>
    BY DEF restart, Thread
  <1>2. txs' \subseteq Sent /\ \A x \in txs' : ~x.own
    <2> DEFINE new == [job |-> current, own |-> FALSE]
    <2>1. txs' = orphaned \/ txs' = orphaned \cup {new}
      BY DEF restart
    <2>2. new \in Sent /\ ~new.own
      BY TypesUnfolded DEF LanderInv, current, Doing, Sent
    <2> HIDE DEF new
    <2> QED
      BY <2>1, <2>2, OrphanedNotOwn DEF LanderInv
  <1>3. \A j \in Job : /\ jobs'[j] = restored(j) /\ work'[j] = requeued(j)
                       /\ restored(j) \in Status \cup {"absent"} /\ requeued(j) \in {0, 1}
                       /\ requeued(j) = 1 => restored(j) \in Unfinished
                       /\ restored(j) = "settled" => disk[j] = "settled"
                       /\ restored(j) \in {"absent", disk[j]}
    BY <1>1 DEF restored, requeued
  <1>4. \A t \in Thread : thread'[t] \in Doing /\ thread'[t].pc = "idle"
    BY <1>1, Resting
  <1>5. LanderTypeOK'
    <2>1. thread' \in [Thread -> Doing]
      BY <1>1, <1>4
    <2>2. jobs' \in [Job -> Status \cup {"absent"}] /\ work' \in [Job -> Nat]
      BY <1>1, <1>3
    <2>3. crashes' \in 0 .. MaxCrashes
      BY <1>1, LanderAssumption DEF LanderInv, LanderTypeOK
    <2> QED
      BY <1>1, <1>2, <2>1, <2>2, <2>3 DEF LanderInv, LanderTypeOK, Thread, Doing, Sent
  <1>6. Worker \in Thread /\ Handler \subseteq Thread
    BY DEF Thread
  <1>7. Roles'
    BY <1>4, <1>6 DEF Roles, Saving
  <1>8. Truth'
    BY <1>1, <1>2, <1>3, <1>4, <1>6 DEF LanderInv, Truth, Saving
  <1>9. Unanswered'
    BY <1>4, <1>6 DEF Unanswered, Saving
  <1>known. Known'
    BY <1>4 DEF Known, Saving
  <1>10. Once'
    <2> SUFFICES ASSUME NEW k \in Job, k \notin raced
                 PROVE  InOnePlace(k)'
      BY <1>1 DEF Once
    <2>1. \A u \in Thread : ~Touches(u, k)'
      BY <1>4 DEF Touches
    <2> QED
      BY <1>1, <1>3, <2>1 DEF InOnePlace
  <1> QED
    BY <1>5, <1>7, <1>8, <1>9, <1>known, <1>10 DEF LanderInv

\* Whatever spends notes only makes more of what is reported true.
LEMMA SpendingKept ==
    ASSUME LanderInv, spent \subseteq spent', spent' \subseteq Note, txs' \subseteq txs,
           due' \subseteq Job, UNCHANGED <<jobs, disk, work, thread, crashes, answered, raced>>
    PROVE  LanderInv'
  <1>1. LanderTypeOK'
    BY DEF LanderInv, LanderTypeOK
  <1>2. Roles' /\ Truth' /\ Unanswered' /\ Known'
    BY DEF LanderInv, Roles, Truth, Unanswered, Known
  <1>3. Once'
    BY DEF LanderInv, Once, InOnePlace, Touches, Fits
  <1> QED
    BY <1>1, <1>2, <1>3 DEF LanderInv

LEMMA MineKept ==
    ASSUME LanderInv, NEW x \in txs, mine(x)
    PROVE  LanderInv'
  <1>1. /\ x \in Sent /\ x.job \in Job /\ notesOf[x.job] \subseteq Note
        /\ txs \subseteq Sent /\ spent \subseteq Note
    BY LanderAssumption DEF LanderInv, LanderTypeOK, Sent
  <1>2. /\ txs' = txs \ {x}
        /\ spent' = IF anySpent(x.job) THEN spent ELSE spent \cup notesOf[x.job]
        /\ UNCHANGED <<jobs, disk, work, due, crashes, answered, raced>>
    BY DEF mine
  <1>3. spent \subseteq spent' /\ spent' \subseteq Note
    BY <1>1, <1>2
  <1>4. CASE x.own /\ ~anySpent(x.job)
    <2> DEFINE d == [thread[Worker] EXCEPT !.note = "mined"]
    <2>1. /\ thread[Worker] \in Doing /\ thread[Worker].pc = "sent" /\ x.job = current
          /\ thread \in [Thread -> Doing] /\ Worker \in Thread
      BY <1>4, TypesUnfolded DEF LanderInv, Truth, current
    <2>2. thread' = [thread EXCEPT ![Worker] = d]
      BY <1>4, <2>1 DEF mine
    <2>3. d \in Doing /\ d.pc = "sent" /\ d.job = current /\ d.note = "mined"
      BY <2>1 DEF Doing, current
    <2> HIDE DEF d
    <2>4. ASSUME NEW y \in txs', y.own
          PROVE  FALSE
      <3>1. y \in txs /\ y # x /\ y \in Sent
        BY <1>1, <1>2
      <3>2. y.job = x.job
        BY <2>1, <2>4, <3>1 DEF LanderInv, Truth, current
      <3>3. y.own = TRUE /\ x.own = TRUE
        BY <1>1, <1>4, <2>4, <3>1 DEF Sent
      <3> QED
        BY <1>1, <3>1, <3>2, <3>3 DEF Sent
    <2>5. notesOf[current] \subseteq spent'
      BY <1>2, <1>4, <2>1
    <2>6. txs' \subseteq Sent
      BY <1>1, <1>2
    <2> QED
      BY <1>2, <1>3, <2>1, <2>2, <2>3, <2>4, <2>5, <2>6, SettlingKept
  <1>5. CASE ~(x.own /\ ~anySpent(x.job))
    <2>1. UNCHANGED thread
      BY <1>5 DEF mine
    <2>2. due' \subseteq Job /\ txs' \subseteq txs
      BY <1>2 DEF LanderInv, LanderTypeOK
    <2> QED
      BY <1>2, <1>3, <2>1, <2>2, SpendingKept
  <1> QED
    BY <1>4, <1>5

-----------------------------------------------------------------------------
(* The invariant, and what follows from it.                                *)

LEMMA LanderInitInv == LanderInit => LanderInv
  <1> SUFFICES ASSUME LanderInit
               PROVE  LanderInv
    OBVIOUS
  <1>1. thread = [t \in Thread |-> resting] /\ Worker \in Thread /\ Handler \subseteq Thread
    BY DEF LanderInit, Thread
  <1>2. \A t \in Thread : thread[t] \in Doing /\ thread[t].pc = "idle"
    BY <1>1, Resting
  <1>3. LanderTypeOK
    <2>1. thread \in [Thread -> Doing]
      BY <1>1, <1>2
    <2> QED
      BY <2>1, LanderAssumption DEF LanderInit, LanderTypeOK, Thread, Doing
  <1>4. Roles /\ Unanswered /\ Known
    BY <1>1, <1>2 DEF Roles, Unanswered, Known, Saving
  <1>5. Truth
    BY <1>1, <1>2 DEF LanderInit, Truth, Saving
  <1>6. Once
    BY <1>2 DEF LanderInit, Once, InOnePlace, Touches
  <1> QED
    BY <1>3, <1>4, <1>5, <1>6 DEF LanderInv

LEMMA LanderNextInv == LanderInv /\ [LanderNext]_landerVars => LanderInv'
  <1> SUFFICES ASSUME LanderInv, [LanderNext]_landerVars
               PROVE  LanderInv'
    OBVIOUS
  <1>1. ASSUME NEW h \in Handler, (\E j \in Job : do_POST(h, j)) \/ handle(h)
        PROVE  LanderInv'
    BY <1>1, DoPostKept, AdmitKept, TruncateKept, SaveKept DEF handle, Thread
  <1>2. ASSUME NEW j \in Job, take(j)
        PROVE  LanderInv'
    BY <1>2, TakeKept
  <1>3. CASE work_step
    BY <1>3, AnswerKept, BroadcastKept, TruncateKept, SaveKept DEF work_step, Thread
  <1>4. CASE restart
    BY <1>4, RestartKept
  <1>5. ASSUME NEW x \in txs, mine(x)
        PROVE  LanderInv'
    BY <1>5, MineKept
  <1>6. CASE (\E n \in Note : rival(n)) \/ (\E j \in Job : ripen(j)) \/ UNCHANGED landerVars
    BY <1>6, SpendingKept DEF rival, ripen, landerVars, LanderInv, LanderTypeOK
  <1> QED
    BY <1>1, <1>2, <1>3, <1>4, <1>5, <1>6 DEF LanderNext

THEOREM LanderInvariant == LanderSpec => []LanderInv
  BY LanderInitInv, LanderNextInv, PTL DEF LanderSpec

\* Every variable keeps its type; the queue holds natural numbers of entries.
THEOREM LanderTypeCorrect == LanderSpec => []LanderTypeOK
  <1>1. LanderInv => LanderTypeOK
    BY DEF LanderInv
  <1> QED
    BY LanderInitInv, LanderNextInv, <1>1, PTL DEF LanderSpec

\* relayer.py:276-317: whatever is reported settled, in memory or in a status file, is
\* settled on the chain, through any number of kills, rivals and late transactions.
THEOREM SettledMeansSpent == LanderSpec => []SettledIsTrue
  <1>1. LanderInv => SettledIsTrue
    BY DEF LanderInv, Truth, SettledIsTrue
  <1> QED
    BY LanderInitInv, LanderNextInv, <1>1, PTL DEF LanderSpec

\* relayer.py:276-282, which restore() relies on: a job once answered settled is never
\* broadcast again.
THEOREM SettledNeverResent == LanderSpec => SettledIsNotResent
  <1>1. ASSUME LanderInv, [LanderNext]_landerVars, NEW x \in txs' \ txs, x.own
        PROVE  x.job \notin answered
    <2>1. CASE broadcast
      <3>1. txs' = txs \cup {[job |-> current, own |-> TRUE]} /\ thread[Worker].pc = "forge"
        BY <2>1 DEF broadcast, at
      <3>2. x.job = current
        BY <1>1, <3>1
      <3> QED
        BY <1>1, <3>1, <3>2 DEF LanderInv, Unanswered, current
    <2>2. CASE restart
      <3>1. x \in orphaned \/ x = [job |-> current, own |-> FALSE]
        BY <1>1, <2>2 DEF restart
      <3> QED
        BY <1>1, <3>1, OrphanedNotOwn DEF LanderInv
    <2>3. CASE refuse
      BY <1>1, <2>3, OrphanedNotOwn DEF refuse, LanderInv
    <2>4. ASSUME NEW t, truncate(t) \/ save(t)
          PROVE  txs' = txs
      BY <2>4 DEF truncate, save
    <2>5. CASE settledBefore \/ notYet \/ settle \/ landed
      BY <1>1, <2>5 DEF settledBefore, notYet, settle, landed
    <2>6. ASSUME NEW h \in Handler, (\E j \in Job : do_POST(h, j)) \/ admit(h)
          PROVE  txs' = txs
      BY <2>6 DEF do_POST, admit
    <2>7. ASSUME NEW y \in txs, mine(y)
          PROVE  txs' \subseteq txs
      BY <2>7 DEF mine
    <2>8. CASE \/ \E j \in Job : take(j) \/ ripen(j)
               \/ \E n \in Note : rival(n)
               \/ UNCHANGED landerVars
      BY <1>1, <2>8 DEF take, ripen, rival, landerVars
    <2> QED
      BY <1>1, <2>1, <2>2, <2>3, <2>4, <2>5, <2>6, <2>7, <2>8 DEF LanderNext, handle, work_step
  <1>2. LanderInv /\ [LanderNext]_landerVars =>
          [\A x \in txs' \ txs : x.own => x.job \notin answered]_landerVars
    BY <1>1
  <1> QED
    BY LanderInitInv, LanderNextInv, <1>2, PTL DEF LanderSpec, SettledIsNotResent

\* relayer.py:229-238, 441, 460: a settled answer stays, unless the same package was
\* handed off again while its first hand-off was still being taken, or a kill came
\* before its file was written: before it was opened, and the answer is settling again,
\* or before it was filled, and the job is no longer known.
THEOREM SettledStaysSettled == LanderSpec => SettledIsFinal
  <1>1. ASSUME LanderInv, [LanderNext]_landerVars, NEW j \in Job \ raced, jobs[j] = "settled"
        PROVE  \/ jobs'[j] = "settled"
               \/ at(Worker, "truncate") /\ current = j /\ jobs'[j] = "settling"
               \/ at(Worker, "save") /\ current = j /\ jobs'[j] = "absent"
    <2>1. InOnePlace(j) /\ jobs \in [Job -> Status \cup {"absent"}]
      BY <1>1 DEF LanderInv, Once, LanderTypeOK
    <2>2. ASSUME NEW t \in Thread, thread[t].pc \in {"admit", "check", "forge", "sent"}, thread[t].job = j
          PROVE  FALSE
      BY <1>1, <2>1, <2>2 DEF InOnePlace, Touches, Fits, Unfinished
    <2>3. ASSUME NEW t, NEW k, NEW status, set_status(t, k, status), k # j \/ status = "settled"
          PROVE  jobs'[j] = "settled"
      BY <1>1, <2>1, <2>3 DEF set_status
    <2>4. ASSUME NEW h \in Handler, admit(h)
          PROVE  jobs'[j] = "settled"
      BY <2>2, <2>3, <2>4 DEF admit, at, Thread
    <2>5. CASE settledBefore \/ landed
      BY <2>3, <2>5 DEF settledBefore, landed
    <2>6. CASE notYet \/ settle \/ refuse
      <3>1. thread[Worker].pc \in {"check", "forge", "sent"} /\ Worker \in Thread
        BY <2>6 DEF notYet, settle, refuse, at, Thread
      <3>2. current # j
        BY <2>2, <3>1 DEF current
      <3> QED
        BY <2>3, <2>6, <3>2 DEF notYet, settle, refuse
    <2>7. CASE restart
      <3>1. jobs'[j] = restored(j)
        BY <2>7 DEF restart
      <3>2. CASE \A t \in Thread : ~Touches(t, j)
        <4>1. disk[j] = "settled"
          BY <1>1, <2>1, <3>2 DEF InOnePlace
        <4> QED
          BY <3>1, <4>1 DEF restored, Status
      <3>3. ASSUME NEW t \in Thread, Touches(t, j)
            PROVE  /\ t = Worker
                   /\ \/ thread[t].pc = "truncate" /\ disk[j] = "settling"
                      \/ thread[t].pc = "save" /\ disk[j] = "torn"
        <4>1. Fits(thread[t], "settled", disk[j]) /\ thread[t] \in Doing
          BY <1>1, <2>1, <3>3, TypesUnfolded DEF InOnePlace, LanderInv
        <4>2. thread[t].pc \in Saving
          BY <2>2, <3>3, <4>1 DEF Touches, Doing, Saving
        <4>3. thread[t].note = "settled"
          BY <4>1, <4>2 DEF Fits
        <4>4. t \notin Handler
          BY <1>1, <4>2, <4>3 DEF LanderInv, Roles
        <4> QED
          BY <4>1, <4>2, <4>4 DEF Thread, Fits, Saving
      <3>4. CASE \E t \in Thread : Touches(t, j)
        <4>1. /\ current = j
              /\ \/ at(Worker, "truncate") /\ disk[j] = "settling"
                 \/ at(Worker, "save") /\ disk[j] = "torn"
          BY <3>3, <3>4 DEF Touches, current, at
        <4> QED
          BY <3>1, <4>1 DEF restored, Status, Unfinished
      <3> QED
        BY <3>2, <3>4
    <2>8. ASSUME NEW t, truncate(t) \/ save(t)
          PROVE  jobs' = jobs
      BY <2>8 DEF truncate, save
    <2>9. CASE \/ \E h \in Handler, k \in Job : do_POST(h, k)
               \/ \E k \in Job : take(k) \/ ripen(k)
               \/ \E x \in txs : mine(x)
               \/ \E n \in Note : rival(n)
               \/ broadcast \/ UNCHANGED landerVars
      BY <1>1, <2>9 DEF do_POST, take, ripen, mine, rival, broadcast, landerVars
    <2> QED
      BY <1>1, <2>4, <2>5, <2>6, <2>7, <2>8, <2>9 DEF LanderNext, handle, work_step
  <1>2. LanderInv /\ [LanderNext]_landerVars =>
          [\A j \in Job \ raced :
             jobs[j] = "settled" =>
                 \/ jobs'[j] = "settled"
                 \/ at(Worker, "truncate") /\ current = j /\ jobs'[j] = "settling"
                 \/ at(Worker, "save") /\ current = j /\ jobs'[j] = "absent"]_landerVars
    BY <1>1
  <1> QED
    BY LanderInitInv, LanderNextInv, <1>2, PTL DEF LanderSpec, SettledIsFinal

-----------------------------------------------------------------------------
(* The queue.  Every entry beyond the limit is one a thread still has in     *)
(* hand, so entries and busy threads are counted together; and what a       *)
(* restart finds unfinished on disk was in the queue or in a thread's hand. *)

Busy == {t \in Thread : thread[t].pc # "idle"}
Held == {thread[t].job : t \in Busy}

\* A worker that saves an answer which a second hand-off of its job has replaced leaves
\* the job to that hand-off.
Displaced ==
    thread[Worker].pc \in Saving /\ thread[Worker].note \notin Unfinished
        /\ jobs[thread[Worker].job] \in Unfinished =>
    \/ work[thread[Worker].job] > 0
    \/ \E h \in Handler : Touches(h, thread[Worker].job)

QueueInv ==
    /\ qsize + Cardinality(Busy) <= MAX_QUEUE + Cardinality(Handler)
    /\ \A j \in Job : disk[j] \in Unfinished => work[j] > 0 \/ j \in Held

LEMMA DisplacedRests ==
    ASSUME LanderTypeOK, Displaced,
           thread'[Worker] = thread[Worker] \/ thread'[Worker].pc \notin Saving,
           jobs'[current] = jobs[current] \/ \E h \in Handler : Touches(h, current)',
           work[current] > 0 => work'[current] > 0,
           \A h \in Handler : Touches(h, current) => Touches(h, current)' \/ work'[current] > 0
    PROVE  Displaced'
  <1>1. SUFFICES ASSUME thread'[Worker] = thread[Worker], thread[Worker].pc \in Saving,
                        thread[Worker].note \notin Unfinished, jobs'[current] \in Unfinished
                 PROVE  work'[current] > 0 \/ \E h \in Handler : Touches(h, current)'
    BY DEF Displaced, current, Touches
  <1>2. CASE \E h \in Handler : Touches(h, current)'
    BY <1>2
  <1>3. CASE jobs'[current] = jobs[current]
    <2>1. work[current] > 0 \/ \E h \in Handler : Touches(h, current)
      BY <1>1, <1>3 DEF Displaced, current
    <2>2. CASE work[current] > 0
      BY <2>2
    <2>3. CASE \E h \in Handler : Touches(h, current)
      BY <2>3
    <2> QED
      BY <2>1, <2>2, <2>3
  <1> QED
    BY <1>2, <1>3

LEMMA DisplacedNext == LanderInv /\ Displaced /\ [LanderNext]_landerVars => Displaced'
  <1> SUFFICES ASSUME LanderInv, Displaced, [LanderNext]_landerVars
               PROVE  Displaced'
    OBVIOUS
  <1>1. /\ LanderTypeOK /\ thread \in [Thread -> Doing] /\ Worker \in Thread /\ current \in Job
        /\ \A h \in Handler : h \in Thread /\ h # Worker
        /\ work \in [Job -> Nat] /\ jobs \in [Job -> Status \cup {"absent"}]
    BY TypesUnfolded DEF LanderInv, LanderTypeOK, current, Doing
  <1>2. ASSUME NEW h \in Handler, (\E j \in Job : do_POST(h, j)) \/ admit(h) \/ truncate(h)
        PROVE  Displaced'
    <2>1. PICK d : thread' = [thread EXCEPT ![h] = d] /\ d.pc # "idle"
                   /\ (thread[h].pc = "idle" \/ d.job = thread[h].job)
      <3>1. CASE \E j \in Job : do_POST(h, j)
        <4>1. PICK j \in Job : do_POST(h, j)
          BY <3>1
        <4>2. [pc |-> "admit", job |-> j, note |-> "none"].pc # "idle"
          OBVIOUS
        <4> QED
          BY <4>1, <4>2 DEF do_POST, goes, at
      <3>2. CASE admit(h)
        <4> DEFINE d == [pc |-> "truncate", job |-> thread[h].job, note |-> "waiting"]
        <4>1. thread' = [thread EXCEPT ![h] = d] /\ d.pc # "idle" /\ d.job = thread[h].job
          BY <3>2 DEF admit, set_status, goes
        <4> QED
          BY <4>1
      <3>3. CASE truncate(h)
        <4> DEFINE d == [pc |-> "save", job |-> thread[h].job, note |-> thread[h].note]
        <4>1. thread' = [thread EXCEPT ![h] = d] /\ d.pc # "idle" /\ d.job = thread[h].job
          BY <3>3 DEF truncate, goes
        <4> QED
          BY <4>1
      <3> QED
        BY <1>2, <3>1, <3>2, <3>3
    <2>2. thread'[h] = d /\ \A u \in Thread \ {h} : thread'[u] = thread[u]
      BY <1>1, <2>1
    <2>3. \A u \in Handler : Touches(u, current) => Touches(u, current)'
      BY <1>1, <2>1, <2>2 DEF Touches, current
    <2>4. work' = work
      BY <1>2 DEF do_POST, admit, truncate
    <2>5. jobs'[current] = jobs[current] \/ Touches(h, current)'
      <3>1. CASE jobs' = jobs
        BY <3>1
      <3>2. CASE jobs' # jobs
        <4>1. admit(h)
          BY <1>2, <3>2 DEF do_POST, truncate
        <4>2. jobs' = [jobs EXCEPT ![thread[h].job] = "waiting"] /\ thread[h].pc = "admit"
          BY <4>1 DEF admit, set_status, at
        <4>3. CASE thread[h].job = current
          BY <1>1, <2>1, <2>2, <4>2, <4>3 DEF Touches, current
        <4>4. CASE thread[h].job # current
          BY <1>1, <4>2, <4>4
        <4> QED
          BY <4>3, <4>4
      <3> QED
        BY <3>1, <3>2
    <2>6. work[current] > 0 => work'[current] > 0
      BY <2>4
    <2> QED
      BY <1>1, <2>2, <2>3, <2>5, <2>6, DisplacedRests
  <1>3. ASSUME NEW h \in Handler, save(h)
        PROVE  Displaced'
    <2>1. /\ thread[h].note = "waiting" /\ thread[h].job \in Job /\ jobs' = jobs
          /\ work' = [work EXCEPT ![thread[h].job] = work[thread[h].job] + 1]
      BY <1>1, <1>3 DEF save, at, LanderInv, Roles, Saving, Doing
    <2>2. thread'[Worker] = thread[Worker] /\ \A u \in Handler \ {h} : thread'[u] = thread[u]
      BY <1>1, <1>3, <2>1 DEF save, rests
    <2>3. /\ work[current] > 0 => work'[current] > 0
          /\ thread[h].job = current => work'[current] > 0
      BY <1>1, <2>1
    <2>4. \A u \in Handler : Touches(u, current) => Touches(u, current)' \/ work'[current] > 0
      <3> SUFFICES ASSUME NEW u \in Handler, Touches(u, current), u # h
                   PROVE  Touches(u, current)'
        BY <2>3 DEF Touches
      <3> QED
        BY <2>2 DEF Touches, current
    <2> QED
      BY <1>1, <2>1, <2>2, <2>3, <2>4, DisplacedRests
  <1>4. CASE truncate(Worker)
    <2>1. /\ thread'[Worker].job = current /\ thread'[Worker].note = thread[Worker].note
          /\ \A u \in Handler : thread'[u] = thread[u]
          /\ jobs' = jobs /\ work' = work /\ thread[Worker].pc \in Saving
      BY <1>1, <1>4 DEF truncate, goes, current, at, Saving
    <2> QED
      BY <2>1 DEF Displaced, current, Touches
  <1>5. CASE settledBefore \/ notYet \/ settle \/ landed \/ refuse
    <2>1. PICK status : set_status(Worker, current, status)
      BY <1>5 DEF settledBefore, notYet, settle, landed, refuse
    <2>2. thread'[Worker].note = status /\ thread'[Worker].job = current /\ jobs'[current] = status
      BY <1>1, <2>1 DEF set_status, goes
    <2> QED
      BY <2>2 DEF Displaced
  <1>6. CASE save(Worker) \/ broadcast \/ restart \/ \E j \in Job : take(j)
    <2>1. thread'[Worker].pc \notin Saving
      <3>1. CASE save(Worker)
        BY <1>1, <3>1, Resting DEF save, goes, rests, Saving
      <3>2. CASE restart
        BY <1>1, <3>2, Resting DEF restart, Saving, Thread
      <3>3. CASE broadcast \/ \E j \in Job : take(j)
        BY <1>1, <3>3 DEF broadcast, take, goes, Saving
      <3> QED
        BY <1>6, <3>1, <3>2, <3>3
    <2> QED
      BY <2>1 DEF Displaced
  <1>7. ASSUME NEW x \in txs, mine(x)
        PROVE  Displaced'
    <2>1. jobs' = jobs /\ work' = work
      BY <1>7 DEF mine
    <2>2. CASE thread' = thread
      BY <2>1, <2>2 DEF Displaced, Touches
    <2>3. CASE thread' # thread
      <3>1. x.own /\ thread' = [thread EXCEPT ![Worker].note = "mined"]
        BY <1>7, <2>3 DEF mine
      <3>2. thread[Worker].pc = "sent"
        BY <1>7, <3>1 DEF LanderInv, Truth
      <3>3. thread'[Worker].pc = "sent"
        BY <1>1, <3>1, <3>2 DEF Doing
      <3> QED
        BY <3>3 DEF Displaced, Saving
    <2> QED
      BY <2>2, <2>3
  <1>8. CASE (\E n \in Note : rival(n)) \/ (\E j \in Job : ripen(j)) \/ UNCHANGED landerVars
    <2>1. jobs' = jobs /\ work' = work /\ thread' = thread
      BY <1>8 DEF rival, ripen, landerVars
    <2> QED
      BY <2>1 DEF Displaced, Touches
  <1> QED
    BY <1>1, <1>2, <1>3, <1>4, <1>5, <1>6, <1>7, <1>8 DEF LanderNext, handle, work_step

LEMMA CountsAreFinite ==
    /\ IsFiniteSet(Thread) /\ Cardinality(Thread) = Cardinality(Handler) + 1
    /\ Cardinality(Handler) \in Nat
    /\ IsFiniteSet(Busy) /\ Cardinality(Busy) \in Nat
    /\ IsFiniteSet(Held) /\ Cardinality(Held) \in Nat /\ Cardinality(Held) <= Cardinality(Busy)
  <1>1. IsFiniteSet(Thread) /\ Cardinality(Thread) = Cardinality(Handler) + 1
    BY LanderAssumption, FS_AddElement DEF Thread
  <1>2. IsFiniteSet(Busy)
    BY <1>1, FS_Subset DEF Busy
  <1>3. IsFiniteSet(Held) /\ Cardinality(Held) <= Cardinality(Busy)
    <2> DEFINE job == [t \in Busy |-> thread[t].job]
    <2>1. job \in Surjection(Busy, Held)
      BY DEF Held, Surjection
    <2> HIDE DEF job
    <2> QED
      BY <1>2, <2>1, FS_Surjection
  <1> QED
    BY <1>1, <1>2, <1>3, LanderAssumption, FS_CardinalityType

LEMMA QueueCounts ==
    ASSUME LanderTypeOK
    PROVE  qsize = SumFunctionOnSet(work, Job) /\ qsize \in Nat
  <1>1. DOMAIN work = Job /\ \A j \in Job : work[j] \in Nat
    BY DEF LanderTypeOK
  <1>2. qsize = SumFunctionOnSet(work, Job)
    BY <1>1 DEF qsize, SumFunction
  <1> QED
    BY <1>1, <1>2, SumNat, LanderAssumption

\* One more entry of a job, or one less, is one more or less in the queue.
LEMMA QueueMoves ==
    ASSUME LanderTypeOK, NEW j \in Job, NEW n \in Nat, work' = [work EXCEPT ![j] = n]
    PROVE  qsize' = qsize + (n - work[j])
  <1> DEFINE more == [work EXCEPT ![j] = n]
  <1>1. /\ \A k \in Job : work[k] \in Int /\ more[k] \in Int
        /\ \A k \in Job \ {j} : more[k] = work[k]
        /\ more[j] = n /\ DOMAIN more = Job
    BY DEF LanderTypeOK
  <1>2. work' = more
    OBVIOUS
  <1> HIDE DEF more
  <1>3. SumFunctionOnSet(more, Job) = SumFunctionOnSet(work, Job) + (more[j] - work[j])
    BY <1>1, SumChanges, LanderAssumption
  <1>4. qsize' = SumFunctionOnSet(more, Job)
    BY <1>1, <1>2 DEF qsize, SumFunction
  <1> QED
    BY <1>1, <1>3, <1>4, QueueCounts

\* A step that leaves the queue and who is busy with what.
LEMMA QueueRests ==
    ASSUME LanderTypeOK, QueueInv, work' = work,
           \A t \in Thread : /\ thread'[t].pc # "idle" <=> thread[t].pc # "idle"
                             /\ thread'[t].job = thread[t].job,
           \A j \in Job \ Held : disk'[j] = disk[j]
    PROVE  QueueInv'
  <1>1. Busy' = Busy
    BY DEF Busy
  <1>2. Held' = Held
    BY <1>1 DEF Held, Busy
  <1>3. qsize' = qsize
    BY DEF qsize
  <1> QED
    BY <1>1, <1>2, <1>3 DEF QueueInv

\* A thread takes up a job.
LEMMA QueueTakesUp ==
    ASSUME LanderTypeOK, QueueInv, NEW t \in Thread, thread[t].pc = "idle", NEW d \in Doing,
           d.pc # "idle", thread' = [thread EXCEPT ![t] = d], disk' = disk,
           \A j \in Job : j # d.job => work'[j] = work[j],
           qsize' \in Nat, qsize' + Cardinality(Busy) + 1 <= MAX_QUEUE + Cardinality(Handler)
    PROVE  QueueInv'
  <1>1. thread'[t] = d /\ \A u \in Thread \ {t} : thread'[u] = thread[u]
    BY Turns
  <1>2. Busy' = Busy \cup {t} /\ t \notin Busy
    BY <1>1 DEF Busy
  <1>3. Cardinality(Busy') = Cardinality(Busy) + 1
    BY <1>2, CountsAreFinite, FS_AddElement
  <1>4. d.job \in Held' /\ Held \subseteq Held'
    BY <1>1, <1>2 DEF Held, Busy
  <1>5. qsize' + Cardinality(Busy)' <= MAX_QUEUE + Cardinality(Handler)
    BY <1>3, CountsAreFinite
  <1>6. \A j \in Job : disk'[j] \in Unfinished => work'[j] > 0 \/ j \in Held'
    BY <1>4 DEF QueueInv
  <1> QED
    BY <1>5, <1>6 DEF QueueInv

\* A thread is done with its job, which it has put in the queue or finished.
LEMMA QueueIsLeft ==
    ASSUME LanderTypeOK, QueueInv, NEW t \in Thread, thread[t].pc # "idle",
           thread' = [thread EXCEPT ![t] = resting],
           \A j \in Job : j # thread[t].job => work'[j] = work[j] /\ disk'[j] = disk[j],
           \/ work'[thread[t].job] > 0 \/ disk'[thread[t].job] \notin Unfinished
           \/ \E u \in Thread \ {t} : Touches(u, thread[t].job),
           qsize' <= qsize + 1, qsize' \in Nat
    PROVE  QueueInv'
  <1>1. thread'[t].pc = "idle" /\ \A u \in Thread \ {t} : thread'[u] = thread[u]
    BY Turns, Resting
  <1>2. Busy' = Busy \ {t} /\ t \in Busy
    BY <1>1 DEF Busy
  <1>3. Cardinality(Busy') = Cardinality(Busy) - 1
    BY <1>2, CountsAreFinite, FS_RemoveElement
  <1>4. \A j \in Held : j # thread[t].job \/ (\E u \in Thread \ {t} : Touches(u, j)) => j \in Held'
    BY <1>1, <1>2 DEF Held, Busy, Touches
  <1>held. thread[t].job \in Held
    BY <1>2 DEF Held
  <1>5. qsize' + Cardinality(Busy)' <= MAX_QUEUE + Cardinality(Handler)
    BY <1>3, CountsAreFinite, QueueCounts, LanderAssumption DEF QueueInv
  <1>6. \A j \in Job : disk'[j] \in Unfinished => work'[j] > 0 \/ j \in Held'
    BY <1>4, <1>held DEF QueueInv
  <1> QED
    BY <1>5, <1>6 DEF QueueInv

LEMMA SetStatusInQueue ==
    ASSUME LanderTypeOK, QueueInv, NEW t \in Thread, thread[t].pc # "idle", NEW status,
           set_status(t, thread[t].job, status), work' = work
    PROVE  QueueInv'
  <1>1. thread \in [Thread -> Doing] /\ disk' = disk
    BY TypesUnfolded DEF set_status
  <1>2. /\ thread'[t].pc = "truncate" /\ thread'[t].job = thread[t].job
        /\ \A u \in Thread \ {t} : thread'[u] = thread[u]
    BY <1>1 DEF set_status, goes
  <1> QED
    BY <1>1, <1>2, QueueRests

LEMMA TruncateInQueue ==
    ASSUME LanderTypeOK, QueueInv, NEW t \in Thread, truncate(t)
    PROVE  QueueInv'
  <1>1. /\ thread \in [Thread -> Doing] /\ disk \in [Job -> Status \cup {"none", "torn"}]
        /\ thread[t].pc = "truncate" /\ work' = work
        /\ disk' = [disk EXCEPT ![thread[t].job] = "torn"]
    BY TypesUnfolded DEF truncate, at, LanderTypeOK
  <1>2. /\ thread'[t].pc = "save" /\ thread'[t].job = thread[t].job
        /\ \A u \in Thread \ {t} : thread'[u] = thread[u]
    BY <1>1 DEF truncate, goes
  <1>3. thread[t].job \in Held
    BY <1>1 DEF Held, Busy
  <1>4. \A j \in Job \ Held : disk'[j] = disk[j]
    BY <1>1, <1>3
  <1> QED
    BY <1>1, <1>2, <1>4, QueueRests

LEMMA SaveInQueue ==
    ASSUME LanderInv, Displaced, QueueInv, NEW t \in Thread, save(t)
    PROVE  QueueInv'
  <1> DEFINE j == thread[t].job
             status == thread[t].note
  <1>1. /\ thread[t].pc = "save" /\ j \in Job /\ status \in Status /\ LanderTypeOK
        /\ thread \in [Thread -> Doing]
    BY TypesUnfolded DEF LanderInv, Roles, save, at, Saving, Doing, Thread, Status, Unfinished
  <1>2. PICK content \in {status, jobs[j], "torn"} : disk' = [disk EXCEPT ![j] = content]
    BY DEF save
  <1>3. /\ work' = IF status = "waiting" THEN [work EXCEPT ![j] = work[j] + 1] ELSE work
        /\ IF status = "settling" THEN goes(t, "forge", j, "none") ELSE rests(t)
    BY DEF save
  <1>4. /\ disk \in [Job -> Status \cup {"none", "torn"}] /\ work \in [Job -> Nat]
    BY <1>1 DEF LanderTypeOK
  <1>5. \A k \in Job : k # j => disk'[k] = disk[k]
    BY <1>1, <1>2, <1>4
  <1>6. CASE status = "settling"
    <2>1. /\ thread'[t].pc = "forge" /\ thread'[t].job = j /\ work' = work
          /\ \A u \in Thread \ {t} : thread'[u] = thread[u]
      BY <1>1, <1>3, <1>6 DEF goes
    <2>2. j \in Held
      BY <1>1 DEF Held, Busy
    <2>3. \A k \in Job \ Held : disk'[k] = disk[k]
      BY <1>5, <2>2
    <2> QED
      BY <1>1, <2>1, <2>3, QueueRests
  <1>7. CASE status = "waiting"
    <2>1. work' = [work EXCEPT ![j] = work[j] + 1] /\ thread' = [thread EXCEPT ![t] = resting]
      BY <1>3, <1>7 DEF rests
    <2>2. work[j] \in Nat /\ work[j] + 1 \in Nat /\ work'[j] = work[j] + 1
      BY <1>1, <1>4, <2>1
    <2>3. qsize' = qsize + ((work[j] + 1) - work[j])
      BY <1>1, <2>1, <2>2, QueueMoves
    <2>4. qsize' = qsize + 1 /\ qsize' \in Nat
      BY <1>1, <2>2, <2>3, QueueCounts
    <2>5. \A k \in Job : k # j => work'[k] = work[k] /\ disk'[k] = disk[k]
      BY <1>4, <1>5, <2>1
    <2>6. work'[j] > 0 \/ disk'[j] \notin Unfinished
      BY <2>2
    <2>7. thread[t].pc # "idle" /\ qsize' <= qsize + 1
      BY <1>1, <2>4, QueueCounts
    <2> QED
      BY <1>1, <2>1, <2>4, <2>5, <2>6, <2>7, QueueIsLeft
  <1>8. CASE status \in {"settled", "refused"}
    <2>1. work' = work /\ thread' = [thread EXCEPT ![t] = resting]
      BY <1>3, <1>8 DEF rests
    <2>2. disk'[j] \in Unfinished => work'[j] > 0 \/ \E u \in Thread \ {t} : Touches(u, j)
      <3> SUFFICES ASSUME disk'[j] \in Unfinished
                   PROVE  work'[j] > 0 \/ \E u \in Thread \ {t} : Touches(u, j)
        OBVIOUS
      <3>1. jobs[j] \in Unfinished
        BY <1>1, <1>2, <1>4, <1>8 DEF Unfinished
      <3>2. t = Worker
        BY <1>1, <1>8, LanderAssumption DEF LanderInv, Roles, Saving, Thread
      <3>3. work[j] > 0 \/ \E h \in Handler : Touches(h, j)
        BY <1>1, <1>8, <3>1, <3>2 DEF Displaced, Saving, Unfinished
      <3>4. \A h \in Handler : h \in Thread \ {t}
        BY <1>1, <3>2, TypesUnfolded
      <3> QED
        BY <2>1, <3>3, <3>4
    <2>3. qsize' = qsize
      BY <2>1 DEF qsize
    <2>4. \A k \in Job : k # j => work'[k] = work[k] /\ disk'[k] = disk[k]
      BY <1>5, <2>1
    <2>5. thread[t].pc # "idle" /\ qsize' <= qsize + 1 /\ qsize' \in Nat
      BY <1>1, <2>3, QueueCounts
    <2> QED
      BY <1>1, <2>1, <2>2, <2>4, <2>5, QueueIsLeft
  <1> QED
    BY <1>1, <1>6, <1>7, <1>8 DEF Status, Unfinished

\* The check of do_POST leaves room for every other request thread and the worker.
LEMMA DoPostInQueue ==
    ASSUME LanderTypeOK, QueueInv, NEW h \in Handler, NEW j \in Job, do_POST(h, j)
    PROVE  QueueInv'
  <1> DEFINE d == [pc |-> "admit", job |-> j, note |-> "none"]
  <1>1. /\ h \in Thread /\ thread[h].pc = "idle" /\ d \in Doing /\ d.pc # "idle"
        /\ thread' = [thread EXCEPT ![h] = d] /\ work' = work /\ disk' = disk
        /\ qsize < MAX_QUEUE
    BY TypesUnfolded DEF do_POST, at, goes, Doing, hasRoom
  <1>2. Cardinality(Busy) <= Cardinality(Handler)
    <2>1. Busy \subseteq Thread \ {h}
      BY <1>1 DEF Busy
    <2>2. IsFiniteSet(Thread \ {h}) /\ Cardinality(Thread \ {h}) = Cardinality(Thread) - 1
      BY <1>1, CountsAreFinite, FS_RemoveElement
    <2> QED
      BY <2>1, <2>2, CountsAreFinite, FS_Subset
  <1>3. qsize' = qsize
    BY <1>1 DEF qsize
  <1>4. qsize' \in Nat /\ qsize' + Cardinality(Busy) + 1 <= MAX_QUEUE + Cardinality(Handler)
    BY <1>1, <1>2, <1>3, QueueCounts, CountsAreFinite, LanderAssumption
  <1> HIDE DEF d
  <1> QED
    BY <1>1, <1>4, QueueTakesUp

LEMMA TakeInQueue ==
    ASSUME LanderTypeOK, QueueInv, NEW j \in Job, take(j)
    PROVE  QueueInv'
  <1> DEFINE d == [pc |-> "check", job |-> j, note |-> "none"]
  <1>1. /\ Worker \in Thread /\ thread[Worker].pc = "idle" /\ d \in Doing /\ d.pc # "idle" /\ d.job = j
        /\ thread' = [thread EXCEPT ![Worker] = d] /\ disk' = disk
        /\ work[j] > 0 /\ work' = [work EXCEPT ![j] = work[j] - 1]
    BY TypesUnfolded DEF take, at, goes, Doing
  <1>2. work \in [Job -> Nat]
    BY DEF LanderTypeOK
  <1>3. work[j] \in Nat /\ work[j] - 1 \in Nat /\ \A k \in Job : k # j => work'[k] = work[k]
    BY <1>1, <1>2
  <1>4. qsize' = qsize + ((work[j] - 1) - work[j])
    BY <1>1, <1>3, QueueMoves
  <1>5. qsize' = qsize - 1 /\ qsize' + Cardinality(Busy) + 1 <= MAX_QUEUE + Cardinality(Handler)
    BY <1>3, <1>4, QueueCounts, CountsAreFinite, LanderAssumption DEF QueueInv
  <1>6. qsize' \in Nat
    <2>1. LanderTypeOK /\ work' \in [Job -> Nat] => qsize' \in Nat
      <3> SUFFICES ASSUME work' \in [Job -> Nat]
                   PROVE  qsize' \in Nat
        OBVIOUS
      <3>1. DOMAIN work' = Job /\ (\A k \in Job : work'[k] \in Nat) /\ IsFiniteSet(Job)
        BY LanderAssumption
      <3> QED
        BY <3>1, SumNat DEF qsize, SumFunction
    <2> QED
      BY <1>1, <1>2, <1>3, <2>1
  <1> HIDE DEF d
  <1> QED
    BY <1>1, <1>3, <1>5, <1>6, QueueTakesUp

\* The queue that restore rebuilds has one entry for every unfinished file, and each of
\* those was an entry, or the job of a busy thread.
LEMMA RestartInQueue ==
    ASSUME LanderTypeOK, QueueInv, restart
    PROVE  QueueInv'
  <1> DEFINE left == [j \in Job |-> IF j \in Held THEN 1 ELSE 0]
             all == [j \in Job |-> work[j] + left[j]]
  <1>1. /\ work' = [j \in Job |-> requeued(j)] /\ thread' = [t \in Thread |-> resting]
        /\ disk' = disk
    BY DEF restart, Thread
  <1>2. \A j \in Job : work'[j] = IF disk[j] \in Unfinished THEN 1 ELSE 0
    BY <1>1 DEF requeued, restored, Status, Unfinished
  <1>3. Busy' = {}
    BY <1>1, Resting DEF Busy
  <1>4. Held \subseteq Job
    BY TypesUnfolded DEF Held, Busy, Doing
  <1>5. \A j \in Job : /\ work'[j] \in Int /\ work[j] \in Nat /\ left[j] \in {0, 1}
                       /\ all[j] = work[j] + left[j] /\ all[j] \in Int /\ work'[j] <= all[j]
    BY <1>2 DEF LanderTypeOK, QueueInv
  <1> HIDE DEF all
  <1>6. SumFunctionOnSet(left, Job) = Cardinality(Held)
    BY <1>4, CountOfPart, LanderAssumption
  <1> HIDE DEF left
  <1>7. SumFunctionOnSet(all, Job) = SumFunctionOnSet(work, Job) + SumFunctionOnSet(left, Job)
    BY <1>5, SumOfSums, LanderAssumption
  <1>8. SumFunctionOnSet(work', Job) <= SumFunctionOnSet(all, Job)
    BY <1>5, SumAtMost, LanderAssumption
  <1>9. qsize' = SumFunctionOnSet(work', Job)
    BY <1>1 DEF qsize, SumFunction
  <1>10. qsize' \in Int
    BY <1>5, <1>9, SumInt, LanderAssumption
  <1>11. qsize' + Cardinality(Busy)' <= MAX_QUEUE + Cardinality(Handler)
    <2>1. Cardinality(Busy)' = 0
      BY <1>3, FS_EmptySet
    <2> QED
      BY <1>6, <1>7, <1>8, <1>9, <1>10, <2>1, QueueCounts, CountsAreFinite, LanderAssumption
      DEF QueueInv
  <1>12. \A j \in Job : disk'[j] \in Unfinished => work'[j] > 0
    BY <1>1, <1>2
  <1> QED
    BY <1>11, <1>12 DEF QueueInv

LEMMA QueueInitInv == LanderInit => QueueInv /\ Displaced
  <1> SUFFICES ASSUME LanderInit
               PROVE  QueueInv /\ Displaced
    OBVIOUS
  <1>displaced. Displaced
    BY Resting DEF LanderInit, Displaced, Saving
  <1>1. Busy = {} /\ Cardinality(Busy) = 0
    BY Resting, FS_EmptySet DEF LanderInit, Busy, Thread
  <1>2. DOMAIN work = Job /\ \A j \in Job : work[j] = 0
    BY DEF LanderInit
  <1>3. qsize = 0
    BY <1>2, SumZero, LanderAssumption DEF qsize, SumFunction
  <1> QED
    BY <1>displaced, <1>1, <1>3, CountsAreFinite, LanderAssumption DEF QueueInv, LanderInit, Unfinished

LEMMA QueueNextInv == LanderInv /\ Displaced /\ QueueInv /\ [LanderNext]_landerVars => QueueInv'
  <1> SUFFICES ASSUME LanderInv, Displaced, QueueInv, [LanderNext]_landerVars
               PROVE  QueueInv'
    OBVIOUS
  <1>1. LanderTypeOK /\ Worker \in Thread /\ Handler \subseteq Thread
        /\ thread \in [Thread -> Doing]
    BY TypesUnfolded DEF LanderInv
  <1>2. ASSUME NEW h \in Handler, NEW j \in Job, do_POST(h, j)
        PROVE  QueueInv'
    BY <1>1, <1>2, DoPostInQueue
  <1>3. ASSUME NEW h \in Handler, admit(h)
        PROVE  QueueInv'
    <2>1. thread[h].pc # "idle" /\ set_status(h, thread[h].job, "waiting") /\ work' = work
      BY <1>3 DEF admit, at
    <2> QED
      BY <1>1, <2>1, SetStatusInQueue
  <1>4. ASSUME NEW t \in Thread, truncate(t) \/ save(t)
        PROVE  QueueInv'
    BY <1>1, <1>4, TruncateInQueue, SaveInQueue
  <1>5. ASSUME NEW j \in Job, take(j)
        PROVE  QueueInv'
    BY <1>1, <1>5, TakeInQueue
  <1>6. CASE settledBefore \/ notYet \/ settle \/ landed \/ refuse
    <2>1. PICK status : set_status(Worker, thread[Worker].job, status)
      BY <1>6 DEF settledBefore, notYet, settle, landed, refuse, current
    <2>2. thread[Worker].pc # "idle" /\ work' = work
      BY <1>6 DEF settledBefore, notYet, settle, landed, refuse, at
    <2> QED
      BY <1>1, <2>1, <2>2, SetStatusInQueue
  <1>7. CASE broadcast
    <2>1. /\ thread[Worker].pc = "forge" /\ work' = work /\ disk' = disk
          /\ thread'[Worker].pc = "sent" /\ thread'[Worker].job = thread[Worker].job
          /\ \A u \in Thread \ {Worker} : thread'[u] = thread[u]
      BY <1>1, <1>7 DEF broadcast, at, goes, current
    <2> QED
      BY <1>1, <2>1, QueueRests
  <1>8. CASE restart
    BY <1>1, <1>8, RestartInQueue
  <1>9. ASSUME NEW x \in txs, mine(x)
        PROVE  QueueInv'
    <2>1. work' = work /\ disk' = disk
      BY <1>9 DEF mine
    <2>2. \A t \in Thread : thread'[t].pc = thread[t].pc /\ thread'[t].job = thread[t].job
      <3>1. CASE thread' = thread
        BY <3>1
      <3>2. CASE thread' = [thread EXCEPT ![Worker].note = "mined"]
        BY <1>1, <3>2 DEF Doing
      <3> QED
        BY <1>9, <3>1, <3>2 DEF mine
    <2> QED
      BY <1>1, <2>1, <2>2, QueueRests
  <1>10. CASE (\E n \in Note : rival(n)) \/ (\E j \in Job : ripen(j)) \/ UNCHANGED landerVars
    <2>1. work' = work /\ disk' = disk /\ thread' = thread
      BY <1>10 DEF rival, ripen, landerVars
    <2> QED
      BY <1>1, <2>1, QueueRests
  <1> QED
    BY <1>1, <1>2, <1>3, <1>4, <1>5, <1>6, <1>7, <1>8, <1>9, <1>10 DEF LanderNext, handle, work_step

\* relayer.py:35, 433, 463: whatever the threads do between the check of the queue and the put, and
\* however many unfinished files a restart puts back, the queue never holds more than
\* MAX_QUEUE entries and one for each request thread.
THEOREM QueueStaysBounded == LanderSpec => []QueueIsBounded
  <1>1. LanderInv /\ QueueInv => QueueIsBounded
    <2>1. LanderInv => qsize \in Nat
      BY QueueCounts DEF LanderInv
    <2> QED
      BY <2>1, CountsAreFinite, LanderAssumption DEF QueueInv, QueueIsBounded
  <1>2. LanderInit => LanderInv /\ Displaced /\ QueueInv
    BY LanderInitInv, QueueInitInv
  <1>3. (LanderInv /\ Displaced /\ QueueInv) /\ [LanderNext]_landerVars
          => (LanderInv /\ Displaced /\ QueueInv)'
    BY LanderNextInv, DisplacedNext, QueueNextInv
  <1> QED
    BY <1>1, <1>2, <1>3, PTL DEF LanderSpec

-----------------------------------------------------------------------------
(* The inductive invariant.                                                *)

Round == [pc : {"asleep", "compare", "send", "sent", "mined", "list", "listing"},
          seen : Nat, root : Nat, done : BOOLEAN, here : BOOLEAN, try : Nat]
Transaction == [by : Relayer, kind : {"commit", "publish"}, root : Nat, here : BOOLEAN, try : Nat]

RootTypeOK ==
    /\ phase \in Nat
    /\ inserted \in Nat /\ committed \in Nat /\ listed \subseteq Nat
    /\ round \in [Relayer -> Round]
    /\ mempool \subseteq Transaction
    /\ purse \in [balance : Nat, paid : Nat, age : Nat]
    /\ sincePaid \in Nat
    /\ faults \in Nat

\* What a lander has seen is in the tree; once its commit is mined the current root
\* covers it, and so does the root it then reads and lists.
Covered(l) ==
    /\ round[l].seen <= inserted
    /\ round[l].pc \in {"compare", "send", "sent", "mined"} => round[l].root = 0
    /\ round[l].pc = "mined" => round[l].seen <= committed
    /\ round[l].pc \in {"list", "listing"} => round[l].root >= round[l].seen
    /\ round[l].try <= faults

\* A transaction in the mempool is the one its lander waits for, or an earlier
\* attempt, between which and now a call failed.
waits(kind) == IF kind = "commit" THEN "sent" ELSE "listing"
Attempt(x) ==
    IF round[x.by].pc = waits(x.kind)
    THEN /\ x.try <= round[x.by].try
         /\ x.try = round[x.by].try => x.root = round[x.by].root /\ x.here = round[x.by].here
    ELSE x.try < faults

\* A lander that met no failure has a commit in the mempool only while it waits for it.
\* Once it moved the root in this slot with one decided here, it is in the rest of that
\* round or done with the slot; with one decided earlier, no other such is to come.
Waiting(l) ==
    l \notin faulted =>
        \A x \in mempool :
            x.by = l /\ x.kind = "commit" =>
                round[l].pc = "sent" /\ (x.here <=> round[l].here) /\ x.try = round[l].try
Owned(l) ==
    \/ round[l].pc \in {"mined", "list", "listing"} /\ round[l].here
    \/ round[l].pc = "asleep" /\ round[l].done
Moved(l) ==
    l \notin faulted =>
        /\ (\E m \in moved : m.by = l /\ m.here) => Owned(l)
        /\ (\E m \in moved : m.by = l /\ ~m.here) =>
             (round[l].pc \in {"compare", "send", "sent"} => round[l].here)

RootInv ==
    /\ RootTypeOK
    /\ committed <= inserted
    /\ purse.age = sincePaid
    /\ \A l \in Relayer : Covered(l) /\ Waiting(l) /\ Moved(l)
    /\ \A x \in mempool : Attempt(x)

-----------------------------------------------------------------------------
(* Steps of one lander.                                                    *)

LEMMA Becomes ==
    ASSUME RootTypeOK, NEW l \in Relayer, NEW r \in Round, becomes(l, r)
    PROVE  /\ round' \in [Relayer -> Round]
           /\ round'[l] = r
           /\ \A m \in Relayer \ {l} : round'[m] = round[m]
  BY DEF RootTypeOK, becomes

\* A step of l leaves what the invariant says of the other landers.
LEMMA OthersKeep ==
    ASSUME RootInv, NEW l \in Relayer, NEW r \in Round, becomes(l, r),
           inserted' = inserted, committed' \in {committed, inserted},
           \A m \in moved' : m \in moved \/ m.by = l, faulted \subseteq faulted',
           faults' \in Nat, faults' >= faults, mempool' \subseteq Transaction,
           \A x \in mempool' \ mempool : x.by = l
    PROVE  /\ \A m \in Relayer \ {l} : Covered(m)' /\ Waiting(m)' /\ Moved(m)'
           /\ \A x \in mempool' : x.by # l => Attempt(x)'
  <1>1. \A m \in Relayer \ {l} : round'[m] = round[m]
    BY Becomes DEF RootInv
  <1>2. ASSUME NEW m \in Relayer \ {l}
        PROVE  Covered(m)' /\ Waiting(m)' /\ Moved(m)'
    <2>1. round'[m] = round[m] /\ round[m] \in Round /\ Covered(m) /\ Waiting(m) /\ Moved(m)
      BY <1>1 DEF RootInv, RootTypeOK
    <2>2. Covered(m)'
      BY <2>1 DEF Covered, RootInv, RootTypeOK, Round
    <2>3. Waiting(m)'
      BY <2>1 DEF Waiting
    <2>4. Moved(m)'
      BY <2>1 DEF Moved, Owned
    <2> QED
      BY <2>2, <2>3, <2>4
  <1>3. ASSUME NEW x \in mempool', x.by # l
        PROVE  Attempt(x)'
    <2>1. x \in mempool /\ x \in Transaction /\ Attempt(x)
      BY <1>3 DEF RootInv
    <2>2. round'[x.by] = round[x.by] /\ round[x.by] \in Round
      BY <1>1, <1>3, <2>1 DEF RootInv, RootTypeOK, Transaction
    <2> QED
      BY <2>1, <2>2 DEF Attempt, RootInv, RootTypeOK, Transaction
  <1> QED
    BY <1>2, <1>3

\* So what remains to be shown of it is about l.
LEMMA StepOf ==
    ASSUME RootInv, NEW l \in Relayer, NEW r \in Round, becomes(l, r),
           UNCHANGED <<phase, poolRoots, moved>>, faulted \subseteq faulted',
           faults' \in Nat, faults' >= faults,
           mempool' \subseteq Transaction, \A x \in mempool' \ mempool : x.by = l,
           Covered(l)', Waiting(l)', Moved(l)',
           \A x \in mempool' : x.by = l => Attempt(x)'
    PROVE  RootInv'
  <1>1. RootTypeOK'
    BY Becomes DEF RootInv, RootTypeOK, poolRoots
  <1>2. inserted' = inserted /\ committed' = committed /\ purse' = purse /\ sincePaid' = sincePaid
    BY DEF poolRoots
  <1>3. /\ \A m \in Relayer \ {l} : Covered(m)' /\ Waiting(m)' /\ Moved(m)'
        /\ \A x \in mempool' : x.by # l => Attempt(x)'
    BY <1>2, OthersKeep
  <1> QED
    BY <1>1, <1>2, <1>3 DEF RootInv

\* A step that sends nothing and fails nowhere, and after which l waits for nothing.
LEMMA QuietStep ==
    ASSUME RootInv, NEW l \in Relayer, NEW r \in Round, becomes(l, r),
           UNCHANGED <<phase, poolRoots, mempool, history>>,
           round[l].pc \notin {"sent", "listing"}, r.pc \notin {"sent", "listing"},
           Covered(l)', Moved(l)'
    PROVE  RootInv'
  <1>1. round'[l] = r /\ round[l] \in Round
    BY Becomes DEF RootInv, RootTypeOK
  <1>2. Waiting(l)'
    BY <1>1 DEF Waiting, RootInv, history
  <1>3. ASSUME NEW x \in mempool', x.by = l
        PROVE  Attempt(x)'
    BY <1>1, <1>3 DEF Attempt, waits, RootInv, history
  <1> QED
    BY <1>2, <1>3, StepOf DEF RootInv, RootTypeOK, history

LEMMA Asleep ==
    /\ asleep \in Round
    /\ asleep.pc = "asleep" /\ asleep.seen = 0 /\ asleep.root = 0 /\ asleep.try = 0
    /\ ~asleep.done /\ ~asleep.here
  BY DEF asleep, Round

\* What a round becomes when it ends with the slot done.
LEMMA SlotDone ==
    ASSUME RootTypeOK, NEW l \in Relayer
    PROVE  /\ slotDone(l) \in Round
           /\ slotDone(l).pc = "asleep" /\ slotDone(l).seen = 0 /\ slotDone(l).root = 0
           /\ slotDone(l).try = 0 /\ slotDone(l).done = round[l].here
  <1>1. round[l].here \in BOOLEAN
    BY DEF RootTypeOK, Round
  <1> QED
    BY <1>1, Asleep DEF slotDone, Round

LEMMA WakeKeeps ==
    ASSUME RootInv, NEW l \in Relayer, wake(l)
    PROVE  RootInv'
  <1> DEFINE r == [asleep EXCEPT !.pc = "compare", !.seen = inserted, !.here = TRUE]
  <1>1. r \in Round /\ becomes(l, r)
    BY Asleep DEF wake, Round, RootInv, RootTypeOK
  <1>2. r.pc = "compare" /\ r.seen = inserted /\ r.root = 0 /\ r.try = 0 /\ r.here
    BY Asleep DEF Round
  <1> HIDE DEF r
  <1>3. round'[l] = r /\ round[l].pc = "asleep" /\ ~round[l].done
    BY <1>1, Becomes DEF wake, looks, is, RootInv
  <1>4. Covered(l)' /\ Moved(l)'
    BY <1>2, <1>3 DEF Covered, Moved, Owned, wake, poolRoots, history, RootInv, RootTypeOK
  <1> QED
    BY <1>1, <1>2, <1>3, <1>4, QuietStep DEF wake

LEMMA CompareKeeps ==
    ASSUME RootInv, NEW l \in Relayer, compare(l)
    PROVE  RootInv'
  <1>1. round[l] \in Round /\ round[l].pc = "compare" /\ Covered(l) /\ Moved(l)
    BY DEF compare, is, RootInv, RootTypeOK
  <1>2. CASE round[l].seen = committed
    <2> DEFINE r == slotDone(l)
    <2>1. r \in Round /\ becomes(l, r)
      BY <1>2, SlotDone DEF compare, RootInv
    <2>2. /\ round'[l].pc = "asleep" /\ round'[l].seen = 0 /\ round'[l].try = 0
          /\ round'[l].done = round[l].here
      BY <2>1, Becomes, SlotDone DEF RootInv
    <2>3. Covered(l)' /\ Moved(l)'
      BY <1>1, <2>2 DEF Covered, Moved, Owned, compare, poolRoots, history, RootInv, RootTypeOK
    <2> QED
      BY <1>1, <2>1, <2>3, SlotDone, QuietStep DEF compare, RootInv
  <1>3. CASE round[l].seen # committed
    <2> DEFINE r == [round[l] EXCEPT !.pc = "send"]
    <2>1. r \in Round /\ becomes(l, r)
      BY <1>1, <1>3 DEF compare, Round
    <2>2. round'[l] = r
      BY <2>1, Becomes DEF RootInv
    <2>3. Covered(l)' /\ Moved(l)'
      BY <1>1, <2>2 DEF Covered, Moved, Owned, compare, poolRoots, history, Round
    <2> QED
      BY <1>1, <2>1, <2>3, QuietStep DEF compare, Round
  <1> QED
    BY <1>2, <1>3

LEMMA ReadRootKeeps ==
    ASSUME RootInv, NEW l \in Relayer, readRoot(l)
    PROVE  RootInv'
  <1>1. round[l] \in Round /\ round[l].pc = "mined" /\ Covered(l) /\ Moved(l)
    BY DEF readRoot, is, RootInv, RootTypeOK
  <1> DEFINE r == [round[l] EXCEPT !.pc = "list", !.root = committed]
  <1>2. r \in Round /\ becomes(l, r)
    BY <1>1 DEF readRoot, rootToList, Round, RootInv, RootTypeOK
  <1>3. round'[l] = r
    BY <1>2, Becomes DEF RootInv
  <1>4. Covered(l)' /\ Moved(l)'
    BY <1>1, <1>3 DEF Covered, Moved, Owned, readRoot, poolRoots, history, Round, RootInv, RootTypeOK
  <1> QED
    BY <1>1, <1>2, <1>4, QuietStep DEF readRoot, Round

LEMMA SendKeeps ==
    ASSUME RootInv, NEW l \in Relayer, send(l)
    PROVE  RootInv'
  <1>1. round[l] \in Round /\ round[l].pc = "send" /\ Covered(l) /\ Waiting(l) /\ Moved(l)
    BY DEF send, is, RootInv, RootTypeOK
  <1> DEFINE r == [round[l] EXCEPT !.pc = "sent", !.try = faults]
             new == [by |-> l, kind |-> "commit", root |-> 0, here |-> round[l].here, try |-> faults]
  <1>2. r \in Round /\ becomes(l, r) /\ mempool' = mempool \cup {new} /\ new \in Transaction
    BY <1>1 DEF send, transaction, Round, Transaction, RootInv, RootTypeOK
  <1>3. /\ round'[l] = r /\ r.pc = "sent" /\ r.try = faults /\ r.root = 0
        /\ r.here = round[l].here /\ r.seen = round[l].seen
    BY <1>1, <1>2, Becomes DEF RootInv, Round, Covered
  <1>new. /\ new.by = l /\ new.kind = "commit" /\ new.root = 0
        /\ new.here = round[l].here /\ new.try = faults
    OBVIOUS
  <1> HIDE DEF r, new
  <1>4. Covered(l)'
    BY <1>1, <1>3 DEF Covered, send, poolRoots, history, RootInv, RootTypeOK
  <1>5. Waiting(l)'
    BY <1>1, <1>2, <1>3, <1>new DEF Waiting, send, history
  <1>6. Moved(l)'
    BY <1>1, <1>3 DEF Moved, Owned, send, history
  <1>7. ASSUME NEW x \in mempool', x.by = l
        PROVE  Attempt(x)'
    <2>1. CASE x \in mempool
      <3>1. x.try < faults /\ x \in Transaction
        BY <1>1, <1>7, <2>1 DEF Attempt, waits, RootInv, RootTypeOK
      <3> QED
        BY <1>3, <1>7, <3>1 DEF Attempt, send, history, Transaction, RootInv, RootTypeOK
    <2>2. CASE x = new
      BY <1>3, <1>new, <2>2 DEF Attempt, waits, RootInv, RootTypeOK
    <2> QED
      BY <1>2, <2>1, <2>2
  <1>8. /\ UNCHANGED <<phase, poolRoots, moved>> /\ faulted \subseteq faulted'
        /\ faults' \in Nat /\ faults' >= faults
        /\ mempool' \subseteq Transaction /\ \A x \in mempool' \ mempool : x.by = l
    BY <1>2, <1>new DEF send, history, RootInv, RootTypeOK
  <1> QED
    BY <1>2, <1>4, <1>5, <1>6, <1>7, <1>8, StepOf

LEMMA ResendKeeps ==
    ASSUME RootInv, NEW l \in Relayer, resend(l)
    PROVE  RootInv'
  <1>1. round[l] \in Round /\ round[l].pc = "sent" /\ Covered(l) /\ faults \in Nat
    BY DEF resend, is, RootInv, RootTypeOK
  <1> DEFINE r == [round[l] EXCEPT !.try = faults + 1]
             new == [by |-> l, kind |-> "commit", root |-> 0, here |-> round[l].here, try |-> faults + 1]
  <1>2. r \in Round /\ becomes(l, r) /\ mempool' = mempool \cup {new} /\ new \in Transaction
    BY <1>1 DEF resend, transaction, Round, Transaction
  <1>3. /\ round'[l] = r /\ r.pc = "sent" /\ r.try = faults + 1 /\ r.root = 0
        /\ r.here = round[l].here /\ r.seen = round[l].seen
    BY <1>1, <1>2, Becomes DEF RootInv, Round, Covered
  <1>new. /\ new.by = l /\ new.kind = "commit" /\ new.root = 0
        /\ new.here = round[l].here /\ new.try = faults + 1
    OBVIOUS
  <1> HIDE DEF r, new
  <1>4. faults' = faults + 1 /\ faulted' = faulted \cup {l} /\ UNCHANGED <<phase, poolRoots, moved>>
    BY DEF resend
  <1>5. Covered(l)'
    BY <1>1, <1>3, <1>4 DEF Covered, poolRoots
  <1>6. Waiting(l)' /\ Moved(l)'
    BY <1>4 DEF Waiting, Moved
  <1>7. ASSUME NEW x \in mempool', x.by = l
        PROVE  Attempt(x)'
    <2>1. CASE x \in mempool
      <3>1. x.try <= faults /\ x \in Transaction
        BY <1>1, <1>7, <2>1 DEF Attempt, waits, Covered, RootInv, RootTypeOK, Round, Transaction
      <3> QED
        BY <1>1, <1>3, <1>4, <1>7, <3>1 DEF Attempt, Transaction
    <2>2. CASE x = new
      BY <1>1, <1>3, <1>4, <1>new, <2>2 DEF Attempt, waits
    <2> QED
      BY <1>2, <2>1, <2>2
  <1>8. mempool' \subseteq Transaction /\ \A x \in mempool' \ mempool : x.by = l
    BY <1>2, <1>new DEF RootInv, RootTypeOK
  <1> QED
    BY <1>1, <1>2, <1>4, <1>5, <1>6, <1>7, <1>8, StepOf

\* A failed call and a restart: every earlier transaction of l is now an earlier attempt.
LEMMA FailureKeeps ==
    ASSUME RootInv, NEW l \in Relayer, becomes(l, asleep), faults' = faults + 1,
           faulted' = faulted \cup {l}, UNCHANGED <<phase, poolRoots, mempool, moved>>
    PROVE  RootInv'
  <1>1. asleep \in Round /\ faults \in Nat /\ round[l] \in Round /\ Covered(l)
    BY DEF asleep, Round, RootInv, RootTypeOK
  <1>2. round'[l] = asleep
    BY <1>1, Becomes DEF RootInv
  <1>3. Covered(l)'
    BY <1>1, <1>2 DEF Covered, asleep, poolRoots, RootInv, RootTypeOK
  <1>4. Waiting(l)' /\ Moved(l)'
    BY DEF Waiting, Moved
  <1>5. ASSUME NEW x \in mempool', x.by = l
        PROVE  Attempt(x)'
    <2>1. x \in Transaction /\ x.try <= faults
      BY <1>1, <1>5 DEF Attempt, Covered, RootInv, RootTypeOK, Round, Transaction
    <2> QED
      BY <1>1, <1>2, <1>5, <2>1 DEF Attempt, waits, asleep, Transaction
  <1> QED
    BY <1>1, <1>3, <1>4, <1>5, StepOf DEF RootInv, RootTypeOK

LEMMA PublishKeeps ==
    ASSUME RootInv, NEW l \in Relayer, publish(l)
    PROVE  RootInv'
  <1>1. round[l] \in Round /\ round[l].pc = "list" /\ Covered(l) /\ Waiting(l) /\ Moved(l)
    BY DEF publish, is, RootInv, RootTypeOK
  <1>2. CASE round[l].root \in listed
    <2> DEFINE r == slotDone(l)
    <2>1. r \in Round /\ becomes(l, r)
      BY <1>2, SlotDone DEF publish, RootInv
    <2>2. /\ round'[l].pc = "asleep" /\ round'[l].seen = 0 /\ round'[l].try = 0
          /\ round'[l].done = round[l].here
      BY <2>1, Becomes, SlotDone DEF RootInv
    <2>3. Covered(l)' /\ Moved(l)'
      BY <1>1, <2>2 DEF Covered, Moved, Owned, publish, poolRoots, history, RootInv, RootTypeOK
    <2> QED
      BY <1>1, <1>2, <2>1, <2>3, SlotDone, QuietStep DEF publish, RootInv
  <1>3. CASE round[l].root \notin listed
    <2> DEFINE r == [round[l] EXCEPT !.pc = "listing", !.try = faults]
               new == [by |-> l, kind |-> "publish", root |-> round[l].root,
                       here |-> round[l].here, try |-> faults]
    <2>1. r \in Round /\ becomes(l, r) /\ mempool' = mempool \cup {new} /\ new \in Transaction
      BY <1>1, <1>3 DEF publish, transaction, Round, Transaction, RootInv, RootTypeOK
    <2>2. /\ round'[l] = r /\ r.pc = "listing" /\ r.try = faults /\ r.root = round[l].root
          /\ r.here = round[l].here /\ r.seen = round[l].seen
      BY <1>1, <2>1, Becomes DEF RootInv, Round
    <2>new. /\ new.by = l /\ new.kind = "publish" /\ new.root = round[l].root
            /\ new.here = round[l].here /\ new.try = faults
      OBVIOUS
    <2> HIDE DEF r, new
    <2>3. Covered(l)'
      BY <1>1, <2>2 DEF Covered, publish, poolRoots, history, RootInv, RootTypeOK
    <2>4. Waiting(l)'
      BY <1>1, <2>1, <2>new DEF Waiting, publish, history
    <2>5. Moved(l)'
      BY <1>1, <2>2 DEF Moved, Owned, publish, history
    <2>6. ASSUME NEW x \in mempool', x.by = l
          PROVE  Attempt(x)'
      <3>1. CASE x \in mempool
        <4>1. x.try < faults /\ x \in Transaction
          BY <1>1, <2>6, <3>1 DEF Attempt, waits, RootInv, RootTypeOK
        <4> QED
          BY <2>2, <2>6, <4>1 DEF Attempt, publish, history, Transaction, RootInv, RootTypeOK
      <3>2. CASE x = new
        BY <2>2, <2>new, <3>2 DEF Attempt, waits, RootInv, RootTypeOK
      <3> QED
        BY <2>1, <3>1, <3>2
    <2>7. /\ UNCHANGED <<phase, poolRoots, moved>> /\ faulted \subseteq faulted'
          /\ faults' \in Nat /\ faults' >= faults
          /\ mempool' \subseteq Transaction /\ \A x \in mempool' \ mempool : x.by = l
      BY <2>1, <2>new DEF publish, history, RootInv, RootTypeOK
    <2> QED
      BY <2>1, <2>3, <2>4, <2>5, <2>6, <2>7, StepOf
  <1> QED
    BY <1>2, <1>3

-----------------------------------------------------------------------------
(* A transaction is mined.                                                 *)

LEMMA SameTransaction ==
    ASSUME NEW x \in Transaction, NEW y \in Transaction, x.by = y.by, x.kind = y.kind,
           x.root = y.root, x.here = y.here, x.try = y.try
    PROVE  x = y
  BY DEF Transaction

\* The three outcomes for the lander that sent it: it waits for something else, its
\* commit is in, or its root is listed.
Outcome(x, r) ==
    \/ r = round[x.by] /\ ~(round[x.by].pc = waits(x.kind) /\ x.try = round[x.by].try)
    \/ /\ x.kind = "commit" /\ round[x.by].pc = "sent" /\ x.try = round[x.by].try
       /\ r = [round[x.by] EXCEPT !.pc = "mined"]
    \/ /\ x.kind = "publish" /\ round[x.by].pc = "listing" /\ x.try = round[x.by].try
       /\ r = slotDone(x.by)

LEMMA Receipt ==
    ASSUME RootTypeOK, NEW x \in mempool, receipt(x)
    PROVE  \E r \in Round : becomes(x.by, r) /\ Outcome(x, r)
  <1>1. x \in Transaction /\ x.by \in Relayer /\ round[x.by] \in Round
    BY DEF RootTypeOK, Transaction
  <1>2. CASE x.try = round[x.by].try /\ x.kind = "commit" /\ round[x.by].pc = "sent"
    <2>1. [round[x.by] EXCEPT !.pc = "mined"] \in Round
      BY <1>1 DEF Round
    <2> QED
      BY <1>2, <2>1 DEF receipt, Outcome
  <1>3. CASE x.try = round[x.by].try /\ x.kind = "publish" /\ round[x.by].pc = "listing"
    <2>1. slotDone(x.by) \in Round
      BY <1>1, SlotDone
    <2> QED
      BY <1>3, <2>1 DEF receipt, Outcome
  <1>4. CASE ~(round[x.by].pc = waits(x.kind) /\ x.try = round[x.by].try)
    <2>1. UNCHANGED round
      BY <1>1, <1>4 DEF receipt, waits
    <2>2. becomes(x.by, round[x.by])
      BY <1>1, <2>1 DEF becomes, RootTypeOK
    <2> QED
      BY <1>1, <1>4, <2>2 DEF Outcome
  <1> QED
    BY <1>1, <1>2, <1>3, <1>4 DEF waits, Transaction

LEMMA ChainMoves ==
    ASSUME RootInv, NEW x \in mempool, mined(x)
    PROVE  /\ inserted' = inserted /\ committed' \in {committed, inserted}
           /\ x.kind = "commit" => committed' = inserted
           /\ x.kind = "publish" => committed' = committed
           /\ listed \subseteq listed' /\ listed' \subseteq Nat
           /\ x.kind = "publish" => x.root \in listed'
  <1>1. x \in Transaction
    BY DEF RootInv, RootTypeOK
  <1> QED
    BY <1>1 DEF mined, commitRoot, publishRoot, RootInv, RootTypeOK, Transaction

LEMMA PurseType ==
    ASSUME RootInv, NEW b, commitRoot(b)
    PROVE  /\ purse' \in [balance : Nat, paid : Nat, age : Nat]
           /\ sincePaid' \in Nat /\ purse'.age = sincePaid'
  <1>1. payment \in Nat /\ payment <= purse.balance
    BY RootAssumption DEF payment, RootInv, RootTypeOK
  <1>2. /\ purse \in [balance : Nat, paid : Nat, age : Nat] /\ sincePaid \in Nat
        /\ purse.age = sincePaid
    BY DEF RootInv, RootTypeOK
  <1>3. sincePaid' = IF purse'.paid = purse.paid THEN sincePaid ELSE 0
    BY DEF commitRoot
  <1>4. CASE purse' = purse
    BY <1>2, <1>3, <1>4
  <1>5. CASE purse' = afterPayment(payment) /\ payment > 0
    <2>1. purse' = [balance |-> purse.balance - payment, paid |-> purse.paid + payment, age |-> 0]
      BY <1>5 DEF afterPayment
    <2>2. purse'.paid = purse.paid + payment /\ purse'.age = 0
      BY <2>1
    <2>3. purse'.paid # purse.paid
      BY <1>1, <1>2, <1>5, <2>2
    <2> QED
      BY <1>1, <1>2, <1>3, <2>1, <2>2, <2>3
  <1> QED
    BY <1>4, <1>5, Zenon DEF commitRoot

LEMMA MinedTypes ==
    ASSUME RootInv, NEW x \in mempool, mined(x)
    PROVE  RootTypeOK'
  <1>1. x \in Transaction
    BY DEF RootInv, RootTypeOK
  <1>2. PICK r \in Round : becomes(x.by, r)
    BY Receipt DEF mined, RootInv
  <1>3. round' \in [Relayer -> Round]
    BY <1>1, <1>2, Becomes DEF RootInv, Transaction
  <1>4. purse' \in [balance : Nat, paid : Nat, age : Nat] /\ sincePaid' \in Nat
    <2>1. CASE x.kind = "commit"
      <3>1. commitRoot(x.by \in Bountied)
        BY <2>1 DEF mined
      <3> QED
        BY <3>1, PurseType
    <2>2. CASE x.kind # "commit"
      BY <2>2 DEF mined, publishRoot, RootInv, RootTypeOK
    <2> QED
      BY <2>1, <2>2
  <1> QED
    BY <1>3, <1>4, ChainMoves DEF mined, RootInv, RootTypeOK

LEMMA MinedKeeps ==
    ASSUME RootInv, NEW x \in mempool, mined(x)
    PROVE  RootInv'
  <1> DEFINE l == x.by
  <1>1. /\ x \in Transaction /\ l \in Relayer /\ round[l] \in Round
        /\ Attempt(x) /\ Covered(l) /\ Waiting(l) /\ Moved(l)
    BY DEF RootInv, RootTypeOK, Transaction
  <1>2. PICK r \in Round : becomes(l, r) /\ Outcome(x, r)
    BY Receipt DEF mined, RootInv
  <1>3. /\ mempool' = mempool \ {x}
        /\ UNCHANGED <<faults, faulted>>
        /\ moved' = IF x.kind = "commit" /\ committed # inserted
                    THEN moved \cup {[by |-> l, here |-> x.here]} ELSE moved
    BY DEF mined
  <1>4. round'[l] = r
    BY <1>1, <1>2, Becomes DEF RootInv
  <1> HIDE DEF l
  <1>5. Covered(l)'
    <2>1. CASE r = round[l]
      BY <1>1, <1>3, <1>4, <2>1, ChainMoves DEF Covered, RootInv, RootTypeOK, Round
    <2>2. CASE x.kind = "commit" /\ round[l].pc = "sent" /\ r = [round[l] EXCEPT !.pc = "mined"]
      BY <1>1, <1>3, <1>4, <2>2, ChainMoves DEF Covered, Round
    <2>3. CASE r = slotDone(l)
      BY <1>1, <1>3, <1>4, <2>3, SlotDone, ChainMoves DEF Covered, RootInv, RootTypeOK
    <2> QED
      BY <1>2, <2>1, <2>2, <2>3 DEF Outcome, l
  \* The one its lander waits for is the only one of its attempt.
  <1>6. ASSUME NEW y \in mempool', y.by = l, y.kind = x.kind, y.try = round[l].try,
               round[l].pc = waits(x.kind), x.try = round[l].try
        PROVE  FALSE
    <2>1. y \in mempool /\ y # x /\ y \in Transaction /\ Attempt(y)
      BY <1>3 DEF RootInv, RootTypeOK
    <2>2. y.root = x.root /\ y.here = x.here
      BY <1>1, <1>6, <2>1 DEF Attempt, Transaction, Round, l
    <2> QED
      BY <1>1, <1>6, <2>1, <2>2, SameTransaction DEF l
  <1>7. Waiting(l)'
    <2> SUFFICES ASSUME l \notin faulted, NEW y \in mempool',
                        y.by = l, y.kind = "commit"
                 PROVE  round'[l].pc = "sent" /\ (y.here <=> round'[l].here) /\ y.try = round'[l].try
      BY <1>3 DEF Waiting
    <2>1. round[l].pc = "sent" /\ (y.here <=> round[l].here) /\ y.try = round[l].try
      BY <1>1, <1>3 DEF Waiting
    <2>2. CASE r = round[l]
      BY <1>4, <2>1, <2>2
    <2>3. CASE x.kind = "commit" /\ x.try = round[l].try
      BY <1>6, <2>1, <2>3 DEF waits
    <2> QED
      BY <1>2, <2>1, <2>2, <2>3 DEF Outcome, l
  <1>8. Moved(l)'
    <2> SUFFICES ASSUME l \notin faulted, NEW m \in moved', m.by = l
                 PROVE  /\ m.here => Owned(l)'
                        /\ ~m.here => (r.pc \in {"compare", "send", "sent"} => r.here)
      BY <1>3, <1>4 DEF Moved
    <2>1. CASE m \in moved
      <3>1. /\ m.here => Owned(l)
            /\ ~m.here => (round[l].pc \in {"compare", "send", "sent"} => round[l].here)
        BY <1>1, <2>1 DEF Moved
      <3>2. CASE r = round[l]
        BY <1>4, <3>1, <3>2 DEF Owned
      <3>3. CASE round[l].pc = "listing" /\ r = slotDone(l)
        <4>1. r.pc = "asleep" /\ r.done = round[l].here
          BY <1>1, <3>3, SlotDone DEF RootInv
        <4> QED
          BY <1>4, <3>1, <3>3, <4>1 DEF Owned
      <3>4. CASE round[l].pc = "sent" /\ r = [round[l] EXCEPT !.pc = "mined"]
        <4>1. r.pc = "mined" /\ ~Owned(l)
          BY <1>1, <3>4 DEF Owned, Round
        <4> QED
          BY <3>1, <4>1
      <3> QED
        BY <1>2, <3>2, <3>3, <3>4 DEF Outcome, l
    <2>2. CASE m \notin moved
      <3>1. x.kind = "commit" /\ m = [by |-> l, here |-> x.here]
        BY <1>3, <2>2
      <3>2. round[l].pc = "sent" /\ (x.here <=> round[l].here) /\ x.try = round[l].try
        BY <1>1, <3>1 DEF Waiting, l
      <3>3. r = [round[l] EXCEPT !.pc = "mined"]
        BY <1>2, <3>1, <3>2 DEF Outcome, waits, l
      <3>4. r.pc = "mined" /\ (m.here => r.here)
        BY <1>1, <3>1, <3>2, <3>3 DEF Round
      <3> QED
        BY <1>4, <3>4 DEF Owned
    <2> QED
      BY <2>1, <2>2
  <1>9. ASSUME NEW y \in mempool', y.by = l
        PROVE  Attempt(y)'
    <2>1. y \in mempool /\ y \in Transaction /\ Attempt(y)
      BY <1>3 DEF RootInv, RootTypeOK
    <2>2. CASE r = round[l]
      BY <1>3, <1>4, <1>9, <2>1, <2>2 DEF Attempt
    <2>3. CASE round[l].pc = waits(x.kind) /\ x.try = round[l].try /\ r.pc \in {"mined", "asleep"}
      <3>1. y.try < faults
        <4>1. CASE y.kind = x.kind
          <5>1. y.try <= round[l].try /\ y.try # round[l].try
            BY <1>6, <1>9, <2>1, <2>3, <4>1 DEF Attempt
          <5>2. round[l].try <= faults
            BY <1>1 DEF Covered
          <5>3. y.try \in Nat /\ round[l].try \in Nat /\ faults \in Nat
            BY <1>1, <2>1 DEF Transaction, Round, RootInv, RootTypeOK
          <5> QED
            BY <5>1, <5>2, <5>3
        <4>2. CASE y.kind # x.kind
          BY <1>1, <1>9, <2>1, <2>3, <4>2 DEF Attempt, waits, Transaction
        <4> QED
          BY <4>1, <4>2
      <3> QED
        BY <1>3, <1>4, <1>9, <2>3, <3>1 DEF Attempt, waits
    <2>4. r = round[l] \/ (round[l].pc = waits(x.kind) /\ x.try = round[l].try /\ r.pc \in {"mined", "asleep"})
      <3>1. [round[l] EXCEPT !.pc = "mined"].pc = "mined"
        BY <1>1 DEF Round
      <3>2. slotDone(l).pc = "asleep"
        BY <1>1, SlotDone DEF RootInv
      <3> QED
        BY <1>2, <3>1, <3>2 DEF Outcome, waits, l
    <2> QED
      BY <2>2, <2>3, <2>4
  <1>10. /\ \A m \in Relayer \ {l} : Covered(m)' /\ Waiting(m)' /\ Moved(m)'
         /\ \A y \in mempool' : y.by # l => Attempt(y)'
    <2>1. /\ mempool' \subseteq Transaction /\ \A y \in mempool' \ mempool : y.by = l
          /\ (\A m \in moved' : m \in moved \/ m.by = l) /\ faulted \subseteq faulted'
          /\ faults' \in Nat /\ faults' >= faults
      BY <1>3 DEF RootInv, RootTypeOK
    <2> QED
      BY <1>1, <1>2, <2>1, ChainMoves, OthersKeep
  <1>11. RootTypeOK' /\ committed' <= inserted' /\ purse'.age = sincePaid'
    <2>1. purse'.age = sincePaid'
      BY PurseType DEF mined, publishRoot, RootInv
    <2> QED
      BY <2>1, MinedTypes, ChainMoves DEF RootInv, RootTypeOK
  <1> QED
    BY <1>5, <1>7, <1>8, <1>9, <1>10, <1>11 DEF RootInv

-----------------------------------------------------------------------------
(* Deposits, outsiders and the clock.                                      *)

LEMMA ChainAloneKeeps ==
    ASSUME RootInv, UNCHANGED <<phase, round, mempool, history>>,
           inserted' \in Nat, inserted' >= inserted, committed' \in Nat, committed' >= committed,
           committed' <= inserted', listed' \subseteq Nat,
           purse' \in [balance : Nat, paid : Nat, age : Nat],
           sincePaid' \in Nat, purse'.age = sincePaid'
    PROVE  RootInv'
  <1>1. RootTypeOK'
    BY DEF RootInv, RootTypeOK, history
  <1>2. ASSUME NEW l \in Relayer
        PROVE  Covered(l)' /\ Waiting(l)' /\ Moved(l)'
    <2>1. Covered(l) /\ Waiting(l) /\ Moved(l) /\ round[l] \in Round
      BY DEF RootInv, RootTypeOK
    <2> QED
      BY <2>1 DEF Covered, Waiting, Moved, Owned, history, RootInv, RootTypeOK, Round
  <1>3. ASSUME NEW x \in mempool'
        PROVE  Attempt(x)'
    BY DEF Attempt, history, RootInv
  <1> QED
    BY <1>1, <1>2, <1>3 DEF RootInv

LEMMA DepositKeeps == RootInv /\ deposit => RootInv'
  BY ChainAloneKeeps DEF deposit, RootInv, RootTypeOK

LEMMA OutsiderKeeps == RootInv /\ outsider => RootInv'
  <1> SUFFICES ASSUME RootInv, outsider
               PROVE  RootInv'
    OBVIOUS
  <1>1. CASE \E b \in BOOLEAN : commitRoot(b)
    BY <1>1, PurseType, ChainAloneKeeps DEF outsider, commitRoot, RootInv, RootTypeOK
  <1>2. CASE publishRoot(committed)
    BY <1>2, ChainAloneKeeps DEF outsider, publishRoot, RootInv, RootTypeOK
  <1> QED
    BY <1>1, <1>2 DEF outsider

LEMMA FundKeeps == RootInv /\ fund => RootInv'
  <1> SUFFICES ASSUME RootInv, fund
               PROVE  RootInv'
    OBVIOUS
  <1>1. /\ purse' \in [balance : Nat, paid : Nat, age : Nat]
        /\ purse'.age = purse.age /\ sincePaid' = sincePaid
    BY RootAssumption DEF fund, RootInv, RootTypeOK
  <1> QED
    BY <1>1, ChainAloneKeeps DEF fund, RootInv, RootTypeOK

\* The slot ends for every round and every transaction at once.
LEMMA TickKeeps == RootInv /\ tick => RootInv'
  <1> SUFFICES ASSUME RootInv, tick
               PROVE  RootInv'
    OBVIOUS
  <1>1. /\ phase' \in Nat /\ purse' \in [balance : Nat, paid : Nat, age : Nat]
        /\ sincePaid' \in Nat /\ purse'.age = sincePaid'
    <2>1. /\ phase' = (phase + 1) % ROOT_EVERY
          /\ purse' = [purse EXCEPT !.age = older(purse.age)]
          /\ sincePaid' = older(sincePaid)
      BY Zenon DEF tick
    <2>2. purse \in [balance : Nat, paid : Nat, age : Nat] /\ purse.age = sincePaid /\ sincePaid \in Nat
          /\ phase \in Nat
      BY DEF RootInv, RootTypeOK
    <2>3. older(sincePaid) \in Nat /\ older(purse.age) = older(sincePaid)
      BY <2>2, RootAssumption DEF older
    <2> QED
      BY <2>1, <2>2, <2>3, RootAssumption
  <1>2. UNCHANGED <<inserted, committed, listed, faults>>
    BY Zenon DEF tick
  <1>3. CASE ~slotEnds
    <2>1. UNCHANGED <<round, mempool, moved, faulted>>
      BY <1>3 DEF tick
    <2>2. RootTypeOK'
      BY <1>1, <1>2, <2>1 DEF RootInv, RootTypeOK
    <2> QED
      BY <1>1, <1>2, <2>1, <2>2 DEF RootInv, Covered, Waiting, Moved, Owned, Attempt
  <1>4. CASE slotEnds
    <2>1. /\ round' = [l \in Relayer |-> [round[l] EXCEPT !.done = FALSE, !.here = FALSE]]
          /\ mempool' = {[x EXCEPT !.here = FALSE] : x \in mempool}
          /\ moved' = {}
          /\ faulted' = {l \in faulted : \E x \in mempool : x.by = l}
      BY <1>4 DEF tick
    <2>2. ASSUME NEW l \in Relayer
          PROVE  /\ round'[l] \in Round /\ ~round'[l].here
                 /\ round'[l].pc = round[l].pc /\ round'[l].seen = round[l].seen
                 /\ round'[l].root = round[l].root /\ round'[l].try = round[l].try
      BY <2>1 DEF RootInv, RootTypeOK, Round
    <2>3. ASSUME NEW y \in mempool'
          PROVE  \E x \in mempool : /\ y \in Transaction /\ ~y.here
                                    /\ y.by = x.by /\ y.kind = x.kind /\ y.root = x.root /\ y.try = x.try
      <3>1. PICK x \in mempool : y = [x EXCEPT !.here = FALSE]
        BY <2>1
      <3>2. x \in Transaction
        BY DEF RootInv, RootTypeOK
      <3> QED
        BY <3>1, <3>2 DEF Transaction
    <2>4. RootTypeOK'
      <3>1. round' \in [Relayer -> Round]
        BY <2>1, <2>2
      <3>2. mempool' \subseteq Transaction
        BY <2>3
      <3> QED
        BY <1>1, <1>2, <3>1, <3>2 DEF RootInv, RootTypeOK
    <2>5. ASSUME NEW l \in Relayer
          PROVE  Covered(l)' /\ Waiting(l)' /\ Moved(l)'
      <3>1. Covered(l)
        BY DEF RootInv
      <3>2. Covered(l)'
        BY <1>2, <2>2, <3>1 DEF Covered
      <3>3. Waiting(l)'
        <4> SUFFICES ASSUME l \notin faulted', NEW y \in mempool', y.by = l, y.kind = "commit"
                     PROVE  /\ round'[l].pc = "sent" /\ (y.here <=> round'[l].here)
                            /\ y.try = round'[l].try
          BY DEF Waiting
        <4>1. PICK x \in mempool : /\ y \in Transaction /\ ~y.here
                                   /\ y.by = x.by /\ y.kind = x.kind /\ y.root = x.root /\ y.try = x.try
          BY <2>3
        <4>2. l \notin faulted
          BY <2>1, <4>1
        <4>3. round[l].pc = "sent" /\ x.try = round[l].try
          BY <4>1, <4>2 DEF RootInv, Waiting
        <4> QED
          BY <2>2, <4>1, <4>3
      <3>4. Moved(l)'
        BY <2>1 DEF Moved
      <3> QED
        BY <3>2, <3>3, <3>4
    <2>6. ASSUME NEW y \in mempool'
          PROVE  Attempt(y)'
      <3>1. PICK x \in mempool : /\ y \in Transaction /\ ~y.here
                                 /\ y.by = x.by /\ y.kind = x.kind /\ y.root = x.root /\ y.try = x.try
        BY <2>3
      <3>2. Attempt(x) /\ y.by \in Relayer
        BY <3>1 DEF RootInv, Transaction
      <3> QED
        BY <1>2, <2>2, <3>1, <3>2 DEF Attempt, Transaction, Round
    <2> QED
      BY <1>1, <1>2, <2>4, <2>5, <2>6 DEF RootInv
  <1> QED
    BY <1>3, <1>4

-----------------------------------------------------------------------------
(* The invariant, and what follows from it.                                *)

LEMMA InitInv == RootInit => RootInv
  <1> SUFFICES ASSUME RootInit
               PROVE  RootInv
    OBVIOUS
  <1>1. \A l \in Relayer : round[l] = asleep
    BY DEF RootInit
  <1>2. RootTypeOK
    BY RootAssumption, Asleep DEF RootInit, RootTypeOK
  <1>3. \A l \in Relayer : Covered(l) /\ Waiting(l) /\ Moved(l)
    BY <1>1, Asleep DEF RootInit, Covered, Waiting, Moved
  <1> QED
    BY <1>2, <1>3 DEF RootInit, RootInv

LEMMA NextInv == RootInv /\ [RootNext]_rootVars => RootInv'
  <1> SUFFICES ASSUME RootInv, [RootNext]_rootVars
               PROVE  RootInv'
    OBVIOUS
  <1>1. ASSUME NEW l \in Relayer, roundStep(l)
        PROVE  RootInv'
    BY <1>1, WakeKeeps, CompareKeeps, SendKeeps, ReadRootKeeps, PublishKeeps DEF roundStep
  <1>2. ASSUME NEW l \in Relayer, resend(l)
        PROVE  RootInv'
    BY <1>2, ResendKeeps
  <1>3. ASSUME NEW l \in Relayer, callFails(l) \/ reboot(l)
        PROVE  RootInv'
    BY <1>3, FailureKeeps DEF callFails, reboot
  <1>4. ASSUME NEW x \in mempool, mined(x)
        PROVE  RootInv'
    BY <1>4, MinedKeeps
  <1>5. CASE deposit \/ outsider \/ fund \/ tick
    BY <1>5, DepositKeeps, OutsiderKeeps, FundKeeps, TickKeeps
  <1>6. CASE UNCHANGED rootVars
    BY <1>6 DEF rootVars, RootInv, RootTypeOK, Covered, Waiting, Moved, Owned, Attempt
  <1> QED
    BY <1>1, <1>2, <1>3, <1>4, <1>5, <1>6 DEF RootNext

\* Type correctness of the rounds, the mempool, the chain and the purse, and that the
\* committed root never runs ahead of the tree.
THEOREM RootTypes == RootSpec => [](RootTypeOK /\ committed <= inserted)
  <1>1. RootInv => RootTypeOK /\ committed <= inserted
    BY DEF RootInv
  <1> QED
    BY InitInv, NextInv, <1>1, PTL DEF RootSpec

\* RootBounty.sol:13: a payment takes a root that moves and is at most the bounty, and
\* between two of them lies an interval, in any number of calls by anyone.
THEOREM BountyOnlyEarned == RootSpec => BountyIsEarned
  <1>1. ASSUME RootInv, [RootNext]_rootVars, purse'.paid # purse.paid
        PROVE  committed' > committed /\ sincePaid >= INTERVAL /\ purse'.paid - purse.paid <= BOUNTY
    <2>1. ASSUME NEW b, commitRoot(b)
          PROVE  committed' > committed /\ sincePaid >= INTERVAL /\ purse'.paid - purse.paid <= BOUNTY
      <3>1. purse' # purse
        BY <1>1
      <3>2. /\ payment > 0
            /\ purse' = [balance |-> purse.balance - payment, paid |-> purse.paid + payment, age |-> 0]
        BY <2>1, <3>1, Zenon DEF commitRoot, afterPayment
      <3>3. purse \in [balance : Nat, paid : Nat, age : Nat] /\ committed \in Nat /\ inserted \in Nat
            /\ committed <= inserted /\ purse.age = sincePaid
        BY <1>1 DEF RootInv, RootTypeOK
      <3>4. pays /\ payment <= BOUNTY /\ payment \in Nat
        BY <3>2, <3>3, RootAssumption DEF payment
      <3>5. committed' = inserted
        BY <2>1 DEF commitRoot
      <3> QED
        BY <3>2, <3>3, <3>4, <3>5, RootAssumption DEF pays
    <2>2. purse \in [balance : Nat, paid : Nat, age : Nat]
      BY <1>1 DEF RootInv, RootTypeOK
    <2>3. CASE \E l \in Relayer : roundStep(l) \/ resend(l) \/ callFails(l) \/ reboot(l)
      BY <1>1, <2>3 DEF roundStep, wake, compare, send, readRoot, publish, resend, callFails,
         reboot, poolRoots
    <2>4. ASSUME NEW x \in mempool, mined(x)
          PROVE  \E b : commitRoot(b)
      BY <1>1, <2>4 DEF mined, publishRoot
    <2>5. CASE outsider
      BY <1>1, <2>1, <2>5 DEF outsider, publishRoot
    <2>6. ~deposit /\ ~fund /\ ~tick /\ rootVars' # rootVars
      <3>1. ~deposit
        BY <1>1 DEF deposit
      <3>2. ~fund
        BY <1>1, <2>2 DEF fund
      <3>3. ~tick
        <4> SUFFICES ASSUME tick PROVE FALSE
          OBVIOUS
        <4>1. purse' = [purse EXCEPT !.age = older(purse.age)]
          BY Zenon DEF tick
        <4>2. purse'.paid = purse.paid
          BY <2>2, <4>1
        <4> QED
          BY <1>1, <4>2
      <3>4. rootVars' # rootVars
        BY <1>1 DEF rootVars
      <3> QED
        BY <3>1, <3>2, <3>3, <3>4
    <2> QED
      BY <1>1, <2>1, <2>3, <2>4, <2>5, <2>6 DEF RootNext
  <1>2. RootInv /\ [RootNext]_rootVars =>
          [purse'.paid # purse.paid =>
             /\ committed' > committed
             /\ sincePaid >= INTERVAL /\ purse'.paid - purse.paid <= BOUNTY]_rootVars
    BY <1>1
  <1> QED
    BY InitInv, NextInv, <1>2, PTL DEF RootSpec, BountyIsEarned

\* relayer.py:329-356: a lander that met no failure moves the root at most twice in a
\* slot of the clock: with a commit it decided in an earlier one, and then with the
\* slot's own, whoever else commits and however late its transactions are mined.
THEOREM AtMostLateAndOwn == RootSpec => LateThenOwnCommit
  <1>1. ASSUME RootInv, [RootNext]_rootVars, NEW x \in mempool \ mempool',
               x.kind = "commit", committed' # committed, x.by \notin faulted,
               NEW m \in moved, m.by = x.by
        PROVE  x.here /\ ~m.here
    <2>1. /\ x \in mempool /\ x.by \in Relayer /\ Waiting(x.by) /\ Moved(x.by)
      BY <1>1 DEF RootInv, RootTypeOK, Transaction
    <2>2. round[x.by].pc = "sent" /\ (x.here <=> round[x.by].here)
      BY <1>1, <2>1 DEF Waiting
    <2>3. ~Owned(x.by)
      BY <2>2 DEF Owned
    <2>4. ~m.here
      BY <1>1, <2>1, <2>3 DEF Moved
    <2>5. round[x.by].here
      BY <1>1, <2>1, <2>2, <2>4 DEF Moved
    <2> QED
      BY <2>2, <2>4, <2>5
  <1>2. RootInv /\ [RootNext]_rootVars =>
          [\A x \in mempool \ mempool' :
             x.kind = "commit" /\ committed' # committed /\ x.by \notin faulted =>
                 \A m \in moved : m.by = x.by => x.here /\ ~m.here]_rootVars
    BY <1>1
  <1> QED
    BY InitInv, NextInv, <1>2, PTL DEF RootSpec, LateThenOwnCommit

\* The one way a round with a commit ends without a failure: its root is listed.
LEMMA RoundEndsListed ==
    ASSUME RootInv, [RootNext]_rootVars, NEW l \in Relayer,
           round[l].pc \in {"list", "listing"}, round'[l].pc = "asleep", faults' = faults
    PROVE  round[l].root \in listed'
  <1>1. faults \in Nat /\ round[l] \in Round
    BY DEF RootInv, RootTypeOK
  <1>2. ASSUME NEW m \in Relayer, roundStep(m)
        PROVE  round[l].root \in listed'
    <2>1. CASE m = l
      <3>1. publish(l)
        BY <1>2, <2>1 DEF roundStep, wake, looks, compare, send, readRoot, is
      <3>2. CASE round[l].root \in listed
        BY <3>1, <3>2 DEF publish, poolRoots
      <3>3. CASE round[l].root \notin listed
        <4>1. becomes(l, [round[l] EXCEPT !.pc = "listing", !.try = faults])
          BY <3>1, <3>3 DEF publish
        <4>2. [round[l] EXCEPT !.pc = "listing", !.try = faults] \in Round
          BY <1>1 DEF Round
        <4>3. round'[l].pc = "listing"
          BY <1>1, <4>1, <4>2, Becomes DEF RootInv, Round
        <4> QED
          BY <4>3
      <3> QED
        BY <3>2, <3>3
    <2>2. CASE m # l
      <3>1. \E r : becomes(m, r)
        BY <1>2 DEF roundStep, wake, compare, send, readRoot, publish
      <3>2. round'[l] = round[l]
        BY <2>2, <3>1 DEF becomes, RootInv, RootTypeOK
      <3> QED
        BY <3>2
    <2> QED
      BY <2>1, <2>2
  <1>3. ASSUME NEW x \in mempool, mined(x)
        PROVE  round[l].root \in listed'
    <2>1. x \in Transaction /\ x.by \in Relayer /\ round[x.by] \in Round /\ Attempt(x)
      BY DEF RootInv, RootTypeOK, Transaction
    <2>2. PICK r \in Round : becomes(x.by, r) /\ Outcome(x, r)
      BY <1>3, Receipt DEF mined, RootInv
    <2>3. x.by = l /\ round'[l] = r
      BY <2>1, <2>2, Becomes DEF RootInv
    <2>4. x.kind = "publish" /\ round[l].pc = "listing" /\ x.try = round[l].try
      <3>1. [round[l] EXCEPT !.pc = "mined"].pc = "mined"
        BY <1>1 DEF Round
      <3> QED
        BY <2>2, <2>3, <3>1 DEF Outcome
    <2>5. x.root = round[l].root
      BY <2>1, <2>3, <2>4 DEF Attempt, waits
    <2> QED
      BY <1>3, <2>4, <2>5, ChainMoves
  <1>4. ASSUME NEW m \in Relayer, resend(m) \/ callFails(m) \/ reboot(m)
        PROVE  FALSE
    BY <1>1, <1>4 DEF resend, callFails, reboot
  <1>5. CASE deposit \/ outsider \/ fund \/ UNCHANGED rootVars
    BY <1>5 DEF deposit, outsider, fund, rootVars
  <1>6. ~tick
    <2> SUFFICES ASSUME tick PROVE FALSE
      OBVIOUS
    <2>1. CASE slotEnds
      <3>1. round' = [m \in Relayer |-> [round[m] EXCEPT !.done = FALSE, !.here = FALSE]]
        BY <2>1 DEF tick
      <3> QED
        BY <1>1, <3>1 DEF Round
    <2>2. CASE ~slotEnds
      <3>1. UNCHANGED round
        BY <2>2 DEF tick
      <3> QED
        BY <3>1
    <2> QED
      BY <2>1, <2>2
  <1> QED
    BY <1>2, <1>3, <1>4, <1>5, <1>6 DEF RootNext

\* relayer.py:348-352: when a round reports "root committed and published", the
\* registry has a root over every leaf the lander saw when it decided, although it
\* reads the root after its commit, when others may have committed again.
THEOREM ReportsAreListed == RootSpec => ReportedIsListed
  <1>1. ASSUME RootInv, [RootNext]_rootVars, NEW l \in Relayer,
               round[l].pc \in {"list", "listing"}, round'[l].pc = "asleep", faults' = faults
        PROVE  \E root \in listed' : root >= round[l].seen
    <2>1. round[l].root \in listed'
      BY <1>1, RoundEndsListed
    <2>2. round[l].root >= round[l].seen
      BY <1>1 DEF RootInv, Covered
    <2> QED
      BY <2>1, <2>2
  <1>2. RootInv /\ [RootNext]_rootVars =>
          [\A l \in Relayer :
             round[l].pc \in {"list", "listing"} /\ round'[l].pc = "asleep" /\ faults' = faults =>
                 \E root \in listed' : root >= round[l].seen]_rootVars
    BY <1>1
  <1> QED
    BY InitInv, NextInv, <1>2, PTL DEF RootSpec, ReportedIsListed
=============================================================================
