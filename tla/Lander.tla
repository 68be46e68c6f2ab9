------------------------------- MODULE Lander -------------------------------
(***************************************************************************)
(* lander/relayer.py: hand-offs taken over HTTP by one thread per request,  *)
(* a settlement queue drained by one worker, a status file per job, and a  *)
(* process that may be killed at any instant and started again.            *)
(*                                                                         *)
(* A job is a hand-off, named by the hash of all it holds; it spends two    *)
(* notes, and other jobs or other landers may spend them too.  A status    *)
(* is set in memory, then its file is truncated, then written, a step each. *)
(* "waiting" is queued or scheduled: the queue is a bag here, and when the *)
(* job is due is left open.  A chain call may fail at any time, which the  *)
(* worker answers with a refusal.  answered and raced are history.         *)
(***************************************************************************)
EXTENDS Naturals, FiniteSets, Functions

CONSTANTS
    Job, Note, notesOf,
    Timed,              \* the jobs whose proof has a not-before time still to come
    Handler, Worker,    \* the request threads and the settlement thread
    MAX_QUEUE,
    MaxCrashes          \* bound: how often the process is killed

ASSUME LanderAssumption ==
    /\ Job # {} /\ notesOf \in [Job -> (SUBSET Note) \ {{}}]
    /\ Timed \subseteq Job
    /\ IsFiniteSet(Job) /\ IsFiniteSet(Handler)
    /\ Worker \notin Handler
    /\ MAX_QUEUE \in Nat /\ MaxCrashes \in Nat

VARIABLES
    jobs,               \* the status in memory, "absent" for a job not in jobs
    disk,               \* status.json: "none", "torn" while it is rewritten, or a status
    work,               \* the queue: how many entries each job has
    thread,             \* what each thread does, for which job, and what it saves or heard
    spent, txs,         \* the chain: spent notes, and the lander's transactions in the mempool
    due,                \* the jobs whose not-before time every node agrees has come
    crashes,
    answered,           \* the jobs ever reported settled
    raced               \* the jobs handed off again before the first hand-off was in

landerVars == <<jobs, disk, work, thread, spent, txs, due, crashes, answered, raced>>

Unfinished == {"waiting", "settling"}
Status == Unfinished \cup {"settled", "refused"}
resting == [pc |-> "idle", job |-> CHOOSE j \in Job : TRUE, note |-> "none"]

at(t, pc) == thread[t].pc = pc
goes(t, pc, j, note) == thread' = [thread EXCEPT ![t] = [pc |-> pc, job |-> j, note |-> note]]
rests(t) == thread' = [thread EXCEPT ![t] = resting]

LanderInit ==
    /\ jobs = [j \in Job |-> "absent"]
    /\ disk = [j \in Job |-> "none"]
    /\ work = [j \in Job |-> 0]
    /\ thread = [t \in Handler \cup {Worker} |-> resting]
    /\ spent = {} /\ txs = {}
    /\ due = Job \ Timed
    /\ crashes = 0 /\ answered = {} /\ raced = {}

-----------------------------------------------------------------------------
(* set_status and save: the status is set in memory, where it is answered   *)
(* from, while the file still has the older one; save opens the file, which *)
(* empties it, and then fills it.  A kill may fall between any two of these. *)
(* A status that waits goes to the queue after the last of them.            *)

set_status(t, j, status) ==
    /\ jobs' = [jobs EXCEPT ![j] = status]
    /\ answered' = IF status = "settled" THEN answered \cup {j} ELSE answered
    /\ goes(t, "truncate", j, status)
    /\ UNCHANGED disk

truncate(t) ==
    /\ at(t, "truncate")
    /\ disk' = [disk EXCEPT ![thread[t].job] = "torn"]
    /\ goes(t, "save", thread[t].job, thread[t].note)
    /\ UNCHANGED <<jobs, work, spent, txs, due, crashes, answered, raced>>

\* A thread writes a copy of what memory has, its own status or another thread's
\* later one; two threads that save one job also write over each other, and the
\* later may leave the tail of the longer content.  No thread reads the file, so
\* the put that follows a status that waits is part of this step.
save(t) ==
    /\ at(t, "save")
    /\ LET j == thread[t].job  status == thread[t].note
       IN /\ \E content \in {status, jobs[j]} \cup (IF disk[j] = "torn" THEN {} ELSE {"torn"}) :
               disk' = [disk EXCEPT ![j] = content]
          /\ work' = IF status = "waiting" THEN [work EXCEPT ![j] = @ + 1] ELSE work
          /\ IF status = "settling" THEN goes(t, "forge", j, "none") ELSE rests(t)
    /\ UNCHANGED <<jobs, spent, txs, due, crashes, answered, raced>>

-----------------------------------------------------------------------------
(* do_POST.  A job already in memory is answered with its status.          *)

qsize == SumFunction(work)
hasRoom_orEqual == qsize <= MAX_QUEUE
hasRoom == qsize < MAX_QUEUE

unknown_always(j) == TRUE
unknown(j) == jobs[j] = "absent"

do_POST(h, j) ==
    /\ at(h, "idle")
    /\ unknown(j)
    /\ hasRoom
    /\ goes(h, "admit", j, "none")
    /\ raced' = IF \E t \in Handler : thread[t] = [pc |-> "admit", job |-> j, note |-> "none"]
                THEN raced \cup {j} ELSE raced
    /\ UNCHANGED <<jobs, disk, work, spent, txs, due, crashes, answered>>

\* The files are written and the job enters jobs, whatever came in between.
admit(h) ==
    /\ at(h, "admit")
    /\ set_status(h, thread[h].job, "waiting")
    /\ UNCHANGED <<work, spent, txs, due, crashes, raced>>

-----------------------------------------------------------------------------
(* worker and settle.                                                      *)

current == thread[Worker].job
anySpent(j) == notesOf[j] \cap spent # {}
allSpent(j) == notesOf[j] \subseteq spent

take(j) ==
    /\ at(Worker, "idle")
    /\ work[j] > 0
    /\ work' = [work EXCEPT ![j] = @ - 1]
    /\ goes(Worker, "check", j, "none")
    /\ UNCHANGED <<jobs, disk, spent, txs, due, crashes, answered, raced>>

\* All its notes are spent and it was being settled: sent before a restart.
sentBefore_anyNote(j) == anySpent(j) /\ jobs[j] = "settling"
sentBefore(j) == allSpent(j) /\ jobs[j] = "settling"

settledBefore ==
    /\ at(Worker, "check")
    /\ sentBefore(current)
    /\ set_status(Worker, current, "settled")
    /\ UNCHANGED <<work, spent, txs, due, crashes, raced>>

\* The chain's latest block, or forge's simulation at the boundary, says not yet.
notYet ==
    /\ at(Worker, "forge") \/ (at(Worker, "check") /\ ~anySpent(current))
    /\ current \notin due
    /\ set_status(Worker, current, "waiting")
    /\ UNCHANGED <<work, spent, txs, due, crashes, raced>>

fresh_unchecked(j) == TRUE
fresh(j) == ~anySpent(j)

settle ==
    /\ at(Worker, "check")
    /\ fresh(current)
    /\ set_status(Worker, current, "settling")
    /\ UNCHANGED <<work, spent, txs, due, crashes, raced>>

\* forge simulates on a node that may be behind, and broadcasts.
broadcast ==
    /\ at(Worker, "forge")
    /\ txs' = txs \cup {[job |-> current, own |-> TRUE]}
    /\ goes(Worker, "sent", current, "none")
    /\ UNCHANGED <<jobs, disk, work, spent, due, crashes, answered, raced>>

landed ==
    /\ at(Worker, "sent") /\ thread[Worker].note = "mined"
    /\ set_status(Worker, current, "settled")
    /\ UNCHANGED <<work, spent, txs, due, crashes, raced>>

orphaned == {[job |-> x.job, own |-> FALSE] : x \in txs}

\* A refusal: a note is spent, the root is not known, the pool reverts, or any
\* exception, a chain call or forge timing out among them, with its transaction
\* perhaps still to be mined.
refuse ==
    /\ thread[Worker].pc \in {"check", "forge", "sent"}
    /\ set_status(Worker, current, "refused")
    /\ txs' = orphaned
    /\ UNCHANGED <<work, spent, due, crashes, raced>>

-----------------------------------------------------------------------------
(* The process is killed, and restore reads the status files.  forge may   *)
(* outlive it for one broadcast.                                           *)

restored(j) == IF disk[j] \in Status THEN disk[j] ELSE "absent"

requeued_waitingOnly(j) == IF restored(j) = "waiting" THEN 1 ELSE 0
requeued(j) == IF restored(j) \in Unfinished THEN 1 ELSE 0

restart ==
    /\ crashes < MaxCrashes
    /\ crashes' = crashes + 1
    /\ jobs' = [j \in Job |-> restored(j)]
    /\ work' = [j \in Job |-> requeued(j)]
    /\ thread' = [t \in Handler \cup {Worker} |-> resting]
    /\ \/ txs' = orphaned
       \/ at(Worker, "forge") /\ txs' = orphaned \cup {[job |-> current, own |-> FALSE]}
    /\ UNCHANGED <<disk, spent, due, answered, raced>>

-----------------------------------------------------------------------------
(* The chain.                                                              *)

\* A transaction is mined: it settles its job, or reverts on a spent note.
mine(x) ==
    /\ x \in txs
    /\ txs' = txs \ {x}
    /\ spent' = IF anySpent(x.job) THEN spent ELSE spent \cup notesOf[x.job]
    /\ thread' = IF x.own /\ ~anySpent(x.job)
                 THEN [thread EXCEPT ![Worker].note = "mined"] ELSE thread
    /\ UNCHANGED <<jobs, disk, work, due, crashes, answered, raced>>

\* Another lander, or the notes' owner, settles something that spends a note.
rival(n) ==
    /\ n \notin spent
    /\ spent' = spent \cup {n}
    /\ UNCHANGED <<jobs, disk, work, thread, txs, due, crashes, answered, raced>>

ripen(j) ==
    /\ j \notin due
    /\ due' = due \cup {j}
    /\ UNCHANGED <<jobs, disk, work, thread, spent, txs, crashes, answered, raced>>

-----------------------------------------------------------------------------
handle(h) == admit(h) \/ truncate(h) \/ save(h)

work_step == settledBefore \/ notYet \/ settle \/ broadcast \/ landed \/ refuse
               \/ truncate(Worker) \/ save(Worker)

LanderNext ==
    \/ \E h \in Handler : (\E j \in Job : do_POST(h, j)) \/ handle(h)
    \/ (\E j \in Job : take(j)) \/ work_step
    \/ restart
    \/ \E x \in txs : mine(x)
    \/ \E n \in Note : rival(n)
    \/ \E j \in Job : ripen(j)

\* The threads run, forge and every chain call end within their timeouts, and
\* time passes.  Jobs leave the queue in order of their due time, and one that
\* is put back is due after those already due, so none is passed over for ever.
LanderFairness ==
    /\ \A h \in Handler : WF_landerVars(handle(h))
    /\ WF_landerVars(work_step)
    /\ \A j \in Job : SF_landerVars(take(j)) /\ WF_landerVars(ripen(j))

LanderSpec == LanderInit /\ [][LanderNext]_landerVars /\ LanderFairness

-----------------------------------------------------------------------------
(* Properties.                                                             *)

LanderTypeOK ==
    /\ jobs \in [Job -> Status \cup {"absent"}]
    /\ disk \in [Job -> Status \cup {"none", "torn"}]
    /\ work \in [Job -> Nat]
    /\ thread \in [Handler \cup {Worker} ->
                     [pc : {"idle", "admit", "truncate", "save", "check", "forge", "sent"},
                      job : Job, note : Status \cup {"none", "mined"}]]
    /\ spent \subseteq Note /\ due \subseteq Job /\ txs \subseteq [job : Job, own : BOOLEAN]
    /\ crashes \in 0 .. MaxCrashes
    /\ answered \subseteq Job /\ raced \subseteq Job

\* A job is reported settled, in memory or in its file, only once all its notes
\* are spent on the chain, restarts and lost transactions included.
SettledIsTrue ==
    \A j \in Job : "settled" \in {jobs[j], disk[j]} => notesOf[j] \subseteq spent

\* A job reported settled is never sent again: restore() relies on settle()
\* finding the notes spent, also when its file still says it is unfinished.
SettledIsNotResent ==
    [][\A x \in txs' \ txs : x.own => x.job \notin answered]_landerVars

\* A settled answer is final once its file is written.  Before that a kill undoes
\* it: to settling, from the file not opened yet, or to a job that is not known,
\* from the emptied one; and a second hand-off of the same package, taken before
\* the first had entered jobs, may undo it at any time.
SettledIsFinal ==
    [][\A j \in Job \ raced :
         jobs[j] = "settled" =>
             \/ jobs'[j] = "settled"
             \/ at(Worker, "truncate") /\ current = j /\ jobs'[j] = "settling"
             \/ at(Worker, "save") /\ current = j /\ jobs'[j] = "absent"]_landerVars

\* The queue check is a read that other threads overtake: the queue holds at most
\* one entry per request thread and one put back by the worker beyond its limit.
QueueIsBounded == qsize <= MAX_QUEUE + Cardinality(Handler)

\* A hand-off that entered the queue is settled or refused in the end, or its
\* status file was torn and the lander no longer knows it, so that the wallet may
\* hand it off again: none waits for ever.
AcceptedIsAnswered ==
    \A j \in Job : jobs[j] \in Unfinished ~> jobs[j] \in {"settled", "refused", "absent"}

\* restore() at relayer.py:460 says that after a restart "unfinished ones run
\* again".  One that was answered 202, and whose status file is being rewritten
\* when the process is killed, is skipped.
UnfinishedRunAgain ==
    [][\A j \in Job :
         jobs[j] \in Unfinished /\ (\A h \in Handler : at(h, "idle") \/ thread[h].job # j) =>
             jobs'[j] # "absent"]_landerVars
=============================================================================
