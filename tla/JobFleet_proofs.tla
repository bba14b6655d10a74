---------------------------- MODULE JobFleet_proofs ----------------------------
(***************************************************************************)
(* What holds of JobFleet for every set of jobs, workers and tasks.        *)
(***************************************************************************)
EXTENDS JobFleet, FiniteSetTheorems, TLAPS

(* The typing of the constants that proofs ask for.                        *)
LEMMA CountedIsNatural ==
  ASSUME NEW n \in Nat
  PROVE  Counted(n) \in Nat /\ Counted(n) <= n + 1
  BY DEF Counted

(* The messages that a dying worker leaves behind can be counted.          *)
LEMMA UnackedIsCountable ==
  ASSUME NEW w, NEW j
  PROVE  Cardinality(UnackedBy(w, j)) \in Nat
<1>1. UnackedBy(w, j) \subseteq Slots
  BY DEF UnackedBy, SlotsOf
<1>2. IsFiniteSet(UnackedBy(w, j))
  BY <1>1, FS_Subset, ConstantsAssumption
<1> QED
  BY <1>2, FS_CardinalityType

(* Before the first job the queue is empty and all tasks idle.             *)
LEMMA TypeHoldsInitially == Init => TypeOK
  BY ConstantsAssumption DEF Init, TypeOK, Statuses, Places, ACTIVE_JOB_STATUSES

(* Every action writes values of the columns' and variables' types.        *)
LEMMA TypeIsPreserved == TypeOK /\ [Next]_vars => TypeOK'
<1> SUFFICES ASSUME TypeOK, [Next]_vars
             PROVE  TypeOK'
  OBVIOUS
<1> USE ConstantsAssumption
<1>1. ASSUME NEW j \in Jobs, CreateJob(j) PROVE TypeOK'
  BY <1>1 DEF TypeOK, CreateJob, tick, queue, worker, Statuses, ACTIVE_JOB_STATUSES
<1>2. ASSUME NEW j \in Jobs, EnqueueCreated(j) PROVE TypeOK'
  BY <1>2 DEF TypeOK, EnqueueCreated, Send, row, tick, worker
<1>3. ASSUME NEW j \in Jobs, DispatchDies(j) PROVE TypeOK'
  BY <1>3 DEF TypeOK, DispatchDies, row, tick, queue, worker
<1>4. ASSUME NEW j \in Jobs, RequestCancel(j) PROVE TypeOK'
  BY <1>4 DEF TypeOK, RequestCancel, row, tick, queue, worker
<1>5. ASSUME NEW j \in Jobs, CommitCancel(j) PROVE TypeOK'
  BY <1>5 DEF TypeOK, CommitCancel, tick, queue, worker, Statuses, Settled
<1>6. ASSUME NEW j \in Jobs, CheckDelete(j) PROVE TypeOK'
  BY <1>6 DEF TypeOK, CheckDelete, row, tick, queue, worker
<1>7. ASSUME NEW j \in Jobs, CommitDelete(j) PROVE TypeOK'
  BY <1>7 DEF TypeOK, CommitDelete, tick, queue, worker, Statuses
<1>8. ASSUME NEW j \in Jobs, Lapse(j) PROVE TypeOK'
  BY <1>8 DEF TypeOK, Lapse, admin, tick, queue, worker
<1>9. ASSUME Reap PROVE TypeOK'
  <2>1. retry' \in [Jobs -> Nat]
    BY <1>9, CountedIsNatural DEF TypeOK, Reap
  <2>2. status' \in [Jobs -> Statuses]
    BY <1>9 DEF TypeOK, Reap, Statuses, ACTIVE_JOB_STATUSES, Settled
  <2> QED
    BY <1>9, <2>1, <2>2 DEF TypeOK, Reap, admin, tick, queue, worker
<1>10. ASSUME ListRetries PROVE TypeOK'
  BY <1>10 DEF TypeOK, ListRetries, row, admin, queue, worker
<1>11. ASSUME NEW j \in Jobs, SkipRetry(j) PROVE TypeOK'
  BY <1>11 DEF TypeOK, SkipRetry, row, admin, queue, worker
<1>12. ASSUME NEW j \in Jobs, CommitRetry(j) PROVE TypeOK'
  BY <1>12 DEF TypeOK, CommitRetry, admin, queue, worker, Statuses, ACTIVE_JOB_STATUSES
<1>13. ASSUME EnqueueRetry PROVE TypeOK'
  BY <1>13 DEF TypeOK, EnqueueRetry, Send, row, admin, worker
<1>14. ASSUME SchedulerDies PROVE TypeOK'
  BY <1>14 DEF TypeOK, SchedulerDies, row, admin, queue, worker
<1>15. ASSUME NEW s \in Slots, NEW j \in Jobs, Receive(s, j) PROVE TypeOK'
  BY <1>15 DEF TypeOK, Receive, row, admin, tick, Places
<1>16. ASSUME NEW s \in Slots, ExpireHeld(s) PROVE TypeOK'
  <2>1. CASE job[s] \in Jobs
    BY <1>16, <2>1 DEF TypeOK, ExpireHeld, row, admin, tick
  <2>2. CASE job[s] \notin Jobs
    <3>1. ready' = ready
      BY <1>16, <2>2 DEF TypeOK, ExpireHeld
    <3>2. receipt' \in [Slots -> BOOLEAN]
      BY <1>16 DEF TypeOK, ExpireHeld
    <3>3. UNCHANGED <<row, admin, tick, orphan, pc, job, seen, stop>>
      BY <1>16 DEF ExpireHeld
    <3> QED
      BY <3>1, <3>2, <3>3 DEF TypeOK, row, admin, tick
  <2> QED
    BY <2>1, <2>2
<1>17. ASSUME NEW j \in Jobs, ExpireOrphan(j) PROVE TypeOK'
  BY <1>17 DEF TypeOK, ExpireOrphan, row, admin, tick, worker
<1>18. ASSUME NEW s \in Slots, Start(s) PROVE TypeOK'
  <2>1. job[s] \in Jobs
    BY <1>18 DEF TypeOK, Start
  <2>2. CASE status[job[s]] = "deleted"
    BY <1>18, <2>1, <2>2 DEF TypeOK, Start, row, admin, tick, queue, Places
  <2>3. CASE status[job[s]] # "deleted"
    <3>1. /\ status' \in [Jobs -> Statuses]
          /\ beat' \in [Jobs -> {"fresh", "stale"}]
      BY <1>18, <2>1, <2>3 DEF TypeOK, Start, Statuses, ACTIVE_JOB_STATUSES
    <3>2. seen' \in [Slots -> Nat]
      BY <1>18, <2>1, <2>3 DEF TypeOK, Start
    <3>3. /\ pc' \in [Slots -> Places]
          /\ stop' \in [Slots -> BOOLEAN]
          /\ \A t \in Slots : pc'[t] # "idle" => job'[t] \in Jobs
      BY <1>18, <2>3 DEF TypeOK, Start, Places
    <3> QED
      BY <1>18, <2>3, <3>1, <3>2, <3>3 DEF TypeOK, Start, admin, tick, queue
  <2> QED
    BY <2>2, <2>3
<1>19. ASSUME NEW s \in Slots, NEW st \in Statuses, NEW n \in Nat,
              pc[s] # "idle", WriteOutcome(s, st, n)
       PROVE  TypeOK'
  BY <1>19 DEF TypeOK, WriteOutcome, admin, tick, queue, Places
<1>20. ASSUME NEW s \in Slots, pc[s] # "idle", CountedFailure(s) PROVE TypeOK'
  <2>1. Counted(seen[s]) \in Nat
    BY CountedIsNatural DEF TypeOK
  <2> QED
    BY <1>19, <1>20, <2>1 DEF CountedFailure, Statuses, ACTIVE_JOB_STATUSES, Settled
<1>21. ASSUME NEW s \in Slots, NEW st \in Statuses,
              pc[s] # "idle", WriteOutcome(s, st, KeepRetry(s))
       PROVE  TypeOK'
  <2>1. KeepRetry(s) \in Nat
    BY <1>21 DEF TypeOK, KeepRetry
  <2> QED
    BY <1>19, <1>21, <2>1
<1>22. ASSUME NEW s \in Slots, Acquire(s) PROVE TypeOK'
  BY <1>22 DEF TypeOK, Acquire, row, admin, tick, queue, Places
<1>23. ASSUME NEW s \in Slots, PoolEmpty(s) PROVE TypeOK'
  BY <1>20, <1>21, <1>23 DEF PoolEmpty, Statuses, ACTIVE_JOB_STATUSES
<1>24. ASSUME NEW s \in Slots, Heartbeat(s) PROVE TypeOK'
  BY <1>24 DEF TypeOK, Heartbeat, Attempting, admin, tick, queue
<1>25. ASSUME NEW s \in Slots, PassLastCheck(s) PROVE TypeOK'
  BY <1>25 DEF TypeOK, PassLastCheck, row, admin, tick, queue, Places
<1>26. ASSUME NEW s \in Slots, Complete(s) PROVE TypeOK'
  BY <1>21, <1>26 DEF Complete, Statuses, Settled
<1>27. ASSUME NEW s \in Slots, HonourCancel(s) PROVE TypeOK'
  BY <1>21, <1>27 DEF HonourCancel, Statuses, Settled
<1>28. ASSUME NEW s \in Slots, Fail(s) PROVE TypeOK'
  BY <1>20, <1>28 DEF Fail
<1>29. ASSUME NEW s \in Slots, TargetMissing(s) PROVE TypeOK'
  BY <1>21, <1>29 DEF TargetMissing, Statuses, Settled
<1>30. ASSUME NEW s \in Slots, SessionAborts(s) PROVE TypeOK'
  BY <1>30 DEF TypeOK, SessionAborts, row, admin, tick, queue, Places
<1>31. ASSUME NEW s \in Slots, RecomputeFails(s) PROVE TypeOK'
  BY <1>31 DEF TypeOK, RecomputeFails, row, admin, tick, queue, Places
<1>32. ASSUME NEW s \in Slots, Ack(s) PROVE TypeOK'
  BY <1>32 DEF TypeOK, Ack, row, admin, tick, queue, Places
<1>33. ASSUME NEW w \in Workers, WorkerDies(w) PROVE TypeOK'
  <2>1. orphan' \in [Jobs -> Nat]
    BY <1>33, UnackedIsCountable DEF TypeOK, WorkerDies
  <2>2. /\ pc' \in [Slots -> Places]
        /\ \A s \in Slots : pc'[s] # "idle" => job'[s] \in Jobs
    BY <1>33 DEF TypeOK, WorkerDies, Places
  <2>3. /\ job' \in [Slots -> Jobs \union {NoJob}]
        /\ seen' \in [Slots -> Nat]
    BY <1>33 DEF TypeOK, WorkerDies
  <2>4. /\ stop' \in [Slots -> BOOLEAN]
        /\ receipt' \in [Slots -> BOOLEAN]
    BY <1>33 DEF TypeOK, WorkerDies
  <2> QED
    BY <1>33, <2>1, <2>2, <2>3, <2>4 DEF TypeOK, WorkerDies, row, admin, tick
<1>34. CASE UNCHANGED vars
  BY <1>34 DEF TypeOK, vars, row, admin, tick, queue, worker
<1> QED
  BY <1>1, <1>2, <1>3, <1>4, <1>5, <1>6, <1>7, <1>8, <1>9, <1>10, <1>11, <1>12,
     <1>13, <1>14, <1>15, <1>16, <1>17, <1>18, <1>22, <1>23, <1>24, <1>25, <1>26,
     <1>27, <1>28, <1>29, <1>30, <1>31, <1>32, <1>33, <1>34
     DEF Next, AdminStep, SchedulerStep, QueueStep, AttemptStep

(* Every variable has its type in every reachable state, for any number of *)
(* jobs, tasks and workers, on either queue and under every fault.         *)
THEOREM TypeCorrect == Spec => []TypeOK
<1>1. Init => TypeOK
  BY TypeHoldsInitially
<1>2. TypeOK /\ [Next]_vars => TypeOK'
  BY TypeIsPreserved
<1> QED
  BY <1>1, <1>2, PTL DEF Spec

-----------------------------------------------------------------------------
(* The queued row.  That its message exists is not inductive: a message    *)
(* with a task is lost if the task's worker dies, unless the queue keeps   *)
(* what is unacked (SQS), so the message must be one that no death the     *)
(* instance allows can lose.                                               *)

(* s has the message of j, and j again if its worker dies.                 *)
Carries(s, j) ==
  /\ pc[s] = "received" /\ job[s] = j
  /\ receipt[s] \/ "worker_dies" \notin Faults

QueuedIsSafe ==
  \A j \in Jobs : status[j] = "queued" =>
    \/ j \in creating
    \/ requeue = j
    \/ ready[j] > 0
    \/ orphan[j] > 0
    \/ \E s \in Slots : Carries(s, j)

(* No row says queued before the first dispatch.                           *)
LEMMA SafeInitially == Init => QueuedIsSafe
  BY DEF Init, QueuedIsSafe

(* SQS keeps what a dying worker had not acked, to hand it out again.      *)
LEMMA DyingWorkerLeavesMessages ==
  ASSUME TypeOK, QueuedIsSafe, NEW w \in Workers, WorkerDies(w)
  PROVE  QueuedIsSafe'
<1> SUFFICES ASSUME NEW j \in Jobs, status'[j] = "queued",
                    ~(j \in creating' \/ requeue' = j \/ ready'[j] > 0),
                    \A s \in Slots : ~Carries(s, j)'
             PROVE  orphan'[j] > 0
  BY DEF QueuedIsSafe
<1>1. UNCHANGED <<row, admin, tick, ready>> /\ "worker_dies" \in Faults
  BY DEF WorkerDies
<1>2. orphan'[j] = orphan[j] + Cardinality(UnackedBy(w, j)) /\ orphan[j] \in Nat
  BY DEF WorkerDies, TypeOK
<1>3. Cardinality(UnackedBy(w, j)) \in Nat
  BY UnackedIsCountable
<1>4. CASE orphan[j] > 0
  BY <1>2, <1>3, <1>4
<1>5. CASE \E s \in Slots : Carries(s, j)
  <2>1. PICK s \in Slots : Carries(s, j)
    BY <1>5
  <2>2. s \in SlotsOf(w)
    BY <1>1, <2>1 DEF Carries, WorkerDies, TypeOK
  <2>3. s \in UnackedBy(w, j)
    BY <1>1, <2>1, <2>2 DEF Carries, UnackedBy
  <2>4. Cardinality(UnackedBy(w, j)) # 0
    <3>1. IsFiniteSet(UnackedBy(w, j))
      BY FS_Subset, ConstantsAssumption DEF UnackedBy, SlotsOf
    <3> QED
      BY <2>3, <3>1, FS_EmptySet
  <2> QED
    BY <1>2, <1>3, <2>4
<1> QED
  BY <1>1, <1>4, <1>5 DEF QueuedIsSafe, row, admin, tick

(* The message travels from the dispatch or the retry tick to the queue    *)
(* and to a task, which writes the row before it acks.                     *)
LEMMA SafeIsPreserved ==
  ASSUME Faults \cap {"api_dies", "scheduler_dies"} = {},
         "worker_dies" \in Faults => Queue = "sqs"
  PROVE  TypeOK /\ QueuedIsSafe /\ [Next]_vars => QueuedIsSafe'
<1> SUFFICES ASSUME TypeOK, QueuedIsSafe, [Next]_vars
             PROVE  QueuedIsSafe'
  OBVIOUS
<1> USE ConstantsAssumption DEF Carries
<1>1. ASSUME NEW j \in Jobs, CreateJob(j) \/ EnqueueCreated(j) \/ DispatchDies(j) PROVE QueuedIsSafe'
  BY <1>1 DEF QueuedIsSafe, TypeOK, CreateJob, EnqueueCreated, Send, DispatchDies, row, tick, queue, worker
<1>2. ASSUME NEW j \in Jobs, RequestCancel(j) \/ CommitCancel(j) \/ CheckDelete(j) \/ CommitDelete(j)
      PROVE  QueuedIsSafe'
  BY <1>2 DEF QueuedIsSafe, TypeOK, RequestCancel, CommitCancel, CheckDelete, CommitDelete, row, tick, queue, worker
<1>3. ASSUME Reap PROVE QueuedIsSafe'
  BY <1>3 DEF QueuedIsSafe, Reap, admin, tick, queue, worker
<1>4. ASSUME NEW j \in Jobs, Lapse(j) \/ SkipRetry(j) \/ CommitRetry(j) PROVE QueuedIsSafe'
  BY <1>4 DEF QueuedIsSafe, TypeOK, Lapse, SkipRetry, CommitRetry, row, admin, tick, queue, worker
<1>5. ASSUME ListRetries \/ EnqueueRetry \/ SchedulerDies PROVE QueuedIsSafe'
  BY <1>5 DEF QueuedIsSafe, TypeOK, ListRetries, EnqueueRetry, Send, SchedulerDies, row, admin, tick, queue, worker
<1>6. ASSUME NEW s \in Slots, NEW j \in Jobs, Receive(s, j) PROVE QueuedIsSafe'
  <2>1. Carries(s, j)'
    BY <1>6 DEF TypeOK, Receive
  <2>2. \A k \in Jobs \ {j} : ready'[k] = ready[k]
    BY <1>6 DEF TypeOK, Receive
  <2>3. \A t \in Slots, k \in Jobs : Carries(t, k) => Carries(t, k)'
    BY <1>6 DEF TypeOK, Receive
  <2> QED
    BY <1>6, <2>1, <2>2, <2>3 DEF QueuedIsSafe, Receive, row, admin, tick
<1>7. ASSUME NEW s \in Slots, ExpireHeld(s) PROVE QueuedIsSafe'
  BY <1>7 DEF QueuedIsSafe, TypeOK, ExpireHeld, row, admin, tick
<1>8. ASSUME NEW j \in Jobs, ExpireOrphan(j) PROVE QueuedIsSafe'
  BY <1>8 DEF QueuedIsSafe, TypeOK, ExpireOrphan, row, admin, tick, worker
<1>9. ASSUME NEW s \in Slots, Start(s) PROVE QueuedIsSafe'
  BY <1>9 DEF QueuedIsSafe, TypeOK, Start, row, admin, tick, queue
<1>10. ASSUME NEW s \in Slots, Attempting(s), NEW st \in Statuses \ {"queued"}, NEW n, WriteOutcome(s, st, n)
       PROVE  QueuedIsSafe'
  BY <1>10 DEF QueuedIsSafe, TypeOK, WriteOutcome, Attempting, admin, tick, queue
<1>11. ASSUME NEW s \in Slots,
              \/ PoolEmpty(s) \/ Complete(s) \/ HonourCancel(s) \/ Fail(s) \/ TargetMissing(s)
       PROVE  QueuedIsSafe'
  BY <1>10, <1>11
     DEF PoolEmpty, Complete, HonourCancel, Fail, TargetMissing, CountedFailure, Attempting,
         Statuses, Settled, ACTIVE_JOB_STATUSES
<1>12. ASSUME NEW s \in Slots,
              \/ Acquire(s) \/ Heartbeat(s) \/ PassLastCheck(s)
              \/ SessionAborts(s) \/ RecomputeFails(s) \/ Ack(s)
       PROVE  QueuedIsSafe'
  BY <1>12
     DEF QueuedIsSafe, TypeOK, Acquire, Heartbeat, PassLastCheck, SessionAborts, RecomputeFails, Ack,
         row, admin, tick, queue
<1>13. ASSUME NEW w \in Workers, WorkerDies(w) PROVE QueuedIsSafe'
  BY <1>13, DyingWorkerLeavesMessages
<1>14. CASE UNCHANGED vars
  BY <1>14 DEF QueuedIsSafe, vars, row, admin, tick, queue, worker
<1> QED
  BY <1>1, <1>2, <1>3, <1>4, <1>5, <1>6, <1>7, <1>8, <1>9, <1>11, <1>12, <1>13, <1>14
     DEF Next, AdminStep, SchedulerStep, QueueStep, AttemptStep

(* QueuedIsBacked, from QueuedIsSafe: a row that says queued has a message *)
(* or is about to.  A process that dies between its commit and its send    *)
(* (API, scheduler), or with a message that Redis has handed out (worker), *)
(* leaves a queued row that no one sends again, so those deaths are        *)
(* excluded.                                                               *)
THEOREM QueuedStaysBacked ==
  ASSUME Faults \cap {"api_dies", "scheduler_dies"} = {},
         "worker_dies" \in Faults => Queue = "sqs"
  PROVE  Spec => []QueuedIsBacked
<1>1. Init => QueuedIsSafe
  BY SafeInitially
<1>2. TypeOK /\ QueuedIsSafe /\ [Next]_vars => QueuedIsSafe'
  BY SafeIsPreserved
<1>3. QueuedIsSafe => QueuedIsBacked
  BY DEF QueuedIsSafe, QueuedIsBacked, Carries
<1> QED
  BY <1>1, <1>2, <1>3, TypeCorrect, PTL DEF Spec

-----------------------------------------------------------------------------
(* One owner.  As long as the queue hands a message out once and the       *)
(* heartbeats of live attempts arrive, a job has one owner at a time,      *)
(* and from that follow mutual exclusion of attempts, the retry budget,    *)
(* the finality of completed and failed rows and the refinement, for any   *)
(* number of jobs, tasks and workers and whatever processes die.           *)

(* Redis deletes a message as it hands it out.  SQS hands out again what   *)
(* is not deleted in time: by an attempt that outlasts the visibility      *)
(* timeout or by a worker that dies.                                       *)
HandedOutOnce == Queue = "sqs" => Faults \cap {"outlasts", "worker_dies"} = {}

LEMMA OwnerHoldsInitially == Init => SoleOwner
  BY ConstantsAssumption
     DEF Init, SoleOwner, OneMessage, RowAgrees, AttemptAgrees, BudgetLeft,
         NothingRedelivered, Loose, Unsent, Holds, Attempting, ACTIVE_JOB_STATUSES

(* An attempt that writes its outcome gives up the job's only token, so it *)
(* may leave the row waiting or settled, provided that a row it leaves     *)
(* waiting has budget left.                                                *)
LEMMA OutcomeKeepsOwner ==
  ASSUME TypeOK, SoleOwner, NEW s \in Slots, Attempting(s),
         NEW st \in {"retry_pending", "completed", "failed", "cancelled"},
         NEW n \in Nat, n <= MaxRetries + 1,
         st = "retry_pending" => n <= MaxRetries,
         WriteOutcome(s, st, n)
  PROVE  SoleOwner'
<1> USE ConstantsAssumption DEF Loose, Unsent, Holds, Attempting
<1>1. job[s] \in Jobs
  BY DEF TypeOK
<1>2. OneMessage'
  BY DEF SoleOwner, OneMessage, WriteOutcome, TypeOK, admin, tick, queue
<1>3. Loose(job[s])'
  BY <1>1 DEF SoleOwner, OneMessage, WriteOutcome, TypeOK, admin, tick, queue
<1>4. \A j \in Jobs \ {job[s]} :
        /\ status'[j] = status[j] /\ retry'[j] = retry[j]
        /\ Loose(j)' <=> Loose(j)
  BY <1>1 DEF WriteOutcome, TypeOK, admin, tick, queue
<1>5. RowAgrees'
  BY <1>1, <1>3, <1>4 DEF SoleOwner, RowAgrees, WriteOutcome, TypeOK, admin, tick, queue
<1>6. AttemptAgrees'
  <2>1. \A t \in Slots \ {s} : pc[t] \notin {"idle", "acking"} =>
          job[t] \in Jobs \ {job[s]}
    BY <1>1 DEF SoleOwner, OneMessage, TypeOK
  <2>2. \A t \in Slots \ {s} : pc'[t] = pc[t]
    BY DEF WriteOutcome, TypeOK
  <2>3. pc'[s] = "acking" /\ job' = job /\ seen' = seen /\ beat' = beat
    BY DEF WriteOutcome, TypeOK
  <2> QED
    BY <1>4, <2>1, <2>2, <2>3 DEF SoleOwner, AttemptAgrees
<1>7. BudgetLeft'
  BY <1>1, <1>3, <1>4
     DEF SoleOwner, RowAgrees, BudgetLeft, WriteOutcome, TypeOK, ACTIVE_JOB_STATUSES,
         admin, tick, queue
<1>8. NothingRedelivered'
  BY DEF SoleOwner, NothingRedelivered, WriteOutcome, queue
<1> QED
  BY <1>2, <1>5, <1>6, <1>7, <1>8 DEF SoleOwner

(* The attempt knows its row's retry_count, and its row has budget left:   *)
(* counting one more failure does not exceed the budget.                   *)
LEMMA AttemptHasBudget ==
  ASSUME TypeOK, SoleOwner, NEW s \in Slots, Attempting(s)
  PROVE  /\ job[s] \in Jobs
         /\ KeepRetry(s) = seen[s]
         /\ seen[s] \in Nat /\ seen[s] <= MaxRetries
<1>1. job[s] \in Jobs /\ seen[s] \in Nat
  BY DEF TypeOK, Attempting
<1>2. ~Loose(job[s])
  BY <1>1 DEF Loose, Holds, Attempting
<1> QED
  BY <1>1, <1>2 DEF SoleOwner, BudgetLeft, AttemptAgrees, KeepRetry

(* A failure that counts: the row waits for a retry while budget is left,  *)
(* or has failed.                                                          *)
LEMMA CountedFailureKeepsOwner ==
  ASSUME TypeOK, SoleOwner, NEW s \in Slots, Attempting(s), CountedFailure(s)
  PROVE  SoleOwner'
<1>1. seen[s] \in Nat /\ seen[s] <= MaxRetries
  BY AttemptHasBudget
<1>2. Counted(seen[s]) \in Nat /\ Counted(seen[s]) <= seen[s] + 1
  BY <1>1, CountedIsNatural
<1>3. CASE seen[s] + 1 < MaxRetries
  <2>1. WriteOutcome(s, "retry_pending", Counted(seen[s]))
    BY <1>3 DEF CountedFailure
  <2>2. Counted(seen[s]) <= MaxRetries /\ Counted(seen[s]) <= MaxRetries + 1
    BY <1>1, <1>2, <1>3, ConstantsAssumption
  <2> QED
    BY <1>2, <2>1, <2>2, OutcomeKeepsOwner
<1>4. CASE ~(seen[s] + 1 < MaxRetries)
  <2>1. WriteOutcome(s, "failed", Counted(seen[s]))
    BY <1>4 DEF CountedFailure
  <2>2. Counted(seen[s]) <= MaxRetries + 1
    BY <1>1, <1>2, ConstantsAssumption
  <2> QED
    BY <1>2, <2>1, <2>2, OutcomeKeepsOwner
<1> QED
  BY <1>3, <1>4

(* An outcome that does not count leaves the budget as it was.             *)
LEMMA UncountedOutcomeKeepsOwner ==
  ASSUME TypeOK, SoleOwner, NEW s \in Slots, Attempting(s),
         NEW st \in {"retry_pending", "completed", "failed", "cancelled"},
         WriteOutcome(s, st, KeepRetry(s))
  PROVE  SoleOwner'
<1>1. /\ KeepRetry(s) \in Nat
      /\ KeepRetry(s) <= MaxRetries
      /\ KeepRetry(s) <= MaxRetries + 1
  BY AttemptHasBudget, ConstantsAssumption
<1> QED
  BY <1>1, OutcomeKeepsOwner

(* A task that starts turns the message it held into the only attempt.     *)
LEMMA StartKeepsOwner ==
  ASSUME TypeOK, SoleOwner, NEW s \in Slots, Start(s)
  PROVE  SoleOwner'
<1> USE ConstantsAssumption DEF Loose, Unsent, Holds, Attempting
<1>1. job[s] \in Jobs
  BY DEF TypeOK, Start
<1>2. CASE status[job[s]] = "deleted"
  <2>1. pc' = [pc EXCEPT ![s] = "acking"]
    BY <1>2 DEF Start
  <2>2. UNCHANGED <<row, admin, tick, queue, job, seen, receipt>>
    BY <1>2 DEF Start
  <2>3. \A t \in Slots : pc'[t] = pc[t] \/ pc'[t] = "acking"
    BY <2>1 DEF TypeOK
  <2> QED
    BY <2>2, <2>3
       DEF SoleOwner, OneMessage, RowAgrees, AttemptAgrees, BudgetLeft, NothingRedelivered,
           ACTIVE_JOB_STATUSES, row, admin, tick, queue
<1>3. CASE status[job[s]] # "deleted"
  <2>1. /\ pc' = [pc EXCEPT ![s] = "acquiring"]
        /\ status' = [status EXCEPT ![job[s]] = "running"]
        /\ beat' = [beat EXCEPT ![job[s]] = "fresh"]
        /\ seen' = [seen EXCEPT ![s] = retry[job[s]]]
        /\ UNCHANGED <<retry, admin, tick, queue, job, receipt>>
    BY <1>3 DEF Start
  <2>2. \A t \in Slots, j \in Jobs : Holds(t, j)' <=> Holds(t, j)
    BY <2>1 DEF Start, TypeOK
  <2>3. OneMessage'
    BY <2>1, <2>2 DEF SoleOwner, OneMessage, admin, tick, queue
  <2>4. RowAgrees'
    BY <1>1, <2>1, <2>2
       DEF SoleOwner, OneMessage, RowAgrees, Start, TypeOK, admin, tick, queue
  <2>5. AttemptAgrees'
    <3>1. \A t \in Slots \ {s} : pc[t] \notin {"idle", "acking"} =>
            job[t] \in Jobs \ {job[s]}
      BY <1>1 DEF SoleOwner, OneMessage, Start, TypeOK
    <3>2. \A t \in Slots \ {s} : pc'[t] = pc[t] /\ job'[t] = job[t] /\ seen'[t] = seen[t]
      BY <2>1 DEF TypeOK
    <3>3. \A j \in Jobs \ {job[s]} :
            status'[j] = status[j] /\ beat'[j] = beat[j] /\ retry'[j] = retry[j]
      BY <2>1 DEF TypeOK
    <3>4. /\ pc'[s] = "acquiring" /\ job'[s] = job[s] /\ seen'[s] = retry'[job[s]]
          /\ status'[job[s]] = "running" /\ beat'[job[s]] = "fresh"
      BY <1>1, <2>1 DEF TypeOK
    <3> QED
      BY <3>1, <3>2, <3>3, <3>4 DEF SoleOwner, AttemptAgrees
  <2>6. BudgetLeft'
    BY <1>1, <2>1, <2>2
       DEF SoleOwner, BudgetLeft, Start, TypeOK, ACTIVE_JOB_STATUSES, admin, tick, queue
  <2>7. NothingRedelivered'
    BY <2>1 DEF SoleOwner, NothingRedelivered, queue
  <2> QED
    BY <2>3, <2>4, <2>5, <2>6, <2>7 DEF SoleOwner
<1> QED
  BY <1>2, <1>3

(* A stale running row has neither a message nor an attempt, so the reaper *)
(* may park it.                                                            *)
LEMMA ReapKeepsOwner ==
  ASSUME TypeOK, SoleOwner, Reap
  PROVE  SoleOwner'
<1> USE ConstantsAssumption DEF Unsent, Holds
<1>1. \A j \in StaleRunning : j \in Jobs /\ Loose(j)
  BY DEF SoleOwner, RowAgrees, AttemptAgrees, StaleRunning, Loose, Attempting, TypeOK,
         Places
<1>2. \A j \in Jobs : Loose(j)' <=> Loose(j)
  BY DEF Reap, Loose, admin, tick, queue, worker
<1>3. \A j \in StaleRunning : status'[j] \in {"retry_pending", "failed"}
  BY <1>1 DEF Reap
<1>4. \A j \in Jobs \ StaleRunning : status'[j] = status[j] /\ retry'[j] = retry[j]
  BY DEF Reap
<1>5. \A j \in StaleRunning :
        /\ retry'[j] \in Nat
        /\ retry'[j] <= MaxRetries + 1
        /\ status'[j] = "retry_pending" => retry'[j] <= MaxRetries
  <2> SUFFICES ASSUME NEW j \in StaleRunning
               PROVE  /\ retry'[j] \in Nat
                      /\ retry'[j] <= MaxRetries + 1
                      /\ status'[j] = "retry_pending" => retry'[j] <= MaxRetries
    OBVIOUS
  <2>1. retry[j] \in Nat /\ retry[j] <= MaxRetries
    BY <1>1 DEF SoleOwner, BudgetLeft, StaleRunning, ACTIVE_JOB_STATUSES, TypeOK
  <2>2. Counted(retry[j]) \in Nat /\ Counted(retry[j]) <= retry[j] + 1
    BY <2>1, CountedIsNatural
  <2>3. /\ retry'[j] = Counted(retry[j])
        /\ status'[j] = "retry_pending" => retry[j] < MaxRetries
    BY <1>1 DEF Reap
  <2> QED
    BY <2>1, <2>2, <2>3
<1>6. OneMessage'
  BY DEF SoleOwner, OneMessage, Reap, admin, tick, queue, worker
<1>7. RowAgrees'
  BY <1>1, <1>2, <1>3, <1>4
     DEF SoleOwner, RowAgrees, StaleRunning, Reap, admin, tick, queue, worker
<1>8. AttemptAgrees'
  <2>1. \A s \in Slots : pc[s] \notin {"idle", "acking"} => job[s] \in Jobs \ StaleRunning
    BY <1>1 DEF Loose, TypeOK
  <2> QED
    BY <1>4, <2>1 DEF SoleOwner, AttemptAgrees, Attempting, Reap, worker
<1>9. BudgetLeft'
  BY <1>1, <1>2, <1>3, <1>4, <1>5
     DEF SoleOwner, BudgetLeft, RowAgrees, StaleRunning, ACTIVE_JOB_STATUSES, Reap, tick
<1>10. NothingRedelivered'
  BY DEF SoleOwner, NothingRedelivered, Reap, queue, worker
<1> QED
  BY <1>6, <1>7, <1>8, <1>9, <1>10 DEF SoleOwner

(* A worker that dies takes its messages and attempts with it, and leaves  *)
(* no unacknowledged message behind.                                       *)
LEMMA WorkerDiesKeepsOwner ==
  ASSUME HandedOutOnce, TypeOK, SoleOwner, NEW w \in Workers, WorkerDies(w)
  PROVE  SoleOwner'
<1> USE ConstantsAssumption DEF Loose, Unsent, Holds, Attempting
<1>0. Queue = "redis"
  BY DEF HandedOutOnce, WorkerDies
<1>1. \A j \in Jobs : Cardinality(UnackedBy(w, j)) = 0
  <2>1. \A j \in Jobs : UnackedBy(w, j) = {}
    BY <1>0 DEF SoleOwner, NothingRedelivered, UnackedBy, SlotsOf
  <2> QED
    BY <2>1, FS_EmptySet
<1>2. \A j \in Jobs : orphan'[j] = 0
  BY <1>1 DEF SoleOwner, NothingRedelivered, WorkerDies, TypeOK
<1>3. \A s \in Slots : ~receipt'[s]
  BY <1>0 DEF SoleOwner, NothingRedelivered, WorkerDies
<1>4. \A s \in Slots, j \in Jobs : Holds(s, j)' => Holds(s, j)
  BY DEF WorkerDies
<1>5. \A s \in Slots : pc'[s] # "idle" =>
        pc'[s] = pc[s] /\ job'[s] = job[s] /\ seen'[s] = seen[s]
  BY DEF WorkerDies
<1>6. UNCHANGED <<row, admin, tick, ready>>
  BY DEF WorkerDies
<1>7. OneMessage'
  BY <1>4, <1>6 DEF SoleOwner, OneMessage, admin, tick
<1>8. RowAgrees'
  BY <1>4, <1>6 DEF SoleOwner, RowAgrees, row, admin, tick
<1>9. AttemptAgrees'
  BY <1>5, <1>6 DEF SoleOwner, AttemptAgrees, row
<1>10. BudgetLeft'
  BY <1>4, <1>6 DEF SoleOwner, BudgetLeft, ACTIVE_JOB_STATUSES, row, admin, tick
<1> QED
  BY <1>2, <1>3, <1>7, <1>8, <1>9, <1>10 DEF SoleOwner, NothingRedelivered

(* Under the two assumptions, no step breaks ownership.                    *)
LEMMA OwnerIsPreserved ==
  ASSUME HandedOutOnce, "stalls" \notin Faults
  PROVE  TypeOK /\ SoleOwner /\ [Next]_vars => SoleOwner'
<1> SUFFICES ASSUME TypeOK, SoleOwner, [Next]_vars
             PROVE  SoleOwner'
  OBVIOUS
<1> USE ConstantsAssumption
    DEF OneMessage, RowAgrees, AttemptAgrees, BudgetLeft, NothingRedelivered,
        Loose, Unsent, Holds, Attempting
<1>1. ASSUME NEW j \in Jobs, CreateJob(j) PROVE SoleOwner'
  BY <1>1 DEF SoleOwner, TypeOK, CreateJob, tick, queue, worker
<1>2. ASSUME NEW j \in Jobs, EnqueueCreated(j) PROVE SoleOwner'
  BY <1>2 DEF SoleOwner, EnqueueCreated, Send, row, tick, worker
<1>3. ASSUME NEW j \in Jobs, DispatchDies(j) PROVE SoleOwner'
  BY <1>3 DEF SoleOwner, DispatchDies, row, tick, queue, worker
<1>4. ASSUME NEW j \in Jobs, RequestCancel(j) PROVE SoleOwner'
  BY <1>4 DEF SoleOwner, ACTIVE_JOB_STATUSES, RequestCancel, row, tick, queue, worker
<1>5. ASSUME NEW j \in Jobs, CommitCancel(j) PROVE SoleOwner'
  BY <1>5 DEF SoleOwner, TypeOK, ACTIVE_JOB_STATUSES, CommitCancel, tick, queue, worker
<1>6. ASSUME NEW j \in Jobs, CheckDelete(j) PROVE SoleOwner'
  BY <1>6 DEF SoleOwner, Settled, CheckDelete, row, tick, queue, worker
<1>7. ASSUME NEW j \in Jobs, CommitDelete(j) PROVE SoleOwner'
  BY <1>7 DEF SoleOwner, ACTIVE_JOB_STATUSES, CommitDelete, tick, queue, worker
<1>8. ASSUME NEW j \in Jobs, Lapse(j) PROVE SoleOwner'
  BY <1>8 DEF SoleOwner, Lapse, admin, tick, queue, worker
<1>9. ASSUME Reap PROVE SoleOwner'
  BY <1>9, ReapKeepsOwner
<1>10. ASSUME ListRetries PROVE SoleOwner'
  BY <1>10 DEF SoleOwner, ACTIVE_JOB_STATUSES, ListRetries, row, admin, queue, worker
<1>11. ASSUME NEW j \in Jobs, SkipRetry(j) PROVE SoleOwner'
  BY <1>11 DEF SoleOwner, SkipRetry, row, admin, queue, worker
<1>12. ASSUME NEW j \in Jobs, CommitRetry(j) PROVE SoleOwner'
  BY <1>12 DEF SoleOwner, TypeOK, CommitRetry, admin, queue, worker
<1>13. ASSUME EnqueueRetry PROVE SoleOwner'
  BY <1>13 DEF SoleOwner, EnqueueRetry, Send, row, admin, worker
<1>14. ASSUME SchedulerDies PROVE SoleOwner'
  BY <1>14 DEF SoleOwner, SchedulerDies, row, admin, queue, worker
<1>15. ASSUME NEW s \in Slots, NEW j \in Jobs, Receive(s, j) PROVE SoleOwner'
  BY <1>15 DEF SoleOwner, TypeOK, Receive, row, admin, tick
<1>16. ASSUME NEW s \in Slots, ExpireHeld(s) PROVE SoleOwner'
  BY <1>16 DEF SoleOwner, ExpireHeld, HandedOutOnce
<1>17. ASSUME NEW j \in Jobs, ExpireOrphan(j) PROVE SoleOwner'
  BY <1>17 DEF SoleOwner, ExpireOrphan
<1>18. ASSUME NEW s \in Slots, Start(s) PROVE SoleOwner'
  BY <1>18, StartKeepsOwner
<1>19. ASSUME NEW s \in Slots, PoolEmpty(s) PROVE SoleOwner'
  BY <1>19, CountedFailureKeepsOwner, UncountedOutcomeKeepsOwner DEF PoolEmpty
<1>20. ASSUME NEW s \in Slots, Complete(s) PROVE SoleOwner'
  BY <1>20, UncountedOutcomeKeepsOwner DEF Complete
<1>21. ASSUME NEW s \in Slots, HonourCancel(s) PROVE SoleOwner'
  BY <1>21, UncountedOutcomeKeepsOwner DEF HonourCancel
<1>22. ASSUME NEW s \in Slots, Fail(s) PROVE SoleOwner'
  BY <1>22, CountedFailureKeepsOwner DEF Fail
<1>23. ASSUME NEW s \in Slots, TargetMissing(s) PROVE SoleOwner'
  BY <1>23, UncountedOutcomeKeepsOwner DEF TargetMissing
<1>24. ASSUME NEW s \in Slots, Acquire(s) PROVE SoleOwner'
  BY <1>24 DEF SoleOwner, Acquire, row, admin, tick, queue
<1>25. ASSUME NEW s \in Slots, Heartbeat(s) PROVE SoleOwner'
  BY <1>25 DEF SoleOwner, Heartbeat, admin, tick, queue
<1>26. ASSUME NEW s \in Slots, PassLastCheck(s) PROVE SoleOwner'
  BY <1>26 DEF SoleOwner, PassLastCheck, row, admin, tick, queue
<1>27. ASSUME NEW s \in Slots, SessionAborts(s) PROVE SoleOwner'
  BY <1>27 DEF SoleOwner, SessionAborts, row, admin, tick, queue
<1>28. ASSUME NEW s \in Slots, RecomputeFails(s) PROVE SoleOwner'
  BY <1>28 DEF SoleOwner, RecomputeFails, row, admin, tick, queue
<1>29. ASSUME NEW s \in Slots, Ack(s) PROVE SoleOwner'
  BY <1>29 DEF SoleOwner, Ack, row, admin, tick, queue
<1>30. ASSUME NEW w \in Workers, WorkerDies(w) PROVE SoleOwner'
  BY <1>30, WorkerDiesKeepsOwner
<1>31. CASE UNCHANGED vars
  BY <1>31 DEF SoleOwner, vars, row, admin, tick, queue, worker
<1> QED
  BY <1>1, <1>2, <1>3, <1>4, <1>5, <1>6, <1>7, <1>8, <1>9, <1>10, <1>11, <1>12,
     <1>13, <1>14, <1>15, <1>16, <1>17, <1>18, <1>19, <1>20, <1>21, <1>22,
     <1>23, <1>24, <1>25, <1>26, <1>27, <1>28, <1>29, <1>30, <1>31
     DEF Next, AdminStep, SchedulerStep, QueueStep, AttemptStep

(* With a queue that hands out once and heartbeats that arrive, a job has  *)
(* one message or one task or neither, as its row says.                    *)
THEOREM OwnerCorrect ==
  ASSUME HandedOutOnce, "stalls" \notin Faults
  PROVE  Spec => []SoleOwner
<1>1. Init => SoleOwner
  BY OwnerHoldsInitially
<1>2. TypeOK /\ SoleOwner /\ [Next]_vars => SoleOwner'
  BY OwnerIsPreserved
<1> QED
  BY <1>1, <1>2, TypeCorrect, PTL DEF Spec

(* Two tasks never attempt one job at the same time: what the heartbeat    *)
(* and the reaper are there to guarantee.                                  *)
THEOREM OneAttemptAtATime ==
  ASSUME HandedOutOnce, "stalls" \notin Faults
  PROVE  Spec => []AtMostOneAttempt
<1>1. TypeOK /\ SoleOwner => AtMostOneAttempt
  BY DEF TypeOK, SoleOwner, OneMessage, Holds, Attempting, AtMostOneAttempt
<1> QED
  BY <1>1, TypeCorrect, OwnerCorrect, PTL

(* However often its workers die or its session aborts, a job is counted   *)
(* at most SCRAPER_MAX_RETRIES + 1 failures.                               *)
THEOREM BudgetIsKept ==
  ASSUME HandedOutOnce, "stalls" \notin Faults
  PROVE  Spec => []RetryBudget
<1>1. SoleOwner => RetryBudget
  BY DEF SoleOwner, BudgetLeft, RetryBudget
<1> QED
  BY <1>1, OwnerCorrect, PTL

(* No step re-opens a row that is completed or failed: no task holds its   *)
(* message and no tick has it listed.                                      *)
LEMMA SettledIsLeftAlone ==
  ASSUME TypeOK, SoleOwner, [Next]_vars,
         NEW k \in Jobs, status[k] \in {"completed", "failed"}
  PROVE  status'[k] \in {status[k], "cancelled", "deleted"}
<1>1. Loose(k) /\ k \notin retryList
  BY DEF SoleOwner, RowAgrees
<1>2. \A s \in Slots : pc[s] \notin {"idle", "acking"} => job[s] # k
  BY <1>1 DEF Loose, Holds
<1>3. ASSUME NEW s \in Slots, pc[s] \notin {"idle", "acking"}, NEW st, NEW n,
             WriteOutcome(s, st, n)
      PROVE  status'[k] = status[k]
  BY <1>2, <1>3 DEF WriteOutcome, TypeOK
<1>4. ASSUME NEW j \in Jobs,
             \/ CreateJob(j) \/ EnqueueCreated(j) \/ DispatchDies(j)
             \/ RequestCancel(j) \/ CommitCancel(j) \/ CheckDelete(j) \/ CommitDelete(j)
      PROVE  status'[k] \in {status[k], "cancelled", "deleted"}
  BY <1>4
     DEF CreateJob, EnqueueCreated, DispatchDies, RequestCancel, CommitCancel, CheckDelete,
         CommitDelete, row, TypeOK
<1>5. ASSUME Reap \/ ListRetries \/ EnqueueRetry \/ SchedulerDies
      PROVE  status'[k] = status[k]
  BY <1>5 DEF Reap, StaleRunning, ListRetries, EnqueueRetry, SchedulerDies, row
<1>6. ASSUME NEW j \in Jobs, Lapse(j) \/ SkipRetry(j) \/ CommitRetry(j)
      PROVE  status'[k] = status[k]
  BY <1>1, <1>6 DEF Lapse, SkipRetry, CommitRetry, row, TypeOK
<1>7. ASSUME QueueStep
      PROVE  status'[k] = status[k]
  BY <1>7 DEF QueueStep, Receive, ExpireHeld, ExpireOrphan, row
<1>8. ASSUME NEW s \in Slots, Start(s)
      PROVE  status'[k] = status[k]
  BY <1>2, <1>8 DEF Start, row, TypeOK
<1>9. ASSUME NEW s \in Slots,
             \/ PoolEmpty(s) \/ Complete(s) \/ HonourCancel(s) \/ Fail(s) \/ TargetMissing(s)
      PROVE  status'[k] = status[k]
  BY <1>3, <1>9 DEF PoolEmpty, Complete, HonourCancel, Fail, TargetMissing, CountedFailure
<1>10. ASSUME NEW s \in Slots,
              \/ Acquire(s) \/ Heartbeat(s) \/ PassLastCheck(s)
              \/ SessionAborts(s) \/ RecomputeFails(s) \/ Ack(s)
       PROVE  status'[k] = status[k]
  BY <1>10 DEF Acquire, Heartbeat, PassLastCheck, SessionAborts, RecomputeFails, Ack, row
<1>11. ASSUME NEW w \in Workers, WorkerDies(w)
       PROVE  status'[k] = status[k]
  BY <1>11 DEF WorkerDies, row
<1>12. CASE UNCHANGED vars
  BY <1>12 DEF vars, row
<1> QED
  BY <1>4, <1>5, <1>6, <1>7, <1>8, <1>9, <1>10, <1>11, <1>12
     DEF Next, AdminStep, SchedulerStep, AttemptStep

(* A completed or failed job stays so, but for a cancel decided earlier or *)
(* a deletion.                                                             *)
THEOREM SettledIsFinal ==
  ASSUME HandedOutOnce, "stalls" \notin Faults
  PROVE  Spec => SettledStaysSettled
<1>1. TypeOK /\ SoleOwner /\ [Next]_vars =>
        [\A j \in Jobs : status[j] \in {"completed", "failed"} =>
            status'[j] \in {status[j], "cancelled", "deleted"}]_vars
  BY SettledIsLeftAlone
<1> QED
  BY <1>1, TypeCorrect, OwnerCorrect, PTL DEF Spec, SettledStaysSettled

-----------------------------------------------------------------------------
(* The refinement.  RightOf maps the fleet's state to where the right to   *)
(* attempt a job is; by SoleOwner every step moves the right of a job the  *)
(* way JobLifecycle allows, or leaves it where it is.                      *)

(* A task attempts j; the scheduler is to send j again.                    *)
HeldBy(s, j) == Attempting(s) /\ job[s] = j
Held(j)      == \E s \in Slots : HeldBy(s, j)
Parked(j)    == status[j] = "retry_pending" \/ j \in retryList

(* RightOf, case by case.                                                  *)
RightReads(j) ==
  /\ status[j] = "absent" => RightOf(j) = "none"
  /\ status[j] # "absent" =>
       /\ Held(j) => RightOf(j) = "held"
       /\ ~Held(j) /\ ~Loose(j) => RightOf(j) = "out"
       /\ Loose(j) /\ Parked(j) => RightOf(j) = "back"
       /\ Loose(j) /\ ~Parked(j) /\ status[j] \in {"queued", "running"} => RightOf(j) = "adrift"
       /\ Loose(j) /\ ~Parked(j) /\ status[j] \in {"completed", "failed", "cancelled", "deleted"}
            => RightOf(j) = "over"

(* RightOf may be read one case at a time, now and after a step.           *)
LEMMA RightIsRead ==
  ASSUME NEW j
  PROVE  RightReads(j) /\ RightReads(j)'
<1>1. (Held(j) => ~Loose(j)) /\ (Held(j)' => ~Loose(j)')
  BY DEF Held, HeldBy, Loose, Holds, Attempting
<1>2. RightReads(j)
  BY <1>1, Zenon DEF RightReads, RightOf, Held, HeldBy, Parked
<1>3. RightReads(j)'
  BY <1>1, Zenon DEF RightReads, RightOf, Held, HeldBy, Parked
<1> QED
  BY <1>2, <1>3

(* A step that leaves the row and the owner of a job alone.                *)
Untouched(j) ==
  /\ status'[j] = status[j] /\ retry'[j] = retry[j]
  /\ Parked(j)' <=> Parked(j)
  /\ Unsent(j)' <=> Unsent(j)
  /\ \A s \in Slots : (Holds(s, j)' <=> Holds(s, j)) /\ (HeldBy(s, j)' <=> HeldBy(s, j))

(* Such a step is a stutter of the abstract job.                           *)
LEMMA UntouchedStays ==
  ASSUME NEW j \in Jobs, Untouched(j)
  PROVE  Lifecycle!Stays(j)
<1>1. RightOf(j)' = RightOf(j)
  BY Zenon DEF Untouched, RightOf, HeldBy, Loose, Parked
<1> QED
  BY <1>1 DEF Lifecycle!Stays, Lifecycle!Uncounted, Untouched

(* A task or a message is gone, and with it the right to attempt the job.  *)
LEMMA LostIsDropped ==
  ASSUME NEW j \in Jobs, ~Loose(j),
         status'[j] = status[j], status[j] \in {"queued", "running", "cancelled", "deleted"},
         retry'[j] = retry[j], Loose(j)', ~Parked(j)'
  PROVE  Lifecycle!Dropped(j) \/ Lifecycle!Settled(j)
<1>1. RightOf(j) \in {"out", "held"}
  BY RightIsRead DEF RightReads
<1>2. RightOf(j)' \in {"adrift", "over"}
  BY RightIsRead DEF RightReads
<1> QED
  BY <1>1, <1>2 DEF Lifecycle!Dropped, Lifecycle!Settled, Lifecycle!Goes, Lifecycle!Uncounted

(* What JobLifecycle allows a step to do with j.                           *)
JobMoves(j) ==
  \/ Lifecycle!Stays(j)
  \/ Lifecycle!Dispatched(j) \/ Lifecycle!Taken(j)     \/ Lifecycle!Reissued(j) \/ Lifecycle!Dropped(j)
  \/ Lifecycle!HandedBack(j) \/ Lifecycle!Recovered(j) \/ Lifecycle!Settled(j)

(* The API and the daily scheduler.                                        *)
LEMMA AdminMoves ==
  ASSUME TypeOK, SoleOwner, AdminStep
  PROVE  \A j \in Jobs : JobMoves(j)
<1> USE DEF HeldBy, Holds, Attempting, Unsent, Parked
<1>1. PICK k \in Jobs :
        \/ CreateJob(k) \/ EnqueueCreated(k) \/ DispatchDies(k) \/ RequestCancel(k) 
        \/ CommitCancel(k) \/ CheckDelete(k) \/ CommitDelete(k)
  BY DEF AdminStep
<1>2. ASSUME NEW j \in Jobs \ {k} PROVE Untouched(j)
  BY <1>1
     DEF Untouched, TypeOK, CreateJob, EnqueueCreated, Send, DispatchDies, RequestCancel, CommitCancel, CheckDelete,
         CommitDelete, row, tick, queue, worker
<1>3. UNCHANGED <<retry, retryList, requeue, worker>>
  BY <1>1 DEF CreateJob, EnqueueCreated, DispatchDies, RequestCancel, CommitCancel, CheckDelete,
         CommitDelete, row, tick
<1> SUFFICES JobMoves(k)
  BY <1>2, UntouchedStays DEF JobMoves
<1>4. CASE CreateJob(k)
  <2>1. RightOf(k) = "none" 
    BY <1>4, RightIsRead DEF RightReads, CreateJob
  <2>2. ~Held(k)' /\ ~Loose(k)' /\ status'[k] = "queued"
    BY <1>4 DEF SoleOwner, RowAgrees, Held, Loose, CreateJob, TypeOK, worker
  <2>3. RightOf(k)' = "out"
    BY <2>2, RightIsRead DEF RightReads
  <2> QED
    BY <1>3, <2>1, <2>3 DEF JobMoves, Lifecycle!Dispatched, Lifecycle!Goes, Lifecycle!Uncounted
<1>5. CASE EnqueueCreated(k)
  BY <1>3, <1>5, UntouchedStays DEF Untouched, EnqueueCreated, Send, TypeOK, row, worker, tick, JobMoves
<1>6. CASE DispatchDies(k)
  <2>1. ~Loose(k) /\ status[k] \in {"queued", "cancelled", "deleted"}
    BY <1>6 DEF DispatchDies, SoleOwner, RowAgrees, OneMessage, Loose, TypeOK, Statuses, ACTIVE_JOB_STATUSES, Settled
  <2>2. Loose(k)' /\ ~Parked(k)' /\ status'[k] = status[k]
    BY <1>6, <2>1 DEF DispatchDies, SoleOwner, RowAgrees, OneMessage, Loose, TypeOK, row, tick, queue, worker
  <2> QED
    BY <1>3, <2>1, <2>2, LostIsDropped DEF JobMoves
<1>7. CASE RequestCancel(k) \/ CheckDelete(k)
  BY <1>3, <1>7, UntouchedStays DEF Untouched, RequestCancel, CheckDelete, row, queue, worker, tick, JobMoves
<1>8. CASE CommitCancel(k) \/ CommitDelete(k)
  <2>1. /\ status'[k] \in {status[k], "cancelled", "deleted"}
        /\ status[k] # "absent" /\ status[k] \in Statuses
    BY <1>8 DEF CommitCancel, CommitDelete, SoleOwner, RowAgrees, TypeOK
  <2>2. (Loose(k)' <=> Loose(k)) /\ (Held(k)' <=> Held(k))
    BY <1>3, <1>8 DEF CommitCancel, CommitDelete, Loose, Held, queue, tick, worker
  <2>3. CASE status'[k] = status[k]
    BY <1>3, <1>8, <2>3, UntouchedStays DEF Untouched, CommitCancel, CommitDelete, queue, tick, worker, JobMoves
  <2>4. CASE status'[k] \in {"cancelled", "deleted"}
    <3>1. \/ RightOf(k)' = RightOf(k)
          \/ RightOf(k)' = "over" /\ RightOf(k) \in {"back", "adrift"}
      BY <1>3, <2>1, <2>2, <2>4, RightIsRead DEF RightReads, Statuses, Settled, ACTIVE_JOB_STATUSES
    <3> QED
      BY <1>3, <3>1 DEF JobMoves, Lifecycle!Stays, Lifecycle!Settled, Lifecycle!Goes, Lifecycle!Uncounted
  <2> QED
    BY <2>1, <2>3, <2>4
<1> QED
  BY <1>1, <1>4, <1>5, <1>6, <1>7, <1>8

(* The scheduler's ticks.                                                  *)
LEMMA ReapMoves ==
  ASSUME TypeOK, SoleOwner, Reap
  PROVE  \A j \in Jobs : JobMoves(j)
<1> SUFFICES ASSUME NEW j \in Jobs PROVE JobMoves(j)
  OBVIOUS
<1>1. UNCHANGED <<admin, tick, queue, worker>>
  BY DEF Reap
<1>2. (Loose(j)' <=> Loose(j)) /\ (Held(j)' <=> Held(j))
  BY <1>1 DEF Loose, Unsent, Holds, Held, HeldBy, Attempting, admin, tick, queue, worker
<1>3. CASE j \notin StaleRunning
  BY <1>1, <1>3, UntouchedStays
     DEF Reap, Untouched, Parked, Unsent, Holds, HeldBy, Attempting, admin, tick, queue, worker, JobMoves
<1>4. CASE j \in StaleRunning
  <2>1. status[j] = "running" /\ Loose(j) /\ ~Parked(j) /\ j \notin retryList
    BY <1>4
       DEF SoleOwner, RowAgrees, AttemptAgrees, StaleRunning, Loose, Unsent, Holds, Attempting, Parked,
           TypeOK, Places
  <2>2. RightOf(j) = "adrift"
    BY <2>1, RightIsRead DEF RightReads
  <2>3. retry[j] \in Nat /\ retry[j] <= MaxRetries
    BY <2>1 DEF SoleOwner, BudgetLeft, ACTIVE_JOB_STATUSES, TypeOK
  <2>4. retry'[j] = retry[j] + 1
    BY <1>4, <2>3, ConstantsAssumption DEF Reap, Counted
  <2>5. CASE retry[j] < MaxRetries
    <3>1. status'[j] = "retry_pending"
      BY <1>4, <2>5 DEF Reap
    <3>2. RightOf(j)' = "back"
      BY <1>2, <2>1, <3>1, RightIsRead DEF RightReads, Parked
    <3> QED
      BY <2>2, <2>4, <2>5, <3>2 DEF JobMoves, Lifecycle!Recovered, Lifecycle!Goes, Lifecycle!CountedOnce
  <2>6. CASE ~(retry[j] < MaxRetries)
    <3>1. status'[j] = "failed"
      BY <1>4, <2>6 DEF Reap
    <3>2. RightOf(j)' = "over"
      BY <1>1, <1>2, <2>1, <3>1, RightIsRead DEF RightReads, Parked, tick
    <3> QED
      BY <2>2, <2>3, <2>4, <3>2 DEF JobMoves, Lifecycle!Settled, Lifecycle!Goes, Lifecycle!CountedOnce
  <2> QED
    BY <2>5, <2>6
<1> QED
  BY <1>3, <1>4

(* The retry tick lists a row, re-queues it and sends its message.         *)
LEMMA TickMoves ==
  ASSUME TypeOK, SoleOwner, SchedulerStep
  PROVE  \A j \in Jobs : JobMoves(j)
<1> SUFFICES ASSUME NEW j \in Jobs PROVE JobMoves(j)
  OBVIOUS
<1> USE DEF Unsent, Holds, HeldBy, Attempting, Parked
<1>1. CASE Reap
  BY <1>1, ReapMoves
<1>2. CASE ListRetries \/ EnqueueRetry
  <2>1. CASE ListRetries
    BY <2>1, UntouchedStays DEF ListRetries, Untouched, row, admin, queue, worker, JobMoves
  <2>2. CASE EnqueueRetry
    <3>1. requeue = j => ready'[j] # 0
      BY <2>2 DEF EnqueueRetry, Send, TypeOK
    <3>2. requeue # j => ready'[j] = ready[j] /\ requeue' # j
      BY <2>2, ConstantsAssumption DEF EnqueueRetry, Send, TypeOK
    <3> QED
      BY <2>2, <3>1, <3>2, UntouchedStays DEF EnqueueRetry, Untouched, row, admin, worker, JobMoves
  <2> QED
    BY <1>2, <2>1, <2>2
<1>3. ASSUME NEW k \in Jobs, Lapse(k) PROVE JobMoves(j)
  BY <1>3, UntouchedStays DEF Lapse, Untouched, admin, tick, queue, worker, JobMoves
<1>4. ASSUME NEW k \in Jobs, SkipRetry(k) \/ CommitRetry(k), k # j PROVE JobMoves(j)
  BY <1>4, ConstantsAssumption, UntouchedStays
     DEF SkipRetry, CommitRetry, TypeOK, Untouched, row, admin, queue, worker, JobMoves
<1>5. ASSUME SkipRetry(j) PROVE JobMoves(j)
  <2>1. UNCHANGED <<row, admin, requeue, queue, worker>>
    BY <1>5 DEF SkipRetry
  <2>2. status[j] \in {"retry_pending", "cancelled", "deleted"} /\ Loose(j) /\ Parked(j) /\ j \notin retryList'
    BY <1>5 DEF SkipRetry, SoleOwner, RowAgrees
  <2>3. Loose(j)' /\ status'[j] = status[j] /\ retry'[j] = retry[j]
    BY <2>1, <2>2 DEF Loose, row, admin, queue, worker
  <2>4. RightOf(j) = "back" /\ RightOf(j)' \in {"back", "over"}
    BY <2>2, <2>3, RightIsRead DEF RightReads
  <2> QED
    BY <2>3, <2>4
       DEF JobMoves, Lifecycle!Stays, Lifecycle!Settled, Lifecycle!Goes, Lifecycle!Uncounted
<1>6. ASSUME CommitRetry(j) PROVE JobMoves(j)
  <2>1. Loose(j) /\ Parked(j) /\ status[j] # "absent"
    BY <1>6 DEF CommitRetry, SoleOwner, RowAgrees
  <2>2. ~Loose(j)' /\ ~Held(j)' /\ status'[j] = "queued" /\ retry'[j] = retry[j]
    BY <1>6, <2>1 DEF CommitRetry, TypeOK, Loose, Held, worker
  <2>3. RightOf(j) = "back" /\ RightOf(j)' = "out"
    BY <2>1, <2>2, RightIsRead DEF RightReads
  <2> QED
    BY <2>2, <2>3 DEF JobMoves, Lifecycle!Reissued, Lifecycle!Goes, Lifecycle!Uncounted
<1>7. CASE SchedulerDies
  <2>1. UNCHANGED <<row, admin, queue, worker>> /\ retryList' = {} /\ requeue' = NoJob
    BY <1>7 DEF SchedulerDies
  <2>2. CASE requeue = j
    <3>1. ~Loose(j) /\ status[j] \in {"queued", "cancelled", "deleted"}
      BY <2>2 DEF SoleOwner, RowAgrees, Loose, TypeOK, Statuses, ACTIVE_JOB_STATUSES, Settled
    <3>2. Loose(j)' /\ ~Parked(j)' /\ status'[j] = status[j] /\ retry'[j] = retry[j]
      BY <2>1, <2>2, <3>1, ConstantsAssumption
         DEF SoleOwner, OneMessage, Loose, row, admin, queue, worker
    <3> QED
      BY <3>1, <3>2, LostIsDropped DEF JobMoves
  <2>3. CASE requeue # j /\ (j \notin retryList \/ status[j] = "retry_pending")
    BY <2>1, <2>3, ConstantsAssumption, UntouchedStays DEF Untouched, row, admin, queue, worker, JobMoves
  <2>4. CASE requeue # j /\ j \in retryList /\ status[j] # "retry_pending"
    <3>1. Loose(j) /\ Parked(j) /\ status[j] \in {"cancelled", "deleted"}
      BY <2>4 DEF SoleOwner, RowAgrees
    <3>2. Loose(j)' /\ ~Parked(j)' /\ status'[j] = status[j] /\ retry'[j] = retry[j]
      BY <2>1, <3>1, ConstantsAssumption DEF Loose, row, admin, queue, worker
    <3>3. RightOf(j) = "back" /\ RightOf(j)' = "over"
      BY <3>1, <3>2, RightIsRead DEF RightReads
    <3> QED
      BY <3>2, <3>3 DEF JobMoves, Lifecycle!Settled, Lifecycle!Goes, Lifecycle!Uncounted
  <2> QED
    BY <2>2, <2>3, <2>4
<1> QED
  BY <1>1, <1>2, <1>3, <1>4, <1>5, <1>6, <1>7 DEF SchedulerStep

(* The queue hands a message to a task; nothing is handed out again.       *)
LEMMA QueueMoves ==
  ASSUME HandedOutOnce, TypeOK, SoleOwner, QueueStep
  PROVE  \A j \in Jobs : JobMoves(j)
<1> SUFFICES ASSUME NEW j \in Jobs PROVE JobMoves(j)
  OBVIOUS
<1>1. PICK s \in Slots, k \in Jobs : Receive(s, k)
  BY ConstantsAssumption
     DEF QueueStep, ExpireHeld, ExpireOrphan, SoleOwner, NothingRedelivered, HandedOutOnce
<1>2. CASE k # j
  BY <1>1, <1>2, UntouchedStays
     DEF Receive, TypeOK, Untouched, Unsent, Holds, HeldBy, Attempting, Parked, row, admin, tick, JobMoves
<1>3. CASE k = j
  <2>1. ~Loose(j) /\ ~Held(j) /\ status[j] # "absent"
    BY <1>1, <1>3 
       DEF Receive, SoleOwner, OneMessage, RowAgrees, Loose, Unsent, Holds, Held, HeldBy, Attempting
  <2>2. ~Loose(j)' /\ ~Held(j)' /\ status'[j] = status[j] /\ retry'[j] = retry[j]
    BY <1>1, <1>3, <2>1
       DEF Receive, TypeOK, Loose, Holds, Held, HeldBy, Attempting, row
  <2>3. RightOf(j) = "out" /\ RightOf(j)' = "out"
    BY <2>1, <2>2, RightIsRead DEF RightReads
  <2> QED
    BY <2>2, <2>3 DEF JobMoves, Lifecycle!Stays, Lifecycle!Uncounted
<1> QED
  BY <1>2, <1>3

(* An attempt that writes an outcome, counted or not, gives up the right.  *)
LEMMA OutcomeMoves ==
  ASSUME TypeOK, SoleOwner, NEW s \in Slots, Attempting(s),
         NEW st \in {"retry_pending", "completed", "failed", "cancelled"},
         NEW n \in {retry[job[s]], Counted(retry[job[s]])},
         st = "retry_pending" /\ n # retry[job[s]] => retry[job[s]] + 1 < MaxRetries,
         WriteOutcome(s, st, n)
  PROVE  \A j \in Jobs : JobMoves(j)
<1> USE ConstantsAssumption DEF Unsent, Holds, HeldBy, Attempting, Parked
<1> SUFFICES ASSUME NEW j \in Jobs PROVE JobMoves(j)
  OBVIOUS
<1>1. CASE j # job[s]
  BY <1>1, UntouchedStays DEF WriteOutcome, TypeOK, Untouched, admin, tick, queue, JobMoves
<1>2. CASE j = job[s]
  <2>1. Held(j) /\ ~Loose(j)
    BY <1>2 DEF Held, Loose
  <2>2. /\ status[j] \in {"running", "cancelled", "deleted"}
        /\ j \notin retryList
        /\ retry[j] \in Nat /\ retry[j] <= MaxRetries
    BY <1>2, <2>1 DEF SoleOwner, AttemptAgrees, RowAgrees, BudgetLeft, TypeOK
  <2>3. Loose(j)' /\ j \notin retryList'
    <3>1. Holds(s, j) /\ Unsent(j) /\ \A t \in Slots : Holds(t, j) => t = s
      BY <1>2 DEF SoleOwner, OneMessage
    <3>2. Unsent(j)' /\ j \notin retryList'
      BY <2>2, <3>1 DEF WriteOutcome, admin, tick, queue
    <3>3. \A t \in Slots : ~Holds(t, j)'
      <4> TAKE t \in Slots
      <4>1. job'[t] = job[t] /\ pc'[s] = "acking" /\ (t # s => pc'[t] = pc[t])
        BY DEF WriteOutcome, TypeOK
      <4> QED
        BY <3>1, <4>1
    <3> QED
      BY <3>2, <3>3 DEF Loose
  <2>4. RightOf(j) = "held"
    BY <2>1, <2>2, RightIsRead DEF RightReads
  <2>5. CASE status[j] = "deleted"
    <3>1. status'[j] = "deleted" /\ retry'[j] = retry[j]
      BY <1>2, <2>5 DEF WriteOutcome
    <3>2. RightOf(j)' = "over"
      BY <2>3, <3>1, RightIsRead DEF RightReads
    <3> QED
      BY <2>4, <3>1, <3>2 DEF JobMoves, Lifecycle!Settled, Lifecycle!Goes, Lifecycle!Uncounted
  <2>6. CASE status[j] # "deleted"
    <3>1. status'[j] = st /\ retry'[j] = n
      BY <1>2, <2>6 DEF WriteOutcome, TypeOK
    <3>2. n = retry[j] \/ n = retry[j] + 1
      BY <1>2, <2>2 DEF Counted
    <3>3. CASE st = "retry_pending"
      <4>1. RightOf(j)' = "back"
        BY <2>3, <3>1, <3>3, RightIsRead DEF RightReads
      <4> QED
        BY <1>2, <2>2, <2>4, <3>1, <3>2, <3>3, <4>1
           DEF JobMoves, Lifecycle!HandedBack, Lifecycle!Goes, Lifecycle!Uncounted, Lifecycle!CountedOnce
    <3>4. CASE st # "retry_pending"
      <4>1. RightOf(j)' = "over"
        BY <2>3, <3>1, <3>4, RightIsRead DEF RightReads
      <4> QED
        BY <2>2, <2>4, <3>1, <3>2, <4>1
           DEF JobMoves, Lifecycle!Settled, Lifecycle!Goes, Lifecycle!Uncounted, Lifecycle!CountedOnce
    <3> QED
      BY <3>3, <3>4
  <2> QED
    BY <2>5, <2>6
<1> QED
  BY <1>1, <1>2

(* A task that ends without an outcome.                                    *)
LEMMA TaskEndMoves ==
  ASSUME TypeOK, SoleOwner, NEW s \in Slots, pc[s] \notin {"idle", "acking"},
         pc[s] = "received" => status[job[s]] = "deleted",
         pc' = [pc EXCEPT ![s] = "acking"],
         UNCHANGED <<row, admin, tick, queue, job>>
  PROVE  \A j \in Jobs : JobMoves(j)
<1> USE DEF Unsent, Holds, HeldBy, Attempting, Parked
<1> SUFFICES ASSUME NEW j \in Jobs PROVE JobMoves(j)
  OBVIOUS
<1>1. CASE j # job[s]
  BY <1>1, UntouchedStays DEF TypeOK, Untouched, row, admin, tick, queue, JobMoves
<1>2. CASE j = job[s]
  <2>1. ~Loose(j) /\ status[j] \in {"running", "cancelled", "deleted"} /\ j \notin retryList
    BY <1>2 DEF SoleOwner, AttemptAgrees, RowAgrees, Loose, TypeOK, Places
  <2>2. Loose(j)'
    BY <1>2 DEF SoleOwner, OneMessage, TypeOK, Loose, admin, tick, queue
  <2>3. status'[j] = status[j] /\ retry'[j] = retry[j] /\ ~Parked(j)'
    BY <2>1 DEF row, tick
  <2> QED
    BY <2>1, <2>2, <2>3, LostIsDropped DEF JobMoves
<1> QED
  BY <1>1, <1>2

(* A task that marks its row running takes the right; one that finds its   *)
(* row deleted lets the message go.                                        *)
LEMMA StartMoves ==
  ASSUME TypeOK, SoleOwner, NEW s \in Slots, Start(s)
  PROVE  \A j \in Jobs : JobMoves(j)
<1> USE DEF Unsent, Holds, HeldBy, Attempting, Parked
<1>1. CASE status[job[s]] = "deleted"
  BY <1>1, TaskEndMoves DEF Start
<1>2. CASE status[job[s]] # "deleted"
  <2> SUFFICES ASSUME NEW j \in Jobs PROVE JobMoves(j)
    OBVIOUS
  <2>1. CASE j # job[s]
    BY <1>2, <2>1, UntouchedStays DEF Start, TypeOK, Untouched, admin, tick, queue, JobMoves
  <2>2. CASE j = job[s]
    <3>1. ~Loose(j) /\ ~Held(j) /\ status[j] # "absent"
      BY <2>2 DEF Start, SoleOwner, OneMessage, RowAgrees, Loose, Held
    <3>2. Held(j)' /\ status'[j] = "running" /\ retry'[j] = retry[j]
      BY <1>2, <2>2 DEF Start, TypeOK, Held
    <3>3. RightOf(j) = "out" /\ RightOf(j)' = "held"
      BY <3>1, <3>2, RightIsRead DEF RightReads
    <3> QED
      BY <3>2, <3>3 DEF JobMoves, Lifecycle!Taken, Lifecycle!Goes, Lifecycle!Uncounted
  <2> QED
    BY <2>1, <2>2
<1> QED
  BY <1>1, <1>2

(* A step of an attempt.                                                   *)
LEMMA AttemptMoves ==
  ASSUME TypeOK, SoleOwner, AttemptStep
  PROVE  \A j \in Jobs : JobMoves(j)
<1>1. PICK s \in Slots :
    \/ Start(s)          \/ Acquire(s)        \/ PoolEmpty(s)
    \/ Heartbeat(s)      \/ PassLastCheck(s)  \/ Complete(s)
    \/ HonourCancel(s)   \/ Fail(s)           \/ TargetMissing(s)
    \/ SessionAborts(s)  \/ RecomputeFails(s) \/ Ack(s)
  BY DEF AttemptStep
<1>2. CASE Start(s)
  BY <1>2, StartMoves
<1>3. ASSUME Attempting(s), NEW st \in {"retry_pending", "completed", "failed", "cancelled"},
             WriteOutcome(s, st, KeepRetry(s))
      PROVE  \A j \in Jobs : JobMoves(j)
  BY <1>3, OutcomeMoves DEF KeepRetry
<1>4. ASSUME Attempting(s), CountedFailure(s)
      PROVE  \A j \in Jobs : JobMoves(j)
  BY <1>4, OutcomeMoves DEF CountedFailure, SoleOwner, AttemptAgrees
<1>5. CASE Complete(s) \/ HonourCancel(s) \/ Fail(s) \/ TargetMissing(s) \/ PoolEmpty(s)
  BY <1>3, <1>4, <1>5 DEF Complete, HonourCancel, Fail, TargetMissing, PoolEmpty, Attempting
<1>6. CASE SessionAborts(s) \/ RecomputeFails(s)
  BY <1>6, TaskEndMoves DEF SessionAborts, RecomputeFails
<1>7. CASE Acquire(s) \/ Heartbeat(s) \/ PassLastCheck(s) \/ Ack(s)
  <2>1. ASSUME NEW j \in Jobs PROVE Untouched(j)
    BY <1>7
       DEF Acquire, Heartbeat, PassLastCheck, Ack, TypeOK, Untouched, Unsent, Holds, HeldBy, Attempting,
           Parked, row, admin, tick, queue
  <2> QED
    BY <2>1, UntouchedStays DEF JobMoves
<1> QED
  BY <1>1, <1>2, <1>5, <1>6, <1>7

(* Everything a dying worker had in hand is adrift.                        *)
LEMMA DeathMoves ==
  ASSUME TypeOK, SoleOwner, NEW w \in Workers, WorkerDies(w)
  PROVE  \A j \in Jobs : JobMoves(j)
<1> USE DEF Unsent, Holds, HeldBy, Attempting, Parked
<1> SUFFICES ASSUME NEW j \in Jobs PROVE JobMoves(j)
  OBVIOUS
<1>1. UNCHANGED <<row, admin, tick, ready>>
  BY DEF WorkerDies
<1>2. \A t \in Slots : IF t \in SlotsOf(w) THEN pc'[t] = "idle"
                       ELSE pc'[t] = pc[t] /\ job'[t] = job[t]
  BY DEF WorkerDies
<1>3. CASE \E s \in SlotsOf(w) : Holds(s, j)
  <2>1. PICK s \in SlotsOf(w) : s \in Slots /\ Holds(s, j)
    BY <1>3 DEF SlotsOf
  <2>2. /\ ~Loose(j) /\ j \notin retryList
        /\ status[j] \in {"queued", "running", "cancelled", "deleted"}
    BY <2>1 DEF SoleOwner, RowAgrees, Loose, TypeOK, Statuses, ACTIVE_JOB_STATUSES, Settled
  <2>3. Loose(j)'
    BY <1>1, <1>2, <2>1 DEF SoleOwner, OneMessage, Loose, admin, tick
  <2>4. status'[j] = status[j] /\ retry'[j] = retry[j] /\ ~Parked(j)'
    BY <1>1, <2>2, <2>3 DEF SoleOwner, RowAgrees, row, tick
  <2> QED
    BY <2>2, <2>3, <2>4, LostIsDropped DEF JobMoves
<1>4. CASE \A s \in SlotsOf(w) : ~Holds(s, j)
  <2>1. \A s \in Slots : (Holds(s, j)' <=> Holds(s, j)) /\ (HeldBy(s, j)' <=> HeldBy(s, j))
    BY <1>2, <1>4
  <2> QED
    BY <1>1, <2>1, UntouchedStays DEF Untouched, row, admin, tick, JobMoves
<1> QED
  BY <1>3, <1>4

(* Before the first dispatch there is no right to attempt anything.        *)
LEMMA LifeBegins == Init => Lifecycle!Init
<1> SUFFICES ASSUME Init PROVE Lifecycle!Init
  OBVIOUS
<1>1. \A j \in Jobs : RightOf(j) = "none"
  BY RightIsRead DEF RightReads, Init
<1> QED
  BY <1>1 DEF Lifecycle!Init, Init

(* Every step of the fleet moves every job as JobLifecycle allows.         *)
LEMMA LifeGoesOn ==
  ASSUME HandedOutOnce
  PROVE  TypeOK /\ SoleOwner /\ [Next]_vars => [Lifecycle!Next]_(Lifecycle!vars)
<1> SUFFICES ASSUME TypeOK, SoleOwner, [Next]_vars
             PROVE  \A j \in Jobs : JobMoves(j)
  BY DEF Lifecycle!Next, JobMoves
<1>1. CASE UNCHANGED vars
  <2>1. ASSUME NEW j \in Jobs PROVE Untouched(j)
    BY <1>1
       DEF Untouched, Unsent, Holds, HeldBy, Attempting, Parked, vars, row, admin, tick, queue, worker
  <2> QED
    BY <2>1, UntouchedStays DEF JobMoves
<1> QED
  BY <1>1, AdminMoves, TickMoves, QueueMoves, AttemptMoves, DeathMoves DEF Next

(* From SoleOwner: the fleet, step by step, does with a job what           *)
(* JobLifecycle allows and nothing else.                                   *)
THEOREM FleetImplementsLifecycle ==
  ASSUME HandedOutOnce, "stalls" \notin Faults
  PROVE  Spec => ImplementsLifecycle
<1>1. Init => Lifecycle!Init
  BY LifeBegins
<1>2. TypeOK /\ SoleOwner /\ [Next]_vars => [Lifecycle!Next]_(Lifecycle!vars)
  BY LifeGoesOn
<1> QED
  BY <1>1, <1>2, TypeCorrect, OwnerCorrect, PTL DEF Spec, ImplementsLifecycle, Lifecycle!Spec
=============================================================================
