------------------------------- MODULE JobFleet -------------------------------
(***************************************************************************)
(* The life of ScrapeJob rows between the API and the scheduler that       *)
(* create and re-dispatch them, the message queue, the workers that        *)
(* attempt them and the reaper that recovers the ones a dead worker left.  *)
(*                                                                         *)
(* The parts are separate processes.  They share the scrape_jobs table and *)
(* the queue and nothing else, and every action below is one committed     *)
(* transaction or one queue operation: an action ends where the code       *)
(* awaits.  An ORM object keeps the values it was loaded with for as long  *)
(* as its session lives (expire_on_commit=False), so an attempt and a      *)
(* retry tick carry their own stale copy of what they read.                *)
(*                                                                         *)
(* What a scrape does, and which account or key it uses, is reduced to the *)
(* outcomes process() tells apart.                                         *)
(***************************************************************************)
EXTENDS Naturals, FiniteSets

CONSTANTS
  Jobs,          (* ids of scrape_jobs rows                                 *)
  NoJob,         (* not a job                                               *)
  Slots,         (* concurrently running _run_one tasks of all workers      *)
  WorkerOf,      (* the worker process a slot belongs to                    *)
  Kind,          (* the processor a job is routed to                        *)
  Inactive,      (* jobs whose influencer is paused, so never re-dispatched *)
  Queue,         (* settings.QUEUE_BACKEND: "redis" or "sqs"                *)
  Faults,        (* what goes wrong in the environment, see FaultKinds      *)
  MaxRetries,    (* settings.SCRAPER_MAX_RETRIES                            *)
  RetryCap,      (* bound: retry_count is counted no further than this      *)
  MaxCopies      (* bound: a send waits while the job has so many messages  *)

Kinds == {"cookies", "verify", "graph", "youtube"}

(* "stalls": a live attempt's heartbeats fail for a whole timeout (or a    *)
(* verify attempt, which has none, takes that long).                       *)
(* "outlasts": an attempt is still at work when its SQS message times out. *)
(* "..._dies": the process is killed between any two steps of its own, or  *)
(* what it calls raises there.                                             *)
FaultKinds == {"stalls", "outlasts", "worker_dies", "scheduler_dies", "api_dies"}

ASSUME ConstantsAssumption ==
  /\ NoJob \notin Jobs
  /\ IsFiniteSet(Slots)
  /\ Kind \in [Jobs -> Kinds]
  /\ Inactive \subseteq Jobs
  /\ Queue \in {"redis", "sqs"}
  /\ Faults \subseteq FaultKinds
  /\ MaxRetries \in Nat \ {0}
  /\ RetryCap \in Nat /\ RetryCap > MaxRetries + 1
  /\ MaxCopies \in Nat \ {0}

VARIABLES
  status,        (* status[j]: the status column, or "absent", "deleted"    *)
  retry,         (* retry[j]: the retry_count column                        *)
  beat,          (* beat[j]: coalesce(last_heartbeat_at, started_at) is     *)
                 (* within the timeout ("fresh") or not ("stale")           *)
  cancelReq,     (* cancelReq[j]: cancel_requested_at is set                *)
  creating,      (* jobs whose row is committed and message not yet sent    *)
  deleting,      (* jobs whose influencer passed the active-job check and   *)
                 (* is about to be deleted                                  *)
  cancelSaw,     (* cancelSaw[j]: the status a pending cancel request read  *)
  retryList,     (* what is left of the retry tick's list of rows           *)
  requeue,       (* the row the retry tick committed and has yet to enqueue *)
  ready,         (* ready[j]: messages of j a worker can receive            *)
  orphan,        (* orphan[j]: messages a dead worker received (SQS)        *)
  pc,            (* pc[s]: where the slot's task is                         *)
  job,           (* job[s]: the job of its message                          *)
  seen,          (* seen[s]: retry_count as the attempt loaded it           *)
  stop,          (* stop[s]: the attempt's _cancel_event                    *)
  receipt        (* receipt[s]: its SQS receipt handle still holds          *)

row    == <<status, retry, beat, cancelReq>>
admin  == <<creating, deleting, cancelSaw>>
tick   == <<retryList, requeue>>
queue  == <<ready, orphan>>
worker == <<pc, job, seen, stop, receipt>>
vars   == <<row, admin, tick, queue, worker>>

ACTIVE_JOB_STATUSES == {"queued", "running", "retry_pending"}
Settled             == {"completed", "failed", "cancelled"}
Statuses            == ACTIVE_JOB_STATUSES \union Settled \union {"absent", "deleted"}
Places              == {"idle", "received", "acquiring", "working", "finishing", "acking"}

(* The attempt has set its row to running and not yet written an outcome.  *)
Attempting(s) == pc[s] \in {"acquiring", "working", "finishing"}

TypeOK ==
  /\ status \in [Jobs -> Statuses]
  /\ retry \in [Jobs -> Nat]
  /\ beat \in [Jobs -> {"fresh", "stale"}]
  /\ cancelReq \in [Jobs -> BOOLEAN]
  /\ creating \subseteq Jobs
  /\ deleting \subseteq Jobs
  /\ cancelSaw \in [Jobs -> {"none"} \union ACTIVE_JOB_STATUSES]
  /\ retryList \subseteq Jobs
  /\ requeue \in Jobs \union {NoJob}
  /\ ready \in [Jobs -> Nat]
  /\ orphan \in [Jobs -> Nat]
  /\ pc \in [Slots -> Places]
  /\ job \in [Slots -> Jobs \union {NoJob}]
  /\ seen \in [Slots -> Nat]
  /\ stop \in [Slots -> BOOLEAN]
  /\ receipt \in [Slots -> BOOLEAN]
  /\ \A s \in Slots : pc[s] # "idle" => job[s] \in Jobs

Init ==
  /\ status = [j \in Jobs |-> "absent"]
  /\ retry = [j \in Jobs |-> 0]
  /\ beat = [j \in Jobs |-> "fresh"]
  /\ cancelReq = [j \in Jobs |-> FALSE]
  /\ creating = {}
  /\ deleting = {}
  /\ cancelSaw = [j \in Jobs |-> "none"]
  /\ retryList = {}
  /\ requeue = NoJob
  /\ ready = [j \in Jobs |-> 0]
  /\ orphan = [j \in Jobs |-> 0]
  /\ pc = [s \in Slots |-> "idle"]
  /\ job = [s \in Slots |-> NoJob]
  /\ seen = [s \in Slots |-> 0]
  /\ stop = [s \in Slots |-> FALSE]
  /\ receipt = [s \in Slots |-> FALSE]

-----------------------------------------------------------------------------
(* The API and the daily scheduler: dispatch, cancel, delete.              *)

(* Every dispatch_*_job creates and commits its row, then enqueues.        *)
CreateJob(j) ==
  /\ status[j] = "absent"
  /\ status' = [status EXCEPT ![j] = "queued"]
  /\ creating' = creating \union {j}
  /\ UNCHANGED <<retry, beat, cancelReq, deleting, cancelSaw, tick, queue, worker>>

Send(j) ==
  /\ ready[j] + orphan[j] < MaxCopies
  /\ ready' = [ready EXCEPT ![j] = @ + 1]
  /\ UNCHANGED orphan

EnqueueCreated(j) ==
  /\ j \in creating
  /\ creating' = creating \ {j}
  /\ Send(j)
  /\ UNCHANGED <<row, deleting, cancelSaw, tick, worker>>

(* The process dies, or enqueue() raises, after the row's commit.          *)
DispatchDies(j) ==
  /\ "api_dies" \in Faults
  /\ j \in creating
  /\ creating' = creating \ {j}
  /\ UNCHANGED <<row, deleting, cancelSaw, tick, queue, worker>>

(* request_cancel loads the row, decides, and commits a moment later.      *)
RequestCancel(j) ==
  /\ cancelSaw[j] = "none"
  /\ status[j] \in ACTIVE_JOB_STATUSES
  /\ cancelSaw' = [cancelSaw EXCEPT ![j] = status[j]]
  /\ UNCHANGED <<row, creating, deleting, tick, queue, worker>>

CommitCancel(j) ==
  /\ cancelSaw[j] # "none"
  /\ cancelSaw' = [cancelSaw EXCEPT ![j] = "none"]
  /\ CASE status[j] = "deleted" -> UNCHANGED <<status, cancelReq>>
       [] status[j] # "deleted" /\ cancelSaw[j] = "running" ->
            /\ cancelReq' = [cancelReq EXCEPT ![j] = TRUE]
            /\ UNCHANGED status
       [] OTHER ->
            /\ status' = [status EXCEPT ![j] = "cancelled"]
            /\ UNCHANGED cancelReq
  /\ UNCHANGED <<retry, beat, creating, deleting, tick, queue, worker>>

(* delete_influencer: the active-job check, then the cascading delete.     *)
CheckDelete(j) ==
  /\ status[j] \in Settled
  /\ j \notin deleting
  /\ deleting' = deleting \union {j}
  /\ UNCHANGED <<row, creating, cancelSaw, tick, queue, worker>>

CommitDelete(j) ==
  /\ j \in deleting
  /\ deleting' = deleting \ {j}
  /\ status' = [status EXCEPT ![j] = "deleted"]
  /\ UNCHANGED <<retry, beat, cancelReq, creating, cancelSaw, tick, queue, worker>>

-----------------------------------------------------------------------------
(* The scheduler's recovery ticks, one asyncio process.                    *)

(* Faulty variant: staleness by started_at, as if no heartbeat came.       *)
Lapse_ByDuration(j) ==
  /\ status[j] = "running"
  /\ beat[j] = "fresh"
  /\ beat' = [beat EXCEPT ![j] = "stale"]
  /\ UNCHANGED <<status, retry, cancelReq, admin, tick, queue, worker>>

(* An attempt stopped renewing last_heartbeat_at for the whole timeout:    *)
(* nothing attempts the job any more, or the fault lets a live one stall.  *)
Lapse(j) ==
  /\ status[j] = "running"
  /\ beat[j] = "fresh"
  /\ "stalls" \in Faults \/ \A s \in Slots : ~(Attempting(s) /\ job[s] = j)
  /\ beat' = [beat EXCEPT ![j] = "stale"]
  /\ UNCHANGED <<status, retry, cancelReq, admin, tick, queue, worker>>

(* The code compares retry_count with MaxRetries only, so counting on      *)
(* beyond RetryCap would tell nothing apart.                               *)
Counted(n) == IF n < RetryCap THEN n + 1 ELSE n

StaleRunning == {j \in Jobs : status[j] = "running" /\ beat[j] = "stale"}

(* Faulty variants: one retry too many, and one that is not counted.       *)
Reap_OneMore ==
  /\ StaleRunning # {}
  /\ status' = [j \in Jobs |->
       IF j \notin StaleRunning THEN status[j]
       ELSE IF retry[j] <= MaxRetries THEN "retry_pending" ELSE "failed"]
  /\ retry' = [j \in Jobs |-> IF j \in StaleRunning THEN Counted(retry[j]) ELSE retry[j]]
  /\ UNCHANGED <<beat, cancelReq, admin, tick, queue, worker>>

Reap_Uncounted ==
  /\ StaleRunning # {}
  /\ status' = [j \in Jobs |->
       IF j \notin StaleRunning THEN status[j]
       ELSE IF retry[j] < MaxRetries THEN "retry_pending" ELSE "failed"]
  /\ UNCHANGED <<retry, beat, cancelReq, admin, tick, queue, worker>>

(* reap_stale_running: one UPDATE over every stale row.                    *)
Reap ==
  /\ StaleRunning # {}
  /\ status' = [j \in Jobs |->
       IF j \notin StaleRunning THEN status[j]
       ELSE IF retry[j] < MaxRetries THEN "retry_pending" ELSE "failed"]
  /\ retry' = [j \in Jobs |-> IF j \in StaleRunning THEN Counted(retry[j]) ELSE retry[j]]
  /\ UNCHANGED <<beat, cancelReq, admin, tick, queue, worker>>

(* Faulty variant: failed rows are revisited as well.                      *)
ListRetries_FailedToo ==
  /\ retryList = {} /\ requeue = NoJob
  /\ retryList' = {j \in Jobs : status[j] \in {"retry_pending", "failed"}}
  /\ retryList' # {}
  /\ UNCHANGED <<row, admin, requeue, queue, worker>>

(* retry_failed_scrapes: one query, then commit and enqueue row by row.    *)
(* APScheduler runs one instance of the tick at a time.                    *)
ListRetries ==
  /\ retryList = {} /\ requeue = NoJob
  /\ \E j \in Jobs : status[j] = "retry_pending" /\ j \notin Inactive
  /\ retryList' = {j \in Jobs : status[j] = "retry_pending"}
  /\ UNCHANGED <<row, admin, requeue, queue, worker>>

(* Influencer row gone or paused: continue.                                *)
SkipRetry(j) ==
  /\ requeue = NoJob
  /\ j \in retryList
  /\ j \in Inactive \/ status[j] = "deleted"
  /\ retryList' = retryList \ {j}
  /\ UNCHANGED <<row, admin, requeue, queue, worker>>

(* job.status = "queued" on the object the query loaded, whatever the row  *)
(* says by now.                                                            *)
CommitRetry(j) ==
  /\ requeue = NoJob
  /\ j \in retryList
  /\ j \notin Inactive /\ status[j] # "deleted"
  /\ retryList' = retryList \ {j}
  /\ requeue' = j
  /\ status' = [status EXCEPT ![j] = "queued"]
  /\ UNCHANGED <<retry, beat, cancelReq, admin, queue, worker>>

EnqueueRetry ==
  /\ requeue # NoJob
  /\ requeue' = NoJob
  /\ Send(requeue)
  /\ UNCHANGED <<row, admin, retryList, worker>>

SchedulerDies ==
  /\ "scheduler_dies" \in Faults
  /\ retryList # {} \/ requeue # NoJob
  /\ retryList' = {}
  /\ requeue' = NoJob
  /\ UNCHANGED <<row, admin, queue, worker>>

-----------------------------------------------------------------------------
(* The queue and the workers.                                              *)

(* Faulty variant: an empty receive is taken for a message.                *)
Receive_Nothing(s, j) ==
  /\ pc[s] = "idle"
  /\ ready' = [ready EXCEPT ![j] = @ - 1]
  /\ pc' = [pc EXCEPT ![s] = "received"]
  /\ job' = [job EXCEPT ![s] = j]
  /\ receipt' = [receipt EXCEPT ![s] = (Queue = "sqs")]
  /\ UNCHANGED <<row, admin, tick, orphan, seen, stop>>

Receive(s, j) ==
  /\ pc[s] = "idle"
  /\ ready[j] > 0
  /\ ready' = [ready EXCEPT ![j] = @ - 1]
  /\ pc' = [pc EXCEPT ![s] = "received"]
  /\ job' = [job EXCEPT ![s] = j]
  /\ receipt' = [receipt EXCEPT ![s] = (Queue = "sqs")]
  /\ UNCHANGED <<row, admin, tick, orphan, seen, stop>>

(* A received message SQS has not seen deleted within the visibility       *)
(* timeout can be received again; the old receipt no longer deletes it.    *)
(* The redrive to the dead-letter queue after five receives is left out.   *)
ExpireHeld(s) ==
  /\ "outlasts" \in Faults
  /\ receipt[s]
  /\ receipt' = [receipt EXCEPT ![s] = FALSE]
  /\ ready' = [ready EXCEPT ![job[s]] = @ + 1]
  /\ UNCHANGED <<row, admin, tick, orphan, pc, job, seen, stop>>

ExpireOrphan(j) ==
  /\ orphan[j] > 0
  /\ orphan' = [orphan EXCEPT ![j] = @ - 1]
  /\ ready' = [ready EXCEPT ![j] = @ + 1]
  /\ UNCHANGED <<row, admin, tick, worker>>

(* Faulty variant: retry_count is taken from the message, not the row.     *)
Start_BlindToRow(s) ==
  /\ pc[s] = "received"
  /\ status[job[s]] # "deleted"
  /\ pc' = [pc EXCEPT ![s] = "acquiring"]
  /\ status' = [status EXCEPT ![job[s]] = "running"]
  /\ beat' = [beat EXCEPT ![job[s]] = "fresh"]
  /\ seen' = [seen EXCEPT ![s] = 0]
  /\ stop' = [stop EXCEPT ![s] = FALSE]
  /\ UNCHANGED <<retry, cancelReq, admin, tick, queue, job, receipt>>

(* process(): job = session.get(...); status "running", whatever it was.   *)
Start(s) ==
  /\ pc[s] = "received"
  /\ IF status[job[s]] = "deleted"
       THEN /\ pc' = [pc EXCEPT ![s] = "acking"]
            /\ UNCHANGED <<row, seen, stop>>
       ELSE /\ pc' = [pc EXCEPT ![s] = "acquiring"]
            /\ status' = [status EXCEPT ![job[s]] = "running"]
            /\ beat' = [beat EXCEPT ![job[s]] = "fresh"]
            /\ seen' = [seen EXCEPT ![s] = retry[job[s]]]
            /\ stop' = [stop EXCEPT ![s] = FALSE]
            /\ UNCHANGED <<retry, cancelReq>>
  /\ UNCHANGED <<admin, tick, queue, job, receipt>>

(* The attempt's own commit of its outcome, through its stale object; a    *)
(* row deleted under it matches nothing and stays deleted.                 *)
WriteOutcome(s, st, n) ==
  /\ pc' = [pc EXCEPT ![s] = "acking"]
  /\ IF status[job[s]] = "deleted"
       THEN UNCHANGED <<status, retry>>
       ELSE /\ status' = [status EXCEPT ![job[s]] = st]
            /\ retry' = [retry EXCEPT ![job[s]] = n]
  /\ UNCHANGED <<beat, cancelReq, admin, tick, queue, job, seen, stop, receipt>>

KeepRetry(s) == retry[job[s]]

(* Faulty variant: the processors compare as the reaper does.              *)
CountedFailure_Late(s) ==
  WriteOutcome(s, IF seen[s] < MaxRetries THEN "retry_pending" ELSE "failed",
                  Counted(seen[s]))

CountedFailure(s) ==
  WriteOutcome(s, IF seen[s] + 1 < MaxRetries THEN "retry_pending" ELSE "failed",
                  Counted(seen[s]))

(* An account was leased, or the key or token pool is not empty.           *)
Acquire(s) ==
  /\ pc[s] = "acquiring"
  /\ pc' = [pc EXCEPT ![s] = "working"]
  /\ UNCHANGED <<row, admin, tick, queue, job, seen, stop, receipt>>

(* Nothing to work with: parked without spending a retry, except by the    *)
(* verify processor, which does spend one.                                 *)
PoolEmpty(s) ==
  /\ pc[s] = "acquiring"
  /\ IF Kind[job[s]] = "verify"
       THEN CountedFailure(s)
       ELSE WriteOutcome(s, "retry_pending", KeepRetry(s))

(* The verify processor runs no heartbeat task, the graph one ignores what *)
(* the heartbeat returns.                                                  *)
Heartbeat(s) ==
  /\ Attempting(s)
  /\ Kind[job[s]] # "verify"
  /\ beat' = [beat EXCEPT ![job[s]] = "fresh"]
  /\ stop' = [stop EXCEPT ![s] =
       @ \/ (cancelReq[job[s]] /\ Kind[job[s]] # "graph" /\ status[job[s]] # "deleted")]
  /\ UNCHANGED <<status, retry, cancelReq, admin, tick, queue, pc, job, seen, receipt>>

(* The last look at _cancel_event before process() settles on success.     *)
PassLastCheck(s) ==
  /\ pc[s] = "working"
  /\ ~stop[s]
  /\ pc' = [pc EXCEPT ![s] = "finishing"]
  /\ UNCHANGED <<row, admin, tick, queue, job, seen, stop, receipt>>

Complete(s) ==
  /\ pc[s] = "finishing"
  /\ WriteOutcome(s, "completed", KeepRetry(s))

(* JobCancelledError.                                                      *)
HonourCancel(s) ==
  /\ pc[s] = "working"
  /\ stop[s]
  /\ WriteOutcome(s, "cancelled", KeepRetry(s))

(* blocked, rate_limited or error.                                         *)
Fail(s) ==
  /\ pc[s] = "working"
  /\ CountedFailure(s)

(* The influencer row or the handle does not exist.                        *)
TargetMissing(s) ==
  /\ pc[s] = "working"
  /\ WriteOutcome(s, IF Kind[job[s]] = "verify" THEN "completed" ELSE "failed", KeepRetry(s))

(* An exception process() does not turn into an outcome (the session was   *)
(* rolled back and its objects expired): the row is left as it is, the     *)
(* message is deleted all the same.                                        *)
SessionAborts(s) ==
  /\ pc[s] \in {"acquiring", "working"}
  /\ pc' = [pc EXCEPT ![s] = "acking"]
  /\ UNCHANGED <<row, admin, tick, queue, job, seen, stop, receipt>>

(* _recompute_outlier_metrics rolls back the session that still holds the  *)
(* uncommitted status = "completed".                                       *)
RecomputeFails(s) ==
  /\ pc[s] = "finishing"
  /\ Kind[job[s]] # "verify"
  /\ pc' = [pc EXCEPT ![s] = "acking"]
  /\ UNCHANGED <<row, admin, tick, queue, job, seen, stop, receipt>>

(* _run_one's finally: queue.delete(receipt).                              *)
Ack(s) ==
  /\ pc[s] = "acking"
  /\ pc' = [pc EXCEPT ![s] = "idle"]
  /\ job' = [job EXCEPT ![s] = NoJob]
  /\ seen' = [seen EXCEPT ![s] = 0]
  /\ stop' = [stop EXCEPT ![s] = FALSE]
  /\ receipt' = [receipt EXCEPT ![s] = FALSE]
  /\ UNCHANGED <<row, admin, tick, queue>>

SlotsOf(w)      == {s \in Slots : WorkerOf[s] = w}
UnackedBy(w, j) == {s \in SlotsOf(w) : job[s] = j /\ receipt[s]}

(* Faulty variant: messages were deleted as they were received.            *)
WorkerDies_AckedEarly(w) ==
  /\ "worker_dies" \in Faults
  /\ \E s \in SlotsOf(w) : pc[s] # "idle"
  /\ pc' = [s \in Slots |-> IF s \in SlotsOf(w) THEN "idle" ELSE pc[s]]
  /\ job' = [s \in Slots |-> IF s \in SlotsOf(w) THEN NoJob ELSE job[s]]
  /\ seen' = [s \in Slots |-> IF s \in SlotsOf(w) THEN 0 ELSE seen[s]]
  /\ stop' = [s \in Slots |-> s \notin SlotsOf(w) /\ stop[s]]
  /\ receipt' = [s \in Slots |-> s \notin SlotsOf(w) /\ receipt[s]]
  /\ UNCHANGED <<row, admin, tick, queue>>

(* SIGKILL, OOM or a rolling deploy: every task of the process at once.    *)
WorkerDies(w) ==
  /\ "worker_dies" \in Faults
  /\ \E s \in SlotsOf(w) : pc[s] # "idle"
  /\ orphan' = [j \in Jobs |-> orphan[j] + Cardinality(UnackedBy(w, j))]
  /\ pc' = [s \in Slots |-> IF s \in SlotsOf(w) THEN "idle" ELSE pc[s]]
  /\ job' = [s \in Slots |-> IF s \in SlotsOf(w) THEN NoJob ELSE job[s]]
  /\ seen' = [s \in Slots |-> IF s \in SlotsOf(w) THEN 0 ELSE seen[s]]
  /\ stop' = [s \in Slots |-> s \notin SlotsOf(w) /\ stop[s]]
  /\ receipt' = [s \in Slots |-> s \notin SlotsOf(w) /\ receipt[s]]
  /\ UNCHANGED <<row, admin, tick, ready>>

-----------------------------------------------------------------------------
Workers == {WorkerOf[s] : s \in Slots}

AdminStep ==
  \E j \in Jobs :
    \/ CreateJob(j)      \/ EnqueueCreated(j) \/ DispatchDies(j)
    \/ RequestCancel(j)  \/ CommitCancel(j)
    \/ CheckDelete(j)    \/ CommitDelete(j)

SchedulerStep ==
  \/ Reap \/ ListRetries \/ EnqueueRetry \/ SchedulerDies
  \/ \E j \in Jobs : Lapse(j) \/ SkipRetry(j) \/ CommitRetry(j)

QueueStep ==
  \/ \E s \in Slots, j \in Jobs : Receive(s, j)
  \/ \E s \in Slots : ExpireHeld(s)
  \/ \E j \in Jobs : ExpireOrphan(j)

AttemptStep ==
  \E s \in Slots :
    \/ Start(s)          \/ Acquire(s)        \/ PoolEmpty(s)
    \/ Heartbeat(s)      \/ PassLastCheck(s)  \/ Complete(s)
    \/ HonourCancel(s)   \/ Fail(s)           \/ TargetMissing(s)
    \/ SessionAborts(s)  \/ RecomputeFails(s) \/ Ack(s)

Next ==
  \/ AdminStep \/ SchedulerStep \/ QueueStep \/ AttemptStep
  \/ \E w \in Workers : WorkerDies(w)

Spec == Init /\ [][Next]_vars

-----------------------------------------------------------------------------
(* Safety.                                                                 *)

(* A row that says "queued" is going to reach a worker: its message waits, *)
(* is held by a task that has not started it, will time out back into the  *)
(* queue, or is about to be sent.  Nothing ever re-sends the message of a  *)
(* queued row, and has_active_job keeps the daily dispatch away from its   *)
(* influencer, so a queued row without a message is a lost influencer.     *)
QueuedIsBacked ==
  \A j \in Jobs : status[j] = "queued" =>
    \/ j \in creating
    \/ requeue = j
    \/ ready[j] > 0
    \/ orphan[j] > 0
    \/ \E s \in Slots : pc[s] = "received" /\ job[s] = j

(* No job is attempted by two tasks at a time: no two scrapes of one row   *)
(* overwrite each other's outcome, cursor or counters.                     *)
AtMostOneAttempt ==
  \A s, t \in Slots :
    Attempting(s) /\ Attempting(t) /\ job[s] = job[t] => s = t

(* A job costs at most SCRAPER_MAX_RETRIES counted failures, plus the one  *)
(* more that reap_stale_running's comparison before counting lets through. *)
RetryBudget == \A j \in Jobs : retry[j] <= MaxRetries + 1

(* Where the one message of a job can be while nobody has started it, and  *)
(* the task that holds it.                                                 *)
Holds(s, j) == pc[s] \notin {"idle", "acking"} /\ job[s] = j
Unsent(j)   == j \notin creating /\ requeue # j /\ ready[j] = 0
Loose(j)    == Unsent(j) /\ \A s \in Slots : ~Holds(s, j)

(* With a queue that hands a message out once and heartbeats that arrive,  *)
(* a row and the right to attempt it go together: there is at most one     *)
(* message or task per job, none at all for a row that waits for the tick  *)
(* or is over, an attempt knows the retry_count its row has, and a row     *)
(* that may still be attempted has not used up its budget.                 *)
OneMessage ==
  \A j \in Jobs :
    /\ ready[j] <= 1
    /\ j \in creating => requeue # j /\ ready[j] = 0
    /\ requeue = j => ready[j] = 0
    /\ \A s \in Slots : Holds(s, j) => Unsent(j)
    /\ \A s, t \in Slots : Holds(s, j) /\ Holds(t, j) => s = t

RowAgrees ==
  \A j \in Jobs :
    /\ status[j] \in {"absent", "retry_pending", "completed", "failed"} => Loose(j)
    /\ status[j] = "running" => Unsent(j)
    /\ j \in retryList => Loose(j) /\ status[j] \in {"retry_pending", "cancelled", "deleted"}
    /\ status[j] = "absent" => cancelSaw[j] = "none" /\ j \notin deleting

AttemptAgrees ==
  \A s \in Slots :
    /\ Attempting(s) =>
         /\ status[job[s]] \in {"running", "cancelled", "deleted"}
         /\ status[job[s]] = "running" => beat[job[s]] = "fresh"
         /\ seen[s] = retry[job[s]]
    /\ pc[s] = "received" => status[job[s]] # "running"

BudgetLeft ==
  \A j \in Jobs :
    /\ retry[j] <= MaxRetries + 1
    /\ status[j] \in ACTIVE_JOB_STATUSES \union {"absent"} \/ j \in retryList \/ ~Loose(j)
         => retry[j] <= MaxRetries

NothingRedelivered ==
  /\ \A j \in Jobs : orphan[j] = 0
  /\ Queue = "redis" => \A s \in Slots : ~receipt[s]

SoleOwner ==
  OneMessage /\ RowAgrees /\ AttemptAgrees /\ BudgetLeft /\ NothingRedelivered

(* A completed or failed job never comes back to life: no leftover         *)
(* message, listed retry or late attempt re-opens it.  Only a cancel that  *)
(* was decided earlier, or a deletion, still touches the row.              *)
SettledStaysSettled ==
  [][\A j \in Jobs : status[j] \in {"completed", "failed"} =>
       status'[j] \in {status[j], "cancelled", "deleted"}]_vars

(* With a queue that hands a message out once, the fleet keeps what        *)
(* JobLifecycle promises: a task holds the right to attempt a job, a       *)
(* message or a pending send carries it, a row that waits for the tick has *)
(* it back, and it is adrift where a worker died or a message was lost.    *)
RightOf(j) ==
  IF status[j] = "absent" THEN "none"
  ELSE IF \E s \in Slots : Attempting(s) /\ job[s] = j THEN "held"
  ELSE IF ~Loose(j) THEN "out"
  ELSE IF status[j] = "retry_pending" \/ j \in retryList THEN "back"
  ELSE IF status[j] \in {"queued", "running"} THEN "adrift"
  ELSE "over"

Lifecycle == INSTANCE JobLifecycle WITH right <- [j \in Jobs |-> RightOf(j)], failures <- retry

ImplementsLifecycle == Lifecycle!Spec

(* What request_cancel says of a queued or retry_pending job: nothing is   *)
(* working on it, so cancelled outright it stays cancelled.                *)
CancelledStaysCancelled ==
  [][\A j \in Jobs : status[j] = "cancelled" =>
       status'[j] \in {"cancelled", "deleted"}]_vars

-----------------------------------------------------------------------------
(* Liveness.  Every process that is not killed goes on: ticks fire, sends   *)
(* and redeliveries happen, a job's message is not overtaken for ever, and *)
(* a pool is not empty at every single attempt.  Workers are killed any    *)
(* number of times, but not for ever.                                      *)

Progress(s) ==
  \/ Acquire(s)       \/ PoolEmpty(s)      \/ PassLastCheck(s)
  \/ Complete(s)      \/ HonourCancel(s)   \/ Fail(s)
  \/ TargetMissing(s) \/ SessionAborts(s)  \/ RecomputeFails(s)
  \/ Ack(s)

Fairness ==
  /\ \A j \in Jobs :
       /\ WF_vars(EnqueueCreated(j))
       /\ WF_vars(CommitCancel(j))
       /\ WF_vars(Lapse(j))
       /\ WF_vars(SkipRetry(j))
       /\ WF_vars(CommitRetry(j))
       /\ WF_vars(ExpireOrphan(j))
       /\ SF_vars(\E s \in Slots : Receive(s, j))
  /\ WF_vars(Reap)
  /\ WF_vars(ListRetries)
  /\ WF_vars(EnqueueRetry)
  /\ \A s \in Slots :
       /\ WF_vars(Start(s))
       /\ SF_vars(Acquire(s))
       /\ WF_vars(Heartbeat(s))
       /\ WF_vars(Progress(s))
  /\ <>[][\A w \in Workers : ~WorkerDies(w)]_vars

FairSpec == Spec /\ Fairness

(* Every dispatched job of an active influencer comes to an end, whatever  *)
(* workers die on the way.                                                 *)
JobsSettle ==
  \A j \in Jobs \ Inactive :
    status[j] = "queued" ~> status[j] \in Settled \union {"deleted"}
=============================================================================
