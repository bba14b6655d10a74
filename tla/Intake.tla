-------------------------------- MODULE Intake --------------------------------
(***************************************************************************)
(* How influencers come to be scraped: the scheduler's tick that looks for *)
(* those who are due, the operator who pauses, resumes, corrects and       *)
(* triggers, the choice between the Graph API and cookies, the fallback    *)
(* from one to the other, the enrich job that follows, and the switch-off  *)
(* of influencers whose handle is not found.                               *)
(*                                                                         *)
(* Jobs compete through their rows alone: an influencer with an active job *)
(* of any type is passed over.  What happens between a row and its message,*)
(* and to a worker that was only slow when its job was reaped, is          *)
(* JobFleet's.  Requests of the operator come one at a time.               *)
(***************************************************************************)
EXTENDS Naturals, FiniteSets

CONSTANTS
  Influencers,   (* the influencers, all on Instagram                        *)
  Categories,    (* the categories they may belong to                        *)
  Home,          (* the one in which they are registered                     *)
  MaxJobs,       (* bound: the jobs that wait or are worked on at a time     *)
  NoOne,         (* not an influencer                                        *)
  MaxRetries,    (* SCRAPER_MAX_RETRIES                                      *)
  MaxActs,       (* bound: acts of the operator and scheduler restarts, but  *)
                 (* for closing and opening categories                       *)
  PoolReturns    (* whether cookie accounts become available again           *)

ASSUME ConstantsAssumption ==
  /\ NoOne \notin Influencers \union {"operator", "job", "move"}
  /\ {MaxRetries, MaxJobs} \subseteq Nat \ {0} /\ MaxActs \in Nat
  /\ PoolReturns \in BOOLEAN /\ Home \in Categories

VARIABLES
  kind,        (* kind[i]: what sort of account it is, on the platform       *)
  handle,      (* handle[i]: whether the registered handle is the right one  *)
  row,         (* row[i]: is_active, paused_by_category, whether there is a  *)
               (* deactivation_reason, api_supported                         *)
  category,    (* category[i]: category_id                                   *)
  open,        (* open[c]: the category's is_active                          *)
  backend,     (* the instagram_backend setting                              *)
  due,         (* due[i]: the latest scrape job is older than the interval   *)
  jobs,        (* jobs[s]: a row of scrape_jobs that is active, or whose     *)
               (* task has something left to do                              *)
  todo,        (* the influencers that this tick has still to look at        *)
  cleared,     (* the one it found without an active job, or NoOne           *)
  acts,        (* what the operator has done so far; bound                   *)
  offBy        (* offBy[i]: who last switched i off by itself, or "move" for *)
               (* the move of one who was paused, or NoOne                   *)

vars == <<kind, handle, row, category, open, backend, due, jobs, todo, cleared, acts, offBy>>
tick == <<todo, cleared>>
groups == <<category, open>>

Slots    == 1 .. MaxJobs
Types    == {"scrape", "enrich", "verify"}
Backends == {"graph", "cookies"}
Handles  == {"right", "wrong"}
Rows     == [active : BOOLEAN, byCategory : BOOLEAN, missing : BOOLEAN, api : {"untried", "yes", "no"}]
Statuses == {"queued", "running", "retry_pending", "completed"}

(* How far a task has come: it has read the profile, and is stuck if its   *)
(* row will stay running, and gone then; or it has noted that the account  *)
(* is not professional, and sent the job by cookies.                       *)
Stages   == {"start", "read", "stuck", "gone", "noted", "sent"}
Free     == [status |-> "over"]
Jobs     == [of : Influencers, type : Types, backend : Backends, handle : Handles,
             ticked : BOOLEAN, (* whether it is a scrape that comes of a tick *)
             status : Statuses, at : Stages, tries : 0 .. MaxRetries, seen : Rows \union {Free}]

TypeOK ==
  /\ kind \in [Influencers -> {"professional", "personal"}]
  /\ handle \in [Influencers -> Handles]
  /\ row \in [Influencers -> Rows]
  /\ category \in [Influencers -> Categories]
  /\ open \in [Categories -> BOOLEAN]
  /\ backend \in {"hybrid", "cookies"}
  /\ due \in [Influencers -> BOOLEAN]
  /\ jobs \in [Slots -> Jobs \union {Free}]
  /\ todo \subseteq Influencers
  /\ cleared \in todo \union {NoOne}
  /\ acts \in 0 .. MaxActs
  /\ offBy \in [Influencers -> {"operator", "job", "move", NoOne}]

Init ==
  /\ kind \in [Influencers -> {"professional", "personal"}]
  /\ handle \in [Influencers -> Handles]
  /\ row = [i \in Influencers |-> [active |-> TRUE, byCategory |-> FALSE, missing |-> FALSE, api |-> "untried"]]
  /\ category = [i \in Influencers |-> Home]
  /\ open = [c \in Categories |-> TRUE]
  /\ backend = "hybrid"
  /\ due = [i \in Influencers |-> TRUE]
  /\ jobs = [s \in Slots |-> Free]
  /\ todo = {}
  /\ cleared = NoOne
  /\ acts = 0
  /\ offBy = [i \in Influencers |-> NoOne]

-----------------------------------------------------------------------------
(* Dispatch.                                                               *)

Active(s) == jobs[s] # Free /\ jobs[s].status # "completed"

Has(s, i) == Active(s) /\ jobs[s].of = i

(* Faulty variant: a job that waits for its retry is not seen.             *)
HasActive_NoRetries(i) == \E s \in Slots : Has(s, i) /\ jobs[s].status # "retry_pending"

(* has_active_job.                                                         *)
HasActive(i) == \E s \in Slots : Has(s, i)

(* _backend_for: whoever is not known to be unsupported is tried.          *)
BackendFor(r) == IF backend = "hybrid" /\ r.api # "no" THEN "graph" ELSE "cookies"

Message(i, type, b, h) ==
  [of |-> i, type |-> type, backend |-> b, handle |-> h, ticked |-> FALSE,
   status |-> "queued", at |-> "start", tries |-> 0, seen |-> Free]

Dispatched(i, type) ==
  Message(i, type, IF type = "scrape" THEN BackendFor(row[i]) ELSE "cookies", handle[i])

(* A new row with its message; the age of the latest scrape starts anew.   *)
Put(fs, s, message) ==
  /\ fs[s] = Free /\ \A t \in 1 .. s - 1 : fs[t] # Free
  /\ jobs' = [fs EXCEPT ![s] = message]

(* Bound: a new job leaves a place for one that another leads to.          *)
Room == Cardinality({s \in Slots : jobs[s] # Free}) + 1 < MaxJobs

(* Time: the scrape interval passes.                                       *)
FallsDue(i) ==
  /\ ~due[i]
  /\ due' = [due EXCEPT ![i] = TRUE]
  /\ UNCHANGED <<kind, handle, row, groups, backend, jobs, tick, acts, offBy>>

(* run_daily_scrapes: who is due, then one after the other ...             *)
Tick ==
  /\ todo = {}
  /\ todo' = {i \in Influencers : row[i].active /\ due[i]}
  /\ todo' # {}
  /\ UNCHANGED <<kind, handle, row, groups, backend, due, jobs, cleared, acts, offBy>>

(* ... is passed over while a job of any type is active ...                *)
PassOver(i) ==
  /\ cleared = NoOne /\ i \in todo
  /\ HasActive(i)
  /\ todo' = todo \ {i}
  /\ UNCHANGED <<kind, handle, row, groups, backend, due, jobs, cleared, acts, offBy>>

Clear(i) ==
  /\ cleared = NoOne /\ i \in todo
  /\ ~HasActive(i)
  /\ cleared' = i
  /\ UNCHANGED <<kind, handle, row, groups, backend, due, jobs, todo, acts, offBy>>

(* ... and is dispatched, whatever has happened to it in the meantime.     *)
DispatchDue(s) ==
  /\ cleared # NoOne
  /\ Room
  /\ Put(jobs, s, [Dispatched(cleared, "scrape") EXCEPT !.ticked = TRUE])
  /\ due' = [due EXCEPT ![cleared] = FALSE]
  /\ todo' = todo \ {cleared}
  /\ cleared' = NoOne
  /\ UNCHANGED <<kind, handle, row, groups, backend, acts, offBy>>

(* retry_failed_scrapes: a paused influencer waits; the message is made    *)
(* from the row as it is now.                                              *)
Retry(s) ==
  /\ jobs[s] # Free /\ jobs[s].status = "retry_pending"
  /\ LET i == jobs[s].of
     IN /\ row[i].active
        /\ jobs' = [jobs EXCEPT ![s] =
             [Dispatched(i, @.type) EXCEPT !.tries = jobs[s].tries, !.ticked = jobs[s].ticked,
                !.backend = IF jobs[s].type = "enrich" THEN "cookies" ELSE BackendFor(row[i])]]
  /\ UNCHANGED <<kind, handle, row, groups, backend, due, tick, acts, offBy>>

-----------------------------------------------------------------------------
(* The job.                                                                *)

(* _run_one: the type decides before the backend does.                     *)
OnGraph(j) == j.type = "scrape" /\ j.backend = "graph"

Over(s) == [jobs EXCEPT ![s] = Free]

(* The row of a failed attempt, to be retried or not.                      *)
Ended(s, again) ==
  IF again THEN [jobs EXCEPT ![s].tries = @ + 1, ![s].status = "retry_pending",
                             ![s].at = "start", ![s].seen = Free]
  ELSE Over(s)

(* A failure is counted, and the job tried again so many times.            *)
Counted(s) == Ended(s, jobs[s].tries + 1 < MaxRetries)

(* Faulty variant: one more.                                               *)
Reclaimed_OneMore(s) == Ended(s, jobs[s].tries <= MaxRetries)

(* The reaper compares first and counts then.                              *)
Reclaimed(s) == Ended(s, jobs[s].tries < MaxRetries)

(* There is no account, or no token: the job waits, a verify job at the    *)
(* cost of a retry.                                                        *)
Unserved(s) ==
  /\ jobs[s] # Free /\ jobs[s].status = "queued"
  /\ jobs' = IF jobs[s].type = "verify" THEN Counted(s)
             ELSE [jobs EXCEPT ![s].status = "retry_pending"]
  /\ UNCHANGED <<kind, handle, row, groups, backend, due, tick, acts, offBy>>

(* Whether a job may write what it has loaded: scrapes by cookies do if    *)
(* there is no such profile.                                               *)
Writes(j) == j.type = "scrape" /\ (OnGraph(j) \/ j.handle = "wrong")

(* process() acquires one and loads the influencer's row, of which it      *)
(* never writes paused_by_category.                                        *)
Start(s) ==
  /\ jobs[s] # Free /\ jobs[s].status = "queued"
  /\ jobs' = [jobs EXCEPT ![s].status = "running",
                          ![s].seen = IF Writes(jobs[s]) THEN [row[jobs[s].of] EXCEPT !.byCategory = FALSE] ELSE @]
  /\ UNCHANGED <<kind, handle, row, groups, backend, due, tick, acts, offBy>>

Running(s) == jobs[s] # Free /\ jobs[s].status = "running"

(* reap_stale_running: the worker has died, however far it has come.       *)
Reaped(s) ==
  /\ Running(s)
  /\ jobs' = Reclaimed(s)
  /\ UNCHANGED <<kind, handle, row, groups, backend, due, tick, acts, offBy>>

(* Columns are written where they differ from what the job has loaded,     *)
(* which it keeps as long as it may write.                                 *)
Written(s, column, value) ==
  IF jobs[s].seen[column] = value THEN row[jobs[s].of][column] ELSE value

Fails(s) ==
  /\ Running(s) /\ jobs[s].at \in {"start", "read"}
  /\ jobs' = Counted(s)
  /\ UNCHANGED <<kind, handle, row, groups, backend, due, tick, acts, offBy>>

(* By cookies, anything is readable under the right handle.                *)
Succeeds(s) ==
  /\ Running(s) /\ ~OnGraph(jobs[s]) /\ jobs[s].handle = "right"
  /\ jobs' = Over(s)
  /\ UNCHANGED <<kind, handle, row, groups, backend, due, tick, acts, offBy>>

(* What the API has answered to the first request.                         *)
Told(s, answer) ==
  /\ Running(s) /\ jobs[s].at = "start" /\ OnGraph(jobs[s])
  /\ jobs[s].handle = "right" /\ kind[jobs[s].of] = answer

(* By the API, professional accounts are: the profile is committed ...     *)
GraphReads(s) ==
  /\ Told(s, "professional")
  /\ row' = [row EXCEPT ![jobs[s].of].api = Written(s, "api", "yes")]
  /\ jobs' = [jobs EXCEPT ![s].at = "read", ![s].seen = Free]
  /\ UNCHANGED <<kind, handle, groups, backend, due, tick, acts, offBy>>

(* ... "completed" is committed with the recomputed metrics, unless these  *)
(* fail, which leaves the row running ...                                  *)
GraphSucceeds(s) ==
  /\ Running(s) /\ jobs[s].at = "read"
  /\ \/ jobs' = [jobs EXCEPT ![s].status = "completed"]
     \/ jobs' = [jobs EXCEPT ![s].at = "stuck"]
  /\ UNCHANGED <<kind, handle, row, groups, backend, due, tick, acts, offBy>>

(* ... and an enrich job follows, on the days that                         *)
(* INSTAGRAM_ENRICH_EVERY_N_CYCLES leaves, or the worker dies.             *)
EnrichFollows(s) ==
  LET others == IF jobs[s].status = "completed" THEN Over(s) ELSE [jobs EXCEPT ![s].at = "gone"] IN
  /\ jobs[s] # Free
  /\ jobs[s].status = "completed" \/ (Running(s) /\ jobs[s].at = "stuck")
  /\ \/ jobs' = others
     \/ \E t \in Slots : Put(others, t, Dispatched(jobs[s].of, "enrich"))
  /\ UNCHANGED <<kind, handle, row, groups, backend, due, tick, acts, offBy>>

(* Faulty variant: dispatches again without a note of why.                 *)
NotProfessional_Unmarked(s) ==
  /\ Told(s, "personal")
  /\ jobs' = [jobs EXCEPT ![s].at = "noted", ![s].seen = Free]
  /\ UNCHANGED <<kind, handle, row, groups, backend, due, tick, acts, offBy>>

(* _fall_back_to_cookies: noted for good ...                               *)
NotProfessional(s) ==
  /\ Told(s, "personal")
  /\ row' = [row EXCEPT ![jobs[s].of].api = Written(s, "api", "no")]
  /\ jobs' = [jobs EXCEPT ![s].at = "noted", ![s].seen = Free]
  /\ UNCHANGED <<kind, handle, groups, backend, due, tick, acts, offBy>>

(* ... scraped by cookies now ...                                          *)
FallBack(s) ==
  LET i == jobs[s].of IN
  /\ Running(s) /\ jobs[s].at = "noted"
  /\ \E t \in Slots : Put([jobs EXCEPT ![s].at = "sent"], t,
                          [Message(i, "scrape", "cookies", handle[i]) EXCEPT !.ticked = jobs[s].ticked])
  /\ due' = [due EXCEPT ![i] = FALSE]
  /\ UNCHANGED <<kind, handle, row, groups, backend, tick, acts, offBy>>

(* ... and over for this job.                                              *)
GivesWay(s) ==
  /\ Running(s) /\ jobs[s].at = "sent"
  /\ jobs' = Over(s)
  /\ UNCHANGED <<kind, handle, row, groups, backend, due, tick, acts, offBy>>

(* _deactivate_for_missing_handle, which a verify job leaves to scrapes;   *)
(* an enrich job fails as for any other reason.                            *)
NotFound(s) ==
  LET i == jobs[s].of IN
  /\ Running(s) /\ jobs[s].at = "start"
  /\ jobs[s].handle = "wrong" /\ jobs[s].type # "enrich"
  /\ jobs' = Over(s)
  /\ IF jobs[s].type = "verify" THEN UNCHANGED <<row, offBy>>
     ELSE /\ row' = [row EXCEPT ![i].active = Written(s, "active", FALSE),
                                ![i].missing = Written(s, "missing", TRUE)]
          /\ offBy' = IF row[i].active /\ ~row'[i].active THEN [offBy EXCEPT ![i] = "job"] ELSE offBy
  /\ UNCHANGED <<kind, handle, groups, backend, due, tick, acts>>

-----------------------------------------------------------------------------
(* The operator.                                                           *)

Act == acts < MaxActs /\ acts' = acts + 1

(* update_active: an explicit word, which clears what others have noted.   *)
SetActive(i, on) ==
  /\ Act
  /\ row' = [row EXCEPT ![i].active = on, ![i].byCategory = FALSE, ![i].missing = FALSE]
  /\ offBy' = [offBy EXCEPT ![i] = IF on THEN NoOne ELSE "operator"]
  /\ UNCHANGED <<kind, handle, groups, backend, due, jobs, tick>>

(* update_details with a handle, another category or both: off, it stays   *)
(* off until it is resumed, and the note of the category it leaves stays.  *)
UpdateDetails(i, fix, c) ==
  /\ Act
  /\ fix \/ c # category[i]
  /\ handle' = [handle EXCEPT ![i] = IF fix THEN "right" ELSE @]
  /\ row' = [row EXCEPT ![i].missing = @ /\ ~fix]
  /\ category' = [category EXCEPT ![i] = c]
  /\ offBy' = [offBy EXCEPT ![i] = IF c # category[i] /\ row[i].byCategory THEN "move" ELSE @]
  /\ UNCHANGED <<kind, open, backend, due, jobs, tick>>

(* CategoryRepo.update: pauses who is active and notes it ...              *)
ClosedRow(r) == IF r.active THEN [r EXCEPT !.active = FALSE, !.byCategory = TRUE] ELSE r

(* Faulty variant: loses the note and leaves them off.                     *)
OpenedRow_Late(r) == IF r.byCategory THEN [r EXCEPT !.byCategory = FALSE] ELSE r

(* ... and resumes whom it has paused.                                     *)
OpenedRow(r) == IF r.byCategory THEN [r EXCEPT !.active = TRUE, !.byCategory = FALSE] ELSE r

SwitchCategory(c) ==
  LET them == {i \in Influencers : category[i] = c}
      resumed == {i \in them : ~open[c] /\ row[i].byCategory} IN
  /\ open' = [open EXCEPT ![c] = ~@]
  /\ row' = [i \in Influencers |-> IF i \notin them THEN row[i]
                                  ELSE IF open[c] THEN ClosedRow(row[i]) ELSE OpenedRow(row[i])]
  /\ offBy' = [i \in Influencers |-> IF i \in resumed THEN NoOne ELSE offBy[i]]
  /\ UNCHANGED <<kind, handle, category, backend, due, jobs, tick, acts>>

SwitchBackend ==
  /\ Act
  /\ backend' = IF backend = "hybrid" THEN "cookies" ELSE "hybrid"
  /\ UNCHANGED <<kind, handle, row, groups, due, jobs, tick, offBy>>

(* trigger_scrape, trigger_verify and trigger_enrich look at nothing.      *)
Trigger(i, type) ==
  /\ Act
  /\ Room
  /\ \E s \in Slots : Put(jobs, s, Dispatched(i, type))
  /\ due' = IF type = "scrape" THEN [due EXCEPT ![i] = FALSE] ELSE due
  /\ UNCHANGED <<kind, handle, row, groups, backend, tick, offBy>>

(* dispatch_verify_all skips who is off or has a job.                      *)
VerifyAll ==
  /\ Act
  /\ LET them == {i \in Influencers : row[i].active /\ ~HasActive(i)}
     IN /\ them # {} /\ Room
        /\ \E f \in [them -> {s \in Slots : jobs[s] = Free}] :
             /\ \A i, k \in them : f[i] = f[k] => i = k
             /\ jobs' = [s \in Slots |-> IF \E i \in them : f[i] = s
                                         THEN Dispatched(CHOOSE i \in them : f[i] = s, "verify") ELSE jobs[s]]
  /\ UNCHANGED <<kind, handle, row, groups, backend, due, tick, offBy>>

(* The scheduler is restarted: its list is gone.                           *)
SchedulerRestarts ==
  /\ Act
  /\ todo # {}
  /\ todo' = {} /\ cleared' = NoOne
  /\ UNCHANGED <<kind, handle, row, groups, backend, due, jobs, offBy>>

-----------------------------------------------------------------------------
Scheduling ==
  \/ Tick
  \/ \E i \in Influencers : FallsDue(i) \/ PassOver(i) \/ Clear(i)
  \/ \E s \in Slots : DispatchDue(s) \/ Retry(s)

GraphEnds(s) ==
  GraphReads(s) \/ GraphSucceeds(s) \/ EnrichFollows(s) \/ NotProfessional(s) \/ FallBack(s) \/ GivesWay(s)

Ends(s) == Fails(s) \/ Succeeds(s) \/ GraphEnds(s) \/ NotFound(s)

Working == \E s \in Slots : Unserved(s) \/ Start(s) \/ Ends(s) \/ Reaped(s)

Operating ==
  \/ \E i \in Influencers : \/ \E fix \in BOOLEAN, c \in Categories : UpdateDetails(i, fix, c)
                           \/ \E on \in BOOLEAN : SetActive(i, on)
  \/ \E c \in Categories : SwitchCategory(c)
  \/ SwitchBackend
  \/ \E i \in Influencers, type \in Types : Trigger(i, type)
  \/ VerifyAll \/ SchedulerRestarts

Next == Scheduling \/ Working \/ Operating

(* Ticks come every few minutes, messages are received, jobs end, and the  *)
(* reaper finds rows that were left behind; workers need not die.  Graph   *)
(* tokens recover by themselves; cookie accounts do if PoolReturns.  That  *)
(* an account is personal or not there the platform says some day.         *)
Fairness ==
  /\ WF_vars(Tick)
  /\ \A i \in Influencers : WF_vars(FallsDue(i)) /\ WF_vars(PassOver(i) \/ Clear(i))
  /\ WF_vars(\E s \in Slots : DispatchDue(s))
  /\ WF_vars(\E s \in Slots : Retry(s))
  /\ WF_vars(\E s \in Slots : Unserved(s) \/ Start(s))
  /\ WF_vars(\E s \in Slots : Ends(s))
  /\ SF_vars(\E s \in Slots : Start(s) /\ (PoolReturns \/ OnGraph(jobs[s])))
  /\ WF_vars(\E s \in Slots : jobs[s] # Free /\ jobs[s].at = "gone" /\ Reaped(s))
  /\ SF_vars(\E s \in Slots : NotProfessional(s) \/ NotFound(s))

Spec == Init /\ [][Next]_vars /\ Fairness

-----------------------------------------------------------------------------
(* Properties.                                                             *)

(* An influencer is off for a reason that stands: whom the operator has    *)
(* turned off no category cycle, job or tick turns on again, and whoever is *)
(* off was turned off by somebody, or is paused by the category it is in,  *)
(* which is closed, unless it was moved there while paused by another.     *)
OffForAReason ==
  \A i \in Influencers :
    /\ offBy[i] = "operator" => ~row[i].active
    /\ ~row[i].active => offBy[i] # NoOne \/ (row[i].byCategory /\ ~open[category[i]])

(* The scrapes of i that come of the scheduler's ticks.                    *)
OfTicks(i) == {s \in Slots : Has(s, i) /\ jobs[s].ticked}

(* The ticks do not pile scrapes up: whatever has been triggered, retried, *)
(* reaped or fallen back in the meantime, of the scrapes that come of them *)
(* an influencer has one at a time, or the one and its way back by cookies *)
(* if the API cannot read the account.                                     *)
TicksDoNotPile ==
  \A i \in Influencers : Cardinality(OfTicks(i)) <= (IF row[i].api = "no" THEN 2 ELSE 1)

Readable(i) ==
  \E s \in Slots : Running(s) /\ Has(s, i) /\ jobs[s].type = "scrape"
                   /\ (OnGraph(jobs[s]) => kind[i] = "professional")

(* Who stays active is scraped, by a way that can read the account, again  *)
(* and again: restarts, retries, fallbacks and other jobs do not keep it.  *)
EveryoneIsScraped ==
  \A i \in Influencers : <>[](row[i].active) => []<>Readable(i)
=============================================================================
