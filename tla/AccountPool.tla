----------------------------- MODULE AccountPool -----------------------------
(***************************************************************************)
(* The pool of Instagram accounts: jobs lease one account each, a tick     *)
(* frees the leases that dead jobs left, two pollers in every worker       *)
(* process log pending accounts in and retest checkpointed ones, and an    *)
(* operator registers, disables and deletes rows at any time.              *)
(*                                                                         *)
(* An action is one transaction.  release(), reactivate() and the login    *)
(* poller write through the object their session loaded earlier, so they   *)
(* overwrite whatever the row has become; on a row that is gone their      *)
(* UPDATE matches nothing and raises.  Which eligible account is chosen    *)
(* (least recently used first) is left open.                               *)
(***************************************************************************)
EXTENDS Naturals

CONSTANTS
  Accounts,      (* ids of instagram_accounts rows                          *)
  NoAccount,     (* not an account                                          *)
  Registered,    (* the accounts that are in the pool to begin with         *)
  Tasks,         (* jobs of all workers that can run at a time              *)
  WorkerOf,      (* the worker process a task belongs to                    *)
  Renews,        (* tasks whose processor renews the lease: all but verify  *)
  MaxFailures,   (* settings.ACCOUNT_MAX_CONSECUTIVE_FAILURES               *)
  OperatorActs,  (* what the operator does, see Acts                        *)
  Faults         (* what goes wrong in the environment, see FaultKinds      *)

Acts == {"register", "register_login", "enable", "disable", "delete"}

(* "stalls": the heartbeats of a live task fail for a whole lease.         *)
(* "aborts": a job ends by an exception before it releases its account.    *)
FaultKinds == {"stalls", "aborts", "worker_dies"}

ASSUME ConstantsAssumption ==
  /\ NoAccount \notin Accounts
  /\ Registered \subseteq Accounts
  /\ Renews \subseteq Tasks
  /\ MaxFailures \in Nat \ {0}
  /\ OperatorActs \subseteq Acts
  /\ Faults \subseteq FaultKinds

VARIABLES
  status,        (* status[a]: the status column, or "absent", "deleted"    *)
  hasSession,    (* hasSession[a]: the cookies are not the placeholder      *)
  failures,      (* failures[a]: the failure_count column                   *)
  cooling,       (* cooling[a]: cooldown_until lies ahead                   *)
  lease,         (* lease[a]: lease_expires_at is null, ahead or past       *)
  pc,            (* pc[t]: where the task is                                *)
  uses,          (* uses[t]: the account it acquired                        *)
  knew,          (* knew[t]: failure_count as it was acquired               *)
  logins,        (* logins[w]: pending accounts the login poller loaded     *)
  probes         (* probes[w]: checkpointed accounts the revalidator loaded *)

row  == <<status, hasSession, failures, cooling, lease>>
task == <<pc, uses, knew>>
poll == <<logins, probes>>
vars == <<row, task, poll>>

Workers  == {WorkerOf[t] : t \in Tasks}
Stored   == {"active", "in_use", "checkpoint_required", "disabled",
             "pending_login", "login_failed"}
Statuses == Stored \union {"absent", "deleted"}
Outcomes == {"success", "rate_limited", "blocked", "error"}

TypeOK ==
  /\ status \in [Accounts -> Statuses]
  /\ hasSession \in [Accounts -> BOOLEAN]
  /\ failures \in [Accounts -> 0 .. MaxFailures]
  /\ cooling \in [Accounts -> BOOLEAN]
  /\ lease \in [Accounts -> {"none", "ahead", "past"}]
  /\ pc \in [Tasks -> {"idle", "using", "released"}]
  /\ uses \in [Tasks -> Accounts \union {NoAccount}]
  /\ knew \in [Tasks -> 0 .. MaxFailures]
  /\ logins \in [Workers -> SUBSET Accounts]
  /\ probes \in [Workers -> SUBSET Accounts]
  /\ \A t \in Tasks : pc[t] # "idle" => uses[t] \in Accounts

Init ==
  /\ status = [a \in Accounts |-> IF a \in Registered THEN "active" ELSE "absent"]
  /\ hasSession = [a \in Accounts |-> a \in Registered]
  /\ failures = [a \in Accounts |-> 0]
  /\ cooling = [a \in Accounts |-> FALSE]
  /\ lease = [a \in Accounts |-> "none"]
  /\ pc = [t \in Tasks |-> "idle"]
  /\ uses = [t \in Tasks |-> NoAccount]
  /\ knew = [t \in Tasks |-> 0]
  /\ logins = [w \in Workers |-> {}]
  /\ probes = [w \in Workers |-> {}]

Exists(a)   == status[a] \in Stored
Using(t, a) == pc[t] = "using" /\ uses[t] = a

-----------------------------------------------------------------------------
(* Jobs.                                                                   *)

(* Faulty variant: the lease is given no expiry.                           *)
Acquire_NoExpiry(t, a) ==
  /\ pc[t] = "idle"
  /\ status[a] = "active"
  /\ ~cooling[a]
  /\ status' = [status EXCEPT ![a] = "in_use"]
  /\ pc' = [pc EXCEPT ![t] = "using"]
  /\ uses' = [uses EXCEPT ![t] = a]
  /\ knew' = [knew EXCEPT ![t] = failures[a]]
  /\ UNCHANGED <<hasSession, failures, cooling, lease, poll>>

(* acquire_healthy_account: SELECT ... FOR UPDATE SKIP LOCKED, then the    *)
(* flip to in_use in the same transaction.                                 *)
Acquire(t, a) ==
  /\ pc[t] = "idle"
  /\ status[a] = "active"
  /\ ~cooling[a]
  /\ status' = [status EXCEPT ![a] = "in_use"]
  /\ lease' = [lease EXCEPT ![a] = "ahead"]
  /\ pc' = [pc EXCEPT ![t] = "using"]
  /\ uses' = [uses EXCEPT ![t] = a]
  /\ knew' = [knew EXCEPT ![t] = failures[a]]
  /\ UNCHANGED <<hasSession, failures, cooling, poll>>

(* renew_lease, by account id alone; the heartbeat runs on until the job's *)
(* outer finally, a moment after the release.                              *)
Renew(t) ==
  /\ t \in Renews
  /\ pc[t] # "idle"
  /\ Exists(uses[t])
  /\ lease' = [lease EXCEPT ![uses[t]] = "ahead"]
  /\ UNCHANGED <<status, hasSession, failures, cooling, task, poll>>

(* The code compares failure_count with MaxFailures only, so counting on   *)
(* beyond it would tell nothing apart.                                     *)
Counted(n) == IF n < MaxFailures THEN n + 1 ELSE n

(* Faulty variant: names the outcome in the column, which is a plain       *)
(* string; no query selects such a row.                                    *)
StatusAfter_Outcome(outcome, n) ==
  CASE outcome = "blocked" -> outcome
    [] outcome = "error" /\ n >= MaxFailures -> "disabled"
    [] OTHER -> "active"

(* What release() leaves in the row.                                       *)
StatusAfter(outcome, n) ==
  CASE outcome = "blocked" -> "checkpoint_required"
    [] outcome = "error" /\ n >= MaxFailures -> "disabled"
    [] OTHER -> "active"

(* Success sets failure_count to 0, which is written only if it was loaded *)
(* as something else.                                                      *)
FailuresAfter(t, outcome) ==
  IF outcome # "success" THEN Counted(knew[t])
  ELSE IF knew[t] = 0 THEN failures[uses[t]] ELSE 0

Release(t) ==
  /\ pc[t] = "using"
  /\ pc' = [pc EXCEPT ![t] = "released"]
  /\ \E outcome \in Outcomes :
       LET a == uses[t] IN
       IF ~Exists(a) THEN UNCHANGED row
       ELSE /\ status' = [status EXCEPT ![a] = StatusAfter(outcome, Counted(knew[t]))]
            /\ failures' = [failures EXCEPT ![a] = FailuresAfter(t, outcome)]
            /\ cooling' = [cooling EXCEPT ![a] = @ \/ outcome = "rate_limited"]
            /\ lease' = [lease EXCEPT ![a] = "none"]
            /\ UNCHANGED hasSession
  /\ UNCHANGED <<uses, knew, poll>>

(* The job's heartbeat is cancelled and process() returns.                 *)
EndJob(t) ==
  /\ pc[t] = "released"
  /\ pc' = [pc EXCEPT ![t] = "idle"]
  /\ uses' = [uses EXCEPT ![t] = NoAccount]
  /\ knew' = [knew EXCEPT ![t] = 0]
  /\ UNCHANGED <<row, poll>>

(* The outcome's commit raised, so release() was never reached.            *)
Abort(t) ==
  /\ "aborts" \in Faults
  /\ pc[t] = "using"
  /\ pc' = [pc EXCEPT ![t] = "idle"]
  /\ uses' = [uses EXCEPT ![t] = NoAccount]
  /\ knew' = [knew EXCEPT ![t] = 0]
  /\ UNCHANGED <<row, poll>>

(* Every task of the process and both its pollers at once.                 *)
Crash(w) ==
  LET lost == {t \in Tasks : WorkerOf[t] = w} IN
  /\ pc' = [t \in Tasks |-> IF t \in lost THEN "idle" ELSE pc[t]]
  /\ uses' = [t \in Tasks |-> IF t \in lost THEN NoAccount ELSE uses[t]]
  /\ knew' = [t \in Tasks |-> IF t \in lost THEN 0 ELSE knew[t]]
  /\ logins' = [logins EXCEPT ![w] = {}]
  /\ probes' = [probes EXCEPT ![w] = {}]
  /\ UNCHANGED row

WorkerDies(w) == "worker_dies" \in Faults /\ Crash(w)

-----------------------------------------------------------------------------
(* Time and the scheduler.                                                 *)

(* Faulty variant: no heartbeat renews leases.                             *)
Lapse_Unrenewed(a) ==
  /\ lease[a] = "ahead"
  /\ lease' = [lease EXCEPT ![a] = "past"]
  /\ UNCHANGED <<status, hasSession, failures, cooling, task, poll>>

(* No heartbeat renewed the lease for a whole timeout.                     *)
Lapse(a) ==
  /\ lease[a] = "ahead"
  /\ "stalls" \in Faults \/ \A t \in Renews : ~Using(t, a)
  /\ lease' = [lease EXCEPT ![a] = "past"]
  /\ UNCHANGED <<status, hasSession, failures, cooling, task, poll>>

CoolsDown(a) ==
  /\ cooling[a]
  /\ cooling' = [cooling EXCEPT ![a] = FALSE]
  /\ UNCHANGED <<status, hasSession, failures, lease, task, poll>>

(* Faulty variants: every lease, and only the leases without an expiry.    *)
Abandoned_Any  == {a \in Accounts : status[a] = "in_use"}
Abandoned_Null == {a \in Accounts : status[a] = "in_use" /\ lease[a] = "none"}

Abandoned == {a \in Accounts : status[a] = "in_use" /\ lease[a] = "past"}

(* release_stale_leases: one UPDATE, in the scheduler.                     *)
ReleaseStale ==
  /\ Abandoned # {}
  /\ status' = [a \in Accounts |-> IF a \in Abandoned THEN "active" ELSE status[a]]
  /\ lease' = [a \in Accounts |-> IF a \in Abandoned THEN "none" ELSE lease[a]]
  /\ UNCHANGED <<hasSession, failures, cooling, task, poll>>

-----------------------------------------------------------------------------
(* The pollers of a worker process.                                        *)

ListLogins(w) ==
  /\ logins[w] = {}
  /\ logins' = [logins EXCEPT ![w] = {a \in Accounts : status[a] = "pending_login"}]
  /\ logins'[w] # {}
  /\ UNCHANGED <<row, task, probes>>

(* create() with the cookies the browser came back with.  An account that  *)
(* was deleted meanwhile is looked up by name, not found and added again.  *)
LoginSucceeds(w, a) ==
  /\ a \in logins[w]
  /\ logins' = [logins EXCEPT ![w] = @ \ {a}]
  /\ \E b \in Accounts :
       /\ IF Exists(a) THEN b = a ELSE status[b] = "absent"
       /\ status' = [status EXCEPT ![b] = "active"]
       /\ hasSession' = [hasSession EXCEPT ![b] = TRUE]
       /\ \E n \in {0, failures[b]} : failures' = [failures EXCEPT ![b] = n]
  /\ UNCHANGED <<cooling, lease, task, probes>>

(* create_checkpoint_required().                                           *)
LoginCheckpointed(w, a) ==
  /\ a \in logins[w]
  /\ logins' = [logins EXCEPT ![w] = @ \ {a}]
  /\ \E b \in Accounts :
       /\ IF Exists(a) THEN b = a ELSE status[b] = "absent"
       /\ status' = [status EXCEPT ![b] = "checkpoint_required"]
       /\ hasSession' = [hasSession EXCEPT ![b] = FALSE]
  /\ UNCHANGED <<failures, cooling, lease, task, probes>>

LoginFails(w, a) ==
  /\ a \in logins[w]
  /\ logins' = [logins EXCEPT ![w] = @ \ {a}]
  /\ status' = [status EXCEPT ![a] = IF Exists(a) THEN "login_failed" ELSE @]
  /\ UNCHANGED <<hasSession, failures, cooling, lease, task, probes>>

(* get_checkpointed_with_real_session().                                   *)
ListProbes(w) ==
  /\ probes[w] = {}
  /\ probes' = [probes EXCEPT ![w] =
       {a \in Accounts : status[a] = "checkpoint_required" /\ hasSession[a]}]
  /\ probes'[w] # {}
  /\ UNCHANGED <<row, task, logins>>

ProbeFails(w, a) ==
  /\ a \in probes[w]
  /\ probes' = [probes EXCEPT ![w] = @ \ {a}]
  /\ UNCHANGED <<row, task, logins>>

Reactivate(w, a) ==
  /\ a \in probes[w]
  /\ Exists(a)
  /\ probes' = [probes EXCEPT ![w] = @ \ {a}]
  /\ status' = [status EXCEPT ![a] = "active"]
  /\ failures' = [failures EXCEPT ![a] = 0]
  /\ UNCHANGED <<hasSession, cooling, lease, task, logins>>

(* Reactivating a row that is gone raises out of the poller, and gather()  *)
(* ends the whole worker process with it.                                  *)
ReactivateGone(w, a) ==
  /\ a \in probes[w]
  /\ ~Exists(a)
  /\ Crash(w)

-----------------------------------------------------------------------------
(* The operator, through the admin API.                                    *)

(* create(): new cookies, whatever the row was doing.                      *)
Register(a) ==
  /\ "register" \in OperatorActs
  /\ status[a] # "deleted"
  /\ status' = [status EXCEPT ![a] = "active"]
  /\ hasSession' = [hasSession EXCEPT ![a] = TRUE]
  /\ failures' = [failures EXCEPT ![a] = 0]
  /\ UNCHANGED <<cooling, lease, task, poll>>

(* create_pending_login().                                                 *)
RegisterLogin(a) ==
  /\ "register_login" \in OperatorActs
  /\ status[a] # "deleted"
  /\ status' = [status EXCEPT ![a] = "pending_login"]
  /\ hasSession' = [hasSession EXCEPT ![a] = FALSE]
  /\ UNCHANGED <<failures, cooling, lease, task, poll>>

(* update_status().                                                        *)
SetStatus(a) ==
  /\ Exists(a)
  /\ \/ "enable" \in OperatorActs /\ status' = [status EXCEPT ![a] = "active"]
     \/ "disable" \in OperatorActs /\ status' = [status EXCEPT ![a] = "disabled"]
  /\ UNCHANGED <<hasSession, failures, cooling, lease, task, poll>>

Delete(a) ==
  /\ "delete" \in OperatorActs
  /\ Exists(a)
  /\ status' = [status EXCEPT ![a] = "deleted"]
  /\ UNCHANGED <<hasSession, failures, cooling, lease, task, poll>>

-----------------------------------------------------------------------------
JobStep ==
  \E t \in Tasks :
    \/ \E a \in Accounts : Acquire(t, a)
    \/ Renew(t) \/ Release(t) \/ EndJob(t) \/ Abort(t)

RecoveryStep == ReleaseStale \/ \E a \in Accounts : Lapse(a) \/ CoolsDown(a)

PollerStep ==
  \E w \in Workers :
    \/ ListLogins(w)
    \/ ListProbes(w)
    \/ \E a \in Accounts :
         \/ LoginSucceeds(w, a) \/ LoginCheckpointed(w, a) \/ LoginFails(w, a)
         \/ ProbeFails(w, a)    \/ Reactivate(w, a)        \/ ReactivateGone(w, a)

OperatorStep ==
  \E a \in Accounts :
    Register(a) \/ RegisterLogin(a) \/ SetStatus(a) \/ Delete(a)

Next ==
  \/ JobStep \/ RecoveryStep \/ PollerStep \/ OperatorStep
  \/ \E w \in Workers : WorkerDies(w)

Spec == Init /\ [][Next]_vars

-----------------------------------------------------------------------------
(* Safety.                                                                 *)

(* Two jobs never scrape on one live Instagram session at once: what       *)
(* acquire_healthy_account's flip to in_use, renew_lease and the 180 s     *)
(* lease are there for.                                                    *)
SessionsAreExclusive ==
  \A t, u \in Tasks, a \in Accounts : Using(t, a) /\ Using(u, a) => t = u

(* As long as there is one worker process, heartbeats arrive, and the      *)
(* operator leaves alone what a job or a poller has in hand, the row of an *)
(* account that a job works with says so, its lease is not up, and what a  *)
(* poller loaded is still so.                                              *)
HolderAgrees ==
  /\ SessionsAreExclusive
  /\ \A t \in Tasks, a \in Accounts :
       Using(t, a) => status[a] = "in_use" /\ lease[a] = "ahead"
  /\ \A w \in Workers :
       /\ \A a \in logins[w] : status[a] = "pending_login"
       /\ \A a \in probes[w] : status[a] = "checkpoint_required"

(* An account that is in_use has an expiry for release_stale_leases to     *)
(* find: with a null one it would stay leased for ever, since NULL < now() *)
(* is not true.                                                            *)
InUseIsLeased == \A a \in Accounts : status[a] = "in_use" => lease[a] # "none"

(* What release() and update_status() say of "disabled": nothing brings    *)
(* such an account back into the pool by itself.                           *)
DisabledStaysOut ==
  [][\A a \in Accounts : status[a] = "disabled" =>
       status'[a] \in {"disabled", "deleted"}]_vars

-----------------------------------------------------------------------------
(* Liveness.  A live job comes to its release, a lease that nobody renews  *)
(* runs out, and the scheduler's tick goes on.                             *)

Fairness ==
  /\ WF_vars(ReleaseStale)
  /\ \A a \in Accounts : WF_vars(Lapse(a))
  /\ \A t \in Tasks : WF_vars(Release(t)) /\ WF_vars(EndJob(t))

FairSpec == Spec /\ Fairness

(* A leased account comes free again, whatever becomes of its job.         *)
LeasesEnd == \A a \in Accounts : status[a] = "in_use" ~> status[a] # "in_use"
=============================================================================
