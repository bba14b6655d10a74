-------------------------- MODULE AccountPool_proofs --------------------------
(***************************************************************************)
(* What holds of AccountPool for any accounts, tasks and workers.          *)
(***************************************************************************)
EXTENDS AccountPool, TLAPS

(* One failure more, capped.                                               *)
LEMMA CountStaysInRange ==
  ASSUME NEW n \in 0 .. MaxFailures
  PROVE  Counted(n) \in 0 .. MaxFailures
  BY ConstantsAssumption DEF Counted

(* An empty pool is well typed.                                            *)
LEMMA TypeHoldsInitially == Init => TypeOK
  BY ConstantsAssumption DEF Init, TypeOK, Statuses, Stored

(* A worker process that ends leaves well-typed tasks and pollers.         *)
LEMMA CrashKeepsType ==
  ASSUME TypeOK, NEW w \in Workers, Crash(w)
  PROVE  TypeOK'
<1>1. /\ pc' \in [Tasks -> {"idle", "using", "released"}]
      /\ uses' \in [Tasks -> Accounts \union {NoAccount}]
      /\ \A t \in Tasks : pc'[t] # "idle" => uses'[t] \in Accounts
  BY DEF TypeOK, Crash
<1>2. knew' \in [Tasks -> 0 .. MaxFailures]
  BY ConstantsAssumption DEF TypeOK, Crash
<1>3. /\ logins' \in [Workers -> SUBSET Accounts]
      /\ probes' \in [Workers -> SUBSET Accounts]
  BY DEF TypeOK, Crash
<1> QED
  BY <1>1, <1>2, <1>3 DEF TypeOK, Crash, row

(* What release() leaves in the columns is within their types.             *)
LEMMA ReleaseKeepsType ==
  ASSUME TypeOK, NEW t \in Tasks, Release(t)
  PROVE  TypeOK'
<1>1. uses[t] \in Accounts
  BY DEF TypeOK, Release
<1>2. UNCHANGED <<uses, knew, poll>> /\ pc' = [pc EXCEPT ![t] = "released"]
  BY DEF Release
<1>3. CASE UNCHANGED row
  BY <1>1, <1>2, <1>3 DEF TypeOK, row, poll
<1>4. CASE ~UNCHANGED row
  <2>1. PICK outcome \in Outcomes :
          /\ status' = [status EXCEPT ![uses[t]] = StatusAfter(outcome, Counted(knew[t]))]
          /\ failures' = [failures EXCEPT ![uses[t]] = FailuresAfter(t, outcome)]
          /\ cooling' = [cooling EXCEPT ![uses[t]] = @ \/ outcome = "rate_limited"]
          /\ lease' = [lease EXCEPT ![uses[t]] = "none"]
          /\ UNCHANGED hasSession
    BY <1>4 DEF Release
  <2>2. Counted(knew[t]) \in 0 .. MaxFailures
    BY CountStaysInRange DEF TypeOK
  <2>3. FailuresAfter(t, outcome) \in 0 .. MaxFailures
    BY <1>1, <2>2, ConstantsAssumption DEF FailuresAfter, TypeOK
  <2>4. StatusAfter(outcome, Counted(knew[t])) \in Statuses
    BY DEF StatusAfter, Statuses, Stored
  <2>5. /\ status' \in [Accounts -> Statuses]
        /\ failures' \in [Accounts -> 0 .. MaxFailures]
    BY <2>1, <2>3, <2>4 DEF TypeOK
  <2>6. cooling' \in [Accounts -> BOOLEAN]
    BY <2>1 DEF TypeOK
  <2>7. lease' \in [Accounts -> {"none", "ahead", "past"}]
    BY <2>1 DEF TypeOK
  <2> QED
    BY <1>1, <1>2, <2>1, <2>5, <2>6, <2>7 DEF TypeOK, poll
<1> QED
  BY <1>3, <1>4

(* Every action writes values of the columns' and variables' types.        *)
LEMMA TypeIsPreserved == TypeOK /\ [Next]_vars => TypeOK'
<1> SUFFICES ASSUME TypeOK, [Next]_vars
             PROVE  TypeOK'
  OBVIOUS
<1> USE ConstantsAssumption
<1>1. ASSUME NEW t \in Tasks, NEW a \in Accounts, Acquire(t, a) PROVE TypeOK'
  BY <1>1 DEF TypeOK, Acquire, Statuses, Stored, poll
<1>2. ASSUME NEW t \in Tasks, Renew(t) PROVE TypeOK'
  BY <1>2 DEF TypeOK, Renew, task, poll
<1>3. ASSUME NEW t \in Tasks, Release(t) PROVE TypeOK'
  BY <1>3, ReleaseKeepsType
<1>4. ASSUME NEW t \in Tasks, EndJob(t) \/ Abort(t) PROVE TypeOK'
  BY <1>4 DEF TypeOK, EndJob, Abort, row, poll
<1>5. ASSUME ReleaseStale PROVE TypeOK'
  BY <1>5 DEF TypeOK, ReleaseStale, Statuses, Stored, task, poll
<1>6. ASSUME NEW a \in Accounts, Lapse(a) \/ CoolsDown(a) PROVE TypeOK'
  BY <1>6 DEF TypeOK, Lapse, CoolsDown, task, poll
<1>7. ASSUME NEW w \in Workers, ListLogins(w) \/ ListProbes(w) PROVE TypeOK'
  BY <1>7 DEF TypeOK, ListLogins, ListProbes, row, task
<1>8. ASSUME NEW w \in Workers, NEW a \in Accounts, LoginSucceeds(w, a) PROVE TypeOK'
  BY <1>8 DEF TypeOK, LoginSucceeds, Statuses, Stored, task
<1>9. ASSUME NEW w \in Workers, NEW a \in Accounts, LoginCheckpointed(w, a) PROVE TypeOK'
  BY <1>9 DEF TypeOK, LoginCheckpointed, Statuses, Stored, task
<1>10. ASSUME NEW w \in Workers, NEW a \in Accounts, LoginFails(w, a) PROVE TypeOK'
  BY <1>10 DEF TypeOK, LoginFails, Statuses, Stored, task
<1>11. ASSUME NEW w \in Workers, NEW a \in Accounts, ProbeFails(w, a) PROVE TypeOK'
  BY <1>11 DEF TypeOK, ProbeFails, row, task
<1>12. ASSUME NEW w \in Workers, NEW a \in Accounts, Reactivate(w, a) PROVE TypeOK'
  BY <1>12 DEF TypeOK, Reactivate, Statuses, Stored, task
<1>13. ASSUME NEW w \in Workers, Crash(w) PROVE TypeOK'
  BY <1>13, CrashKeepsType
<1>14. ASSUME NEW a \in Accounts, Register(a) PROVE TypeOK'
  BY <1>14 DEF TypeOK, Register, Statuses, Stored, task, poll
<1>15. ASSUME NEW a \in Accounts, RegisterLogin(a) \/ SetStatus(a) \/ Delete(a) PROVE TypeOK'
  BY <1>15 DEF TypeOK, RegisterLogin, SetStatus, Delete, Statuses, Stored, task, poll
<1>16. CASE UNCHANGED vars
  BY <1>16 DEF TypeOK, vars, row, task, poll
<1> QED
  BY <1>1, <1>2, <1>3, <1>4, <1>5, <1>6, <1>7, <1>8, <1>9, <1>10, <1>11, <1>12, <1>13,
     <1>14, <1>15, <1>16
     DEF Next, JobStep, RecoveryStep, PollerStep, OperatorStep, WorkerDies, ReactivateGone

(* Every variable has its type in every reachable state, whatever the      *)
(* operator does and whatever fails.                                       *)
THEOREM TypeCorrect == Spec => []TypeOK
<1>1. Init => TypeOK
  BY TypeHoldsInitially
<1>2. TypeOK /\ [Next]_vars => TypeOK'
  BY TypeIsPreserved
<1> QED
  BY <1>1, <1>2, PTL DEF Spec

-----------------------------------------------------------------------------
(* No step leaves an account in_use without an expiry.                     *)
LEMMA ExpiryIsPreserved == TypeOK /\ InUseIsLeased /\ [Next]_vars => InUseIsLeased'
<1> SUFFICES ASSUME TypeOK, InUseIsLeased, [Next]_vars
             PROVE  InUseIsLeased'
  OBVIOUS
<1> USE DEF InUseIsLeased
<1>1. ASSUME NEW t \in Tasks, NEW a \in Accounts, Acquire(t, a) PROVE InUseIsLeased'
  BY <1>1 DEF TypeOK, Acquire
<1>2. ASSUME NEW t \in Tasks, Renew(t) PROVE InUseIsLeased'
  BY <1>2 DEF TypeOK, Renew
<1>3. ASSUME NEW t \in Tasks, Release(t) PROVE InUseIsLeased'
  BY <1>3 DEF TypeOK, Release, StatusAfter, row
<1>4. ASSUME NEW t \in Tasks, EndJob(t) \/ Abort(t) PROVE InUseIsLeased'
  BY <1>4 DEF EndJob, Abort, row
<1>5. ASSUME ReleaseStale PROVE InUseIsLeased'
  BY <1>5 DEF ReleaseStale
<1>6. ASSUME NEW a \in Accounts, Lapse(a) \/ CoolsDown(a) PROVE InUseIsLeased'
  BY <1>6 DEF TypeOK, Lapse, CoolsDown
<1>7. ASSUME NEW w \in Workers, ListLogins(w) \/ ListProbes(w) PROVE InUseIsLeased'
  BY <1>7 DEF ListLogins, ListProbes, row
<1>8. ASSUME NEW w \in Workers, NEW a \in Accounts,
             LoginSucceeds(w, a) \/ LoginCheckpointed(w, a) \/ LoginFails(w, a)
      PROVE  InUseIsLeased'
  BY <1>8 DEF TypeOK, LoginSucceeds, LoginCheckpointed, LoginFails
<1>9. ASSUME NEW w \in Workers, NEW a \in Accounts, ProbeFails(w, a) \/ Reactivate(w, a)
      PROVE  InUseIsLeased'
  BY <1>9 DEF TypeOK, ProbeFails, Reactivate, row
<1>10. ASSUME NEW w \in Workers, Crash(w) PROVE InUseIsLeased'
  BY <1>10 DEF Crash, row
<1>11. ASSUME NEW a \in Accounts,
              Register(a) \/ RegisterLogin(a) \/ SetStatus(a) \/ Delete(a)
       PROVE  InUseIsLeased'
  BY <1>11 DEF TypeOK, Register, RegisterLogin, SetStatus, Delete
<1>12. CASE UNCHANGED vars
  BY <1>12 DEF vars, row
<1> QED
  BY <1>1, <1>2, <1>3, <1>4, <1>5, <1>6, <1>7, <1>8, <1>9, <1>10, <1>11, <1>12
     DEF Next, JobStep, RecoveryStep, PollerStep, OperatorStep, WorkerDies, ReactivateGone

(* The stale-lease tick can find every leased account, under every fault   *)
(* and everything an operator does.                                        *)
THEOREM EveryLeaseHasAnExpiry == Spec => []InUseIsLeased
<1>1. Init => InUseIsLeased
  BY DEF Init, InUseIsLeased
<1>2. TypeOK /\ InUseIsLeased /\ [Next]_vars => InUseIsLeased'
  BY ExpiryIsPreserved
<1> QED
  BY <1>1, <1>2, TypeCorrect, PTL DEF Spec

-----------------------------------------------------------------------------
(* One worker process, heartbeats that arrive.                             *)
Undisturbed ==
  /\ Renews = Tasks
  /\ "stalls" \notin Faults
  /\ \A v, w \in Workers : v = w

(* A job works with the account, or a poller is to test it or log it in.   *)
Taken(a) ==
  \/ \E t \in Tasks : Using(t, a)
  \/ \E w \in Workers : a \in logins[w] \union probes[w]

(* A step of an operator who leaves alone what a job or a poller has in    *)
(* hand, and does anything else to any row at any time.                    *)
Considerate ==
  \A a \in Accounts :
    Taken(a) => ~(Register(a) \/ RegisterLogin(a) \/ SetStatus(a) \/ Delete(a))

(* Nobody holds anything at first.                                         *)
LEMMA HolderHoldsInitially == Init => HolderAgrees
  BY ConstantsAssumption DEF Init, HolderAgrees, SessionsAreExclusive, Using

(* A release through the loaded object is the holder's own.                *)
LEMMA ReleaseKeepsHolder ==
  ASSUME TypeOK, HolderAgrees, NEW t \in Tasks, Release(t)
  PROVE  HolderAgrees'
<1> USE DEF Using
<1>1. uses[t] \in Accounts /\ Using(t, uses[t])
  BY DEF TypeOK, Release
<1>2. Exists(uses[t])
  BY <1>1 DEF HolderAgrees, Exists, Stored
<1>3. \A u \in Tasks, a \in Accounts : Using(u, a)' => Using(u, a) /\ a # uses[t]
  BY <1>1 DEF TypeOK, Release, HolderAgrees, SessionsAreExclusive
<1>4. \A a \in Accounts \ {uses[t]} : status'[a] = status[a] /\ lease'[a] = lease[a]
  BY <1>1 DEF TypeOK, Release, row
<1>5. \A w \in Workers : uses[t] \notin logins[w] \union probes[w]
  BY <1>1 DEF HolderAgrees
<1>6. UNCHANGED poll
  BY DEF Release
<1>7. SessionsAreExclusive'
  BY <1>3 DEF HolderAgrees, SessionsAreExclusive
<1>8. \A u \in Tasks, a \in Accounts :
        Using(u, a)' => status'[a] = "in_use" /\ lease'[a] = "ahead"
  BY <1>3, <1>4 DEF HolderAgrees
<1>9. \A w \in Workers :
         /\ \A a \in logins'[w] : status'[a] = "pending_login"
         /\ \A a \in probes'[w] : status'[a] = "checkpoint_required"
  BY <1>4, <1>5, <1>6 DEF HolderAgrees, TypeOK, poll
<1> QED
  BY <1>7, <1>8, <1>9 DEF HolderAgrees

(* A login ends on the row it was listed for, which is still pending.      *)
LEMMA LoginKeepsHolder ==
  ASSUME Undisturbed, TypeOK, HolderAgrees, NEW w \in Workers, NEW a \in Accounts,
         LoginSucceeds(w, a) \/ LoginCheckpointed(w, a) \/ LoginFails(w, a)
  PROVE  HolderAgrees'
<1>1. status[a] = "pending_login" /\ Exists(a) /\ a \in logins[w]
  BY DEF HolderAgrees, LoginSucceeds, LoginCheckpointed, LoginFails, Exists, Stored
<1>2. /\ logins' = [logins EXCEPT ![w] = @ \ {a}]
      /\ \A b \in Accounts \ {a} : status'[b] = status[b]
      /\ UNCHANGED <<lease, task, probes>>
  BY <1>1 DEF LoginSucceeds, LoginCheckpointed, LoginFails, TypeOK
<1>3. /\ \A t \in Tasks : ~Using(t, a)
      /\ \A v \in Workers : a \notin probes[v] /\ a \notin logins'[v]
  BY <1>1, <1>2 DEF HolderAgrees, Undisturbed, TypeOK
<1> QED
  BY <1>2, <1>3 DEF HolderAgrees, SessionsAreExclusive, Using, TypeOK, task

(* The operator leaves alone what is taken.                                *)
LEMMA OperatorKeepsHolder ==
  ASSUME TypeOK, HolderAgrees, [Considerate]_vars, NEW a \in Accounts,
         Register(a) \/ RegisterLogin(a) \/ SetStatus(a) \/ Delete(a)
  PROVE  HolderAgrees'
<1>1. CASE UNCHANGED vars
  BY <1>1 DEF vars, row, task, poll, HolderAgrees, SessionsAreExclusive, Using
<1>2. CASE Considerate
  <2>1. ~Taken(a)
    BY <1>2 DEF Considerate
  <2>2. /\ \A b \in Accounts \ {a} : status'[b] = status[b]
        /\ UNCHANGED <<lease, task, poll>>
    BY DEF Register, RegisterLogin, SetStatus, Delete, TypeOK
  <2> QED
    BY <2>1, <2>2 DEF Taken, HolderAgrees, SessionsAreExclusive, Using, TypeOK, task, poll
<1> QED
  BY <1>1, <1>2

(* One case for each action.                                               *)
LEMMA HolderIsPreserved ==
  ASSUME Undisturbed
  PROVE  TypeOK /\ HolderAgrees /\ [Next]_vars /\ [Considerate]_vars => HolderAgrees'
<1> SUFFICES ASSUME TypeOK, HolderAgrees, [Next]_vars, [Considerate]_vars
             PROVE  HolderAgrees'
  OBVIOUS
<1> USE DEF HolderAgrees, SessionsAreExclusive, Using
<1>1. ASSUME NEW t \in Tasks, NEW a \in Accounts, Acquire(t, a) PROVE HolderAgrees'
  BY <1>1 DEF TypeOK, Acquire, poll
<1>2. ASSUME NEW t \in Tasks, Renew(t) PROVE HolderAgrees'
  BY <1>2 DEF TypeOK, Renew, task, poll
<1>3. ASSUME NEW t \in Tasks, Release(t) PROVE HolderAgrees'
  BY <1>3, ReleaseKeepsHolder
<1>4. ASSUME NEW t \in Tasks, EndJob(t) \/ Abort(t) PROVE HolderAgrees'
  BY <1>4 DEF TypeOK, EndJob, Abort, row, poll
<1>5. ASSUME ReleaseStale PROVE HolderAgrees'
  BY <1>5 DEF TypeOK, ReleaseStale, Abandoned, task, poll
<1>6. ASSUME NEW a \in Accounts, Lapse(a) \/ CoolsDown(a) PROVE HolderAgrees'
  BY <1>6 DEF Undisturbed, TypeOK, Lapse, CoolsDown, task, poll
<1>7. ASSUME NEW w \in Workers, ListLogins(w) PROVE HolderAgrees'
  BY <1>7 DEF TypeOK, ListLogins, row, task
<1>8. ASSUME NEW w \in Workers, ListProbes(w) PROVE HolderAgrees'
  BY <1>8 DEF TypeOK, ListProbes, row, task
<1>9. ASSUME NEW w \in Workers, NEW a \in Accounts,
             LoginSucceeds(w, a) \/ LoginCheckpointed(w, a) \/ LoginFails(w, a)
      PROVE  HolderAgrees'
  BY <1>9, LoginKeepsHolder
<1>10. ASSUME NEW w \in Workers, NEW a \in Accounts, ProbeFails(w, a) PROVE HolderAgrees'
  BY <1>10 DEF TypeOK, ProbeFails, row, task
<1>11. ASSUME NEW w \in Workers, NEW a \in Accounts, Reactivate(w, a) PROVE HolderAgrees'
  BY <1>11 DEF Undisturbed, TypeOK, Reactivate, task
<1>12. ASSUME NEW w \in Workers, Crash(w) PROVE HolderAgrees'
  BY <1>12 DEF TypeOK, Crash, row
<1>13. ASSUME NEW a \in Accounts,
              Register(a) \/ RegisterLogin(a) \/ SetStatus(a) \/ Delete(a)
       PROVE  HolderAgrees'
  BY <1>13, OperatorKeepsHolder
<1>14. CASE UNCHANGED vars
  BY <1>14 DEF vars, row, task, poll
<1> QED
  BY <1>1, <1>2, <1>3, <1>4, <1>5, <1>6, <1>7, <1>8, <1>9, <1>10, <1>11, <1>12, <1>13,
     <1>14
     DEF Next, JobStep, RecoveryStep, PollerStep, OperatorStep, WorkerDies, ReactivateGone

(* A job or poller that has an account in hand and the row agree about it, *)
(* as long as the operator leaves that account alone.                      *)
THEOREM HolderCorrect ==
  ASSUME Undisturbed
  PROVE  Spec /\ [][Considerate]_vars => []HolderAgrees
<1>1. Init => HolderAgrees
  BY HolderHoldsInitially
<1>2. TypeOK /\ HolderAgrees /\ [Next]_vars /\ [Considerate]_vars => HolderAgrees'
  BY HolderIsPreserved
<1> QED
  BY <1>1, <1>2, TypeCorrect, PTL DEF Spec

(* However many jobs a worker runs, however often it is killed, whatever   *)
(* the operator does to the accounts that are not in hand: no two jobs     *)
(* scrape on one Instagram session at the same time.                       *)
THEOREM OneJobPerSession ==
  ASSUME Undisturbed
  PROVE  Spec /\ [][Considerate]_vars => []SessionsAreExclusive
<1>1. HolderAgrees => SessionsAreExclusive
  BY DEF HolderAgrees
<1> QED
  BY <1>1, HolderCorrect, PTL

(* No step of a job, a tick or a poller takes an account out of disabled.  *)
LEMMA DisabledIsLeftAlone ==
  ASSUME OperatorActs \subseteq {"disable", "delete"}, TypeOK, HolderAgrees, [Next]_vars,
         NEW k \in Accounts, status[k] = "disabled"
  PROVE  status'[k] \in {"disabled", "deleted"}
<1>1. /\ \A t \in Tasks : ~Using(t, k)
      /\ \A w \in Workers : k \notin probes[w]
      /\ \A w \in Workers : \A a \in logins[w] : a # k /\ Exists(a)
  BY DEF HolderAgrees, Exists, Stored
<1>2. ASSUME NEW t \in Tasks, NEW a \in Accounts, Acquire(t, a) PROVE status'[k] = status[k]
  BY <1>2 DEF Acquire, TypeOK
<1>3. ASSUME NEW t \in Tasks, Release(t) PROVE status'[k] = status[k]
  BY <1>1, <1>3 DEF Release, Using, row, TypeOK
<1>4. ASSUME NEW t \in Tasks, Renew(t) \/ EndJob(t) \/ Abort(t) PROVE status'[k] = status[k]
  BY <1>4 DEF Renew, EndJob, Abort, row
<1>5. ASSUME RecoveryStep PROVE status'[k] = status[k]
  BY <1>5 DEF RecoveryStep, ReleaseStale, Abandoned, Lapse, CoolsDown
<1>6. ASSUME PollerStep PROVE status'[k] = status[k]
  BY <1>1, <1>6
     DEF PollerStep, ListLogins, ListProbes, LoginSucceeds, LoginCheckpointed, LoginFails,
         ProbeFails, Reactivate, ReactivateGone, Crash, row, TypeOK
<1>7. ASSUME NEW w \in Workers, WorkerDies(w) PROVE status'[k] = status[k]
  BY <1>7 DEF WorkerDies, Crash, row
<1>8. ASSUME OperatorStep PROVE status'[k] \in {"disabled", "deleted"}
  BY <1>8 DEF OperatorStep, Register, RegisterLogin, SetStatus, Delete, TypeOK
<1>9. CASE UNCHANGED vars
  BY <1>9 DEF vars, row
<1> QED
  BY <1>2, <1>3, <1>4, <1>5, <1>6, <1>7, <1>8, <1>9 DEF Next, JobStep

(* An account that the operator does not enable or register again stays    *)
(* disabled: no job, tick, login or probe takes it back.                   *)
THEOREM DisabledIsTerminal ==
  ASSUME Undisturbed, OperatorActs \subseteq {"disable", "delete"}
  PROVE  Spec /\ [][Considerate]_vars => DisabledStaysOut
<1>1. TypeOK /\ HolderAgrees /\ [Next]_vars =>
        [\A a \in Accounts : status[a] = "disabled" =>
            status'[a] \in {"disabled", "deleted"}]_vars
  BY DisabledIsLeftAlone
<1> QED
  BY <1>1, TypeCorrect, HolderCorrect, PTL DEF Spec, DisabledStaysOut
=============================================================================
