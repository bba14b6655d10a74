----------------------------- MODULE JobLifecycle -----------------------------
(***************************************************************************)
(* What the fleet promises of a job: there is one right to attempt it.     *)
(* The right goes out with a message, is held by one task at a time, comes *)
(* back to be sent again or is adrift until the reaper finds it, and once  *)
(* it is over it is over.  Failures are counted on the way, and no more    *)
(* than the budget.                                                        *)
(*                                                                         *)
(* Jobs do not depend on one another: a step may move any number of them.  *)
(***************************************************************************)
EXTENDS Naturals

CONSTANTS
  Jobs,         (* the jobs                                                  *)
  MaxRetries    (* SCRAPER_MAX_RETRIES                                       *)

VARIABLES
  right,        (* right[j]: where the right to attempt j is                 *)
  failures      (* failures[j]: how many have been counted                   *)

vars == <<right, failures>>

Rights == {"none", "out", "held", "back", "adrift", "over"}

Init ==
  /\ right = [j \in Jobs |-> "none"]
  /\ failures = [j \in Jobs |-> 0]

Goes(j, from, to) == right[j] \in from /\ right'[j] \in to
Uncounted(j)      == failures'[j] = failures[j]
CountedOnce(j)    == failures'[j] = failures[j] + 1

Dispatched(j) == Goes(j, {"none"}, {"out"}) /\ Uncounted(j)
Taken(j)      == Goes(j, {"out"}, {"held"}) /\ Uncounted(j)
Reissued(j)   == Goes(j, {"back"}, {"out"}) /\ Uncounted(j)

(* A task that dies, or a message that is lost.                            *)
Dropped(j) == Goes(j, {"out", "held"}, {"adrift"}) /\ Uncounted(j)

(* Handed back by an attempt: for nothing, or as a failure that leaves     *)
(* another try.                                                            *)
HandedBack(j) ==
  /\ Goes(j, {"held"}, {"back"})
  /\ Uncounted(j) \/ (failures[j] + 1 < MaxRetries /\ CountedOnce(j))

(* Found by the reaper, which compares before it counts.                   *)
Recovered(j) == Goes(j, {"adrift"}, {"back"}) /\ failures[j] < MaxRetries /\ CountedOnce(j)

(* Completed, failed, cancelled or deleted.                                *)
Settled(j) ==
  \/ Goes(j, {"out", "held", "back", "adrift"}, {"over"}) /\ Uncounted(j)
  \/ Goes(j, {"held", "adrift"}, {"over"}) /\ failures[j] <= MaxRetries /\ CountedOnce(j)

Stays(j) == right'[j] = right[j] /\ Uncounted(j)

Next ==
  \A j \in Jobs :
    \/ Stays(j)
    \/ Dispatched(j) \/ Taken(j)     \/ Reissued(j) \/ Dropped(j)
    \/ HandedBack(j) \/ Recovered(j) \/ Settled(j)

Spec == Init /\ [][Next]_vars
=============================================================================
