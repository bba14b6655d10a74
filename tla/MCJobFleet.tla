------------------------------ MODULE MCJobFleet ------------------------------
(* Values for the constants of JobFleet.                                    *)
EXTENDS JobFleet, TLC

CONSTANTS j1, j2, s1, s2

OneJob   == {j1}
TwoJobs  == {j1, j2}
OneSlot  == {s1}
TwoSlots == {s1, s2}

(* Two tasks of one worker, or one task in each of two.                     *)
OneWorker  == [s \in Slots |-> "w"]
TwoWorkers == [s \in Slots |-> s]

AllCookies  == [j \in Jobs |-> "cookies"]
CookiesThenVerify == [j \in Jobs |-> IF j = j1 THEN "cookies" ELSE "verify"]

Nobody     == {}
SecondPaused == {j2}

NoFaults   == {}
Deaths     == {"worker_dies", "scheduler_dies", "api_dies"}
WorkerDeaths == {"worker_dies"}
SchedulerDeaths == {"scheduler_dies"}
SqsFaults  == {"worker_dies", "outlasts"}

SlotSymmetry == Permutations(Slots)
=============================================================================
