---------------------------- MODULE MCAccountPool ----------------------------
(* Values for the constants of AccountPool.                                 *)
EXTENDS AccountPool, TLC

CONSTANTS a1, a2, t1, t2

OneAccount  == {a1}
TwoAccounts == {a1, a2}
OnlyFirst   == {a1}

TwoTasks == {t1, t2}

OnlyT1     == {t1}

OneWorker  == [t \in Tasks |-> "w"]

Nothing     == {}
Deaths      == {"worker_dies", "aborts"}
Logins      == {"register_login"}
=============================================================================
