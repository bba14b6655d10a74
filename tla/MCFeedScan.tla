------------------------------ MODULE MCFeedScan ------------------------------
(* Values for the constants of FeedScan.                                    *)
EXTENDS FeedScan

FirstPin   == {1}

Both       == {"instagram", "youtube"}
AllFaults  == FaultKinds
=============================================================================
