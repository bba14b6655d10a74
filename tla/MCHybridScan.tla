----------------------------- MODULE MCHybridScan -----------------------------
(* Values for the constants of HybridScan.                                  *)
EXTENDS HybridScan

PinnedFirst == {1}

Failures    == {"fails", "sync"}
NullViews   == {"null_views"}
=============================================================================
