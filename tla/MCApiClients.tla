----------------------------- MODULE MCApiClients -----------------------------
(* Values for the constants of ApiClients.                                  *)
EXTENDS ApiClients

All     == {"cookies", "graph", "youtube"}
NotKeys == {"cookies", "graph"}
=============================================================================
