------------------------------ MODULE MCRegistry ------------------------------
(* Values for the constants of Registry are in the configuration.           *)
EXTENDS Registry
=============================================================================
