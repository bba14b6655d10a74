------------------------------- MODULE MCIntake -------------------------------
(* Values for the constants of Intake are in the configurations.            *)
EXTENDS Intake
=============================================================================
