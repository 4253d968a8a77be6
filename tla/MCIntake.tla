------------------------------ MODULE MCIntake ------------------------------
(* Instances of Intake for TLC; the constants are in the cfg files.           *)
EXTENDS Intake
=============================================================================
