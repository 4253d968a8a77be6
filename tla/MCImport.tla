------------------------------ MODULE MCImport ------------------------------
(* An instance of Import for TLC; the constants are in the cfg file.         *)
EXTENDS Import
=============================================================================
