------------------------------ MODULE MCRecord ------------------------------
(* Instances of Record for TLC; the constants are in the .cfg files.       *)
EXTENDS Record
=============================================================================
