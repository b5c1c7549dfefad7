-------------------------- MODULE MCDataCollection --------------------------
(* An instance of DataCollection for TLC; the constants are in the .cfg     *)
(* file.                                                                    *)
EXTENDS DataCollection
=============================================================================
