---------------------------- MODULE MCLmsFilter ----------------------------
(* Instances of LmsFilter for TLC; the values that a .cfg file cannot hold. *)
EXTENDS LmsFilter

MCInputs == {-2, 1, 3}
=============================================================================
