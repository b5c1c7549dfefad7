----------------------------- MODULE MCDmaTest -----------------------------
(* Instances of DmaTest for TLC; the constants are in the .cfg file.      *)
EXTENDS DmaTest
=============================================================================
