---------------------------- MODULE MCStreamDma ----------------------------
(* Instances of StreamDma for TLC; the constants are in the .cfg files.   *)
EXTENDS StreamDma
=============================================================================
