------------------------------ MODULE MCAxiDma ------------------------------
(* Instances of AxiDma for TLC: the cases, whose sets a .cfg cannot hold.   *)
EXTENDS AxiDma

CONSTANTS t1, t2     \* model values

(* Nothing worse than a failed mapping or start; then everything at once,   *)
(* with Transf, which is not called together with Recv.                     *)
MCCases == {
  [ops |-> {"Send", "Send_repeat", "Recv", "DirectSend", "DirectRecv", "DirectManualRecv"},
   faults |-> {"alloc", "halt"}, sharedReset |-> FALSE, depth |-> 3],
  [ops |-> {"Send_repeat", "Transf", "DirectSend", "DirectRecv", "DirectManualRecv"},
   faults |-> AllFaults, sharedReset |-> TRUE, depth |-> 2]}
=============================================================================
