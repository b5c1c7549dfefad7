------------------------------- MODULE Archive -------------------------------
(***************************************************************************)
(* What a recording program promises: the samples that come off the DMA    *)
(* end up, in order and without loss, in a growing list of closed files    *)
(* followed by the one that is still open.  Record and DataCollection refine *)
(* this module.                                                            *)
(* A sample is its number in the order of arrival.                         *)
(***************************************************************************)
EXTENDS Naturals, Sequences

CONSTANTS
  MinLength,   \* a file is closed only when it holds at least this many samples
  MaxBatch     \* a packet brings at most this many samples

VARIABLES
  received,    \* number of samples that have arrived
  closed,      \* sequence of closed files
  open         \* content of the open file

archiveVars == <<received, closed, open>>

ArchiveInit ==
  /\ received = 0
  /\ closed = <<>>
  /\ open = <<>>

(* A packet of k new samples arrives.                                      *)
Receive(k) ==
  /\ received' = received + k
  /\ open' = open \o [i \in 1..k |-> received + i]
  /\ UNCHANGED closed

(* The open file becomes a closed one; the next file starts empty.         *)
CloseFile ==
  /\ Len(open) >= MinLength
  /\ closed' = Append(closed, open)
  /\ open' = <<>>
  /\ UNCHANGED received

ArchiveNext ==
  \/ \E k \in 1..MaxBatch : Receive(k)
  \/ CloseFile

ArchiveSpec == ArchiveInit /\ [][ArchiveNext]_archiveVars
=============================================================================
