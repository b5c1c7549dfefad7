-------------------------- MODULE MCDescriptorRing --------------------------
(* Instances of DescriptorRing for TLC: chains of one to three descriptors  *)
(* of two bytes, the last one full or not.                                  *)
EXTENDS DescriptorRing
=============================================================================
