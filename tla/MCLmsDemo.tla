----------------------------- MODULE MCLmsDemo -----------------------------
(* Instances of LmsDemo for TLC; the values that a .cfg file cannot hold.  *)
EXTENDS LmsDemo

MCValues == {-9, 8}

(* The five files have one length, or one of them has another.              *)
MCLengths ==
  {g \in [Outputs -> 0..MaxLength] :
     \E n \in 0..MaxLength, f \in Outputs : \A h \in Outputs \ {f} : g[h] = n}
=============================================================================
