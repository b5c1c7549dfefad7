------------------------------- MODULE LmsDemo -------------------------------
(***************************************************************************)
(* The demonstration of the filters (lmsDemo.cpp): two recordings, ref and  *)
(* opt, each less its running average, go through a normalised VSS filter;  *)
(* the averages, the error, the step size and the part of opt that was      *)
(* cancelled go to five more files, which the program loads first and then  *)
(* writes over.  The filter is that of LmsFilter with its integers; its     *)
(* steps take what Pass feeds them with.                                    *)
(***************************************************************************)
EXTENDS LmsFilter, LeakyIntegrator, Sequences

CONSTANTS
  Values,        \* the samples of ref and opt
  MaxLength,     \* bound: samples of a file
  LoadedLengths, \* the lengths the five files may have when they are loaded
  Loaded         \* stands for a sample of a file written by an earlier run

Outputs == {"refL", "optL", "err", "stp", "anc"}

ASSUME LmsDemoAssumption ==
  /\ Values \subseteq Samples
  /\ MaxLength \in Nat
  /\ LoadedLengths \subseteq [Outputs -> 0..MaxLength]
  /\ Loaded \notin Int

VARIABLES
  pc,            \* where main() is
  idxOpt,
  ref, opt,      \* the samples of the files of that name
  files,         \* those of the five others
  last           \* lastSample of leakyRef and leakyOpt

myFilter == filterVars
vars     == <<pc, idxOpt, ref, opt, files, last, myFilter>>

lookahead == IF taps = 1 THEN 0 ELSE taps \div 2

numSamples == Len(ref) - lookahead

Recordings == UNION {[1..n -> Values] : n \in 0..MaxLength}

(* Each file is as long as what some earlier run left of it, and one that    *)
(* does not exist has no samples.                                           *)
Init ==
  /\ FilterInit
  /\ normalised /\ variable
  /\ pc = "start"
  /\ idxOpt = 0
  /\ ref \in Recordings /\ opt \in Recordings
  /\ \E loaded \in LoadedLengths :
       files = [f \in Outputs |-> [i \in 1..loaded[f] |-> Loaded]]
  /\ last = [ref |-> 0, opt |-> 0]

(* new double[numSamples] throws if there are fewer samples than lookahead. *)
Allocate ==
  /\ pc = "start"
  /\ pc' = IF numSamples < 0 THEN "failed" ELSE "loop"
  /\ UNCHANGED <<idxOpt, ref, opt, files, last, myFilter>>

idxRef == idxOpt + lookahead

MoreToDo_Last == idxOpt <= numSamples     \* mutant: one pass too many
MoreToDo == idxOpt < numSamples

(* Are all the accesses of this pass within their vectors and arrays?       *)
InBounds ==
  /\ idxOpt < Len(opt)
  /\ idxRef < numSamples                                  \* refCor
  /\ idxRef < Len(files["refL"])
  /\ \A f \in Outputs \ {"refL"} : idxOpt < Len(files[f])

Detrended_Raw(sample, average) == Stored(sample)     \* mutant: the average stays
Detrended_Wide(sample, average) == sample - average         \* mutant: no conversion

(* The sample less its average, as a T_VNLMS.                               *)
Detrended(sample, average) == Stored(sample - average)

(* opt is the signal that is filtered and ref the one that is predicted.    *)
Pass ==
  /\ pc = "loop" /\ MoreToDo /\ InBounds
  /\ \E refL \in step(last.ref, ref[idxRef + 1]), optL \in step(last.opt, opt[idxOpt + 1]) :
       LET ref16 == Detrended(ref[idxRef + 1], refL)
           opt16 == Detrended(opt[idxOpt + 1], optL)
       IN /\ last' = [ref |-> refL, opt |-> optL]
          /\ Step(opt16, ref16)
          /\ files' = [files EXCEPT !["refL"][idxRef + 1] = refL,
                                    !["optL"][idxOpt + 1] = optL,
                                    !["anc"][idxOpt + 1]  = Stored(opt16 - err'),
                                    !["err"][idxOpt + 1]  = err',
                                    !["stp"][idxOpt + 1]  = stepSize']
  /\ idxOpt' = idxOpt + 1
  /\ UNCHANGED <<pc, ref, opt>>

(* What follows an access out of bounds is undefined and left out.          *)
Overrun ==
  /\ pc = "loop" /\ MoreToDo /\ ~InBounds
  /\ pc' = "overrun"
  /\ UNCHANGED <<idxOpt, ref, opt, files, last, myFilter>>

(* The five files are saved.                                                *)
Save ==
  /\ pc = "loop" /\ ~MoreToDo
  /\ pc' = "done"
  /\ UNCHANGED <<idxOpt, ref, opt, files, last, myFilter>>

Next == Allocate \/ Pass \/ Overrun \/ Save

Spec == Init /\ [][Next]_vars

-------------------------------------------------------------------------------
(* Properties.                                                              *)

(* Every variable stays in its set, and no file changes its length           *)
(* (lmsDemo.cpp:80-132).                                                    *)
TypeOK ==
  /\ FilterTypeOK
  /\ pc \in {"start", "loop", "done", "failed", "overrun"}
  /\ idxOpt \in 0..MaxLength
  /\ {ref, opt} \subseteq Seq(Values)
  /\ \A f \in Outputs : Len(files[f]) \in 0..MaxLength

(* The averages drift beyond the range of the samples by no more than the    *)
(* rounding of two products can sum up to, 2/minusAlpha units of T, so that *)
(* a T_LEAKY with that much room never overflows                            *)
(* (leakyIntegrator.h:17-24, lmsDemo.cpp:145-146).                          *)
AverageBounded == WithinDrift(last.ref) /\ WithinDrift(last.opt)

(* Average, cancelled part and error of opt add up to its sample at every    *)
(* index that was written, whatever overflowed; the rest of the files is     *)
(* still what was loaded, the beginning of refL included                    *)
(* (lmsDemo.cpp:132-175).                                                   *)
FilesAddUp ==
  /\ \A i \in 1..idxOpt :
       (files["optL"][i] + files["anc"][i] + files["err"][i] - opt[i]) % (2 * Half) = 0
  /\ \A f \in Outputs : \A i \in DOMAIN files[f] :
       files[f][i] = Loaded <=> i \notin IF f = "refL" THEN (lookahead + 1)..idxRef ELSE 1..idxOpt

(* main() tests none of the lengths, and refCor has no room for what it      *)
(* looks ahead: it gets to its end only with one tap and with files as long *)
(* as ref, or with nothing to do; and then it does (lmsDemo.cpp:33,         *)
(* 116-139).                                                                *)
EndsInBounds ==
  LET fits == /\ lookahead = 0
              /\ Len(opt) >= Len(ref)
              /\ \A f \in Outputs : Len(files[f]) >= Len(ref)
  IN /\ pc = "done" => fits \/ numSamples = 0
     /\ pc = "overrun" => ~fits /\ numSamples > 0
=============================================================================
