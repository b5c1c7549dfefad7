--------------------------- MODULE LeakyIntegrator ---------------------------
(***************************************************************************)
(* The leaky integrator of filters/leakyIntegrator.h, a running average.    *)
(* Numbers are multiples of the least value T represents and a coefficient *)
(* is a multiple of 1/Scale, as in the fixed point types of lmsDemo.cpp.    *)
(* How T rounds a product is left open: up or down, each time anew.         *)
(***************************************************************************)
EXTENDS Integers

CONSTANTS
  Scale,
  AlphaLeaky, MinusAlphaLeaky,   \* alpha and minusAlpha, times Scale
  Bound                          \* no sample is farther from 0

ASSUME LeakyAssumption ==
  /\ {AlphaLeaky, Bound} \subseteq Nat
  /\ {Scale, MinusAlphaLeaky} \subseteq Nat \ {0}
  /\ AlphaLeaky + MinusAlphaLeaky = Scale

Samples == (-Bound)..Bound

Rounded(v) == {v \div Scale, -((-v) \div Scale)}

step_Gain(last, sample) ==      \* mutant: the sample is not scaled
  {alphaTerm + sample : alphaTerm \in Rounded(AlphaLeaky * last)}

(* What step() may make of lastSample, which it also returns.               *)
step(last, sample) ==
  {alphaTerm + minusTerm : alphaTerm \in Rounded(AlphaLeaky * last),
                           minusTerm \in Rounded(MinusAlphaLeaky * sample)}

Magnitude(v) == IF v < 0 THEN -v ELSE v

(* An average stays within the range of the samples but for a drift of at    *)
(* most 2/minusAlpha steps of T, where it comes from rounding alone.        *)
WithinDrift(v) == MinusAlphaLeaky * (Magnitude(v) - Bound) <= 2 * Scale
=============================================================================
