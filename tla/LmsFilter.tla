------------------------------ MODULE LmsFilter ------------------------------
(***************************************************************************)
(* The adaptive filters of filters/lms.h: FSS, with a fixed step size, and *)
(* VSS, whose step size follows the error; both normalised by the power of *)
(* the samples in the delay line, or not.                                  *)
(*                                                                          *)
(* T is a two's complement integer, computed in a wider type and wrapped   *)
(* when it is stored, as for the integer types shorter than int the         *)
(* templates can be instantiated with.                                     *)
(***************************************************************************)
EXTENDS Integers, FiniteSetsExt

CONSTANTS
  TapCounts,         \* the values the template parameter Taps may have
  Half,              \* half the number of values of T: 2 to its bits but one
  StepSize, Epsilon, Alpha, Gamma, MinStep, MaxStep,   \* of the constructors
  Inputs             \* the values xNxt and dNxt may have

T == (-Half)..(Half - 1)

ASSUME LmsAssumption ==
  /\ TapCounts \subseteq Nat \ {0}
  /\ Half \in Nat \ {0}
  /\ {StepSize, Epsilon, Alpha, Gamma, MinStep, MaxStep} \subseteq T
  /\ MinStep <= MaxStep
  /\ Inputs \subseteq T

Stored(v) == ((v + Half) % (2 * Half)) - Half

(* Division truncates.                                                      *)
Divide(a, b) ==
  LET sign(v) == IF v < 0 THEN -1 ELSE 1
  IN sign(a) * sign(b) * ((sign(a) * a) \div (sign(b) * b))

VARIABLES
  taps, normalised,  \* template parameters
  variable,    \* is it a VSS?
  stepSize, err, pow, x_hat, h_hat,   \* the members of FSS
  d,           \* the last dNxt
  inputs       \* the last taps values of xNxt, the newest first

filter     == <<stepSize, err, pow, x_hat, h_hat>>
class      == <<taps, normalised, variable>>
filterVars == <<class, filter, d, inputs>>

Indices == 0..(taps - 1)
Zeros   == [i \in Indices |-> 0]

(* err is not initialised in the code before the first step.                *)
FilterInit ==
  /\ taps \in TapCounts
  /\ normalised \in BOOLEAN
  /\ variable \in BOOLEAN
  /\ stepSize = StepSize
  /\ err = 0
  /\ pow = Epsilon
  /\ x_hat = Zeros
  /\ h_hat = Zeros
  /\ d = 0
  /\ inputs = Zeros

Shifted(line, x) == [i \in Indices |-> IF i = 0 THEN x ELSE line[i - 1]]

Dot(h, x) == MapThenSumSet(LAMBDA i : h[i] * x[i], Indices)

(* computeNext; with one tap the power is only added to.                    *)
NextPow_Newest(x) ==         \* mutant: the wrong sample leaves the power
  Stored(pow - (IF taps > 1 THEN x_hat[0] * x_hat[0] ELSE 0) + x * x)
NextPow(x) ==
  Stored(pow - (IF taps > 1 THEN x_hat[taps - 1] * x_hat[taps - 1] ELSE 0) + x * x)

ComputeNext_Before(x, dNxt) ==   \* mutant: the estimate precedes the shift
  /\ x_hat' = Shifted(x_hat, x)
  /\ pow' = NextPow(x)
  /\ err' = Stored(dNxt - Dot(h_hat, x_hat))

ComputeNext(x, dNxt) ==
  /\ x_hat' = Shifted(x_hat, x)
  /\ pow' = NextPow(x)
  /\ err' = Stored(dNxt - Dot(h_hat, x_hat'))

(* updateFilter and normalise, with the values computeNext has stored.      *)
Normalise(delta) == IF pow' = 0 THEN delta ELSE Stored(Divide(delta, pow'))

UpdateFilter_Down ==         \* mutant: the taps follow the gradient uphill
  LET estimator == Stored(stepSize * err')
      delta(i)  == Stored(estimator * x_hat'[i])
  IN h_hat' = [i \in Indices |->
       Stored(h_hat[i] - (IF normalised THEN Normalise(delta(i)) ELSE delta(i)))]

UpdateFilter ==
  LET estimator == Stored(stepSize * err')
      delta(i)  == Stored(estimator * x_hat'[i])
  IN h_hat' = [i \in Indices |->
       Stored(h_hat[i] + (IF normalised THEN Normalise(delta(i)) ELSE delta(i)))]

Clamp_Min(s) ==              \* mutant: no upper limit
  IF s < MinStep THEN MinStep ELSE s
Clamp(s) ==
  LET atLeast == IF s < MinStep THEN MinStep ELSE s
  IN IF atLeast > MaxStep THEN MaxStep ELSE atLeast

NextStepSize(x) ==
  Clamp(Stored(Stored(Alpha * stepSize) + Stored(Gamma * err' * x)))

Step(x, dNxt) ==
  /\ ComputeNext(x, dNxt)
  /\ UpdateFilter
  /\ stepSize' = IF variable THEN NextStepSize(x) ELSE stepSize
  /\ d' = dNxt
  /\ inputs' = [i \in Indices |-> IF i = 0 THEN x ELSE inputs[i - 1]]
  /\ UNCHANGED class

ResetStepSize ==
  /\ variable
  /\ stepSize' = StepSize
  /\ UNCHANGED <<class, err, pow, x_hat, h_hat, d, inputs>>

FilterNext ==
  \/ \E x, dNxt \in Inputs : Step(x, dNxt)
  \/ ResetStepSize

FilterSpec == FilterInit /\ [][FilterNext]_filterVars

-------------------------------------------------------------------------------
(* Properties.                                                              *)

(* Every value fits T; the step size stays between minStep and maxStep,      *)
(* unless it is the one the filter was built with (lms.h:18-24, 151-155).   *)
FilterTypeOK ==
  /\ taps \in TapCounts
  /\ {err, pow, d} \subseteq T
  /\ {x_hat, h_hat, inputs} \subseteq [Indices -> T]
  /\ stepSize \in (MinStep..MaxStep) \cup {StepSize}

(* pow, kept up to date by one subtraction and one addition, is the power of *)
(* the delay line plus epsilon, whatever overflowed on the way              *)
(* (lms.h:77-88).                                                           *)
PowerOfLine == pow = Stored(Epsilon + Dot(x_hat, x_hat))

(* The delay line holds the last taps samples, the newest first             *)
(* (lms.h:80-85).                                                           *)
LineIsHistory == x_hat = inputs

(* The error is what the taps before the update miss of the desired sample, *)
(* with the newest sample in the line (lms.h:80-89).                        *)
ErrorIsResidual ==
  [][<<h_hat, inputs, d>>' # <<h_hat, inputs, d>> =>
       err' = Stored(d' - Dot(h_hat, inputs'))]_filterVars

Abs(v) == IF v < 0 THEN -v ELSE v

(* The step was small enough to adapt: nothing overflowed, and stepSize      *)
(* times the power of the line is at most twice the divisor.                *)
Adapts ==
  LET energy  == Dot(x_hat', x_hat')
      divisor == IF normalised THEN Epsilon + energy ELSE 1
  IN /\ divisor > 0 /\ divisor \in T
     /\ stepSize >= 0 /\ stepSize * energy <= 2 * divisor
     /\ \A i \in Indices : stepSize * err' * x_hat'[i] \in T
     /\ \A i \in Indices : stepSize * err' \in T
     /\ d' - Dot(h_hat, x_hat') \in T
     /\ \A i \in Indices : Abs(h_hat[i]) + Abs(stepSize * err' * x_hat'[i]) \in T

(* Where the step size allows it an update never moves the taps away from   *)
(* the sample: with the new taps the error is not larger (lms.h:92-121).    *)
UpdateImproves ==
  [][h_hat' # h_hat /\ Adapts => Abs(d' - Dot(h_hat', x_hat')) <= Abs(err')]_filterVars
=============================================================================
