---------------------------- MODULE LmsDemoProofs ----------------------------
(***************************************************************************)
(* Theorems about the filters and their demonstration, for every width of  *)
(* T, number of taps, scale and coefficient, every recording and every set *)
(* of files.                                                                *)
(***************************************************************************)
EXTENDS LmsDemo, SequenceTheorems, FiniteSetTheorems, WellFoundedInduction, TLAPS

-------------------------------------------------------------------------------
(* The leaky integrator.                                                    *)

(* The quotient and the remainder.                                          *)
LEMMA Quotient ==
  ASSUME NEW v \in Int
  PROVE  /\ v \div Scale \in Int
         /\ Scale * (v \div Scale) <= v
         /\ v < Scale * (v \div Scale) + Scale
  BY LeakyAssumption

(* Whichever way a product is rounded it is less than one step away.        *)
LEMMA RoundedIsNear ==
  ASSUME NEW v \in Int, NEW r \in Rounded(v)
  PROVE  /\ r \in Int
         /\ Scale * r <= v + (Scale - 1)
         /\ v - (Scale - 1) <= Scale * r
  <1>1. Scale \in Nat \ {0} /\ -v \in Int
    BY LeakyAssumption
  <1>2. CASE r = v \div Scale
    BY <1>1, <1>2, Quotient
  <1>3. CASE r = -((-v) \div Scale)
    <2> DEFINE q == (-v) \div Scale
    <2>1. q \in Int /\ Scale * q <= -v /\ -v < Scale * q + Scale
      BY <1>1, Quotient
    <2> HIDE DEF q
    <2>2. r = -q /\ Scale * r = -(Scale * q)
      BY <1>1, <1>3, <2>1 DEF q
    <2>3. Scale * q \in Int /\ Scale * r \in Int
      BY <1>1, <2>1, <2>2
    <2>4. QED
      BY <1>1, <2>1, <2>2, <2>3
  <1>4. QED
    BY <1>2, <1>3 DEF Rounded

LEMMA Times ==
  ASSUME NEW k \in Nat, NEW x \in Int, NEW y \in Int, x <= y
  PROVE  k * x <= k * y
  OBVIOUS

LEMMA Cancel ==
  ASSUME NEW k \in Nat \ {0}, NEW x \in Int, NEW y \in Int, k * x <= k * y
  PROVE  x <= y
  OBVIOUS

(* A product is no farther from 0 than with the magnitude of its factor.    *)
LEMMA WithinMagnitude ==
  ASSUME NEW k \in Nat, NEW v \in Int, NEW b \in Nat, Magnitude(v) <= b
  PROVE  k * v <= k * b /\ -(k * b) <= k * v
  <1>1. v <= b /\ -b <= v
    BY DEF Magnitude
  <1>2. k * (-b) = -(k * b)
    OBVIOUS
  <1>3. QED
    BY <1>1, <1>2, Times

(* Two values near two others that are bounded.                             *)
LEMMA SumIsBounded ==
  ASSUME NEW e \in Int, NEW x \in Int, NEW y \in Int, NEW v \in Int, NEW s \in Int,
         NEW l \in Int, NEW b \in Int,
         x <= v + e, v - e <= x, y <= s + e, s - e <= y,
         v <= l, -l <= v, s <= b, -b <= s
  PROVE  x + y <= l + b + 2 * e /\ -(l + b + 2 * e) <= x + y
  OBVIOUS

(* The drift stays bounded because step() takes its share off it before it  *)
(* rounds.                                                                  *)
LEMMA StepWithinDrift ==
  ASSUME NEW v \in Int, WithinDrift(v), NEW s \in Samples, NEW w \in step(v, s)
  PROVE  w \in Int /\ WithinDrift(w)
  <1> DEFINE S == Scale
             a == AlphaLeaky
             m == MinusAlphaLeaky
             B == Bound
             L == Magnitude(v)
             N == Magnitude(w)
  <1>1. /\ S \in Nat \ {0} /\ m \in Nat \ {0} /\ a \in Nat /\ B \in Nat
        /\ a + m = S
    BY LeakyAssumption
  <1>2. PICK x \in Rounded(a * v), y \in Rounded(m * s) : w = x + y
    BY DEF step
  <1>3. a * v \in Int /\ m * s \in Int /\ L \in Nat /\ s \in Int
    BY <1>1 DEF Samples, Magnitude
  <1>4. /\ x \in Int /\ S * x <= a * v + (S - 1) /\ a * v - (S - 1) <= S * x
        /\ y \in Int /\ S * y <= m * s + (S - 1) /\ m * s - (S - 1) <= S * y
    BY <1>3, RoundedIsNear
  <1>5. /\ a * v <= a * L /\ -(a * L) <= a * v
        /\ m * s <= m * B /\ -(m * B) <= m * s
    <2>1. Magnitude(s) <= B
      BY <1>1 DEF Samples, Magnitude
    <2>2. QED
      BY <1>1, <1>3, <2>1, WithinMagnitude
  <1>6. w \in Int /\ N \in Nat /\ S * w = S * x + S * y
    BY <1>1, <1>2, <1>4 DEF Magnitude
  <1> DEFINE aL == a * L
             mB == m * B
             T2 == aL + mB + 2 * (S - 1)
  <1>7. aL \in Nat /\ mB \in Nat /\ T2 \in Int
    BY <1>1, <1>3
  <1>8. S * N <= T2
    <2>1. S * w <= T2 /\ -T2 <= S * w
      <3>1. S * x \in Int /\ S * y \in Int /\ S - 1 \in Int /\ aL \in Int /\ mB \in Int
        BY <1>1, <1>4, <1>7
      <3>2. S * x + S * y <= T2 /\ -T2 <= S * x + S * y
        <4> HIDE DEF S, a, m, L, B
        <4>1. QED
          BY <1>3, <1>4, <1>5, <3>1, SumIsBounded
      <3>3. QED
        BY <1>6, <3>2
    <2>2. CASE w < 0
      <3>1. N = -w /\ S * (-w) = -(S * w)
        BY <1>1, <1>6, <2>2 DEF Magnitude
      <3>2. QED
        BY <1>1, <1>6, <1>7, <2>1, <3>1
    <2>3. CASE ~(w < 0)
      BY <1>6, <2>1, <2>3 DEF Magnitude
    <2>4. QED
      BY <2>2, <2>3
  <1>9. m * L <= mB + 2 * S
    <2>1. m * (L - B) = m * L - mB /\ m * L \in Int
      BY <1>1, <1>3
    <2>2. m * (L - B) <= 2 * S
      BY DEF WithinDrift
    <2>3. QED
      BY <1>1, <1>7, <2>1, <2>2
  <1>10. m * (S * N) <= S * (mB + 2 * S)
    <2>1. m * (S * N) <= m * T2
      BY <1>1, <1>6, <1>7, <1>8, Times
    <2>2. m * T2 = m * aL + m * mB + 2 * (m * S) - 2 * m
      BY <1>1, <1>7
    <2>3. m * aL <= a * mB + 2 * (a * S)
      <3>1. m * aL = a * (m * L)
        BY <1>1, <1>3
      <3>2. a * (m * L) <= a * (mB + 2 * S)
        <4>1. m * L \in Int /\ mB + 2 * S \in Int
          BY <1>1, <1>3, <1>7
        <4>2. QED
          BY <1>1, <1>9, <4>1, Times
      <3>3. a * (mB + 2 * S) = a * mB + 2 * (a * S)
        BY <1>1, <1>7
      <3>4. QED
        BY <3>1, <3>2, <3>3
    <2>4. a * mB + m * mB = S * mB
      BY <1>1, <1>7
    <2>5. a * S + m * S = S * S
      BY <1>1
    <2>6. S * (mB + 2 * S) = S * mB + 2 * (S * S)
      BY <1>1, <1>7
    <2>7. /\ m * aL \in Int /\ a * mB \in Int /\ m * mB \in Int /\ m * S \in Int
          /\ a * S \in Int /\ S * mB \in Int /\ S * S \in Int /\ m * T2 \in Int
          /\ m * (S * N) \in Int /\ m \in Nat
      BY <1>1, <1>6, <1>7
    <2> HIDE DEF S, a, m, N, aL, mB, T2
    <2>8. QED
      BY <2>1, <2>2, <2>3, <2>4, <2>5, <2>6, <2>7
  <1>11. m * N <= mB + 2 * S
    <2>1. m * (S * N) = S * (m * N)
      BY <1>1, <1>6
    <2>2. m * N \in Int /\ mB + 2 * S \in Int
      BY <1>1, <1>6, <1>7
    <2>3. QED
      BY <1>1, <1>10, <2>1, <2>2, Cancel
  <1>12. m * (N - B) <= 2 * S
    <2>1. m * (N - B) = m * N - mB /\ m * N \in Int
      BY <1>1, <1>6
    <2>2. QED
      BY <1>1, <1>7, <1>11, <2>1
  <1>13. QED
    BY <1>6, <1>12 DEF WithinDrift

-------------------------------------------------------------------------------
(* The five files keep their lengths, whatever is written to them.          *)

Shaped(F) ==
  /\ F = [f \in Outputs |-> F[f]]
  /\ \A f \in Outputs : \E n \in 0..MaxLength : F[f] = [i \in 1..n |-> F[f][i]]

LEMMA LengthOf ==
  ASSUME NEW s, NEW n \in Nat, s = [i \in 1..n |-> s[i]]
  PROVE  Len(s) = n
  <1> DEFINE R == {s[i] : i \in 1..n}
  <1>1. s \in [1..n -> R]
    OBVIOUS
  <1>2. s \in Seq(R)
    BY <1>1
  <1>3. DOMAIN s = 1..n
    BY <1>1
  <1> HIDE DEF R
  <1>4. QED
    BY <1>2, <1>3, LenProperties

Written(F, g, k, e) == [F EXCEPT ![g][k] = e]

LEMMA WriteKeepsShape ==
  ASSUME NEW F, Shaped(F), NEW g \in Outputs, NEW k, NEW e
  PROVE  /\ Shaped(Written(F, g, k, e))
         /\ \A f \in Outputs : Len(Written(F, g, k, e)[f]) = Len(F[f])
  <1> DEFINE row == [F[g] EXCEPT ![k] = e]
             G == [F EXCEPT ![g] = row]
  <1>1. MaxLength \in Nat /\ 0 \in Nat
    BY LmsDemoAssumption
  <1>2. PICK n \in 0..MaxLength : F[g] = [i \in 1..n |-> F[g][i]]
    BY DEF Shaped
  <1>3. row = [i \in 1..n |-> row[i]]
    BY <1>2
  <1>4. Len(row) = n /\ Len(F[g]) = n
    BY <1>1, <1>2, <1>3, LengthOf
  <1>5. F = [f \in Outputs |-> F[f]]
    BY DEF Shaped
  <1> HIDE DEF row
  <1>6. G[g] = row /\ (\A f \in Outputs \ {g} : G[f] = F[f]) /\ G = [f \in Outputs |-> G[f]]
    BY <1>5
  <1> HIDE DEF G
  <1>7. Shaped(G)
    <2>1. ASSUME NEW f \in Outputs
          PROVE  \E q \in 0..MaxLength : G[f] = [i \in 1..q |-> G[f][i]]
      <3>1. CASE f = g
        <4>1. G[f] = [i \in 1..n |-> G[f][i]]
          BY <1>3, <1>6, <3>1
        <4>2. QED
          BY <4>1
      <3>2. CASE f # g
        <4>1. G[f] = F[f]
          BY <1>6, <3>2
        <4>2. QED
          BY <4>1 DEF Shaped
      <3>3. QED
        BY <3>1, <3>2
    <2>2. QED
      BY <1>6, <2>1 DEF Shaped
  <1>8. \A f \in Outputs : Len(G[f]) = Len(F[f])
    BY <1>4, <1>6
  <1>9. QED
    BY <1>7, <1>8 DEF G, row, Written

-------------------------------------------------------------------------------
(* The inductive invariant.                                                 *)

AveragesOK ==
  /\ last \in [ref : Int, opt : Int]
  /\ AverageBounded

RecordingsOK ==
  /\ taps \in Nat \ {0}
  /\ ref \in Seq(Values) /\ opt \in Seq(Values)
  /\ Shaped(files)

(* The passes done were within bounds, and what ended the loop was the      *)
(* count or the bounds.                                                     *)
IndexOK ==
  /\ idxOpt \in Nat
  /\ pc \in {"start", "failed"} => idxOpt = 0
  /\ pc \in {"loop", "done", "overrun"} => idxOpt <= numSamples
  /\ idxOpt > 0 => /\ idxOpt <= Len(opt)
                   /\ idxRef <= numSamples
                   /\ \A f \in Outputs : idxOpt <= Len(files[f])
  /\ pc \in {"start", "loop", "done", "failed", "overrun"}
  /\ pc = "done" => ~MoreToDo
  /\ pc = "overrun" => MoreToDo /\ ~InBounds

IInv == AveragesOK /\ RecordingsOK /\ IndexOK

LEMMA Lengths ==
  ASSUME RecordingsOK
  PROVE  /\ Len(ref) \in Nat /\ Len(opt) \in Nat /\ lookahead \in Nat
         /\ \A f \in Outputs : Len(files[f]) \in Nat
  <1>1. Len(ref) \in Nat /\ Len(opt) \in Nat
    BY LenProperties DEF RecordingsOK
  <1>2. lookahead \in Nat
    BY DEF RecordingsOK, lookahead
  <1>3. ASSUME NEW f \in Outputs
        PROVE  Len(files[f]) \in Nat
    <2>1. PICK n \in 0..MaxLength : files[f] = [i \in 1..n |-> files[f][i]]
      BY DEF RecordingsOK, Shaped
    <2>2. n \in Nat
      BY LmsDemoAssumption
    <2>3. QED
      BY <2>1, <2>2, LengthOf
  <1>4. QED
    BY <1>1, <1>2, <1>3

LEMMA InitIInv == Init => IInv
  <1> SUFFICES ASSUME Init PROVE IInv
    OBVIOUS
  <1>1. AveragesOK
    <2>1. WithinDrift(0)
      <3>1. MinusAlphaLeaky * (0 - Bound) <= 2 * Scale
        BY LeakyAssumption
      <3>2. QED
        BY <3>1 DEF WithinDrift, Magnitude
    <2>2. QED
      BY <2>1 DEF Init, AveragesOK, AverageBounded
  <1>2. RecordingsOK
    <2>1. taps \in Nat \ {0}
      BY LmsAssumption DEF Init, FilterInit
    <2>2. ref \in Seq(Values) /\ opt \in Seq(Values)
      <3>1. PICK n \in 0..MaxLength : ref \in [1..n -> Values]
        BY DEF Init, Recordings
      <3>2. PICK m \in 0..MaxLength : opt \in [1..m -> Values]
        BY DEF Init, Recordings
      <3>3. n \in Nat /\ m \in Nat
        BY LmsDemoAssumption
      <3>4. QED
        BY <3>1, <3>2, <3>3
    <2>3. Shaped(files)
      <3>1. PICK loaded \in [Outputs -> 0..MaxLength] :
              files = [f \in Outputs |-> [i \in 1..loaded[f] |-> Loaded]]
        BY LmsDemoAssumption DEF Init
      <3>2. ASSUME NEW f \in Outputs
            PROVE  \E n \in 0..MaxLength : files[f] = [i \in 1..n |-> files[f][i]]
        <4> DEFINE n == loaded[f]
        <4>1. files[f] = [i \in 1..n |-> Loaded] /\ n \in 0..MaxLength
          BY <3>1
        <4> HIDE DEF n
        <4>2. files[f] = [i \in 1..n |-> files[f][i]]
          BY <4>1
        <4>3. QED
          BY <4>1, <4>2
      <3>3. files = [f \in Outputs |-> files[f]]
        BY <3>1
      <3>4. QED
        BY <3>2, <3>3 DEF Shaped
    <2>4. QED
      BY <2>1, <2>2, <2>3 DEF RecordingsOK
  <1>3. IndexOK
    BY DEF Init, IndexOK
  <1>4. QED
    BY <1>1, <1>2, <1>3 DEF IInv

(* main() does not change the filter between its passes.                    *)
LEMMA NoPassIInv == IInv /\ (Allocate \/ Overrun \/ Save) => IInv'
  <1> SUFFICES ASSUME IInv, Allocate \/ Overrun \/ Save PROVE IInv'
    OBVIOUS
  <1>1. UNCHANGED <<idxOpt, ref, opt, files, last, taps>>
    BY DEF Allocate, Overrun, Save, myFilter, filterVars, class, filter
  <1>2. AveragesOK'
    BY <1>1 DEF IInv, AveragesOK, AverageBounded, WithinDrift, Magnitude
  <1>3. RecordingsOK'
    BY <1>1 DEF IInv, RecordingsOK, Shaped
  <1>4. /\ lookahead' = lookahead /\ numSamples' = numSamples /\ idxRef' = idxRef
        /\ MoreToDo' = MoreToDo /\ InBounds' = InBounds
    BY <1>1 DEF lookahead, numSamples, idxRef, MoreToDo, InBounds
  <1>5. IndexOK'
    <2>1. CASE Allocate
      <3>1. numSamples \in Int
        BY Lengths DEF IInv, numSamples
      <3>2. QED
        BY <1>1, <1>4, <2>1, <3>1 DEF IInv, IndexOK, Allocate
    <2>2. CASE Overrun
      BY <1>1, <1>4, <2>2 DEF IInv, IndexOK, Overrun
    <2>3. CASE Save
      BY <1>1, <1>4, <2>3 DEF IInv, IndexOK, Save
    <2>4. QED
      BY <2>1, <2>2, <2>3
  <1>6. QED
    BY <1>2, <1>3, <1>5 DEF IInv

LEMMA PassIInv == IInv /\ Pass => IInv'
  <1> SUFFICES ASSUME IInv, Pass PROVE IInv'
    OBVIOUS
  <1>1. /\ pc = "loop" /\ pc' = pc /\ MoreToDo /\ InBounds /\ idxOpt' = idxOpt + 1
        /\ UNCHANGED <<ref, opt>>
    BY DEF Pass
  <1>2. PICK refL \in step(last.ref, ref[idxRef + 1]),
             optL \in step(last.opt, opt[idxOpt + 1]) :
          LET ref16 == Detrended(ref[idxRef + 1], refL)
              opt16 == Detrended(opt[idxOpt + 1], optL)
          IN /\ last' = [ref |-> refL, opt |-> optL]
             /\ Step(opt16, ref16)
             /\ files' = [files EXCEPT !["refL"][idxRef + 1] = refL,
                                       !["optL"][idxOpt + 1] = optL,
                                       !["anc"][idxOpt + 1]  = Stored(opt16 - err'),
                                       !["err"][idxOpt + 1]  = err',
                                       !["stp"][idxOpt + 1]  = stepSize']
    BY DEF Pass
  <1>3. taps' = taps
    BY <1>2 DEF Step, class
  <1>4. /\ Len(ref) \in Nat /\ Len(opt) \in Nat /\ lookahead \in Nat /\ idxOpt \in Nat
        /\ numSamples = Len(ref) - lookahead /\ idxRef = idxOpt + lookahead
    BY Lengths DEF IInv, IndexOK, numSamples, idxRef
  <1>5. idxRef + 1 \in 1..Len(ref) /\ idxOpt + 1 \in 1..Len(opt)
    BY <1>1, <1>4 DEF InBounds
  <1>6. AveragesOK'
    <2>1. ref[idxRef + 1] \in Samples /\ opt[idxOpt + 1] \in Samples
      <3>1. ref[idxRef + 1] \in Values /\ opt[idxOpt + 1] \in Values
        BY <1>5, ElementOfSeq DEF IInv, RecordingsOK
      <3>2. QED
        BY <3>1, LmsDemoAssumption
    <2>2. /\ last.ref \in Int /\ WithinDrift(last.ref)
          /\ last.opt \in Int /\ WithinDrift(last.opt)
      BY DEF IInv, AveragesOK, AverageBounded
    <2>3. /\ refL \in Int /\ WithinDrift(refL)
          /\ optL \in Int /\ WithinDrift(optL)
      BY <2>1, <2>2, StepWithinDrift
    <2>4. last' = [ref |-> refL, opt |-> optL]
      BY <1>2
    <2>5. QED
      BY <2>3, <2>4 DEF AveragesOK, AverageBounded, WithinDrift
  <1>7. Shaped(files') /\ \A f \in Outputs : Len(files'[f]) = Len(files[f])
    <2> DEFINE A == Written(files, "refL", idxRef + 1, refL)
               B == Written(A, "optL", idxOpt + 1, optL)
               C == Written(B, "anc", idxOpt + 1,
                            Stored(Detrended(opt[idxOpt + 1], optL) - err'))
               D == Written(C, "err", idxOpt + 1, err')
               E == Written(D, "stp", idxOpt + 1, stepSize')
    <2>1. files' = E
      BY <1>2 DEF Written
    <2>2. {"refL", "optL", "anc", "err", "stp"} \subseteq Outputs
      BY DEF Outputs
    <2>3. Shaped(A) /\ \A f \in Outputs : Len(A[f]) = Len(files[f])
      BY <2>2, WriteKeepsShape DEF IInv, RecordingsOK
    <2> HIDE DEF A
    <2>4. Shaped(B) /\ \A f \in Outputs : Len(B[f]) = Len(A[f])
      BY <2>2, <2>3, WriteKeepsShape
    <2> HIDE DEF B
    <2>5. Shaped(C) /\ \A f \in Outputs : Len(C[f]) = Len(B[f])
      BY <2>2, <2>4, WriteKeepsShape
    <2> HIDE DEF C
    <2>6. Shaped(D) /\ \A f \in Outputs : Len(D[f]) = Len(C[f])
      BY <2>2, <2>5, WriteKeepsShape
    <2> HIDE DEF D
    <2>7. Shaped(E) /\ \A f \in Outputs : Len(E[f]) = Len(D[f])
      BY <2>2, <2>6, WriteKeepsShape
    <2> HIDE DEF E
    <2>8. QED
      BY <2>1, <2>3, <2>4, <2>5, <2>6, <2>7
  <1>8. RecordingsOK'
    BY <1>1, <1>3, <1>7 DEF IInv, RecordingsOK, Shaped
  <1>9. IndexOK'
    <2>1. /\ lookahead' = lookahead /\ numSamples' = numSamples
          /\ idxRef' = idxRef + 1
      <3>1. lookahead' = lookahead
        BY <1>3 DEF lookahead
      <3>2. numSamples' = numSamples
        BY <1>1, <3>1 DEF numSamples
      <3>3. idxRef' = (idxOpt + 1) + lookahead
        BY <1>1, <3>1 DEF idxRef
      <3>4. (idxOpt + 1) + lookahead = (idxOpt + lookahead) + 1
        BY <1>4
      <3>5. QED
        BY <1>4, <3>1, <3>2, <3>3, <3>4
    <2>2. idxOpt' <= numSamples' /\ idxOpt' \in Nat
      BY <1>1, <1>4, <2>1 DEF MoreToDo
    <2>3. idxOpt' <= Len(opt') /\ idxRef' <= numSamples'
      BY <1>1, <1>4, <2>1 DEF InBounds
    <2>4. ASSUME NEW f \in Outputs
          PROVE  idxOpt' <= Len(files'[f])
      <3>1. Len(files[f]) \in Nat
        BY Lengths DEF IInv
      <3>2. idxOpt < Len(files[f])
        <4>1. CASE f = "refL"
          <5>1. idxRef < Len(files["refL"])
            BY <1>1 DEF InBounds
          <5>2. QED
            BY <1>4, <3>1, <4>1, <5>1
        <4>2. CASE f # "refL"
          BY <1>1, <4>2 DEF InBounds
        <4>3. QED
          BY <4>1, <4>2
      <3>3. QED
        BY <1>1, <1>4, <1>7, <3>1, <3>2
    <2>5. QED
      BY <1>1, <2>2, <2>3, <2>4 DEF IndexOK
  <1>10. QED
    BY <1>6, <1>8, <1>9 DEF IInv

LEMMA NextIInv == IInv /\ [Next]_vars => IInv'
  <1> SUFFICES ASSUME IInv, [Next]_vars PROVE IInv'
    OBVIOUS
  <1>1. CASE Next
    BY <1>1, NoPassIInv, PassIInv DEF Next
  <1>2. CASE UNCHANGED vars
    <2>1. UNCHANGED <<pc, idxOpt, ref, opt, files, last, taps>>
      BY <1>2 DEF vars, myFilter, filterVars, class, filter
    <2>2. AveragesOK' /\ RecordingsOK'
      BY <2>1 DEF IInv, AveragesOK, AverageBounded, WithinDrift, Magnitude, RecordingsOK, Shaped
    <2>3. IndexOK'
      BY <2>1 DEF IInv, IndexOK, MoreToDo, InBounds, numSamples, idxRef, lookahead
    <2>4. QED
      BY <2>2, <2>3 DEF IInv
  <1>3. QED
    BY <1>1, <1>2

LEMMA SpecIInv == Spec => []IInv
  BY InitIInv, NextIInv, PTL DEF Spec

(* Both running averages stay within the range of the samples but for two   *)
(* steps of T over minusAlpha, for every scale, coefficient and rounding    *)
(* (leakyIntegrator.h:17-24).                                               *)
THEOREM AveragesStayNear == Spec => []AverageBounded
  <1>1. IInv => AverageBounded
    BY DEF IInv, AveragesOK
  <1>2. QED
    BY <1>1, SpecIInv, PTL

(* For all lengths of the files and every number of taps the program gets   *)
(* to its end only as EndsInBounds says (lmsDemo.cpp:33, 116-139).          *)
THEOREM EndsOnlyInBounds == Spec => []EndsInBounds
  <1>1. IInv => EndsInBounds
    <2>1. SUFFICES ASSUME IInv PROVE EndsInBounds
      OBVIOUS
    <2> DEFINE fits == /\ lookahead = 0
                       /\ Len(opt) >= Len(ref)
                       /\ \A f \in Outputs : Len(files[f]) >= Len(ref)
    <2>2. /\ Len(ref) \in Nat /\ Len(opt) \in Nat /\ lookahead \in Nat /\ idxOpt \in Nat
          /\ numSamples = Len(ref) - lookahead /\ idxRef = idxOpt + lookahead
          /\ \A f \in Outputs : Len(files[f]) \in Nat
      BY <2>1, Lengths DEF IInv, IndexOK, numSamples, idxRef
    <2>3. pc = "done" => fits \/ numSamples = 0
      <3>1. SUFFICES ASSUME pc = "done", numSamples # 0 PROVE fits
        OBVIOUS
      <3>2. idxOpt = numSamples /\ idxOpt > 0
        BY <2>1, <2>2, <3>1 DEF IInv, IndexOK, MoreToDo
      <3>3. /\ idxOpt <= Len(opt) /\ idxRef <= numSamples
            /\ \A f \in Outputs : idxOpt <= Len(files[f])
        BY <2>1, <3>2 DEF IInv, IndexOK
      <3>4. lookahead = 0 /\ idxOpt = Len(ref)
        BY <2>2, <3>2, <3>3
      <3>5. QED
        BY <2>2, <3>3, <3>4
    <2>4. pc = "overrun" => ~fits /\ numSamples > 0
      <3>1. SUFFICES ASSUME pc = "overrun" PROVE ~fits /\ numSamples > 0
        OBVIOUS
      <3>2. idxOpt < numSamples /\ ~InBounds
        BY <2>1, <3>1 DEF IInv, IndexOK, MoreToDo
      <3>3. fits => InBounds
        BY <2>2, <3>2 DEF InBounds, Outputs
      <3>4. QED
        BY <2>2, <3>2, <3>3
    <2>5. QED
      BY <2>3, <2>4 DEF EndsInBounds
  <1>2. QED
    BY <1>1, SpecIInv, PTL

-------------------------------------------------------------------------------
(* Sums over finite sets, which are recursive functions on their subsets.   *)

One(s) == CHOOSE x \in s : TRUE

(* it sums up g on the subsets of S.                                        *)
IsSum(it, g, S) ==
  \A s \in SUBSET S : it[s] = IF s = {} THEN 0 ELSE g[One(s)] + it[s \ {One(s)}]

(* Sets of numbers have a smallest element, which is what induction is.     *)
LEMMA Smallest ==
  ASSUME NEW U \in SUBSET Nat, U # {}
  PROVE  \E x \in U : \A y \in U : x <= y
  <1> DEFINE R == {ss \in Nat \X Nat : ss[1] < ss[2]}
  <1>1. IsWellFoundedOn(R, Nat)
    BY NatLessThanWellFounded DEF OpToRel
  <1> HIDE DEF R
  <1>2. PICK x \in U : \A y \in U : <<y, x>> \notin R
    BY <1>1, WFMin
  <1>3. \A y \in U : ~(y < x)
    BY <1>2 DEF R
  <1>4. QED
    BY <1>3

LEMMA OneIs ==
  ASSUME NEW S, IsFiniteSet(S), NEW s \in SUBSET S, s # {}
  PROVE  /\ One(s) \in s /\ s \ {One(s)} \in SUBSET S
         /\ Cardinality(s) \in Nat /\ Cardinality(s \ {One(s)}) \in Nat
         /\ Cardinality(s \ {One(s)}) = Cardinality(s) - 1
  <1>1. One(s) \in s  BY DEF One
  <1>2. IsFiniteSet(s)  BY FS_Subset
  <1>3. Cardinality(s) \in Nat  BY <1>2, FS_CardinalityType
  <1>4. IsFiniteSet(s \ {One(s)}) /\ Cardinality(s \ {One(s)}) = Cardinality(s) - 1
    BY <1>1, <1>2, FS_RemoveElement
  <1>5. Cardinality(s \ {One(s)}) \in Nat  BY <1>4, FS_CardinalityType
  <1>6. QED BY <1>1, <1>3, <1>4, <1>5

(* There is such a function: one that is right for sets of n elements is    *)
(* made right for one more.                                                 *)
LEMMA SumExists ==
  ASSUME NEW S, IsFiniteSet(S), NEW g, \A x \in S : g[x] \in Int
  PROVE  \E it \in [SUBSET S -> Int] : IsSum(it, g, S)
  <1> DEFINE Is(it, s) == it[s] = IF s = {} THEN 0 ELSE g[One(s)] + it[s \ {One(s)}]
             UpTo(it, n) == \A s \in SUBSET S : Cardinality(s) <= n => Is(it, s)
             Bad == {n \in Nat : ~ \E it \in [SUBSET S -> Int] : UpTo(it, n)}
  <1>1. \A s \in SUBSET S : Cardinality(s) \in Nat /\ Cardinality(s) <= Cardinality(S)
    BY FS_Subset, FS_CardinalityType
  <1>2. 0 \notin Bad
    <2> DEFINE it == [s \in SUBSET S |-> 0]
    <2>1. it \in [SUBSET S -> Int]  OBVIOUS
    <2>2. ASSUME NEW s \in SUBSET S, Cardinality(s) <= 0
          PROVE  Is(it, s)
      <3>1. IsFiniteSet(s) /\ Cardinality(s) = 0  BY <1>1, <2>2, FS_Subset
      <3>2. s = {}  BY <3>1, FS_EmptySet
      <3>3. QED BY <3>2
    <2> HIDE DEF it
    <2>3. UpTo(it, 0)  BY <2>2
    <2> HIDE DEF UpTo
    <2>4. QED BY <2>1, <2>3
  <1>3. ASSUME NEW n \in Nat, n \notin Bad
        PROVE  n + 1 \notin Bad
    <2>1. PICK it \in [SUBSET S -> Int] : UpTo(it, n)  BY <1>3
    <2> DEFINE nu == [s \in SUBSET S |-> IF s = {} THEN 0 ELSE g[One(s)] + it[s \ {One(s)}]]
    <2>2. \A s \in SUBSET S : s # {} => One(s) \in S /\ s \ {One(s)} \in SUBSET S
      BY OneIs
    <2>3. nu \in [SUBSET S -> Int]
      <3>1. \A s \in SUBSET S : s # {} => g[One(s)] \in Int /\ it[s \ {One(s)}] \in Int
        BY <2>1, <2>2
      <3>2. \A s \in SUBSET S : s # {} => g[One(s)] + it[s \ {One(s)}] \in Int
        BY <3>1
      <3>3. QED BY <3>2
    <2>4. ASSUME NEW s \in SUBSET S, Cardinality(s) <= n
          PROVE  nu[s] = it[s]
      BY <2>1, <2>4
    <2>5. ASSUME NEW s \in SUBSET S, Cardinality(s) <= n + 1
          PROVE  Is(nu, s)
      <3>1. CASE s = {}  BY <3>1
      <3>2. CASE s # {}
        <4>1. s \ {One(s)} \in SUBSET S /\ Cardinality(s \ {One(s)}) <= n
          BY <1>1, <2>5, <3>2, OneIs
        <4>2. nu[s \ {One(s)}] = it[s \ {One(s)}]  BY <2>4, <4>1
        <4>3. QED BY <3>2, <4>2
      <3>3. QED BY <3>1, <3>2
    <2> HIDE DEF nu
    <2>6. UpTo(nu, n + 1)  BY <2>5
    <2> HIDE DEF UpTo
    <2>7. QED BY <2>3, <2>6
  <1> HIDE DEF Bad
  <1>4. Bad = {}
    <2> SUFFICES ASSUME Bad # {}  PROVE FALSE
      OBVIOUS
    <2>1. Bad \in SUBSET Nat  BY DEF Bad
    <2>2. PICK n \in Bad : \A m \in Bad : n <= m  BY <2>1, Smallest
    <2>3. n \in Nat /\ n # 0  BY <1>2, <2>1, <2>2
    <2>4. n - 1 \in Nat /\ n - 1 \notin Bad /\ (n - 1) + 1 = n  BY <2>2, <2>3
    <2>5. QED BY <1>3, <2>2, <2>4
  <1>5. Cardinality(S) \in Nat  BY <1>1
  <1>6. PICK it \in [SUBSET S -> Int] : UpTo(it, Cardinality(S))  BY <1>4, <1>5 DEF Bad
  <1>7. \A s \in SUBSET S : Is(it, s)  BY <1>1, <1>6
  <1>8. QED BY <1>7 DEF IsSum

(* What a sum is depends on the elements alone.                             *)
LEMMA SumAgrees ==
  ASSUME NEW S, IsFiniteSet(S), NEW U, IsFiniteSet(U), NEW f, NEW it, IsSum(it, f, S),
         NEW g, NEW jt, IsSum(jt, g, U), NEW R, R \subseteq S, R \subseteq U,
         \A x \in R : f[x] = g[x]
  PROVE  it[R] = jt[R]
  <1> DEFINE Bad == {n \in Nat : \E s \in SUBSET R : Cardinality(s) = n /\ it[s] # jt[s]}
  <1>1. \A s \in SUBSET R : s \in SUBSET S /\ s \in SUBSET U  OBVIOUS
  <1>2. Bad = {}
    <2> SUFFICES ASSUME Bad # {}  PROVE FALSE
      OBVIOUS
    <2>1. PICK n \in Bad : \A m \in Bad : n <= m
      <3>1. Bad \in SUBSET Nat  OBVIOUS
      <3> HIDE DEF Bad
      <3>2. QED BY <3>1, Smallest
    <2>2. PICK s \in SUBSET R : Cardinality(s) = n /\ it[s] # jt[s]  BY <2>1
    <2>3. s # {}  BY <1>1, <2>2 DEF IsSum
    <2> DEFINE r == s \ {One(s)}
    <2>4. One(s) \in R /\ r \in SUBSET R /\ Cardinality(r) \in Nat /\ Cardinality(r) = n - 1
          /\ n \in Nat
      BY <1>1, <2>1, <2>2, <2>3, OneIs
    <2>5. n - 1 \notin Bad
      <3> HIDE DEF Bad
      <3>1. ~(n <= n - 1)  BY <2>4
      <3>2. QED BY <2>1, <3>1
    <2>6. it[r] = jt[r]  BY <2>4, <2>5
    <2>7. it[s] = f[One(s)] + it[r] /\ jt[s] = g[One(s)] + jt[r]
      BY <1>1, <2>2, <2>3 DEF IsSum
    <2>8. f[One(s)] = g[One(s)]  BY <2>4
    <2>9. QED BY <2>2, <2>6, <2>7, <2>8
  <1>3. R \in SUBSET R /\ Cardinality(R) \in Nat
    BY FS_Subset, FS_CardinalityType
  <1>4. QED BY <1>2, <1>3

(* Whichever element is taken off, it is the rest plus this element.        *)
Splits(it, g, S) == \A s \in SUBSET S : \A x \in s : it[s] = g[x] + it[s \ {x}]

LEMMA SumWithout ==
  ASSUME NEW S, IsFiniteSet(S), NEW g, \A x \in S : g[x] \in Int,
         NEW it \in [SUBSET S -> Int], IsSum(it, g, S)
  PROVE  Splits(it, g, S)
  <1> DEFINE Bad == {n \in Nat : \E s \in SUBSET S : Cardinality(s) = n
                                   /\ \E x \in s : it[s] # g[x] + it[s \ {x}]}
  <1>1. Bad = {}
    <2> SUFFICES ASSUME Bad # {}  PROVE FALSE
      OBVIOUS
    <2>1. PICK n \in Bad : \A m \in Bad : n <= m
      <3>1. Bad \in SUBSET Nat  OBVIOUS
      <3> HIDE DEF Bad
      <3>2. QED BY <3>1, Smallest
    <2>2. PICK s \in SUBSET S : Cardinality(s) = n /\ \E x \in s : it[s] # g[x] + it[s \ {x}]
      BY <2>1
    <2>3. PICK x \in s : it[s] # g[x] + it[s \ {x}]  BY <2>2
    <2> DEFINE y == One(s)
               r == s \ {y}
               q == s \ {x}
               b == r \ {x}
    <2>4. /\ y \in s /\ r \in SUBSET S /\ Cardinality(r) \in Nat /\ Cardinality(r) = n - 1
          /\ n \in Nat
      BY <2>1, <2>2, <2>3, OneIs
    <2>5. it[s] = g[y] + it[r]  BY <2>3 DEF IsSum
    <2>6. x # y  BY <2>3, <2>5
    <2>7. n - 1 \notin Bad
      <3> HIDE DEF Bad
      <3>1. ~(n <= n - 1)  BY <2>4
      <3>2. QED BY <2>1, <3>1
    <2>8. it[r] = g[x] + it[b]
      <3>1. x \in r  BY <2>6
      <3>2. QED BY <2>4, <2>7, <3>1
    <2>9. Cardinality(q) = n - 1
      <3>1. IsFiniteSet(s)  BY FS_Subset
      <3>2. QED BY <2>2, <3>1, FS_RemoveElement
    <2>10. it[q] = g[y] + it[b]
      <3>1. y \in q /\ q \in SUBSET S /\ q \ {y} = b  BY <2>4, <2>6
      <3>2. it[q] = g[y] + it[q \ {y}]  BY <2>4, <2>7, <2>9, <3>1
      <3>3. QED BY <3>1, <3>2
    <2>11. b \in SUBSET S /\ x \in S /\ y \in S  BY <2>4
    <2>12. g[x] \in Int /\ g[y] \in Int /\ it[b] \in Int  BY <2>11
    <2>13. it[s] = g[y] + (g[x] + it[b])  BY <2>5, <2>8
    <2>14. g[x] + it[q] = g[x] + (g[y] + it[b])  BY <2>10
    <2>15. it[s] = g[x] + it[q]  BY <2>12, <2>13, <2>14
    <2>16. QED BY <2>3, <2>15
  <1>2. ASSUME NEW s \in SUBSET S, NEW x \in s
        PROVE  it[s] = g[x] + it[s \ {x}]
    <2>1. Cardinality(s) \in Nat  BY FS_Subset, FS_CardinalityType
    <2>2. QED BY <1>1, <2>1
  <1>3. QED BY <1>2 DEF Splits

(* The sum of g over S.                                                     *)
Total(g, S) == CHOOSE v : \E it \in [SUBSET S -> Int] : IsSum(it, g, S) /\ v = it[S]

LEMMA TotalIs ==
  ASSUME NEW S, IsFiniteSet(S), NEW g, \A x \in S : g[x] \in Int,
         NEW it, IsSum(it, g, S)
  PROVE  Total(g, S) = it[S]
  <1>1. PICK jt \in [SUBSET S -> Int] : IsSum(jt, g, S)  BY SumExists
  <1>2. \E v : \E kt \in [SUBSET S -> Int] : IsSum(kt, g, S) /\ v = kt[S]
    <2>1. IsSum(jt, g, S) /\ jt[S] = jt[S]  BY <1>1
    <2>2. QED BY <2>1
  <1>3. PICK kt \in [SUBSET S -> Int] : IsSum(kt, g, S) /\ Total(g, S) = kt[S]
    BY <1>2 DEF Total
  <1>4. S \subseteq S /\ \A x \in S : g[x] = g[x]  OBVIOUS
  <1>5. kt[S] = it[S]  BY <1>3, <1>4, SumAgrees
  <1>6. QED BY <1>3, <1>5

LEMMA TotalRules ==
  ASSUME NEW S, IsFiniteSet(S), NEW g, \A x \in S : g[x] \in Int
  PROVE  /\ Total(g, S) \in Int
         /\ S = {} => Total(g, S) = 0
         /\ \A x \in S : Total(g, S) = g[x] + Total(g, S \ {x})
  <1>1. PICK it \in [SUBSET S -> Int] : IsSum(it, g, S)  BY SumExists
  <1>2. Total(g, S) = it[S]  BY <1>1, TotalIs
  <1>3. Splits(it, g, S)  BY <1>1, SumWithout
  <1>4. S \in SUBSET S  OBVIOUS
  <1>5. Total(g, S) \in Int  BY <1>1, <1>2, <1>4
  <1>6. S = {} => Total(g, S) = 0  BY <1>1, <1>2, <1>4 DEF IsSum
  <1>7. ASSUME NEW x \in S
        PROVE  Total(g, S) = g[x] + Total(g, S \ {x})
    <2> DEFINE R == S \ {x}
    <2>1. IsFiniteSet(R) /\ \A y \in R : g[y] \in Int  BY FS_Subset
    <2>2. IsSum(it, g, R)
      <3>1. \A s \in SUBSET R : s \in SUBSET S  OBVIOUS
      <3>2. QED BY <1>1, <3>1 DEF IsSum
    <2> HIDE DEF R
    <2>3. Total(g, R) = it[R]  BY <2>1, <2>2, TotalIs
    <2>4. it[S] = g[x] + it[S \ {x}]  BY <1>4, <1>3 DEF Splits
    <2>5. QED BY <1>2, <2>3, <2>4 DEF R
  <1>8. QED BY <1>5, <1>6, <1>7

-------------------------------------------------------------------------------
(* The filter.                                                              *)

Products(h, x) == [i \in Indices |-> h[i] * x[i]]

LEMMA IndicesAre ==
  ASSUME taps \in TapCounts
  PROVE  /\ taps \in Nat \ {0} /\ 0 \in Indices /\ IsFiniteSet(Indices)
         /\ Indices \subseteq Nat
  <1>1. taps \in Nat \ {0}  BY LmsAssumption
  <1>2. 0 \in Int /\ taps - 1 \in Int  BY <1>1
  <1>3. IsFiniteSet(0..(taps - 1))  BY <1>2, FS_Interval
  <1>4. QED BY <1>1, <1>3 DEF Indices

LEMMA DotIs ==
  ASSUME taps \in TapCounts, NEW h \in [Indices -> Int], NEW x \in [Indices -> Int]
  PROVE  /\ Dot(h, x) = Total(Products(h, x), Indices)
         /\ Dot(h, x) \in Int
         /\ \A i \in Indices : Products(h, x)[i] \in Int
  <1> DEFINE S == Indices
             g == Products(h, x)
  <1> DEFINE it[s \in SUBSET S] ==
               IF s = {} THEN 0
               ELSE LET y == CHOOSE z \in s : TRUE IN h[y] * x[y] + it[s \ {y}]
  <1>1. Dot(h, x) = it[S]
    BY DEF Dot, MapThenSumSet, MapThenFoldSet
  <1>2. \A i \in S : g[i] = h[i] * x[i] /\ g[i] \in Int  BY DEF Products
  <1>3. IsFiniteSet(S)  BY IndicesAre
  <1>4. PICK jt \in [SUBSET S -> Int] : IsSum(jt, g, S)  BY <1>2, <1>3, SumExists
  <1>5. jt = [s \in SUBSET S |-> IF s = {} THEN 0
               ELSE LET y == CHOOSE z \in s : TRUE IN h[y] * x[y] + jt[s \ {y}]]
    <2>1. ASSUME NEW s \in SUBSET S
          PROVE  jt[s] = IF s = {} THEN 0
                 ELSE LET y == CHOOSE z \in s : TRUE IN h[y] * x[y] + jt[s \ {y}]
      <3>1. CASE s = {}  BY <1>4, <3>1 DEF IsSum
      <3>2. CASE s # {}
        <4>1. jt[s] = g[One(s)] + jt[s \ {One(s)}]  BY <1>4, <3>2 DEF IsSum
        <4>2. One(s) \in S  BY <3>2 DEF One
        <4>3. QED BY <1>2, <3>2, <4>1, <4>2 DEF One
      <3>3. QED BY <3>1, <3>2
    <2>2. QED BY <1>4, <2>1
  <1>6. it = [s \in SUBSET S |-> IF s = {} THEN 0
               ELSE LET y == CHOOSE z \in s : TRUE IN h[y] * x[y] + it[s \ {y}]]
    BY <1>5
  <1> HIDE DEF it
  <1>7. IsSum(it, g, S)
    <2>1. ASSUME NEW s \in SUBSET S
          PROVE  it[s] = IF s = {} THEN 0 ELSE g[One(s)] + it[s \ {One(s)}]
      <3>1. CASE s = {}  BY <1>6, <3>1
      <3>2. CASE s # {}
        <4>1. One(s) \in S  BY <3>2 DEF One
        <4>2. it[s] = h[One(s)] * x[One(s)] + it[s \ {One(s)}]  BY <1>6, <3>2 DEF One
        <4>3. QED BY <1>2, <3>2, <4>1, <4>2
      <3>3. QED BY <3>1, <3>2
    <2>2. QED BY <2>1 DEF IsSum
  <1>8. Total(g, S) = it[S]  BY <1>2, <1>3, <1>7, TotalIs
  <1>9. Total(g, S) \in Int  BY <1>2, <1>3, TotalRules
  <1>10. QED BY <1>1, <1>2, <1>8, <1>9

LEMMA DivisionIs ==
  ASSUME NEW k \in Nat \ {0}, NEW w \in Int
  PROVE  w % k \in 0..(k - 1) /\ w \div k \in Int /\ w = k * (w \div k) + (w % k)
  OBVIOUS

(* What is stored is what is left of a value after some rounds of T.        *)
LEMMA StoredIs ==
  ASSUME NEW v \in Int
  PROVE  Stored(v) \in T /\ \E k \in Int : v = Stored(v) + (2 * Half) * k
  <1> DEFINE K == 2 * Half
             w == v + Half
             r == w % K
             q == w \div K
  <1>1. Half \in Nat \ {0} /\ K \in Nat \ {0} /\ K = Half + Half /\ w \in Int
    BY LmsAssumption
  <1> HIDE DEF K
  <1>2. r \in 0..(K - 1) /\ q \in Int /\ w = K * q + r  BY <1>1, DivisionIs
  <1>3. Stored(v) = r - Half  BY DEF Stored, K
  <1> HIDE DEF q, r
  <1>4. r - Half \in T  BY <1>1, <1>2 DEF T
  <1>5. K * q \in Int  BY <1>1, <1>2
  <1>6. v = (r - Half) + K * q  BY <1>1, <1>2, <1>5
  <1>7. QED BY <1>2, <1>3, <1>4, <1>6 DEF K

(* There is only one such value.                                            *)
LEMMA StoredOnce ==
  ASSUME NEW v \in Int, NEW s \in T, NEW k \in Int, v = s + (2 * Half) * k
  PROVE  Stored(v) = s
  <1> DEFINE K == 2 * Half
             u == Stored(v)
  <1>1. Half \in Nat \ {0} /\ K \in Nat \ {0} /\ K = Half + Half
    BY LmsAssumption
  <1>2. PICK j \in Int : v = u + K * j  BY StoredIs
  <1>3. u \in -Half..(Half - 1) /\ s \in -Half..(Half - 1)  BY StoredIs DEF T
  <1>4. v = s + K * k  OBVIOUS
  <1> HIDE DEF K, u
  <1>5. \A x, y \in Int : x < y => K * x + K <= K * y
    <2>1. ASSUME NEW x \in Int, NEW y \in Int, x < y
          PROVE  K * x + K <= K * y
      <3>1. PICK e \in Nat : y = x + 1 + e
        <4>1. y - (x + 1) \in Nat /\ y = x + 1 + (y - (x + 1))  BY <2>1
        <4>2. QED BY <4>1
      <3>2. K * y = K * x + K + K * e /\ K * e \in Nat /\ K * x \in Int  BY <1>1, <3>1
      <3>3. QED BY <1>1, <3>2
    <2>2. QED BY <2>1
  <1>6. K * j \in Int /\ K * k \in Int /\ u + K * j = s + K * k  BY <1>1, <1>2, <1>4
  <1>7. ~(j < k)
    <2>1. SUFFICES ASSUME j < k PROVE FALSE  OBVIOUS
    <2>2. K * j + K <= K * k  BY <1>5, <2>1
    <2>3. QED BY <1>1, <1>3, <1>6, <2>2
  <1>8. ~(k < j)
    <2>1. SUFFICES ASSUME k < j PROVE FALSE  OBVIOUS
    <2>2. K * k + K <= K * j  BY <1>5, <2>1
    <2>3. QED BY <1>1, <1>3, <1>6, <2>2
  <1>9. j = k  BY <1>7, <1>8
  <1>10. u = s  BY <1>3, <1>6, <1>9
  <1>11. QED BY <1>10 DEF u

LEMMA StoredSame ==
  ASSUME NEW a \in Int, NEW b \in Int, NEW k \in Int, a = b + (2 * Half) * k
  PROVE  Stored(a) = Stored(b)
  <1> DEFINE K == 2 * Half
             s == Stored(b)
  <1>1. K \in Nat \ {0}  BY LmsAssumption
  <1>2. PICK j \in Int : b = s + K * j  BY StoredIs
  <1>3. s \in T  BY StoredIs
  <1>8. s \in Int  BY <1>3, LmsAssumption DEF T
  <1>4. a = b + K * k  OBVIOUS
  <1> HIDE DEF K, s
  <1>5. a = s + K * (j + k) /\ j + k \in Int
    <2>1. K * (j + k) = K * j + K * k /\ K * j \in Int /\ K * k \in Int  BY <1>1
    <2>2. QED BY <1>2, <1>4, <1>8, <2>1
  <1>6. Stored(a) = s  BY <1>3, <1>5, StoredOnce DEF K
  <1>7. QED BY <1>6 DEF s

(* What overflowed before a sum makes no difference to it.                  *)
LEMMA StoredSum ==
  ASSUME NEW a \in Int, NEW b \in Int
  PROVE  /\ Stored(Stored(a) + b) = Stored(a + b)
         /\ Stored(b + Stored(a)) = Stored(b + a)
         /\ Stored(b - Stored(a)) = Stored(b - a)
  <1> DEFINE K == 2 * Half
             s == Stored(a)
  <1>1. K \in Nat \ {0}  BY LmsAssumption
  <1>2. PICK j \in Int : a = s + K * j  BY StoredIs
  <1>3. s \in Int
    BY StoredIs, LmsAssumption DEF T
  <1> HIDE DEF K, s
  <1>4. K * j \in Int /\ K * (-j) = -(K * j) /\ -j \in Int  BY <1>1
  <1>5. /\ s + b \in Int /\ a + b \in Int /\ s + b = (a + b) + K * (-j)
        /\ b + s \in Int /\ b + a \in Int /\ b + s = (b + a) + K * (-j)
        /\ b - s \in Int /\ b - a \in Int /\ b - s = (b - a) + K * j
    BY <1>2, <1>3, <1>4
  <1>6. /\ Stored(s + b) = Stored(a + b)
        /\ Stored(b + s) = Stored(b + a)
        /\ Stored(b - s) = Stored(b - a)
    BY <1>4, <1>5, StoredSame DEF K
  <1>7. QED BY <1>6 DEF s

LEMMA DivideIs ==
  ASSUME NEW a \in Int, NEW b \in Int, b # 0
  PROVE  Divide(a, b) \in Int
  <1> DEFINE sign(v) == IF v < 0 THEN -1 ELSE 1
             n == sign(a) * a
             m == sign(b) * b
             q == n \div m
  <1>1. sign(a) \in {-1, 1} /\ sign(b) \in {-1, 1}  OBVIOUS
  <1>2. n \in Int /\ m \in Nat \ {0}  OBVIOUS
  <1> HIDE DEF n, m
  <1>3. q \in Int  BY <1>2
  <1> HIDE DEF q, sign
  <1>4. sign(a) * sign(b) * q \in Int  BY <1>1, <1>3
  <1>5. QED BY <1>4 DEF Divide, q, n, m, sign

(* The sum of a line of numbers that is shifted up by one.                  *)
LEMMA TotalUpTo ==
  ASSUME NEW n \in Nat, NEW g, \A i \in 0..n : g[i] \in Int
  PROVE  /\ Total(g, 0..n) \in Int
         /\ n = 0 => Total(g, 0..n) = g[0]
         /\ n > 0 => Total(g, 0..n) = g[n] + Total(g, 0..(n - 1))
  <1>1. IsFiniteSet(0..n)  BY FS_Interval
  <1>2. Total(g, 0..n) \in Int  BY <1>1, TotalRules
  <1>3. Total(g, 0..n) = g[n] + Total(g, (0..n) \ {n})  BY <1>1, TotalRules
  <1>4. (0..n) \ {n} = 0..(n - 1)  OBVIOUS
  <1>5. ASSUME n = 0 PROVE Total(g, 0..n) = g[0]
    <2>1. (0..n) \ {n} = {}  BY <1>5
    <2>2. IsFiniteSet({}) /\ \A x \in {} : g[x] \in Int  BY FS_EmptySet
    <2>3. Total(g, {}) = 0  BY <2>2, TotalRules
    <2>4. QED BY <1>3, <1>5, <2>1, <2>3
  <1>6. QED BY <1>2, <1>3, <1>4, <1>5

LEMMA TotalOfZeros ==
  ASSUME NEW n \in Nat, NEW g, \A i \in 0..n : g[i] = 0
  PROVE  Total(g, 0..n) = 0
  <1> DEFINE Bad == {m \in 0..n : Total(g, 0..m) # 0}
  <1>1. ASSUME Bad # {} PROVE FALSE
    <2>1. Bad \in SUBSET Nat  OBVIOUS
    <2>2. PICK m \in Bad : \A l \in Bad : m <= l
      <3> HIDE DEF Bad
      <3>1. QED BY <1>1, <2>1, Smallest
    <2>3. m \in 0..n /\ Total(g, 0..m) # 0 /\ \A i \in 0..m : g[i] \in Int  BY <2>2
    <2>4. m # 0  BY <2>3, TotalUpTo
    <2>5. m - 1 \in 0..n /\ m - 1 \notin Bad
      <3> HIDE DEF Bad
      <3>1. ~(m <= m - 1)  BY <2>3
      <3>2. QED BY <2>2, <2>3, <2>4, <3>1
    <2>6. Total(g, 0..(m - 1)) = 0  BY <2>5
    <2>7. Total(g, 0..m) = g[m] + Total(g, 0..(m - 1))  BY <2>3, <2>4, TotalUpTo
    <2>8. QED BY <2>3, <2>6, <2>7
  <1>2. n \in 0..n  OBVIOUS
  <1>3. QED BY <1>1, <1>2

LEMMA TotalOfShifted ==
  ASSUME NEW n \in Nat, NEW g, NEW h, \A i \in 0..n : g[i] \in Int /\ h[i] \in Int,
         \A i \in 1..n : h[i] = g[i - 1]
  PROVE  Total(h, 0..n) = Total(g, 0..n) - g[n] + h[0]
  <1> DEFINE Bad == {m \in 0..n : Total(h, 0..m) # Total(g, 0..m) - g[m] + h[0]}
  <1>1. ASSUME Bad # {} PROVE FALSE
    <2>1. Bad \in SUBSET Nat  OBVIOUS
    <2>2. PICK m \in Bad : \A l \in Bad : m <= l
      <3> HIDE DEF Bad
      <3>1. QED BY <1>1, <2>1, Smallest
    <2>3. m \in 0..n /\ Total(h, 0..m) # Total(g, 0..m) - g[m] + h[0]  BY <2>2
    <2>4. \A i \in 0..m : g[i] \in Int /\ h[i] \in Int  BY <2>3
    <2>5. m # 0
      <3>1. SUFFICES ASSUME m = 0 PROVE FALSE  OBVIOUS
      <3>2. Total(g, 0..m) = g[0] /\ Total(h, 0..m) = h[0] /\ g[0] \in Int /\ h[0] \in Int
        BY <2>3, <2>4, <3>1, TotalUpTo
      <3>3. QED BY <2>3, <3>1, <3>2
    <2>6. m - 1 \in 0..n /\ m - 1 \notin Bad
      <3> HIDE DEF Bad
      <3>1. ~(m <= m - 1)  BY <2>3
      <3>2. QED BY <2>2, <2>3, <2>5, <3>1
    <2>7. Total(h, 0..(m - 1)) = Total(g, 0..(m - 1)) - g[m - 1] + h[0]  BY <2>6
    <2>8. /\ Total(g, 0..m) = g[m] + Total(g, 0..(m - 1))
          /\ Total(h, 0..m) = h[m] + Total(h, 0..(m - 1))
      BY <2>3, <2>4, <2>5, TotalUpTo
    <2>9. h[m] = g[m - 1] /\ g[m - 1] \in Int /\ g[m] \in Int /\ h[0] \in Int  BY <2>3, <2>5
    <2>10. Total(g, 0..(m - 1)) \in Int  BY <2>4, <2>6, TotalUpTo
    <2> HIDE DEF Bad
    <2>11. QED BY <2>3, <2>7, <2>8, <2>9, <2>10
  <1>2. n \in 0..n  OBVIOUS
  <1>3. QED BY <1>1, <1>2

(* The assumptions of LmsFilter, one by one.                                *)
LEMMA Widths ==
  /\ Half \in Nat \ {0} /\ 0 \in T /\ T \subseteq Int
  /\ {StepSize, Epsilon, Alpha, Gamma, MinStep, MaxStep} \subseteq T
  /\ MinStep <= MaxStep
  BY LmsAssumption DEF T

LEMMA InitFilterTypes == FilterInit => FilterTypeOK
  <1> SUFFICES ASSUME FilterInit PROVE FilterTypeOK
    OBVIOUS
  <1>1. taps \in TapCounts  BY DEF FilterInit
  <1>2. {err, pow, d} \subseteq T  BY Widths DEF FilterInit
  <1>3. {x_hat, h_hat, inputs} \subseteq [Indices -> T]
    BY Widths DEF FilterInit, Zeros
  <1>4. stepSize \in (MinStep..MaxStep) \cup {StepSize}  BY DEF FilterInit
  <1>5. QED BY <1>1, <1>2, <1>3, <1>4 DEF FilterTypeOK

LEMMA FilterIntegers ==
  ASSUME FilterTypeOK
  PROVE  /\ taps \in TapCounts
         /\ err \in Int /\ pow \in Int /\ d \in Int /\ stepSize \in Int
         /\ {x_hat, h_hat, inputs} \subseteq [Indices -> Int]
  <1>1. {MinStep, MaxStep, StepSize} \subseteq Int  BY Widths
  <1>2. stepSize \in Int  BY <1>1 DEF FilterTypeOK
  <1>3. {x_hat, h_hat, inputs} \subseteq [Indices -> Int]
    <2>1. [Indices -> T] \subseteq [Indices -> Int]  BY Widths
    <2>2. QED BY <2>1 DEF FilterTypeOK
  <1>4. QED BY <1>2, <1>3, Widths DEF FilterTypeOK

(* Shifting a line of samples up by one.                                    *)
LEMMA ShiftedIs ==
  ASSUME taps \in TapCounts, NEW U, NEW line \in [Indices -> U], NEW x \in U
  PROVE  /\ [i \in Indices |-> IF i = 0 THEN x ELSE line[i - 1]] \in [Indices -> U]
         /\ \A i \in Indices \ {0} : i - 1 \in Indices
  <1>1. taps \in Nat \ {0}  BY IndicesAre
  <1>2. \A i \in Indices \ {0} : i - 1 \in Indices  BY <1>1 DEF Indices
  <1>3. ASSUME NEW i \in Indices
        PROVE  (IF i = 0 THEN x ELSE line[i - 1]) \in U
    BY <1>2
  <1>4. QED BY <1>2, <1>3

(* Clamping keeps a value within the limits.                                *)
LEMMA ClampIs ==
  ASSUME NEW s \in Int
  PROVE  Clamp(s) \in MinStep..MaxStep
  <1>1. MinStep \in Int /\ MaxStep \in Int /\ MinStep <= MaxStep  BY Widths
  <1>2. QED BY <1>1 DEF Clamp

(* What a step leaves in the filter.                                        *)
LEMMA StepTypes ==
  ASSUME FilterTypeOK, NEW x \in T, NEW dNxt \in T, Step(x, dNxt)
  PROVE  FilterTypeOK'
  <1> USE DEF Step
  <1>1. taps' = taps /\ taps \in TapCounts /\ Indices' = Indices
    BY DEF class, FilterTypeOK, Indices
  <1>2. x \in Int /\ dNxt \in Int  BY Widths
  <1>3. /\ x_hat \in [Indices -> T] /\ inputs \in [Indices -> T]
        /\ h_hat \in [Indices -> Int] /\ stepSize \in Int /\ pow \in Int
    BY FilterIntegers DEF FilterTypeOK
  <1>4. x_hat' \in [Indices -> T]
    BY <1>1, <1>3, ShiftedIs DEF ComputeNext, Shifted
  <1>5. inputs' \in [Indices -> T]
    BY <1>1, <1>3, ShiftedIs
  <1>6. x_hat' \in [Indices -> Int]
    BY <1>4, Widths
  <1>7. pow' \in T
    <2>1. pow' = NextPow(x)  BY DEF ComputeNext
    <2> DEFINE old == IF taps > 1 THEN x_hat[taps - 1] * x_hat[taps - 1] ELSE 0
    <2>2. old \in Int
      <3>1. CASE taps > 1
        <4>1. taps - 1 \in Indices  BY <1>1, <3>1, IndicesAre DEF Indices
        <4>2. x_hat[taps - 1] \in Int  BY <1>3, <4>1, Widths
        <4>3. QED BY <3>1, <4>2
      <3>2. CASE ~(taps > 1)  BY <3>2
      <3>3. QED BY <3>1, <3>2
    <2> HIDE DEF old
    <2>3. pow - old + x * x \in Int  BY <1>2, <1>3, <2>2
    <2>4. QED BY <2>1, <2>3, StoredIs DEF NextPow, old
  <1>8. err' \in T
    <2>1. Dot(h_hat, x_hat') \in Int  BY <1>1, <1>3, <1>6, DotIs
    <2>2. dNxt - Dot(h_hat, x_hat') \in Int  BY <1>2, <2>1
    <2>3. QED BY <2>2, StoredIs DEF ComputeNext
  <1>9. pow' \in Int /\ err' \in Int  BY <1>7, <1>8, Widths
  <1>10. h_hat' \in [Indices -> T]
    <2> DEFINE estimator == Stored(stepSize * err')
               delta(i) == Stored(estimator * x_hat'[i])
               change(i) == IF normalised THEN Normalise(delta(i)) ELSE delta(i)
    <2>1. h_hat' = [i \in Indices |-> Stored(h_hat[i] + change(i))]
      BY DEF UpdateFilter
    <2>2. estimator \in Int
      <3>1. stepSize * err' \in Int  BY <1>3, <1>9
      <3>2. QED BY <3>1, StoredIs, Widths
    <2>3. ASSUME NEW i \in Indices
          PROVE  Stored(h_hat[i] + change(i)) \in T
      <3> HIDE DEF estimator
      <3>1. estimator * x_hat'[i] \in Int  BY <1>6, <2>2
      <3>2. delta(i) \in T /\ delta(i) \in Int  BY <3>1, StoredIs, Widths
      <3> HIDE DEF delta
      <3>3. Normalise(delta(i)) \in Int
        <4>1. CASE pow' = 0  BY <3>2, <4>1 DEF Normalise
        <4>2. CASE pow' # 0
          <5>1. Divide(delta(i), pow') \in Int  BY <1>9, <3>2, <4>2, DivideIs
          <5>2. Stored(Divide(delta(i), pow')) \in Int  BY <5>1, StoredIs, Widths
          <5>3. QED BY <4>2, <5>2 DEF Normalise
        <4>3. QED BY <4>1, <4>2
      <3>4. change(i) \in Int  BY <3>2, <3>3
      <3>5. h_hat[i] + change(i) \in Int  BY <1>3, <3>4
      <3> HIDE DEF change
      <3>6. QED BY <3>5, StoredIs
    <2> HIDE DEF change
    <2>4. QED BY <2>1, <2>3
  <1>11. stepSize' \in (MinStep..MaxStep) \cup {StepSize}
    <2>1. CASE variable
      <3>1. stepSize' = NextStepSize(x)  BY <2>1
      <3>2. Alpha \in Int /\ Gamma \in Int  BY Widths
      <3>3. Alpha * stepSize \in Int  BY <1>3, <3>2
      <3>4. Gamma * err' * x \in Int  BY <1>2, <1>9, <3>2
      <3>5. /\ Stored(Alpha * stepSize) \in Int
            /\ Stored(Gamma * err' * x) \in Int
        BY <3>3, <3>4, StoredIs, Widths
      <3> DEFINE kept == Stored(Alpha * stepSize)
                 added == Stored(Gamma * err' * x)
      <3>6. Stored(kept + added) \in Int
        <4>1. kept + added \in Int  BY <3>5
        <4> HIDE DEF kept, added
        <4>2. QED BY <4>1, StoredIs, Widths
      <3>7. QED BY <3>1, <3>6, ClampIs DEF NextStepSize
    <2>2. CASE ~variable
      <3>1. stepSize' = stepSize  BY <2>2
      <3>2. QED BY <3>1 DEF FilterTypeOK
    <2>3. QED BY <2>1, <2>2
  <1>12. {err, pow, d}' \subseteq T  BY <1>7, <1>8
  <1>13. {x_hat, h_hat, inputs}' \subseteq [Indices -> T]'
    BY <1>1, <1>4, <1>5, <1>10 DEF T
  <1>14. taps' \in TapCounts  BY <1>1
  <1> HIDE DEF Step
  <1>15. QED BY <1>11, <1>12, <1>13, <1>14 DEF FilterTypeOK, T

(* A step that leaves the filter alone.                                     *)
LEMMA SameTypes ==
  ASSUME FilterTypeOK, UNCHANGED <<taps, err, pow, d, x_hat, h_hat, inputs>>,
         stepSize' \in {stepSize, StepSize}
  PROVE  FilterTypeOK'
  BY DEF FilterTypeOK, T, Indices

(* A filter takes a step with two values of T, or has its step size reset.  *)
LEMMA FilterMoves ==
  [FilterNext]_filterVars =>
    \/ \E x, dNxt \in T : Step(x, dNxt)
    \/ /\ UNCHANGED <<taps, normalised, err, pow, d, x_hat, h_hat, inputs>>
       /\ stepSize' \in {stepSize, StepSize}
  <1>1. Inputs \subseteq T  BY LmsAssumption
  <1>2. QED
    BY <1>1 DEF FilterNext, ResetStepSize, filterVars, class, filter

(* Whatever it is fed with, every value of the filter is one of its type,   *)
(* and the step size stays within its limits (lms.h:18-24, 151-155).        *)
THEOREM FilterTypeCorrect == FilterSpec => []FilterTypeOK
  <1>1. FilterTypeOK /\ [FilterNext]_filterVars => FilterTypeOK'
    BY FilterMoves, StepTypes, SameTypes
  <1>2. QED BY <1>1, InitFilterTypes, PTL DEF FilterSpec

-------------------------------------------------------------------------------
(* The power of the line.                                                   *)

LEMMA PowerIs ==
  taps \in TapCounts /\ x_hat \in [Indices -> Int] =>
    /\ Dot(x_hat, x_hat) = Total(Products(x_hat, x_hat), Indices)
    /\ Dot(x_hat, x_hat) \in Int
  BY DotIs

LEMMA InitPower == FilterInit => PowerOfLine
  <1> SUFFICES ASSUME FilterInit PROVE PowerOfLine
    OBVIOUS
  <1>1. FilterTypeOK  BY InitFilterTypes
  <1>2. taps \in TapCounts /\ x_hat \in [Indices -> Int] /\ taps \in Nat \ {0}
    BY <1>1, FilterIntegers, IndicesAre
  <1>3. Indices = 0..(taps - 1) /\ taps - 1 \in Nat  BY <1>2 DEF Indices
  <1>4. \A i \in Indices : Products(x_hat, x_hat)[i] = 0
    BY DEF FilterInit, Zeros, Products
  <1>5. Dot(x_hat, x_hat) = 0  BY <1>2, <1>3, <1>4, PowerIs, TotalOfZeros
  <1>6. Epsilon \in T /\ Epsilon \in Int  BY Widths
  <1>7. Stored(Epsilon + 0) = Epsilon
    <2>1. Half \in Int  BY Widths
    <2>2. Epsilon + 0 = Epsilon + (2 * Half) * 0 /\ Epsilon + 0 \in Int  BY <1>6, <2>1
    <2>3. QED BY <1>6, <2>2, StoredOnce
  <1>8. QED BY <1>5, <1>7 DEF FilterInit, PowerOfLine

(* The one sample that leaves the line and the one that enters it make the  *)
(* difference.                                                              *)
LEMMA StepPower ==
  ASSUME FilterTypeOK, NEW x \in T, NEW dNxt \in T, Step(x, dNxt),
         taps > 1, PowerOfLine
  PROVE  PowerOfLine'
  <1>1. taps' = taps /\ taps \in TapCounts /\ Indices' = Indices
    BY DEF Step, class, FilterTypeOK, Indices
  <1>2. taps - 1 \in Nat /\ Indices = 0..(taps - 1) /\ taps \in Nat \ {0}
    BY <1>1, IndicesAre DEF Indices
  <1>3. x \in Int /\ pow \in Int /\ x_hat \in [Indices -> Int] /\ Epsilon \in Int
    BY Widths, FilterIntegers
  <1>4. FilterTypeOK'  BY StepTypes
  <1>5. x_hat' = [i \in Indices |-> IF i = 0 THEN x ELSE x_hat[i - 1]]
    BY DEF Step, ComputeNext, Shifted
  <1>6. x_hat' \in [Indices -> Int]
    BY <1>1, <1>3, <1>5, ShiftedIs
  <1>7. /\ (Dot(x_hat, x_hat))' = Total(Products(x_hat, x_hat)', Indices)
        /\ (Dot(x_hat, x_hat))' \in Int
    <2>1. (taps \in TapCounts /\ x_hat \in [Indices -> Int] =>
             /\ Dot(x_hat, x_hat) = Total(Products(x_hat, x_hat), Indices)
             /\ Dot(x_hat, x_hat) \in Int)'
      BY PowerIs, PTL
    <2>2. QED BY <1>1, <1>6, <2>1 DEF Total, IsSum, One
  <1> DEFINE g == Products(x_hat, x_hat)
             h == Products(x_hat, x_hat)'
             oldest == x_hat[taps - 1]
  <1>8. /\ Dot(x_hat, x_hat) = Total(g, Indices)
        /\ Dot(x_hat, x_hat) \in Int
    BY <1>1, <1>3, PowerIs
  <1>9. \A i \in Indices : /\ g[i] = x_hat[i] * x_hat[i] /\ g[i] \in Int
                                  /\ h[i] = x_hat'[i] * x_hat'[i] /\ h[i] \in Int
    BY <1>1, <1>3, <1>6 DEF Products
  <1>10. \A i \in 1..(taps - 1) : h[i] = g[i - 1]
    <2>1. ASSUME NEW i \in 1..(taps - 1) PROVE h[i] = g[i - 1]
      <3>1. i \in Indices /\ i - 1 \in Indices /\ i # 0  BY <1>2
      <3>2. x_hat'[i] = x_hat[i - 1]  BY <1>5, <3>1
      <3>3. QED BY <1>9, <3>1, <3>2
    <2>2. QED BY <2>1
  <1>11. 0 \in Indices /\ taps - 1 \in Indices  BY <1>2
  <1>12. h[0] = x * x /\ g[taps - 1] = oldest * oldest /\ oldest \in Int
    BY <1>3, <1>5, <1>9, <1>11
  <1> HIDE DEF g, h, oldest
  <1>13. Total(h, Indices) = Total(g, Indices) - g[taps - 1] + h[0]
    BY <1>2, <1>9, <1>10, TotalOfShifted
  <1>14. pow' = Stored(pow - oldest * oldest + x * x)
    BY DEF Step, ComputeNext, NextPow, oldest
  <1>15. pow = Stored(Epsilon + Dot(x_hat, x_hat))
    BY DEF PowerOfLine
  <1> DEFINE E == Dot(x_hat, x_hat)
             a == oldest * oldest
             b == x * x
  <1>16. E \in Int /\ a \in Int /\ b \in Int /\ Epsilon + E \in Int
    BY <1>3, <1>8, <1>12
  <1>17. (Dot(x_hat, x_hat))' = E - a + b
    BY <1>7, <1>8, <1>12, <1>13 DEF h
  <1> HIDE DEF E, a, b
  <1>18. pow' = Stored(Epsilon + (E - a + b))
    <2>1. pow - a + b = pow + (b - a) /\ b - a \in Int  BY <1>3, <1>16
    <2>2. pow' = Stored(pow + (b - a))  BY <1>14, <2>1 DEF a, b
    <2>3. Stored(pow + (b - a)) = Stored((Epsilon + E) + (b - a))
      BY <1>15, <1>16, <2>1, StoredSum DEF E
    <2>4. (Epsilon + E) + (b - a) = Epsilon + (E - a + b)  BY <1>3, <1>16
    <2>5. QED BY <2>2, <2>3, <2>4
  <1>19. QED BY <1>17, <1>18 DEF PowerOfLine, Stored

(* With more than one tap the running power is always the power of the      *)
(* delay line, whatever overflowed: nothing accumulates (lms.h:77-88).      *)
THEOREM PowerStays == FilterSpec => [](taps > 1 => PowerOfLine)
  <1> DEFINE Inv == FilterTypeOK /\ (taps > 1 => PowerOfLine)
  <1>1. FilterInit => Inv  BY InitFilterTypes, InitPower
  <1>2. Inv /\ [FilterNext]_filterVars => Inv'
    <2> SUFFICES ASSUME Inv, [FilterNext]_filterVars PROVE Inv'
      OBVIOUS
    <2>1. CASE \E x, dNxt \in T : Step(x, dNxt)
      <3>1. PICK x \in T, dNxt \in T : Step(x, dNxt)  BY <2>1
      <3>2. taps' = taps  BY <3>1 DEF Step, class
      <3>3. QED BY <3>1, <3>2, StepTypes, StepPower
    <2>2. CASE UNCHANGED <<taps, err, pow, d, x_hat, h_hat, inputs>> /\ stepSize' \in {stepSize, StepSize}
      <3>1. FilterTypeOK'  BY <2>2, SameTypes
      <3>2. (taps > 1 => PowerOfLine)'
        BY <2>2 DEF PowerOfLine, Dot, MapThenSumSet, MapThenFoldSet,
                    Indices, Stored
      <3>3. QED BY <3>1, <3>2
    <2>3. QED
      BY <2>1, <2>2, FilterMoves
  <1>3. QED BY <1>1, <1>2, PTL DEF FilterSpec

-------------------------------------------------------------------------------
(* The demonstration's files.                                               *)

LEMMA RoundsVanish ==
  ASSUME NEW k \in Nat \ {0}, NEW n \in Int
  PROVE  (k * n) % k = 0
  <1> DEFINE v == k * n
             q == v \div k
             r == v % k
  <1>1. v \in Int  OBVIOUS
  <1>2. r \in 0..(k - 1) /\ q \in Int /\ v = k * q + r  BY <1>1, DivisionIs
  <1> HIDE DEF q, r
  <1>3. k * (n - q) = r /\ n - q \in Int
    <2>1. k * (n - q) = k * n - k * q /\ k * q \in Int  BY <1>2
    <2>2. QED BY <1>2, <2>1
  <1>4. n - q = 0
    <2>1. CASE n - q >= 1
      <3>1. k * 1 <= k * (n - q)  BY <1>3, <2>1, Times
      <3>2. QED BY <1>2, <1>3, <3>1
    <2>2. CASE n - q <= -1
      <3>1. k * (n - q) <= k * (-1)  BY <1>3, <2>2, Times
      <3>2. QED BY <1>2, <1>3, <3>1
    <2>3. QED BY <1>3, <2>1, <2>2
  <1>5. r = 0  BY <1>3, <1>4
  <1>6. QED BY <1>5 DEF r

(* A sample is its average, what was cancelled and what was not.            *)
LEMMA SampleAddsUp ==
  ASSUME NEW s \in Int, NEW a \in Int, NEW e \in Int
  PROVE  (a + Stored(Detrended(s, a) - e) + e - s) % (2 * Half) = 0
  <1> DEFINE K == 2 * Half
             w == Stored(s - a)
             c == Stored(w - e)
  <1>1. K \in Nat \ {0}  BY Widths
  <1>2. s - a \in Int  OBVIOUS
  <1>3. w \in Int  BY <1>2, StoredIs, Widths
  <1>4. PICK m \in Int : s - a = w + K * m  BY <1>2, StoredIs
  <1> HIDE DEF w
  <1>5. w - e \in Int  BY <1>3
  <1>6. c \in Int  BY <1>5, StoredIs, Widths
  <1>7. PICK n \in Int : w - e = c + K * n  BY <1>5, StoredIs
  <1> HIDE DEF c, K
  <1>8. K * (-m - n) = -(K * m) - K * n /\ K * m \in Int /\ K * n \in Int /\ -m - n \in Int
    BY <1>1
  <1>9. a + c + e - s = K * (-m - n)  BY <1>3, <1>4, <1>6, <1>7, <1>8
  <1>10. (a + c + e - s) % K = 0  BY <1>1, <1>8, <1>9, RoundsVanish
  <1>11. QED BY <1>10 DEF c, w, K, Detrended

LEMMA FilterNumbers == FilterTypeOK => err \in Int /\ stepSize \in Int
  BY FilterIntegers

(* What a pass does to the filter and to the files.                         *)
LEMMA PassEffect ==
  ASSUME IInv, FilterTypeOK, Pass
  PROVE  /\ FilterTypeOK'
         /\ taps' = taps /\ UNCHANGED <<pc, ref, opt>> /\ idxOpt' = idxOpt + 1
         /\ err' \in Int /\ stepSize' \in Int /\ opt[idxOpt + 1] \in Int
         /\ \E refL, optL \in Int :
              files' = [files EXCEPT !["refL"][idxRef + 1] = refL,
                                     !["optL"][idxOpt + 1] = optL,
                                     !["anc"][idxOpt + 1]  =
                                       Stored(Detrended(opt[idxOpt + 1], optL) - err'),
                                     !["err"][idxOpt + 1]  = err',
                                     !["stp"][idxOpt + 1]  = stepSize']
  <1>1. /\ InBounds /\ MoreToDo /\ idxOpt' = idxOpt + 1 /\ UNCHANGED <<pc, ref, opt>>
    BY DEF Pass
  <1>2. PICK refL \in step(last.ref, ref[idxRef + 1]),
             optL \in step(last.opt, opt[idxOpt + 1]) :
          LET ref16 == Detrended(ref[idxRef + 1], refL)
              opt16 == Detrended(opt[idxOpt + 1], optL)
          IN /\ last' = [ref |-> refL, opt |-> optL]
             /\ Step(opt16, ref16)
             /\ files' = [files EXCEPT !["refL"][idxRef + 1] = refL,
                                       !["optL"][idxOpt + 1] = optL,
                                       !["anc"][idxOpt + 1]  = Stored(opt16 - err'),
                                       !["err"][idxOpt + 1]  = err',
                                       !["stp"][idxOpt + 1]  = stepSize']
    BY DEF Pass
  <1>3. /\ Len(ref) \in Nat /\ Len(opt) \in Nat /\ lookahead \in Nat /\ idxOpt \in Nat
        /\ numSamples = Len(ref) - lookahead /\ idxRef = idxOpt + lookahead
    BY Lengths DEF IInv, IndexOK, numSamples, idxRef
  <1>4. ref[idxRef + 1] \in Samples /\ opt[idxOpt + 1] \in Samples
    <2>1. idxRef + 1 \in 1..Len(ref) /\ idxOpt + 1 \in 1..Len(opt)
      BY <1>1, <1>3 DEF InBounds
    <2>2. ref[idxRef + 1] \in Values /\ opt[idxOpt + 1] \in Values
      BY <2>1, ElementOfSeq DEF IInv, RecordingsOK
    <2>3. QED BY <2>2, LmsDemoAssumption
  <1>5. refL \in Int /\ optL \in Int
    BY <1>4, StepWithinDrift DEF IInv, AveragesOK, AverageBounded
  <1>6. ref[idxRef + 1] \in Int /\ opt[idxOpt + 1] \in Int
    BY <1>4, LeakyAssumption DEF Samples
  <1>7. /\ Detrended(ref[idxRef + 1], refL) \in T
        /\ Detrended(opt[idxOpt + 1], optL) \in T
    <2>1. ref[idxRef + 1] - refL \in Int /\ opt[idxOpt + 1] - optL \in Int  BY <1>5, <1>6
    <2>2. QED BY <2>1, StoredIs DEF Detrended
  <1>8. FilterTypeOK'  BY <1>2, <1>7, StepTypes
  <1>9. (FilterTypeOK => err \in Int /\ stepSize \in Int)'
    BY FilterNumbers, PTL
  <1>10. taps' = taps  BY <1>2 DEF Step, class
  <1>11. \E u, v \in Int :
              files' = [files EXCEPT !["refL"][idxRef + 1] = u,
                                     !["optL"][idxOpt + 1] = v,
                                     !["anc"][idxOpt + 1]  =
                                       Stored(Detrended(opt[idxOpt + 1], v) - err'),
                                     !["err"][idxOpt + 1]  = err',
                                     !["stp"][idxOpt + 1]  = stepSize']
    BY <1>2, <1>5
  <1>12. QED BY <1>1, <1>6, <1>8, <1>9, <1>10, <1>11

(* A file gets one more sample written, and keeps the others.               *)
Extended(old, new, k, v) ==
  /\ DOMAIN new = DOMAIN old
  /\ k \in DOMAIN old
  /\ new[k] = v
  /\ \A i \in DOMAIN old \ {k} : new[i] = old[i]

LEMMA PassFiles ==
  ASSUME IInv, FilterTypeOK, Pass
  PROVE  \E v \in [Outputs -> Int] :
           /\ \A f \in Outputs \ {"refL"} :
                Extended(files[f], files'[f], idxOpt + 1, v[f])
           /\ Extended(files["refL"], files'["refL"], idxRef + 1, v["refL"])
           /\ v["anc"] = Stored(Detrended(opt[idxOpt + 1], v["optL"]) - v["err"])
  <1>1. err' \in Int /\ stepSize' \in Int /\ opt[idxOpt + 1] \in Int  BY PassEffect
  <1>2. PICK refL \in Int, optL \in Int :
              files' = [files EXCEPT !["refL"][idxRef + 1] = refL,
                                     !["optL"][idxOpt + 1] = optL,
                                     !["anc"][idxOpt + 1]  =
                                       Stored(Detrended(opt[idxOpt + 1], optL) - err'),
                                     !["err"][idxOpt + 1]  = err',
                                     !["stp"][idxOpt + 1]  = stepSize']
    BY PassEffect
  <1> DEFINE anc == Stored(Detrended(opt[idxOpt + 1], optL) - err')
  <1>3. anc \in Int
    <2>1. opt[idxOpt + 1] - optL \in Int  BY <1>1
    <2>2. Detrended(opt[idxOpt + 1], optL) \in Int  BY <2>1, StoredIs, Widths DEF Detrended
    <2>3. Detrended(opt[idxOpt + 1], optL) - err' \in Int  BY <1>1, <2>2
    <2>4. QED BY <2>3, StoredIs, Widths
  <1>4. files = [f \in Outputs |-> files[f]]  BY DEF IInv, RecordingsOK, Shaped
  <1>5. Outputs = {"refL", "optL", "err", "stp", "anc"}  BY DEF Outputs
  <1> HIDE DEF anc
  <1>6. /\ files'["refL"] = [files["refL"] EXCEPT ![idxRef + 1] = refL]
        /\ files'["optL"] = [files["optL"] EXCEPT ![idxOpt + 1] = optL]
        /\ files'["anc"] = [files["anc"] EXCEPT ![idxOpt + 1] = anc]
        /\ files'["err"] = [files["err"] EXCEPT ![idxOpt + 1] = err']
        /\ files'["stp"] = [files["stp"] EXCEPT ![idxOpt + 1] = stepSize']
    BY <1>2, <1>4, <1>5 DEF anc
  <1>7. /\ InBounds /\ idxOpt \in Nat /\ lookahead \in Nat /\ idxRef = idxOpt + lookahead
    BY Lengths DEF IInv, IndexOK, idxRef, Pass
  <1>8. \A f \in Outputs : /\ DOMAIN files[f] = 1..Len(files[f]) /\ Len(files[f]) \in Nat
                           /\ files[f] = [i \in DOMAIN files[f] |-> files[f][i]]
    <2>1. TAKE f \in Outputs
    <2>2. PICK n \in 0..MaxLength : files[f] = [i \in 1..n |-> files[f][i]]
      BY DEF IInv, RecordingsOK, Shaped
    <2>3. n \in Nat  BY LmsDemoAssumption
    <2>4. Len(files[f]) = n  BY <2>2, <2>3, LengthOf
    <2>5. DOMAIN files[f] = 1..n  BY <2>2
    <2>6. QED BY <2>2, <2>3, <2>4, <2>5
  <1>9. /\ idxRef + 1 \in DOMAIN files["refL"]
        /\ \A f \in Outputs \ {"refL"} : idxOpt + 1 \in DOMAIN files[f]
    <2>1. "refL" \in Outputs  BY <1>5
    <2>2. idxRef + 1 \in DOMAIN files["refL"]  BY <1>7, <1>8, <2>1 DEF InBounds
    <2>3. ASSUME NEW f \in Outputs \ {"refL"} PROVE idxOpt + 1 \in DOMAIN files[f]
      BY <1>7, <1>8 DEF InBounds
    <2>4. QED BY <2>2, <2>3
  <1> DEFINE w(f) == CASE f = "refL" -> refL [] f = "optL" -> optL [] f = "anc" -> anc
                       [] f = "err" -> err' [] f = "stp" -> stepSize'
             v == [f \in Outputs |-> w(f)]
  <1>10. /\ v["refL"] = refL /\ v["optL"] = optL /\ v["anc"] = anc /\ v["err"] = err'
         /\ v["stp"] = stepSize'
    BY <1>5
  <1>11. v \in [Outputs -> Int]
    <2>1. \A f \in Outputs : w(f) \in Int  BY <1>1, <1>3, <1>5
    <2> HIDE DEF w
    <2>2. QED BY <2>1
  <1> HIDE DEF v
  <1>12. Extended(files["refL"], files'["refL"], idxRef + 1, v["refL"])
    BY <1>5, <1>6, <1>8, <1>9, <1>10 DEF Extended
  <1>13. ASSUME NEW f \in Outputs \ {"refL"}
         PROVE  Extended(files[f], files'[f], idxOpt + 1, v[f])
    <2>1. files'[f] = [files[f] EXCEPT ![idxOpt + 1] = v[f]]  BY <1>5, <1>6, <1>10
    <2>2. idxOpt + 1 \in DOMAIN files[f] /\ files[f] = [i \in DOMAIN files[f] |-> files[f][i]]
      BY <1>8, <1>9
    <2>3. QED BY <2>1, <2>2 DEF Extended
  <1>14. v["anc"] = Stored(Detrended(opt[idxOpt + 1], v["optL"]) - v["err"])
    BY <1>10 DEF anc
  <1>15. QED BY <1>11, <1>12, <1>13, <1>14

LEMMA PassAddsUp ==
  ASSUME IInv, FilterTypeOK, FilesAddUp, Pass
  PROVE  FilesAddUp'
  <1>1. PICK v \in [Outputs -> Int] :
           /\ \A f \in Outputs \ {"refL"} :
                Extended(files[f], files'[f], idxOpt + 1, v[f])
           /\ Extended(files["refL"], files'["refL"], idxRef + 1, v["refL"])
           /\ v["anc"] = Stored(Detrended(opt[idxOpt + 1], v["optL"]) - v["err"])
    BY PassFiles
  <1>2. /\ taps' = taps /\ opt' = opt /\ idxOpt' = idxOpt + 1 /\ opt[idxOpt + 1] \in Int
    BY PassEffect
  <1>3. idxOpt \in Nat /\ lookahead \in Nat /\ idxRef = idxOpt + lookahead
    BY Lengths DEF IInv, IndexOK, idxRef
  <1>4. lookahead' = lookahead /\ idxRef' = idxRef + 1
    <2>1. lookahead' = lookahead  BY <1>2 DEF lookahead
    <2>2. idxRef' = (idxOpt + 1) + lookahead  BY <1>2, <2>1 DEF idxRef
    <2>3. QED BY <1>3, <2>1, <2>2
  <1>5. {"optL", "anc", "err"} \subseteq Outputs \ {"refL"}  BY DEF Outputs
  <1>6. ASSUME NEW i \in 1..(idxOpt + 1)
        PROVE  (files'["optL"][i] + files'["anc"][i] + files'["err"][i] - opt[i]) % (2 * Half) = 0
    <2>1. CASE i = idxOpt + 1
      <3>1. files'["optL"][i] = v["optL"] /\ files'["anc"][i] = v["anc"] /\ files'["err"][i] = v["err"]
        BY <1>1, <1>5, <2>1 DEF Extended
      <3>2. v["optL"] \in Int /\ v["err"] \in Int  BY <1>1, <1>5
      <3>3. (v["optL"] + v["anc"] + v["err"] - opt[i]) % (2 * Half) = 0
        BY <1>1, <1>2, <2>1, <3>2, SampleAddsUp
      <3>4. QED BY <3>1, <3>3
    <2>2. CASE i # idxOpt + 1
      <3>1. i \in 1..idxOpt  BY <1>3, <2>2
      <3>2. ASSUME NEW f \in {"optL", "anc", "err"}
            PROVE  files'[f][i] = files[f][i]
        <4>1. f \in Outputs \ {"refL"}  BY <1>5
        <4>2. i \in DOMAIN files[f]
          <5>1. idxOpt <= Len(files[f]) /\ Len(files[f]) \in Nat
            BY <1>3, <3>1, <4>1, Lengths DEF IInv, IndexOK
          <5>2. DOMAIN files[f] = 1..Len(files[f])
            <6>1. PICK n \in 0..MaxLength : files[f] = [j \in 1..n |-> files[f][j]]
              BY <4>1 DEF IInv, RecordingsOK, Shaped
            <6>2. n \in Nat  BY LmsDemoAssumption
            <6>3. Len(files[f]) = n  BY <6>1, <6>2, LengthOf
            <6>4. QED BY <6>1, <6>3
          <5>3. QED BY <1>3, <3>1, <5>1, <5>2
        <4>3. QED BY <1>1, <2>2, <4>1, <4>2 DEF Extended
      <3>3. (files["optL"][i] + files["anc"][i] + files["err"][i] - opt[i]) % (2 * Half) = 0
        BY <3>1 DEF FilesAddUp
      <3>4. QED BY <3>2, <3>3
    <2>3. QED BY <2>1, <2>2
  <1>7. ASSUME NEW f \in Outputs, NEW i \in DOMAIN files'[f]
        PROVE  files'[f][i] = Loaded <=>
                 i \notin IF f = "refL" THEN (lookahead + 1)..(idxRef + 1) ELSE 1..(idxOpt + 1)
    <2> DEFINE k == IF f = "refL" THEN idxRef + 1 ELSE idxOpt + 1
               m == IF f = "refL" THEN lookahead + 1 ELSE 1
    <2>1. Extended(files[f], files'[f], k, v[f])  BY <1>1
    <2>2. m \in Nat /\ k \in Nat /\ m <= k  BY <1>3
    <2>3. i \in DOMAIN files[f] /\ (files[f][i] = Loaded <=> i \notin m..(k - 1))
      <3>1. i \in DOMAIN files[f]  BY <2>1 DEF Extended
      <3>2. files[f][i] = Loaded <=> i \notin IF f = "refL" THEN (lookahead + 1)..idxRef ELSE 1..idxOpt
        BY <3>1 DEF FilesAddUp
      <3>3. m..(k - 1) = IF f = "refL" THEN (lookahead + 1)..idxRef ELSE 1..idxOpt
        BY <1>3
      <3>4. QED BY <3>1, <3>2, <3>3
    <2>4. m..k = IF f = "refL" THEN (lookahead + 1)..(idxRef + 1) ELSE 1..(idxOpt + 1)
      OBVIOUS
    <2> HIDE DEF k, m
    <2>5. files'[f][i] = Loaded <=> i \notin m..k
      <3>1. CASE i = k
        <4>1. files'[f][i] = v[f] /\ v[f] \in Int  BY <2>1, <3>1 DEF Extended
        <4>2. i \in m..k  BY <2>2, <3>1
        <4>3. QED BY <4>1, <4>2, LmsDemoAssumption
      <3>2. CASE i # k
        <4>1. files'[f][i] = files[f][i]  BY <2>1, <2>3, <3>2 DEF Extended
        <4>2. i \in m..k <=> i \in m..(k - 1)  BY <2>2, <3>2
        <4>3. QED BY <2>3, <4>1, <4>2
      <3>3. QED BY <3>1, <3>2
    <2>6. QED BY <2>4, <2>5
  <1>8. QED BY <1>2, <1>4, <1>6, <1>7 DEF FilesAddUp

(* No file has been written before the first pass.                          *)
LEMMA InitAddsUp == Init => FilesAddUp
  <1> SUFFICES ASSUME Init PROVE FilesAddUp
    OBVIOUS
  <1>1. idxOpt = 0 /\ idxRef = 0 + lookahead  BY DEF Init, idxRef
  <1>2. lookahead \in Nat  BY InitIInv, Lengths DEF IInv
  <1>3. 1..idxOpt = {} /\ (lookahead + 1)..idxRef = {}  BY <1>1, <1>2
  <1>4. PICK loaded \in [Outputs -> 0..MaxLength] :
          files = [f \in Outputs |-> [i \in 1..loaded[f] |-> Loaded]]
    BY LmsDemoAssumption DEF Init
  <1>5. \A f \in Outputs : \A i \in DOMAIN files[f] : files[f][i] = Loaded
    BY <1>4
  <1>6. QED BY <1>3, <1>5 DEF FilesAddUp

(* What holds of the filter and of the files.                               *)
Recorded == IInv /\ FilterTypeOK /\ FilesAddUp

LEMMA NextRecorded == Recorded /\ [Next]_vars => Recorded'
  <1> SUFFICES ASSUME Recorded, [Next]_vars PROVE Recorded'
    OBVIOUS
  <1>1. IInv'  BY NextIInv DEF Recorded
  <1>2. CASE Pass
    BY <1>1, <1>2, PassEffect, PassAddsUp DEF Recorded
  <1>3. CASE UNCHANGED <<idxOpt, ref, opt, files, last, myFilter>>
    <2>1. FilterTypeOK'
      BY <1>3, SameTypes DEF Recorded, myFilter, filterVars, class, filter
    <2>2. FilesAddUp'
      BY <1>3 DEF Recorded, FilesAddUp, myFilter, filterVars, class, filter, lookahead, idxRef
    <2>3. QED BY <1>1, <2>1, <2>2 DEF Recorded
  <1>4. QED
    BY <1>2, <1>3 DEF Next, Allocate, Overrun, Save, vars

LEMMA SpecRecorded == Spec => []Recorded
  <1>1. Init => Recorded
    BY InitIInv, InitFilterTypes, InitAddsUp DEF Recorded, Init
  <1>2. QED BY <1>1, NextRecorded, PTL DEF Spec

(* For recordings and files of every length, and any filter, every variable *)
(* stays in its set and the files keep their lengths                        *)
(* (lmsDemo.cpp:80-132).                                                    *)
THEOREM TypeCorrect == Spec => []TypeOK
  <1>1. Recorded => TypeOK
    <2> SUFFICES ASSUME Recorded PROVE TypeOK
      OBVIOUS
    <2>1. \A f \in Outputs : Len(files[f]) \in 0..MaxLength
      <3>1. TAKE f \in Outputs
      <3>2. PICK n \in 0..MaxLength : files[f] = [i \in 1..n |-> files[f][i]]
        BY DEF Recorded, IInv, RecordingsOK, Shaped
      <3>3. n \in Nat  BY LmsDemoAssumption
      <3>4. QED BY <3>2, <3>3, LengthOf
    <2>2. idxOpt \in 0..MaxLength
      <3>1. idxOpt \in Nat /\ MaxLength \in Nat  BY LmsDemoAssumption DEF Recorded, IInv, IndexOK
      <3>2. CASE idxOpt = 0  BY <3>1, <3>2
      <3>3. CASE idxOpt > 0
        <4>1. "err" \in Outputs  BY DEF Outputs
        <4>2. idxOpt <= Len(files["err"]) /\ Len(files["err"]) \in 0..MaxLength
          BY <2>1, <3>3, <4>1 DEF Recorded, IInv, IndexOK
        <4>3. QED BY <3>1, <4>2
      <3>4. QED BY <3>1, <3>2, <3>3
    <2>3. QED
      BY <2>1, <2>2 DEF Recorded, IInv, IndexOK, RecordingsOK, TypeOK
  <1>2. QED BY <1>1, SpecRecorded, PTL

(* At every index written, average, cancelled part and error add up to the  *)
(* sample, and the rest of the files is as it was loaded, for every width   *)
(* of T and whatever overflowed (lmsDemo.cpp:132-175).                      *)
THEOREM OutputsAddUp == Spec => []FilesAddUp
  BY SpecRecorded, PTL DEF Recorded

-------------------------------------------------------------------------------
(* What a step does to the error.                                           *)

(* The error a step stores is what the taps before it miss of the sample,   *)
(* with the newest sample in the line (lms.h:80-89).                        *)
THEOREM ErrorIsWhatIsMissed == FilterSpec => ErrorIsResidual
  <1> DEFINE Residual == <<h_hat, inputs, d>>' # <<h_hat, inputs, d>> =>
                           err' = Stored(d' - Dot(h_hat, inputs'))
  <1>1. FilterInit => LineIsHistory
    BY DEF FilterInit, LineIsHistory
  <1>2. LineIsHistory /\ [FilterNext]_filterVars => LineIsHistory' /\ Residual
    <2> SUFFICES ASSUME LineIsHistory, [FilterNext]_filterVars
                 PROVE  LineIsHistory' /\ Residual
      OBVIOUS
    <2>1. CASE \E x, dNxt \in T : Step(x, dNxt)
      <3>1. PICK x \in T, dNxt \in T : Step(x, dNxt)  BY <2>1
      <3>2. x_hat' = inputs'
        BY <3>1 DEF Step, ComputeNext, Shifted, LineIsHistory
      <3>3. err' = Stored(d' - Dot(h_hat, x_hat'))
        BY <3>1 DEF Step, ComputeNext
      <3>4. QED BY <3>2, <3>3 DEF LineIsHistory
    <2>2. CASE UNCHANGED <<h_hat, inputs, d, x_hat>>
      BY <2>2 DEF LineIsHistory
    <2>3. QED
      BY <2>1, <2>2, FilterMoves
  <1>3. QED
    BY <1>1, <1>2, PTL DEF FilterSpec, ErrorIsResidual

LEMMA DivideBetween ==
  ASSUME NEW a \in Int, NEW b \in Nat \ {0}
  PROVE  /\ Divide(a, b) \in Int
         /\ a >= 0 => 0 <= Divide(a, b) /\ b * Divide(a, b) <= a
         /\ a <= 0 => Divide(a, b) <= 0 /\ a <= b * Divide(a, b)
  <1> DEFINE n == IF a < 0 THEN -a ELSE a
             q == n \div b
  <1>1. n \in Nat  OBVIOUS
  <1>2. q \in Int /\ 0 <= q /\ b * q <= n
    <2> HIDE DEF n
    <2>1. n % b \in 0..(b - 1) /\ q \in Int /\ n = b * q + (n % b)  BY <1>1, DivisionIs
    <2> DEFINE r == n % b
    <2> HIDE DEF q, r
    <2>2. r \in 0..(b - 1) /\ q \in Int /\ n = b * q + r  BY <2>1 DEF r
    <2>3. b * q \in Int /\ b * q <= n  BY <1>1, <2>2
    <2>4. 0 <= q
      <3>1. SUFFICES ASSUME q <= -1 PROVE FALSE  BY <2>2
      <3>2. b * q <= b * (-1)  BY <2>2, <3>1, Times
      <3>3. QED BY <1>1, <2>2, <2>3, <3>2
    <2>5. QED BY <2>2, <2>3, <2>4
  <1>3. Divide(a, b) = IF a < 0 THEN -q ELSE q
    <2> HIDE DEF q
    <2>1. Divide(a, b) = (IF a < 0 THEN -1 ELSE 1) * 1 * q
      <3>1. (IF a < 0 THEN -1 ELSE 1) * a = n /\ 1 * b = b /\ ~(b < 0)  OBVIOUS
      <3>2. QED BY <3>1 DEF Divide, q
    <2>2. QED BY <1>2, <2>1
  <1> HIDE DEF q
  <1>4. b * (-q) = -(b * q) /\ b * q \in Int  BY <1>2
  <1>5. CASE a < 0  BY <1>2, <1>3, <1>4, <1>5
  <1>6. CASE a > 0  BY <1>2, <1>3, <1>4, <1>6
  <1>7. CASE a = 0
    <2>1. b * q <= 0 /\ q >= 0  BY <1>2, <1>7
    <2>2. q = 0
      <3>1. SUFFICES ASSUME q >= 1 PROVE FALSE  BY <1>2, <2>1
      <3>2. b * 1 <= b * q  BY <1>2, <3>1, Times
      <3>3. QED BY <1>4, <2>1, <3>2
    <2>3. QED BY <1>3, <1>7, <2>2
  <1>8. QED BY <1>5, <1>6, <1>7

(* Sums of a combination of two lines, and of a line that is bounded.       *)
LEMMA TotalOfCombined ==
  ASSUME NEW n \in Nat, NEW f, NEW g, NEW h, NEW k \in {1, -1},
         \A i \in 0..n : f[i] \in Int /\ g[i] \in Int /\ h[i] = f[i] + k * g[i]
  PROVE  Total(h, 0..n) = Total(f, 0..n) + k * Total(g, 0..n)
  <1> DEFINE Bad == {m \in 0..n : Total(h, 0..m) # Total(f, 0..m) + k * Total(g, 0..m)}
  <1>1. ASSUME Bad # {} PROVE FALSE
    <2>1. Bad \in SUBSET Nat  OBVIOUS
    <2>2. PICK m \in Bad : \A l \in Bad : m <= l
      <3> HIDE DEF Bad
      <3>1. QED BY <1>1, <2>1, Smallest
    <2>3. m \in 0..n /\ Total(h, 0..m) # Total(f, 0..m) + k * Total(g, 0..m)  BY <2>2
    <2>4. \A i \in 0..m : /\ f[i] \in Int /\ g[i] \in Int /\ h[i] = f[i] + k * g[i]
                          /\ h[i] \in Int
      BY <2>3
    <2>5. m # 0
      <3>1. SUFFICES ASSUME m = 0 PROVE FALSE  OBVIOUS
      <3>2. Total(f, 0..m) = f[0] /\ Total(g, 0..m) = g[0] /\ Total(h, 0..m) = h[0]
        BY <2>3, <2>4, <3>1, TotalUpTo
      <3>3. h[0] = f[0] + k * g[0]  BY <2>4, <3>1
      <3>4. QED BY <2>3, <3>2, <3>3
    <2>6. m - 1 \in 0..n /\ m - 1 \notin Bad /\ m \in 0..m
      <3> HIDE DEF Bad
      <3>1. ~(m <= m - 1)  BY <2>3
      <3>2. QED BY <2>2, <2>3, <2>5, <3>1
    <2>7. Total(h, 0..(m - 1)) = Total(f, 0..(m - 1)) + k * Total(g, 0..(m - 1))  BY <2>6
    <2>8. /\ Total(f, 0..m) = f[m] + Total(f, 0..(m - 1))
          /\ Total(g, 0..m) = g[m] + Total(g, 0..(m - 1))
          /\ Total(h, 0..m) = h[m] + Total(h, 0..(m - 1))
      BY <2>3, <2>4, <2>5, TotalUpTo
    <2>9. f[m] \in Int /\ g[m] \in Int /\ h[m] = f[m] + k * g[m]  BY <2>4, <2>6
    <2>10. Total(f, 0..(m - 1)) \in Int /\ Total(g, 0..(m - 1)) \in Int
      BY <2>4, <2>6, TotalUpTo
    <2> HIDE DEF Bad
    <2>11. k * Total(g, 0..m) = k * g[m] + k * Total(g, 0..(m - 1))  BY <2>8, <2>9, <2>10
    <2>12. k * g[m] \in Int /\ k * Total(g, 0..(m - 1)) \in Int  BY <2>9, <2>10
    <2>13. QED BY <2>3, <2>7, <2>8, <2>9, <2>10, <2>11, <2>12
  <1>2. n \in 0..n  OBVIOUS
  <1>3. QED BY <1>1, <1>2

LEMMA TotalBounded ==
  ASSUME NEW n \in Nat, NEW f, NEW g, NEW k \in Nat, NEW b \in Nat,
         \A i \in 0..n : f[i] \in Int /\ g[i] \in Int /\ 0 <= f[i] /\ k * f[i] <= b * g[i]
  PROVE  0 <= Total(f, 0..n) /\ k * Total(f, 0..n) <= b * Total(g, 0..n)
  <1> DEFINE Good(m) == 0 <= Total(f, 0..m) /\ k * Total(f, 0..m) <= b * Total(g, 0..m)
             Bad == {m \in 0..n : ~Good(m)}
  <1>1. ASSUME Bad # {} PROVE FALSE
    <2>1. Bad \in SUBSET Nat  OBVIOUS
    <2>2. PICK m \in Bad : \A l \in Bad : m <= l
      <3> HIDE DEF Bad
      <3>1. QED BY <1>1, <2>1, Smallest
    <2>3. m \in 0..n /\ ~Good(m)  BY <2>2
    <2>4. \A i \in 0..m : f[i] \in Int /\ g[i] \in Int /\ 0 <= f[i] /\ k * f[i] <= b * g[i]
      BY <2>3
    <2>5. m # 0
      <3>1. SUFFICES ASSUME m = 0 PROVE FALSE  OBVIOUS
      <3>2. Total(f, 0..m) = f[0] /\ Total(g, 0..m) = g[0]
        BY <2>3, <2>4, <3>1, TotalUpTo
      <3>3. QED BY <2>3, <2>4, <3>1, <3>2
    <2>6. m - 1 \in 0..n /\ m - 1 \notin Bad /\ m \in 0..m
      <3> HIDE DEF Bad
      <3>1. ~(m <= m - 1)  BY <2>3
      <3>2. QED BY <2>2, <2>3, <2>5, <3>1
    <2>7. Good(m - 1)  BY <2>6
    <2>8. /\ Total(f, 0..m) = f[m] + Total(f, 0..(m - 1))
          /\ Total(g, 0..m) = g[m] + Total(g, 0..(m - 1))
      BY <2>3, <2>4, <2>5, TotalUpTo
    <2>9. f[m] \in Int /\ g[m] \in Int /\ 0 <= f[m] /\ k * f[m] <= b * g[m]  BY <2>4, <2>6
    <2>10. Total(f, 0..(m - 1)) \in Int /\ Total(g, 0..(m - 1)) \in Int
      BY <2>4, <2>6, TotalUpTo
    <2> HIDE DEF Bad
    <2>11. /\ k * Total(f, 0..m) = k * f[m] + k * Total(f, 0..(m - 1))
           /\ b * Total(g, 0..m) = b * g[m] + b * Total(g, 0..(m - 1))
      BY <2>8, <2>9, <2>10
    <2>12. /\ k * f[m] \in Int /\ k * Total(f, 0..(m - 1)) \in Int
           /\ b * g[m] \in Int /\ b * Total(g, 0..(m - 1)) \in Int
      BY <2>9, <2>10
    <2>13. 0 <= Total(f, 0..m)  BY <2>7, <2>8, <2>9, <2>10
    <2>14. k * Total(f, 0..m) <= b * Total(g, 0..m)
      <3>1. k * Total(f, 0..(m - 1)) <= b * Total(g, 0..(m - 1))  BY <2>7
      <3> HIDE DEF Good
      <3>2. QED BY <2>9, <2>11, <2>12, <3>1
    <2>15. QED BY <2>3, <2>13, <2>14
  <1>2. n \in 0..n  OBVIOUS
  <1>3. QED BY <1>1, <1>2

(* A value that fits is stored as it is.                                    *)
LEMMA StoredFits ==
  ASSUME NEW v \in T
  PROVE  Stored(v) = v
  <1>1. v \in Int /\ Half \in Int  BY Widths
  <1>2. v = v + (2 * Half) * 0  BY <1>1
  <1>3. QED BY <1>1, <1>2, StoredOnce

(* The power after a step, as a sum over the new line.                      *)
LEMMA NewPower ==
  ASSUME FilterTypeOK, NEW x \in T, NEW dNxt \in T, Step(x, dNxt),
         taps > 1, PowerOfLine
  PROVE  pow' = Stored(Epsilon + Dot(x_hat', x_hat'))
  <1>1. taps' = taps /\ taps \in TapCounts /\ Indices' = Indices
    BY DEF Step, class, FilterTypeOK, Indices
  <1>2. x_hat' \in [Indices -> Int]
    <2>1. x_hat' = [i \in Indices |-> IF i = 0 THEN x ELSE x_hat[i - 1]]
      BY DEF Step, ComputeNext, Shifted
    <2>2. x \in Int /\ x_hat \in [Indices -> Int]  BY Widths, FilterIntegers
    <2>3. QED BY <1>1, <2>1, <2>2, ShiftedIs
  <1>3. (Dot(x_hat, x_hat))' = Total(Products(x_hat, x_hat)', Indices)
    <2>1. (taps \in TapCounts /\ x_hat \in [Indices -> Int] =>
             /\ Dot(x_hat, x_hat) = Total(Products(x_hat, x_hat), Indices)
             /\ Dot(x_hat, x_hat) \in Int)'
      BY PowerIs, PTL
    <2>2. QED BY <1>1, <1>2, <2>1 DEF Total, IsSum, One
  <1>4. Products(x_hat, x_hat)' = Products(x_hat', x_hat')
    BY <1>1 DEF Products
  <1>5. Dot(x_hat', x_hat') = Total(Products(x_hat', x_hat'), Indices)
    BY <1>1, <1>2, DotIs
  <1>6. PowerOfLine'  BY StepPower
  <1>7. pow' = Stored(Epsilon + (Dot(x_hat, x_hat))')
    BY <1>6 DEF PowerOfLine, Stored
  <1>8. QED BY <1>3, <1>4, <1>5, <1>7

LEMMA AbsIs ==
  ASSUME NEW v \in Int
  PROVE  Abs(v) \in Nat /\ -Abs(v) <= v /\ v <= Abs(v)
         /\ (v >= 0 => Abs(v) = v) /\ (v <= 0 => Abs(v) = -v)
  BY DEF Abs

(* One tap: what is added to it, c, goes in the direction of the error and  *)
(* its part of the new estimate is at most its share.  D is the divisor, s  *)
(* the step size, e the error and x the sample of the tap.                  *)
LEMMA TapChange ==
  ASSUME NEW D \in Nat \ {0}, NEW s \in Nat, NEW e \in Int, NEW x \in Int, NEW k \in {1, -1},
         k * e = Abs(e), NEW c \in Int,
         s * e * x >= 0 => 0 <= c /\ D * c <= s * e * x,
         s * e * x <= 0 => c <= 0 /\ s * e * x <= D * c
  PROVE  0 <= k * (c * x) /\ D * (k * (c * x)) <= (s * Abs(e)) * (x * x)
         /\ Abs(c) <= Abs(s * e * x)
  <1> DEFINE m == s * Abs(e)
             u == k * x
             t == s * e * x
  <1>1. m \in Nat /\ u \in Int /\ t \in Int  BY AbsIs
  <1>2. t = m * u
    <2>1. Abs(e) \in Int /\ k * k = 1  BY AbsIs
    <2>2. m * u = s * (k * e) * (k * x)  OBVIOUS
    <2>3. s * (k * e) * (k * x) = s * e * x  OBVIOUS
    <2>4. QED BY <2>2, <2>3
  <1>3. k * (c * x) = c * u /\ x * x = u * u  OBVIOUS
  <1>4. (t >= 0 => 0 <= c /\ D * c <= t) /\ (t <= 0 => c <= 0 /\ t <= D * c)  OBVIOUS
  <1> HIDE DEF m, u, t
  <1>5. CASE u >= 0
    <2>1. t >= 0 /\ 0 <= c /\ D * c <= m * u  BY <1>1, <1>2, <1>4, <1>5
    <2>2. 0 <= c * u  BY <1>1, <1>5, <2>1
    <2>3. u * (D * c) <= u * (m * u)
      <3>1. D * c \in Int /\ m * u \in Int /\ u \in Nat  BY <1>1, <1>5
      <3>2. QED BY <2>1, <3>1, Times
    <2>4. D * (c * u) <= m * (u * u)
      <3>1. D * (c * u) = u * (D * c) /\ m * (u * u) = u * (m * u)  BY <1>1
      <3>2. QED BY <2>3, <3>1
    <2>5. c <= D * c  BY <2>1
    <2>6. QED BY <1>1, <1>2, <1>3, <2>1, <2>2, <2>4, <2>5 DEF Abs, m, t
  <1>6. CASE u < 0
    <2>1. t <= 0 /\ c <= 0 /\ m * u <= D * c
      <3>1. m * u <= 0  BY <1>1, <1>6
      <3>2. QED BY <1>1, <1>2, <1>4, <3>1
    <2>2. 0 <= c * u  BY <1>1, <1>6, <2>1
    <2>3. (-u) * (m * u) <= (-u) * (D * c)
      <3>1. D * c \in Int /\ m * u \in Int /\ -u \in Nat  BY <1>1, <1>6
      <3>2. QED BY <2>1, <3>1, Times
    <2>4. D * (c * u) <= m * (u * u)
      <3>1. D * (c * u) = -((-u) * (D * c)) /\ m * (u * u) = -((-u) * (m * u))  BY <1>1
      <3>2. (-u) * (D * c) \in Int /\ (-u) * (m * u) \in Int  BY <1>1
      <3>3. QED BY <2>3, <3>1, <3>2
    <2>5. D * c <= c  BY <2>1
    <2>6. QED BY <1>1, <1>2, <1>3, <2>1, <2>2, <2>4, <2>5 DEF Abs, m, t
  <1>7. QED BY <1>1, <1>5, <1>6

(* One tap is changed by c, which has not overflowed.                       *)
LEMMA TapUpdate ==
  ASSUME FilterTypeOK, NEW x \in T, NEW dNxt \in T, Step(x, dNxt),
         (taps > 1 /\ PowerOfLine) \/ ~normalised, Adapts,
         NEW D \in Nat \ {0},
         D = IF normalised THEN Epsilon + Dot(x_hat', x_hat') ELSE 1,
         D \in T, NEW i \in Indices,
         x_hat'[i] \in Int, err' \in Int, stepSize \in Nat, h_hat[i] \in Int
  PROVE  \E c \in Int :
           /\ h_hat'[i] = h_hat[i] + c
           /\ stepSize * err' * x_hat'[i] >= 0 => 0 <= c /\ D * c <= stepSize * err' * x_hat'[i]
           /\ stepSize * err' * x_hat'[i] <= 0 => c <= 0 /\ stepSize * err' * x_hat'[i] <= D * c
  <1> DEFINE t == stepSize * err' * x_hat'[i]
             estimator == Stored(stepSize * err')
             delta == Stored(estimator * x_hat'[i])
             c == IF normalised THEN Divide(t, D) ELSE t
  <1>1. /\ t \in T /\ stepSize * err' \in T
        /\ Abs(h_hat[i]) + Abs(t) \in T
    BY DEF Adapts
  <1>2. estimator = stepSize * err'  BY <1>1, StoredFits
  <1>3. delta = t  BY <1>1, <1>2, StoredFits
  <1>4. h_hat'[i] = Stored(h_hat[i] + (IF normalised THEN Normalise(delta) ELSE delta))
    BY DEF Step, UpdateFilter
  <1> HIDE DEF estimator, delta
  <1>5. t \in Int  BY <1>1, Widths
  <1>6. /\ c \in Int
        /\ t >= 0 => 0 <= c /\ D * c <= t
        /\ t <= 0 => c <= 0 /\ t <= D * c
    <2> HIDE DEF t
    <2>1. CASE normalised  BY <1>5, <2>1, DivideBetween
    <2>2. CASE ~normalised
      <3>1. D = 1 /\ c = t  BY <2>2
      <3>2. QED BY <1>5, <3>1
    <2>3. QED BY <2>1, <2>2
  <1> DEFINE a == Abs(h_hat[i])
             b == Abs(t)
  <1>7. a + b <= Half - 1 /\ a \in Nat /\ b \in Nat /\ Half \in Nat
        /\ -a <= h_hat[i] /\ h_hat[i] <= a /\ -b <= t /\ t <= b
        /\ (t >= 0 => b = t) /\ (t <= 0 => b = -t)
    BY <1>1, <1>5, AbsIs, Widths DEF T
  <1>8. -b <= c /\ c <= b
    <2> HIDE DEF a, b, t, c
    <2>1. CASE t >= 0
      <3>1. 0 <= c /\ D * c <= t /\ b = t  BY <1>6, <1>7, <2>1
      <3>2. c <= D * c  BY <1>6, <3>1
      <3>3. QED BY <1>5, <1>6, <1>7, <3>1, <3>2
    <2>2. CASE t <= 0
      <3>1. c <= 0 /\ t <= D * c /\ b = -t  BY <1>6, <1>7, <2>2
      <3>2. D * c <= c  BY <1>6, <3>1
      <3>3. QED BY <1>5, <1>6, <1>7, <3>1, <3>2
    <2>3. QED BY <1>5, <2>1, <2>2
  <1>9. c \in T /\ h_hat[i] + c \in T
    <2> HIDE DEF a, b, t, c
    <2>1. QED BY <1>6, <1>7, <1>8 DEF T
  <1>10. (IF normalised THEN Normalise(delta) ELSE delta) = c
    <2>1. CASE normalised
      <3>1. pow' = D
        <4>1. pow' = Stored(Epsilon + Dot(x_hat', x_hat'))  BY <2>1, NewPower
        <4>2. QED BY <2>1, <4>1, StoredFits
      <3>2. Normalise(delta) = Stored(Divide(t, D))
        BY <1>3, <3>1 DEF Normalise
      <3>3. Divide(t, D) = c  BY <2>1
      <3> HIDE DEF c
      <3>4. Normalise(delta) = c  BY <1>9, <3>2, <3>3, StoredFits
      <3>5. QED BY <2>1, <3>4
    <2>2. CASE ~normalised
      BY <1>3, <2>2
    <2>3. QED BY <2>1, <2>2
  <1> HIDE DEF c
  <1>11. h_hat'[i] = h_hat[i] + c  BY <1>4, <1>9, <1>10, StoredFits
  <1>12. QED BY <1>6, <1>11

LEMMA StepImproves ==
  ASSUME FilterTypeOK, NEW x \in T, NEW dNxt \in T, Step(x, dNxt),
         (taps > 1 /\ PowerOfLine) \/ ~normalised, Adapts
  PROVE  Abs(d' - Dot(h_hat', x_hat')) <= Abs(err')
  <1> DEFINE energy == Dot(x_hat', x_hat')
             D == IF normalised THEN Epsilon + energy ELSE 1
             S == Indices
             e == err'
             k == IF e < 0 THEN -1 ELSE 1
             m == stepSize * Abs(e)
  <1>1. taps' = taps /\ taps \in TapCounts /\ Indices' = Indices
    BY DEF Step, class, FilterTypeOK, Indices
  <1>2. FilterTypeOK'  BY StepTypes
  <1>3. x_hat' \in [S -> Int] /\ h_hat' \in [S -> Int] /\ e \in Int /\ dNxt \in Int
    <2>1. x_hat' \in [S -> T] /\ h_hat' \in [S -> T] /\ err' \in T
      BY <1>1, <1>2 DEF FilterTypeOK, T
    <2>2. QED BY <2>1, Widths
  <1>4. h_hat \in [S -> Int] /\ stepSize \in Int  BY FilterIntegers
  <1>5. taps - 1 \in Nat /\ S = 0..(taps - 1)
    BY <1>1, IndicesAre DEF Indices
  <1>6. energy \in Int /\ Dot(h_hat, x_hat') \in Int /\ Dot(h_hat', x_hat') \in Int
    BY <1>1, <1>3, <1>4, DotIs
  <1>7. /\ D > 0 /\ D \in T /\ stepSize >= 0 /\ stepSize * energy <= 2 * D
        /\ d' - Dot(h_hat, x_hat') \in T
    BY DEF Adapts
  <1>8. D \in Nat \ {0} /\ stepSize \in Nat
    <2> HIDE DEF D, energy
    <2>1. D \in Int  BY <1>7, Widths
    <2>2. QED BY <1>4, <1>7, <2>1
  <1>9. d' = dNxt /\ e = d' - Dot(h_hat, x_hat')
    <2>1. d' = dNxt /\ e = Stored(dNxt - Dot(h_hat, x_hat'))
      BY DEF Step, ComputeNext
    <2>2. QED BY <1>7, <2>1, StoredFits
  <1>10. k \in {1, -1} /\ k * e = Abs(e) /\ Abs(e) \in Nat /\ m \in Nat
    <2> HIDE DEF D, energy
    <2>1. k \in {1, -1} /\ k * e = Abs(e)
      <3> HIDE DEF e
      <3>1. CASE e < 0
        <4>1. k = -1 /\ Abs(e) = -e  BY <3>1 DEF Abs
        <4>2. QED BY <1>3, <4>1
      <3>2. CASE ~(e < 0)
        <4>1. k = 1 /\ Abs(e) = e  BY <3>2 DEF Abs
        <4>2. QED BY <1>3, <4>1
      <3>3. QED BY <3>1, <3>2
    <2>2. Abs(e) \in Nat  BY <1>3, AbsIs
    <2>3. m \in Nat  BY <1>8, <2>2
    <2>4. QED BY <2>1, <2>2, <2>3
  <1> DEFINE c == [i \in S |-> h_hat'[i] - h_hat[i]]
             f == Products(h_hat, x_hat')
             h == Products(h_hat', x_hat')
             g == Products(x_hat', x_hat')
             p == [i \in S |-> k * (c[i] * x_hat'[i])]
  <1>11. ASSUME NEW i \in S
         PROVE  /\ c[i] \in Int /\ f[i] \in Int /\ p[i] \in Int /\ g[i] \in Int
                /\ h[i] = f[i] + k * p[i]
                /\ 0 <= p[i] /\ D * p[i] <= m * g[i]
    <2>1. x_hat'[i] \in Int /\ h_hat[i] \in Int /\ h_hat'[i] \in Int  BY <1>3, <1>4
    <2>2. PICK q \in Int :
           /\ h_hat'[i] = h_hat[i] + q
           /\ stepSize * err' * x_hat'[i] >= 0 => 0 <= q /\ D * q <= stepSize * err' * x_hat'[i]
           /\ stepSize * err' * x_hat'[i] <= 0 => q <= 0 /\ stepSize * err' * x_hat'[i] <= D * q
      <3> HIDE DEF k, m, c, f, h, g, p
      <3>1. D = IF normalised THEN Epsilon + Dot(x_hat', x_hat') ELSE 1  OBVIOUS
      <3> HIDE DEF D
      <3>2. QED BY <1>3, <1>7, <1>8, <2>1, <3>1, TapUpdate
    <2>3. c[i] = q  BY <2>1, <2>2
    <2>4. 0 <= k * (q * x_hat'[i]) /\ D * (k * (q * x_hat'[i])) <= m * (x_hat'[i] * x_hat'[i])
      <3> HIDE DEF D, k, c
      <3>1. QED BY <1>3, <1>8, <1>10, <2>1, <2>2, TapChange
    <2>5. p[i] = k * (q * x_hat'[i]) /\ g[i] = x_hat'[i] * x_hat'[i]
          /\ f[i] = h_hat[i] * x_hat'[i] /\ h[i] = (h_hat[i] + q) * x_hat'[i]
      BY <2>2, <2>3 DEF Products
    <2> HIDE DEF D, k, c, f, h, g, p, m
    <2>6. h_hat[i] * x_hat'[i] \in Int /\ q * x_hat'[i] \in Int /\ x_hat'[i] * x_hat'[i] \in Int
      BY <2>1
    <2>7. k * (k * (q * x_hat'[i])) = q * x_hat'[i]  BY <1>10, <2>6
    <2>8. (h_hat[i] + q) * x_hat'[i] = h_hat[i] * x_hat'[i] + q * x_hat'[i]  BY <2>1
    <2>9. k * (q * x_hat'[i]) \in Int  BY <1>10, <2>6
    <2>10. QED BY <2>3, <2>4, <2>5, <2>6, <2>7, <2>8, <2>9
  <1>12. /\ Dot(h_hat, x_hat') = Total(f, S) /\ Dot(h_hat', x_hat') = Total(h, S)
         /\ energy = Total(g, S)
    BY <1>1, <1>3, <1>4, DotIs
  <1> HIDE DEF f, h, g, p, c, m, k, D, energy
  <1> DEFINE P == Total(p, S)
  <1>13. P \in Int  BY <1>5, <1>11, TotalUpTo
  <1>14. Total(h, S) = Total(f, S) + k * P
    <2>1. \A i \in 0..(taps - 1) : f[i] \in Int /\ p[i] \in Int /\ h[i] = f[i] + k * p[i]
      BY <1>5, <1>11
    <2> DEFINE n == taps - 1
    <2>2. n \in Nat /\ k \in {1, -1}  BY <1>5, <1>10
    <2>3. \A i \in 0..n : f[i] \in Int /\ p[i] \in Int /\ h[i] = f[i] + k * p[i]  BY <2>1
    <2> HIDE DEF n, S
    <2>4. Total(h, 0..n) = Total(f, 0..n) + k * Total(p, 0..n)
      BY <2>2, <2>3, TotalOfCombined
    <2>5. QED BY <1>5, <2>4 DEF n
  <1>15. 0 <= P /\ D * P <= m * energy
    BY <1>5, <1>8, <1>10, <1>11, <1>12, TotalBounded
  <1> HIDE DEF P
  <1> DEFINE A == Abs(e)
  <1>16. P <= 2 * A
    <2>1. m * energy = A * (stepSize * energy)  BY <1>6, <1>8, <1>10 DEF m
    <2>2. stepSize * energy \in Int /\ 2 * D \in Int  BY <1>6, <1>8
    <2>3. A * (stepSize * energy) <= A * (2 * D)
      <3> HIDE DEF A
      <3>1. A \in Nat  BY <1>10 DEF A
      <3>2. QED BY <1>7, <2>2, <3>1, Times
    <2>4. A * (2 * D) = D * (2 * A)  BY <1>8, <1>10
    <2> HIDE DEF A
    <2>5. D * P \in Int /\ m * energy \in Int /\ A * (2 * D) \in Int /\ 2 * A \in Int
      BY <1>6, <1>8, <1>10, <1>13 DEF A
    <2>6. D * P <= D * (2 * A)  BY <1>15, <2>1, <2>3, <2>4, <2>5
    <2>7. QED BY <1>8, <1>13, <2>5, <2>6, Cancel
  <1>17. d' - Dot(h_hat', x_hat') = e - k * P
    <2>1. Dot(h_hat', x_hat') = Dot(h_hat, x_hat') + k * P  BY <1>12, <1>14
    <2>2. k * P \in Int  BY <1>10, <1>13
    <2>3. QED BY <1>3, <1>6, <1>9, <2>1, <2>2
  <1>18. Abs(e - k * P) <= A
    <2> HIDE DEF A, e
    <2>3. A \in Nat /\ k * e = A  BY <1>10 DEF A
    <2>1. CASE k = 1
      <3>1. e = A /\ k * P = P  BY <1>3, <1>13, <2>1, <2>3
      <3>2. e - k * P \in Int /\ -A <= e - k * P /\ e - k * P <= A
        BY <1>13, <1>15, <1>16, <2>3, <3>1
      <3>3. QED BY <2>3, <3>2 DEF Abs
    <2>2. CASE k = -1
      <3>1. e = -A /\ k * P = -P  BY <1>3, <1>13, <2>2, <2>3
      <3>2. e - k * P \in Int /\ -A <= e - k * P /\ e - k * P <= A
        BY <1>13, <1>15, <1>16, <2>3, <3>1
      <3>3. QED BY <2>3, <3>2 DEF Abs
    <2>4. QED BY <1>10, <2>1, <2>2
  <1>19. QED BY <1>17, <1>18

(* No filter that is not normalised, and no filter of more than one tap,    *)
(* ever moves away from a sample where its step size allows it to adapt: for *)
(* every width of T, number of taps and input (lms.h:92-121).               *)
THEOREM UpdatesImprove == FilterSpec /\ (taps > 1 \/ ~normalised) => UpdateImproves
  <1> DEFINE Inv == FilterTypeOK /\ ((taps > 1 /\ PowerOfLine) \/ ~normalised)
             Improves == h_hat' # h_hat /\ Adapts =>
                           Abs(d' - Dot(h_hat', x_hat')) <= Abs(err')
  <1>1. FilterInit /\ (taps > 1 \/ ~normalised) => Inv  BY InitFilterTypes, InitPower
  <1>2. Inv /\ [FilterNext]_filterVars => Inv' /\ Improves
    <2> SUFFICES ASSUME Inv, [FilterNext]_filterVars PROVE Inv' /\ Improves
      OBVIOUS
    <2>1. CASE \E x, dNxt \in T : Step(x, dNxt)
      <3>1. PICK x \in T, dNxt \in T : Step(x, dNxt)  BY <2>1
      <3>2. taps' = taps /\ normalised' = normalised  BY <3>1 DEF Step, class
      <3>3. FilterTypeOK'  BY <3>1, StepTypes
      <3>4. taps > 1 /\ PowerOfLine => PowerOfLine'  BY <3>1, StepPower
      <3>5. Improves  BY <3>1, StepImproves
      <3>6. QED BY <3>2, <3>3, <3>4, <3>5
    <2>2. CASE /\ UNCHANGED <<taps, normalised, err, pow, d, x_hat, h_hat, inputs>>
               /\ stepSize' \in {stepSize, StepSize}
      <3>1. FilterTypeOK'  BY <2>2, SameTypes
      <3>2. PowerOfLine => PowerOfLine'
        BY <2>2 DEF PowerOfLine, Dot, MapThenSumSet, MapThenFoldSet,
                    Indices, Stored
      <3>3. QED BY <2>2, <3>1, <3>2
    <2>3. QED
      BY <2>1, <2>2, FilterMoves
  <1>3. QED BY <1>1, <1>2, PTL DEF FilterSpec, UpdateImproves
===============================================================================
