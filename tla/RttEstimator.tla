---------------------------- MODULE RttEstimator ----------------------------
(***************************************************************************)
(* The timer of deliver.c: an estimate of the round trip and of its        *)
(* deviation, in ticks of clock(), a millionth of a second each, and the   *)
(* receive timer made from them after every fragment.  The code computes   *)
(* in doubles and stores whole ticks; on these values that is exact        *)
(* arithmetic followed by a division that drops the remainder.             *)
(***************************************************************************)
EXTENDS Integers

CONSTANTS MinSample, MaxSample  \* the shortest and the longest round trip

ASSUME SamplesAssumption ==
  /\ MinSample \in Nat /\ MaxSample \in Nat
  /\ MinSample <= MaxSample

VARIABLES
  estimatedRTT,
  devRTT,
  tv_usec       \* timeout.tv_usec; as SO_RCVTIMEO, 0 means no timer

timerVars == <<estimatedRTT, devRTT, tv_usec>>

Sample == MinSample .. MaxSample
FirstTimer == 999999

TimerTyped ==
  /\ estimatedRTT \in Nat
  /\ devRTT \in Nat
  /\ tv_usec \in Nat

\* From the round trip of "ftp", clocked by the user's CPU time.
InitTimer ==
  \E sample \in Sample :
    /\ estimatedRTT = 2 * sample
    /\ devRTT = sample
    /\ tv_usec = FirstTimer

\* abs()
Distance(a, b) == IF a < b THEN b - a ELSE a - b

\* Each product cut to a whole number before they are added.
EstimateMutant(sample) == (7 * estimatedRTT) \div 8 + sample \div 8

Estimate(sample) == (7 * estimatedRTT + sample) \div 8

Deviation(sample, estimate) == (3 * devRTT + Distance(sample, estimate)) \div 4

\* After an acknowledgement, and after a timeout as well.
AdjustTimer ==
  \E sample \in Sample :
    /\ estimatedRTT' = Estimate(sample)
    /\ devRTT' = Deviation(sample, estimatedRTT')
    /\ tv_usec' = estimatedRTT' + 4 * devRTT'

TimerSpec == InitTimer /\ [][AdjustTimer]_timerVars

-----------------------------------------------------------------------------

\* The timer stays between the shortest round trip and ten times the longest
\* one.  So it is never 0, which would switch it off, if every sample is at least a
\* tick, and never a million, which setsockopt() refuses, if every sample is less
\* than a tenth of a second (deliver.c:208-217).
TimerInBounds ==
  tv_usec # FirstTimer => MinSample <= tv_usec /\ tv_usec <= 10 * MaxSample

=============================================================================
