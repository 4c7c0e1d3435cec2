---------------------------- MODULE ZoneHistory ----------------------------
(***************************************************************************)
(* ZoneSignal with an observer who sees the raw results only: their age    *)
(* and what they said, with none of the smoothing and in unbounded time.   *)
(***************************************************************************)
EXTENDS ZoneSignal

CONSTANT Oldest  \* the observer stops counting milliseconds here

ASSUME OldestAssumption == Oldest \in Nat /\ StaleMs < Oldest

VARIABLES
  recent,    \* the last SamplingSize + 1 distances since the field was lost
  age,       \* milliseconds since the last valid result
  rejected   \* a result was rejected since

history == <<recent, age, rejected>>
hvars == <<vars, history>>

Sooner(a, b) == IF a < b THEN a ELSE b
Latest(seq, n) == IF Len(seq) > n THEN Tail(seq) ELSE seq

Lost == debounce' = NoDebounce /\ ~active'

SeeResult(distance) ==
  /\ recent' = IF Lost THEN <<>> ELSE Latest(Append(recent, distance), SamplingSize + 1)
  /\ age' = 0 /\ rejected' = FALSE

SeeNone(step, rejection) ==
  /\ recent' = IF Lost THEN <<>> ELSE recent
  /\ age' = Sooner(age + step, Oldest)
  /\ rejected' = (rejected \/ rejection)

SeePowerCycle == recent' = <<>> /\ age' = Oldest /\ rejected' = FALSE

HInit == Init /\ recent = <<>> /\ age = Oldest /\ rejected = FALSE

HResult(distance, step, lost) == Result(distance, step, lost) /\ SeeResult(distance)
HRejection(optical, step, lost) == Rejection(optical, step, lost) /\ SeeNone(step, TRUE)
HNothing(step, lost) == Nothing(step, lost) /\ SeeNone(step, FALSE)
HPowerCycle(step) == PowerCycle(step) /\ SeePowerCycle

HNext ==
  \E step \in Steps :
    \/ \E lost \in BOOLEAN :
         \/ \E distance \in Distances : HResult(distance, step, lost)
         \/ \E optical \in BOOLEAN : HRejection(optical, step, lost)
         \/ HNothing(step, lost)
    \/ HPowerCycle(step)

HSpec == HInit /\ [][HNext]_hvars

-----------------------------------------------------------------------------
\* Raw results that speak for a field being occupied, and for it being empty.
Present(distance) == Baseline - distance > ReleaseDelta
Absent(distance) == Baseline - distance < TriggerDelta

\* What the filter may hold, and that it shows somebody, or nobody, only together
\* with a result that says so: wide deltas on a short baseline.
Held == {held \in 0 .. NAN : \E distance \in Distances : held <= Clipped(distance)}
SmoothingIsWeak ==
  \A held \in Held, distance \in Distances :
    LET drop == Baseline - Smooth(held, Clipped(distance))
    IN /\ drop >= TriggerDelta => Present(distance)
       /\ drop <= ReleaseDelta => Absent(distance)

Confirming(seq, P(_)) == {i \in DOMAIN seq : P(seq[i])}
AtLeastTwo(S) == \E i, j \in S : i # j

\* "Debounce requires at least two new confirming measurements" (translated from
\* Documents/COUNTING_ROBUSTNESS.md): a field becomes occupied on two recent
\* results that show somebody, and empty on two that show nobody, both taken
\* since the field was last lost.
TwoMeasurements ==
  [][ /\ (~active /\ active') => AtLeastTwo(Confirming(recent', Present))
      /\ (active /\ ~active' /\ ~Lost) => AtLeastTwo(Confirming(recent', Absent)) ]_hvars

\* With a window of three or more, a field changes side only while two results in
\* the window say so, those from before the field was lost included: one outlier,
\* which stays in the window for as many results, never counts twice.
OutlierCountsOnce ==
  [][ /\ (~active /\ active') => AtLeastTwo(Confirming(samples', Present))
      /\ (active /\ ~active' /\ ~Lost) => AtLeastTwo(Confirming(samples', Absent)) ]_hvars

\* Nobody is seen on old evidence: a field is occupied only while its last valid
\* result is recent, and once a result was rejected only for the hold time.
NoGhostPresence ==
  active => age <= StaleMs /\ (rejected => age <= HoldMs)
=============================================================================
