----------------------------- MODULE ZoneSignal -----------------------------
(***************************************************************************)
(* One ranging zone of one sensor: from a range result to "somebody is in  *)
(* this field".  A result passes the window and the smoothing of           *)
(* read_channel_, the thresholds and the debounce of update_sensor_states_,*)
(* and the hold that bridges an optical dropout.  One step is one pass of  *)
(* TofOverdoorCounter::update() with at most one new result of the zone.   *)
(*                                                                         *)
(* The zone is calibrated and its baseline stands still.  Smoothing is in  *)
(* whole millimetres.                                                      *)
(***************************************************************************)
EXTENDS CountingCore, SequencesExt

CONSTANTS
  SamplingSize,   \* sampling_size_, 1 .. 8
  Baseline,       \* calibrated distance of the empty field, mm
  TriggerDelta,   \* adaptive_trigger_delta_
  ReleaseDelta,   \* adaptive_release_delta_
  CoverDistance,  \* COVER_DISTANCE_MM
  MinDistance,    \* MIN_LOGIC_DISTANCE_MM
  DebounceMs, HoldMs, StaleMs, BlockedMs,
  Distances,      \* the valid range results
  Steps           \* milliseconds between two passes

ASSUME ZoneSignalAssumption ==
  /\ SamplingSize \in 1 .. 8
  /\ {Baseline, TriggerDelta, ReleaseDelta, CoverDistance, MinDistance} \subseteq Nat
  /\ ReleaseDelta < TriggerDelta /\ TriggerDelta <= Baseline /\ MinDistance <= Baseline
  /\ {DebounceMs, HoldMs, StaleMs, BlockedMs} \subseteq Time
  /\ HoldMs <= StaleMs
  /\ Distances \subseteq 0 .. Baseline + Baseline - 1

\* No pass lasts nearly as long as the clock takes to wrap, 49 days.
ASSUME PassAssumption == Steps \subseteq Time /\ \A step \in Steps : StaleMs + step < Modulus

VARIABLES
  now,
  samples,      \* the last SamplingSize valid distances, oldest first
  filtered,     \* filtered_distance, NAN before the first
  valid,        \* valid_measurement: the last result was valid
  dropout,      \* range_status of the last result names an optical failure
  last_good,    \* last_good_read_ms, 0 for never
  debounce, active,
  near_pending, near_since, blocked

zone == <<samples, filtered, valid, dropout, last_good, debounce, active,
          near_pending, near_since, blocked>>
vars == <<now, zone>>

NAN == Baseline + Baseline

-----------------------------------------------------------------------------
(* read_channel_: window and smoothing.                                    *)

Clipped(distance) == IF distance < MinDistance THEN MinDistance ELSE distance

Window(distance) ==
  LET all == Append(samples, Clipped(distance))
  IN IF Len(all) > SamplingSize THEN Tail(all) ELSE all

\* Mutant: the window gives the nearest of its distances.
SampledNearest(w) == CHOOSE distance \in Range(w) : \A other \in Range(w) : distance <= other

\* sorted[sample_count / 2]: the median, or of two middle values the larger.
Sampled(w) ==
  CHOOSE distance \in Range(w) :
    /\ Cardinality({i \in DOMAIN w : w[i] < distance}) <= Len(w) \div 2
    /\ Cardinality({i \in DOMAIN w : w[i] <= distance}) > Len(w) \div 2

\* FILTER_ALPHA = 0.85
Smooth(held, distance) == (3 * held + 17 * distance) \div 20
Smoothed(w) == IF filtered = NAN THEN Sampled(w) ELSE Smooth(filtered, Sampled(w))

ReadValid(distance) ==
  /\ samples' = Window(distance)
  /\ filtered' = Smoothed(samples')
  /\ valid' = TRUE /\ dropout' = FALSE
  /\ last_good' = now'

\* A result the sensor itself doubts; optical says in which of the two ways.
ReadRejected(optical) ==
  valid' = FALSE /\ dropout' = optical /\ UNCHANGED <<samples, filtered, last_good>>

ReadNothing == UNCHANGED <<samples, filtered, valid, dropout, last_good>>

-----------------------------------------------------------------------------
(* update_sensor_states_, for this zone, over what was read.               *)

\* Mutant: an optical dropout is bridged without a limit.
UsableForever == valid' \/ (active /\ dropout')

\* zone_measurement_usable_
Usable == valid' \/ (active /\ dropout' /\ last_good' # 0 /\ Elapsed(last_good', now') <= HoldMs)

Stale == last_good' = 0 \/ Elapsed(last_good', now') > StaleMs

\* drop is measured from the baseline; leaving needs a smaller one than entering.
Target ==
  \/ active /\ Baseline - filtered' > ReleaseDelta
  \/ ~active /\ Baseline - filtered' >= TriggerDelta

\* Mutant: a field that is lost stays marked as covered.
WipeButCover ==
  /\ debounce' = NoDebounce /\ active' = FALSE
  /\ near_pending' = FALSE
  /\ UNCHANGED <<near_since, blocked>>

Wipe ==
  /\ debounce' = NoDebounce /\ active' = FALSE
  /\ near_pending' = FALSE /\ blocked' = FALSE
  /\ UNCHANGED near_since

Hold == UNCHANGED <<debounce, active, near_pending, near_since, blocked>>

\* A covered field is one with a very near target for long enough.
Cover(distance) ==
  LET near == active' /\ distance <= CoverDistance
  IN /\ near_pending' = near
     /\ near_since' = IF near /\ ~near_pending THEN now' ELSE near_since
     /\ blocked' = (near /\ Elapsed(near_since', now') >= BlockedMs)

Decide(distance, sample_started) ==
  /\ debounce' = Debounced(debounce, Target, now', DebounceMs, sample_started)
  /\ active' = debounce'.active
  /\ Cover(distance)

-----------------------------------------------------------------------------
(* One pass; lost says that the channel is unusable for another reason: its*)
(* other zone is stale.                                                    *)

Pass(step) == now' = Later(now, step)

Result(distance, step, lost) ==
  /\ Pass(step)
  /\ ReadValid(distance)
  /\ IF lost \/ Stale THEN Wipe ELSE Decide(distance, now)

Rejection(optical, step, lost) ==
  /\ Pass(step)
  /\ ReadRejected(optical)
  /\ IF lost \/ Stale \/ ~Usable THEN Wipe ELSE Hold

Nothing(step, lost) ==
  /\ Pass(step)
  /\ ReadNothing
  /\ IF lost \/ Stale \/ ~Usable THEN Wipe ELSE Hold

\* service_recovery_ cuts the power: the zone starts over, calibration kept.
PowerCycle(step) ==
  /\ Pass(step)
  /\ samples' = <<>> /\ filtered' = NAN
  /\ valid' = FALSE /\ dropout' = FALSE /\ last_good' = 0
  /\ debounce' = NoDebounce /\ active' = FALSE
  /\ near_pending' = FALSE /\ near_since' = 0 /\ blocked' = FALSE

Init ==
  /\ now \in Time
  /\ samples = <<>> /\ filtered = NAN
  /\ valid = FALSE /\ dropout = FALSE /\ last_good = 0
  /\ debounce = NoDebounce /\ active = FALSE
  /\ near_pending = FALSE /\ near_since = 0 /\ blocked = FALSE

Next ==
  \E step \in Steps :
    \/ \E lost \in BOOLEAN :
         \/ \E distance \in Distances : Result(distance, step, lost)
         \/ \E optical \in BOOLEAN : Rejection(optical, step, lost)
         \/ Nothing(step, lost)
    \/ PowerCycle(step)

Spec == Init /\ [][Next]_vars

-----------------------------------------------------------------------------
\* A field reported as covered is an occupied field.
CoveredIsOccupied == blocked => active /\ near_pending
=============================================================================
