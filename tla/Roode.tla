------------------------------- MODULE Roode -------------------------------
(***************************************************************************)
(* The legacy counter: components/roode over one VL53L1X that measures two *)
(* zones in turn, with counting_core::Fusion as its vote of one sensor and *)
(* a persisted number as its people counter.                               *)
(*                                                                         *)
(* A pass of loop() is two steps, since the recalibration at its end comes *)
(* after the count; nothing else runs in between.  Minutes are not told    *)
(* apart from milliseconds: a retry of the calibration (10 s), the         *)
(* automatic one and the masking hold time may have elapsed at any pass.   *)
(***************************************************************************)
EXTENDS CountingCore, Vl53l1x

CONSTANTS
  Own, XShut,         \* the sensors considered: address_, xshut_pin
  ClearMs, MinimumMs, \* 90 and 25 in path_tracking
  Steps,              \* milliseconds a pass takes
  Samples,            \* max_samples
  Attempts,           \* number_attempts
  MaxPeople,          \* PEOPLE_COUNTER_MAX and the number's maximum
  Tunings, CONFIGURED, \* thresholds and sizes of the regions; those of the configuration
  Raised              \* tunings with a minimum threshold beyond the masking distance

ASSUME RoodeAssumption ==
  /\ {Own, XShut} \subseteq SUBSET BOOLEAN
  /\ {ClearMs, MinimumMs} \subseteq Time /\ Steps \subseteq Time
  /\ Samples \in Nat \ {0} /\ Attempts \in Nat \ {0, 1} /\ MaxPeople \in Nat
  /\ CONFIGURED \in Tunings /\ Raised \subseteq Tunings

VARIABLES
  now, paths, active, armed, clear_pending, started, clear_since,
  previous_healthy, clear_samples, eligible, result,  \* fusion_
  tof,          \* the driver and its sensor
  calibrated,   \* calibrated_
  roi,          \* the region of each zone
  idle,         \* the regions each zone's thresholds were measured in
  samples,      \* the last distances of each zone, newest first, with their regions
  current,      \* current_zone
  stage,        \* what the main loop does next; "dead" when Roode was marked failed
  presence, masked,
  people,       \* the people counter as published
  saved,        \* and as last given to the preferences, which a boot loads
  tuned,        \* the tuning in effect: what overrides the regions and thresholds
  kept,         \* and what a boot loads; without a record, the configuration's
  seen          \* observer: zones that saw somebody since the last disturbance

fusion == <<paths, active, armed, clear_pending, started, clear_since,
            previous_healthy, clear_samples, eligible, result>>
measured == <<roi, idle, samples>>
counter == <<people, saved>>
tuning == <<tuned, kept>>
vars == <<now, fusion, tof, calibrated, measured, current, stage, presence, masked, counter, tuning, seen>>

\* The entry zone is bit 0 of the masks that Fusion gets, the exit zone bit 1.
Entry == ZONE_OUT
Exit == ZONE_IN
Other(zone) == IF zone = Entry THEN Exit ELSE Entry

TOF == "tof"
F == INSTANCE Fusion WITH
  Sensors <- {TOF}, Required <- 1, RequiredHealth <- 0, AgreementMs <- Modulus - 1,
  Invert <- FALSE, RequireTimingEvidence <- FALSE, Timed <- FALSE

\* The region of a zone depends on the overrides t.
Initial(zone, t) == <<zone, "initial", t>>  \* reset_roi
Fitted(zone, t) == <<zone, "fitted", t>>    \* roi_calibration
Regions == Zones \X {"initial", "fitted"} \X Tunings

-----------------------------------------------------------------------------
(* Zones.                                                                  *)

\* Within the masking distance, a person further off, and the maximum threshold or beyond.
CLOSE == 1
PERSON == 2
FAR == 3
Distances == {CLOSE, PERSON, FAR}

Sample == [distance : Distances, region : Regions \cup Unset]

\* readDistance: a result goes to the front of the samples.
Extended(zone, d, region) ==
  LET all == <<[distance |-> d, region |-> region]>> \o samples[zone]
  IN [samples EXCEPT ![zone] = SubSeq(all, 1, IF Len(all) < Samples THEN Len(all) ELSE Samples)]

\* min_distance: the middle of the sorted samples, which is the farther one of two.
MinDistance(list) ==
  SortSeq(list, LAMBDA a, b : a.distance < b.distance)[Len(list) \div 2 + 1].distance

HasDistance(zone) == samples'[zone] # <<>>

\* Between the thresholds; what covers the sensor is below a raised minimum.
Person == IF tuned \in Raised THEN {PERSON} ELSE {CLOSE, PERSON}
Present == {zone \in Zones : HasDistance(zone) /\ MinDistance(samples'[zone]) \in Person}
Covered == \E zone \in Zones : HasDistance(zone) /\ MinDistance(samples'[zone]) = CLOSE

-----------------------------------------------------------------------------
(* calibrate_zones                                                         *)

\* Enough of the readings of calibrateThreshold are distances: four in five.
Valid(count) == 5 * count >= 4 * Attempts

\* One more reading of each of all; from gathers the regions distances came from.
Readings(all) ==
  UNION {{IF o.status = "OK" THEN [r EXCEPT !.n = @ + 1, !.tof = o.tof, !.from = @ \cup {o.tof.chip}]
                             ELSE [r EXCEPT !.tof = o.tof] :
            o \in ReadDistance(r.tof, r.region)} : r \in all}

\* What may have been read in a region after each number of attempts.
Reads(d, region) ==
  LET read[n \in 0 .. Attempts] ==
        IF n = 0 THEN {[n |-> 0, tof |-> d, region |-> region, from |-> {}]} ELSE Readings(read[n - 1])
  IN read

\* One call; it also fails when the distances are too scattered for thresholds.
\* Either way it leaves no samples behind.
Threshold(c, region) ==
  LET zone == region[1]
      begun == [c EXCEPT !.roi[zone] = region, !.samples[zone] = <<>>]
      read == Reads(c.tof, region)[Attempts]
  IN {[begun EXCEPT !.ok = FALSE, !.tof = r.tof] : r \in read}
     \cup {[begun EXCEPT !.tof = r.tof, !.idle[zone] = r.from] : r \in {s \in read : Valid(s.n)}}

\* The next of its calls of calibrateThreshold, for each of all that got so far.
Then(all, region) == UNION {IF c.ok THEN Threshold(c, region) ELSE {c} : c \in all}

\* All of calibrate_zones from the driver d with the overrides t: whether it
\* succeeded, and what it leaves.
Calibrations(d, t) ==
  LET begun == [ok |-> TRUE, tof |-> d, idle |-> idle, samples |-> samples,
                roi |-> [zone \in Zones |-> Initial(zone, t)]]
  IN IF d.failed THEN {[begun EXCEPT !.ok = FALSE, !.roi = roi]}
     ELSE Then(Then(Then(Then({begun}, Initial(Entry, t)), Initial(Exit, t)),
                    Fitted(Entry, t)), Fitted(Exit, t))

CalibrateZones(d, t) ==
  /\ F!Reset /\ seen' = {}
  /\ \E c \in Calibrations(d, t) :
       calibrated' = c.ok /\ tof' = c.tof /\ idle' = c.idle /\ samples' = c.samples /\ roi' = c.roi

\* recalibration() and the runtime state it resets, up to calibrate_zones.
Recalibration(t) ==
  IF tof.failed THEN FALSE ELSE CalibrateZones(tof, t) /\ presence' = FALSE /\ masked' = FALSE

-----------------------------------------------------------------------------
(* The people counter.                                                     *)

Clamped(value) == IF value < 0 THEN 0 ELSE IF value > MaxPeople THEN MaxPeople ELSE value

\* Mutant: an entity's value is taken as it comes.
ControlUnclamped(value) == people' = value /\ saved' = value

\* PersistedNumber::control
Control(value) == people' = Clamped(value) /\ saved' = Clamped(value)

\* updateCounter
Count ==
  CASE result'.decision = "IN" -> Control(Clamped(people + 1))
    [] result'.decision = "OUT" -> Control(Clamped(people - 1))
    [] OTHER -> UNCHANGED counter

-----------------------------------------------------------------------------
(* The tuning: set_roi_width and its like, persist_runtime_settings and    *)
(* load_persisted_tuning_.                                                 *)

SetTuning(t) == tuned' = t
PersistSettings == kept' = tuned'
LoadTuning == tuned' = kept

-----------------------------------------------------------------------------
(* The main loop.                                                          *)

\* setup() of the driver and of Roode.
Boot ==
  /\ stage = "boot" /\ Control(saved)
  /\ \E d \in Setup(tof) :
       IF d.failed
       THEN /\ stage' = "dead" /\ tof' = d /\ F!Reset /\ seen' = {}
            /\ UNCHANGED <<tuned, calibrated, measured>>
       ELSE stage' = "pass" /\ LoadTuning /\ CalibrateZones(d, kept)
  /\ UNCHANGED <<kept, current, presence, masked>>

\* loop() without a calibration, once ten seconds are over.
RetryCalibration ==
  /\ stage = "pass" /\ ~calibrated /\ ~tof.failed
  /\ UNCHANGED <<current, stage, presence, masked, counter, tuning>>
  /\ CalibrateZones(tof, tuned)

\* path_tracking, for a field that was just sampled.
PathTracking(step) ==
  /\ presence' = (Present # {})
  /\ seen' = (IF active THEN seen ELSE {}) \cup Present
  /\ F!Update([healthy |-> IF \A zone \in Zones : HasDistance(zone) THEN {TOF} ELSE {},
               states |-> [s \in {TOF} |-> Present], fresh |-> [s \in {TOF} |-> {current}],
               unsettled |-> FALSE, edges |-> [s \in {TOF} |-> NoEdges]], step)
  /\ Count

Reading(d) ==
  \E distance \in Distances, step \in Steps :
    /\ samples' = Extended(current, distance, d.chip)
    /\ masked' \in (IF Covered THEN {masked, TRUE} ELSE {FALSE})
    /\ PathTracking(step)

\* Mutant: a pass without a distance is passed over.
NoReadingIgnored ==
  /\ UNCHANGED <<samples, now, fusion, presence, masked, counter>> /\ seen' = {}

\* A status other than NONE: the zone forgets its samples, Roode its episode.
NoReading ==
  /\ samples' = [samples EXCEPT ![current] = <<>>]
  /\ F!Reset /\ seen' = {} /\ presence' = FALSE
  /\ UNCHANGED <<masked, counter>>

Pass ==
  /\ stage = "pass" /\ calibrated
  /\ stage' = "end" /\ UNCHANGED <<calibrated, roi, idle, current, tuning>>
  /\ \E o \in ReadDistance(tof, roi[current]) :
       tof' = o.tof /\ IF o.status = "OK" THEN Reading(o.tof) ELSE NoReading

\* Mutant: only one zone is ever measured.
NextZoneNever(zone) == zone

NextZone(zone) == Other(zone)

\* The end of a pass: handle_auto_recalibration_ does nothing, or its interval is
\* over; it looks at the sensor and its cover, and sees nobody in the doorway.
EndPass ==
  /\ stage = "end" /\ stage' = "pass" /\ current' = NextZone(current)
  /\ UNCHANGED <<now, fusion, tof, calibrated, measured, presence, masked, counter, tuning, seen>>

AutoRecalibration ==
  /\ stage = "end" /\ ~masked /\ Recalibration(tuned)
  /\ stage' = "pass" /\ current' = NextZone(Entry)
  /\ UNCHANGED <<counter, tuning>>

\* The button of the page.
Recalibrate ==
  /\ stage = "pass" /\ Recalibration(tuned)
  /\ current' = Entry /\ UNCHANGED <<stage, counter, tuning>>

\* apply_tuning: a new sampling size, the same one included, drops the samples, and
\* a setting that differs starts a calibration.
ApplyTuning(t) ==
  /\ stage = "pass" /\ SetTuning(t) /\ PersistSettings
  /\ \/ t # tuned /\ Recalibration(t) /\ current' = Entry
     \/ /\ t = tuned \/ tof.failed
        /\ samples' = [zone \in Zones |-> <<>>]
        /\ UNCHANGED <<now, fusion, tof, calibrated, roi, idle, current, presence, masked, seen>>
  /\ UNCHANGED <<stage, counter>>

\* The people counter as a number entity.
SetPeople ==
  /\ stage = "pass" /\ \E value \in -1 .. MaxPeople + 1 : Control(value)
  /\ UNCHANGED <<now, fusion, tof, calibrated, measured, current, stage, presence, masked, tuning, seen>>

\* A restart of the ESP, or a loss of power that restarts the sensor as well.  The
\* preferences write the number when it suits them: a loss of power may lose what
\* was saved in the last minute, and an older value, which may be any, is loaded.
Restart ==
  /\ stage # "boot" /\ stage' = "boot"
  /\ tof' \in {New(tof.own, tof.xshut),
                [New(tof.own, tof.xshut) EXCEPT !.at = tof.at, !.chip = tof.chip]}
  /\ F!Reset /\ seen' = {} /\ calibrated' = FALSE
  /\ samples' = [zone \in Zones |-> <<>>]
  /\ roi' = [zone \in Zones |-> NONE] /\ idle' = [zone \in Zones |-> {}]
  /\ current' = Entry /\ presence' = FALSE /\ masked' = FALSE
  /\ people' = 0 /\ saved' \in 0 .. MaxPeople
  /\ tuned' = CONFIGURED /\ UNCHANGED kept

Init ==
  /\ now = 0 /\ F!Fresh
  /\ tof \in {New(own, xshut) : own \in Own, xshut \in XShut}
  /\ calibrated = FALSE /\ samples = [zone \in Zones |-> <<>>]
  /\ roi = [zone \in Zones |-> NONE] /\ idle = [zone \in Zones |-> {}]
  /\ current = Entry /\ stage = "boot" /\ presence = FALSE /\ masked = FALSE
  /\ people = 0 /\ saved = 0 /\ tuned = CONFIGURED /\ kept = CONFIGURED /\ seen = {}

Loop == Boot \/ RetryCalibration \/ Pass \/ EndPass

Next ==
  \/ Loop \/ AutoRecalibration \/ Recalibrate \/ SetPeople \/ Restart
  \/ \E t \in Tunings : ApplyTuning(t)

\* ESPHome calls loop() again and again, and ten seconds do pass.
Spec == Init /\ [][Next]_vars /\ WF_vars(Loop)

-----------------------------------------------------------------------------
(* Properties.                                                             *)

TypeOK ==
  /\ F!TypeOK
  /\ tof \in Sensor(Regions)
  /\ roi \in [Zones -> Regions \cup {NONE}] /\ idle \in [Zones -> SUBSET (Regions \cup Unset)]
  /\ samples \in [Zones -> Seq(Sample)] /\ \A zone \in Zones : Len(samples[zone]) <= Samples
  /\ current \in Zones /\ stage \in {"boot", "pass", "end", "dead"}
  /\ {calibrated, presence, masked} \subseteq BOOLEAN
  /\ {people, saved} \subseteq 0 .. MaxPeople /\ (stage # "boot" => people = saved)
  /\ {tuned, kept} \subseteq Tunings /\ (stage \in {"pass", "end"} => tuned = kept)
  /\ seen \subseteq Zones

\* While the sensor works, whatever is counted on was measured where it is said to
\* be: the samples and the thresholds of a zone come from its own region in its
\* present size, though regions and their tuning change, transfers fail half-way
\* and sensors are switched off and on.
MeasuredInItsRegion ==
  calibrated /\ ~tof.failed => \A zone \in Zones :
    /\ roi[zone] = Fitted(zone, tuned) /\ idle[zone] = {roi[zone]}
    /\ \A n \in DOMAIN samples[zone] : samples[zone][n].region = roi[zone]

\* A person is counted on what was seen in one stretch: no reading failed and
\* nothing was recalibrated since the first zone saw somebody.
CountedInOneStretch == result.decision \in {"IN", "OUT"} => seen = Zones

\* A sensor at the default address survives any single failed transfer: it takes
\* a second one, in the recovery or in the read after it, to fail the component.
OneFaultSurvived == [][~tof.failed /\ tof'.failed /\ ~tof.own => tof'.faults >= 2]_vars

\* A doorway that stays empty is in the end armed and shows nobody, however the
\* last episode was disturbed, unless the sensor has failed for good.  Quiet steps
\* read an empty region: no transfer fails, nobody sets anything or restarts the
\* device, and the automatic recalibration, which empties the episode anew, is not
\* due either.
OutOfOrder == stage = "dead" \/ tof.failed
QuietStep ==
  \/ stage = "pass" /\ calibrated /\ stage' = "end" /\ samples'[current] # <<>>
       /\ samples'[current][1].distance = FAR
  \/ stage = "end" /\ stage' = "pass" /\ UNCHANGED <<fusion, measured>>
  \/ stage = "pass" /\ ~calibrated /\ calibrated'
Settled == OutOfOrder \/ (calibrated /\ armed /\ ~active /\ ~presence)
Settles == <>[][QuietStep]_vars => <>[]Settled
=============================================================================
