# A verification project for Roode2

Roode2 is ESPHome firmware that counts people through a doorway with VL53L1X
time-of-flight sensors. This directory holds TLA+ models of the parts that
decide *what is counted* and *what a caller may rely on*, the TLC runs that
check them on small instances, and TLAPS proofs of the results that matter most
for instances of every size.

Paths below are relative to `src/`; `C/` stands for `src/components/`.

## 1. The system

| Part | Source | State it keeps | Operations |
|---|---|---|---|
| Counting core | `C/counting_core/counting_core.h` | per zone a `Debounce`, per sensor a `Path`, per doorway a `Fusion` | `update`, `observe`, `direction`, `reset` |
| Zone signal | `C/tof_overdoor_counter/tof_overdoor_counter.cpp` 466-612, 1392-1521, 1850-1858 | per zone the sample window, filtered distance, last good read, active and blocked flags | `read_channel_`, `update_sensor_states_` |
| Acquisition | same file, 399-579, 699-798 | per channel the current ROI, ranging and settling flags, start time | `read_channel_`, `switch_channel_zone_`, `restart_ranging_` |
| Recovery | same file, 800-898; `C/counting_core/sensor_init.h` | one stage, index and deadline for all channels; attempts and next retry per channel | `service_recovery_`, `fail_recovery_`, `rediscover` |
| Calibration | same file, 1218-1260, 1321-1390, 1510-1556 | Welford statistics and baseline per zone, clear timers | `recalibrate`, `process_calibration_`, `apply_idle_baseline_tracking_` |
| Detection and counters | same file, 1574-1743 | counters, people inside, passage state | `update_detection_state_machine_`, `register_detection_`, the setters |
| Persistence and restarts | same file, 900-1189; `C/counting_core/runtime_guard.h` | the saved record, dirty flag, outage guard, cold-boot timer | `persist_runtime_state`, `load_persisted_state_`, `check_wifi_recovery_` |
| HTTP bridge | `C/tof_overdoor_ui/main_thread_bridge.h`, `tof_overdoor_ui.cpp` 1559-1590, 1764-1789 | `busy_`, one `Job` per request, the scheduler's queue | `submit`, `cancel`, `send_from_main_` |
| Page of the UI | `tof_overdoor_ui.cpp` 1028-1034, 1172-1176, 1324-1523 | a timer, a pending refresh, `busy`, `settingsDirty` | `refresh`, `scheduleRefresh`, the click, submit, input and visibility listeners |
| Roode (legacy) | `C/roode` | one sensor, two zones with thresholds and regions, a `Fusion` with one vote, a people counter | `loop`, `path_tracking`, `calibrate_zones`, the tuning setters |
| VL53L1X driver | `C/vl53l1x` | addresses, the region written last, `setup_complete_` | `setup`, `init`, `recover_sensor_`, `read_distance` |
| Persisted number | `C/persisted_number` | one number in flash | `setup`, `control` |
| Legacy web page | `C/roode_ui` | none of its own | `handle_action_` |

Everything of the over-door counter runs on ESPHome's main loop: `update()` is
called on every pass (5 ms polling) and does, in this order, reading, health,
recovery, calibration, zone states, detection, tracking of the baseline and
saving. Three things run beside it: the sensors, which range by themselves and
are read over I2C; the HTTP task of ESP-IDF, which hands its work to the main
loop through `MainThreadBridge`; and the script of the page in a browser. The
device itself stops and starts: it restarts after a power-on, for a network that
is gone and for an operator, and what survives is what was saved. So the hard
behaviour is of six kinds:

* **Ordering within an episode.** Sensors are sampled one zone at a time, so the
  doorway is never seen at one instant; sensors drop out and come back, and a
  person may turn, stop, or be followed.
* **Stale data.** A fresh bit, a filtered distance, a held field or a cover flag
  may outlive what it was measured from.
* **Two tasks.** A request may time out at any point of its job, and a page polls,
  acts and is hidden in any order.
* **Faults.** Any I2C transfer may fail, with or without effect, and a sensor may
  lose its supply; the region and the address a chip really has are not visible.
* **Restarts.** A save, a migration or a calibration may be cut off by a restart.
* **Time.** `millis()` is 32 bits wide and wraps; 0 doubles as "never".

What makes each part correct is stated with its module in section 3; the list of
hazards, each with its line, is in `PROJECT.json`.

## 2. Plan

The modules, in the order they were written:

1. `CountingCore`, `Fusion`, `FusionHistory`, `Episode`, `Passage`: the decision
   to count. Abstract specification: `Episode`.
2. `MainThreadBridge`, `RemoteCall`: what an HTTP client may rely on. Abstract
   specification: `RemoteCall`.
3. `ZoneSignal`, `ZoneHistory`: from a range result to an occupied field.
4. `Recovery`: the power cycle shared by four channels.
5. `Acquisition`: one sensor and its host, transfer by transfer.
6. `Node`, `MCNode`, `Ledger`: saving, restarts, migrations and the outage guard.
   Abstract specification: `Ledger`.
7. `Calibration`: learning the empty distance and the startup lock.
8. `Vl53l1x`, `Roode`: the legacy counter on `Fusion`, with its driver.
9. `Page`: the script of the page, with the device behind it.

The proofs are in `FusionProofs` (1), `UiProofs` (2 and 9), `ZoneSignalProofs` (3),
`RecoveryProofs` (4), `AcquisitionProofs` (5), `NodeProofs` (6),
`CalibrationProofs` (7) and `RoodeProofs` (8). Every safety invariant and every
action property of the passing runs is a theorem; so are the types of `Fusion`,
`MainThreadBridge`, `Acquisition`, `Node`, `Roode` and `Page`, and those of the others
are part of the invariants proved. What is left to TLC is listed at the end of
section 5.

What would come next: the page composed with `MainThreadBridge`, so that a version
is a call; and the zones of `ZoneSignal` as the source of the fields that
`MCFusion` reads.

## 3. What is modelled

### Counting core (`CountingCore`, `Fusion`)

`CountingCore` translates the value types of the header: 32-bit timestamps as
numbers modulo `Modulus`, `crossing_order` as `FirstCrossed`, `Debounce::update`
as `Debounced`, `Path::observe` as `Observe`, `Path::direction` as `Direction`.
Bit masks of zones are subsets of `Zones`.

`Fusion` is `Fusion::update`. The variables are the private members of the class
under their own names, plus the clock and the returned result. An action is one
path through `update`, from its arguments to the return it takes:

| Action | Return | 
|---|---|
| `LoseQuorum` | line 167, too few healthy sensors |
| `IgnoreOccupied` | line 172, occupied but not armed |
| `BeginEpisode`, `Track` | line 182, occupied or unsettled |
| `AwaitClear` | line 188, not clear for long enough or not sampled by all |
| `Arm` | line 190, clear and no episode |
| `Conclude` | line 221, clear: verdict |
| `Reset` | `reset()`, called by `clear_event_tracking_` |

`Update` is their disjunction with what they share (the clock and
`previous_healthy_`). The arguments range over all of `Input` in `Fusion` itself,
which is what the theorems speak of; `MCFusion` calls it as
`update_detection_state_machine_` does: between two calls one sensor delivers one
sample of one zone, or its health changes, or nothing is new. The firmware can
bring several of these in one pass; calls zero milliseconds apart stand for that.

`FusionHistory` adds an observer that sees the arguments only: since when the
doorway has looked empty (in unbounded time), which zones were sampled since,
which sensors were healthy at every call of the episode, which zones each saw
occupied in it, and how far into the episode each sensor's field became empty (in
the time that really passed). The properties compare the verdicts with that
memory, so they do not depend on `Fusion`'s own bookkeeping:

* `CountIsEarned`: a confirmed IN or OUT rests on `Required` sensors, each of
  them healthy at every call of the episode and each having seen both zones in
  this episode, with no opposing vote.
* `VotersLeaveTogether`: the sensors that count a person saw that person leave
  together, within the agreement time of one another.
* `ClearBeforeAnything`: the doorway is armed, and an episode gets a direction,
  only at the end of a full clear time in which every healthy sensor sampled
  both of its zones.
* `Implements`: `Fusion` implements `Episode`, which knows phases and verdicts
  only: one verdict per episode, episodes open only when armed, losing the quorum
  rejects.

`Passage` puts a `Path` beside the full list of what its sensor saw.
`VoteIsTraverse` says that the vote of `geometric_direction` is exactly the
reference definition `Traversed`, which reads the list: in from one side, never
both zones left until the end, last alone on the other side. TLC judges all
lists of up to `MaxChanges` changes once (`JudgedFrom`) and looks the answer up in
every state of the run; `VotesAreTraverses` proves it for lists of any length.

That an empty doorway is armed in the end is stated where it is called from:
`Settles` of `Roode` and `GetsReady` of `Calibration`.

### Zone signal (`ZoneSignal`)

One zone through one pass of `update()`: `Result`, `Rejection` and `Nothing` are
the three outcomes of `read_channel_` for the zone, each followed by the whole of
`update_sensor_states_` for it; `PowerCycle` is the reset of the zone by
`service_recovery_`. `lost` stands for what makes the channel unusable apart from
this zone, which is its other zone being stale. The crossing windows a `Debounce`
keeps are of the *filtered* distance, and 0 means "never" in `last_good` as it
does in `last_good_read_ms`: the wrap of the clock through 0 is in the model.
`Sampled` is the order statistic `sorted[count / 2]` without the sorting.

`ZoneHistory` adds an observer of raw results. `NoGhostPresence`: an occupied
field has a valid result no older than the stale time, and no older than the hold
time once a result was rejected. `CoveredIsOccupied`: a covered field is an
occupied one. That one wrong result changes nothing is two properties, for the two
settings of the median window there are:

* `TwoMeasurements`, without a window (`sampling: 1`, as the shipped four-sensor
  profiles have it): each change of side rests on two raw results taken since the
  field was last lost.
* `OutlierCountsOnce`, with the window of three that the component's schema sets by
  default: each change of side rests on two results of the window that say so, so
  an outlier, which stays in the window for three results, never counts twice.

A window is not emptied when a field is lost, so one of the two results may be from
before the loss (near while the channel is lost, near again, then far: the median is
still near, and the field becomes occupied). So `TwoMeasurements` is not claimed of
a wider window, and `OutlierCountsOnce` speaks of the
window's results whenever they were taken.

### HTTP bridge (`MainThreadBridge`)

Each action is one access to shared memory by the HTTP task (`HttpNext`: from
`Receive` to `DeferReboot`) or by the main loop (`MainNext`: `Dequeue`, `Claim`,
`Work`, `Respond`, `Publish`, `Release`, `Reboot`), so that they interleave
everywhere. Writing the response takes two steps, so a reader that came early
would be seen. The 1500 ms limit may pass at any time, because nothing bounds how
long the main loop is busy. `Dequeue` and `Reboot` model ESPHome (its scheduler,
`App.safe_reboot`) by how the code uses it and are marked external.

* `OneOutstanding` is the comment over the class.
* `Implements`: the bridge implements `RemoteCall`: answered once, in effect at
  most once, "ok" only with the finished response of the same call, and no effect
  after a refusal. A call that timed out may still take effect, once.
* `AlwaysAnswered` and `BridgeFrees` are the two liveness properties: a request is
  answered even if the main loop never returns; a main loop that runs frees the
  bridge again and again.

### Recovery (`Recovery`)

One step of `Update` is one pass of `update()`: every channel is read (`Found`,
`Remaining`), and then `service_recovery_` takes at most one step:

| Action | Code |
|---|---|
| `NothingToDo`, `PowerOff` | stage `IDLE`: the first channel in index order that needs recovery and is due |
| `Wait` | the early returns of `POWER_OFF`, `BOOT` and `ADDRESS_SETTLE` |
| `PowerOn`, `SetAddress`, `AddressSettled`, `InitRegisters`, `Configure` | the stages |
| `Fail` | the five calls of `fail_recovery_`, with the reset of the bus after a boot that timed out |
| `Discover`, `Rediscover` | the bus comes up; an operator asks |

A deadline is what is left of it: `recovery_deadline_`, the wake-up time and
the limit of `SensorInit` are never waited for together, so one variable holds
them. That a deadline long past is in the future again after 2^31 ms is not
modelled. The devices are external: `good`, `absent`, or `failing`, which comes up
and configures and then delivers nothing or only hardware failures. A device
answers where it was last addressed, and at the default address after its supply
came back, so a transfer can reach the wrong sensor, two, or none. What reading
finds of a channel is abstracted to whether it needs recovery. While the bus is
disturbed any transfer may fail, and one that failed may still have arrived.

* `AddressedApart`: while supplies hold, a sensor in service is alone at its
  address and nothing but the sensor under recovery is awake outside service.
* `WorkingSensorsServed`: once the bus is quiet every working sensor comes into
  service and stays there, whatever the others do and whatever was mixed up.
* `MissingSensorsBackOff`: a channel without a sensor ends at the longest back-off.

### Acquisition (`Acquisition`)

One channel, whose program is `read_channel_` with the two functions it calls,
one I2C transfer to a step, beside a sensor that ranges on its own: left alone it
starts another range after `Guard` (the guarded intermeasurement time), and told
to stop it completes the range in progress. A result carries no trace of the
region of interest it was measured with; the model keeps that beside it, as
`range` and `result`, and `MIXED` where a region was written under it. Any
transfer may fail, and one that failed may have arrived; the loop may be delayed
between any two; a power cycle may hit at any time. `Slip` is the one assumption
about speed, named in `AcquisitionAssumption`: while the loop is not delayed, a
transfer and the reading of the clock beside it take at most half of
`guard_margin`.

* `FiledUnderItsZone`: a result filed under a zone was measured in it.
* `AimedBetweenRanges`: the region never moves under a range in progress.
* `BothZonesServed`: once nothing fails and nothing is delayed, results of both
  zones keep coming.

### Persistence and restarts (`Node`, `Ledger`)

A pass of `update()` with everything that is saved, loaded, migrated or
restarted. A save goes to ESPHome's preferences (`pending`) and from there to
flash when `Sync` runs or at a restart in good order; `PowerLoss` loses what is
pending. What detection and calibration do is reduced to its effect: somebody is
counted (`Count`), enough channels become calibrated (`Calibrate`). The five
cumulative counters are one, as they differ in what advances them only. A saved
calibration is absent, each zone's own, or of two mixed fields, which is what the
layouts before 8 may hold. `MCNode` starts it with flash empty or written by
layout 7 or 4, with values no setter allows.

* `CleanMeansSaved`: what the RAM holds and `dirty` does not mark is what a
  restart gives back.
* `NoMixedBaselines`: no baseline over two fields is used after any migration.
* `GuardAfterOutage`: the guard restarts only after an outage of the full timeout
  that every pass saw. `GuardSavesCounts`: and only with the counts saved.
* `Implements`: the counts are a `Ledger`: they change by a passage or by an
  operator, and a restart gives back a tally the device had.
* `StartsUp`: a powered device loads its counts and works again and again; its own
  restarts do not follow upon each other.

An operator who corrects a count in the seconds before the saved state is loaded
saves a record of zeros (`Hasty`); the run leaves that out (`Hasty = FALSE`), as it
is the same defect as the one `node_unloaded` finds.

### Calibration (`Calibration`)

All channels in passes: a pass delivers at most one result, of one zone of one
channel, and then runs `process_calibration_`, or the zone states, the startup
lock, the episode and the idle tracking. A reading is `far` when an empty doorway
would give it; millimetres and the Welford statistics are left out, so whether
enough samples are accepted is a choice. Power cycles, recalibrations,
rediscoveries and a bus reset may come at any pass. The cover of a channel is
`ZoneSignal`'s matter, and the mode is COUNT. A person who stands beyond the
minimum clear distance during the very first calibration is not modelled: nothing
in the code can tell them from a wall.

* `OneClearSpell`: the samples a calibration takes come from one spell in which
  every pass saw nobody and enough channels clear, after it had settled. That holds
  although a rediscovery does not reset `calibration_clear_since_ms_`: it leaves no
  field with a result, and the next pass finds too few channels clear.
* `CalibrationIsExclusive`: nothing counts, nobody is tracked while it calibrates.
* `UnlockedByEmptyDoorway`: counting is unlocked only after the full time in which
  every pass saw an empty doorway and enough channels.
* `ApproachIsNotLearned`: when a result makes a field active, no baseline was
  tracked at its result before that one, or since, whatever the other channels read
  and lost meanwhile: the candidate keeps every baseline still.
* `GetsReady`: over an empty doorway the device gets ready and stays so.

Two things the model makes visible. One sensor that stays active (a door left
open before it) keeps the startup lock closed and keeps the others from being
calibrated, for ever. And the early return of `process_calibration_` while somebody
is in the doorway keeps the samples and leaves the clear timer running. A device
that calibrates never takes it (`CalibrationIsExclusive`). One that counts already,
with a channel still to be calibrated, does: clear means that `min_valid_sensors`
channels read clear, so if others do so once the person is gone, nothing is
reset, and the samples of that channel from before the person are completed without
settling again. `Process` keeps them as the code does, and no property is claimed
of those samples.

### Roode and its driver (`Roode`, `Vl53l1x`)

`Vl53l1x` is the driver as a set of outcomes per call, since each call blocks: a
transfer may fail at any place, with or without effect, and the chip's own region
and address are kept beside the driver's `last_roi_` and the library's address.
`Tries` (the attempts of `setup`) and `Reads` (the readings of `calibrateThreshold`)
are recursive functions from how often to the set of what may have become of the
driver. A region enters the thresholds of a zone with each reading that was a
distance, and with no other: `idle` is a set, as several readings may differ.
`Roode` is a pass of `loop()` in two steps (the reading with its vote, then the
automatic recalibration and the next zone) over the same `Fusion`, with one
sensor. `SetPeople`, `Recalibrate` and `ApplyTuning` are the actions of the legacy
web page. Tunings are model values: a region depends on the zone, on whether
it was fitted, and on the tuning, so using one under another is visible. Under a
tuning of `Raised` the minimum threshold is beyond the masking distance, and what
covers the sensor is not a person. The people counter is only queued for flash, so
a `Restart` may load an older one, which may be any.

* `MeasuredInItsRegion`: samples and thresholds of a zone are from its own region
  in its present size.
* `CountedInOneStretch`: a count rests on one stretch without a failed reading or a
  recalibration.
* `OneFaultSurvived`: it takes two faults to fail a sensor at the default address.
* `Settles`: an empty doorway ends armed and shows nobody. Its `QuietStep` excludes
  failing transfers, the operators and the automatic recalibration, which empties
  the episode anew.

The model also shows what the driver does to a sensor with an address of its own:
a power cycle puts the chip back to the default address while the library keeps
the other, so it is not heard again; one failed read then fails the component, the
second and third attempts of `setup` cannot succeed, and after a restart without a
shutdown pin the chip is not found. The shipped legacy configurations use the
default address, for which `OneFaultSurvived` is stated. And the automatic
recalibration tests `left_previous_status_` and `right_previous_status_`, which
nothing sets, so it runs whether or not somebody is present.

### Page (`Page`)

The script runs to completion between two awaits, so a step is everything from one
event to the next: an answer (`PollSucceeds`, `PostSucceeds`), an error or abort
(`PollFails`, `PostFails`), a timer, a click or submit (`Click`), an edit, a
change of the tab's visibility. The device is a version number that grows with
every change, by this page's actions (`Apply`) or anybody else's (`Elsewhere`).
Delays are not told apart: any timer that is set may fire, and any request may
fail at any time, whether or not the device has done what it asked.

* `SingleFlight`: polls and actions never overlap, and no poll is due in a hidden
  tab or during an action (`Documents/HOME_ASSISTANT_MINIMAL.md`).
* `ShownIsCurrent`: the page never shows an older state than before, nor one from
  before an action it was told has succeeded.
* `EditsKept`: only a save takes an edit off the form.
* `CatchesUp`: a page that is visible for good, before a device that answers, shows
  the device's state in the end.

An edit made while a save is under way is not in that save and loses its mark with
it (`settingsDirty = false` when the save is answered); the refresh that follows
writes over it. `EditsKept` speaks of the edits made at any other time.

## 4. Runs

| Run | Instance | Why it is enough |
|---|---|---|
| `fusion` | 2 sensors of which one suffices, clock modulo 2; tracks of up to 7 changes | Votes can agree and oppose, a sensor can fail and return inside an episode or a clear interval while the quorum holds, the clock wraps within every interval; two returns and a turn fit into seven changes. With a minimum duration of 0, which the settings allow, two tracks of one episode may end within a turn of the clock and yet too far apart. Agreement times are 0, and the theorems cover more sensors and larger quorums. 188,855 states. |
| `bridge` | 4 requests, 2 restarts | A timed-out job, the request that meets it, and a restart on both sides. |
| `zone_signal` | window 1, clock modulo 16 | Hold, cover and stale times are distinct and each can pass or not. |
| `zone_window` | window 3, otherwise the same | The window fills, is full and forgets, with outliers and losses at every point. 467,634 states. |
| `acquisition` | guard 12, budget 1, transfers of up to one tick; two faults, delays of 12 ticks | A delay reaches past the autonomous range, once or in pieces, and two faults hit any two transfers. 368,312 states. |
| `recovery` | 2 channels of any kind, transfers fail and supplies drop until the bus is quiet | Two sensors can be at the default address, at the address of the other, and at one address together; back-offs from 4 to 8 passes. 270,526 states. |
| `recovery_backoff` | 2 channels, quiet bus | A quiet bus is enough for the finding. |
| `node` | clock modulo 8, one failure of the bus per boot, layouts 7 and 4 or nothing in flash, one passage | Each interval is passed and not passed, each restart meets each place of saving. |
| `node_unloaded` | the same with a bus that fails for longer than the outage | The guard fires before anything is loaded; see the findings. |
| `calibration` | 2 channels of which calibration needs one and counting two; two samples, one pass of settling | A channel is lost, returns or is recovered in every phase of the other, and between the two samples. 155,816 states. |
| `roode` | two faults, regions fitted or not, two tunings of which one raises the minimum threshold, own or default address, 2 calibration attempts | Two transfers fail anywhere, in one call or in two; a recalibration or a tuning comes between any two passes. |
| `page` | up to 4 versions | An action and two changes elsewhere fit around a poll. 33,054 states. |

The runs of `Fusion` and `ZoneSignal` use a VIEW (`RelevantState`) that names what
the future and the properties depend on: times relative to the clock, and nothing
of what is overwritten before it is read. Sensors of `Fusion` are symmetric.
Deadlock is checked in every run but `bridge`, which really stops: its four
requests are answered and nobody asks again.

**Fairness.** ESPHome calls `update()` and `loop()` for ever, so a pass is weakly
fair: `Update` in `Recovery` and `Node`, `Pass(c)` of each channel that is up in
`Calibration` (its results keep coming, which `BothZonesServed` shows), `Loop` in
`Roode`. Beyond that:

* `acquisition`: the channel's next transfer, the end of a range and the passing of
  time.
* `bridge`: only that the HTTP task is scheduled once it has a request;
  `BridgeFrees` carries its own hypothesis that the main loop runs.
* `node`: ESPHome's preferences are written in the end (`Sync`).
* `calibration`: a channel that is down is recovered (`Recovered(c)`), which
  `WorkingSensorsServed` shows of working sensors.
* `recovery`: a channel in service without results is noticed (`Notice`): its errors
  are counted on every pass and the age of its last result is limited to two
  seconds. It also takes from the configuration that a power cycle of one sensor
  is shorter than the two seconds after which a recovered sensor may be cycled
  again, as it is with the default 5 ms passes (about 100 passes and 285 ms of
  waiting). With passes of 20 ms it is not: two failing sensors take turns, and a
  third, later in the order, never gets its own.
* `page`: the browser fires the timers it was given and ends every request
  (`fetchJson` aborts after five seconds); `CatchesUp` carries the hypotheses that
  the device answers and that the user comes to rest.

**Findings.** `recovery_backoff` shows `DefectiveSensorsBackOff` violated:
`Documents/TOF_COUNTER_VALIDATION.md` line 35 promises exponential back-off for a
defective sensor, but `recovery_attempts` is set to 0 at configuration (line 891),
before any result, so a sensor that configures and then fails is power-cycled at
a constant rate. A sensor that never gets that far does back off.

`node_unloaded` shows `GuardSavesCounts` violated: the saved state is loaded by
the first `rediscover`, which waits for `Wire.begin`. When the bus does not come
up before the outage guard fires, `persist_runtime_state` saves the zeros of the
constructor over the saved counts and calibrations and restarts the device;
`Documents/AVAILABILITY_2026_09_27.md` line 25 says the guard saves counts.

## 5. Proofs

All theorems hold for every value of the constants that satisfies the named
assumptions: an even clock modulus, a finite set of sensors, a positive quorum,
times below the modulus. They cover all inputs, not only the calls of `MCFusion`.

* `FusionProofs`
  * first the counting core: types of the operators, `ElapsedGrows` (a step of the
    clock never ages a time by more than the step, wrap or not), and
    `OrderIsOneWay`: two crossings within half the span of the clock are never
    ordered both ways.
  * `TypesHold`, `HistoryTypesHold`: type correctness.
  * `FusionImplementsEpisode`: with the invariant `ArmedWhileActive` (an episode
    runs only in an armed doorway), which `Enter` and `Conclude` of `Episode` need.
  * `CountsAreEarned`: `CountIsEarned` is not inductive. `CountInv` adds what the
    bookkeeping means during an episode (`TracksAreOfThisEpisode`): an eligible
    sensor was healthy throughout, and a track has seen only zones the observer
    saw touched.
  * `VotersSawOneLeave`: `EndsAreReal` says that, as long as an episode is shorter
    than a turn of the clock, the wrapped age of its start is how long it lasted, and
    that a track which ended unambiguously within it ended when the observer saw the
    field become empty (`TrackLeaves`). The code compares wrapped ends
    (`VerdictTogether`); with the invariant these are the real ones.
  * `NothingBeforeClear`: `ClearInv` adds `IntervalIsReal`: while `clear_pending`,
    the doorway has looked empty at every call since `clear_since`, the samples
    collected are among those the observer saw, and the wrapped age of
    `clear_since` is at most the real one.
  * `VotesAreTraverses`: `Sound` says what each field of a `Path` means in terms of
    the list of what its sensor saw: how it began (`Opened`), whether and when the
    field became empty and whether that was the end (`Closed`), what was seen
    (`SawAll`), and the last zone seen alone (`LastAlone`). A path starts sound,
    every change keeps it so (`SeeSound`), and a sound one votes as its list says
    (`SoundJudged`). The induction over the number of changes is first-order
    (`Stepwise`), on the set of the numbers for which the claim holds.
  * `CallsAreCovered`: the calls of `MCFusion`, which are those of
    `update_detection_state_machine_`, are among those of `HSpec`, so the theorems
    above hold of them.
* `UiProofs`: `BridgeTypes`, `OnlyOneOutstanding`, `BridgeImplementsRemoteCall`.
  The inductive invariant says, for each place the main loop can be in, which
  state its job is in, where the one callback is, and that an answered request
  is no longer waited for. For the page: `PageTypes`, `OneRequestAtATime`,
  `ShownNeverGoesBack`, `EditsAreKept`, for any number of versions. The invariant adds
  that a handler that waits has a poll to wait for, that what is on its way was the
  device's state no earlier than the last action that succeeded, and that an edit
  that no save has carried off is marked.
* `ZoneSignalProofs`, for any window, thresholds, distances and times:
  * `CoverIsPresence` and `NobodyOnOldEvidence`. The invariant of the second says that
    the wrapped age of `last_good` is the age the observer counts as long as somebody
    is seen (`AgeIsKnown`), and that a zone without evidence is not occupied.
    `PassAssumption` is what the wrap needs: no pass lasts nearly as long as the clock
    takes to wrap, or an old result would look new.
  * `ChangesRestOnTwo`: `TwoMeasurements` without a median window (`NoWindow`), as the
    four-sensor profiles ship it. `NoWindow` has a second part, `SmoothingIsWeak`: the
    smoothing cannot carry an old distance across a threshold against the new one.
    A filtered distance keeps 15 % of the one before, so whether that is so depends on
    how wide the deltas are on the baseline. On the 2400 mm baseline of a tall
    doorway, with the deltas 280 and 140, it is not: one result of 30 mm takes the
    filtered distance so far that the next result, of an empty field, still
    confirms it, and the field becomes occupied on a single outlier. So the
    hypothesis says for which deltas two filtered distances are also two raw ones; the
    instances satisfy it (`InstanceAssumption`).
  * `OutliersCountOnce`: `OutlierCountsOnce` for every window of three or more
    (`MedianWindow`, again with `SmoothingIsWeak`). `MedianExists`: the `CHOOSE` of
    `Sampled` has a witness, the least distance that more than half of the window does
    not exceed. `MedianHasCompany`: with two results two are at most the median, and
    with three two are also at least that. The invariant `Windowed` adds what makes
    that enough while the window is filling: a candidate has a result in the window,
    and an occupied field has two, so the window holds three before a field can
    become empty.
* `RecoveryProofs`: `SensorsAddressedApart`, for any number of channels, any
  delays and back-offs. The invariant adds that the channel under recovery is out
  of service from power-off to configuration (`OutOfService`) and that a device
  is only ever at the default address or its own (`OwnAddress`): so the device
  that answers `Configure` is the right one.

* `AcquisitionProofs`: `AcquisitionTypes`, `ResultsAreTheirZones` and
  `RangesKeepTheirROI`, for all durations that satisfy `AcquisitionAssumption`. The
  invariant says, for each place of the channel's program, what the sensor may be
  measuring and hold ready: while the channel waits, either the region is the
  current zone's or the deadline will have passed; after a failure nothing is
  filed until the region is written again.
* `NodeProofs`, for any records in flash, any settings asked for and any number of
  restarts. `SettingsStayCoherent` (types, people within the maximum, release below
  trigger), `CleanCountsAreSaved`, `BaselinesAreOwn`: the invariant adds that a
  record in the preferences is well-formed and, of the present layout, not mixed,
  and that the counts of a device that has neither loaded nor found a record are
  zero. `RestartsFollowOutages`: while the guard waits, the outage every pass saw is
  at least as old as the wrapped age of `disconnected_since` (`Watched`).
  `CountsAreALedger`, `RestartsSaveCounts`: the refinement of `Ledger`, and that the
  guard's restart keeps the counts, both under `GuardWaitsForLoad` (the guard does not
  fire before the saved state is loaded), and the first for operators who wait for that
  too. Without the hypothesis neither holds, as `node_unloaded` shows; the run `node`
  meets it by its bounds.
* `CalibrationProofs`: `BaselinesAreOfOneSpell`, `NothingCountsMeanwhile`,
  `LockNeedsEmptyDoorway`, `ApproachesAreNotLearned`, for any set of channels,
  numbers of samples and times. The invariant adds that, while the device calibrates,
  the clear timer is at most as old as the spell the observer saw, or no field has a
  result and the next pass stops that timer (`SpellIsReal`, `Blind`); that the startup
  lock's timer is at most as old as the empty doorway (`LockIsReal`); and that no
  baseline was tracked since a candidate's first result (`CandidatesKeepStill`).
* `RoodeProofs`: `LegacyTypesHold`, `MeasuredWhereSaid`, `CountedOnOneStretch` and
  `OneFaultIsSurvived`, for any number of samples, readings and tunings, and any
  number of attempts of `setup` above one (`SENSOR_INIT_ATTEMPTS` is 3). `LegacyInv`
  adds to the properties what the driver keeps through every call, whatever transfers
  fail (`Working`): it trusts a region only while the chip measures in it
  (`Trusted`), a sensor without an address of its own is where the library believes it
  (`Heard`), none was failed by a single fault (`Survives`), and outside `setup` a
  sensor that has not failed is ready (`Up`). For the vote it adds that a track has
  seen only zones of the present stretch (`TrackSeen`). The lemmas about the vote
  are those of `FusionProofs`, through an instance of it for one sensor (`FP`,
  `OneSensor`).

Where a proof failed, the model was looked at again, and once it was wrong: the
thresholds of a zone were ascribed to the region the chip had after the last
reading, also when that reading had failed. They are now ascribed to the regions of
the readings that were distances.

Only model-checked: the liveness properties (`Settles`, `GetsReady`, `StartsUp`,
`AlwaysAnswered`, `BridgeFrees`, `WorkingSensorsServed`, `MissingSensorsBackOff`,
`BothZonesServed`, `CatchesUp`), since liveness and ENABLED are outside the prover,
and the two violations.

## 6. Not modelled

See "components" in `PROJECT.json`. Left out for good: markup and style of the web
pages, Home Assistant templates, ESPHome's code generation, the bring-up
diagnostics and sketches, whose behaviour is layout, text or another program's.
Within modelled parts:

* displayed values (`duration_ms`, `uncertain_timing`, texts, sensors of the health
  of the device), the Welford mean, the drift of the baseline under a running zone;
* that a deadline long past is in the future again after 2^31 ms: in particular,
  `next_rediscovery_ms_` is kept after the first discovery, so a bus that is lost
  after 24.8 days of uptime is not retried until the difference turns positive;
* in `tof_overdoor_counter`, modes other than COUNT, and settings that are changed
  in the middle of an interval;
* in the legacy counter, the inversion of the direction (saved but not restored),
  the ranging mode and its change, and the fact that the handlers of the legacy
  page run in the HTTP task without a bridge: that is a data race, whose outcomes
  the source does not fix, and `Roode` takes these actions between two passes.
