-------------------------------- MODULE Node --------------------------------
(***************************************************************************)
(* The life of one device, from boot to boot: tof_overdoor_counter.cpp's   *)
(* update() with everything that is saved, loaded, migrated or restarted.  *)
(* Detection, calibration and the sensors are the other modules' matter:   *)
(* here a pass may count somebody, and enough channels may be calibrated.  *)
(*                                                                         *)
(* A save goes to ESPHome's preferences, which write it to flash later and *)
(* at a restart in good order.  millis() starts at 0 and wraps; a time     *)
(* that is not read again is 0.                                            *)
(***************************************************************************)
EXTENDS CountingCore

CONSTANTS
  DiscoveryMs, RetryMs, \* COLD_BOOT_SETTLE_MS, SENSOR_RECOVERY_BASE_MS
  ColdMs,               \* cold_boot_soft_reset_delay_ms_
  GuardMs,              \* wifi_recovery_timeout_ms_, 0 for never
  BusFailures,          \* bound: how often Wire.begin fails in one boot
  Hasty,                \* operators act before the saved state is loaded
  Found,                \* what flash may hold when the firmware is installed
  Requests,             \* the settings operators ask for
  MaxConfirmed,         \* bound: no passage beyond this count
  Steps                 \* milliseconds between two passes

\* The five cumulative counters are one number, confirmed: they differ in what
\* advances them.  A saved calibration is absent, measured over two fields
\* mixed up (what layouts before 8 may hold), or each zone's own.
PERSISTED_STATE_VERSION == 8
Layouts == 3 .. PERSISTED_STATE_VERSION
Calibrations == {"none", "mixed", "own"}

Saved == [version : Layouts, people : Int, confirmed : Nat, max_people : Nat,
          trigger : Nat, release : Nat, auto_save : BOOLEAN, calibrated : Calibrations]

\* Flash without a readable record, and no save waiting to be written.
NOTHING == [version |-> 0, people |-> 0, confirmed |-> 0]

ASSUME NodeAssumption ==
  /\ {DiscoveryMs, RetryMs, ColdMs, GuardMs} \subseteq Time
  /\ Steps \subseteq Time /\ MaxConfirmed \in Nat /\ BusFailures \in Nat
  /\ Hasty \in BOOLEAN
  /\ Found \subseteq Saved \cup {NOTHING}
  /\ Requests \subseteq [trigger : Int, release : Int, max_people : Int, auto_save : BOOLEAN]

\* Only records of this layout hold each zone's own baselines.
ASSUME OldBaselines ==
  \A record \in Found \ {NOTHING} :
    /\ record.calibrated = "own" => record.version = PERSISTED_STATE_VERSION
    /\ record.version = PERSISTED_STATE_VERSION => record.calibrated # "mixed"

VARIABLES
  now,
  \* the boot
  cold, cold_due,       \* esp_reset_reason() and cold_boot_reset_..., ..._due_ms_
  next_rediscovery, wire, failures, loaded,
  \* DisconnectionGuard
  waiting, disconnected_since,
  \* what is saved
  people, confirmed, max_people, trigger, release, auto_save, calibrated,
  calibrating, dirty,
  \* the preferences: what is saved and not yet written, and flash
  pending, flash,
  offline               \* observer: for how long every pass found the network gone

boot == <<cold, cold_due, next_rediscovery, wire, failures, loaded>>
guard == <<waiting, disconnected_since, offline>>
counts == <<people, confirmed>>
settings == <<max_people, trigger, release, auto_save>>
vars == <<now, boot, guard, counts, settings, calibrated, calibrating, dirty, pending, flash>>

Smaller(a, b) == IF a < b THEN a ELSE b
Clamp(x, low, high) == IF x < low THEN low ELSE Smaller(x, high)

-----------------------------------------------------------------------------
(* Settings.                                                               *)

\* sanitize_persisted
Sanitized(x, low, high, fallback) == IF x \in low .. high THEN x ELSE fallback

\* Mutant: the hysteresis may be inverted.
ReleaseAsAsked(r, t) == r

ReleaseBelow(r, t) == IF r >= t THEN t \div 2 ELSE r

\* The configuration's, until the saved ones are loaded.
Configured == max_people' = 50 /\ trigger' = 320 /\ release' = 160 /\ auto_save' = TRUE

-----------------------------------------------------------------------------
(* persist_runtime_state and load_persisted_state_.                        *)

Record == [version |-> PERSISTED_STATE_VERSION, people |-> people, confirmed |-> confirmed,
           max_people |-> max_people, trigger |-> trigger, release |-> release,
           auto_save |-> auto_save, calibrated |-> calibrated]

Persist == pending' = Record' /\ dirty' = FALSE

Latest == IF pending = NOTHING THEN flash ELSE pending

\* Mutant: the calibrations of an earlier layout are kept.
MigratedWhole(r) == [r EXCEPT !.version = PERSISTED_STATE_VERSION]

\* Layout 4 kept an absolute clear distance, layout 3 none that is converted.
Migrated(r) ==
  IF r.version = PERSISTED_STATE_VERSION THEN r
  ELSE [r EXCEPT !.version = PERSISTED_STATE_VERSION, !.calibrated = "none",
          !.release = CASE r.version = 3 -> 160
                        [] r.version = 4 -> Smaller(160, r.trigger \div 2)
                        [] OTHER -> @]

\* apply_calibration_defaults_: settings out of range fall back to the defaults.
Defaults(r) ==
  /\ max_people' = Sanitized(r.max_people, 1, 5000, 50)
  /\ trigger' = Sanitized(r.trigger, 40, 3000, 320)
  /\ release' = ReleaseBelow(Sanitized(r.release, 20, 1000, 160), trigger')

Restore(r) ==
  /\ Defaults(r)
  /\ people' = Clamp(r.people, 0, max_people')
  /\ confirmed' = r.confirmed
  /\ auto_save' = r.auto_save /\ calibrated' = r.calibrated

\* unsaved: dirty before the load.  Without a record the channels start
\* uncalibrated and everything else keeps its value.
Load(r, unsaved) ==
  IF r = NOTHING
  THEN calibrated' = "none" /\ dirty' = unsaved /\ UNCHANGED <<counts, settings>>
  ELSE Restore(Migrated(r)) /\ dirty' = (unsaved \/ r.version < PERSISTED_STATE_VERSION)

\* Mutant: rediscovering the sensors forgets what is not saved.
DiscoverStale ==
  /\ Load(Latest, dirty) /\ UNCHANGED pending
  /\ loaded' = TRUE /\ calibrating' = TRUE

\* rediscover(): save if there is something to save, and load it into fresh channels.
Discover ==
  /\ IF loaded THEN Load(Record, FALSE) /\ pending' = Record
     ELSE Load(Latest, dirty) /\ UNCHANGED pending
  /\ loaded' = TRUE /\ calibrating' = TRUE

-----------------------------------------------------------------------------
(* Boots.                                                                  *)

\* setup() after a reset; content is what flash holds then.
Boot(content, reset_by_power) ==
  /\ now' = 0
  /\ cold' = (IF reset_by_power THEN "power-on" ELSE "soft") /\ cold_due' = 0
  /\ next_rediscovery' = DiscoveryMs /\ wire' = FALSE /\ failures' = 0 /\ loaded' = FALSE
  /\ waiting' = FALSE /\ disconnected_since' = 0 /\ offline' = 0
  /\ people' = 0 /\ confirmed' = 0 /\ Configured /\ calibrated' = "none"
  /\ calibrating' = TRUE /\ dirty' = FALSE
  /\ pending' = NOTHING /\ flash' = content

\* App.safe_reboot(): the shutdown hook of the preferences writes what is pending.
SafeReboot == Boot(Latest, FALSE)

\* A loss of power, or a crash.
PowerLoss == \E reset_by_power \in BOOLEAN : Boot(flash, reset_by_power)

-----------------------------------------------------------------------------
(* update(), in the order of its returns.  away: the station is not        *)
(* connected, nor disabled (which passes a timeout of 0).                  *)

\* Mutant: a reconnection does not end the outage.
WatchForgetful(away) ==
  /\ waiting' = (waiting \/ away)
  /\ disconnected_since' = IF waiting \/ ~away THEN disconnected_since ELSE now'

\* DisconnectionGuard::update
Watch(away) ==
  /\ waiting' = (away /\ GuardMs # 0)
  /\ disconnected_since' = IF waiting' THEN IF waiting THEN disconnected_since ELSE now' ELSE 0

GuardFires(away, at) ==
  away /\ GuardMs # 0 /\ waiting /\ Elapsed(disconnected_since, at) >= GuardMs

\* Mutant: the restart does not save.
GuardRestartAtOnce(step, away) == GuardFires(away, Later(now, step)) /\ Boot(flash, FALSE)

GuardRestart(step, away) == GuardFires(away, Later(now, step)) /\ Boot(Record, FALSE)

\* Mutant: every boot schedules a restart.
ColdAlways == cold # "over"

\* The first pass after a power-on schedules one restart.
ColdPending == cold \in {"power-on", "pending"}
ColdDue(at) == IF cold # "pending" THEN Later(at, ColdMs) ELSE cold_due
ColdPassed(at) == ColdPending /\ Signed(Elapsed(ColdDue(at), at)) >= 0

\* ESP.restart() runs no shutdown hook.
ColdRestart(step, away) ==
  /\ ~GuardFires(away, Later(now, step)) /\ ColdPassed(Later(now, step))
  /\ Boot(flash, FALSE)

GoOn(step, away) ==
  /\ now' = Later(now, step)
  /\ ~GuardFires(away, now') /\ ~ColdPassed(now')
  /\ Watch(away)
  /\ offline' = IF away /\ waiting THEN Smaller(offline + step, GuardMs) ELSE 0
  /\ cold' = IF ColdPending THEN "pending" ELSE "over"
  /\ cold_due' = IF ColdPending THEN ColdDue(now') ELSE 0
  /\ UNCHANGED flash

\* The bus: initialize_wire_ and the first discovery.
DiscoveryDue(at) == next_rediscovery = 0 \/ Signed(Elapsed(next_rediscovery, at)) >= 0

AwaitBus(step, away) ==
  /\ ~wire /\ GoOn(step, away) /\ ~DiscoveryDue(now')
  /\ UNCHANGED <<next_rediscovery, wire, failures, loaded, counts, settings, calibrated,
                 calibrating, dirty, pending>>

BusFailed(step, away) ==
  /\ ~wire /\ GoOn(step, away) /\ DiscoveryDue(now')
  /\ failures < BusFailures /\ failures' = failures + 1
  /\ next_rediscovery' = Later(now', RetryMs)
  /\ UNCHANGED <<wire, loaded, counts, settings, calibrated, calibrating, dirty, pending>>

StartBus(step, away) ==
  /\ ~wire /\ GoOn(step, away) /\ DiscoveryDue(now')
  /\ wire' = TRUE /\ Discover
  /\ UNCHANGED <<next_rediscovery, failures>>

\* service_recovery_ resets a bus it cannot talk to: it may stay down.
BusHolds ==
  \/ UNCHANGED <<wire, failures>>
  \/ failures < BusFailures /\ failures' = failures + 1 /\ wire' = FALSE

\* A pass that is still calibrating when it ends: whatever else is unsaved waits.
\* calibrated says that enough channels are, measured that a channel became so.
Calibrate(step, away) ==
  /\ wire /\ calibrating /\ GoOn(step, away) /\ BusHolds
  /\ UNCHANGED <<counts, settings, loaded, next_rediscovery>>
  /\ \/ UNCHANGED <<calibrated, calibrating, pending, dirty>>
     \/ /\ calibrated' \in {calibrated, "own"}
        /\ calibrating' \in {TRUE, calibrated' = "none"}
        /\ IF auto_save THEN Persist ELSE dirty' = TRUE /\ UNCHANGED pending

\* register_detection_: somebody went in or out, or something uncertain was counted.
CountBy(change) ==
  /\ confirmed < MaxConfirmed /\ confirmed' = confirmed + 1
  /\ people' = Clamp(people + change, 0, max_people)

\* Mutant: the count is forgotten until something else changes.
SavedAtEndUncounted(counted) ==
  IF dirty /\ auto_save THEN Persist ELSE UNCHANGED <<dirty, pending>>

SavedAtEnd(counted) ==
  IF (dirty \/ counted) /\ auto_save THEN Persist
  ELSE dirty' = (dirty \/ counted) /\ UNCHANGED pending

\* A pass that may count: enough calibrated channels are in service.
Count(step, away) ==
  /\ wire /\ (calibrating => calibrated # "none") /\ GoOn(step, away) /\ BusHolds
  /\ calibrating' = FALSE /\ UNCHANGED <<settings, calibrated, loaded, next_rediscovery>>
  /\ \/ UNCHANGED counts /\ SavedAtEnd(FALSE)
     \/ \E change \in {-1, 0, 1} : CountBy(change) /\ SavedAtEnd(TRUE)

Update ==
  \E step \in Steps, away \in BOOLEAN :
    \/ GuardRestart(step, away) \/ ColdRestart(step, away)
    \/ AwaitBus(step, away) \/ BusFailed(step, away) \/ StartBus(step, away)
    \/ Calibrate(step, away) \/ Count(step, away)

-----------------------------------------------------------------------------
(* Operators: the web page's actions and the entities of Home Assistant.   *)

Acts == (loaded \/ Hasty) /\ UNCHANGED <<now, cold, cold_due, next_rediscovery, wire,
                                         failures, guard, flash>>

\* set_trigger_delta_mm, set_release_delta_mm, set_max_people_inside, set_auto_save.
ApplySettings(request) ==
  /\ Acts /\ UNCHANGED <<confirmed, calibrated, calibrating, loaded>>
  /\ trigger' = Clamp(request.trigger, 80, 1200)
  /\ release' = ReleaseBelow(Clamp(request.release, 40, 900), trigger')
  /\ max_people' = Clamp(request.max_people, 1, 500)
  /\ people' = Smaller(people, max_people')
  /\ auto_save' = request.auto_save
  /\ Persist

\* The page saves a reset at once, the button of Home Assistant leaves it to the
\* end of a pass.
ResetCounts ==
  /\ Acts /\ UNCHANGED <<settings, calibrated, calibrating, loaded>>
  /\ people' = 0 /\ confirmed' = 0
  /\ Persist \/ (dirty' = TRUE /\ UNCHANGED pending)

SetPeopleInside(value) ==
  /\ Acts /\ UNCHANGED <<confirmed, settings, calibrated, calibrating, loaded>>
  /\ people' = Clamp(value, 0, max_people)
  /\ Persist

Recalibrate ==
  /\ Acts /\ UNCHANGED <<counts, settings, dirty, pending, loaded>>
  /\ calibrated' = "none" /\ calibrating' = TRUE

Rediscover == Acts /\ Discover

Operate ==
  \/ \E request \in Requests : ApplySettings(request)
  \/ ResetCounts \/ Recalibrate \/ Rediscover
  \/ \E value \in {60} : SetPeopleInside(value)

\* IntervalSyncer, every flash_write_interval.
Sync ==
  /\ pending # NOTHING /\ flash' = pending /\ pending' = NOTHING
  /\ UNCHANGED <<now, boot, guard, counts, settings, calibrated, calibrating, dirty>>

Init ==
  /\ now = 0 /\ cold = "power-on" /\ cold_due = 0
  /\ next_rediscovery = DiscoveryMs /\ wire = FALSE /\ failures = 0 /\ loaded = FALSE
  /\ waiting = FALSE /\ disconnected_since = 0 /\ offline = 0
  /\ people = 0 /\ confirmed = 0
  /\ max_people = 50 /\ trigger = 320 /\ release = 160 /\ auto_save = TRUE
  /\ calibrated = "none" /\ calibrating = TRUE /\ dirty = FALSE
  /\ pending = NOTHING /\ flash \in Found

Next == Update \/ Operate \/ Sync \/ SafeReboot \/ PowerLoss

\* ESPHome calls update() again and again, and its preferences write every so often.
Spec == Init /\ [][Next]_vars /\ WF_vars(Update) /\ WF_vars(Sync)

-----------------------------------------------------------------------------
(* Properties.                                                             *)

Coherent ==
  /\ people \in 0 .. max_people /\ max_people \in 1 .. 5000
  /\ release \in 0 .. trigger - 1

\* The types, with what load and the setters keep between two settings: the people
\* inside never exceed the maximum, and the release delta is below the trigger.
TypeOK ==
  /\ {now, cold_due, next_rediscovery, disconnected_since} \subseteq Time
  /\ {wire, loaded, waiting, auto_save, calibrating, dirty} \subseteq BOOLEAN
  /\ cold \in {"power-on", "soft", "pending", "over"}
  /\ failures \in 0 .. BusFailures /\ offline \in 0 .. GuardMs
  /\ confirmed \in Nat /\ trigger \in Nat /\ calibrated \in Calibrations
  /\ {pending, flash} \subseteq Saved \cup {NOTHING}
  /\ Coherent

\* The counts, and the maximum that limits them, are those of a record.
GivenBackBy(r) ==
  IF r = NOTHING THEN people = 0 /\ confirmed = 0
  ELSE /\ confirmed = r.confirmed /\ people = Clamp(r.people, 0, max_people)
       /\ max_people = Sanitized(r.max_people, 1, 5000, 50)

\* What the RAM holds and dirty does not mark is what a restart gives back.
CleanMeansSaved == loaded /\ ~dirty => GivenBackBy(Latest)

\* Whatever layout was found and however often the device restarted since: no
\* channel counts with a baseline that was measured over two fields.
NoMixedBaselines == calibrated # "mixed"

\* Each restart of the guard follows an outage that every pass saw, of the full
\* timeout: a reconnection ends it.
GuardAfterOutage ==
  [][\A step \in Steps : GuardRestart(step, TRUE) => offline + step >= GuardMs]_vars

\* "A station-only Wi-Fi guard saves counts" before it restarts the device: what
\* the device shows after it is what it had, or would have loaded, before.
CountsOf(r) ==
  IF r = NOTHING THEN [people |-> 0, confirmed |-> 0]
  ELSE [people |-> Clamp(r.people, 0, Sanitized(r.max_people, 1, 5000, 50)),
        confirmed |-> r.confirmed]

Tally == IF loaded THEN [people |-> people, confirmed |-> confirmed] ELSE CountsOf(Latest)

GuardSavesCounts ==
  [][\A step \in Steps : GuardRestart(step, TRUE) => Tally' = Tally]_vars

\* The counts behave as a ledger: they change by a passage or by an operator, and
\* a restart gives back counts that the device had.
Abstract == INSTANCE Ledger WITH
  People <- 0 .. 5000, Totals <- Nat,
  tally <- Tally, saved <- CountsOf(Latest), written <- CountsOf(flash)
Implements == Abstract!Spec

\* A device that keeps its power loads its counts and works, for ever: its own
\* restarts, after a power-on and for the network, do not follow upon each other.
StartsUp == <>[][Update \/ Operate \/ Sync]_vars => []<>(loaded /\ wire)
=============================================================================
