---------------------------- MODULE Calibration ----------------------------
(***************************************************************************)
(* From an uncalibrated device to one that counts: process_calibration_,   *)
(* the startup lock of update_sensor_states_ and the idle tracking of      *)
(* baselines in tof_overdoor_counter.cpp, for the channels together.       *)
(*                                                                         *)
(* A reading is "far" when it is what an empty doorway reads: beyond the   *)
(* minimum clear distance and, with a baseline, within the release delta.  *)
(* A dropout that an occupied field bridges counts as no reading.          *)
(* Passes are far more frequent than results, so at most one channel has   *)
(* one in a pass.  Time is counted in passes, and the two times that are   *)
(* waited for are kept as ages.  The debounce of a field is two samples,   *)
(* as ZoneSignal shows, and its filtered distance follows the raw one at   *)
(* once; who counts is Fusion's matter.                                    *)
(***************************************************************************)
EXTENDS Naturals, FiniteSets

CONSTANTS
  Channels,
  MinValid, MinEvent, \* min_valid_sensors_, min_event_sensors_
  Samples,            \* calibration_samples_
  Settle, BootSettle  \* CALIBRATION_CLEAR_SETTLE_MS, BOOT_CLEAR_SETTLE_MS, in passes

Quorum == IF MinValid > MinEvent THEN MinValid ELSE MinEvent

ASSUME CalibrationAssumption ==
  /\ IsFiniteSet(Channels) /\ {MinValid, MinEvent, Samples} \subseteq Nat \ {0}
  /\ {Settle, BootSettle} \subseteq Nat

Zones == {"OUT", "IN"}
Fields == Channels \X Zones
Views == {"none", "bad", "far", "near"}

VARIABLES
  up,          \* the channels that are initialized and ranging
  turn,        \* the zone each channel measures
  view,        \* the last result of each field; "none" if there is none or it is stale
  calibrated,  \* the channels with a baseline for both fields
  count,       \* samples towards the baseline of each field that is to have one
  hits, on,    \* fields with a debounce candidate, and active fields
  event,       \* event_active_
  calibrating, \* calibration_active_
  clear_age,   \* now - calibration_clear_since_ms_ + 1, or 0 when that is unset
  startup,     \* startup_clear_validated_
  boot_age,    \* now - boot_clear_since_ms_ + 1, or 0 when that is unset
  spell,       \* observer: calibrating passes in a row that saw nobody and enough channels clear
  locked_for,  \* observer: locked passes in a row that saw nobody and enough channels
  moved        \* observer: fields that read "near" and a baseline was tracked at that
               \* result or after it

signals == <<turn, view, hits, on>>
vars == <<up, signals, calibrated, count, event, calibrating, clear_age, startup, boot_age,
          spell, locked_for, moved>>

Clip(n, most) == IF n < most THEN n ELSE most

-----------------------------------------------------------------------------
(* The channels of a pass: views is what the fields read after it.         *)

\* channel_healthy_, without and with a baseline.
Reporting(views) == {c \in up : \A z \in Zones : views[c, z] \in {"far", "near"}}
Healthy(views) == Reporting(views) \cap calibrated

\* has_restored_calibration_
Restored(channels) == Cardinality(up \cap channels) >= MinValid

Active(fields) == fields # {}

Other(zone) == CHOOSE z \in Zones : z # zone

-----------------------------------------------------------------------------
(* update_sensor_states_                                                   *)

\* The fields whose debounce goes on; every other one is wiped.
Debouncing(views) ==
  {f \in Fields : /\ f[1] \in up \cap calibrated /\ views[f] \in {"far", "near"}
                  /\ \A z \in Zones : views[f[1], z] # "none"}

\* A fresh, live field disagrees with its side when an active one reads "far", or
\* another one drops by the trigger delta, which is more than the release delta
\* that makes a reading "near".  The first disagreement is pending, the second
\* switches the field.
Debounced(disagreeing, live, fresh) ==
  LET switched == disagreeing \cap hits
  IN /\ hits' = (disagreeing \ hits) \cup ((hits \cap live) \ fresh)
     /\ on' = ((on \cap live) \ switched) \cup (switched \ on)

Debounce(live, fresh, views) ==
  LET released == {f \in live \cap fresh \cap on : views[f] = "far"}
      lower == {f \in (live \cap fresh) \ on : views[f] = "near"}
  IN \E triggered \in SUBSET lower : Debounced(released \cup triggered, live, fresh)

\* The startup lock.
\* Mutant: a disturbance does not start the wait again.
UnlockPatient(clear) ==
  IF startup \/ ~clear THEN UNCHANGED <<startup, boot_age>>
  ELSE boot_age' = Clip(boot_age + 1, BootSettle + 1) /\ startup' = (boot_age > 0 /\ boot_age >= BootSettle)

Unlock(clear) ==
  CASE startup -> UNCHANGED <<startup, boot_age>>
    [] ~startup /\ ~clear -> boot_age' = 0 /\ UNCHANGED startup
    [] OTHER -> /\ boot_age' = Clip(boot_age + 1, BootSettle + 1)
                /\ startup' = (boot_age > 0 /\ boot_age >= BootSettle)

-----------------------------------------------------------------------------
(* process_calibration_                                                    *)

\* Mutant: an occupied doorway costs no samples.
ForgottenNever(f) == count[f]

\* A doorway that is not clear: the samples of uncalibrated fields are dropped.
Forgotten(f) == IF f[1] \in calibrated THEN count[f] ELSE 0

\* One result of a channel that has no baseline yet.
Counted(f, fresh, views) ==
  IF f[1] \in Reporting(views) \ calibrated /\ f \in fresh
  THEN IF views[f] = "far" THEN Clip(count[f] + 1, Samples) ELSE 0
  ELSE count[f]

\* Enough samples of both fields.  Noise decides which of them become baselines; the
\* others are dropped, and neither counts for anything any more.
Full(counted, views) ==
  {c \in Reporting(views) \ calibrated : \A z \in Zones : counted[c, z] >= Samples}

Measured(fresh, views) ==
  LET counted == [f \in Fields |-> Counted(f, fresh, views)]
      full == Full(counted, views)
  IN /\ count' = [f \in Fields |-> IF f[1] \in full THEN 0 ELSE counted[f]]
     /\ \E stable \in SUBSET full : calibrated' = calibrated \cup stable

ClearChannels(views) == {c \in Reporting(views) : \A z \in Zones : views[c, z] = "far"}

EnoughClear(views) == Cardinality(ClearChannels(views)) >= MinValid

\* someone: an episode is under way, or a field is active.  The early return leaves
\* the samples as they are, and the clear timer running.
Process(someone, fresh, views) ==
  CASE someone -> /\ clear_age' = IF clear_age = 0 THEN 0 ELSE Clip(clear_age + 1, Settle + 1)
                  /\ UNCHANGED <<count, calibrated>>
    [] ~someone /\ ~EnoughClear(views) ->
         /\ clear_age' = 0
         /\ count' = [f \in Fields |-> Forgotten(f)] /\ UNCHANGED calibrated
    [] OTHER ->
         /\ clear_age' = Clip(clear_age + 1, Settle + 1)
         /\ IF clear_age' <= Settle THEN UNCHANGED <<count, calibrated>> ELSE Measured(fresh, views)

-----------------------------------------------------------------------------
(* update()                                                                *)

\* A pass that calibrates and does nothing else.
CalibrationPass(fresh, views) ==
  /\ calibrating /\ ~Restored(calibrated)
  /\ Process(event \/ Active(on), fresh, views)
  /\ calibrating' = ~Restored(calibrated')
  /\ spell' = IF ~event /\ ~Active(on) /\ EnoughClear(views) THEN Clip(spell + 1, Settle + Samples)
              ELSE 0
  /\ moved' = moved \ fresh /\ UNCHANGED <<hits, on, event, locked_for>>
  /\ IF calibrating' THEN UNCHANGED <<startup, boot_age>> ELSE startup' = FALSE /\ boot_age' = 0

\* The episode of Fusion: none before the startup lock is open or with too few
\* channels; an active field may begin one, and one may end when nobody is seen.
Episode(enough) == IF startup' /\ enough THEN {event, Active(on')} ELSE {FALSE}

\* Mutant: a candidate does not keep the baselines from being tracked.
TracksAlways == ~event' /\ ~calibrating' /\ startup' /\ ~Active(on')

\* The guards of apply_idle_baseline_tracking_, and the fields it tracks.
Tracks == ~event' /\ ~calibrating' /\ startup' /\ ~Active(on') /\ hits' = {}
Tracked(fresh, views) ==
  {f \in fresh : Tracks /\ f[1] \in up \cap calibrated' /\ views[f] \in {"far", "near"}}

CountingPass(fresh, views) ==
  /\ ~calibrating \/ Restored(calibrated)
  /\ calibrating' = FALSE /\ spell' = 0
  /\ Debounce(Debouncing(views), fresh, views)
  /\ Process(event \/ Active(on'), fresh, views)
  /\ LET enough == Cardinality(Healthy(views)) >= Quorum
         clear == enough /\ ~Active(on')
     IN /\ Unlock(clear) /\ event' \in Episode(enough)
        /\ locked_for' = IF clear /\ ~startup THEN Clip(locked_for + 1, BootSettle + 1) ELSE 0
  /\ moved' = IF Tracked(fresh, views) = {} THEN moved \ fresh
              ELSE {f \in Fields : views[f] = "near"}

Updated(fresh) == CalibrationPass(fresh, view') \/ CountingPass(fresh, view')

\* A pass in which a channel has a result for the field it measures.
Pass(c) ==
  /\ c \in up /\ view' \in {[view EXCEPT ![<<c, turn[c]>>] = v] : v \in {"bad", "far", "near"}}
  /\ turn' = [turn EXCEPT ![c] = Other(@)]
  /\ Updated({<<c, turn[c]>>}) /\ UNCHANGED up

\* A pass between the results.
IdlePass == UNCHANGED <<up, turn, view>> /\ Updated({})

-----------------------------------------------------------------------------
(* What happens to the channels between two passes.                        *)

Of(c) == {f \in Fields : f[1] = c}
Without(fields, c) == fields \ Of(c)
Blank(function, channels, value) == [f \in Fields |-> IF f[1] \in channels THEN value ELSE function[f]]

\* A power cycle keeps the baselines and nothing else.
PowerCycle(c) ==
  /\ up' = up \ {c}
  /\ view' = Blank(view, {c}, "none") /\ count' = Blank(count, {c}, 0)
  /\ hits' = Without(hits, c) /\ on' = Without(on, c)
  /\ UNCHANGED <<turn, calibrated, event, calibrating, clear_age, startup, boot_age,
                 spell, locked_for, moved>>

Recovered(c) ==
  /\ c \notin up /\ up' = up \cup {c}
  /\ UNCHANGED <<signals, calibrated, count, event, calibrating, clear_age, startup, boot_age,
                 spell, locked_for, moved>>

\* A field without a result for too long.
Fade(c) ==
  /\ c \in up /\ view' = Blank(view, {c}, "none")
  /\ UNCHANGED <<up, turn, hits, on, calibrated, count, event, calibrating, clear_age, startup,
                 boot_age, spell, locked_for, moved>>

\* service_recovery_ found the bus held low: what was seen so far is no evidence.
BusReset ==
  /\ event' = FALSE /\ startup' = FALSE /\ boot_age' = 0 /\ locked_for' = 0
  /\ UNCHANGED <<up, signals, calibrated, count, calibrating, clear_age, spell, moved>>

\* Mutant: the episode under way goes on.
StartOverQuietly ==
  /\ calibrating' = TRUE /\ startup' = FALSE /\ boot_age' = 0 /\ locked_for' = 0
  /\ hits' = {} /\ on' = {}
  /\ view' = [f \in Fields |-> "none"] /\ count' = [f \in Fields |-> 0]
  /\ UNCHANGED <<turn, event, moved>>

\* Mutant: the fields stay active, though nothing samples their release.
StartOverOccupied ==
  /\ calibrating' = TRUE /\ event' = FALSE /\ startup' = FALSE /\ boot_age' = 0 /\ locked_for' = 0
  /\ hits' = {} /\ UNCHANGED <<turn, on, moved>>
  /\ view' = [f \in Fields |-> "none"] /\ count' = [f \in Fields |-> 0]

\* What recalibrate() and rediscover() have in common.
StartOver ==
  /\ calibrating' = TRUE /\ event' = FALSE /\ startup' = FALSE /\ boot_age' = 0 /\ locked_for' = 0
  /\ hits' = {} /\ on' = {}
  /\ view' = [f \in Fields |-> "none"] /\ count' = [f \in Fields |-> 0]
  /\ UNCHANGED <<turn, moved>>

Recalibrate ==
  /\ StartOver
  /\ calibrated' = {} /\ clear_age' = 0 /\ spell' = 0
  /\ UNCHANGED up

\* The saved baselines are restored; calibration_clear_since_ms_ is not reset.
Rediscover ==
  /\ StartOver
  /\ up' = {} /\ UNCHANGED <<calibrated, clear_age, spell>>

Init ==
  /\ up = {} /\ turn = [c \in Channels |-> "OUT"]
  /\ view = [f \in Fields |-> "none"] /\ count = [f \in Fields |-> 0]
  /\ calibrated \in SUBSET Channels
  /\ hits = {} /\ on = {} /\ moved = {}
  /\ event = FALSE /\ calibrating = TRUE /\ startup = FALSE
  /\ clear_age = 0 /\ boot_age = 0
  /\ spell = 0 /\ locked_for = 0

Next ==
  \/ IdlePass \/ BusReset \/ Recalibrate \/ Rediscover
  \/ \E c \in Channels : Pass(c) \/ PowerCycle(c) \/ Recovered(c) \/ Fade(c)

\* The loop goes on; a channel that is up has results, and one that is not is
\* recovered (Recovery).
Spec ==
  /\ Init /\ [][Next]_vars
  /\ \A c \in Channels : WF_vars(Pass(c)) /\ WF_vars(Recovered(c))

-----------------------------------------------------------------------------
(* Properties.                                                             *)

\* While the device calibrates, a baseline in the making rests on one spell of a clear
\* doorway, after it had settled: no sample is left from before a pass that saw
\* somebody or too few clear channels, though the clear timer outlives a rediscovery.
OneClearSpell ==
  calibrating =>
    \A f \in Fields : f[1] \notin calibrated /\ count[f] > 0 => spell >= Settle + count[f]

\* Nobody is counted while the device calibrates, whatever it was doing before.
CalibrationIsExclusive == calibrating => ~startup /\ ~event /\ on = {}

\* "Counting is locked until the doorway was confirmed empty" for the whole time,
\* at every pass, with enough healthy channels.
UnlockedByEmptyDoorway == [][~startup /\ startup' => locked_for' > BootSettle]_vars

\* An approach is not learned: when a result makes a field active, no baseline, its own
\* included, was tracked at its result before that one or after it, whatever the
\* other channels read and lost meanwhile.
ApproachIsNotLearned == [][\A f \in on' \ on : f \notin moved]_vars

\* A step over an empty doorway: a channel is recovered, or a pass reads "far" or
\* nothing, the samples of a baseline are steady, and an episode ends once nobody
\* is seen.
QuietStep ==
  \/ up' \ up # {}
  \/ /\ \/ \E c \in up : turn'[c] # turn[c] /\ view' = [view EXCEPT ![<<c, turn[c]>>] = "far"]
        \/ IdlePass
     /\ \A f \in Fields : count'[f] >= count[f]
     /\ event' => Active(on')

\* Over an empty doorway the device gets ready to count and stays so, whatever it
\* had saved and whatever happened before.
Ready == ~calibrating /\ startup /\ Cardinality(Healthy(view)) >= Quorum
GetsReady == <>[][QuietStep]_vars => <>[]Ready
=============================================================================
