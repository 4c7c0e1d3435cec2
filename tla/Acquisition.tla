---------------------------- MODULE Acquisition ----------------------------
(***************************************************************************)
(* One channel of tof_overdoor_counter.cpp and its VL53L1X.  The channel   *)
(* looks at two zones in turn: it reads a result, stops the sensor, moves  *)
(* the region of interest (ROI) and starts the sensor again.  A result     *)
(* carries no trace of the ROI it was measured with, so the channel has to *)
(* know it: read_channel_, switch_channel_zone_ and restart_ranging_.      *)
(*                                                                         *)
(* The sensor goes on by itself.  Left alone it starts another range after *)
(* Guard, and told to stop it completes the range in progress.  Each I2C   *)
(* transfer of the channel is a step.  Time passes between any two, and a  *)
(* transfer that is reported as failed may have reached the sensor.        *)
(***************************************************************************)
EXTENDS Integers

CONSTANTS
  Budget,    \* the longest a range takes: timing_budget_ms_
  Guard,     \* the sensor repeats a range after this: guarded_intermeasurement_ms_
  Margin,    \* guard_margin: how long before that a result is given up
  Settle,    \* how long a stopped sensor is left alone: timing_budget_ms_ + 4
  Slip,      \* the longest a transfer takes while the channel is not delayed
  MaxFaults, \* transfers that fail, and power cycles
  MaxStalls  \* ticks by which the main loop is delayed on top of Slip

\* Slip is the only assumption about the speed of the program: a start and the
\* reading of the clock after it, and the reading of the clock and the stop after
\* it, take half of Margin at most.
ASSUME AcquisitionAssumption ==
  /\ {Budget, Guard, Margin, Settle, Slip, MaxFaults, MaxStalls} \subseteq Nat
  /\ Budget < Settle /\ Settle <= Guard
  /\ 2 * Slip <= Margin /\ 0 < Margin /\ Margin <= Guard

VARIABLES
  \* the sensor
  roi,       \* its ROI: a zone, or MIXED
  ranging,   \* it has been started
  range,     \* the field it is measuring, or NONE
  since,     \* since the last range began; no more than Guard
  result,    \* the field of the result it holds ready, or NONE
  \* the channel
  zone,      \* current_zone
  started,   \* ranging_started
  age,       \* since ranging_started_ms; no more than Guard
  settling,  \* settling_after_stop
  left,      \* what is left until stop_settle_deadline_ms
  filed,     \* the last result filed under a zone, and the field it came from
  \* where the channel stands
  pc, got,   \* the next transfer, and the field of the result that was read
  lull,      \* ticks since the last transfer
  faults, stalls

sensor == <<roi, ranging, range, since, result>>
budgets == <<faults, stalls>>
vars == <<sensor, zone, started, age, settling, left, filed, pc, got, lull, budgets>>

Zones == {"OUT", "IN"}
NONE == "none"
MIXED == "mixed"  \* an ROI half written, or a range over two ROIs
Fields == Zones \cup {MIXED}
Places == {"idle", "poll", "get", "clear", "file", "stop", "roi", "start",
           "drain", "rearm", "aim", "launch", "stamp"}

More(t) == IF t < Guard THEN t + 1 ELSE Guard

Less(t) == IF t > 0 THEN t - 1 ELSE 0

\* Mutant: always the same zone.
InAgain(z) == "IN"

Opposite(z) == IF z = "OUT" THEN "IN" ELSE "OUT"

-----------------------------------------------------------------------------
(* The sensor.                                                             *)

\* What a range becomes that is disturbed by another ROI or another start.
Spoilt(field) == IF range = NONE THEN field ELSE MIXED

Aimed(field) ==
  /\ roi' = field
  /\ range' = IF field = roi THEN range ELSE Spoilt(NONE)
  /\ UNCHANGED <<ranging, since, result>>

\* SetROI and SetROICenter are two writes: a failure may leave neither ROI.
AimFailed(field) == \E f \in {roi, field, MIXED} : Aimed(f)

Begun ==
  /\ ranging' = TRUE /\ range' = Spoilt(roi) /\ since' = 0
  /\ UNCHANGED <<roi, result>>

Stopped == ranging' = FALSE /\ UNCHANGED <<roi, range, since, result>>
Cleared == result' = NONE /\ UNCHANGED <<roi, ranging, range, since>>

Finish ==
  /\ range # NONE
  /\ result' = range /\ range' = NONE
  /\ UNCHANGED <<roi, ranging, since, zone, started, age, settling, left, filed, pc, got, lull, budgets>>

\* These two transfers follow the reading of the clock they rely on at once.
Prompt == {"stop", "stamp"}

\* A range is done within Budget; a sensor that is ranging begins the next one
\* after Guard.
Tick ==
  /\ range # NONE => since < Budget
  /\ IF lull < Slip THEN lull' = lull + 1 /\ UNCHANGED budgets
     ELSE pc \notin Prompt /\ stalls > 0 /\ stalls' = stalls - 1 /\ UNCHANGED <<lull, faults>>
  /\ age' = More(age) /\ left' = Less(left)
  /\ IF ranging /\ since + 1 >= Guard
     THEN since' = 0 /\ range' = Spoilt(roi)
     ELSE since' = More(since) /\ UNCHANGED range
  /\ UNCHANGED <<roi, ranging, result, zone, started, settling, filed, pc, got>>

-----------------------------------------------------------------------------
(* read_channel_.                                                          *)

Works(next) == pc' = next /\ lull' = 0 /\ UNCHANGED budgets
Fails == faults > 0 /\ faults' = faults - 1 /\ pc' = "idle" /\ lull' = 0 /\ UNCHANGED stalls

\* A write: if it fails it may have had its effect.
Write(next, Effect) ==
  \/ Works(next) /\ Effect
  \/ Fails /\ (Effect \/ UNCHANGED sensor)

\* The next autonomous range is too near: the ROI of the result is in doubt.
Late == age >= Guard - Margin

\* A pass of update(): what the channel does first.
Pass ==
  /\ pc = "idle"
  /\ \/ started /\ ~Late /\ Works("poll") /\ UNCHANGED started
     \/ started /\ Late /\ started' = FALSE /\ Works("drain")
     \/ ~started /\ ~settling /\ Works("drain") /\ UNCHANGED started
     \/ ~started /\ settling /\ left > 0 /\ Works("idle") /\ UNCHANGED started
     \/ ~started /\ settling /\ left = 0 /\ Works("rearm") /\ UNCHANGED started
  /\ UNCHANGED <<sensor, zone, age, settling, left, filed, got>>

CheckForDataReady ==
  /\ pc = "poll"
  /\ Works(IF result # NONE THEN "get" ELSE "idle") \/ Fails
  /\ UNCHANGED <<sensor, zone, started, age, settling, left, filed, got>>

GetResult ==
  /\ pc = "get"
  /\ \/ Works("clear") /\ got' = result
     \/ Fails /\ UNCHANGED got
  /\ UNCHANGED <<sensor, zone, started, age, settling, left, filed>>

ClearInterrupt ==
  /\ pc = "clear"
  /\ Write("file", Cleared)
  /\ UNCHANGED <<zone, started, age, settling, left, filed, got>>

\* Mutant: the transfers themselves take no time.
FileUnchecked ==
  /\ pc = "file"
  /\ filed' = [zone |-> zone, field |-> got]
  /\ Works("stop")
  /\ UNCHANGED <<sensor, zone, started, age, settling, left, got>>

File ==
  /\ pc = "file" /\ ~Late
  /\ filed' = [zone |-> zone, field |-> got]
  /\ Works("stop")
  /\ UNCHANGED <<sensor, zone, started, age, settling, left, got>>

GiveUp ==
  /\ pc = "file" /\ Late
  /\ started' = FALSE /\ Works("drain")
  /\ UNCHANGED <<sensor, zone, age, settling, left, filed, got>>

-----------------------------------------------------------------------------
(* switch_channel_zone_.                                                   *)

SwitchStop ==
  /\ pc = "stop"
  /\ started' = FALSE
  /\ Write("roi", Stopped)
  /\ UNCHANGED <<zone, age, settling, left, filed, got>>

SwitchZone ==
  /\ pc = "roi"
  /\ \/ Works("start") /\ Aimed(Opposite(zone)) /\ zone' = Opposite(zone)
     \/ Fails /\ AimFailed(Opposite(zone)) /\ UNCHANGED zone
  /\ UNCHANGED <<started, age, settling, left, filed, got>>

SwitchStart ==
  /\ pc = "start"
  /\ Write("stamp", Begun)
  /\ UNCHANGED <<zone, started, age, settling, left, filed, got>>

\* ranging_started_ms = millis(), after StartRanging has returned.
Stamp ==
  /\ pc = "stamp"
  /\ started' = TRUE /\ age' = 0 /\ settling' = FALSE
  /\ Works("idle")
  /\ UNCHANGED <<sensor, zone, left, filed, got>>

-----------------------------------------------------------------------------
(* restart_ranging_: stop, leave the sensor time to complete its range,    *)
(* clear its interrupt, and only then move the ROI and start.              *)

DrainStop ==
  /\ pc = "drain"
  /\ started' = FALSE
  /\ \/ Works("idle") /\ Stopped /\ settling' = TRUE /\ left' = Settle
     \/ Fails /\ (Stopped \/ UNCHANGED sensor) /\ UNCHANGED <<settling, left>>
  /\ UNCHANGED <<zone, age, filed, got>>

Rearm ==
  /\ pc = "rearm"
  /\ Write("aim", Cleared)
  /\ UNCHANGED <<zone, started, age, settling, left, filed, got>>

Aim ==
  /\ pc = "aim"
  /\ \/ Works("launch") /\ Aimed(zone)
     \/ Fails /\ AimFailed(zone)
  /\ UNCHANGED <<zone, started, age, settling, left, filed, got>>

\* Mutant: a start that failed did not reach the sensor.
LaunchWithoutDrain ==
  /\ pc = "launch"
  /\ Write("stamp", Begun)
  /\ UNCHANGED <<settling, zone, started, age, left, filed, got>>

\* A start that failed may have reached the sensor, which is drained again.
Launch ==
  /\ pc = "launch"
  /\ \/ Works("stamp") /\ Begun /\ UNCHANGED settling
     \/ Fails /\ (Begun \/ UNCHANGED sensor) /\ settling' = FALSE
  /\ UNCHANGED <<zone, started, age, left, filed, got>>

-----------------------------------------------------------------------------
\* The recovery powers the sensor down and configure_sensor_ sets it up anew.
PowerCycle ==
  /\ pc = "idle" /\ Fails
  /\ roi' = "OUT" /\ ranging' = FALSE /\ range' = NONE /\ since' = Guard /\ result' = NONE
  /\ zone' = "OUT" /\ started' = FALSE /\ settling' = FALSE
  /\ UNCHANGED <<age, left, filed, got>>

Init ==
  /\ roi = "OUT" /\ ranging = FALSE /\ range = NONE /\ since = Guard /\ result = NONE
  /\ zone = "OUT" /\ started = FALSE /\ age = Guard /\ settling = FALSE /\ left = 0
  /\ filed = [zone |-> NONE, field |-> NONE]
  /\ pc = "idle" /\ got = NONE /\ lull = 0
  /\ faults = MaxFaults /\ stalls = MaxStalls

Channel ==
  \/ Pass \/ CheckForDataReady \/ GetResult \/ ClearInterrupt \/ File \/ GiveUp
  \/ SwitchStop \/ SwitchZone \/ SwitchStart \/ Stamp
  \/ DrainStop \/ Rearm \/ Aim \/ Launch

Next == Channel \/ PowerCycle \/ Finish \/ Tick

Spec == Init /\ [][Next]_vars

\* The main loop keeps going, the sensor finishes its ranges and time goes on.
FairSpec == Spec /\ WF_vars(Channel) /\ WF_vars(Finish) /\ WF_vars(Tick)

-----------------------------------------------------------------------------
TypeOK ==
  /\ roi \in Fields /\ ranging \in BOOLEAN /\ range \in Fields \cup {NONE}
  /\ since \in 0 .. Guard /\ result \in Fields \cup {NONE}
  /\ zone \in Zones /\ started \in BOOLEAN /\ age \in 0 .. Guard
  /\ settling \in BOOLEAN /\ left \in 0 .. Settle
  /\ filed \in [zone : Zones \cup {NONE}, field : Fields \cup {NONE}]
  /\ pc \in Places /\ got \in Fields \cup {NONE} /\ lull \in 0 .. Slip
  /\ faults \in 0 .. MaxFaults /\ stalls \in 0 .. MaxStalls

\* Every result is filed under the zone its range was measured in, from the first
\* photon to the last, whatever transfers fail and however long the loop is delayed.
FiledUnderItsZone == filed.zone = filed.field

\* The ROI never moves under a range in progress.
AimedBetweenRanges == [][range # NONE /\ range' # NONE => roi' = roi]_vars

\* Once transfers work and the loop is on time, results of both zones keep coming.
BothZonesServed == []<>(filed.zone = "OUT") /\ []<>(filed.zone = "IN")
=============================================================================
